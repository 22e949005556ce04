--------------------------- MODULE MCTriggerState ----------------------------
(* A finite instance of TriggerState: the .cfg file gives the constants.   *)
EXTENDS TriggerState
=============================================================================
