----------------------------- MODULE MCPolling -----------------------------
(* Finite instances of Polling: the .cfg files give every constant.        *)
EXTENDS Polling
=============================================================================
