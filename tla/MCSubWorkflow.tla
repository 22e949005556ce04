--------------------------- MODULE MCSubWorkflow ---------------------------
(* Finite instances of SubWorkflow.                                        *)
EXTENDS SubWorkflow, TLC

Symmetric == Permutations(Worker) \cup Permutations(Sub)
=============================================================================
