----------------------------- MODULE MCShutdown -----------------------------
(* Finite instances of Shutdown.                                           *)
EXTENDS Shutdown, TLC

Symmetric == Permutations(Worker) \cup Permutations(Request) \cup Permutations(Firing)
=============================================================================
