---------------------------- MODULE MCScheduler ----------------------------
(* Finite instances of Scheduler.                                          *)
EXTENDS Scheduler

(* Workflow a in interval mode, c in cron mode.                            *)
Intervals == [w \in Workflow |-> IF w = "b" THEN 2 ELSE 3]
=============================================================================
