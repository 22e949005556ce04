----------------------------- MODULE Execution -----------------------------
(***************************************************************************)
(* What the engine promises of an execution row, whatever goroutines,      *)
(* crashes and duplicate jobs stand behind it: the life of its status and  *)
(* the growth of its checkpoint ("done", the visited nodes of the saved    *)
(* state).  Engine implements this module (see RefinesExecution there).    *)
(***************************************************************************)
EXTENDS Workflow

CONSTANTS Exec, None

VARIABLES status, done, waitingAt

execVars == <<status, done, waitingAt>>

Init ==
    /\ status = [e \in Exec |-> "none"]
    /\ done = [e \in Exec |-> {}]
    /\ waitingAt = [e \in Exec |-> None]

Create(e) ==
    /\ status[e] = "none"
    /\ status' = [status EXCEPT ![e] = "running"]
    /\ UNCHANGED <<done, waitingAt>>

(* While the run is not suspended, nodes become done, after their sources; *)
(* none is ever undone.                                                    *)
Checkpoint(e) ==
    /\ status[e] = "running"
    /\ \E new \in SUBSET (Node \ done[e]) :
          /\ Closed(done[e] \cup new)
          /\ done' = [done EXCEPT ![e] = @ \cup new]
    /\ UNCHANGED <<status, waitingAt>>

(* The run stops at a wait node that is not done; nodes skipped since the  *)
(* last checkpoint are recorded with it.                                   *)
Suspend(e) ==
    /\ status[e] = "running"
    /\ status' = [status EXCEPT ![e] = "waiting"]
    /\ \E n \in WaitNodes, skipped \in SUBSET Node :
          /\ n \notin done[e] \cup skipped
          /\ Closed(done[e] \cup skipped \cup {n})
          /\ done' = [done EXCEPT ![e] = @ \cup skipped]
          /\ waitingAt' = [waitingAt EXCEPT ![e] = n]

Resume(e) ==
    /\ status[e] = "waiting"
    /\ status' = [status EXCEPT ![e] = "running"]
    /\ UNCHANGED <<done, waitingAt>>

Finish(e, result) ==
    /\ status[e] = "running"
    /\ status' = [status EXCEPT ![e] = result]
    /\ waitingAt' = [waitingAt EXCEPT ![e] = None]
    /\ UNCHANGED done

Next ==
    \E e \in Exec :
        \/ Create(e) \/ Checkpoint(e) \/ Suspend(e) \/ Resume(e)
        \/ \E result \in {"success", "error"} : Finish(e, result)

Spec == Init /\ [][Next]_execVars
=============================================================================
