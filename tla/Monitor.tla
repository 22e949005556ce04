------------------------------- MODULE Monitor -------------------------------
(***************************************************************************)
(* Watching one execution over HTTP (api/api.go): getExecution answers     *)
(* once with the status and the steps, stream answers again and again      *)
(* until the run is over.  Both read the status and the steps in two       *)
(* queries, between which the engine goes on writing.  Of the execution    *)
(* only the writes to its rows and their order are kept: engine.drive      *)
(* writes a step row before and after each node and the status after them, *)
(* and the recovery of a new process fails the rows left running.  The     *)
(* execution is one that workers drive, so one at a time (Engine); a       *)
(* sub-run, which its parent drives and the recovery may drive beside it,  *)
(* is not meant.                                                           *)
(***************************************************************************)
EXTENDS Naturals

CONSTANTS
    Watcher,    \* the streams
    Asker,      \* the calls of getExecution
    MaxSteps,   \* bound on the step rows
    MaxPolls    \* how often a stream looks, 600 in the code

VARIABLES
    exists,     \* there is a row for the execution
    status,     \* its status
    steps,      \* the status of each of its step rows
    driven,     \* this process was handed the run
    open,       \* the rows between StartStep and FinishStep of its driver
    recovery,   \* how far recoverRunning is, and whether it lists the run
    overtaken,  \* recoverRunning failed the steps of a run that was over
    at,         \* where a request stands
    first,      \* the execution as it was at the first query of a request
    polls,      \* how often a stream has looked
    event       \* the last answer to a request

execution == <<exists, status, steps, driven, open, recovery, overtaken>>
requests  == <<at, first, polls, event>>
monitorVars == <<execution, requests>>

Client   == Watcher \cup Asker
Terminal == {"success", "error"}
Row      == 1 .. MaxSteps   \* the step rows, in the order they are started
Rows     == [Row -> {"none", "running", "success", "error"}]
NoRows   == [r \in Row |-> "none"]
Unread   == [status |-> "none", steps |-> NoRows]
Nothing  == [kind |-> "none", status |-> "none", steps |-> NoRows]

(* FailStaleRunningSteps.                                                  *)
Failed(rows) == [r \in Row |-> IF rows[r] = "running" THEN "error" ELSE rows[r]]

(* Where a request begins.                                                 *)
Begin(c) == IF c \in Watcher THEN "check" ELSE "status"

WatchInit ==
    /\ exists \in BOOLEAN
    /\ status = "running" /\ steps = NoRows /\ open = {}
    /\ driven = TRUE /\ recovery = "before" /\ overtaken = FALSE
    /\ at = [c \in Client |-> Begin(c)]
    /\ polls = [c \in Client |-> 0]
    /\ first = [c \in Client |-> Unread]
    /\ event = [c \in Client |-> Nothing]
-----------------------------------------------------------------------------
(* The execution, as the engine writes it.                                 *)

StartStep(r) ==
    /\ exists /\ status = "running" /\ driven /\ open = {}
    /\ steps[r] = "none" /\ \A q \in Row : q < r => steps[q] # "none"
    /\ steps' = [steps EXCEPT ![r] = "running"]
    /\ open' = {r}
    /\ UNCHANGED <<exists, status, driven, recovery, overtaken, requests>>

(* The row is written, or it cannot be and stays as it is: the driver ends *)
(* the run all the same, or gives it up.                                   *)
FinishStep(r) ==
    /\ r \in open
    /\ \/ \E result \in Terminal : steps' = [steps EXCEPT ![r] = result]
       \/ UNCHANGED steps
    /\ open' = {}
    /\ UNCHANGED <<exists, status, driven, recovery, overtaken, requests>>

(* The end of the walk; a node that panics ends it with its step open.     *)
FinishExecution ==
    /\ exists /\ status = "running" /\ driven
    /\ \/ open = {} /\ status' \in Terminal
       \/ open # {} /\ status' = "error"
    /\ open' = {}
    /\ UNCHANGED <<exists, steps, driven, recovery, overtaken, requests>>

SetWaiting ==
    /\ exists /\ status = "running" /\ driven /\ open = {}
    /\ status' = "waiting"
    /\ UNCHANGED <<exists, steps, driven, open, recovery, overtaken, requests>>

(* A resume claims the run and hands it to the workers.                    *)
ClaimWaiting ==
    /\ status = "waiting"
    /\ status' = "running"
    /\ driven' = TRUE
    /\ UNCHANGED <<exists, steps, open, recovery, overtaken, requests>>

(* The server stops and starts again: the driver is gone and the requests  *)
(* are cut off.                                                            *)
Restart ==
    /\ driven' = FALSE /\ open' = {} /\ recovery' = "before"
    /\ at' = [c \in Client |-> "ended"]
    /\ UNCHANGED <<exists, status, steps, overtaken, first, polls, event>>

(* The recovery lists what is running; the query may fail.                 *)
ListRunning ==
    /\ recovery = "before"
    /\ \/ exists /\ status = "running" /\ recovery' = "listed"
       \/ recovery' = "done"
    /\ UNCHANGED <<exists, status, steps, driven, open, overtaken, requests>>

(* Of a run it has listed, whatever became of it since, the recovery fails *)
(* the steps that are running, if the store lets it, and queues the run;   *)
(* when the server is about to stop it does neither.                       *)
FailStaleRunningSteps ==
    /\ recovery = "listed"
    /\ recovery' = "done"
    /\ \/ /\ steps' = Failed(steps)
          /\ overtaken' = (overtaken \/ status \in Terminal)
          /\ driven' = TRUE
       \/ /\ driven' \in {driven, TRUE}
          /\ UNCHANGED <<steps, overtaken>>
    /\ UNCHANGED <<exists, status, open, requests>>

Recover == ListRunning \/ FailStaleRunningSteps
-----------------------------------------------------------------------------
(* The requests.                                                           *)

(* A client asks, again or after a restart.                                *)
Ask(c) ==
    /\ at[c] = "ended"
    /\ at' = [at EXCEPT ![c] = Begin(c)]
    /\ polls' = [polls EXCEPT ![c] = 0]
    /\ first' = [first EXCEPT ![c] = Unread]
    /\ event' = [event EXCEPT ![c] = Nothing]
    /\ UNCHANGED execution

Send(c, kind, st, rows) ==
    event' = [event EXCEPT ![c] = [kind |-> kind, status |-> st, steps |-> rows]]

MovesTo(c, place) == at' = [at EXCEPT ![c] = place]

(* The head of the loop: is the client still there?  Looks are counted up  *)
(* to the last.                                                            *)
Check(c) ==
    /\ at[c] = "check"
    /\ polls' = [polls EXCEPT ![c] = IF @ < MaxPolls THEN @ + 1 ELSE @]
    /\ MovesTo(c, "status") \/ MovesTo(c, "ended")
    /\ UNCHANGED <<execution, first, event>>

(* GetExecutionStatus: no row, or the query fails, and the request is over.*)
ReadStatus(c) ==
    /\ at[c] = "status"
    /\ \/ /\ exists
          /\ first' = [first EXCEPT ![c] = [status |-> status, steps |-> steps]]
          /\ MovesTo(c, "steps")
          /\ UNCHANGED event
       \/ /\ Send(c, "error", "none", NoRows)
          /\ MovesTo(c, "ended")
          /\ UNCHANGED first
    /\ UNCHANGED <<execution, polls>>

(* The status of the first query and the steps of the second.              *)
Answered_StepsFirst(c) == [status |-> status, steps |-> first[c].steps]
Answered(c) == [status |-> first[c].status, steps |-> steps]

(* GetExecutionSteps.  A stream sends what it has even when the query      *)
(* fails; getExecution then answers with an error.                         *)
ReadSteps(c) ==
    /\ at[c] = "steps"
    /\ \/ Send(c, "state", Answered(c).status, Answered(c).steps)
       \/ c \in Watcher /\ Send(c, "blind", Answered(c).status, NoRows)
       \/ c \in Asker   /\ Send(c, "error", "none", NoRows)
    /\ MovesTo(c, IF c \in Watcher /\ Answered(c).status \notin Terminal THEN "wait" ELSE "ended")
    /\ first' = [first EXCEPT ![c] = Unread]
    /\ UNCHANGED <<execution, polls>>

(* Whether the loop goes round once more.                                  *)
Again_Always(c) == TRUE
Again(c) == polls[c] < MaxPolls

(* 700 ms between two looks; the client may go meanwhile.                  *)
Wait(c) ==
    /\ at[c] = "wait"
    /\ \/ Again(c) /\ MovesTo(c, "check")
       \/ MovesTo(c, "ended")
    /\ UNCHANGED <<execution, first, polls, event>>

Serve(c) == Check(c) \/ ReadStatus(c) \/ ReadSteps(c) \/ Wait(c)

Drive ==
    \/ \E r \in Row : StartStep(r) \/ FinishStep(r)
    \/ FinishExecution \/ SetWaiting \/ ClaimWaiting

WatchNext == Drive \/ Recover \/ Restart \/ \E c \in Client : Ask(c) \/ Serve(c)

(* A handler is a goroutine whose queries and timers come back.            *)
WatchFairness == \A c \in Client : WF_monitorVars(Serve(c))

WatchRuns == WatchInit /\ [][WatchNext]_monitorVars
WatchSpec == WatchRuns /\ WatchFairness
-----------------------------------------------------------------------------
WatchTypeOK ==
    /\ exists \in BOOLEAN /\ driven \in BOOLEAN /\ overtaken \in BOOLEAN
    /\ recovery \in {"before", "listed", "done"} /\ open \subseteq Row
    /\ status \in Terminal \cup {"running", "waiting"}
    /\ steps \in Rows
    /\ at \in [Client -> {"check", "status", "steps", "wait", "ended"}]
    /\ first \in [Client -> [status : Terminal \cup {"running", "waiting", "none"}, steps : Rows]]
    /\ polls \in [Client -> 0 .. MaxPolls]
    /\ event \in [Client -> [kind : {"none", "state", "blind", "error"},
                             status : Terminal \cup {"running", "waiting", "none"}, steps : Rows]]

(* An answer that says the run is over shows its steps as they will stay:  *)
(* the status is read before the steps, and the engine writes it after     *)
(* them.  So a stream may end at it.  The one later write is that of a     *)
(* recovery which had listed the run before its end and fails what a panic *)
(* or a failed write left running.                                         *)
LastEventIsWhole ==
    \A c \in Client :
        event[c].kind = "state" /\ event[c].status \in Terminal =>
            \/ steps = event[c].steps
            \/ overtaken /\ steps = Failed(event[c].steps)
=============================================================================
