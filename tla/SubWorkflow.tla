---------------------------- MODULE SubWorkflow ----------------------------
(***************************************************************************)
(* The Execute Workflow node: a sub-run driven inline by the worker that   *)
(* drives the parent (server/internal/engine/subwf.go, runSubWorkflow).    *)
(*                                                                         *)
(* The sub-run has an execution row of its own, but it never goes through  *)
(* the job channel, is not claimed and has no seed; the recovery and       *)
(* Resume treat its row like any other.  One parent execution calls the    *)
(* sub-workflow, a chain of Steps nodes; the rest of its walk, and what    *)
(* Engine already details (step rows, the calls of Run and Resume one by   *)
(* one, the capacity of the channel), is left out.                         *)
(***************************************************************************)
EXTENDS Naturals, Sequences, FiniteSets

CONSTANTS
    Parent,        \* the execution whose walk calls the sub-workflow
    Sub,           \* executions of the sub-workflow; the bound on calls
    Worker,        \* worker goroutines
    None,          \* no row
    Steps,         \* nodes of the sub-workflow
    WaitSteps,     \* those that suspend
    EarlyRequests, \* requests may be served before the recovery has listed
    MaxCrashes,    \* bound: crashes of the server
    MaxPanics,     \* bound: nodes that panic
    MaxFaults      \* bound: calls of the store that fail

ASSUME SubWorkflowAssumption ==
    /\ Parent \notin Sub /\ None \notin Sub \cup {Parent}
    /\ Steps \in Nat \ {0} /\ WaitSteps \subseteq 1..Steps
    /\ EarlyRequests \in BOOLEAN
    /\ MaxCrashes \in Nat /\ MaxPanics \in Nat /\ MaxFaults \in Nat

VARIABLES
    status,  \* executions.status
    saved,   \* nodes of a sub-run in its checkpoint; 0: executions.state is NULL
    starts,  \* times each node of a sub-run was executed
    jobs,    \* the job channel
    active,  \* claimed executions
    rcPc, rcIds,           \* recoverRunning
    wPc, wJob, wRow, wPos, \* worker: the claimed job, and the sub-run it drives
    crashes, panics, faults

rowVars    == <<status, saved, starts>>
queueVars  == <<jobs, active>>
rcVars     == <<rcPc, rcIds>>
workerVars == <<wPc, wJob, wRow, wPos>>
boundVars  == <<crashes, panics, faults>>
vars == <<rowVars, queueVars, rcVars, workerVars, boundVars>>

Row == Sub \cup {Parent}
WorkerPcs == {"idle", "load", "call", "node", "save", "suspend", "nodeFailed", "panic",
              "returned", "callFailed", "release"}

TypeOK ==
    /\ status \in [Row -> {"none", "running", "waiting", "success", "error"}]
    /\ saved \in [Sub -> 0..Steps]
    /\ starts \in [Sub -> [1..Steps -> Nat]]
    /\ jobs \in Seq(Row)
    /\ active \subseteq Row
    /\ rcPc \in {"list", "enqueue"} /\ rcIds \subseteq Row
    /\ wPc \in [Worker -> WorkerPcs]
    /\ wJob \in [Worker -> Row \cup {None}]
    /\ wRow \in [Worker -> Sub \cup {None}]
    /\ wPos \in [Worker -> 0..Steps]
    /\ crashes \in 0..MaxCrashes /\ panics \in 0..MaxPanics /\ faults \in 0..MaxFaults

Init ==
    /\ status = [r \in Row |-> "none"]
    /\ saved = [s \in Sub |-> 0]
    /\ starts = [s \in Sub |-> [k \in 1..Steps |-> 0]]
    /\ jobs = <<>> /\ active = {}
    /\ rcPc = "list" /\ rcIds = {}
    /\ wPc = [w \in Worker |-> "idle"]
    /\ wJob = [w \in Worker |-> None]
    /\ wRow = [w \in Worker |-> None]
    /\ wPos = [w \in Worker |-> 0]
    /\ crashes = 0 /\ panics = 0 /\ faults = 0

GoTo(w, pc) == wPc' = [wPc EXCEPT ![w] = pc]
SetStatus(r, st) == status' = [status EXCEPT ![r] = st]

-----------------------------------------------------------------------------
(* Run of the parent.                                                      *)
RunParent ==
    /\ status[Parent] = "none"
    /\ EarlyRequests \/ rcPc # "list"
    /\ SetStatus(Parent, "running")
    /\ jobs' = Append(jobs, Parent)
    /\ UNCHANGED <<saved, starts, active, rcVars, workerVars, boundVars>>

(* Resume of a suspended sub-run: the waiting node becomes visited.        *)
ResumeSub(s) ==
    /\ status[s] = "waiting"
    /\ SetStatus(s, "running")
    /\ saved' = [saved EXCEPT ![s] = @ + 1]
    /\ jobs' = Append(jobs, s)
    /\ UNCHANGED <<starts, active, rcVars, workerVars, boundVars>>

-----------------------------------------------------------------------------
(* A worker receives a job and claims it, or drops it.                     *)
Claimed(r) == r \in active

Take(w) ==
    /\ wPc[w] = "idle" /\ jobs # <<>>
    /\ jobs' = Tail(jobs)
    /\ \/ /\ Claimed(Head(jobs))
          /\ UNCHANGED <<active, wPc, wJob>>
       \/ /\ ~Claimed(Head(jobs))
          /\ active' = active \cup {Head(jobs)}
          /\ wJob' = [wJob EXCEPT ![w] = Head(jobs)]
          /\ GoTo(w, "load")
    /\ UNCHANGED <<rowVars, rcVars, wRow, wPos, boundVars>>

(* process: the parent's walk is at the call; a sub-run that was queued by *)
(* the recovery or by Resume goes on from its checkpoint.                  *)
Load(w) ==
    LET r == wJob[w] IN
    /\ wPc[w] = "load"
    /\ \/ status[r] # "running" /\ GoTo(w, "release") /\ UNCHANGED <<wRow, wPos>>
       \/ /\ status[r] = "running" /\ r = Parent
          /\ GoTo(w, "call") /\ UNCHANGED <<wRow, wPos>>
       \/ /\ status[r] = "running" /\ r \in Sub
          /\ GoTo(w, "node")
          /\ wRow' = [wRow EXCEPT ![w] = r]
          /\ wPos' = [wPos EXCEPT ![w] = saved[r]]
    /\ UNCHANGED <<rowVars, queueVars, rcVars, wJob, boundVars>>

(* The workflow of the row, or its trigger, is gone.                       *)
LoadNothing(w) ==
    /\ wPc[w] = "load" /\ status[wJob[w]] = "running"
    /\ SetStatus(wJob[w], "error")
    /\ GoTo(w, "release")
    /\ UNCHANGED <<saved, starts, queueVars, rcVars, wJob, wRow, wPos, boundVars>>

(* runSubWorkflow: load the sub-workflow, insert a row, drive it inline.   *)
CallSub(w) ==
    /\ wPc[w] = "call"
    /\ \/ GoTo(w, "callFailed") /\ UNCHANGED <<status, wRow, wPos>>
       \/ \E s \in Sub :
             /\ status[s] = "none"
             /\ SetStatus(s, "running")
             /\ wRow' = [wRow EXCEPT ![w] = s]
             /\ wPos' = [wPos EXCEPT ![w] = 0]
             /\ GoTo(w, "node")
    /\ UNCHANGED <<saved, starts, queueVars, rcVars, wJob, boundVars>>

(* drive: the next node of the sub-run executes.                           *)
ExecuteNode(w) ==
    LET k == wPos[w] + 1 IN
    /\ wPc[w] = "node" /\ wPos[w] < Steps
    /\ starts' = [starts EXCEPT ![wRow[w]][k] = @ + 1]
    /\ \/ k \notin WaitSteps /\ GoTo(w, "save") /\ wPos' = [wPos EXCEPT ![w] = k]
       \/ k \in WaitSteps /\ GoTo(w, "suspend") /\ UNCHANGED wPos
       \/ GoTo(w, "nodeFailed") /\ UNCHANGED wPos
    /\ UNCHANGED <<status, saved, queueVars, rcVars, wJob, wRow, boundVars>>

(* A node gave its successor no item: the rest of the chain is pruned,     *)
(* which no store call records.                                            *)
PruneRest(w) ==
    /\ wPc[w] = "node" /\ wPos[w] \in 1..(Steps - 1)
    /\ wPos' = [wPos EXCEPT ![w] = Steps]
    /\ UNCHANGED <<rowVars, queueVars, rcVars, wPc, wJob, wRow, boundVars>>

(* A panic of a node unwinds through runSubWorkflow and the parent's drive.*)
NodePanics(w) ==
    /\ wPc[w] = "node" /\ wPos[w] < Steps
    /\ panics < MaxPanics /\ panics' = panics + 1
    /\ starts' = [starts EXCEPT ![wRow[w]][wPos[w] + 1] = @ + 1]
    /\ GoTo(w, "panic")
    /\ UNCHANGED <<status, saved, queueVars, rcVars, wJob, wRow, wPos, crashes, faults>>

SaveStateSub_Skipped(w) ==
    /\ wPc[w] = "save"
    /\ GoTo(w, "node")
    /\ UNCHANGED <<rowVars, queueVars, rcVars, wJob, wRow, wPos, boundVars>>

SaveStateSub(w) ==
    /\ wPc[w] = "save"
    /\ saved' = [saved EXCEPT ![wRow[w]] = wPos[w]]
    /\ GoTo(w, "node")
    /\ UNCHANGED <<status, starts, queueVars, rcVars, wJob, wRow, wPos, boundVars>>

(* What follows the end of the sub-run: the node of the parent returns or  *)
(* fails when the sub-run was inline, else the drive is over.              *)
Inline(w) == wJob[w] = Parent

AfterSub_WaitingIsOk(w, outcome) ==
    GoTo(w, CASE ~Inline(w) -> "release"
              [] Inline(w) /\ outcome # "error" -> "returned"
              [] OTHER -> "callFailed")

AfterSub(w, outcome) ==
    GoTo(w, CASE ~Inline(w) -> "release"
              [] Inline(w) /\ outcome = "success" -> "returned"
              [] OTHER -> "callFailed")

EndSub(w, outcome) ==
    /\ SetStatus(wRow[w], outcome)
    /\ AfterSub(w, outcome)
    /\ UNCHANGED <<starts, queueVars, rcVars, wJob, wRow, wPos, boundVars>>

FinishSub(w)  == wPc[w] = "node" /\ wPos[w] = Steps /\ EndSub(w, "success") /\ UNCHANGED saved

(* SetWaiting writes the state of the walk with the status.                *)
SuspendSub(w) ==
    /\ wPc[w] = "suspend" /\ EndSub(w, "waiting")
    /\ saved' = [saved EXCEPT ![wRow[w]] = wPos[w]]

FailSub_RowKept(w) ==
    /\ wPc[w] = "nodeFailed"
    /\ AfterSub(w, "error")
    /\ UNCHANGED <<rowVars, queueVars, rcVars, wJob, wRow, wPos, boundVars>>

FailSub(w) == wPc[w] = "nodeFailed" /\ EndSub(w, "error") /\ UNCHANGED saved

(* The end of the parent's drive; process marks the job it claimed, and    *)
(* only that, after a panic.                                               *)
EndJob(w, outcome) ==
    /\ SetStatus(wJob[w], outcome)
    /\ GoTo(w, "release")
    /\ UNCHANGED <<saved, starts, queueVars, rcVars, wJob, wRow, wPos, boundVars>>

FinishParent(w) == wPc[w] = "returned" /\ EndJob(w, "success")
FailParent(w)   == wPc[w] = "callFailed" /\ EndJob(w, "error")
RecoverPanic(w) == wPc[w] = "panic" /\ EndJob(w, "error")

(* A call of the store fails, and its write is not made.  While it drives  *)
(* the sub-run the worker returns the error from drive (StartStep,         *)
(* FinishStep, SaveState, SetWaiting, FinishExecution), or has failed the  *)
(* sub-run and does not look at the error of the write that says so: for   *)
(* the caller the sub-run has failed, and its row stays as it is.  Any     *)
(* other failure ends the job the worker claimed, whose row stays running. *)
StoreFails(w) ==
    /\ faults < MaxFaults /\ faults' = faults + 1
    /\ \/ wPc[w] \in {"node", "save", "suspend", "nodeFailed"} /\ AfterSub(w, "error")
       \/ wPc[w] \in {"load", "call", "returned", "callFailed", "panic"} /\ GoTo(w, "release")
    /\ UNCHANGED <<rowVars, queueVars, rcVars, wJob, wRow, wPos, crashes, panics>>

Release(w) ==
    /\ wPc[w] = "release"
    /\ active' = active \ {wJob[w]}
    /\ GoTo(w, "idle")
    /\ wJob' = [wJob EXCEPT ![w] = None]
    /\ wRow' = [wRow EXCEPT ![w] = None]
    /\ wPos' = [wPos EXCEPT ![w] = 0]
    /\ UNCHANGED <<rowVars, jobs, rcVars, boundVars>>

-----------------------------------------------------------------------------
(* recoverRunning: it lists the rows of sub-runs with the others.          *)
ListRunning_ParentsOnly ==
    /\ rcPc = "list"
    /\ rcPc' = "enqueue"
    /\ rcIds' = {r \in {Parent} : status[r] = "running"}
    /\ UNCHANGED <<rowVars, queueVars, workerVars, boundVars>>

ListRunning ==
    /\ rcPc = "list"
    /\ rcPc' = "enqueue"
    /\ rcIds' = {r \in Row : status[r] = "running"}
    /\ UNCHANGED <<rowVars, queueVars, workerVars, boundVars>>

EnqueueRecovered ==
    /\ rcPc = "enqueue"
    /\ \E r \in rcIds : jobs' = Append(jobs, r) /\ rcIds' = rcIds \ {r}
    /\ UNCHANGED <<rowVars, active, rcPc, workerVars, boundVars>>

(* The server dies and is started again.                                   *)
Crash ==
    /\ crashes < MaxCrashes /\ crashes' = crashes + 1
    /\ jobs' = <<>> /\ active' = {}
    /\ rcPc' = "list" /\ rcIds' = {}
    /\ wPc' = [w \in Worker |-> "idle"]
    /\ wJob' = [w \in Worker |-> None]
    /\ wRow' = [w \in Worker |-> None]
    /\ wPos' = [w \in Worker |-> 0]
    /\ UNCHANGED <<rowVars, panics, faults>>

WorkerStep(w) ==
    \/ Take(w) \/ Load(w) \/ LoadNothing(w) \/ CallSub(w) \/ ExecuteNode(w) \/ PruneRest(w) \/ SaveStateSub(w)
    \/ FinishSub(w) \/ SuspendSub(w) \/ FailSub(w) \/ FinishParent(w) \/ FailParent(w) \/ RecoverPanic(w)
    \/ Release(w)

Next ==
    \/ RunParent
    \/ \E s \in Sub : ResumeSub(s)
    \/ \E w \in Worker : WorkerStep(w) \/ NodePanics(w) \/ StoreFails(w)
    \/ ListRunning \/ EnqueueRecovered
    \/ Crash

Spec == Init /\ [][Next]_vars

(* Workers and the recovery are scheduled and nodes return; requests,      *)
(* panics, failures of the store and crashes need not happen.              *)
FairSpec ==
    /\ Spec
    /\ \A w \in Worker : WF_vars(WorkerStep(w))
    /\ WF_vars(ListRunning \/ EnqueueRecovered)

-----------------------------------------------------------------------------
(* Properties                                                              *)

(* The parent succeeds only when the sub-run it called has succeeded.      *)
SuccessNeedsSubSuccess ==
    [][status[Parent] # "success" /\ status'[Parent] = "success" =>
          \E w \in Worker : Inline(w) /\ wRow[w] \in Sub /\ status[wRow[w]] = "success"]_vars

(* The node of a sub-run that executes is the one after the checkpoint,    *)
(* inline or as an orphan: none is skipped, and a node executes again only *)
(* for a crash that interrupted it or a write that failed after it.        *)
SubFollowsCheckpoint ==
    /\ [][\A s \in Sub, k \in 1..Steps : starts'[s][k] # starts[s][k] => k = saved[s] + 1]_vars
    /\ [](\A s \in Sub, k \in 1..Steps : starts[s][k] <= 1 + crashes + faults)

(* A sub-run left running behind its parent, which has finished, has one   *)
(* of four causes: a crash, a panic, a call of the store that failed (each *)
(* leaves the row running until the next start, when it is driven as an    *)
(* orphan), or it was suspended and then resumed: such a run is on its     *)
(* own, from the first WaitSteps node on.                                  *)
SubEndsWithParent ==
    status[Parent] \in {"success", "error"} =>
        \A s \in Sub : status[s] = "running" =>
            \/ crashes > 0 \/ panics > 0 \/ faults > 0
            \/ \E k \in WaitSteps : k <= saved[s]

(* Where nothing panics, the store answers and no sub-run suspends, every  *)
(* running row settles, inline or as an orphan that the recovery found     *)
(* after a crash.  (A panic leaves the row of the sub-run running, and so  *)
(* does a failed call of the store; a resume may be dropped, as in Engine.)*)
Undisturbed == panics = 0 /\ faults = 0 /\ \A s \in Sub : status[s] # "waiting"

SubRunsSettle ==
    []Undisturbed => \A r \in Row : status[r] = "running" ~> status[r] # "running"
=============================================================================
