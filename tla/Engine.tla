------------------------------- MODULE Engine -------------------------------
(***************************************************************************)
(* The run executor in asynchronous mode (server/internal/engine) over the *)
(* execution rows of Postgres (server/internal/store/store.go).            *)
(*                                                                         *)
(* Each instance of the server has a bounded job channel, the set "active" *)
(* of executions its workers drive, a pool of workers and one goroutine    *)
(* that recovers interrupted executions at start-up.  Every call to the    *)
(* store is a step of its own, so that steps of workers, of the callers of *)
(* Run and Resume and of the recovery interleave between any two of them.  *)
(* A crash of an instance loses everything but the rows.                   *)
(***************************************************************************)
EXTENDS Workflow, FiniteSets

CONSTANTS
    Inst,          \* instances of the server that share the database
    Exec,          \* executions
    Worker,        \* worker goroutines, of all instances
    Resumer,       \* callers of Resume (POST /api/resume/{id}), of all instances
    home,          \* the instance of each worker, resumer, and caller of Run
    None,          \* "no node" and "no execution"
    QueueCap,      \* capacity of the job channel
    EarlyRequests, \* requests may be served before the recovery has listed
    MaxCrashes,    \* bound: crashes of instances
    MaxFaults,     \* bound: store calls that fail
    MaxStarts      \* bound: the count of step rows of a node saturates here

ASSUME EngineAssumption ==
    /\ home \in [Worker \cup Resumer \cup Exec -> Inst]
    /\ None \notin Node \cup Exec \cup Worker
    /\ QueueCap \in Nat \ {0}
    /\ EarlyRequests \in BOOLEAN
    /\ MaxCrashes \in Nat /\ MaxFaults \in Nat /\ MaxStarts \in Nat

VARIABLES
    \* the rows of the database
    status,    \* executions.status, "none" before the row is inserted
    saved,     \* executions.state
    waitingAt, \* executions.waiting_node_id
    rows,      \* step rows that are 'running', as <<node, worker or None>>;
               \* None: the drive that would finish the row is gone
    starts,    \* number of step rows ever inserted for each node
    \* the memory of an instance
    jobs,      \* the job channel
    active,    \* the executions that a worker of the instance owns
    rcPc, rcIds, rcExec,                   \* recoverRunning
    wPc, wExec, wNode, wState, wReady,     \* worker, process and drive
    runPc,                                 \* the caller of Run of an execution
    zPc, zExec, zNode, zState,             \* callers of Resume
    \* bounds
    crashes, faults

rowVars    == <<status, saved, waitingAt, rows, starts>>
rcVars     == <<rcPc, rcIds, rcExec>>
workerVars == <<wPc, wExec, wNode, wState, wReady>>
resumeVars == <<zPc, zExec, zNode, zState>>
boundVars  == <<crashes, faults>>
vars == <<rowVars, jobs, active, rcVars, workerVars, runPc, resumeVars, boundVars>>

-----------------------------------------------------------------------------
(* RunState: what the walk remembers of the trigger items ("null" while    *)
(* executions.state is NULL, "default" for the empty item that process     *)
(* substitutes), the visited nodes and the edges that carry items.         *)
RunState == [trig : {"null", "payload", "default"}, visited : SUBSET Node, live : SUBSET Edges]
NullState == [trig |-> "null", visited |-> {}, live |-> {}]
SeedState == [trig |-> "payload", visited |-> {}, live |-> {}]

Statuses  == {"none", "running", "waiting", "success", "error"}
Terminal  == {"success", "error"}
WorkerPcs == {"idle", "load", "pick", "exec", "finishStep", "saveState", "suspendStep",
              "setWaiting", "failStep", "failExec", "release"}

RowsType ==
    /\ status \in [Exec -> Statuses]
    /\ saved \in [Exec -> RunState]
    /\ waitingAt \in [Exec -> Node \cup {None}]
    /\ rows \in [Exec -> SUBSET (Node \X (Worker \cup {None}))]
    /\ starts \in [Exec -> [Node -> 0..MaxStarts]]

QueueType ==
    /\ jobs \in [Inst -> Seq(Exec)]
    /\ active \in [Inst -> SUBSET Exec]
    /\ rcPc \in [Inst -> {"list", "fail", "enqueue"}]
    /\ rcIds \in [Inst -> SUBSET Exec]
    /\ rcExec \in [Inst -> Exec \cup {None}]
    /\ \A i \in Inst : rcPc[i] = "enqueue" => rcExec[i] \in Exec

WorkerType ==
    /\ wPc \in [Worker -> WorkerPcs]
    /\ wExec \in [Worker -> Exec \cup {None}]
    /\ wNode \in [Worker -> Node \cup {None}]
    /\ wState \in [Worker -> RunState]
    /\ wReady \in [Worker -> SUBSET Node]
    /\ \A w \in Worker : wPc[w] # "idle" => wExec[w] \in Exec
    /\ \A w \in Worker : wPc[w] \notin {"idle", "load", "pick", "failExec", "release"} =>
                            wNode[w] \in Node

CallerType ==
    /\ runPc \in [Exec -> {"idle", "seed", "enqueue", "done", "gone"}]
    /\ zPc \in [Resumer -> {"idle", "claim", "save", "enqueue"}]
    /\ zExec \in [Resumer -> Exec \cup {None}]
    /\ zNode \in [Resumer -> Node \cup {None}]
    /\ zState \in [Resumer -> RunState]
    /\ \A z \in Resumer : zPc[z] # "idle" => zExec[z] \in Exec /\ zNode[z] \in Node

TypeOK ==
    /\ RowsType /\ QueueType /\ WorkerType /\ CallerType
    /\ crashes \in 0..MaxCrashes
    /\ faults \in 0..MaxFaults

Init ==
    /\ status = [e \in Exec |-> "none"]
    /\ saved = [e \in Exec |-> NullState]
    /\ waitingAt = [e \in Exec |-> None]
    /\ rows = [e \in Exec |-> {}]
    /\ starts = [e \in Exec |-> [n \in Node |-> 0]]
    /\ jobs = [i \in Inst |-> <<>>]
    /\ active = [i \in Inst |-> {}]
    /\ rcPc = [i \in Inst |-> "list"]
    /\ rcIds = [i \in Inst |-> {}]
    /\ rcExec = [i \in Inst |-> None]
    /\ wPc = [w \in Worker |-> "idle"]
    /\ wExec = [w \in Worker |-> None]
    /\ wNode = [w \in Worker |-> None]
    /\ wState = [w \in Worker |-> NullState]
    /\ wReady = [w \in Worker |-> {}]
    /\ runPc = [e \in Exec |-> "idle"]
    /\ zPc = [z \in Resumer |-> "idle"]
    /\ zExec = [z \in Resumer |-> None]
    /\ zNode = [z \in Resumer |-> None]
    /\ zState = [z \in Resumer |-> NullState]
    /\ crashes = 0
    /\ faults = 0

-----------------------------------------------------------------------------
(* A store call of the budget fails: the row is not changed.               *)
Fault == faults < MaxFaults /\ faults' = faults + 1

(* enqueue blocks until the channel has room.                              *)
Enqueue_Dropping(i, e) ==
    jobs' = [jobs EXCEPT ![i] = IF Len(@) < QueueCap THEN Append(@, e) ELSE @]

Enqueue(i, e) ==
    /\ Len(jobs[i]) < QueueCap
    /\ jobs' = [jobs EXCEPT ![i] = Append(@, e)]

(* When requests reach the instance: at once, or once the recovery has     *)
(* taken its list of running executions.                                   *)
Admits(i) == EarlyRequests \/ rcPc[i] # "list"

-----------------------------------------------------------------------------
(* Run: insert the row, save the seed, enqueue, answer "running".          *)

CreateExecution(e) ==
    /\ runPc[e] = "idle" /\ Admits(home[e])
    /\ runPc' = [runPc EXCEPT ![e] = "seed"]
    /\ status' = [status EXCEPT ![e] = "running"]
    /\ UNCHANGED <<saved, waitingAt, rows, starts, jobs, active, rcVars, workerVars, resumeVars,
                   boundVars>>

SaveSeed(e) ==
    /\ runPc[e] = "seed"
    /\ \/ /\ saved' = [saved EXCEPT ![e] = SeedState]
          /\ runPc' = [runPc EXCEPT ![e] = "enqueue"]
          /\ UNCHANGED faults
       \/ /\ Fault
          /\ runPc' = [runPc EXCEPT ![e] = "gone"]
          /\ UNCHANGED saved
    /\ UNCHANGED <<status, waitingAt, rows, starts, jobs, active, rcVars, workerVars, resumeVars,
                   crashes>>

EnqueueRun(e) ==
    /\ runPc[e] = "enqueue"
    /\ Enqueue(home[e], e)
    /\ runPc' = [runPc EXCEPT ![e] = "done"]
    /\ UNCHANGED <<rowVars, active, rcVars, workerVars, resumeVars, boundVars>>

-----------------------------------------------------------------------------
(* Resume: load the row, flip waiting to running, save the state with the  *)
(* payload as the output of the waiting node, enqueue.                     *)

ResetResumer(z) ==
    /\ zPc' = [zPc EXCEPT ![z] = "idle"]
    /\ zExec' = [zExec EXCEPT ![z] = None]
    /\ zNode' = [zNode EXCEPT ![z] = None]
    /\ zState' = [zState EXCEPT ![z] = NullState]

LoadForResume(z, e) ==
    /\ zPc[z] = "idle" /\ Admits(home[z])
    /\ status[e] = "waiting" /\ saved[e].trig # "null" /\ waitingAt[e] # None
    /\ zPc' = [zPc EXCEPT ![z] = "claim"]
    /\ zExec' = [zExec EXCEPT ![z] = e]
    /\ zNode' = [zNode EXCEPT ![z] = waitingAt[e]]
    /\ zState' = [zState EXCEPT ![z] = saved[e]]
    /\ UNCHANGED <<rowVars, jobs, active, rcVars, workerVars, runPc, boundVars>>

(* UPDATE ... SET status='running' WHERE ... status='waiting'              *)
Claimable(e) == status[e] = "waiting"

ClaimWaiting(z) ==
    /\ zPc[z] = "claim"
    /\ \/ /\ Claimable(zExec[z])
          /\ status' = [status EXCEPT ![zExec[z]] = "running"]
          /\ zPc' = [zPc EXCEPT ![z] = "save"]
          /\ UNCHANGED <<zExec, zNode, zState, faults>>
       \/ /\ ~Claimable(zExec[z])
          /\ ResetResumer(z)
          /\ UNCHANGED <<status, faults>>
       \/ /\ Fault
          /\ ResetResumer(z)
          /\ UNCHANGED status
    /\ UNCHANGED <<saved, waitingAt, rows, starts, jobs, active, rcVars, workerVars, runPc,
                   crashes>>

(* The loaded state with the payload as the output of the waiting node.    *)
WithPayload_Only(st, n) == [st EXCEPT !.visited = {n}, !.live = @ \cup Outgoing(n)]

WithPayload(st, n) ==
    [st EXCEPT !.visited = @ \cup {n}, !.live = @ \cup Outgoing(n)]

SaveResumed(z) ==
    /\ zPc[z] = "save"
    /\ \/ /\ saved' = [saved EXCEPT ![zExec[z]] = WithPayload(zState[z], zNode[z])]
          /\ zPc' = [zPc EXCEPT ![z] = "enqueue"]
          /\ UNCHANGED <<zExec, zNode, zState, faults>>
       \/ /\ Fault
          /\ ResetResumer(z)
          /\ UNCHANGED saved
    /\ UNCHANGED <<status, waitingAt, rows, starts, jobs, active, rcVars, workerVars, runPc,
                   crashes>>

EnqueueResumed(z) ==
    /\ zPc[z] = "enqueue"
    /\ Enqueue(home[z], zExec[z])
    /\ ResetResumer(z)
    /\ UNCHANGED <<rowVars, active, rcVars, workerVars, runPc, boundVars>>

-----------------------------------------------------------------------------
(* worker, process and drive                                               *)

(* The rows, the channel and the workers a step of one worker leaves alone *)
OthersUnchanged == UNCHANGED <<waitingAt, jobs, active, rcVars, runPc, resumeVars, crashes>>

GoTo(w, pc) == wPc' = [wPc EXCEPT ![w] = pc]

(* claim: is the execution owned by a worker of the instance already?      *)
Claimed_Never(i, e) == FALSE

Claimed(i, e) == e \in active[i]

(* Receive an execution id and claim it; an id another worker of the       *)
(* instance owns is dropped.                                               *)
Take(w) ==
    LET i == home[w] IN
    /\ wPc[w] = "idle" /\ jobs[i] # <<>>
    /\ jobs' = [jobs EXCEPT ![i] = Tail(@)]
    /\ LET e == Head(jobs[i]) IN
       \/ /\ ~Claimed(i, e)
          /\ active' = [active EXCEPT ![i] = @ \cup {e}]
          /\ GoTo(w, "load")
          /\ wExec' = [wExec EXCEPT ![w] = e]
       \/ /\ Claimed(i, e)
          /\ UNCHANGED <<active, wPc, wExec>>
    /\ UNCHANGED <<rowVars, rcVars, wNode, wState, wReady, runPc, resumeVars, boundVars>>

(* process goes on only with a row that is still 'running'.                *)
Runnable(e) == status[e] = "running"

(* LoadExecution and LoadWorkflow, and the list of nodes to start from.    *)
Load(w) ==
    LET e  == wExec[w]
        st == saved[e] IN
    /\ wPc[w] = "load"
    /\ \/ /\ Runnable(e)
          /\ GoTo(w, "pick")
          /\ wState' = [wState EXCEPT ![w] = IF st.trig = "null" THEN [st EXCEPT !.trig = "default"]
                                                                  ELSE st]
          /\ wReady' = [wReady EXCEPT ![w] = StartingPoints(st.visited)]
       \/ /\ ~Runnable(e)
          /\ GoTo(w, "release")
          /\ UNCHANGED <<wState, wReady>>
    /\ UNCHANGED <<status, saved, rows, starts, wExec, wNode, faults>> /\ OthersUnchanged

(* Node n is done: "out" are its outgoing edges that carry items.          *)
Visit_ReadyTooEarly(w, n, ready, out) ==
    LET visited == wState[w].visited \cup {n} IN
    /\ wState' = [wState EXCEPT ![w].visited = visited, ![w].live = (@ \ Outgoing(n)) \cup out]
    /\ wReady' = [wReady EXCEPT ![w] = ready \cup ReadySuccessors(n, wState[w].visited)]

Visit(w, n, ready, out) ==
    LET visited == wState[w].visited \cup {n} IN
    /\ wState' = [wState EXCEPT ![w].visited = visited, ![w].live = (@ \ Outgoing(n)) \cup out]
    /\ wReady' = [wReady EXCEPT ![w] = ready \cup ReadySuccessors(n, visited)]

(* Skip a ready node that received no item; nothing is persisted.          *)
PruneNode(w) ==
    /\ wPc[w] = "pick"
    /\ \E n \in wReady[w] \ Unregistered :
          /\ Pruned(n, wState[w].live)
          /\ Visit(w, n, wReady[w] \ {n}, {})
    /\ UNCHANGED <<status, saved, rows, starts, wPc, wExec, wNode, faults>> /\ OthersUnchanged

(* A ready node of a type that is not registered fails the execution.      *)
UnknownType(w) ==
    /\ wPc[w] = "pick" /\ wReady[w] \cap Unregistered # {}
    /\ GoTo(w, "failExec")
    /\ UNCHANGED <<status, saved, rows, starts, wExec, wNode, wState, wReady, faults>>
    /\ OthersUnchanged

StartStep(w) ==
    LET e == wExec[w] IN
    /\ wPc[w] = "pick"
    /\ \E n \in wReady[w] \ Unregistered :
          /\ ~Pruned(n, wState[w].live)
          /\ rows' = [rows EXCEPT ![e] = @ \cup {<<n, w>>}]
          /\ starts' = [starts EXCEPT ![e][n] = IF @ < MaxStarts THEN @ + 1 ELSE @]
          /\ wNode' = [wNode EXCEPT ![w] = n]
          /\ wReady' = [wReady EXCEPT ![w] = @ \ {n}]
    /\ GoTo(w, "exec")
    /\ UNCHANGED <<status, saved, wExec, wState, faults>> /\ OthersUnchanged

(* Execute returns: a suspension from a wait node, outputs (on any set of  *)
(* ports), an error, or a panic that process recovers.                     *)
ExecuteReturns(w) ==
    LET n == wNode[w] IN
    /\ wPc[w] = "exec"
    /\ \/ /\ n \in WaitNodes
          /\ GoTo(w, "suspendStep")
          /\ UNCHANGED <<rows, wState, wReady>>
       \/ /\ n \notin WaitNodes
          /\ \E out \in SUBSET Outgoing(n) : Visit(w, n, wReady[w], out)
          /\ GoTo(w, "finishStep")
          /\ UNCHANGED rows
    /\ UNCHANGED <<status, saved, starts, wExec, wNode, faults>> /\ OthersUnchanged

(* The step row w would have finished stays 'running' with nobody to       *)
(* finish it.                                                              *)
Disowned(R, w) == {r \in R : r[2] # w} \cup {<<r[1], None>> : r \in {x \in R : x[2] = w}}

ExecuteFails_PanicUnmarked(w) ==
    LET e == wExec[w] IN
    /\ wPc[w] = "exec"
    /\ \/ GoTo(w, "failStep") /\ UNCHANGED rows
       \/ GoTo(w, "release") /\ rows' = [rows EXCEPT ![e] = Disowned(@, w)]
    /\ UNCHANGED <<status, saved, starts, wExec, wNode, wState, wReady, faults>> /\ OthersUnchanged

ExecuteFails(w) ==
    LET e == wExec[w] IN
    /\ wPc[w] = "exec"
    /\ \/ GoTo(w, "failStep") /\ UNCHANGED rows
       \/ GoTo(w, "failExec") /\ rows' = [rows EXCEPT ![e] = Disowned(@, w)]
    /\ UNCHANGED <<status, saved, starts, wExec, wNode, wState, wReady, faults>> /\ OthersUnchanged

(* FinishStep, for outputs, a suspension or an error.                      *)
AfterStep(pc) == CASE pc = "finishStep"  -> "saveState"
                   [] pc = "suspendStep" -> "setWaiting"
                   [] pc = "failStep"    -> "failExec"

FinishStep(w) ==
    LET e == wExec[w] IN
    /\ wPc[w] \in {"finishStep", "suspendStep", "failStep"}
    /\ rows' = [rows EXCEPT ![e] = {r \in @ : r[2] # w}]
    /\ GoTo(w, AfterStep(wPc[w]))
    /\ UNCHANGED <<status, saved, starts, wExec, wNode, wState, wReady, faults>> /\ OthersUnchanged

SaveState(w) ==
    /\ wPc[w] = "saveState"
    /\ saved' = [saved EXCEPT ![wExec[w]] = wState[w]]
    /\ GoTo(w, "pick")
    /\ UNCHANGED <<status, rows, starts, wExec, wNode, wState, wReady, faults>> /\ OthersUnchanged

(* The state SetWaiting persists: the waiting node is not visited.         *)
WaitingState_Visited(w) == [wState[w] EXCEPT !.visited = @ \cup {wNode[w]}]

WaitingState(w) == wState[w]

SetWaiting(w) ==
    LET e == wExec[w] IN
    /\ wPc[w] = "setWaiting"
    /\ status' = [status EXCEPT ![e] = "waiting"]
    /\ waitingAt' = [waitingAt EXCEPT ![e] = wNode[w]]
    /\ saved' = [saved EXCEPT ![e] = WaitingState(w)]
    /\ GoTo(w, "release")
    /\ UNCHANGED <<rows, starts, jobs, active, rcVars, wExec, wNode, wState, wReady, runPc,
                   resumeVars, boundVars>>

FinishExecution_GoesOn(w) ==
    /\ wPc[w] \in {"pick", "failExec"} /\ (wPc[w] = "pick" => wReady[w] = {})
    /\ status' = [status EXCEPT ![wExec[w]] = IF wPc[w] = "pick" THEN "success" ELSE "error"]
    /\ waitingAt' = [waitingAt EXCEPT ![wExec[w]] = None]
    /\ GoTo(w, IF wPc[w] = "pick" THEN "release" ELSE "pick")
    /\ UNCHANGED <<saved, rows, starts, jobs, active, rcVars, wExec, wNode, wState, wReady, runPc,
                   resumeVars, boundVars>>

FinishExecution(w) ==
    LET e == wExec[w] IN
    /\ \/ /\ wPc[w] = "pick" /\ wReady[w] = {}
          /\ status' = [status EXCEPT ![e] = "success"]
       \/ /\ wPc[w] = "failExec"
          /\ status' = [status EXCEPT ![e] = "error"]
    /\ waitingAt' = [waitingAt EXCEPT ![e] = None]
    /\ GoTo(w, "release")
    /\ UNCHANGED <<saved, rows, starts, jobs, active, rcVars, wExec, wNode, wState, wReady, runPc,
                   resumeVars, boundVars>>

Release(w) ==
    /\ wPc[w] = "release"
    /\ active' = [active EXCEPT ![home[w]] = @ \ {wExec[w]}]
    /\ GoTo(w, "idle")
    /\ wExec' = [wExec EXCEPT ![w] = None]
    /\ wNode' = [wNode EXCEPT ![w] = None]
    /\ wState' = [wState EXCEPT ![w] = NullState]
    /\ wReady' = [wReady EXCEPT ![w] = {}]
    /\ UNCHANGED <<rowVars, jobs, rcVars, runPc, resumeVars, boundVars>>

(* A failed store call ends the drive (or process, at "load"); the row     *)
(* keeps its status.  FinishExecution after an error is not checked, which *)
(* comes to the same.                                                      *)
DriveStoreError(w) ==
    LET e == wExec[w] IN
    /\ wPc[w] \in {"load", "pick", "finishStep", "saveState", "setWaiting", "failExec"}
    /\ wPc[w] = "pick" =>
          \/ wReady[w] = {}
          \/ \E n \in wReady[w] \ Unregistered : ~Pruned(n, wState[w].live)
    /\ Fault
    /\ GoTo(w, "release")
    /\ rows' = [rows EXCEPT ![e] = Disowned(@, w)]
    /\ UNCHANGED <<status, saved, starts, wExec, wNode, wState, wReady>> /\ OthersUnchanged

(* The FinishStep of a suspension or an error is not checked.              *)
FinishStepIgnored(w) ==
    LET e == wExec[w] IN
    /\ wPc[w] \in {"suspendStep", "failStep"}
    /\ Fault
    /\ GoTo(w, AfterStep(wPc[w]))
    /\ rows' = [rows EXCEPT ![e] = Disowned(@, w)]
    /\ UNCHANGED <<status, saved, starts, wExec, wNode, wState, wReady>> /\ OthersUnchanged

(* LoadWorkflow fails: the execution is marked 'error'.                    *)
LoadWorkflowError(w) ==
    /\ wPc[w] = "load" /\ Runnable(wExec[w])
    /\ Fault
    /\ GoTo(w, "failExec")
    /\ UNCHANGED <<status, saved, rows, starts, wExec, wNode, wState, wReady>> /\ OthersUnchanged

-----------------------------------------------------------------------------
(* recoverRunning, once per start of an instance                           *)

ListRunning(i) ==
    /\ rcPc[i] = "list"
    /\ rcPc' = [rcPc EXCEPT ![i] = "fail"]
    /\ \/ /\ rcIds' = [rcIds EXCEPT ![i] = {e \in Exec : status[e] = "running"}]
          /\ UNCHANGED faults
       \/ Fault /\ UNCHANGED rcIds
    /\ UNCHANGED <<rowVars, jobs, active, rcExec, workerVars, runPc, resumeVars, crashes>>

(* UPDATE execution_steps ... WHERE execution_id=$1 AND status='running'   *)
FailedRows_AllExecutions(e) == [f \in Exec |-> {}]

FailedRows(e) == [rows EXCEPT ![e] = {}]

(* FailStaleRunningSteps (its error is ignored), for the next execution.   *)
FailStaleSteps(i) ==
    /\ rcPc[i] = "fail"
    /\ \E e \in rcIds[i] :
          /\ rcExec' = [rcExec EXCEPT ![i] = e]
          /\ rcIds' = [rcIds EXCEPT ![i] = @ \ {e}]
          /\ \/ rows' = FailedRows(e) /\ UNCHANGED faults
             \/ Fault /\ UNCHANGED rows
    /\ rcPc' = [rcPc EXCEPT ![i] = "enqueue"]
    /\ UNCHANGED <<status, saved, waitingAt, starts, jobs, active, workerVars, runPc, resumeVars,
                   crashes>>

EnqueueRecovered(i) ==
    /\ rcPc[i] = "enqueue"
    /\ Enqueue(i, rcExec[i])
    /\ rcPc' = [rcPc EXCEPT ![i] = "fail"]
    /\ rcExec' = [rcExec EXCEPT ![i] = None]
    /\ UNCHANGED <<rowVars, active, rcIds, workerVars, runPc, resumeVars, boundVars>>

(* The process of an instance dies and is started again.                   *)
Crash(i) ==
    LET lost == {w \in Worker : home[w] = i}
        Orphaned(R) == {r \in R : r[2] \notin lost}
                         \cup {<<r[1], None>> : r \in {x \in R : x[2] \in lost}} IN
    /\ crashes < MaxCrashes
    /\ crashes' = crashes + 1
    /\ rows' = [e \in Exec |-> Orphaned(rows[e])]
    /\ jobs' = [jobs EXCEPT ![i] = <<>>]
    /\ active' = [active EXCEPT ![i] = {}]
    /\ rcPc' = [rcPc EXCEPT ![i] = "list"]
    /\ rcIds' = [rcIds EXCEPT ![i] = {}]
    /\ rcExec' = [rcExec EXCEPT ![i] = None]
    /\ wPc' = [w \in Worker |-> IF w \in lost THEN "idle" ELSE wPc[w]]
    /\ wExec' = [w \in Worker |-> IF w \in lost THEN None ELSE wExec[w]]
    /\ wNode' = [w \in Worker |-> IF w \in lost THEN None ELSE wNode[w]]
    /\ wState' = [w \in Worker |-> IF w \in lost THEN NullState ELSE wState[w]]
    /\ wReady' = [w \in Worker |-> IF w \in lost THEN {} ELSE wReady[w]]
    /\ runPc' = [e \in Exec |-> IF home[e] = i /\ runPc[e] \in {"seed", "enqueue"} THEN "gone"
                                                                                   ELSE runPc[e]]
    /\ zPc' = [z \in Resumer |-> IF home[z] = i THEN "idle" ELSE zPc[z]]
    /\ zExec' = [z \in Resumer |-> IF home[z] = i THEN None ELSE zExec[z]]
    /\ zNode' = [z \in Resumer |-> IF home[z] = i THEN None ELSE zNode[z]]
    /\ zState' = [z \in Resumer |-> IF home[z] = i THEN NullState ELSE zState[z]]
    /\ UNCHANGED <<status, saved, waitingAt, starts, faults>>

-----------------------------------------------------------------------------
RunStep(e) == SaveSeed(e) \/ EnqueueRun(e)

ResumeStep(z) == ClaimWaiting(z) \/ SaveResumed(z) \/ EnqueueResumed(z)

WorkerStep(w) ==
    \/ Take(w) \/ Load(w) \/ PruneNode(w) \/ UnknownType(w) \/ StartStep(w)
    \/ ExecuteReturns(w) \/ ExecuteFails(w) \/ FinishStep(w) \/ SaveState(w)
    \/ SetWaiting(w) \/ FinishExecution(w) \/ Release(w)

WorkerFault(w) == DriveStoreError(w) \/ FinishStepIgnored(w) \/ LoadWorkflowError(w)

RecoveryStep(i) == ListRunning(i) \/ FailStaleSteps(i) \/ EnqueueRecovered(i)

Next ==
    \/ \E e \in Exec : CreateExecution(e) \/ RunStep(e)
    \/ \E z \in Resumer : (\E e \in Exec : LoadForResume(z, e)) \/ ResumeStep(z)
    \/ \E w \in Worker : WorkerStep(w) \/ WorkerFault(w)
    \/ \E i \in Inst : RecoveryStep(i) \/ Crash(i)

Spec == Init /\ [][Next]_vars

(* The goroutines of callers, workers and the recovery are scheduled and   *)
(* their store calls and Execute functions return; requests and crashes    *)
(* need not happen.                                                        *)
Fairness ==
    /\ \A e \in Exec : WF_vars(RunStep(e))
    /\ \A z \in Resumer : WF_vars(ResumeStep(z))
    /\ \A w \in Worker : WF_vars(WorkerStep(w))
    /\ \A i \in Inst : WF_vars(RecoveryStep(i))

FairSpec == Spec /\ Fairness

-----------------------------------------------------------------------------
(* Properties                                                              *)

SingleInstance == \A i, j \in Inst : i = j

Driving == WorkerPcs \ {"idle", "load", "release"}

(* claim and release: an instance's active set is exactly what its workers *)
(* own, and no two of its workers own the same execution.                  *)
Owns(w, e) == wPc[w] # "idle" /\ wExec[w] = e

ClaimsAreExclusive ==
    /\ \A i \in Inst, e \in Exec :
          e \in active[i] <=> \E w \in Worker : home[w] = i /\ Owns(w, e)
    /\ \A v, w \in Worker, e \in Exec : home[v] = home[w] /\ Owns(v, e) /\ Owns(w, e) => v = w

(* Between LoadExecution and the write that ends the drive, nobody else    *)
(* takes the execution out of 'running', though only the load checks it.   *)
DrivenIsRunning == \A w \in Worker : wPc[w] \in Driving => status[wExec[w]] = "running"

(* A row is inserted by the first step of the caller of Run.               *)
FreshHasNoRow == \A e \in Exec : runPc[e] = "idle" => status[e] = "none"

(* No two workers, of any instance, drive one execution at a time.         *)
NoDoubleDrive ==
    \A v, w \in Worker : v # w /\ wPc[v] \in Driving /\ wPc[w] \in Driving => wExec[v] # wExec[w]

(* A finished execution is never reopened, by a late resume, a duplicate   *)
(* job or the recovery.                                                    *)
TerminalForever == [][\A e \in Exec : status[e] \in Terminal => status'[e] = status[e]]_vars

(* A node runs only after all of its sources, whatever mix of fresh drives,*)
(* resumes and recoveries brought the walk there; so does every checkpoint *)
(* list a node only with all of its sources.                               *)
WalkInOrder ==
    /\ \A e \in Exec : Closed(saved[e].visited)
    /\ \A w \in Worker : wPc[w] = "exec" /\ wNode[w] # FindTrigger =>
                            Sources(wNode[w]) \subseteq wState[w].visited

(* A run is reported successful only when its walk has visited the trigger *)
(* and left no node ready: the ready list that drive maintains step by     *)
(* step is the frontier that process would recompute.                      *)
SuccessIsComplete ==
    [][\A e \in Exec : status[e] # "success" /\ status'[e] = "success" =>
          \E w \in Worker : /\ wExec[w] = e
                            /\ FindTrigger \in wState[w].visited
                            /\ Frontier(wState[w].visited) = {}]_vars

(* Checkpoints only grow: a run continues from the last checkpoint and no  *)
(* write of a stale state undoes the visit of a node.                      *)
CheckpointsGrow == [][\A e \in Exec : saved[e].visited \subseteq saved'[e].visited]_vars

(* A node starts again only because a crash interrupted the run: at most   *)
(* once more per crash (at-least-once, and exactly once without a crash).  *)
RerunOnlyAfterCrash == \A e \in Exec, n \in Node : starts[e][n] <= 1 + crashes

(* FailStaleRunningSteps never fails the row of a step that is executing.  *)
RecoverySparesLiveSteps ==
    \A w \in Worker : wPc[w] = "exec" => <<wNode[w], w>> \in rows[wExec[w]]

(* What a waiting row promises: its state waits at an unvisited node that  *)
(* suspended, with all of the node's sources done, so that Resume can go   *)
(* on from it.                                                             *)
WaitingIsResumable ==
    \A e \in Exec : status[e] = "waiting" =>
        /\ saved[e].trig # "null"
        /\ waitingAt[e] \in WaitNodes \ saved[e].visited
        /\ waitingAt[e] # FindTrigger => Sources(waitingAt[e]) \subseteq saved[e].visited

(* Some goroutine will go on with a running execution.                     *)
Attended(e) ==
    \/ runPc[e] \in {"seed", "enqueue"}
    \/ \E i \in Inst : \/ rcPc[i] = "list" \/ e \in rcIds[i] \/ rcExec[i] = e
                       \/ \E k \in DOMAIN jobs[i] : jobs[i][k] = e
    \/ \E w \in Worker : wExec[w] = e /\ wPc[w] # "release"
    \/ \E z \in Resumer : zExec[z] = e /\ zPc[z] \in {"save", "enqueue"}

(* Without store errors no running execution is left without a goroutine   *)
(* that will go on with it, across crashes and duplicate jobs.             *)
RunningIsAttended == \A e \in Exec : status[e] = "running" => Attended(e)

(* Every running execution settles: it finishes, fails or waits.           *)
RunsSettle == \A e \in Exec : status[e] = "running" ~> status[e] # "running"

(* "Only the first wins": a caller that flips waiting to running has       *)
(* loaded the suspension it ends, not an earlier one that another caller   *)
(* has resumed since.                                                      *)
ResumesItsSuspension ==
    [][\A z \in Resumer : zPc[z] = "claim" /\ zPc'[z] = "save" =>
          zNode[z] = waitingAt[zExec[z]]]_vars

(* The engine implements the life of an execution row that Execution       *)
(* promises: statuses follow its transitions, checkpoints only grow, in    *)
(* the order of the graph, only while the run is not suspended, and a run  *)
(* suspends at a wait node that is not done.                               *)
Lifecycle == INSTANCE Execution WITH done <- [e \in Exec |-> saved[e].visited]

RefinesExecution == Lifecycle!Spec
=============================================================================
