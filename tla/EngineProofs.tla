---------------------------- MODULE EngineProofs ----------------------------
(***************************************************************************)
(* Proofs about the executor, for any workflow, any number of executions,  *)
(* workers and callers, any queue capacity and any number of crashes and   *)
(* store errors.                                                           *)
(*                                                                         *)
(* From "One hand per execution" on the theorems assume one instance whose *)
(* requests wait for the recovery's list (Orderly), from "The checkpoints" *)
(* on also one caller of Resume at a time (OneResumer); each says so.      *)
(***************************************************************************)
EXTENDS Engine, Induction, TLAPS

(* The one-line conditions and values the actions name.                    *)
USE DEF Claimed, Claimable, Runnable, WaitingState, FailedRows, StartingPoints

-----------------------------------------------------------------------------
(* Types of the operators the actions are built from                       *)

(* The states the code starts from are run states, and so is what process  *)
(* makes of a NULL state and what Resume makes of the state it loaded.     *)
LEMMA StateTypes ==
    /\ NullState \in RunState /\ SeedState \in RunState
    /\ \A st \in RunState : [st EXCEPT !.trig = "default"] \in RunState
    /\ \A st \in RunState, n \in Node : WithPayload(st, n) \in RunState
  BY DEF NullState, SeedState, RunState, WithPayload, Outgoing

(* frontier yields nodes of the workflow.                                  *)
LEMMA FrontierType == \A visited : Frontier(visited) \subseteq Node
  BY DEF Frontier, ReadySuccessors

(* A step row handed over to nobody is still a step row.                   *)
LEMMA DisownedType ==
  ASSUME NEW R \in SUBSET (Node \X (Worker \cup {None})), NEW w
  PROVE  Disowned(R, w) \in SUBSET (Node \X (Worker \cup {None}))
  BY DEF Disowned

(* Visiting a node keeps the state and the ready list of the walk typed.   *)
LEMMA VisitType ==
  ASSUME TypeOK, NEW w \in Worker, NEW n \in Node, NEW ready \in SUBSET Node,
         NEW out \in SUBSET Edges, Visit(w, n, ready, out)
  PROVE  wState' \in [Worker -> RunState] /\ wReady' \in [Worker -> SUBSET Node]
  <1>1. wState[w] \in RunState
    BY DEF TypeOK, WorkerType
  <1>2. [wState[w] EXCEPT !.visited = wState[w].visited \cup {n},
                          !.live = (wState[w].live \ Outgoing(n)) \cup out] \in RunState
    BY <1>1 DEF RunState
  <1>3. wState' \in [Worker -> RunState]
    BY <1>2 DEF Visit, TypeOK, WorkerType
  <1>4. ready \cup ReadySuccessors(n, wState[w].visited \cup {n}) \in SUBSET Node
    BY DEF ReadySuccessors
  <1>5. wReady' \in [Worker -> SUBSET Node]
    BY <1>4 DEF Visit, TypeOK, WorkerType
  <1> QED
    BY <1>3, <1>5

(* Appending an execution keeps the channels typed.                        *)
LEMMA EnqueueType ==
  ASSUME TypeOK, NEW i \in Inst, NEW e \in Exec, Enqueue(i, e)
  PROVE  jobs' \in [Inst -> Seq(Exec)]
  BY DEF Enqueue, TypeOK, QueueType

-----------------------------------------------------------------------------
(* Type correctness                                                        *)

LEMMA TypeInit == Init => TypeOK
  BY EngineAssumption, StateTypes DEF Init, TypeOK, RowsType, QueueType, WorkerType, CallerType,
     Statuses, WorkerPcs

(* The steps of the callers of Run keep the types.                         *)
LEMMA RunTypeStep ==
  ASSUME TypeOK, NEW e \in Exec, CreateExecution(e) \/ RunStep(e)
  PROVE  TypeOK'
  <1> USE EngineAssumption DEF TypeOK, rowVars, rcVars, workerVars, resumeVars, boundVars
  <1>1. CASE CreateExecution(e)
    <2>1. RowsType' /\ CallerType'
      BY <1>1 DEF CreateExecution, RowsType, CallerType, Statuses
    <2> QED
      BY <1>1, <2>1 DEF CreateExecution, QueueType, WorkerType
  <1>2. CASE SaveSeed(e)
    <2>0. SeedState \in RunState
      BY StateTypes
    <2>1. RowsType'
      BY <1>2, <2>0 DEF SaveSeed, RowsType
    <2>2. CallerType'
      BY <1>2 DEF SaveSeed, CallerType
    <2>3. faults' \in 0..MaxFaults
      BY <1>2 DEF SaveSeed, Fault
    <2> QED
      BY <1>2, <2>1, <2>2, <2>3 DEF SaveSeed, QueueType, WorkerType
  <1>3. CASE EnqueueRun(e)
    <2>1. QueueType'
      BY <1>3, EnqueueType DEF EnqueueRun, QueueType
    <2>2. CallerType'
      BY <1>3 DEF EnqueueRun, CallerType
    <2> QED
      BY <1>3, <2>1, <2>2 DEF EnqueueRun, RowsType, WorkerType
  <1> QED
    BY <1>1, <1>2, <1>3 DEF RunStep

(* A caller that returns from Resume leaves the callers typed.             *)
LEMMA ResetResumerType ==
  ASSUME TypeOK, NEW z \in Resumer, ResetResumer(z), UNCHANGED runPc
  PROVE  CallerType'
  BY StateTypes, EngineAssumption DEF ResetResumer, TypeOK, CallerType

(* The steps of the callers of Resume keep the types.                      *)
LEMMA ResumeTypeStep ==
  ASSUME TypeOK, NEW z \in Resumer, (\E e \in Exec : LoadForResume(z, e)) \/ ResumeStep(z)
  PROVE  TypeOK'
  <1> USE EngineAssumption DEF TypeOK, rowVars, rcVars, workerVars, resumeVars, boundVars
  <1>1. ASSUME NEW e \in Exec, LoadForResume(z, e) PROVE TypeOK'
    <2>1. saved[e] \in RunState /\ waitingAt[e] \in Node
      BY <1>1 DEF LoadForResume, RowsType
    <2>2. CallerType'
      BY <1>1, <2>1 DEF LoadForResume, CallerType
    <2> QED
      BY <1>1, <2>2 DEF LoadForResume, RowsType, QueueType, WorkerType
  <1>2. CASE ClaimWaiting(z)
    <2>1. zExec[z] \in Exec
      BY <1>2 DEF ClaimWaiting, CallerType
    <2>2. RowsType'
      BY <1>2, <2>1 DEF ClaimWaiting, RowsType, Statuses
    <2>3. CallerType'
      BY <1>2, ResetResumerType DEF ClaimWaiting, CallerType
    <2>4. faults' \in 0..MaxFaults
      BY <1>2 DEF ClaimWaiting, Fault
    <2> QED
      BY <1>2, <2>2, <2>3, <2>4 DEF ClaimWaiting, QueueType, WorkerType
  <1>3. CASE SaveResumed(z)
    <2>1. zExec[z] \in Exec /\ WithPayload(zState[z], zNode[z]) \in RunState
      BY <1>3, StateTypes DEF SaveResumed, CallerType
    <2>2. RowsType'
      BY <1>3, <2>1 DEF SaveResumed, RowsType
    <2>3. CallerType'
      BY <1>3, ResetResumerType DEF SaveResumed, CallerType
    <2>4. faults' \in 0..MaxFaults
      BY <1>3 DEF SaveResumed, Fault
    <2> QED
      BY <1>3, <2>2, <2>3, <2>4 DEF SaveResumed, QueueType, WorkerType
  <1>4. CASE EnqueueResumed(z)
    <2>1. zExec[z] \in Exec /\ home[z] \in Inst
      BY <1>4 DEF EnqueueResumed, CallerType
    <2>2. QueueType'
      BY <1>4, <2>1, EnqueueType DEF EnqueueResumed, QueueType
    <2>3. CallerType'
      BY <1>4, ResetResumerType DEF EnqueueResumed
    <2> QED
      BY <1>4, <2>2, <2>3 DEF EnqueueResumed, RowsType, WorkerType
  <1> QED
    BY <1>1, <1>2, <1>3, <1>4 DEF ResumeStep

(* The steps of a worker up to the execution of a node keep the types.     *)
LEMMA DriveTypeStep ==
  ASSUME TypeOK, NEW w \in Worker,
         Take(w) \/ Load(w) \/ PruneNode(w) \/ UnknownType(w) \/ StartStep(w)
  PROVE  TypeOK'
  <1> USE EngineAssumption, WorkflowAssumption
      DEF TypeOK, rowVars, rcVars, workerVars, resumeVars, boundVars
  <1>1. CASE Take(w)
    <2> DEFINE i == home[w]
               e == Head(jobs[i])
    <2>1. /\ i \in Inst /\ e \in Exec /\ Tail(jobs[i]) \in Seq(Exec)
      BY <1>1 DEF Take, QueueType
    <2>2. jobs' \in [Inst -> Seq(Exec)]
      BY <1>1, <2>1 DEF Take, QueueType
    <2>3. CASE e \notin active[i]
      <3>1. active' = [active EXCEPT ![i] = @ \cup {e}]
        BY <1>1, <2>3 DEF Take
      <3>2. active' \in [Inst -> SUBSET Exec]
        BY <2>1, <3>1 DEF QueueType
      <3>3. wPc' = [wPc EXCEPT ![w] = "load"] /\ wExec' = [wExec EXCEPT ![w] = e]
        BY <1>1, <2>3 DEF Take, GoTo
      <3>4. WorkerType'
        BY <1>1, <2>1, <3>3 DEF Take, WorkerType, WorkerPcs
      <3> QED
        BY <1>1, <2>2, <3>2, <3>4 DEF Take, QueueType, RowsType, CallerType
    <2>4. CASE e \in active[i]
      BY <1>1, <2>2, <2>4 DEF Take, QueueType, WorkerType, RowsType, CallerType
    <2> QED
      BY <2>3, <2>4
  <1>2. CASE Load(w)
    <2>1. wExec[w] \in Exec /\ saved[wExec[w]] \in RunState
      BY <1>2 DEF Load, WorkerType, RowsType
    <2>2. wState' \in [Worker -> RunState]
      BY <1>2, <2>1, StateTypes DEF Load, WorkerType
    <2>3. wReady' \in [Worker -> SUBSET Node]
      BY <1>2, FrontierType DEF Load, WorkerType
    <2>4. WorkerType'
      BY <1>2, <2>1, <2>2, <2>3 DEF Load, GoTo, WorkerType, WorkerPcs
    <2> QED
      BY <1>2, <2>4 DEF Load, OthersUnchanged, RowsType, QueueType, CallerType
  <1>3. CASE PruneNode(w)
    <2>1. PICK n \in wReady[w] : Visit(w, n, wReady[w] \ {n}, {})
      BY <1>3 DEF PruneNode
    <2>2. n \in Node /\ (wReady[w] \ {n}) \in SUBSET Node /\ {} \in SUBSET Edges
      BY <2>1 DEF WorkerType
    <2>3. wState' \in [Worker -> RunState] /\ wReady' \in [Worker -> SUBSET Node]
      BY <2>1, <2>2, VisitType
    <2>4. WorkerType'
      BY <1>3, <2>3 DEF PruneNode, WorkerType
    <2> QED
      BY <1>3, <2>4 DEF PruneNode, OthersUnchanged, RowsType, QueueType, CallerType
  <1>4. CASE UnknownType(w)
    <2>1. WorkerType'
      BY <1>4 DEF UnknownType, GoTo, WorkerType, WorkerPcs
    <2> QED
      BY <1>4, <2>1 DEF UnknownType, OthersUnchanged, RowsType, QueueType, CallerType
  <1>5. CASE StartStep(w)
    <2> DEFINE e == wExec[w]
    <2>1. PICK n \in wReady[w] :
            /\ rows' = [rows EXCEPT ![e] = @ \cup {<<n, w>>}]
            /\ starts' = [starts EXCEPT ![e][n] = IF @ < MaxStarts THEN @ + 1 ELSE @]
            /\ wNode' = [wNode EXCEPT ![w] = n]
            /\ wReady' = [wReady EXCEPT ![w] = @ \ {n}]
      BY <1>5 DEF StartStep
    <2>2. e \in Exec /\ n \in Node
      BY <1>5, <2>1 DEF StartStep, WorkerType
    <2>3. rows' \in [Exec -> SUBSET (Node \X (Worker \cup {None}))]
      BY <2>1, <2>2 DEF RowsType
    <2>4. starts' \in [Exec -> [Node -> 0..MaxStarts]]
      <3>1. starts[e] \in [Node -> 0..MaxStarts] /\ starts[e][n] \in 0..MaxStarts
        BY <2>2 DEF RowsType
      <3>2. (IF starts[e][n] < MaxStarts THEN starts[e][n] + 1 ELSE starts[e][n]) \in 0..MaxStarts
        BY <3>1
      <3> QED
        BY <2>1, <2>2, <3>1, <3>2 DEF RowsType
    <2>5. WorkerType'
      BY <1>5, <2>1, <2>2 DEF StartStep, GoTo, WorkerType, WorkerPcs
    <2> QED
      BY <1>5, <2>3, <2>4, <2>5 DEF StartStep, OthersUnchanged, RowsType, QueueType, CallerType
  <1> QED
    BY <1>1, <1>2, <1>3, <1>4, <1>5

(* The steps of a worker from the return of Execute on keep the types.     *)
LEMMA ReturnTypeStep ==
  ASSUME TypeOK, NEW w \in Worker,
         \/ ExecuteReturns(w) \/ ExecuteFails(w) \/ FinishStep(w) \/ SaveState(w)
         \/ SetWaiting(w) \/ FinishExecution(w) \/ Release(w)
  PROVE  TypeOK'
  <1> USE EngineAssumption, WorkflowAssumption
      DEF TypeOK, rowVars, rcVars, workerVars, resumeVars, boundVars
  <1>0. wPc[w] # "idle" => wExec[w] \in Exec
    BY DEF WorkerType
  <1>1. CASE ExecuteReturns(w)
    <2>1. CASE wNode[w] \in WaitNodes
      <3>1. WorkerType'
        BY <1>1, <2>1 DEF ExecuteReturns, GoTo, WorkerType, WorkerPcs
      <3> QED
        BY <1>1, <2>1, <3>1 DEF ExecuteReturns, OthersUnchanged, RowsType, QueueType, CallerType
    <2>2. CASE wNode[w] \notin WaitNodes
      <3>1. PICK out \in SUBSET Outgoing(wNode[w]) : Visit(w, wNode[w], wReady[w], out)
        BY <1>1, <2>2 DEF ExecuteReturns
      <3>2. wNode[w] \in Node /\ wReady[w] \in SUBSET Node /\ out \in SUBSET Edges
        BY <1>1, <3>1 DEF ExecuteReturns, WorkerType, WorkerPcs, Outgoing
      <3>3. wState' \in [Worker -> RunState] /\ wReady' \in [Worker -> SUBSET Node]
        BY <3>1, <3>2, VisitType
      <3>4. WorkerType'
        BY <1>1, <2>2, <3>3 DEF ExecuteReturns, GoTo, WorkerType, WorkerPcs
      <3> QED
        BY <1>1, <2>2, <3>4 DEF ExecuteReturns, OthersUnchanged, RowsType, QueueType, CallerType
    <2> QED
      BY <2>1, <2>2
  <1>2. CASE ExecuteFails(w)
    <2>1. rows' \in [Exec -> SUBSET (Node \X (Worker \cup {None}))]
      BY <1>2, <1>0, DisownedType DEF ExecuteFails, RowsType
    <2>2. WorkerType'
      BY <1>2 DEF ExecuteFails, GoTo, WorkerType, WorkerPcs
    <2> QED
      BY <1>2, <2>1, <2>2 DEF ExecuteFails, OthersUnchanged, RowsType, QueueType, CallerType
  <1>3. CASE FinishStep(w)
    <2>1. rows' \in [Exec -> SUBSET (Node \X (Worker \cup {None}))]
      BY <1>3, <1>0 DEF FinishStep, RowsType
    <2>2. WorkerType'
      BY <1>3 DEF FinishStep, AfterStep, GoTo, WorkerType, WorkerPcs
    <2> QED
      BY <1>3, <2>1, <2>2 DEF FinishStep, OthersUnchanged, RowsType, QueueType, CallerType
  <1>4. CASE SaveState(w)
    <2>1. saved' \in [Exec -> RunState]
      BY <1>4, <1>0 DEF SaveState, RowsType, WorkerType
    <2>2. WorkerType'
      BY <1>4 DEF SaveState, GoTo, WorkerType, WorkerPcs
    <2> QED
      BY <1>4, <2>1, <2>2 DEF SaveState, OthersUnchanged, RowsType, QueueType, CallerType
  <1>5. CASE SetWaiting(w)
    <2>1. wNode[w] \in Node /\ wState[w] \in RunState
      BY <1>5 DEF SetWaiting, WorkerType, WorkerPcs
    <2>2. RowsType'
      BY <1>5, <1>0, <2>1 DEF SetWaiting, RowsType, Statuses
    <2>3. WorkerType'
      BY <1>5 DEF SetWaiting, GoTo, WorkerType, WorkerPcs
    <2> QED
      BY <1>5, <2>2, <2>3 DEF SetWaiting, QueueType, CallerType
  <1>6. CASE FinishExecution(w)
    <2>1. RowsType'
      BY <1>6, <1>0 DEF FinishExecution, RowsType, Statuses
    <2>2. WorkerType'
      BY <1>6 DEF FinishExecution, GoTo, WorkerType, WorkerPcs
    <2> QED
      BY <1>6, <2>1, <2>2 DEF FinishExecution, QueueType, CallerType
  <1>7. CASE Release(w)
    <2>1. home[w] \in Inst /\ active[home[w]] \ {wExec[w]} \in SUBSET Exec
      BY DEF QueueType
    <2>2. QueueType'
      BY <1>7, <2>1 DEF Release, QueueType
    <2>3. WorkerType'
      BY <1>7, StateTypes DEF Release, GoTo, WorkerType, WorkerPcs
    <2> QED
      BY <1>7, <2>2, <2>3 DEF Release, RowsType, CallerType
  <1> QED
    BY <1>1, <1>2, <1>3, <1>4, <1>5, <1>6, <1>7

(* The store errors a worker meets keep the types.                         *)
LEMMA FaultTypeStep ==
  ASSUME TypeOK, NEW w \in Worker, WorkerFault(w)
  PROVE  TypeOK'
  <1> USE EngineAssumption DEF TypeOK, rowVars, rcVars, workerVars, resumeVars, boundVars
  <1>0. /\ wPc[w] # "idle" => wExec[w] \in Exec
        /\ Fault => faults' \in 0..MaxFaults
    BY DEF WorkerType, Fault
  <1>1. CASE DriveStoreError(w)
    <2>1. rows' \in [Exec -> SUBSET (Node \X (Worker \cup {None}))]
      BY <1>1, <1>0, DisownedType DEF DriveStoreError, RowsType
    <2>2. WorkerType'
      BY <1>1 DEF DriveStoreError, GoTo, WorkerType, WorkerPcs
    <2> QED
      BY <1>0, <1>1, <2>1, <2>2 DEF DriveStoreError, OthersUnchanged, RowsType, QueueType, CallerType
  <1>2. CASE FinishStepIgnored(w)
    <2>1. rows' \in [Exec -> SUBSET (Node \X (Worker \cup {None}))]
      BY <1>2, <1>0, DisownedType DEF FinishStepIgnored, RowsType
    <2>2. WorkerType'
      BY <1>2 DEF FinishStepIgnored, AfterStep, GoTo, WorkerType, WorkerPcs
    <2> QED
      BY <1>0, <1>2, <2>1, <2>2 DEF FinishStepIgnored, OthersUnchanged, RowsType, QueueType,
         CallerType
  <1>3. CASE LoadWorkflowError(w)
    <2>1. WorkerType'
      BY <1>3 DEF LoadWorkflowError, GoTo, WorkerType, WorkerPcs
    <2> QED
      BY <1>0, <1>3, <2>1 DEF LoadWorkflowError, OthersUnchanged, RowsType, QueueType, CallerType
  <1> QED
    BY <1>1, <1>2, <1>3 DEF WorkerFault

(* The recovery and a crash keep the types.                                *)
LEMMA InstanceTypeStep ==
  ASSUME TypeOK, NEW i \in Inst, RecoveryStep(i) \/ Crash(i)
  PROVE  TypeOK'
  <1> USE EngineAssumption DEF TypeOK, rowVars, rcVars, workerVars, resumeVars, boundVars
  <1>0. Fault => faults' \in 0..MaxFaults
    BY DEF Fault
  <1>1. CASE ListRunning(i)
    <2>0. {e \in Exec : status[e] = "running"} \in SUBSET Exec
      OBVIOUS
    <2>1. rcIds' = [rcIds EXCEPT ![i] = {e \in Exec : status[e] = "running"}] \/ UNCHANGED rcIds
      BY <1>1 DEF ListRunning
    <2>2. rcIds' \in [Inst -> SUBSET Exec]
      BY <2>0, <2>1 DEF QueueType
    <2>3. QueueType'
      BY <1>1, <2>2 DEF ListRunning, QueueType
    <2> QED
      BY <1>0, <1>1, <2>3 DEF ListRunning, RowsType, WorkerType, CallerType
  <1>2. CASE FailStaleSteps(i)
    <2>1. PICK e \in rcIds[i] :
            /\ rcExec' = [rcExec EXCEPT ![i] = e]
            /\ rcIds' = [rcIds EXCEPT ![i] = @ \ {e}]
            /\ \/ rows' = [rows EXCEPT ![e] = {}] /\ UNCHANGED faults
               \/ Fault /\ UNCHANGED rows
      BY <1>2 DEF FailStaleSteps
    <2>2. e \in Exec
      BY <2>1 DEF QueueType
    <2>3. QueueType'
      BY <1>2, <2>1, <2>2 DEF FailStaleSteps, QueueType
    <2>4. rows' \in [Exec -> SUBSET (Node \X (Worker \cup {None}))]
      BY <2>1, <2>2 DEF RowsType
    <2> QED
      BY <1>0, <1>2, <2>1, <2>3, <2>4 DEF FailStaleSteps, RowsType, WorkerType, CallerType
  <1>3. CASE EnqueueRecovered(i)
    <2>1. rcExec[i] \in Exec
      BY <1>3 DEF EnqueueRecovered, QueueType
    <2>2. jobs' \in [Inst -> Seq(Exec)]
      BY <1>3, <2>1, EnqueueType DEF EnqueueRecovered
    <2>3. QueueType'
      BY <1>3, <2>2 DEF EnqueueRecovered, QueueType
    <2> QED
      BY <1>3, <2>3 DEF EnqueueRecovered, RowsType, WorkerType, CallerType
  <1>4. CASE Crash(i)
    <2>0. \A R \in SUBSET (Node \X (Worker \cup {None})), lost \in SUBSET Worker :
            {r \in R : r[2] \notin lost} \cup {<<r[1], None>> : r \in {x \in R : x[2] \in lost}}
              \in SUBSET (Node \X (Worker \cup {None}))
      OBVIOUS
    <2>1. RowsType'
      BY <1>4, <2>0 DEF Crash, RowsType
    <2>2. QueueType'
      BY <1>4 DEF Crash, QueueType
    <2>3. WorkerType'
      BY <1>4, StateTypes DEF Crash, WorkerType, WorkerPcs
    <2>4. CallerType'
      BY <1>4, StateTypes DEF Crash, CallerType
    <2>5. crashes' \in 0..MaxCrashes /\ faults' \in 0..MaxFaults
      BY <1>4 DEF Crash
    <2> QED
      BY <2>1, <2>2, <2>3, <2>4, <2>5
  <1> QED
    BY <1>1, <1>2, <1>3, <1>4 DEF RecoveryStep

(* Every variable keeps its type.                                          *)
THEOREM TypeCorrect == Spec => []TypeOK
  <1>1. TypeOK /\ [Next]_vars => TypeOK'
    <2> SUFFICES ASSUME TypeOK, [Next]_vars PROVE TypeOK'
      OBVIOUS
    <2>1. ASSUME NEW e \in Exec, CreateExecution(e) \/ RunStep(e) PROVE TypeOK'
      BY <2>1, RunTypeStep
    <2>2. ASSUME NEW z \in Resumer, (\E e \in Exec : LoadForResume(z, e)) \/ ResumeStep(z)
          PROVE  TypeOK'
      BY <2>2, ResumeTypeStep
    <2>3. ASSUME NEW w \in Worker, WorkerStep(w) \/ WorkerFault(w) PROVE TypeOK'
      BY <2>3, DriveTypeStep, ReturnTypeStep, FaultTypeStep DEF WorkerStep
    <2>4. ASSUME NEW i \in Inst, RecoveryStep(i) \/ Crash(i) PROVE TypeOK'
      BY <2>4, InstanceTypeStep
    <2>5. CASE UNCHANGED vars
      BY <2>5 DEF vars, TypeOK, RowsType, QueueType, WorkerType, CallerType, rowVars, rcVars,
         workerVars, resumeVars, boundVars
    <2> QED
      BY <2>1, <2>2, <2>3, <2>4, <2>5 DEF Next
  <1> QED
    BY <1>1, TypeInit, PTL DEF Spec

-----------------------------------------------------------------------------
(* Exclusive claims                                                        *)

(* The steps of a worker between its claim and its release.                *)
Midway(w) ==
    \/ Load(w) \/ PruneNode(w) \/ UnknownType(w) \/ StartStep(w) \/ ExecuteReturns(w)
    \/ ExecuteFails(w) \/ FinishStep(w) \/ SaveState(w) \/ SetWaiting(w) \/ FinishExecution(w)
    \/ WorkerFault(w)

(* They move a busy worker to another busy point and leave the claims      *)
(* alone.                                                                  *)
LEMMA MidwayKeepsClaims ==
  ASSUME TypeOK, NEW w \in Worker, Midway(w)
  PROVE  /\ UNCHANGED <<active, wExec>>
         /\ \E pc \in WorkerPcs \ {"idle"} : wPc' = [wPc EXCEPT ![w] = pc]
         /\ wPc[w] # "idle"
  <1> USE DEF OthersUnchanged, GoTo, rcVars, resumeVars, boundVars
  <1>1. CASE Load(w) \/ UnknownType(w) \/ StartStep(w)
    BY <1>1 DEF Load, UnknownType, StartStep, WorkerPcs
  <1>2. CASE PruneNode(w)
    <2>1. wPc' = [wPc EXCEPT ![w] = "pick"]
      BY <1>2 DEF PruneNode, TypeOK, WorkerType
    <2> QED
      BY <1>2, <2>1 DEF PruneNode, WorkerPcs
  <1>3. CASE ExecuteReturns(w) \/ ExecuteFails(w)
    BY <1>3 DEF ExecuteReturns, ExecuteFails, WorkerPcs
  <1>4. CASE FinishStep(w)
    BY <1>4 DEF FinishStep, AfterStep, WorkerPcs
  <1>5. CASE SaveState(w) \/ SetWaiting(w) \/ FinishExecution(w)
    BY <1>5 DEF SaveState, SetWaiting, FinishExecution, WorkerPcs
  <1>6. CASE WorkerFault(w)
    BY <1>6 DEF WorkerFault, DriveStoreError, FinishStepIgnored, LoadWorkflowError, AfterStep,
       WorkerPcs
  <1> QED
    BY <1>1, <1>2, <1>3, <1>4, <1>5, <1>6 DEF Midway

(* The steps that leave the workers and their claims alone.                *)
LEMMA CallersKeepClaims ==
  ASSUME \/ \E e \in Exec : CreateExecution(e) \/ RunStep(e)
         \/ \E z \in Resumer : (\E e \in Exec : LoadForResume(z, e)) \/ ResumeStep(z)
         \/ \E i \in Inst : RecoveryStep(i)
  PROVE  UNCHANGED <<active, workerVars>>
  BY DEF RunStep, CreateExecution, SaveSeed, EnqueueRun, LoadForResume, ResumeStep, ClaimWaiting,
     SaveResumed, EnqueueResumed, RecoveryStep, ListRunning, FailStaleSteps, EnqueueRecovered

(* Take and Release are the inverse of each other on the active set, and   *)
(* a crash clears both sides.                                              *)
LEMMA ClaimsStep ==
  ASSUME TypeOK, ClaimsAreExclusive, [Next]_vars
  PROVE  ClaimsAreExclusive'
  <1> USE EngineAssumption DEF ClaimsAreExclusive, Owns
  <1>1. ASSUME NEW w \in Worker, Take(w) PROVE ClaimsAreExclusive'
    <2> DEFINE i == home[w]
               e == Head(jobs[i])
    <2>1. i \in Inst /\ e \in Exec
      BY <1>1 DEF Take, TypeOK, QueueType
    <2>2. CASE e \in active[i]
      BY <1>1, <2>2 DEF Take
    <2>3. CASE e \notin active[i]
      <3>1. /\ active' = [active EXCEPT ![i] = @ \cup {e}]
            /\ wPc' = [wPc EXCEPT ![w] = "load"]
            /\ wExec' = [wExec EXCEPT ![w] = e]
            /\ wPc[w] = "idle"
        BY <1>1, <2>3 DEF Take, GoTo
      <3>2. \A v \in Worker, f \in Exec : Owns(v, f)' <=> Owns(v, f) \/ (v = w /\ f = e)
        BY <3>1 DEF TypeOK, WorkerType
      <3>3. \A j \in Inst, f \in Exec : f \in active'[j] <=> f \in active[j] \/ (j = i /\ f = e)
        BY <2>1, <3>1 DEF TypeOK, QueueType
      <3> QED
        BY <2>1, <2>3, <3>2, <3>3
    <2> QED
      BY <2>2, <2>3
  <1>2. ASSUME NEW w \in Worker, Midway(w) PROVE ClaimsAreExclusive'
    <2>1. \A v \in Worker, f \in Exec : Owns(v, f)' <=> Owns(v, f)
      BY <1>2, MidwayKeepsClaims DEF TypeOK, WorkerType
    <2> QED
      BY <1>2, <2>1, MidwayKeepsClaims
  <1>3. ASSUME NEW w \in Worker, Release(w) PROVE ClaimsAreExclusive'
    <2>1. /\ active' = [active EXCEPT ![home[w]] = @ \ {wExec[w]}]
          /\ wPc' = [wPc EXCEPT ![w] = "idle"]
          /\ wExec' = [wExec EXCEPT ![w] = None]
          /\ Owns(w, wExec[w]) /\ wExec[w] \in Exec /\ home[w] \in Inst
      BY <1>3 DEF Release, GoTo, TypeOK, WorkerType
    <2>2. \A v \in Worker, f \in Exec : Owns(v, f)' <=> Owns(v, f) /\ v # w
      BY <2>1 DEF TypeOK, WorkerType
    <2>3. \A j \in Inst, f \in Exec :
            f \in active'[j] <=> f \in active[j] /\ ~(j = home[w] /\ f = wExec[w])
      BY <2>1 DEF TypeOK, QueueType
    <2>4. \A v \in Worker, f \in Exec : Owns(v, f) /\ Owns(w, f) => f = wExec[w]
      OBVIOUS
    <2> QED
      BY <2>1, <2>2, <2>3, <2>4
  <1>4. ASSUME NEW i \in Inst, Crash(i) PROVE ClaimsAreExclusive'
    <2>1. \A v \in Worker, f \in Exec : Owns(v, f)' <=> Owns(v, f) /\ home[v] # i
      BY <1>4 DEF Crash
    <2>2. \A j \in Inst, f \in Exec : f \in active'[j] <=> f \in active[j] /\ j # i
      BY <1>4 DEF Crash, TypeOK, QueueType
    <2> QED
      BY <2>1, <2>2
  <1>5. CASE UNCHANGED <<active, workerVars>>
    BY <1>5 DEF workerVars
  <1> QED
    BY <1>1, <1>2, <1>3, <1>4, <1>5, CallersKeepClaims DEF Next, WorkerStep, Midway, vars

(* claim and release keep an instance's workers apart, for any number of   *)
(* instances.                                                              *)
THEOREM ExclusiveClaims == Spec => []ClaimsAreExclusive
  <1>1. Init => ClaimsAreExclusive
    BY DEF Init, ClaimsAreExclusive, Owns
  <1> QED
    BY <1>1, ClaimsStep, TypeCorrect, PTL DEF Spec

-----------------------------------------------------------------------------
(* Driven executions are running, and finished ones stay finished          *)

(* The inductive invariant: DrivenIsRunning alone is not inductive, since  *)
(* the write that ends one drive would break it for another drive of the   *)
(* same execution.                                                         *)
DriveInv == TypeOK /\ ClaimsAreExclusive /\ DrivenIsRunning /\ FreshHasNoRow

(* Which steps write executions.status, and from what to what.             *)
StatusWrite(e, from, to) ==
    status[e] \in from /\ \E s \in to : status' = [status EXCEPT ![e] = s]

LEMMA StatusWrites ==
  ASSUME TypeOK, [Next]_vars
  PROVE  \/ UNCHANGED status
         \/ \E e \in Exec : CreateExecution(e)
         \/ \E e \in Exec : StatusWrite(e, {"waiting"}, {"running"}) /\ UNCHANGED <<wPc, wExec, runPc>>
         \/ \E w \in Worker : SetWaiting(w) \/ FinishExecution(w)
  <1> USE DEF rowVars, rcVars, workerVars, resumeVars, boundVars, OthersUnchanged
  <1>1. ASSUME NEW e \in Exec, RunStep(e) PROVE UNCHANGED status
    BY <1>1 DEF RunStep, SaveSeed, EnqueueRun
  <1>2. ASSUME NEW z \in Resumer, (\E e \in Exec : LoadForResume(z, e)) \/ ResumeStep(z)
        PROVE  \/ UNCHANGED status
               \/ \E e \in Exec : /\ StatusWrite(e, {"waiting"}, {"running"})
                                  /\ UNCHANGED <<wPc, wExec, runPc>>
    <2>1. CASE ClaimWaiting(z)
      <3>1. zExec[z] \in Exec
        BY <2>1 DEF ClaimWaiting, TypeOK, CallerType
      <3> QED
        BY <2>1, <3>1 DEF ClaimWaiting, StatusWrite
    <2>2. CASE ~ClaimWaiting(z)
      BY <1>2, <2>2 DEF LoadForResume, ResumeStep, SaveResumed, EnqueueResumed
    <2> QED
      BY <2>1, <2>2
  <1>3. ASSUME NEW w \in Worker, WorkerStep(w) \/ WorkerFault(w)
        PROVE  UNCHANGED status \/ SetWaiting(w) \/ FinishExecution(w)
    BY <1>3 DEF WorkerStep, WorkerFault, Take, Load, PruneNode, UnknownType, StartStep,
       ExecuteReturns, ExecuteFails, FinishStep, SaveState, Release, DriveStoreError,
       FinishStepIgnored, LoadWorkflowError
  <1>4. ASSUME NEW i \in Inst, RecoveryStep(i) \/ Crash(i) PROVE UNCHANGED status
    BY <1>4 DEF RecoveryStep, ListRunning, FailStaleSteps, EnqueueRecovered, Crash
  <1> QED
    BY <1>1, <1>2, <1>3, <1>4 DEF Next, vars

(* Which steps let a worker begin to drive.                                *)
LEMMA DriveBegins ==
  ASSUME TypeOK, [Next]_vars, NEW w \in Worker, wPc'[w] \in Driving
  PROVE  /\ wExec'[w] = wExec[w]
         /\ \/ wPc[w] \in Driving
            \/ status[wExec[w]] = "running" /\ UNCHANGED status
  <1> USE DEF rowVars, rcVars, workerVars, resumeVars, boundVars, OthersUnchanged, Driving
  <1>1. ASSUME NEW v \in Worker, Midway(v) PROVE UNCHANGED wExec
    BY <1>1, MidwayKeepsClaims
  <1>2. ASSUME NEW v \in Worker, WorkerStep(v) \/ WorkerFault(v), v # w
        PROVE  wExec'[w] = wExec[w] /\ wPc'[w] = wPc[w]
    <2>1. CASE Midway(v)
      BY <1>2, <2>1, MidwayKeepsClaims DEF TypeOK, WorkerType
    <2>2. CASE Take(v) \/ Release(v)
      BY <1>2, <2>2 DEF Take, Release, GoTo, TypeOK, WorkerType
    <2> QED
      BY <1>2, <2>1, <2>2 DEF WorkerStep, Midway
  <1>3. ASSUME Take(w) \/ Release(w) PROVE FALSE
    BY <1>3 DEF Take, Release, GoTo, TypeOK, WorkerType
  <1>4. ASSUME Load(w) \/ LoadWorkflowError(w)
        PROVE  status[wExec[w]] = "running" /\ UNCHANGED status
    BY <1>4 DEF Load, LoadWorkflowError, GoTo, TypeOK, WorkerType
  <1>5. ASSUME Midway(w), ~Load(w), ~LoadWorkflowError(w) PROVE wPc[w] \in Driving
    <2>1. CASE DriveStoreError(w)
      BY <2>1 DEF DriveStoreError, GoTo, TypeOK, WorkerType
    <2> QED
      BY <1>5, <2>1 DEF Midway, PruneNode, UnknownType, StartStep, ExecuteReturns, ExecuteFails,
         FinishStep, SaveState, SetWaiting, FinishExecution, WorkerFault, FinishStepIgnored,
         WorkerPcs
  <1>6. ASSUME NEW i \in Inst, Crash(i) PROVE wExec'[w] = wExec[w] /\ wPc'[w] = wPc[w]
    BY <1>6 DEF Crash
  <1>7. CASE UNCHANGED workerVars
    BY <1>7
  <1> QED
    BY <1>1, <1>2, <1>3, <1>4, <1>5, <1>6, <1>7, CallersKeepClaims
       DEF Next, WorkerStep, Midway, vars

LEMMA DriveStep ==
  ASSUME SingleInstance, DriveInv, [Next]_vars
  PROVE  /\ DrivenIsRunning' /\ FreshHasNoRow'
         /\ \A e \in Exec : status[e] \in Terminal => status'[e] = status[e]
  <1> USE EngineAssumption DEF DriveInv, Terminal
  <1>0. \A v, w \in Worker : wPc[v] \in Driving /\ wPc[w] \in Driving /\ wExec[v] = wExec[w] => v = w
    BY DEF SingleInstance, ClaimsAreExclusive, Owns, Driving, TypeOK, WorkerType
  <1>1. \A e \in Exec : runPc'[e] = "idle" => runPc[e] = "idle" /\ ~CreateExecution(e)
    <2>1. ASSUME NEW i \in Inst, Crash(i), NEW e \in Exec, runPc'[e] = "idle"
          PROVE  runPc[e] = "idle"
      BY <2>1 DEF Crash
    <2>2. ASSUME NEW f \in Exec, CreateExecution(f) \/ RunStep(f),
                 NEW e \in Exec, runPc'[e] = "idle"
          PROVE  runPc[e] = "idle"
      BY <2>2 DEF CreateExecution, RunStep, SaveSeed, EnqueueRun, TypeOK, CallerType
    <2>3. ASSUME \/ \E z \in Resumer : (\E e \in Exec : LoadForResume(z, e)) \/ ResumeStep(z)
                 \/ \E i \in Inst : RecoveryStep(i)
                 \/ \E w \in Worker : WorkerStep(w) \/ WorkerFault(w)
                 \/ UNCHANGED vars
          PROVE  UNCHANGED runPc
      BY <2>3 DEF LoadForResume, ResumeStep, ClaimWaiting, SaveResumed, EnqueueResumed,
         RecoveryStep, ListRunning, FailStaleSteps, EnqueueRecovered, WorkerStep, WorkerFault,
         Take, Load, PruneNode, UnknownType, StartStep, ExecuteReturns, ExecuteFails, FinishStep,
         SaveState, SetWaiting, FinishExecution, Release, DriveStoreError, FinishStepIgnored,
         LoadWorkflowError, OthersUnchanged, vars
    <2>4. \A e \in Exec : CreateExecution(e) => runPc'[e] # "idle"
      BY DEF CreateExecution, TypeOK, CallerType
    <2> QED
      BY <2>1, <2>2, <2>3, <2>4 DEF Next
  <1>2. CASE UNCHANGED status
    <2>1. DrivenIsRunning'
      BY <1>2, DriveBegins DEF DrivenIsRunning
    <2> QED
      BY <1>1, <1>2, <2>1 DEF FreshHasNoRow
  <1>3. ASSUME NEW e \in Exec, CreateExecution(e)
        PROVE  /\ DrivenIsRunning' /\ FreshHasNoRow'
               /\ \A f \in Exec : status[f] \in Terminal => status'[f] = status[f]
    <2>1. status[e] = "none" /\ status' = [status EXCEPT ![e] = "running"] /\ UNCHANGED workerVars
      BY <1>3 DEF CreateExecution, FreshHasNoRow
    <2>2. DrivenIsRunning'
      BY <2>1 DEF DrivenIsRunning, workerVars, TypeOK, RowsType, WorkerType, Driving
    <2>3. FreshHasNoRow'
      BY <1>1, <1>3, <2>1 DEF FreshHasNoRow, TypeOK, RowsType
    <2> QED
      BY <2>1, <2>2, <2>3 DEF TypeOK, RowsType
  <1>4. ASSUME NEW e \in Exec, StatusWrite(e, {"waiting"}, {"running"}),
               UNCHANGED <<wPc, wExec, runPc>>
        PROVE  /\ DrivenIsRunning' /\ FreshHasNoRow'
               /\ \A f \in Exec : status[f] \in Terminal => status'[f] = status[f]
    <2>1. status[e] = "waiting" /\ status' = [status EXCEPT ![e] = "running"]
      BY <1>4 DEF StatusWrite
    <2>2. DrivenIsRunning'
      BY <1>4, <2>1 DEF DrivenIsRunning, TypeOK, RowsType, WorkerType, Driving
    <2> QED
      BY <1>4, <2>1, <2>2 DEF FreshHasNoRow, TypeOK, RowsType
  <1>5. ASSUME NEW w \in Worker, SetWaiting(w) \/ FinishExecution(w)
        PROVE  /\ DrivenIsRunning' /\ FreshHasNoRow'
               /\ \A f \in Exec : status[f] \in Terminal => status'[f] = status[f]
    <2> DEFINE e == wExec[w]
    <2>1. /\ e \in Exec /\ wPc[w] \in Driving
          /\ wPc' = [wPc EXCEPT ![w] = "release"]
          /\ \E s \in Statuses : status' = [status EXCEPT ![e] = s]
          /\ UNCHANGED <<wExec, runPc>>
      BY <1>5 DEF SetWaiting, FinishExecution, GoTo, TypeOK, WorkerType, Driving, WorkerPcs,
         Statuses, workerVars
    <2>2. status[e] = "running"
      BY <2>1 DEF DrivenIsRunning
    <2>3. DrivenIsRunning'
      <3>1. SUFFICES ASSUME NEW v \in Worker, wPc'[v] \in Driving
                     PROVE  status'[wExec'[v]] = "running"
        BY DEF DrivenIsRunning
      <3>2. v # w /\ wPc[v] \in Driving
        BY <2>1, <3>1 DEF TypeOK, WorkerType, Driving
      <3>3. wExec[v] # e
        BY <1>0, <2>1, <3>2
      <3> QED
        BY <2>1, <3>2, <3>3 DEF DrivenIsRunning, TypeOK, RowsType
    <2>4. FreshHasNoRow'
      BY <2>1, <2>2 DEF FreshHasNoRow, TypeOK, RowsType
    <2> QED
      BY <2>1, <2>2, <2>3, <2>4 DEF TypeOK, RowsType
  <1> QED
    BY <1>2, <1>3, <1>4, <1>5, StatusWrites

LEMMA DriveInvariant ==
  ASSUME SingleInstance
  PROVE  Spec => []DriveInv
  <1>1. Init => DriveInv
    BY TypeInit DEF Init, DriveInv, ClaimsAreExclusive, Owns, DrivenIsRunning, Driving,
       FreshHasNoRow
  <1>2. TypeOK /\ TypeOK' /\ DriveInv /\ [Next]_vars => DriveInv'
    BY DriveStep, ClaimsStep DEF DriveInv
  <1> QED
    BY <1>1, <1>2, TypeCorrect, PTL DEF Spec

(* With one instance, an execution that a worker drives is 'running' until *)
(* that worker ends the drive, in spite of resumes, duplicate jobs, the    *)
(* recovery, crashes and store errors, and whether or not requests are     *)
(* served before the recovery.                                             *)
THEOREM DriversOwnTheRow ==
  ASSUME SingleInstance
  PROVE  Spec => []DrivenIsRunning
  <1>1. DriveInv => DrivenIsRunning
    BY DEF DriveInv
  <1> QED
    BY <1>1, DriveInvariant, PTL

(* With one instance no execution is driven twice at the same time.        *)
THEOREM SingleDriver ==
  ASSUME SingleInstance
  PROVE  Spec => []NoDoubleDrive
  <1>1. DriveInv => NoDoubleDrive
    BY EngineAssumption DEF DriveInv, NoDoubleDrive, SingleInstance, ClaimsAreExclusive, Owns, Driving,
       TypeOK, WorkerType
  <1> QED
    BY <1>1, DriveInvariant, PTL

(* With one instance a finished execution is never reopened.               *)
THEOREM FinishedStaysFinished ==
  ASSUME SingleInstance
  PROVE  Spec => TerminalForever
  <1>1. DriveInv /\ [Next]_vars
          => [\A e \in Exec : status[e] \in Terminal => status'[e] = status[e]]_vars
    BY DriveStep
  <1> QED
    BY <1>1, DriveInvariant, PTL DEF Spec, TerminalForever

-----------------------------------------------------------------------------
(* One hand per execution                                                  *)

(* Whoever will go on with an execution: its caller of Run, the list or    *)
(* the loop of the recovery, the channel, a worker, a caller of Resume.    *)
Requested(e)  == runPc[e] \in {"seed", "enqueue"}
Listed(e)     == \E i \in Inst : e \in rcIds[i]
Recovering(e) == \E i \in Inst : rcExec[i] = e
Queued(e)     == \E i \in Inst : \E k \in DOMAIN jobs[i] : jobs[i][k] = e
Worked(e)     == \E w \in Worker : wExec[w] = e /\ wPc[w] \notin {"idle", "release"}
Resumed(e)    == \E z \in Resumer : zExec[z] = e /\ zPc[z] \in {"save", "enqueue"}

Held(e) == Requested(e) \/ Listed(e) \/ Recovering(e) \/ Queued(e) \/ Worked(e) \/ Resumed(e)

(* At most one of the six has it.                                          *)
OneHand(e) ==
    /\ Requested(e)  => ~(Listed(e) \/ Recovering(e) \/ Queued(e) \/ Worked(e) \/ Resumed(e))
    /\ Listed(e)     => ~(Recovering(e) \/ Queued(e) \/ Worked(e) \/ Resumed(e))
    /\ Recovering(e) => ~(Queued(e) \/ Worked(e) \/ Resumed(e))
    /\ Queued(e)     => ~(Worked(e) \/ Resumed(e))
    /\ Worked(e)     => ~Resumed(e)

QueuedOnce ==
    \A i \in Inst : \A k, l \in DOMAIN jobs[i] : jobs[i][k] = jobs[i][l] => k = l

ResumedOnce ==
    \A y, z \in Resumer :
        /\ zPc[y] \in {"save", "enqueue"} /\ zPc[z] \in {"save", "enqueue"}
        /\ zExec[y] = zExec[z]
        => y = z

(* Until the recovery has listed, nobody has anything.                     *)
QuietAtList ==
    \A i \in Inst : rcPc[i] = "list" =>
        /\ \A e \in Exec : ~Held(e)
        /\ \A z \in Resumer : zPc[z] = "idle"

(* One instance whose requests wait for the list of the recovery.          *)
Orderly == SingleInstance /\ ~EarlyRequests

HandInv ==
    /\ \A e \in Exec : OneHand(e) /\ (Held(e) => status[e] = "running")
    /\ QueuedOnce /\ ResumedOnce /\ QuietAtList

(* Only a request, a claim and the list of the recovery take an execution  *)
(* in hand that nobody had.                                                *)
NewHands ==
    \A e \in Exec : Held(e)' /\ ~Held(e) =>
        status[e] \in {"none", "waiting"} \/ \E i \in Inst : rcPc[i] = "list"

(* What a step may leave as it is of who has an execution.                 *)
SameRun     == UNCHANGED runPc
SameList    == UNCHANGED <<rcPc, rcIds, rcExec>>
SameQueue   == UNCHANGED jobs
SameWorkers == UNCHANGED <<wPc, wExec>>
SameResumes == UNCHANGED <<zPc, zExec>>

LEMMA SameHands ==
  /\ SameRun => \A e \in Exec : Requested(e)' <=> Requested(e)
  /\ SameList => \A e \in Exec : /\ Listed(e)' <=> Listed(e)
                                 /\ Recovering(e)' <=> Recovering(e)
  /\ SameQueue => /\ \A e \in Exec : Queued(e)' <=> Queued(e)
                  /\ QueuedOnce' <=> QueuedOnce
  /\ SameWorkers => \A e \in Exec : Worked(e)' <=> Worked(e)
  /\ SameResumes => /\ \A e \in Exec : Resumed(e)' <=> Resumed(e)
                    /\ ResumedOnce' <=> ResumedOnce
  BY DEF SameRun, SameList, SameQueue, SameWorkers, SameResumes, Requested, Listed, Recovering,
     Queued, Worked, Resumed, QueuedOnce, ResumedOnce

(* Sending an execution that is not in the channel.                        *)
LEMMA Sent ==
  ASSUME TypeOK, QueuedOnce, NEW i \in Inst, NEW f \in Exec, Enqueue(i, f), ~Queued(f)
  PROVE  QueuedOnce' /\ \A e \in Exec : Queued(e)' => Queued(e) \/ e = f
  <1> DEFINE s == jobs[i]
  <1>1. s \in Seq(Exec) /\ jobs' = [jobs EXCEPT ![i] = Append(s, f)]
    BY DEF Enqueue, TypeOK, QueueType
  <1>2. jobs'[i] = Append(s, f) /\ \A j \in Inst : j # i => jobs'[j] = jobs[j]
    BY <1>1 DEF TypeOK, QueueType
  <1>3. /\ DOMAIN Append(s, f) = 1..(Len(s) + 1)
        /\ \A k \in 1..(Len(s) + 1) : Append(s, f)[k] = IF k = Len(s) + 1 THEN f ELSE s[k]
        /\ DOMAIN s = 1..Len(s) /\ Len(s) \in Nat
    BY <1>1
  <1>4. \A k \in 1..Len(s) : s[k] # f
    BY <1>3 DEF Queued
  <1>5. ASSUME NEW e \in Exec, Queued(e)' PROVE Queued(e) \/ e = f
    <2>1. PICK j \in Inst : \E k \in DOMAIN jobs'[j] : jobs'[j][k] = e
      BY <1>5 DEF Queued
    <2>2. CASE j = i
      BY <1>2, <1>3, <2>1, <2>2 DEF Queued
    <2>3. CASE j # i
      BY <1>2, <2>1, <2>3 DEF Queued
    <2> QED
      BY <2>2, <2>3
  <1>6. \A k, l \in 1..(Len(s) + 1) : Append(s, f)[k] = Append(s, f)[l] => k = l
    <2> SUFFICES ASSUME NEW k \in 1..(Len(s) + 1), NEW l \in 1..(Len(s) + 1),
                        Append(s, f)[k] = Append(s, f)[l]
                 PROVE  k = l
      OBVIOUS
    <2>1. CASE k = Len(s) + 1 \/ l = Len(s) + 1
      <3>1. k # Len(s) + 1 => k \in 1..Len(s)
        BY <1>3
      <3>2. l # Len(s) + 1 => l \in 1..Len(s)
        BY <1>3
      <3> QED
        BY <1>3, <1>4, <2>1, <3>1, <3>2
    <2>2. CASE k # Len(s) + 1 /\ l # Len(s) + 1
      <3>1. k \in 1..Len(s) /\ l \in 1..Len(s)
        BY <1>3, <2>2
      <3>2. s[k] = s[l]
        BY <1>3, <2>2
      <3> QED
        BY <1>3, <3>1, <3>2 DEF QueuedOnce
    <2> QED
      BY <2>1, <2>2
  <1> QED
    BY <1>2, <1>3, <1>5, <1>6 DEF QueuedOnce

(* Receiving one.                                                          *)
LEMMA Received ==
  ASSUME TypeOK, QueuedOnce, SingleInstance, NEW i \in Inst, jobs[i] # <<>>,
         jobs' = [jobs EXCEPT ![i] = Tail(@)], NEW f, f = Head(jobs[i])
  PROVE  /\ QueuedOnce'
         /\ f \in Exec /\ Queued(f) /\ ~Queued(f)'
         /\ \A e \in Exec : Queued(e)' => Queued(e)
  <1> DEFINE s == jobs[i]
  <1>1. s \in Seq(Exec) /\ Len(s) \in Nat \ {0} /\ DOMAIN s = 1..Len(s)
    BY DEF TypeOK, QueueType
  <1>2. jobs'[i] = Tail(s) /\ \A j \in Inst : j = i
    BY DEF TypeOK, QueueType, SingleInstance
  <1>3. /\ DOMAIN Tail(s) = 1..(Len(s) - 1)
        /\ \A k \in 1..(Len(s) - 1) : Tail(s)[k] = s[k + 1] /\ k + 1 \in 1..Len(s)
        /\ f = s[1] /\ 1 \in 1..Len(s) /\ s[1] \in Exec
    BY <1>1
  <1>4. \A k, l \in 1..Len(s) : s[k] = s[l] => k = l
    BY <1>1 DEF QueuedOnce
  <1>5. QueuedOnce'
    <2>1. \A k, l \in 1..(Len(s) - 1) : Tail(s)[k] = Tail(s)[l] => k = l
      BY <1>1, <1>3, <1>4
    <2> QED
      BY <1>2, <1>3, <2>1 DEF QueuedOnce
  <1>6. Queued(f)
    BY <1>1, <1>3 DEF Queued
  <1>7. ~Queued(f)'
    <2>1. \A k \in 1..(Len(s) - 1) : Tail(s)[k] # s[1]
      BY <1>1, <1>3, <1>4
    <2> QED
      BY <1>2, <1>3, <2>1 DEF Queued
  <1>8. \A e \in Exec : Queued(e)' => Queued(e)
    BY <1>1, <1>2, <1>3 DEF Queued
  <1> QED
    BY <1>3, <1>5, <1>6, <1>7, <1>8

(* The caller of Run: it takes a new row in hand, then sends it.           *)
LEMMA HandsOfRun ==
  ASSUME Orderly, TypeOK, FreshHasNoRow, HandInv, NEW f \in Exec, CreateExecution(f) \/ RunStep(f)
  PROVE  HandInv' /\ NewHands
  <1> USE DEF HandInv, Held, Orderly, NewHands
  <1>0. /\ SameList /\ SameWorkers /\ SameResumes /\ UNCHANGED zPc
    BY DEF CreateExecution, RunStep, SaveSeed, EnqueueRun, rcVars, workerVars, resumeVars,
       SameList, SameWorkers, SameResumes
  <1>1. CASE CreateExecution(f)
    <2>1. SameQueue /\ status' = [status EXCEPT ![f] = "running"] /\ status[f] = "none"
      BY <1>1 DEF CreateExecution, SameQueue, FreshHasNoRow
    <2>2. \A e \in Exec : Requested(e)' => Requested(e) \/ e = f
      BY <1>1 DEF CreateExecution, Requested, TypeOK, CallerType
    <2>3. \A i \in Inst : rcPc[i] # "list"
      BY <1>1, EngineAssumption DEF CreateExecution, Admits, SingleInstance
    <2>4. QuietAtList'
      BY <1>0, <2>3 DEF QuietAtList, SameList
    <2>5. \A e \in Exec : Held(e)' => status'[e] = "running"
      BY <1>0, <2>1, <2>2, SameHands DEF TypeOK, RowsType
    <2>6. \A e \in Exec : OneHand(e)'
      BY <1>0, <2>1, <2>2, SameHands DEF OneHand
    <2>7. NewHands
      BY <1>0, <2>1, <2>2, SameHands
    <2> QED
      BY <1>0, <2>1, <2>4, <2>5, <2>6, <2>7, SameHands
  <1>2. CASE SaveSeed(f)
    <2>1. SameQueue /\ UNCHANGED status
      BY <1>2 DEF SaveSeed, SameQueue
    <2>2. \A e \in Exec : Requested(e)' => Requested(e)
      BY <1>2 DEF SaveSeed, Requested, TypeOK, CallerType
    <2>3. QuietAtList'
      BY <1>0, <2>1, <2>2, SameHands DEF QuietAtList, SameList
    <2> QED
      BY <1>0, <2>1, <2>2, <2>3, SameHands DEF OneHand
  <1>3. CASE EnqueueRun(f)
    <2>1. UNCHANGED status /\ Enqueue(home[f], f) /\ home[f] \in Inst /\ Requested(f)
      BY <1>3, EngineAssumption DEF EnqueueRun, rowVars, Requested
    <2>2. \A e \in Exec : Requested(e)' => Requested(e) /\ e # f
      BY <1>3 DEF EnqueueRun, Requested, TypeOK, CallerType
    <2>3. ~Queued(f)
      BY <2>1 DEF OneHand
    <2>4. QueuedOnce' /\ \A e \in Exec : Queued(e)' => Queued(e) \/ e = f
      BY <2>1, <2>3, Sent
    <2>5. \A e \in Exec : Held(e)' => Held(e)
      BY <1>0, <2>1, <2>2, <2>4, SameHands
    <2>6. QuietAtList'
      BY <1>0, <2>5 DEF QuietAtList, SameList
    <2>7. \A e \in Exec : OneHand(e)'
      BY <1>0, <2>1, <2>2, <2>4, SameHands DEF OneHand
    <2> QED
      BY <1>0, <2>1, <2>4, <2>5, <2>6, <2>7, SameHands
  <1> QED
    BY <1>1, <1>2, <1>3 DEF RunStep

(* A caller of Resume: the claim takes the row in hand.                    *)
LEMMA HandsOfResume ==
  ASSUME Orderly, TypeOK, HandInv, NEW z \in Resumer,
         (\E e \in Exec : LoadForResume(z, e)) \/ ResumeStep(z)
  PROVE  HandInv' /\ NewHands
  <1> USE DEF HandInv, Held, Orderly, NewHands
  <1>0. SameRun /\ SameList /\ SameWorkers
    BY DEF LoadForResume, ResumeStep, ClaimWaiting, SaveResumed, EnqueueResumed, rcVars, workerVars,
       SameList, SameWorkers, SameRun
  <1>1. CASE \E e \in Exec : LoadForResume(z, e)
    <2>1. SameQueue /\ UNCHANGED status /\ zPc[z] = "idle" /\ zPc' = [zPc EXCEPT ![z] = "claim"]
          /\ (\A y \in Resumer : y # z => zExec'[y] = zExec[y])
      BY <1>1 DEF LoadForResume, SameQueue, rowVars, TypeOK, CallerType
    <2>2. \A e \in Exec : Resumed(e)' => Resumed(e)
      BY <2>1 DEF Resumed, TypeOK, CallerType
    <2>3. ResumedOnce'
      BY <2>1 DEF ResumedOnce, TypeOK, CallerType
    <2>4. \A i \in Inst : rcPc[i] # "list"
      BY <1>1, EngineAssumption DEF LoadForResume, Admits, SingleInstance
    <2>5. QuietAtList'
      BY <1>0, <2>4 DEF QuietAtList, SameList
    <2> QED
      BY <1>0, <2>1, <2>2, <2>3, <2>5, SameHands DEF OneHand
  <1>2. ASSUME NEW f \in Exec, f = zExec[z], status[f] = "waiting",
               ClaimWaiting(z), status' = [status EXCEPT ![f] = "running"],
               zPc' = [zPc EXCEPT ![z] = "save"], UNCHANGED zExec
        PROVE  HandInv' /\ NewHands
    <2>1. SameQueue
      BY <1>2 DEF ClaimWaiting, SameQueue
    <2>2. ~Held(f)
      BY <1>2
    <2>3. \A e \in Exec : Resumed(e)' => Resumed(e) \/ e = f
      BY <1>2 DEF Resumed, TypeOK, CallerType
    <2>4. ResumedOnce'
      <3>1. \A y \in Resumer : zPc[y] \in {"save", "enqueue"} => zExec[y] # f
        BY <2>2 DEF Resumed
      <3> QED
        BY <1>2, <3>1 DEF ResumedOnce, TypeOK, CallerType
    <2>5. QuietAtList'
      BY <1>0, <1>2, EngineAssumption DEF QuietAtList, SameList, ClaimWaiting
    <2>6. \A e \in Exec : Held(e)' => status'[e] = "running"
      BY <1>0, <1>2, <2>1, <2>3, SameHands DEF TypeOK, RowsType
    <2>7. \A e \in Exec : OneHand(e)'
      BY <1>0, <2>1, <2>2, <2>3, SameHands DEF OneHand
    <2>8. NewHands
      BY <1>0, <1>2, <2>1, <2>3, SameHands
    <2> QED
      BY <2>1, <2>4, <2>5, <2>6, <2>7, <2>8, SameHands
  <1>3. CASE /\ UNCHANGED <<jobs, status>> /\ zPc[z] # "idle"
             /\ (ResetResumer(z) \/ (zPc[z] = "save" /\ zPc' = [zPc EXCEPT ![z] = "enqueue"]
                                       /\ UNCHANGED zExec))
    <2>1. SameQueue
      BY <1>3 DEF SameQueue
    <2>2. \A e \in Exec : Resumed(e)' => Resumed(e)
      BY <1>3 DEF Resumed, ResetResumer, TypeOK, CallerType
    <2>3. ResumedOnce'
      BY <1>3 DEF ResumedOnce, ResetResumer, TypeOK, CallerType
    <2>4. QuietAtList'
      BY <1>0, <1>3 DEF QuietAtList, SameList
    <2> QED
      BY <1>0, <1>3, <2>1, <2>2, <2>3, <2>4, SameHands DEF OneHand
  <1>4. ASSUME EnqueueResumed(z), NEW f \in Exec, f = zExec[z] PROVE HandInv' /\ NewHands
    <2>1. /\ UNCHANGED status /\ Enqueue(home[z], f) /\ home[z] \in Inst /\ Resumed(f)
          /\ zPc[z] = "enqueue" /\ ResetResumer(z)
      BY <1>4, EngineAssumption DEF EnqueueResumed, rowVars, Resumed
    <2>2. \A e \in Exec : Resumed(e)' => Resumed(e) /\ e # f
      <3>1. \A y \in Resumer : zPc[y] \in {"save", "enqueue"} /\ zExec[y] = f => y = z
        BY <1>4, <2>1 DEF ResumedOnce
      <3> QED
        BY <2>1, <3>1 DEF Resumed, ResetResumer, TypeOK, CallerType
    <2>3. ResumedOnce'
      BY <2>1 DEF ResumedOnce, ResetResumer, TypeOK, CallerType
    <2>4. QueuedOnce' /\ \A e \in Exec : Queued(e)' => Queued(e) \/ e = f
      <3>1. ~Queued(f)
        BY <2>1 DEF OneHand
      <3> QED
        BY <2>1, <3>1, Sent
    <2>5. \A e \in Exec : Held(e)' => Held(e)
      BY <1>0, <2>1, <2>2, <2>4, SameHands
    <2>6. QuietAtList'
      BY <1>0, <2>1 DEF QuietAtList, SameList
    <2>7. \A e \in Exec : OneHand(e)'
      BY <1>0, <2>1, <2>2, <2>4, SameHands DEF OneHand
    <2> QED
      BY <2>1, <2>3, <2>4, <2>5, <2>6, <2>7
  <1>5. zPc[z] # "idle" => zExec[z] \in Exec
    BY DEF TypeOK, CallerType
  <1>6. CASE ClaimWaiting(z)
    BY <1>2, <1>3, <1>5, <1>6 DEF ClaimWaiting
  <1>7. CASE SaveResumed(z)
    BY <1>3, <1>7 DEF SaveResumed
  <1> QED
    BY <1>1, <1>4, <1>5, <1>6, <1>7 DEF ResumeStep, EnqueueResumed

(* A worker that takes an execution from the channel, or drops it.         *)
LEMMA HandsOfTake ==
  ASSUME Orderly, TypeOK, HandInv, NEW w \in Worker, Take(w)
  PROVE  HandInv' /\ NewHands
  <1> USE DEF HandInv, Held, Orderly, NewHands
  <1> DEFINE i == home[w]
  <1>1. PICK f \in Exec : f = Head(jobs[i])
    BY EngineAssumption DEF Take, TypeOK, QueueType
  <1>2. /\ SameRun /\ SameList /\ SameResumes /\ UNCHANGED <<status, zPc>>
        /\ i \in Inst /\ jobs[i] # <<>> /\ jobs' = [jobs EXCEPT ![i] = Tail(@)]
    BY EngineAssumption DEF Take, rowVars, rcVars, resumeVars, SameRun, SameList, SameResumes
  <1>3. /\ QueuedOnce' /\ Queued(f) /\ ~Queued(f)'
        /\ \A e \in Exec : Queued(e)' => Queued(e)
    BY <1>1, <1>2, Received
  <1>4. \A e \in Exec : Worked(e)' => Worked(e) \/ e = f
    BY <1>1 DEF Take, Worked, GoTo, TypeOK, WorkerType
  <1>5. \A e \in Exec : Held(e)' => Held(e)
    BY <1>2, <1>3, <1>4, SameHands
  <1>6. QuietAtList'
    BY <1>2, <1>5 DEF QuietAtList, SameList
  <1>7. \A e \in Exec : OneHand(e)'
    BY <1>2, <1>3, <1>4, SameHands DEF OneHand
  <1> QED
    BY <1>2, <1>3, <1>5, <1>6, <1>7, SameHands

(* Between claim and release a worker leaves to the others what they have. *)
LEMMA DriveSparesHands ==
  ASSUME NEW w \in Worker, Midway(w) \/ Release(w)
  PROVE  SameRun /\ SameList /\ SameQueue /\ SameResumes /\ UNCHANGED resumeVars
  BY DEF Midway, Load, PruneNode, UnknownType, StartStep, ExecuteReturns, ExecuteFails, FinishStep,
     SaveState, SetWaiting, FinishExecution, WorkerFault, DriveStoreError, FinishStepIgnored,
     LoadWorkflowError, Release, OthersUnchanged, rcVars, resumeVars, SameRun, SameList, SameQueue,
     SameResumes

(* What a worker does between claim and release hands nothing over; the    *)
(* write that takes the execution out of 'running' ends the drive.         *)
LEMMA HandsOfDrive ==
  ASSUME Orderly, DriveInv, HandInv, NEW w \in Worker, Midway(w) \/ Release(w)
  PROVE  HandInv' /\ NewHands
  <1> USE DEF HandInv, Held, Orderly, NewHands, DriveInv
  <1>1. SameRun /\ SameList /\ SameQueue /\ SameResumes /\ UNCHANGED zPc
    BY DriveSparesHands DEF resumeVars
  <1>2. \A e \in Exec : Worked(e)' => Worked(e)
    <2>1. CASE Midway(w)
      <3>1. /\ UNCHANGED wExec /\ wPc[w] # "idle"
            /\ \E pc \in WorkerPcs \ {"idle"} : wPc' = [wPc EXCEPT ![w] = pc]
        BY <2>1, MidwayKeepsClaims
      <3>2. wPc[w] = "release" => ~Midway(w)
        BY DEF Midway, Load, PruneNode, UnknownType, StartStep, ExecuteReturns, ExecuteFails,
           FinishStep, SaveState, SetWaiting, FinishExecution, WorkerFault, DriveStoreError,
           FinishStepIgnored, LoadWorkflowError
      <3> QED
        BY <2>1, <3>1, <3>2 DEF Worked, TypeOK, WorkerType
    <2>2. CASE Release(w)
      BY <2>2 DEF Release, GoTo, Worked, TypeOK, WorkerType
    <2> QED
      BY <2>1, <2>2
  <1>3. \A e \in Exec : Held(e)' => Held(e)
    BY <1>1, <1>2, SameHands
  <1>4. QuietAtList'
    BY <1>1, <1>3 DEF QuietAtList, SameList
  <1>5. \A e \in Exec : OneHand(e)'
    BY <1>1, <1>2, SameHands DEF OneHand
  <1>6. ASSUME NEW e \in Exec, Held(e)' PROVE status'[e] = "running"
    <2>1. CASE SetWaiting(w) \/ FinishExecution(w)
      <3>1. /\ wExec[w] \in Exec /\ wPc[w] \in Driving /\ UNCHANGED wExec
            /\ wPc' = [wPc EXCEPT ![w] = "release"]
            /\ \E s \in Statuses : status' = [status EXCEPT ![wExec[w]] = s]
        BY <2>1 DEF SetWaiting, FinishExecution, GoTo, TypeOK, WorkerType, Driving, WorkerPcs,
           Statuses, workerVars
      <3>2. e # wExec[w]
        <4>1. SUFFICES ASSUME e = wExec[w] PROVE ~Worked(e)' /\ Worked(e)
          BY <1>1, <1>6, SameHands DEF OneHand
        <4>2. Worked(e)
          BY <3>1, <4>1 DEF Worked, Driving
        <4>3. \A v \in Worker : wExec[v] = e /\ wPc[v] \notin {"idle", "release"} => v = w
          BY <3>1, <4>1, EngineAssumption DEF SingleInstance, ClaimsAreExclusive, Owns, Driving
        <4> QED
          BY <3>1, <4>2, <4>3 DEF Worked, TypeOK, WorkerType
      <3> QED
        BY <1>3, <1>6, <3>1, <3>2 DEF TypeOK, RowsType
    <2>2. CASE ~(SetWaiting(w) \/ FinishExecution(w))
      <3>1. UNCHANGED status
        BY <2>2 DEF Midway, Load, PruneNode, UnknownType, StartStep, ExecuteReturns, ExecuteFails,
           FinishStep, SaveState, WorkerFault, DriveStoreError, FinishStepIgnored,
           LoadWorkflowError, Release, rowVars
      <3> QED
        BY <1>3, <1>6, <3>1
    <2> QED
      BY <2>1, <2>2
  <1> QED
    BY <1>1, <1>3, <1>4, <1>5, <1>6, SameHands

(* The recovery: it lists when nobody has anything, and hands on what it   *)
(* listed one by one.                                                      *)
LEMMA HandsOfRecovery ==
  ASSUME Orderly, TypeOK, HandInv, NEW i \in Inst, RecoveryStep(i)
  PROVE  HandInv' /\ NewHands
  <1> USE EngineAssumption DEF HandInv, Held, Orderly, NewHands
  <1>0. /\ SameRun /\ SameWorkers /\ SameResumes /\ UNCHANGED <<status, zPc>>
        /\ \A j \in Inst : j = i
    BY DEF RecoveryStep, ListRunning, FailStaleSteps, EnqueueRecovered, rowVars, workerVars,
       resumeVars, SameRun, SameWorkers, SameResumes, SingleInstance
  <1>1. CASE ListRunning(i)
    <2>1. SameQueue /\ rcPc[i] = "list" /\ rcPc' = [rcPc EXCEPT ![i] = "fail"] /\ UNCHANGED rcExec
      BY <1>1 DEF ListRunning, SameQueue
    <2>2. \A e \in Exec : ~Held(e)
      BY <2>1 DEF QuietAtList
    <2>3. \A e \in Exec : Listed(e)' => status[e] = "running"
      BY <1>0, <1>1, <2>2 DEF ListRunning, Listed, TypeOK, QueueType
    <2>4. \A e \in Exec : Recovering(e)' <=> Recovering(e)
      BY <2>1 DEF Recovering
    <2>5. QuietAtList'
      BY <1>0, <2>1 DEF QuietAtList, TypeOK, QueueType
    <2> QED
      BY <1>0, <2>1, <2>2, <2>3, <2>4, <2>5, SameHands DEF OneHand
  <1>2. CASE FailStaleSteps(i)
    <2>1. PICK f \in rcIds[i] : /\ rcExec' = [rcExec EXCEPT ![i] = f]
                                /\ rcIds' = [rcIds EXCEPT ![i] = @ \ {f}]
      BY <1>2 DEF FailStaleSteps
    <2>2. SameQueue /\ rcPc[i] = "fail" /\ rcPc' = [rcPc EXCEPT ![i] = "enqueue"]
      BY <1>2 DEF FailStaleSteps, SameQueue
    <2>3. Listed(f) /\ \A e \in Exec : Listed(e)' => Listed(e) /\ e # f
      BY <1>0, <2>1 DEF Listed, TypeOK, QueueType
    <2>4. \A e \in Exec : Recovering(e)' => e = f
      BY <1>0, <2>1 DEF Recovering, TypeOK, QueueType
    <2>5. QuietAtList'
      BY <1>0, <2>2 DEF QuietAtList, TypeOK, QueueType
    <2>6. \A e \in Exec : Held(e)' => Held(e)
      BY <1>0, <2>2, <2>3, <2>4, SameHands
    <2>7. \A e \in Exec : OneHand(e)'
      BY <1>0, <2>2, <2>3, <2>4, SameHands DEF OneHand
    <2> QED
      BY <1>0, <2>2, <2>5, <2>6, <2>7, SameHands
  <1>3. CASE EnqueueRecovered(i)
    <2>1. PICK f \in Exec : f = rcExec[i]
      BY <1>3 DEF EnqueueRecovered, TypeOK, QueueType
    <2>2. /\ Enqueue(i, f) /\ rcPc[i] = "enqueue" /\ rcPc' = [rcPc EXCEPT ![i] = "fail"]
          /\ rcExec' = [rcExec EXCEPT ![i] = None] /\ UNCHANGED rcIds
      BY <1>3, <2>1 DEF EnqueueRecovered
    <2>3. Recovering(f) /\ \A e \in Exec : ~Recovering(e)'
      BY <1>0, <2>1, <2>2 DEF Recovering, TypeOK, QueueType
    <2>4. \A e \in Exec : Listed(e)' <=> Listed(e)
      BY <2>2 DEF Listed
    <2>5. QueuedOnce' /\ \A e \in Exec : Queued(e)' => Queued(e) \/ e = f
      <3>1. ~Queued(f)
        BY <2>3 DEF OneHand
      <3> QED
        BY <2>2, <3>1, Sent
    <2>6. QuietAtList'
      BY <1>0, <2>2 DEF QuietAtList, TypeOK, QueueType
    <2>7. \A e \in Exec : Held(e)' => Held(e)
      BY <1>0, <2>3, <2>4, <2>5, SameHands
    <2>8. \A e \in Exec : OneHand(e)'
      BY <1>0, <2>3, <2>4, <2>5, SameHands DEF OneHand
    <2> QED
      BY <1>0, <2>5, <2>6, <2>7, <2>8, SameHands
  <1> QED
    BY <1>1, <1>2, <1>3 DEF RecoveryStep

(* A crash of the only instance takes everything out of everybody's hands. *)
LEMMA CrashDropsAll ==
  ASSUME SingleInstance, TypeOK, NEW i \in Inst, Crash(i)
  PROVE  /\ \A e \in Exec : ~Held(e)'
         /\ \A z \in Resumer : zPc'[z] = "idle"
         /\ \A w \in Worker : wPc'[w] = "idle"
         /\ \A j \in Inst : jobs'[j] = <<>>
  <1> USE EngineAssumption
  <1>1. \A j \in Inst : j = i
    BY DEF SingleInstance
  <1>2. /\ \A e \in Exec : home[e] = i
        /\ \A w \in Worker : home[w] = i
        /\ \A z \in Resumer : home[z] = i
    BY <1>1
  <1>3. \A z \in Resumer : zPc'[z] = "idle"
    BY <1>2 DEF Crash
  <1>4. \A w \in Worker : wPc'[w] = "idle"
    BY <1>2 DEF Crash
  <1>5. \A j \in Inst : jobs'[j] = <<>> /\ rcIds'[j] = {} /\ rcExec'[j] = None
    BY <1>1 DEF Crash, TypeOK, QueueType
  <1>6. \A e \in Exec : ~Requested(e)'
    BY <1>2 DEF Crash, Requested, TypeOK, CallerType
  <1>7. \A e \in Exec : ~Listed(e)' /\ ~Recovering(e)' /\ ~Queued(e)'
    BY <1>5 DEF Listed, Recovering, Queued
  <1>8. \A e \in Exec : ~Worked(e)' /\ ~Resumed(e)'
    BY <1>3, <1>4 DEF Worked, Resumed
  <1> QED
    BY <1>3, <1>4, <1>5, <1>6, <1>7, <1>8 DEF Held

LEMMA HandStep ==
  ASSUME Orderly, DriveInv, HandInv, [Next]_vars
  PROVE  HandInv' /\ NewHands
  <1> USE DEF DriveInv, Orderly
  <1>1. ASSUME NEW i \in Inst, Crash(i) PROVE HandInv' /\ NewHands
    BY <1>1, CrashDropsAll DEF HandInv, NewHands, Held, OneHand, QueuedOnce, ResumedOnce, QuietAtList
  <1>2. CASE UNCHANGED vars
    <2>1. /\ SameRun /\ SameList /\ SameQueue /\ SameWorkers /\ SameResumes /\ UNCHANGED <<status, zPc>>
      BY <1>2 DEF vars, rowVars, rcVars, workerVars, resumeVars, SameRun, SameList, SameQueue,
         SameWorkers, SameResumes
    <2>2. QuietAtList'
      BY <2>1, SameHands DEF HandInv, QuietAtList, Held, SameList
    <2> QED
      BY <2>1, <2>2, SameHands DEF HandInv, NewHands, Held, OneHand
  <1> QED
    BY <1>1, <1>2, HandsOfRun, HandsOfResume, HandsOfTake, HandsOfDrive, HandsOfRecovery
       DEF Next, WorkerStep, Midway

(* The invariant of the sections below.                                    *)
HandedInv == DriveInv /\ HandInv

LEMMA HandInvariant ==
  ASSUME Orderly
  PROVE  Spec => []HandedInv
  <1>1. Init => HandInv
    BY EngineAssumption DEF Init, HandInv, Held, OneHand, Requested, Listed, Recovering, Queued,
       Worked, Resumed, QueuedOnce, ResumedOnce, QuietAtList
  <1>2. DriveInv /\ DriveInv' /\ HandedInv /\ [Next]_vars => HandedInv'
    BY HandStep DEF HandedInv
  <1>3. Spec => []DriveInv
    BY DriveInvariant DEF Orderly
  <1>4. Init /\ DriveInv => HandedInv
    BY <1>1 DEF HandedInv
  <1> QED
    BY <1>2, <1>3, <1>4, PTL DEF Spec

-----------------------------------------------------------------------------
(* The walk                                                                *)

(* No set of nodes waits for itself or for nobody: in each one the trigger *)
(* or a node whose sources are all outside came first.                     *)
Grounded(visited) ==
    \A knot \in SUBSET visited : knot # {} =>
        \E n \in knot : n = FindTrigger \/ (Sources(n) # {} /\ Sources(n) \cap knot = {})

(* The visited sets a walk goes through: in the order of the graph, and    *)
(* from the trigger on.                                                    *)
Sound(visited) ==
    Closed(visited) /\ (visited # {} => FindTrigger \in visited) /\ Grounded(visited)

(* A node that a walk may execute next.                                    *)
Due(n, visited) ==
    /\ n \notin visited
    /\ n # FindTrigger => /\ Sources(n) # {} /\ Sources(n) \subseteq visited
                          /\ FindTrigger \in visited

LEMMA EmptyIsSound == Sound({})
  BY DEF Sound, Closed, Grounded

(* A successor has a source: the node it succeeds.                         *)
LEMMA SuccessorHasSource ==
  ASSUME NEW n, NEW m, <<n, m>> \in Edges
  PROVE  n \in Sources(m)
  <1>1. <<n, m>> \in Incoming(m)
    BY DEF Incoming
  <1> QED
    BY <1>1 DEF Sources

(* A node that is due joins the visited ones in their order.               *)
LEMMA DueIsSound ==
  ASSUME NEW visited, Sound(visited), NEW n, Due(n, visited)
  PROVE  Sound(visited \cup {n})
  <1>1. Closed(visited \cup {n}) /\ FindTrigger \in visited \cup {n}
    BY DEF Sound, Due, Closed
  <1>2. ASSUME NEW knot \in SUBSET (visited \cup {n}), knot # {}
        PROVE  \E m \in knot : m = FindTrigger \/ (Sources(m) # {} /\ Sources(m) \cap knot = {})
    <2>1. CASE knot \subseteq {n}
      BY <1>2, <2>1 DEF Due
    <2>2. CASE ~(knot \subseteq {n})
      <3>1. knot \ {n} \in SUBSET visited /\ knot \ {n} # {}
        BY <1>2, <2>2
      <3>2. PICK m \in knot \ {n} :
                m = FindTrigger \/ (Sources(m) # {} /\ Sources(m) \cap (knot \ {n}) = {})
        BY <3>1 DEF Sound, Grounded
      <3>3. m # FindTrigger => n \notin Sources(m)
        BY <3>1, <3>2 DEF Sound, Closed, Due
      <3> QED
        BY <3>2, <3>3
    <2> QED
      BY <2>1, <2>2
  <1> QED
    BY <1>1, <1>2 DEF Sound, Grounded

(* A walk starts at nodes that are due.                                    *)
LEMMA StartsAreDue ==
  ASSUME NEW visited, Sound(visited), NEW n \in StartingPoints(visited)
  PROVE  Due(n, visited)
  <1>1. CASE visited = {}
    BY <1>1 DEF Due
  <1>2. CASE visited # {}
    <2>1. PICK k \in visited : n \in ReadySuccessors(k, visited)
      BY <1>2 DEF Frontier
    <2>2. n \notin visited /\ <<k, n>> \in Edges /\ Sources(n) \subseteq visited
      BY <2>1 DEF ReadySuccessors, IsReady
    <2>3. Sources(n) # {}
      BY <2>2, SuccessorHasSource
    <2> QED
      BY <1>2, <2>2, <2>3 DEF Sound, Due
  <1> QED
    BY <1>1, <1>2

(* Visiting a node that is due keeps the set sound and the other nodes     *)
(* due; the successors it makes ready are due; and the ready list with     *)
(* these successors still holds every node that process would start from.  *)
LEMMA VisitIsSound ==
  ASSUME NEW visited, Sound(visited), NEW n, Due(n, visited),
         NEW ready, \A m \in ready : Due(m, visited), n \notin ready,
         StartingPoints(visited) \subseteq ready \cup {n}
  PROVE  /\ Sound(visited \cup {n})
         /\ \A m \in ready \cup ReadySuccessors(n, visited \cup {n}) : Due(m, visited \cup {n})
         /\ StartingPoints(visited \cup {n})
              \subseteq ready \cup ReadySuccessors(n, visited \cup {n})
  <1> DEFINE more == visited \cup {n}
  <1>1. Sound(more)
    BY DueIsSound
  <1>2. ASSUME NEW m \in ready PROVE Due(m, more)
    BY <1>2 DEF Due
  <1>3. ASSUME NEW m \in ReadySuccessors(n, more) PROVE Due(m, more)
    <2>1. m \notin more /\ <<n, m>> \in Edges /\ Sources(m) \subseteq more
      BY <1>3 DEF ReadySuccessors, IsReady
    <2>2. Sources(m) # {}
      BY <2>1, SuccessorHasSource
    <2> QED
      BY <1>1, <2>1, <2>2 DEF Due, Sound
  <1>4. ASSUME NEW m \in Frontier(more) PROVE m \in ready \cup ReadySuccessors(n, more)
    <2>1. PICK k \in more : m \in ReadySuccessors(k, more)
      BY <1>4 DEF Frontier
    <2>2. m \in Node /\ m \notin more /\ <<k, m>> \in Edges /\ Sources(m) \subseteq more
      BY <2>1 DEF ReadySuccessors, IsReady
    <2>3. CASE <<n, m>> \in Edges
      BY <2>2, <2>3 DEF ReadySuccessors, IsReady
    <2>4. CASE <<n, m>> \notin Edges
      <3>1. n \notin Sources(m)
        <4> SUFFICES ASSUME NEW x \in Edges, x[2] = m, x[1] = n PROVE FALSE
          BY DEF Sources, Incoming
        <4>1. x = <<n, m>>
          BY WorkflowAssumption
        <4> QED
          BY <2>4, <4>1
      <3>2. k \in visited /\ Sources(m) \subseteq visited
        BY <2>2, <2>4, <3>1
      <3>3. m \in Frontier(visited) /\ visited # {}
        BY <2>2, <3>2 DEF Frontier, ReadySuccessors, IsReady
      <3> QED
        BY <2>2, <3>3
    <2> QED
      BY <2>3, <2>4
  <1> QED
    BY <1>1, <1>2, <1>3, <1>4

(* The states in which wState is the state of the walk, and those in which *)
(* wNode is the node at hand.                                              *)
Walking == {"pick", "exec", "finishStep", "saveState", "suspendStep", "setWaiting"}
AtNode  == {"exec", "suspendStep", "setWaiting"}

AtHand(w) == IF wPc[w] \in AtNode THEN {wNode[w]} ELSE {}

WalkerSound(w) ==
    wPc[w] \in Walking =>
        /\ Sound(wState[w].visited) /\ wState[w].trig # "null"
        /\ \A n \in wReady[w] \cup AtHand(w) : Due(n, wState[w].visited)
        /\ wReady[w] \cap AtHand(w) = {}
        /\ StartingPoints(wState[w].visited) \subseteq wReady[w] \cup AtHand(w)
        /\ wPc[w] \in {"suspendStep", "setWaiting"} => wNode[w] \in WaitNodes

CallerSound(z) ==
    zPc[z] # "idle" => /\ Sound(zState[z].visited) /\ zState[z].trig # "null"
                       /\ Due(zNode[z], zState[z].visited)

WaitSound(e) ==
    status[e] = "waiting" => /\ saved[e].trig # "null" /\ waitingAt[e] \in WaitNodes
                             /\ Due(waitingAt[e], saved[e].visited)

WalkInv ==
    /\ \A e \in Exec : Sound(saved[e].visited) /\ WaitSound(e)
    /\ \A w \in Worker : WalkerSound(w)
    /\ \A z \in Resumer : CallerSound(z)
    /\ RecoverySparesLiveSteps

(* A step of a worker changes no other worker.                             *)
LEMMA OtherWorkers ==
  ASSUME TypeOK, NEW v \in Worker, NEW w \in Worker, v # w, WorkerStep(v) \/ WorkerFault(v)
  PROVE  /\ wPc'[w] = wPc[w] /\ wExec'[w] = wExec[w] /\ wNode'[w] = wNode[w]
         /\ wState'[w] = wState[w] /\ wReady'[w] = wReady[w]
  <1> USE DEF TypeOK, WorkerType, GoTo
  <1>1. CASE PruneNode(v) \/ ExecuteReturns(v)
    BY <1>1 DEF PruneNode, ExecuteReturns, Visit
  <1>2. CASE Take(v) \/ Load(v) \/ UnknownType(v) \/ StartStep(v) \/ ExecuteFails(v)
    BY <1>2 DEF Take, Load, UnknownType, StartStep, ExecuteFails
  <1>3. CASE FinishStep(v) \/ SaveState(v) \/ SetWaiting(v) \/ FinishExecution(v) \/ Release(v)
    BY <1>3 DEF FinishStep, SaveState, SetWaiting, FinishExecution, Release
  <1>4. CASE WorkerFault(v)
    BY <1>4 DEF WorkerFault, DriveStoreError, FinishStepIgnored, LoadWorkflowError
  <1> QED
    BY <1>1, <1>2, <1>3, <1>4 DEF WorkerStep

(* What Visit makes of the state of its worker.                            *)
LEMMA VisitState ==
  ASSUME TypeOK, NEW w \in Worker, NEW n, NEW ready, NEW out, Visit(w, n, ready, out)
  PROVE  /\ wState'[w].visited = wState[w].visited \cup {n} /\ wState'[w].trig = wState[w].trig
         /\ wReady'[w] = ready \cup ReadySuccessors(n, wState[w].visited \cup {n})
  BY DEF Visit, TypeOK, WorkerType, RunState

(* The walk of a worker stays sound.                                       *)
LEMMA WalkerStep ==
  ASSUME TypeOK, WalkInv, [Next]_vars, NEW w \in Worker
  PROVE  WalkerSound(w)'
  <1> USE DEF TypeOK, WorkerType, GoTo, WalkInv
  <1>1. CASE Load(w)
    <2>1. wExec[w] \in Exec /\ saved[wExec[w]] \in RunState
      BY <1>1 DEF Load, RowsType
    <2>2. CASE wPc'[w] = "release"
      BY <2>2 DEF WalkerSound, Walking
    <2>3. CASE wPc'[w] # "release"
      <3>1. /\ wPc'[w] = "pick"
            /\ wState'[w].visited = saved[wExec[w]].visited /\ wState'[w].trig # "null"
            /\ wReady'[w] = StartingPoints(saved[wExec[w]].visited)
        <4> DEFINE st == saved[wExec[w]]
        <4>1. /\ wPc' = [wPc EXCEPT ![w] = "pick"]
              /\ wState' = [wState EXCEPT ![w] = IF st.trig = "null"
                                                  THEN [st EXCEPT !.trig = "default"] ELSE st]
              /\ wReady' = [wReady EXCEPT ![w] = StartingPoints(st.visited)]
          BY <1>1, <2>3 DEF Load
        <4>2. [st EXCEPT !.trig = "default"].visited = st.visited
              /\ [st EXCEPT !.trig = "default"].trig = "default"
          BY <2>1 DEF RunState
        <4> QED
          BY <4>1, <4>2
      <3>2. \A n \in wReady'[w] : Due(n, wState'[w].visited)
        BY <2>1, <3>1, StartsAreDue
      <3> QED
        BY <2>1, <3>1, <3>2 DEF WalkerSound, AtHand, AtNode
    <2> QED
      BY <2>2, <2>3
  <1>2. CASE PruneNode(w)
    <2>1. PICK n \in wReady[w] : Visit(w, n, wReady[w] \ {n}, {})
      BY <1>2 DEF PruneNode
    <2>2. /\ wPc[w] = "pick" /\ wPc'[w] = "pick"
          /\ wState'[w].visited = wState[w].visited \cup {n} /\ wState'[w].trig = wState[w].trig
          /\ wReady'[w] = (wReady[w] \ {n}) \cup ReadySuccessors(n, wState[w].visited \cup {n})
      BY <1>2, <2>1, VisitState DEF PruneNode
    <2>3. /\ Sound(wState[w].visited) /\ wState[w].trig # "null"
          /\ \A m \in wReady[w] : Due(m, wState[w].visited)
          /\ StartingPoints(wState[w].visited) \subseteq (wReady[w] \ {n}) \cup {n}
      BY <2>2 DEF WalkerSound, Walking, AtHand, AtNode
    <2>4. /\ Sound(wState'[w].visited)
          /\ \A m \in wReady'[w] : Due(m, wState'[w].visited)
          /\ StartingPoints(wState'[w].visited) \subseteq wReady'[w]
      <3> DEFINE visited == wState[w].visited
                 ready == wReady[w] \ {n}
      <3>1. Sound(visited) /\ Due(n, visited) /\ n \notin ready
            /\ (\A m \in ready : Due(m, visited)) /\ StartingPoints(visited) \subseteq ready \cup {n}
        BY <2>1, <2>3
      <3>2. /\ Sound(visited \cup {n})
            /\ \A m \in ready \cup ReadySuccessors(n, visited \cup {n}) : Due(m, visited \cup {n})
            /\ StartingPoints(visited \cup {n})
                 \subseteq ready \cup ReadySuccessors(n, visited \cup {n})
        <4> HIDE DEF visited, ready
        <4> QED
          BY <3>1, VisitIsSound
      <3> QED
        BY <2>2, <3>2
    <2> QED
      BY <2>2, <2>3, <2>4 DEF WalkerSound, AtHand, AtNode
  <1>3. CASE StartStep(w)
    <2>1. PICK n \in wReady[w] : wNode' = [wNode EXCEPT ![w] = n]
                                 /\ wReady' = [wReady EXCEPT ![w] = @ \ {n}]
      BY <1>3 DEF StartStep
    <2>2. wPc[w] = "pick" /\ wPc'[w] = "exec" /\ wState'[w] = wState[w]
          /\ wNode'[w] = n /\ wReady'[w] = wReady[w] \ {n}
      BY <1>3, <2>1 DEF StartStep
    <2> QED
      BY <2>1, <2>2 DEF WalkerSound, Walking, AtHand, AtNode
  <1>4. CASE ExecuteReturns(w)
    <2> DEFINE n == wNode[w]
    <2>1. CASE n \in WaitNodes
      BY <1>4, <2>1 DEF ExecuteReturns, WalkerSound, Walking, AtHand, AtNode
    <2>2. CASE n \notin WaitNodes
      <3>1. PICK out : Visit(w, n, wReady[w], out)
        BY <1>4, <2>2 DEF ExecuteReturns
      <3>2. /\ wPc[w] = "exec" /\ wPc'[w] = "finishStep"
            /\ wState'[w].visited = wState[w].visited \cup {n} /\ wState'[w].trig = wState[w].trig
            /\ wReady'[w] = wReady[w] \cup ReadySuccessors(n, wState[w].visited \cup {n})
        BY <1>4, <2>2, <3>1, VisitState DEF ExecuteReturns
      <3>3. /\ Sound(wState[w].visited) /\ wState[w].trig # "null"
            /\ \A m \in wReady[w] : Due(m, wState[w].visited)
            /\ Due(n, wState[w].visited) /\ n \notin wReady[w]
            /\ StartingPoints(wState[w].visited) \subseteq wReady[w] \cup {n}
        BY <3>2 DEF WalkerSound, Walking, AtHand, AtNode
      <3>4. /\ Sound(wState'[w].visited)
            /\ \A m \in wReady'[w] : Due(m, wState'[w].visited)
            /\ StartingPoints(wState'[w].visited) \subseteq wReady'[w]
        <4> DEFINE visited == wState[w].visited
        <4>1. /\ Sound(visited \cup {n})
              /\ \A m \in wReady[w] \cup ReadySuccessors(n, visited \cup {n}) :
                    Due(m, visited \cup {n})
              /\ StartingPoints(visited \cup {n})
                   \subseteq wReady[w] \cup ReadySuccessors(n, visited \cup {n})
          BY <3>3, VisitIsSound
        <4> QED
          BY <3>2, <4>1
      <3> QED
        BY <3>2, <3>3, <3>4 DEF WalkerSound, AtHand, AtNode
    <2> QED
      BY <2>1, <2>2
  <1>5. CASE FinishStep(w) \/ FinishStepIgnored(w)
    BY <1>5 DEF FinishStep, FinishStepIgnored, AfterStep, WalkerSound, Walking, AtHand, AtNode
  <1>6. CASE SaveState(w)
    BY <1>6 DEF SaveState, WalkerSound, Walking, AtHand, AtNode
  <1>7. CASE \/ UnknownType(w) \/ ExecuteFails(w) \/ SetWaiting(w) \/ FinishExecution(w)
             \/ Release(w) \/ DriveStoreError(w) \/ LoadWorkflowError(w)
    <2>1. wPc'[w] \notin Walking
      BY <1>7 DEF UnknownType, ExecuteFails, SetWaiting, FinishExecution, Release, DriveStoreError,
         LoadWorkflowError, Walking
    <2> QED
      BY <2>1 DEF WalkerSound
  <1>8. CASE Take(w)
    <2>1. wPc'[w] \in {"idle", "load"}
      BY <1>8 DEF Take
    <2> QED
      BY <2>1 DEF WalkerSound, Walking
  <1>9. CASE \E v \in Worker : v # w /\ (WorkerStep(v) \/ WorkerFault(v))
    BY <1>9, OtherWorkers DEF WalkerSound, AtHand
  <1>10. CASE UNCHANGED workerVars
    BY <1>10 DEF workerVars, WalkerSound, AtHand
  <1>11. ASSUME NEW i \in Inst, Crash(i) PROVE WalkerSound(w)'
    <2>1. CASE home[w] = i
      BY <1>11, <2>1 DEF Crash, WalkerSound, Walking
    <2>2. CASE home[w] # i
      BY <1>11, <2>2 DEF Crash, WalkerSound, AtHand
    <2> QED
      BY <2>1, <2>2
  <1> QED
    BY <1>1, <1>2, <1>3, <1>4, <1>5, <1>6, <1>7, <1>8, <1>9, <1>10, <1>11, CallersKeepClaims
       DEF Next, WorkerStep, WorkerFault, vars

(* Which steps write executions.state, each the state of one execution.    *)
LEMMA SavedWrites ==
  ASSUME TypeOK, [Next]_vars
  PROVE  \/ UNCHANGED saved
         \/ \E e \in Exec : SaveSeed(e) /\ saved' = [saved EXCEPT ![e] = SeedState]
         \/ \E z \in Resumer : /\ SaveResumed(z) /\ zExec[z] \in Exec /\ zPc[z] = "save"
                               /\ zPc' = [zPc EXCEPT ![z] = "enqueue"]
                               /\ saved' = [saved EXCEPT ![zExec[z]] =
                                              WithPayload(zState[z], zNode[z])]
         \/ \E w \in Worker : /\ SaveState(w) \/ SetWaiting(w)
                              /\ wExec[w] \in Exec /\ wPc[w] \in {"saveState", "setWaiting"}
                              /\ saved' = [saved EXCEPT ![wExec[w]] = wState[w]]
  <1> USE DEF rowVars
  <1>1. ASSUME NEW e \in Exec, CreateExecution(e) \/ RunStep(e)
        PROVE  \/ UNCHANGED saved
               \/ SaveSeed(e) /\ saved' = [saved EXCEPT ![e] = SeedState]
    BY <1>1 DEF CreateExecution, RunStep, SaveSeed, EnqueueRun
  <1>2. ASSUME NEW z \in Resumer, (\E e \in Exec : LoadForResume(z, e)) \/ ResumeStep(z)
        PROVE  \/ UNCHANGED saved
               \/ /\ SaveResumed(z) /\ zExec[z] \in Exec /\ zPc[z] = "save"
                  /\ zPc' = [zPc EXCEPT ![z] = "enqueue"]
                  /\ saved' = [saved EXCEPT ![zExec[z]] = WithPayload(zState[z], zNode[z])]
    BY <1>2 DEF LoadForResume, ResumeStep, ClaimWaiting, SaveResumed, EnqueueResumed, TypeOK,
       CallerType
  <1>3. ASSUME NEW w \in Worker, WorkerStep(w) \/ WorkerFault(w)
        PROVE  \/ UNCHANGED saved
               \/ /\ SaveState(w) \/ SetWaiting(w)
                  /\ wExec[w] \in Exec /\ wPc[w] \in {"saveState", "setWaiting"}
                  /\ saved' = [saved EXCEPT ![wExec[w]] = wState[w]]
    <2>1. CASE SaveState(w) \/ SetWaiting(w)
      BY <2>1 DEF SaveState, SetWaiting, TypeOK, WorkerType
    <2>2. CASE ~(SaveState(w) \/ SetWaiting(w))
      BY <1>3, <2>2 DEF WorkerStep, WorkerFault, Take, Load, PruneNode, UnknownType, StartStep,
         ExecuteReturns, ExecuteFails, FinishStep, FinishExecution, Release, DriveStoreError,
         FinishStepIgnored, LoadWorkflowError
    <2> QED
      BY <2>1, <2>2
  <1>4. ASSUME NEW i \in Inst, RecoveryStep(i) \/ Crash(i) PROVE UNCHANGED saved
    BY <1>4 DEF RecoveryStep, ListRunning, FailStaleSteps, EnqueueRecovered, Crash
  <1> QED
    BY <1>1, <1>2, <1>3, <1>4 DEF Next, vars

(* A payload counts as the visit of the waiting node.                      *)
LEMMA PayloadIsSound ==
  ASSUME NEW st \in RunState, NEW n, Sound(st.visited), Due(n, st.visited)
  PROVE  /\ WithPayload(st, n).visited = st.visited \cup {n}
         /\ Sound(WithPayload(st, n).visited)
  <1>1. WithPayload(st, n).visited = st.visited \cup {n}
    BY DEF WithPayload, RunState
  <1>2. Sound(st.visited \cup {n})
    BY DueIsSound
  <1> QED
    BY <1>1, <1>2

(* Every checkpoint is sound.                                              *)
LEMMA SavedStep ==
  ASSUME TypeOK, WalkInv, [Next]_vars, NEW e \in Exec
  PROVE  Sound(saved'[e].visited)
  <1> USE DEF TypeOK, RowsType, WalkInv
  <1>1. CASE \E f \in Exec : saved' = [saved EXCEPT ![f] = SeedState]
    BY <1>1, EmptyIsSound DEF SeedState
  <1>2. ASSUME NEW z \in Resumer, zPc[z] = "save",
               saved' = [saved EXCEPT ![zExec[z]] = WithPayload(zState[z], zNode[z])]
        PROVE  Sound(saved'[e].visited)
    BY <1>2, PayloadIsSound DEF CallerType, CallerSound
  <1>3. ASSUME NEW w \in Worker, wPc[w] \in {"saveState", "setWaiting"},
               saved' = [saved EXCEPT ![wExec[w]] = wState[w]]
        PROVE  Sound(saved'[e].visited)
    BY <1>3 DEF WalkerSound, Walking
  <1> QED
    BY <1>1, <1>2, <1>3, SavedWrites

(* A caller of Resume loads the state of a suspension, and its node.       *)
LEMMA CallerStep ==
  ASSUME TypeOK, WalkInv, [Next]_vars, NEW z \in Resumer
  PROVE  CallerSound(z)'
  <1> USE DEF TypeOK, CallerType, WalkInv
  <1>1. ASSUME NEW e \in Exec, LoadForResume(z, e) PROVE CallerSound(z)'
    BY <1>1 DEF LoadForResume, CallerSound, WaitSound
  <1>2. CASE ResumeStep(z)
    BY <1>2 DEF ResumeStep, ClaimWaiting, SaveResumed, EnqueueResumed, ResetResumer, CallerSound
  <1>3. ASSUME NEW y \in Resumer, y # z, (\E e \in Exec : LoadForResume(y, e)) \/ ResumeStep(y)
        PROVE  CallerSound(z)'
    BY <1>3 DEF LoadForResume, ResumeStep, ClaimWaiting, SaveResumed, EnqueueResumed, ResetResumer,
       CallerSound
  <1>4. ASSUME NEW i \in Inst, Crash(i) PROVE CallerSound(z)'
    BY <1>4 DEF Crash, CallerSound
  <1>5. CASE UNCHANGED resumeVars
    BY <1>5 DEF resumeVars, CallerSound
  <1>6. ASSUME \/ \E e \in Exec : CreateExecution(e) \/ RunStep(e)
               \/ \E w \in Worker : WorkerStep(w) \/ WorkerFault(w)
               \/ \E i \in Inst : RecoveryStep(i)
        PROVE  UNCHANGED resumeVars
    BY <1>6 DEF CreateExecution, RunStep, SaveSeed, EnqueueRun, RecoveryStep, ListRunning,
       FailStaleSteps, EnqueueRecovered, WorkerStep, WorkerFault, Take, Load, PruneNode,
       UnknownType, StartStep, ExecuteReturns, ExecuteFails, FinishStep, SaveState, SetWaiting,
       FinishExecution, Release, DriveStoreError, FinishStepIgnored, LoadWorkflowError,
       OthersUnchanged
  <1> QED
    BY <1>1, <1>2, <1>3, <1>4, <1>5, <1>6 DEF Next, vars

(* Only SetWaiting and FinishExecution write waiting_node_id.              *)
LEMMA WaitingAtWrites ==
  ASSUME [Next]_vars
  PROVE  UNCHANGED waitingAt \/ \E w \in Worker : SetWaiting(w) \/ FinishExecution(w)
  BY DEF Next, vars, rowVars, CreateExecution, RunStep, SaveSeed, EnqueueRun, LoadForResume,
     ResumeStep, ClaimWaiting, SaveResumed, EnqueueResumed, RecoveryStep, ListRunning,
     FailStaleSteps, EnqueueRecovered, Crash, WorkerStep, WorkerFault, Take, Load, PruneNode,
     UnknownType, StartStep, ExecuteReturns, ExecuteFails, FinishStep, SaveState, Release,
     DriveStoreError, FinishStepIgnored, LoadWorkflowError, OthersUnchanged

(* While an execution waits nobody writes its row, but for the claim: who  *)
(* would write has it in hand, and then it is running.                     *)
LEMMA WaitStep ==
  ASSUME HandedInv, WalkInv, [Next]_vars, NEW e \in Exec
  PROVE  WaitSound(e)'
  <1> USE DEF HandedInv, DriveInv, TypeOK, RowsType
  <1> SUFFICES ASSUME status'[e] = "waiting"
               PROVE  /\ saved'[e].trig # "null" /\ waitingAt'[e] \in WaitNodes
                      /\ Due(waitingAt'[e], saved'[e].visited)
    BY DEF WaitSound
  <1>1. ASSUME NEW w \in Worker, SetWaiting(w), wExec[w] = e
        PROVE  /\ saved'[e].trig # "null" /\ waitingAt'[e] \in WaitNodes
               /\ Due(waitingAt'[e], saved'[e].visited)
    <2>1. saved'[e] = wState[w] /\ waitingAt'[e] = wNode[w] /\ wPc[w] = "setWaiting"
      BY <1>1 DEF SetWaiting
    <2> QED
      BY <2>1 DEF WalkInv, WalkerSound, Walking, AtHand, AtNode
  <1>2. ASSUME ~\E w \in Worker : SetWaiting(w) /\ wExec[w] = e
        PROVE  status[e] = "waiting" /\ waitingAt'[e] = waitingAt[e]
    <2>1. ASSUME NEW w \in Worker, SetWaiting(w) \/ FinishExecution(w)
          PROVE  status[e] = "waiting" /\ waitingAt'[e] = waitingAt[e]
      <3>1. wExec[w] \in Exec
        BY <2>1 DEF SetWaiting, FinishExecution, WorkerType
      <3> QED
        BY <1>2, <2>1, <3>1 DEF SetWaiting, FinishExecution
    <2>2. CASE ~\E w \in Worker : SetWaiting(w) \/ FinishExecution(w)
      BY <2>2, WaitingAtWrites, StatusWrites DEF StatusWrite, CreateExecution
    <2> QED
      BY <2>1, <2>2
  <1>3. ASSUME status[e] = "waiting" PROVE saved'[e] = saved[e]
    <2>1. ~Held(e)
      BY <1>3 DEF HandInv
    <2>2. ASSUME NEW f \in Exec, SaveSeed(f) PROVE f # e
      BY <2>1, <2>2 DEF SaveSeed, Held, Requested
    <2>3. ASSUME NEW z \in Resumer, zPc[z] = "save" PROVE zExec[z] # e
      BY <2>1, <2>3 DEF Held, Resumed
    <2>4. ASSUME NEW w \in Worker, wPc[w] \in {"saveState", "setWaiting"} PROVE wExec[w] # e
      BY <2>1, <2>4 DEF Held, Worked
    <2> QED
      BY <2>2, <2>3, <2>4, SavedWrites
  <1> QED
    BY <1>1, <1>2, <1>3 DEF WalkInv, WaitSound

(* FailStaleRunningSteps meets only rows of executions nobody drives.      *)
LEMMA RowStep ==
  ASSUME HandedInv, WalkInv, [Next]_vars
  PROVE  RecoverySparesLiveSteps'
  <1> USE DEF HandedInv, DriveInv, TypeOK, RowsType, WorkerType, GoTo
  <1> SUFFICES ASSUME NEW w \in Worker, wPc'[w] = "exec"
               PROVE  <<wNode'[w], w>> \in rows'[wExec'[w]]
    BY DEF RecoverySparesLiveSteps
  <1>0. wPc[w] = "exec" => <<wNode[w], w>> \in rows[wExec[w]] /\ wExec[w] \in Exec
    BY DEF WalkInv, RecoverySparesLiveSteps
  <1>1. CASE WorkerStep(w) \/ WorkerFault(w)
    <2>1. StartStep(w)
      BY <1>1 DEF WorkerStep, WorkerFault, Take, Load, PruneNode, UnknownType, ExecuteReturns,
         ExecuteFails, FinishStep, AfterStep, SaveState, SetWaiting, FinishExecution, Release,
         DriveStoreError, FinishStepIgnored, LoadWorkflowError
    <2> QED
      BY <2>1 DEF StartStep
  <1>2. ASSUME NEW v \in Worker, v # w, WorkerStep(v) \/ WorkerFault(v)
        PROVE  <<wNode'[w], w>> \in rows'[wExec'[w]]
    <2>1. /\ wPc[w] = "exec" /\ wNode'[w] = wNode[w] /\ wExec'[w] = wExec[w]
      BY <1>2, OtherWorkers
    <2>2. \A f \in Exec : \A r \in rows[f] : r[2] = w => r \in rows'[f]
      <3>1. CASE \/ Take(v) \/ Load(v) \/ PruneNode(v) \/ UnknownType(v) \/ ExecuteReturns(v)
                 \/ SaveState(v) \/ SetWaiting(v) \/ FinishExecution(v) \/ Release(v)
                 \/ LoadWorkflowError(v)
        BY <3>1 DEF Take, Load, PruneNode, UnknownType, ExecuteReturns, SaveState, SetWaiting,
           FinishExecution, Release, LoadWorkflowError, rowVars
      <3>2. CASE StartStep(v)
        BY <3>2 DEF StartStep
      <3>3. CASE ExecuteFails(v) \/ DriveStoreError(v) \/ FinishStepIgnored(v)
        BY <1>2, <3>3 DEF ExecuteFails, DriveStoreError, FinishStepIgnored, Disowned
      <3>4. CASE FinishStep(v)
        BY <1>2, <3>4 DEF FinishStep
      <3> QED
        BY <1>2, <3>1, <3>2, <3>3, <3>4 DEF WorkerStep, WorkerFault
    <2> QED
      BY <1>0, <2>1, <2>2
  <1>3. ASSUME NEW i \in Inst, FailStaleSteps(i) PROVE <<wNode'[w], w>> \in rows'[wExec'[w]]
    <2>1. UNCHANGED workerVars /\ wPc[w] = "exec"
      BY <1>3 DEF FailStaleSteps, workerVars
    <2>2. PICK e \in rcIds[i] : rows' = [rows EXCEPT ![e] = {}] \/ UNCHANGED rows
      BY <1>3 DEF FailStaleSteps
    <2>3. e \in Exec /\ Listed(e)
      BY <2>2 DEF QueueType, Listed
    <2>4. ~Worked(e)
      BY <2>3 DEF HandInv, OneHand
    <2>5. wExec[w] # e
      BY <2>1, <2>4 DEF Worked
    <2> QED
      BY <1>0, <2>1, <2>2, <2>3, <2>5 DEF workerVars
  <1>4. ASSUME NEW i \in Inst, Crash(i) PROVE <<wNode'[w], w>> \in rows'[wExec'[w]]
    BY <1>0, <1>4 DEF Crash
  <1>5. ASSUME UNCHANGED <<rows, workerVars>> PROVE <<wNode'[w], w>> \in rows'[wExec'[w]]
    BY <1>0, <1>5 DEF workerVars
  <1>6. ASSUME \/ \E e \in Exec : CreateExecution(e) \/ RunStep(e)
               \/ \E z \in Resumer : (\E e \in Exec : LoadForResume(z, e)) \/ ResumeStep(z)
               \/ \E i \in Inst : ListRunning(i) \/ EnqueueRecovered(i)
        PROVE  UNCHANGED <<rows, workerVars>>
    BY <1>6 DEF CreateExecution, RunStep, SaveSeed, EnqueueRun, LoadForResume, ResumeStep,
       ClaimWaiting, SaveResumed, EnqueueResumed, ListRunning, EnqueueRecovered, rowVars
  <1> QED
    BY <1>1, <1>2, <1>3, <1>4, <1>5, <1>6 DEF Next, RecoveryStep, vars, rowVars

(* HandInv is needed only here: two hands on a row could write a state     *)
(* beside the suspension it waits at.                                      *)
WalkedInv == HandedInv /\ WalkInv

LEMMA WalkInvariant ==
  ASSUME Orderly
  PROVE  Spec => []WalkedInv
  <1>1. Init => WalkInv
    <2>1. Init => \A e \in Exec : saved[e].visited = {} /\ status[e] = "none"
      BY DEF Init, NullState
    <2>2. Init => \A w \in Worker : wPc[w] = "idle"
      BY DEF Init
    <2>3. Init => \A z \in Resumer : zPc[z] = "idle"
      BY DEF Init
    <2> QED
      BY <2>1, <2>2, <2>3, EmptyIsSound
         DEF WalkInv, WaitSound, WalkerSound, Walking, CallerSound, RecoverySparesLiveSteps
  <1>2. HandedInv /\ HandedInv' /\ WalkedInv /\ [Next]_vars => WalkedInv'
    <2> SUFFICES ASSUME HandedInv, HandedInv', WalkInv, [Next]_vars PROVE WalkInv'
      BY DEF WalkedInv
    <2>1. TypeOK
      BY DEF HandedInv, DriveInv
    <2>2. \A e \in Exec : Sound(saved'[e].visited) /\ WaitSound(e)'
      BY <2>1, SavedStep, WaitStep
    <2>3. \A w \in Worker : WalkerSound(w)'
      BY <2>1, WalkerStep
    <2>4. \A z \in Resumer : CallerSound(z)'
      BY <2>1, CallerStep
    <2> QED
      BY <2>2, <2>3, <2>4, RowStep DEF WalkInv
  <1>3. Init /\ HandedInv => WalkedInv
    BY <1>1 DEF WalkedInv
  <1> QED
    BY <1>2, <1>3, HandInvariant, PTL DEF Spec

(* With one instance whose requests wait for the recovery's list, and any  *)
(* number of callers of Resume, a node executes only after all its sources *)
(* and every checkpoint lists a node only with all of its sources.         *)
THEOREM WalksInOrder ==
  ASSUME Orderly
  PROVE  Spec => []WalkInOrder
  <1>1. WalkedInv => WalkInOrder
    BY DEF WalkedInv, WalkInv, WalkInOrder, Sound, WalkerSound, Walking, AtHand, AtNode, Due
  <1> QED
    BY <1>1, WalkInvariant, PTL

(* A waiting row can be resumed: its state is not NULL and waits at an     *)
(* unvisited wait node whose sources are done.                             *)
THEOREM WaitsCanResume ==
  ASSUME Orderly
  PROVE  Spec => []WaitingIsResumable
  <1>1. WalkedInv => WaitingIsResumable
    BY DEF WalkedInv, WalkInv, WaitingIsResumable, WaitSound, Due
  <1> QED
    BY <1>1, WalkInvariant, PTL

(* FailStaleRunningSteps never fails the row of a step that executes.      *)
THEOREM LiveStepsAreSpared ==
  ASSUME Orderly
  PROVE  Spec => []RecoverySparesLiveSteps
  <1>1. WalkedInv => RecoverySparesLiveSteps
    BY DEF WalkedInv, WalkInv
  <1> QED
    BY <1>1, WalkInvariant, PTL

LEMMA SuccessStep ==
  ASSUME WalkedInv, [Next]_vars, NEW e \in Exec, status[e] # "success", status'[e] = "success"
  PROVE  \E w \in Worker : /\ wExec[w] = e
                           /\ FindTrigger \in wState[w].visited
                           /\ Frontier(wState[w].visited) = {}
  <1> USE DEF WalkedInv, HandedInv, DriveInv, TypeOK, RowsType
  <1>1. PICK w \in Worker : SetWaiting(w) \/ FinishExecution(w)
    BY StatusWrites DEF StatusWrite, CreateExecution
  <1>2. wExec[w] \in Exec
    BY <1>1 DEF SetWaiting, FinishExecution, WorkerType
  <1>3. wExec[w] = e /\ wPc[w] = "pick" /\ wReady[w] = {}
    BY <1>1, <1>2 DEF SetWaiting, FinishExecution
  <1>4. Sound(wState[w].visited) /\ StartingPoints(wState[w].visited) \subseteq {}
    BY <1>3 DEF WalkInv, WalkerSound, Walking, AtHand, AtNode
  <1>5. wState[w].visited # {}
    BY <1>4
  <1> QED
    BY <1>3, <1>4, <1>5 DEF Sound

(* An execution is reported successful only by a worker whose walk has     *)
(* visited the trigger and left nothing to start from.                     *)
THEOREM SuccessMeansDone ==
  ASSUME Orderly
  PROVE  Spec => SuccessIsComplete
  <1>1. WalkedInv /\ [Next]_vars =>
          [\A e \in Exec : status[e] # "success" /\ status'[e] = "success" =>
             \E w \in Worker : /\ wExec[w] = e
                               /\ FindTrigger \in wState[w].visited
                               /\ Frontier(wState[w].visited) = {}]_vars
    BY SuccessStep
  <1> QED
    BY <1>1, WalkInvariant, PTL DEF Spec, SuccessIsComplete

-----------------------------------------------------------------------------
(* What a successful run has not done                                      *)

(* Nodes that wait for each other or for nobody: those on a cycle, those   *)
(* without a source that are not the trigger the run starts at (a second   *)
(* trigger), and those behind either.                                      *)
Stuck(S) == FindTrigger \notin S /\ \A n \in S : Sources(n) = {} \/ Sources(n) \cap S # {}

LEMMA StuckIsOutside ==
  ASSUME NEW visited, Sound(visited), NEW S, Stuck(S)
  PROVE  visited \cap S = {}
  <1>1. SUFFICES ASSUME visited \cap S # {} PROVE FALSE
    OBVIOUS
  <1>2. PICK n \in visited \cap S :
            n = FindTrigger \/ (Sources(n) # {} /\ Sources(n) \cap (visited \cap S) = {})
    <2>1. visited \cap S \in SUBSET visited
      OBVIOUS
    <2> QED
      BY <1>1, <2>1 DEF Sound, Grounded
  <1>3. n # FindTrigger /\ Sources(n) \cap S # {}
    BY <1>2 DEF Stuck
  <1>4. Sources(n) \subseteq visited
    BY <1>2, <1>3 DEF Sound, Closed
  <1> QED
    BY <1>2, <1>3, <1>4

LEMMA RestIsStuck ==
  ASSUME NEW visited, FindTrigger \in visited, Frontier(visited) = {}
  PROVE  Stuck(Node \ visited)
  <1>1. SUFFICES ASSUME NEW n \in Node \ visited, NEW k \in Sources(n),
                        Sources(n) \cap (Node \ visited) = {}
                 PROVE  FALSE
    BY DEF Stuck
  <1>2. Sources(n) \subseteq Node
    BY WorkflowAssumption DEF Sources, Incoming
  <1>3. <<k, n>> \in Edges
    <2>1. PICK x \in Edges : x[2] = n /\ x[1] = k
      BY DEF Sources, Incoming
    <2>2. x = <<k, n>>
      BY <2>1, WorkflowAssumption
    <2> QED
      BY <2>2
  <1>4. n \in ReadySuccessors(k, visited) /\ k \in visited
    BY <1>1, <1>2, <1>3 DEF ReadySuccessors, IsReady
  <1> QED
    BY <1>4 DEF Frontier

(* No node that is stuck is ever started or recorded as visited.           *)
NeverStuck ==
    \A S \in SUBSET Node : Stuck(S) =>
        \A e \in Exec, n \in S : n \notin saved[e].visited /\ starts[e][n] = 0

LEMMA NoneStarted ==
  ASSUME TypeOK, WalkInv, NeverStuck, [Next]_vars, NEW S \in SUBSET Node, Stuck(S),
         NEW e \in Exec, NEW n \in S
  PROVE  starts'[e][n] = 0
  <1>1. starts[e][n] = 0
    BY DEF NeverStuck
  <1>2. ASSUME NEW w \in Worker, StartStep(w) PROVE starts'[e][n] = 0
    <2>1. wPc[w] = "pick" /\ wExec[w] \in Exec
      BY <1>2 DEF StartStep, TypeOK, WorkerType
    <2>2. PICK m \in wReady[w] :
              starts' = [starts EXCEPT ![wExec[w]][m] = IF @ < MaxStarts THEN @ + 1 ELSE @]
      BY <1>2 DEF StartStep
    <2>3. Sound(wState[w].visited) /\ Due(m, wState[w].visited)
      BY <2>1, <2>2 DEF WalkInv, WalkerSound, Walking
    <2>4. m \notin S
      <3>1. Sound(wState[w].visited \cup {m})
        BY <2>3, DueIsSound
      <3>2. (wState[w].visited \cup {m}) \cap S = {}
        BY <3>1, StuckIsOutside
      <3> QED
        BY <3>2
    <2>5. starts \in [Exec -> [Node -> 0..MaxStarts]] /\ n \in Node /\ m # n
      BY <2>4 DEF TypeOK, RowsType
    <2>6. CASE wExec[w] = e
      BY <1>1, <2>2, <2>5, <2>6
    <2>7. CASE wExec[w] # e
      BY <1>1, <2>2, <2>5, <2>7
    <2> QED
      BY <2>6, <2>7
  <1>3. CASE \A w \in Worker : ~StartStep(w)
    <2>1. UNCHANGED starts
      BY <1>3 DEF Next, RunStep, ResumeStep, WorkerStep, WorkerFault, RecoveryStep, CreateExecution,
         SaveSeed, EnqueueRun, LoadForResume, ClaimWaiting, SaveResumed, EnqueueResumed, Take, Load,
         PruneNode, UnknownType, ExecuteReturns, ExecuteFails, FinishStep, SaveState, SetWaiting,
         FinishExecution, Release, DriveStoreError, FinishStepIgnored, LoadWorkflowError,
         ListRunning, FailStaleSteps, EnqueueRecovered, Crash, OthersUnchanged, rowVars, vars
    <2> QED
      BY <1>1, <2>1
  <1> QED
    BY <1>2, <1>3

(* Nodes on a cycle, behind one or behind a second trigger are never       *)
(* executed, by no drive, resume or recovery.                              *)
THEOREM StuckNodesNeverRun ==
  ASSUME Orderly
  PROVE  Spec => []NeverStuck
  <1>1. Init => NeverStuck
    BY DEF Init, NeverStuck, NullState
  <1>2. WalkedInv /\ WalkedInv' /\ NeverStuck /\ [Next]_vars => NeverStuck'
    <2> SUFFICES ASSUME WalkedInv, WalkedInv', NeverStuck, [Next]_vars,
                        NEW S \in SUBSET Node, Stuck(S), NEW e \in Exec, NEW n \in S
                 PROVE  n \notin saved'[e].visited /\ starts'[e][n] = 0
      BY DEF NeverStuck
    <2>1. Sound(saved'[e].visited)
      BY DEF WalkedInv, WalkInv
    <2>2. n \notin saved'[e].visited
      BY <2>1, StuckIsOutside
    <2>3. starts'[e][n] = 0
      BY NoneStarted DEF WalkedInv, HandedInv, DriveInv
    <2> QED
      BY <2>2, <2>3
  <1> QED
    BY <1>1, <1>2, WalkInvariant, PTL DEF Spec

(* And nothing else is left out: what a run reported successful has not    *)
(* visited is stuck.  So the nodes a success skips without a word are      *)
(* those the graph makes unreachable, and no others.                       *)
THEOREM SuccessSkipsOnlyStuck ==
  ASSUME Orderly
  PROVE  Spec => [][\A e \in Exec : status[e] # "success" /\ status'[e] = "success" =>
                      \E w \in Worker : wExec[w] = e /\ Stuck(Node \ wState[w].visited)]_vars
  <1>1. WalkedInv /\ [Next]_vars =>
          [\A e \in Exec : status[e] # "success" /\ status'[e] = "success" =>
             \E w \in Worker : wExec[w] = e /\ Stuck(Node \ wState[w].visited)]_vars
    BY SuccessStep, RestIsStuck
  <1> QED
    BY <1>1, WalkInvariant, PTL DEF Spec

(* In a graph without a cycle and with no start but the trigger nothing is *)
(* stuck, and a success has visited every node.                            *)
LEMMA NothingStuck ==
  ASSUME NEW rank \in [Node -> Nat], \A x \in Edges : rank[x[1]] < rank[x[2]],
         \A n \in Node \ {FindTrigger} : Sources(n) # {},
         NEW S \in SUBSET Node, Stuck(S)
  PROVE  S = {}
  <1>1. SUFFICES ASSUME S # {} PROVE FALSE
    OBVIOUS
  <1> DEFINE T == {rank[n] : n \in S}
  <1>2. PICK n \in S : \A m \in S : rank[n] <= rank[m]
    <2>1. T \in SUBSET Nat /\ T # {}
      BY <1>1
    <2> HIDE DEF T
    <2>2. PICK r \in T : \A q \in T : r <= q
      BY <2>1, LeastNumber
    <2> QED
      BY <2>2 DEF T
  <1>3. PICK k \in Sources(n) : k \in S
    BY <1>2 DEF Stuck
  <1>4. PICK x \in Edges : x[2] = n /\ x[1] = k
    BY <1>3 DEF Sources, Incoming
  <1>5. rank[k] < rank[n] /\ rank[n] <= rank[k] /\ rank[k] \in Nat /\ rank[n] \in Nat
    BY <1>2, <1>3, <1>4
  <1> QED
    BY <1>5

THEOREM WholeGraphIsWalked ==
  ASSUME Orderly,
         NEW rank \in [Node -> Nat], \A x \in Edges : rank[x[1]] < rank[x[2]],
         \A n \in Node \ {FindTrigger} : Sources(n) # {}
  PROVE  Spec => [][\A e \in Exec : status[e] # "success" /\ status'[e] = "success" =>
                      \E w \in Worker : wExec[w] = e /\ Node \subseteq wState[w].visited]_vars
  <1>1. WalkedInv /\ [Next]_vars =>
          [\A e \in Exec : status[e] # "success" /\ status'[e] = "success" =>
             \E w \in Worker : wExec[w] = e /\ Node \subseteq wState[w].visited]_vars
    <2> SUFFICES ASSUME WalkedInv, [Next]_vars, NEW e \in Exec,
                        status[e] # "success", status'[e] = "success"
                 PROVE  \E w \in Worker : wExec[w] = e /\ Node \subseteq wState[w].visited
      OBVIOUS
    <2>1. PICK w \in Worker : wExec[w] = e /\ Stuck(Node \ wState[w].visited)
      BY SuccessStep, RestIsStuck
    <2>2. Node \ wState[w].visited = {}
      BY <2>1, NothingStuck
    <2> QED
      BY <2>1, <2>2
  <1> QED
    BY <1>1, WalkInvariant, PTL DEF Spec

(* Without store errors and suspensions somebody goes on with every        *)
(* running execution.  With suspensions the wake-up of a resume may be     *)
(* lost (the finding RunsSettle), with store errors a row is left alone.   *)
Undisturbed == MaxFaults = 0 /\ WaitNodes = {}

(* Nothing waits, nobody resumes, a worker lets go only of what is over,   *)
(* and what runs is in somebody's hand or about to be listed.              *)
AttendedInv ==
    /\ \A e \in Exec : status[e] # "waiting"
    /\ \A z \in Resumer : zPc[z] = "idle"
    /\ \A w \in Worker : wPc[w] = "release" => status[wExec[w]] \in Terminal
    /\ \A i \in Inst : rcPc[i] # "enqueue" => rcExec[i] = None
    /\ \A e \in Exec : status[e] = "running" => Held(e) \/ \E i \in Inst : rcPc[i] = "list"

LEMMA NoFaults ==
  ASSUME Undisturbed, TypeOK
  PROVE  ~Fault
  BY DEF Undisturbed, TypeOK, Fault

LEMMA NothingWaits ==
  ASSUME Undisturbed, WalkedInv, AttendedInv, [Next]_vars
  PROVE  /\ \A e \in Exec : status'[e] # "waiting"
         /\ \A z \in Resumer : zPc'[z] = "idle"
         /\ \A w \in Worker : ~SetWaiting(w)
         /\ \A z \in Resumer : ~(\E e \in Exec : LoadForResume(z, e)) /\ ~ResumeStep(z)
  <1> USE DEF WalkedInv, HandedInv, DriveInv
  <1>1. ASSUME NEW w \in Worker, SetWaiting(w) PROVE FALSE
    BY <1>1 DEF SetWaiting, WalkInv, WalkerSound, Walking, Undisturbed
  <1>2. ASSUME NEW z \in Resumer PROVE ~(\E e \in Exec : LoadForResume(z, e)) /\ ~ResumeStep(z)
    BY DEF AttendedInv, LoadForResume, ResumeStep, ClaimWaiting, SaveResumed, EnqueueResumed
  <1>3. \A e \in Exec : status'[e] # "waiting"
    <2>1. ASSUME NEW e \in Exec, CreateExecution(e) PROVE \A f \in Exec : status'[f] # "waiting"
      BY <2>1 DEF CreateExecution, AttendedInv, TypeOK, RowsType
    <2>2. ASSUME NEW w \in Worker, FinishExecution(w) PROVE \A f \in Exec : status'[f] # "waiting"
      BY <2>2 DEF FinishExecution, AttendedInv, TypeOK, RowsType
    <2>3. ASSUME UNCHANGED status PROVE \A f \in Exec : status'[f] # "waiting"
      BY <2>3 DEF AttendedInv
    <2> QED
      BY <1>1, <2>1, <2>2, <2>3, StatusWrites DEF StatusWrite, AttendedInv
  <1>4. \A z \in Resumer : zPc'[z] = "idle"
    <2>1. ASSUME NEW i \in Inst, Crash(i) PROVE \A z \in Resumer : zPc'[z] = "idle"
      BY <2>1 DEF Crash, AttendedInv
    <2>2. ASSUME \/ \E e \in Exec : CreateExecution(e) \/ RunStep(e)
                 \/ \E i \in Inst : RecoveryStep(i)
                 \/ \E w \in Worker : Take(w)
                 \/ UNCHANGED vars
          PROVE  UNCHANGED resumeVars
      BY <2>2 DEF CreateExecution, RunStep, SaveSeed, EnqueueRun, RecoveryStep, ListRunning,
         FailStaleSteps, EnqueueRecovered, Take, vars
    <2>3. UNCHANGED resumeVars => \A z \in Resumer : zPc'[z] = "idle"
      BY DEF resumeVars, AttendedInv
    <2> QED
      BY <1>2, <2>1, <2>2, <2>3, DriveSparesHands DEF Next, WorkerStep, Midway
  <1> QED
    BY <1>1, <1>2, <1>3, <1>4

(* A worker lets go of an execution only by FinishExecution.               *)
LEMMA ReleaseStep ==
  ASSUME Orderly, Undisturbed, WalkedInv, AttendedInv, [Next]_vars,
         NEW w \in Worker, wPc'[w] = "release"
  PROVE  status'[wExec'[w]] \in Terminal
  <1> USE DEF WalkedInv, HandedInv, DriveInv
  <1>1. CASE WorkerStep(w) \/ WorkerFault(w)
    <2>1. CASE FinishExecution(w)
      BY <2>1 DEF FinishExecution, Terminal, TypeOK, RowsType, WorkerType
    <2>2. CASE Load(w)
      <3>1. wExec[w] \in Exec /\ Worked(wExec[w])
        BY <2>2 DEF Load, Worked, TypeOK, WorkerType
      <3>2. status[wExec[w]] = "running"
        BY <3>1 DEF HandInv, Held
      <3> QED
        BY <2>2, <3>2 DEF Load, GoTo, TypeOK, WorkerType
    <2>3. ~WorkerFault(w)
      BY NoFaults DEF WorkerFault, DriveStoreError, FinishStepIgnored, LoadWorkflowError
    <2>4. CASE ~FinishExecution(w) /\ ~Load(w)
      BY <1>1, <2>3, <2>4, NothingWaits
         DEF WorkerStep, Take, PruneNode, UnknownType, StartStep, ExecuteReturns, ExecuteFails,
             FinishStep, AfterStep, SaveState, Release, GoTo, TypeOK, WorkerType
    <2> QED
      BY <2>1, <2>2, <2>4
  <1>2. ASSUME wPc[w] = "release", wExec'[w] = wExec[w] PROVE status'[wExec'[w]] \in Terminal
    BY <1>2, DriveStep DEF Orderly, AttendedInv, TypeOK, WorkerType
  <1>3. ASSUME NEW v \in Worker, v # w, WorkerStep(v) \/ WorkerFault(v)
        PROVE  wPc[w] = "release" /\ wExec'[w] = wExec[w]
    BY <1>3, OtherWorkers
  <1>4. ASSUME NEW i \in Inst, Crash(i) PROVE wPc[w] = "release" /\ wExec'[w] = wExec[w]
    BY <1>4 DEF Crash
  <1>5. UNCHANGED workerVars => wPc[w] = "release" /\ wExec'[w] = wExec[w]
    BY DEF workerVars
  <1> QED
    BY <1>1, <1>2, <1>3, <1>4, <1>5, CallersKeepClaims DEF Next, vars

(* What was sent is in the channel.                                        *)
LEMMA SentIsQueued ==
  ASSUME TypeOK, NEW i \in Inst, NEW f \in Exec, Enqueue(i, f)
  PROVE  /\ Queued(f)'
         /\ \A e \in Exec : Queued(e) => Queued(e)'
  <1> DEFINE s == jobs[i]
  <1>1. s \in Seq(Exec) /\ jobs' = [jobs EXCEPT ![i] = Append(s, f)]
    BY DEF Enqueue, TypeOK, QueueType
  <1>2. jobs'[i] = Append(s, f) /\ \A j \in Inst : j # i => jobs'[j] = jobs[j]
    BY <1>1 DEF TypeOK, QueueType
  <1>3. /\ DOMAIN Append(s, f) = 1..(Len(s) + 1)
        /\ \A k \in 1..(Len(s) + 1) : Append(s, f)[k] = IF k = Len(s) + 1 THEN f ELSE s[k]
        /\ DOMAIN s = 1..Len(s) /\ Len(s) \in Nat /\ Len(s) + 1 \in 1..(Len(s) + 1)
    BY <1>1
  <1>4. Queued(f)'
    BY <1>2, <1>3 DEF Queued
  <1>5. ASSUME NEW e \in Exec, Queued(e) PROVE Queued(e)'
    <2>1. PICK j \in Inst : \E k \in DOMAIN jobs[j] : jobs[j][k] = e
      BY <1>5 DEF Queued
    <2>2. CASE j # i
      BY <1>2, <2>1, <2>2 DEF Queued
    <2>3. CASE j = i
      <3>1. PICK k \in 1..Len(s) : s[k] = e
        BY <1>3, <2>1, <2>3
      <3>2. k \in 1..(Len(s) + 1) /\ k # Len(s) + 1
        BY <1>3
      <3> QED
        BY <1>2, <1>3, <3>1, <3>2 DEF Queued
    <2> QED
      BY <2>2, <2>3
  <1> QED
    BY <1>4, <1>5

(* What was received is what the channel has lost.                         *)
LEMMA OthersStayQueued ==
  ASSUME TypeOK, NEW i \in Inst, jobs[i] # <<>>, jobs' = [jobs EXCEPT ![i] = Tail(@)],
         NEW e \in Exec, Queued(e), e # Head(jobs[i])
  PROVE  Queued(e)'
  <1> DEFINE s == jobs[i]
  <1>1. s \in Seq(Exec) /\ Len(s) \in Nat \ {0} /\ DOMAIN s = 1..Len(s)
    BY DEF TypeOK, QueueType
  <1>2. jobs'[i] = Tail(s) /\ \A j \in Inst : j # i => jobs'[j] = jobs[j]
    BY DEF TypeOK, QueueType
  <1>3. /\ DOMAIN Tail(s) = 1..(Len(s) - 1)
        /\ \A k \in 1..(Len(s) - 1) : Tail(s)[k] = s[k + 1]
        /\ Head(s) = s[1]
    BY <1>1
  <1>4. PICK j \in Inst : \E k \in DOMAIN jobs[j] : jobs[j][k] = e
    BY DEF Queued
  <1>5. CASE j # i
    BY <1>2, <1>4, <1>5 DEF Queued
  <1>6. CASE j = i
    <2>1. PICK k \in 1..Len(s) : s[k] = e
      BY <1>1, <1>4, <1>6
    <2>2. k - 1 \in 1..(Len(s) - 1) /\ Tail(s)[k - 1] = e
      BY <1>1, <1>3, <2>1
    <2> QED
      BY <1>2, <1>3, <2>2 DEF Queued
  <1> QED
    BY <1>5, <1>6

(* Between two executions the recovery has none in hand.                   *)
LEMMA IdleRecovery ==
  ASSUME TypeOK, AttendedInv, [Next]_vars, NEW i \in Inst, rcPc'[i] # "enqueue"
  PROVE  rcExec'[i] = None
  <1>1. ASSUME NEW j \in Inst, RecoveryStep(j) \/ Crash(j) PROVE rcExec'[i] = None
    BY <1>1 DEF RecoveryStep, ListRunning, FailStaleSteps, EnqueueRecovered, Crash, AttendedInv,
       TypeOK, QueueType
  <1>2. ASSUME \/ \E e \in Exec : CreateExecution(e) \/ RunStep(e)
               \/ \E z \in Resumer : (\E e \in Exec : LoadForResume(z, e)) \/ ResumeStep(z)
               \/ \E w \in Worker : Take(w)
               \/ UNCHANGED vars
        PROVE  UNCHANGED <<rcPc, rcExec>>
    BY <1>2 DEF CreateExecution, RunStep, SaveSeed, EnqueueRun, LoadForResume, ResumeStep,
       ClaimWaiting, SaveResumed, EnqueueResumed, Take, rcVars, vars
  <1>3. ASSUME NEW w \in Worker, Midway(w) \/ Release(w) PROVE UNCHANGED <<rcPc, rcExec>>
    BY <1>3, DriveSparesHands DEF SameList
  <1> QED
    BY <1>1, <1>2, <1>3 DEF Next, WorkerStep, Midway, AttendedInv

(* Nobody puts a running execution down.                                   *)
LEMMA RunningStaysHeld ==
  ASSUME Orderly, Undisturbed, WalkedInv, AttendedInv, [Next]_vars,
         NEW e \in Exec, status'[e] = "running"
  PROVE  Held(e)' \/ \E i \in Inst : rcPc'[i] = "list"
  <1> USE EngineAssumption DEF WalkedInv, HandedInv, DriveInv
  <1> DEFINE Kept == Held(e)' \/ \E i \in Inst : rcPc'[i] = "list"
  <1>0. status[e] = "running" => Held(e) \/ \E i \in Inst : rcPc[i] = "list"
    BY DEF AttendedInv
  <1>1. ASSUME NEW f \in Exec, CreateExecution(f) PROVE Kept
    <2>1. SameList /\ SameQueue /\ SameWorkers /\ SameResumes /\ UNCHANGED rcPc
      BY <1>1 DEF CreateExecution, rcVars, workerVars, resumeVars, SameList, SameQueue, SameWorkers,
         SameResumes
    <2>2. Requested(e)' <=> Requested(e) \/ e = f
      BY <1>1 DEF CreateExecution, Requested, TypeOK, CallerType
    <2>3. e # f => status[e] = "running"
      BY <1>1 DEF CreateExecution, TypeOK, RowsType
    <2> QED
      BY <1>0, <2>1, <2>2, <2>3, SameHands DEF Held
  <1>2. ASSUME NEW f \in Exec, RunStep(f) PROVE Kept
    <2>1. SameList /\ SameWorkers /\ SameResumes /\ UNCHANGED <<status, rcPc>>
      BY <1>2 DEF RunStep, SaveSeed, EnqueueRun, rcVars, workerVars, resumeVars, rowVars, SameList,
         SameWorkers, SameResumes
    <2>2. CASE SaveSeed(f)
      <3>1. SameQueue /\ runPc' = [runPc EXCEPT ![f] = "enqueue"] /\ runPc[f] = "seed"
        BY <2>2, NoFaults DEF SaveSeed, SameQueue
      <3>2. Requested(e) => Requested(e)'
        BY <3>1 DEF Requested, TypeOK, CallerType
      <3> QED
        BY <1>0, <2>1, <3>1, <3>2, SameHands DEF Held
    <2>3. CASE EnqueueRun(f)
      <3>1. Enqueue(home[f], f) /\ home[f] \in Inst /\ runPc' = [runPc EXCEPT ![f] = "done"]
        BY <2>3 DEF EnqueueRun
      <3>2. e # f => (Requested(e) => Requested(e)')
        BY <3>1 DEF Requested, TypeOK, CallerType
      <3>3. Queued(f)' /\ (Queued(e) => Queued(e)')
        BY <3>1, SentIsQueued
      <3> QED
        BY <1>0, <2>1, <3>2, <3>3, SameHands DEF Held
    <2> QED
      BY <1>2, <2>2, <2>3 DEF RunStep
  <1>3. ASSUME NEW w \in Worker, Take(w) PROVE Kept
    <2> DEFINE i == home[w]
    <2>1. PICK f \in Exec : f = Head(jobs[i])
      BY <1>3 DEF Take, TypeOK, QueueType
    <2>2. /\ SameRun /\ SameList /\ SameResumes /\ UNCHANGED <<status, rcPc>>
          /\ i \in Inst /\ jobs[i] # <<>> /\ jobs' = [jobs EXCEPT ![i] = Tail(@)]
      BY <1>3 DEF Take, rowVars, rcVars, resumeVars, SameRun, SameList, SameResumes
    <2>3. Queued(f)
      BY <2>1, <2>2, Received DEF HandInv, Orderly
    <2>4. f \notin active[i]
      <3>1. SUFFICES ASSUME NEW v \in Worker, Owns(v, f) PROVE FALSE
        BY <2>2 DEF ClaimsAreExclusive
      <3>2. ~Worked(f) /\ status[f] = "running"
        BY <2>3 DEF HandInv, OneHand, Held
      <3> QED
        BY <3>1, <3>2 DEF Owns, Worked, AttendedInv, Terminal
    <2>5. /\ wPc' = [wPc EXCEPT ![w] = "load"] /\ wExec' = [wExec EXCEPT ![w] = f]
          /\ wPc[w] = "idle"
      BY <1>3, <2>1, <2>4 DEF Take, GoTo
    <2>6. Worked(f)' /\ (Worked(e) => Worked(e)')
      BY <2>5 DEF Worked, TypeOK, WorkerType
    <2>7. e # f => (Queued(e) => Queued(e)')
      BY <2>1, <2>2, OthersStayQueued
    <2> QED
      BY <1>0, <2>2, <2>6, <2>7, SameHands DEF Held
  <1>4. ASSUME NEW w \in Worker, Midway(w) \/ Release(w) PROVE Kept
    <2>1. SameRun /\ SameList /\ SameQueue /\ SameResumes /\ UNCHANGED rcPc
      BY <1>4, DriveSparesHands DEF SameList
    <2>2. status[e] = "running"
      <3>1. ~SetWaiting(w)
        BY NothingWaits
      <3>2. CASE FinishExecution(w)
        BY <3>2 DEF FinishExecution, TypeOK, RowsType
      <3>3. CASE ~FinishExecution(w)
        BY <1>4, <3>1, <3>3 DEF Midway, Load, PruneNode, UnknownType, StartStep, ExecuteReturns,
           ExecuteFails, FinishStep, SaveState, WorkerFault, DriveStoreError, FinishStepIgnored,
           LoadWorkflowError, Release, rowVars
      <3> QED
        BY <3>2, <3>3
    <2>3. Worked(e) => Worked(e)'
      <3>1. SUFFICES ASSUME NEW v \in Worker, wExec[v] = e, wPc[v] \notin {"idle", "release"}
                     PROVE  Worked(e)'
        BY DEF Worked
      <3>2. CASE v # w
        BY <1>4, <3>1, <3>2, OtherWorkers DEF Worked, Midway, WorkerStep
      <3>3. CASE v = w
        <4>1. Midway(w)
          BY <1>4, <3>1, <3>3 DEF Release
        <4>2. wExec'[w] = e /\ wPc'[w] # "idle"
          BY <3>1, <3>3, <4>1, MidwayKeepsClaims DEF TypeOK, WorkerType
        <4>3. wPc'[w] # "release"
          BY <4>2, ReleaseStep DEF Terminal
        <4> QED
          BY <4>2, <4>3 DEF Worked
      <3> QED
        BY <3>2, <3>3
    <2> QED
      BY <1>0, <2>1, <2>2, <2>3, SameHands DEF Held
  <1>5. ASSUME NEW i \in Inst, RecoveryStep(i) PROVE Kept
    <2>1. SameRun /\ SameWorkers /\ SameResumes /\ UNCHANGED status /\ \A j \in Inst : j = i
      BY <1>5 DEF RecoveryStep, ListRunning, FailStaleSteps, EnqueueRecovered, rowVars, workerVars,
         resumeVars, SameRun, SameWorkers, SameResumes, Orderly, SingleInstance
    <2>2. CASE ListRunning(i)
      <3>1. rcIds' = [rcIds EXCEPT ![i] = {f \in Exec : status[f] = "running"}]
        BY <2>2, NoFaults DEF ListRunning
      <3>2. Listed(e)'
        BY <2>1, <3>1 DEF Listed, TypeOK, QueueType
      <3> QED
        BY <3>2 DEF Held
    <2>3. CASE FailStaleSteps(i)
      <3>1. PICK f \in rcIds[i] : /\ rcExec' = [rcExec EXCEPT ![i] = f]
                                  /\ rcIds' = [rcIds EXCEPT ![i] = @ \ {f}]
        BY <2>3 DEF FailStaleSteps
      <3>2. SameQueue /\ rcPc[i] = "fail"
        BY <2>3 DEF FailStaleSteps, SameQueue
      <3>3. Listed(e) => Listed(e)' \/ Recovering(e)'
        BY <2>1, <3>1 DEF Listed, Recovering, TypeOK, QueueType
      <3>4. ~Recovering(e)
        BY <2>1, <3>2 DEF Recovering, AttendedInv
      <3> QED
        BY <1>0, <2>1, <3>2, <3>3, <3>4, SameHands DEF Held
    <2>4. CASE EnqueueRecovered(i)
      <3>1. PICK f \in Exec : f = rcExec[i]
        BY <2>4 DEF EnqueueRecovered, TypeOK, QueueType
      <3>2. Enqueue(i, f) /\ UNCHANGED rcIds /\ rcPc[i] = "enqueue"
        BY <2>4, <3>1 DEF EnqueueRecovered
      <3>3. Queued(f)' /\ (Queued(e) => Queued(e)') /\ (Listed(e) => Listed(e)')
        BY <3>2, SentIsQueued DEF Listed
      <3>4. Recovering(e) => e = f
        BY <2>1, <3>1 DEF Recovering
      <3> QED
        BY <1>0, <2>1, <3>2, <3>3, <3>4, SameHands DEF Held
    <2> QED
      BY <1>5, <2>2, <2>3, <2>4 DEF RecoveryStep
  <1>6. ASSUME NEW i \in Inst, Crash(i) PROVE Kept
    BY <1>6 DEF Crash, TypeOK, QueueType
  <1>7. CASE UNCHANGED vars
    <2>1. /\ SameRun /\ SameList /\ SameQueue /\ SameWorkers /\ SameResumes /\ UNCHANGED <<status, rcPc>>
      BY <1>7 DEF vars, rowVars, rcVars, workerVars, resumeVars, SameRun, SameList, SameQueue,
         SameWorkers, SameResumes
    <2> QED
      BY <1>0, <2>1, SameHands DEF Held
  <1> QED
    BY <1>1, <1>2, <1>3, <1>4, <1>5, <1>6, <1>7, NothingWaits DEF Next, WorkerStep, Midway

(* Without store errors and suspensions no running execution is ever left  *)
(* without a goroutine that will go on with it.                            *)
THEOREM NothingIsForgotten ==
  ASSUME Orderly, Undisturbed
  PROVE  Spec => []RunningIsAttended
  <1>1. Init => AttendedInv
    BY DEF Init, AttendedInv
  <1>2. WalkedInv /\ AttendedInv /\ [Next]_vars => AttendedInv'
    <2> SUFFICES ASSUME WalkedInv, AttendedInv, [Next]_vars PROVE AttendedInv'
      OBVIOUS
    <2>1. \A i \in Inst : rcPc'[i] # "enqueue" => rcExec'[i] = None
      BY IdleRecovery DEF WalkedInv, HandedInv, DriveInv
    <2> QED
      BY <2>1, NothingWaits, ReleaseStep, RunningStaysHeld DEF AttendedInv
  <1>3. AttendedInv => RunningIsAttended
    BY DEF AttendedInv, RunningIsAttended, Attended, Held, Requested, Listed, Recovering, Queued,
       Worked, Resumed
  <1> QED
    BY <1>1, <1>2, <1>3, WalkInvariant, PTL DEF Spec

-----------------------------------------------------------------------------
(* The checkpoints                                                         *)

(* Two callers of Resume may write back a suspension that has ended since  *)
(* they loaded it (the finding ResumesItsSuspension), so that the facts    *)
(* below are about one caller at a time.                                   *)
OneResumer == \A y, z \in Resumer : y = z

(* Whoever writes a column of a row has the execution in hand.             *)
LEMMA StateWriter ==
  ASSUME TypeOK, [Next]_vars, NEW e \in Exec, saved'[e] # saved[e]
  PROVE  \/ /\ SaveSeed(e) /\ Requested(e) /\ runPc[e] = "seed"
            /\ saved'[e] = SeedState
         \/ \E z \in Resumer : /\ SaveResumed(z) /\ zExec[z] = e /\ zPc[z] = "save" /\ Resumed(e)
                               /\ zPc' = [zPc EXCEPT ![z] = "enqueue"]
                               /\ saved'[e] = WithPayload(zState[z], zNode[z])
         \/ \E w \in Worker : /\ SaveState(w) \/ SetWaiting(w)
                              /\ wExec[w] = e /\ wPc[w] \in {"saveState", "setWaiting"} /\ Worked(e)
                              /\ saved'[e] = wState[w]
  <1> USE DEF TypeOK, RowsType
  <1>1. ASSUME NEW f \in Exec, SaveSeed(f), saved' = [saved EXCEPT ![f] = SeedState]
        PROVE  SaveSeed(e) /\ Requested(e) /\ runPc[e] = "seed" /\ saved'[e] = SeedState
    <2>1. f = e
      BY <1>1
    <2> QED
      BY <1>1, <2>1 DEF SaveSeed, Requested
  <1>2. ASSUME NEW z \in Resumer, SaveResumed(z), zExec[z] \in Exec, zPc[z] = "save",
               saved' = [saved EXCEPT ![zExec[z]] = WithPayload(zState[z], zNode[z])]
        PROVE  /\ zExec[z] = e /\ Resumed(e)
               /\ saved'[e] = WithPayload(zState[z], zNode[z])
    <2>1. zExec[z] = e
      BY <1>2
    <2> QED
      BY <1>2, <2>1 DEF Resumed
  <1>3. ASSUME NEW w \in Worker, wExec[w] \in Exec, wPc[w] \in {"saveState", "setWaiting"},
               saved' = [saved EXCEPT ![wExec[w]] = wState[w]]
        PROVE  wExec[w] = e /\ Worked(e) /\ saved'[e] = wState[w]
    <2>1. wExec[w] = e
      BY <1>3
    <2> QED
      BY <1>3, <2>1 DEF Worked
  <1> QED
    BY <1>1, <1>2, <1>3, SavedWrites

LEMMA WaitingAtWriter ==
  ASSUME TypeOK, [Next]_vars, NEW e \in Exec, waitingAt'[e] # waitingAt[e]
  PROVE  Worked(e)
  <1>1. PICK w \in Worker : SetWaiting(w) \/ FinishExecution(w)
    BY WaitingAtWrites
  <1>2. wExec[w] = e
    BY <1>1 DEF SetWaiting, FinishExecution, TypeOK, RowsType
  <1> QED
    BY <1>1, <1>2 DEF SetWaiting, FinishExecution, Worked

(* A waiting row rests until a caller claims it.                           *)
LEMMA WaitingRests ==
  ASSUME HandedInv, [Next]_vars, NEW e \in Exec, status[e] = "waiting"
  PROVE  /\ saved'[e] = saved[e] /\ waitingAt'[e] = waitingAt[e]
         /\ \/ status'[e] = "waiting"
            \/ \E z \in Resumer : /\ zPc[z] = "claim" /\ zExec[z] = e /\ status'[e] = "running"
                                  /\ zPc' = [zPc EXCEPT ![z] = "save"]
                                  /\ UNCHANGED <<zExec, zNode, zState>>
  <1> USE DEF HandedInv, DriveInv
  <1>1. ~Held(e)
    BY DEF HandInv
  <1>2. ~Requested(e) /\ ~Worked(e) /\ ~Resumed(e)
    BY <1>1 DEF Held
  <1>3. saved'[e] = saved[e] /\ waitingAt'[e] = waitingAt[e]
    BY <1>2, StateWriter, WaitingAtWriter
  <1>4. ASSUME NEW w \in Worker, SetWaiting(w) \/ FinishExecution(w) PROVE status'[e] = "waiting"
    <2>1. wExec[w] # e
      BY <1>2, <1>4 DEF SetWaiting, FinishExecution, Worked
    <2> QED
      BY <1>4, <2>1 DEF SetWaiting, FinishExecution, TypeOK, RowsType
  <1>5. ASSUME NEW f \in Exec, CreateExecution(f) PROVE status'[e] = "waiting"
    <2>1. f # e
      BY <1>5 DEF CreateExecution, FreshHasNoRow
    <2> QED
      BY <1>5, <2>1 DEF CreateExecution, TypeOK, RowsType
  <1>6. ASSUME NEW z \in Resumer, ClaimWaiting(z)
        PROVE  \/ status'[e] = "waiting"
               \/ /\ zPc[z] = "claim" /\ zExec[z] = e /\ status'[e] = "running"
                  /\ zPc' = [zPc EXCEPT ![z] = "save"]
                  /\ UNCHANGED <<zExec, zNode, zState>>
    BY <1>6 DEF ClaimWaiting, TypeOK, RowsType
  <1>7. ASSUME \/ \E f \in Exec : RunStep(f)
               \/ \E z \in Resumer : \/ \E f \in Exec : LoadForResume(z, f)
                                     \/ SaveResumed(z) \/ EnqueueResumed(z)
               \/ \E w \in Worker : /\ WorkerStep(w) \/ WorkerFault(w)
                                    /\ ~(SetWaiting(w) \/ FinishExecution(w))
               \/ \E i \in Inst : RecoveryStep(i) \/ Crash(i)
               \/ UNCHANGED vars
        PROVE  UNCHANGED status
    BY <1>7 DEF RunStep, SaveSeed, EnqueueRun, LoadForResume, SaveResumed, EnqueueResumed,
       WorkerStep, WorkerFault, Take, Load, PruneNode, UnknownType, StartStep, ExecuteReturns,
       ExecuteFails, FinishStep, SaveState, Release, DriveStoreError, FinishStepIgnored,
       LoadWorkflowError, RecoveryStep, ListRunning, FailStaleSteps, EnqueueRecovered, Crash,
       vars, rowVars
  <1> QED
    BY <1>3, <1>4, <1>5, <1>6, <1>7 DEF Next, ResumeStep

(* Before its seed an execution has visited nothing.                       *)
Unseeded == \A e \in Exec : runPc[e] \in {"idle", "seed"} => saved[e].visited = {}

(* What a caller of Resume has loaded is still in the row when it claims   *)
(* and when it writes.                                                     *)
Current(z) ==
    /\ zPc[z] = "claim" => status[zExec[z]] = "waiting"
    /\ zPc[z] \in {"claim", "save"} =>
          saved[zExec[z]] = zState[z] /\ waitingAt[zExec[z]] = zNode[z]

(* The walk of a driver is ahead of the checkpoint.                        *)
Ahead(w) == wPc[w] \in Walking => saved[wExec[w]].visited \subseteq wState[w].visited

CheckInv ==
    /\ Unseeded
    /\ \A z \in Resumer : Current(z)
    /\ \A w \in Worker : Ahead(w)

LEMMA UnseededStep ==
  ASSUME HandedInv, Unseeded, [Next]_vars
  PROVE  Unseeded'
  <1> USE DEF HandedInv, DriveInv
  <1> SUFFICES ASSUME NEW e \in Exec, runPc'[e] \in {"idle", "seed"} PROVE saved'[e].visited = {}
    BY DEF Unseeded
  <1>1. runPc[e] \in {"idle", "seed"}
    <2>1. ASSUME NEW f \in Exec, CreateExecution(f) \/ RunStep(f) PROVE runPc[e] \in {"idle", "seed"}
      BY <2>1 DEF CreateExecution, RunStep, SaveSeed, EnqueueRun, TypeOK, CallerType
    <2>2. ASSUME NEW i \in Inst, Crash(i) PROVE runPc[e] \in {"idle", "seed"}
      BY <2>2 DEF Crash
    <2>3. ASSUME \/ \E z \in Resumer : (\E f \in Exec : LoadForResume(z, f)) \/ ResumeStep(z)
                 \/ \E i \in Inst : RecoveryStep(i)
                 \/ \E w \in Worker : WorkerStep(w) \/ WorkerFault(w)
                 \/ UNCHANGED vars
          PROVE  UNCHANGED runPc
      BY <2>3 DEF LoadForResume, ResumeStep, ClaimWaiting, SaveResumed, EnqueueResumed,
         RecoveryStep, ListRunning, FailStaleSteps, EnqueueRecovered, WorkerStep, WorkerFault,
         Take, Load, PruneNode, UnknownType, StartStep, ExecuteReturns, ExecuteFails, FinishStep,
         SaveState, SetWaiting, FinishExecution, Release, DriveStoreError, FinishStepIgnored,
         LoadWorkflowError, OthersUnchanged, vars
    <2> QED
      BY <2>1, <2>2, <2>3 DEF Next
  <1>2. ~Resumed(e) /\ ~Worked(e)
    <2>1. CASE runPc[e] = "idle"
      BY <2>1 DEF FreshHasNoRow, HandInv, Held
    <2>2. CASE runPc[e] = "seed"
      BY <2>2 DEF HandInv, OneHand, Requested
    <2> QED
      BY <1>1, <2>1, <2>2
  <1>3. SeedState.visited = {}
    BY DEF SeedState
  <1> QED
    BY <1>1, <1>2, <1>3, StateWriter DEF Unseeded

LEMMA CurrentStep ==
  ASSUME OneResumer, HandedInv, [Next]_vars, NEW z \in Resumer, Current(z)
  PROVE  Current(z)'
  <1> USE DEF HandedInv, DriveInv, TypeOK, CallerType
  <1>1. ASSUME NEW e \in Exec, LoadForResume(z, e) PROVE Current(z)'
    BY <1>1 DEF LoadForResume, Current, rowVars
  <1>2. ASSUME ~\E e \in Exec : LoadForResume(z, e), zPc'[z] \in {"claim", "save"}
        PROVE  /\ zExec'[z] = zExec[z] /\ zNode'[z] = zNode[z] /\ zState'[z] = zState[z]
               /\ zPc[z] \in {"claim", "save"} /\ (zPc'[z] = "claim" => zPc[z] = "claim")
    <2>1. CASE ResumeStep(z)
      BY <1>2, <2>1 DEF ResumeStep, ClaimWaiting, SaveResumed, EnqueueResumed, ResetResumer
    <2>2. CASE UNCHANGED resumeVars
      BY <1>2, <2>2 DEF resumeVars
    <2>3. ASSUME NEW i \in Inst, Crash(i)
          PROVE  /\ zExec'[z] = zExec[z] /\ zNode'[z] = zNode[z] /\ zState'[z] = zState[z]
                 /\ zPc[z] \in {"claim", "save"} /\ (zPc'[z] = "claim" => zPc[z] = "claim")
      BY <1>2, <2>3 DEF Crash
    <2>4. ASSUME \/ \E e \in Exec : CreateExecution(e) \/ RunStep(e)
                 \/ \E w \in Worker : WorkerStep(w) \/ WorkerFault(w)
                 \/ \E i \in Inst : RecoveryStep(i)
          PROVE  UNCHANGED resumeVars
      BY <2>4 DEF CreateExecution, RunStep, SaveSeed, EnqueueRun, RecoveryStep, ListRunning,
         FailStaleSteps, EnqueueRecovered, WorkerStep, WorkerFault, Take, Load, PruneNode,
         UnknownType, StartStep, ExecuteReturns, ExecuteFails, FinishStep, SaveState, SetWaiting,
         FinishExecution, Release, DriveStoreError, FinishStepIgnored, LoadWorkflowError,
         OthersUnchanged
    <2> QED
      BY <1>2, <2>1, <2>2, <2>3, <2>4 DEF Next, vars, OneResumer
  <1>3. ASSUME ~\E e \in Exec : LoadForResume(z, e), zPc'[z] \in {"claim", "save"}
        PROVE  Current(z)'
    <2> DEFINE e == zExec[z]
    <2>1. e \in Exec /\ zExec'[z] = e /\ saved[e] = zState[z] /\ waitingAt[e] = zNode[z]
      BY <1>2, <1>3 DEF Current
    <2>2. CASE zPc[z] = "claim"
      <3>1. status[e] = "waiting"
        BY <2>2 DEF Current
      <3>2. saved'[e] = saved[e] /\ waitingAt'[e] = waitingAt[e]
            /\ (status'[e] = "waiting" \/ zPc'[z] = "save")
        BY <2>1, <3>1, WaitingRests DEF OneResumer
      <3> QED
        BY <1>2, <1>3, <2>1, <3>2 DEF Current
    <2>3. CASE zPc[z] = "save"
      <3>1. Resumed(e)
        BY <2>3 DEF Resumed
      <3>2. ~Requested(e) /\ ~Worked(e)
        BY <2>1, <3>1 DEF HandInv, OneHand
      <3>3. saved'[e] = saved[e]
        <4> SUFFICES ASSUME saved'[e] # saved[e] PROVE FALSE
          OBVIOUS
        <4>1. PICK y \in Resumer : zPc' = [zPc EXCEPT ![y] = "enqueue"]
          BY <2>1, <3>2, StateWriter
        <4> QED
          BY <1>3, <4>1 DEF OneResumer
      <3>4. waitingAt'[e] = waitingAt[e]
        BY <2>1, <3>2, WaitingAtWriter
      <3> QED
        BY <1>2, <1>3, <2>1, <2>3, <3>3, <3>4 DEF Current
    <2> QED
      BY <1>2, <1>3, <2>2, <2>3
  <1> QED
    BY <1>1, <1>3 DEF Current

(* The state of a walk never shrinks within a drive.                       *)
LEMMA WalkGrows ==
  ASSUME TypeOK, [Next]_vars, NEW w \in Worker, wPc'[w] \in Walking
  PROVE  \/ /\ wPc[w] = "load" /\ wExec'[w] = wExec[w]
            /\ wState'[w].visited = saved[wExec[w]].visited /\ UNCHANGED saved
         \/ /\ wPc[w] \in Walking /\ wExec'[w] = wExec[w]
            /\ wState[w].visited \subseteq wState'[w].visited
  <1> USE DEF TypeOK, WorkerType, GoTo, Walking
  <1>1. CASE Load(w)
    <2> DEFINE st == saved[wExec[w]]
    <2>1. wExec[w] \in Exec /\ st \in RunState
      BY <1>1 DEF Load, RowsType
    <2>2. [st EXCEPT !.trig = "default"].visited = st.visited
      BY <2>1 DEF RunState
    <2>3. wState' = [wState EXCEPT ![w] = IF st.trig = "null" THEN [st EXCEPT !.trig = "default"]
                                                               ELSE st]
      BY <1>1 DEF Load
    <2> QED
      BY <1>1, <2>2, <2>3 DEF Load
  <1>2. CASE PruneNode(w) \/ ExecuteReturns(w)
    <2>1. \/ wState'[w] = wState[w]
          \/ \E n, ready, out : Visit(w, n, ready, out)
      BY <1>2 DEF PruneNode, ExecuteReturns
    <2>2. wState[w].visited \subseteq wState'[w].visited
      BY <2>1, VisitState
    <2> QED
      BY <1>2, <2>2 DEF PruneNode, ExecuteReturns
  <1>3. CASE \/ Take(w) \/ UnknownType(w) \/ StartStep(w) \/ ExecuteFails(w) \/ FinishStep(w)
             \/ SaveState(w) \/ SetWaiting(w) \/ FinishExecution(w) \/ Release(w) \/ WorkerFault(w)
    BY <1>3 DEF Take, UnknownType, StartStep, ExecuteFails, FinishStep, AfterStep, SaveState,
       SetWaiting, FinishExecution, Release, WorkerFault, DriveStoreError, FinishStepIgnored,
       LoadWorkflowError
  <1>4. ASSUME NEW v \in Worker, v # w, WorkerStep(v) \/ WorkerFault(v)
        PROVE  wPc[w] \in Walking /\ wExec'[w] = wExec[w] /\ wState'[w] = wState[w]
    BY <1>4, OtherWorkers
  <1>5. ASSUME NEW i \in Inst, Crash(i)
        PROVE  wPc[w] \in Walking /\ wExec'[w] = wExec[w] /\ wState'[w] = wState[w]
    BY <1>5 DEF Crash
  <1>6. CASE UNCHANGED workerVars
    BY <1>6 DEF workerVars
  <1> QED
    BY <1>1, <1>2, <1>3, <1>4, <1>5, <1>6, CallersKeepClaims DEF Next, WorkerStep, vars

LEMMA AheadStep ==
  ASSUME SingleInstance, HandedInv, [Next]_vars, NEW w \in Worker, Ahead(w)
  PROVE  Ahead(w)'
  <1> USE DEF HandedInv, DriveInv
  <1> SUFFICES ASSUME wPc'[w] \in Walking
               PROVE  saved'[wExec'[w]].visited \subseteq wState'[w].visited
    BY DEF Ahead
  <1> DEFINE e == wExec[w]
  <1>1. CASE wPc[w] \notin Walking
    BY <1>1, WalkGrows
  <1>2. CASE wPc[w] \in Walking
    <2>1. e \in Exec /\ wExec'[w] = e /\ wState[w].visited \subseteq wState'[w].visited
      BY <1>2, WalkGrows DEF TypeOK, WorkerType, Walking
    <2>2. Worked(e)
      BY <1>2 DEF Worked, Walking
    <2>3. ~Requested(e) /\ ~Resumed(e)
      BY <2>1, <2>2 DEF HandInv, OneHand
    <2>4. saved'[e] = saved[e] \/ saved'[e] = wState[w]
      <3>1. ASSUME NEW v \in Worker, wExec[v] = e, wPc[v] \in {"saveState", "setWaiting"}
            PROVE  v = w
        BY <1>2, <2>1, <3>1, EngineAssumption
           DEF SingleInstance, ClaimsAreExclusive, Owns, Walking
      <3> QED
        BY <2>1, <2>3, <3>1, StateWriter
    <2> QED
      BY <1>2, <2>1, <2>4 DEF Ahead
  <1> QED
    BY <1>1, <1>2

CheckedInv == WalkedInv /\ CheckInv

LEMMA CheckInvariant ==
  ASSUME Orderly, OneResumer
  PROVE  Spec => []CheckedInv
  <1>1. Init => CheckInv
    BY DEF Init, CheckInv, Unseeded, NullState, Current, Ahead, Walking
  <1>2. WalkedInv /\ WalkedInv' /\ CheckedInv /\ [Next]_vars => CheckedInv'
    BY UnseededStep, CurrentStep, AheadStep DEF CheckedInv, CheckInv, WalkedInv, Orderly
  <1>3. Init /\ WalkedInv => CheckedInv
    BY <1>1 DEF CheckedInv
  <1> QED
    BY <1>2, <1>3, WalkInvariant, PTL DEF Spec

(* A write of the state adds visits and drops none.                        *)
LEMMA StateGrows ==
  ASSUME CheckedInv, [Next]_vars, NEW e \in Exec
  PROVE  saved[e].visited \subseteq saved'[e].visited
  <1> USE DEF CheckedInv, CheckInv, WalkedInv, HandedInv, DriveInv
  <1>1. CASE saved'[e] = saved[e]
    BY <1>1
  <1>2. CASE runPc[e] = "seed"
    BY <1>2 DEF Unseeded
  <1>3. ASSUME NEW z \in Resumer, zExec[z] = e, zPc[z] = "save",
               saved'[e] = WithPayload(zState[z], zNode[z])
        PROVE  saved[e].visited \subseteq saved'[e].visited
    <2>1. saved[e] = zState[z] /\ zState[z] \in RunState
      BY <1>3 DEF Current, TypeOK, CallerType
    <2> QED
      BY <1>3, <2>1 DEF WithPayload, RunState
  <1>4. ASSUME NEW w \in Worker, wExec[w] = e, wPc[w] \in {"saveState", "setWaiting"},
               saved'[e] = wState[w]
        PROVE  saved[e].visited \subseteq saved'[e].visited
    BY <1>4 DEF Ahead, Walking
  <1> QED
    BY <1>1, <1>2, <1>3, <1>4, StateWriter

(* With one instance, requests after the list and one caller of Resume at  *)
(* a time, no write undoes the visit of a node.                            *)
THEOREM CheckpointsOnlyGrow ==
  ASSUME Orderly, OneResumer
  PROVE  Spec => CheckpointsGrow
  <1>1. CheckedInv /\ [Next]_vars
          => [\A e \in Exec : saved[e].visited \subseteq saved'[e].visited]_vars
    BY StateGrows
  <1> QED
    BY <1>1, CheckInvariant, PTL DEF Spec, CheckpointsGrow

(* Under the same conditions a caller claims the suspension it has loaded. *)
THEOREM ClaimsWhatItLoaded ==
  ASSUME Orderly, OneResumer
  PROVE  Spec => ResumesItsSuspension
  <1>1. CheckedInv /\ [Next]_vars
          => [\A z \in Resumer : zPc[z] = "claim" /\ zPc'[z] = "save" =>
                zNode[z] = waitingAt[zExec[z]]]_vars
    BY DEF CheckedInv, CheckInv, Current
  <1> QED
    BY <1>1, CheckInvariant, PTL DEF Spec, ResumesItsSuspension

-----------------------------------------------------------------------------
(* One start of a node per life of the instance                            *)

(* The execution is over, or nobody will go on with it before the next     *)
(* start of the instance.                                                  *)
Stopped(e) ==
    \/ status[e] \in Terminal
    \/ /\ status[e] = "running" /\ ~Held(e)
       /\ \A i \in Inst : rcPc[i] # "list"

(* A suspension at n, until the payload has become the output of n.        *)
SuspendedAt(e, n) ==
    /\ waitingAt[e] = n
    /\ status[e] = "waiting" \/ \E z \in Resumer : zExec[z] = e /\ zPc[z] = "save"

(* The walk of a driver is past n, at n, or about to fail.                 *)
PassedBy(w, n) ==
    \/ wPc[w] \in Walking /\ n \in wState[w].visited
    \/ wPc[w] \in AtNode /\ wNode[w] = n
    \/ wPc[w] \in {"failStep", "failExec"}

(* Node n will not start before the next crash.                            *)
Spent(e, n) ==
    \/ n \in saved[e].visited
    \/ Stopped(e)
    \/ SuspendedAt(e, n)
    \/ \E w \in Worker : wExec[w] = e /\ PassedBy(w, n)

StartsInv ==
    \A e \in Exec, n \in Node : /\ starts[e][n] <= 1 + crashes
                                /\ ~Spent(e, n) => starts[e][n] <= crashes

(* A stopped execution stays so until a crash.                             *)
LEMMA StoppedStays ==
  ASSUME Orderly, HandedInv, [Next]_vars, NEW e \in Exec, Stopped(e), ~\E i \in Inst : Crash(i)
  PROVE  Stopped(e)'
  <1> USE DEF HandedInv, DriveInv, Orderly
  <1>1. CASE status[e] \in Terminal
    BY <1>1, DriveStep DEF Stopped
  <1>2. CASE status[e] = "running" /\ ~Held(e) /\ \A i \in Inst : rcPc[i] # "list"
    <2>1. ~Held(e)'
      BY <1>2, HandStep DEF NewHands
    <2>2. \A i \in Inst : rcPc'[i] # "list"
      <3>1. ASSUME NEW i \in Inst, RecoveryStep(i) PROVE \A j \in Inst : rcPc'[j] # "list"
        BY <1>2, <3>1 DEF RecoveryStep, ListRunning, FailStaleSteps, EnqueueRecovered, TypeOK,
           QueueType
      <3>2. ASSUME \/ \E f \in Exec : CreateExecution(f) \/ RunStep(f)
                   \/ \E z \in Resumer : (\E f \in Exec : LoadForResume(z, f)) \/ ResumeStep(z)
                   \/ \E w \in Worker : Take(w)
                   \/ UNCHANGED vars
            PROVE  UNCHANGED rcPc
        BY <3>2 DEF CreateExecution, RunStep, SaveSeed, EnqueueRun, LoadForResume, ResumeStep,
           ClaimWaiting, SaveResumed, EnqueueResumed, Take, rcVars, vars
      <3>3. ASSUME NEW w \in Worker, Midway(w) \/ Release(w) PROVE UNCHANGED rcPc
        BY <3>3, DriveSparesHands DEF SameList
      <3> QED
        BY <1>2, <3>1, <3>2, <3>3 DEF Next, WorkerStep, Midway
    <2>3. status'[e] = "running"
      <3>1. ~Worked(e)
        BY <1>2 DEF Held
      <3>2. ASSUME NEW w \in Worker, SetWaiting(w) \/ FinishExecution(w)
            PROVE  status'[e] = "running"
        <4>1. wExec[w] # e
          BY <3>1, <3>2 DEF SetWaiting, FinishExecution, Worked
        <4> QED
          BY <1>2, <3>2, <4>1 DEF SetWaiting, FinishExecution, TypeOK, RowsType
      <3>3. ASSUME NEW f \in Exec, CreateExecution(f) \/ StatusWrite(f, {"waiting"}, {"running"})
            PROVE  status'[e] = "running"
        BY <1>2, <3>3 DEF CreateExecution, StatusWrite, TypeOK, RowsType
      <3> QED
        BY <1>2, <3>2, <3>3, StatusWrites
    <2> QED
      BY <2>1, <2>2, <2>3 DEF Stopped
  <1> QED
    BY <1>1, <1>2 DEF Stopped

(* A drive that ends without a word in the row stops the execution.        *)
LEMMA DropStops ==
  ASSUME Orderly, HandedInv, NEW w \in Worker, Midway(w), NEW e \in Exec, e = wExec[w],
         wPc[w] \in Driving, wPc'[w] = "release", UNCHANGED status
  PROVE  Stopped(e)'
  <1> USE DEF HandedInv, DriveInv
  <1>1. /\ SameRun /\ SameList /\ SameQueue /\ SameResumes
        /\ UNCHANGED wExec /\ \E pc \in WorkerPcs : wPc' = [wPc EXCEPT ![w] = pc]
    BY DriveSparesHands, MidwayKeepsClaims
  <1>2. Worked(e)
    BY DEF Worked, Driving
  <1>3. ~Worked(e)'
    <2>1. \A v \in Worker : wExec[v] = e /\ wPc[v] \notin {"idle", "release"} => v = w
      BY EngineAssumption DEF Orderly, SingleInstance, ClaimsAreExclusive, Owns, Driving
    <2> QED
      BY <1>1, <2>1 DEF Worked, TypeOK, WorkerType
  <1>4. ~Held(e)'
    BY <1>1, <1>2, <1>3, SameHands DEF HandInv, OneHand, Held
  <1>5. status[e] = "running" /\ \A i \in Inst : rcPc'[i] # "list"
    BY <1>1, <1>2 DEF HandInv, Held, QuietAtList, SameList
  <1> QED
    BY <1>4, <1>5 DEF Stopped

(* So does a caller of Resume whose SaveState fails.                       *)
LEMMA SuspensionStays ==
  ASSUME Orderly, OneResumer, CheckedInv, [Next]_vars, NEW e \in Exec, NEW n,
         SuspendedAt(e, n), ~\E i \in Inst : Crash(i)
  PROVE  Spent(e, n)'
  <1> USE DEF CheckedInv, CheckInv, WalkedInv, HandedInv, DriveInv
  <1>1. CASE status[e] = "waiting"
    <2>1. waitingAt'[e] = n
      BY <1>1, WaitingRests DEF SuspendedAt
    <2>2. \/ status'[e] = "waiting"
          \/ \E z \in Resumer : zExec'[z] = e /\ zPc'[z] = "save"
      BY <1>1, WaitingRests DEF TypeOK, CallerType
    <2> QED
      BY <2>1, <2>2 DEF Spent, SuspendedAt
  <1>2. ASSUME NEW z \in Resumer, zExec[z] = e, zPc[z] = "save" PROVE Spent(e, n)'
    <2>1. Resumed(e) /\ waitingAt[e] = n /\ zNode[z] = n
      BY <1>2 DEF Resumed, SuspendedAt, Current
    <2>2. ~Worked(e) /\ Held(e) /\ status[e] = "running"
      BY <2>1 DEF HandInv, OneHand, Held
    <2>3. waitingAt'[e] = n
      BY <2>1, <2>2, WaitingAtWriter
    <2>4. CASE SaveResumed(z)
      <3>1. CASE saved' = [saved EXCEPT ![zExec[z]] = WithPayload(zState[z], zNode[z])]
        <4>1. saved'[e] = WithPayload(zState[z], n) /\ zState[z] \in RunState
          BY <1>2, <2>1, <3>1 DEF TypeOK, RowsType, CallerType
        <4> QED
          BY <4>1 DEF Spent, WithPayload, RunState
      <3>2. CASE ResetResumer(z)
        <4>1. SameRun /\ SameList /\ SameQueue /\ SameWorkers /\ UNCHANGED status
          BY <2>4 DEF SaveResumed, rcVars, workerVars, SameRun, SameList, SameQueue, SameWorkers
        <4>2. ~Resumed(e)'
          BY <3>2 DEF ResetResumer, Resumed, OneResumer, TypeOK, CallerType
        <4>3. ~Held(e)'
          BY <2>1, <4>1, <4>2, SameHands DEF HandInv, OneHand, Held
        <4>4. \A i \in Inst : rcPc'[i] # "list"
          BY <2>2, <4>1 DEF HandInv, QuietAtList, SameList
        <4> QED
          BY <2>2, <4>1, <4>3, <4>4 DEF Spent, Stopped
      <3> QED
        BY <2>4, <3>1, <3>2 DEF SaveResumed
    <2>5. CASE ~SaveResumed(z)
      <3>1. ASSUME \/ \E f \in Exec : CreateExecution(f) \/ RunStep(f)
                   \/ \E i \in Inst : RecoveryStep(i)
                   \/ \E w \in Worker : Take(w)
                   \/ UNCHANGED vars
            PROVE  UNCHANGED resumeVars
        BY <3>1 DEF CreateExecution, RunStep, SaveSeed, EnqueueRun, RecoveryStep, ListRunning,
           FailStaleSteps, EnqueueRecovered, Take, vars
      <3>2. ASSUME NEW y \in Resumer, (\E f \in Exec : LoadForResume(y, f)) \/ ResumeStep(y)
            PROVE  FALSE
        BY <1>2, <2>5, <3>2 DEF OneResumer, LoadForResume, ResumeStep, ClaimWaiting, EnqueueResumed
      <3>3. UNCHANGED resumeVars
        BY <3>1, <3>2, DriveSparesHands DEF Next, WorkerStep, Midway
      <3> QED
        BY <1>2, <2>3, <3>3 DEF Spent, SuspendedAt, resumeVars
    <2> QED
      BY <2>4, <2>5
  <1> QED
    BY <1>1, <1>2 DEF SuspendedAt

(* What a driver has passed is in a checkpoint, or a suspension, or the    *)
(* drive has failed, when the drive ends.                                  *)
LEMMA PassageStays ==
  ASSUME Orderly, CheckedInv, [Next]_vars, NEW e \in Exec, NEW n, NEW w \in Worker,
         wExec[w] = e, PassedBy(w, n), ~\E i \in Inst : Crash(i)
  PROVE  Spent(e, n)'
  <1> USE DEF CheckedInv, WalkedInv, HandedInv, DriveInv
  <1>0. wPc[w] \in Driving /\ wPc[w] \notin {"idle", "load", "release"}
    BY DEF PassedBy, Walking, AtNode, Driving, WorkerPcs
  <1>1. CASE UNCHANGED workerVars
    BY <1>1 DEF Spent, PassedBy, workerVars
  <1>2. CASE \E v \in Worker : v # w /\ (WorkerStep(v) \/ WorkerFault(v))
    BY <1>2, OtherWorkers DEF Spent, PassedBy
  <1>3. CASE WorkerStep(w) \/ WorkerFault(w)
    <2>1. Midway(w)
      BY <1>0, <1>3 DEF WorkerStep, Midway, Take, Release
    <2>2. wExec'[w] = e
      BY <2>1, MidwayKeepsClaims
    <2>3. CASE SetWaiting(w)
      <3>1. /\ saved'[e] = wState[w] /\ status'[e] = "waiting" /\ waitingAt'[e] = wNode[w]
            /\ wPc[w] = "setWaiting"
        BY <2>3 DEF SetWaiting, TypeOK, RowsType
      <3>2. n \in wState[w].visited \/ wNode[w] = n
        BY <3>1 DEF PassedBy
      <3> QED
        BY <3>1, <3>2 DEF Spent, SuspendedAt
    <2>4. CASE FinishExecution(w)
      BY <2>4 DEF FinishExecution, Spent, Stopped, Terminal, TypeOK, RowsType
    <2>5. CASE ~(SetWaiting(w) \/ FinishExecution(w)) /\ wPc'[w] = "release"
      <3>1. UNCHANGED status
        BY <2>1, <2>5 DEF Midway, Load, PruneNode, UnknownType, StartStep, ExecuteReturns,
           ExecuteFails, FinishStep, SaveState, WorkerFault, DriveStoreError, FinishStepIgnored,
           LoadWorkflowError
      <3> QED
        BY <1>0, <2>1, <2>5, <3>1, DropStops DEF Spent
    <2>6. CASE wPc'[w] \in {"failStep", "failExec"}
      BY <2>2, <2>6 DEF Spent, PassedBy
    <2>7. CASE wPc'[w] \in Walking
      <3>1. CASE wPc[w] \in Walking /\ n \in wState[w].visited
        BY <1>0, <2>2, <2>7, <3>1, WalkGrows DEF Spent, PassedBy
      <3>2. CASE wPc[w] \in AtNode /\ wNode[w] = n
        <4>1. CASE wPc[w] = "exec" /\ wNode[w] \notin WaitNodes /\ ExecuteReturns(w)
          <5>1. PICK ready, out : Visit(w, n, ready, out)
            BY <3>2, <4>1 DEF ExecuteReturns
          <5>2. TypeOK
            OBVIOUS
          <5>3. wState'[w].visited = wState[w].visited \cup {n}
            BY <5>1, <5>2, VisitState
          <5> QED
            BY <2>2, <2>7, <5>3 DEF Spent, PassedBy
        <4>2. CASE ~(wPc[w] = "exec" /\ wNode[w] \notin WaitNodes /\ ExecuteReturns(w))
          <5>1. wPc'[w] \in AtNode /\ wNode'[w] = wNode[w]
            BY <2>1, <2>7, <3>2, <4>2
               DEF Midway, Load, PruneNode, UnknownType, StartStep, ExecuteReturns, ExecuteFails,
                   FinishStep, AfterStep, SaveState, SetWaiting, FinishExecution, WorkerFault,
                   DriveStoreError, FinishStepIgnored, LoadWorkflowError, GoTo, Walking, AtNode,
                   TypeOK, WorkerType
          <5> QED
            BY <2>2, <3>2, <5>1 DEF Spent, PassedBy
        <4> QED
          BY <4>1, <4>2
      <3>3. CASE wPc[w] \in {"failStep", "failExec"}
        BY <2>1, <2>7, <3>3
           DEF Midway, Load, PruneNode, UnknownType, StartStep, ExecuteReturns, ExecuteFails,
               FinishStep, AfterStep, SaveState, SetWaiting, FinishExecution, WorkerFault,
               DriveStoreError, FinishStepIgnored, LoadWorkflowError, GoTo, Walking, TypeOK,
               WorkerType
      <3> QED
        BY <3>1, <3>2, <3>3 DEF PassedBy
    <2>8. wPc'[w] \in Walking \cup {"failStep", "failExec", "release"}
      BY <1>0, <2>1
         DEF Midway, Load, PruneNode, UnknownType, StartStep, ExecuteReturns, ExecuteFails,
             FinishStep, AfterStep, SaveState, SetWaiting, FinishExecution, WorkerFault,
             DriveStoreError, FinishStepIgnored, LoadWorkflowError, GoTo, Walking, TypeOK,
             WorkerType
    <2> QED
      BY <2>3, <2>4, <2>5, <2>6, <2>7, <2>8
  <1> QED
    BY <1>1, <1>2, <1>3, CallersKeepClaims DEF Next, vars

LEMMA SpentStays ==
  ASSUME Orderly, OneResumer, CheckedInv, [Next]_vars, ~\E i \in Inst : Crash(i),
         NEW e \in Exec, NEW n, Spent(e, n)
  PROVE  Spent(e, n)'
  <1>1. CASE n \in saved[e].visited
    BY <1>1, StateGrows DEF Spent
  <1>2. CASE Stopped(e)
    BY <1>2, StoppedStays DEF Spent, CheckedInv, WalkedInv
  <1>3. CASE SuspendedAt(e, n)
    BY <1>3, SuspensionStays
  <1>4. ASSUME NEW w \in Worker, wExec[w] = e, PassedBy(w, n) PROVE Spent(e, n)'
    BY <1>4, PassageStays
  <1> QED
    BY <1>1, <1>2, <1>3, <1>4 DEF Spent

(* The node a worker starts was not spent.                                 *)
LEMMA StartedWasDue ==
  ASSUME Orderly, CheckedInv, NEW w \in Worker, wPc[w] = "pick", NEW n \in wReady[w],
         NEW e \in Exec, wExec[w] = e
  PROVE  ~Spent(e, n)
  <1> USE DEF CheckedInv, CheckInv, WalkedInv, HandedInv, DriveInv
  <1>1. n \notin wState[w].visited /\ n \notin saved[e].visited
    BY DEF WalkInv, WalkerSound, Walking, Due, Ahead
  <1>2. Worked(e) /\ Held(e) /\ status[e] = "running"
    BY DEF Worked, Held, HandInv
  <1>3. ~Stopped(e) /\ ~SuspendedAt(e, n)
    BY <1>2 DEF Stopped, SuspendedAt, Terminal, HandInv, OneHand, Resumed
  <1>4. ASSUME NEW v \in Worker, wExec[v] = e, PassedBy(v, n) PROVE FALSE
    <2>1. v = w
      BY <1>4, EngineAssumption DEF Orderly, SingleInstance, ClaimsAreExclusive, Owns, PassedBy,
         Walking, AtNode
    <2> QED
      BY <1>1, <1>4, <2>1 DEF PassedBy, AtNode
  <1> QED
    BY <1>1, <1>3, <1>4 DEF Spent

LEMMA StartsStep ==
  ASSUME Orderly, OneResumer, CheckedInv, StartsInv, [Next]_vars
  PROVE  StartsInv'
  <1> USE DEF CheckedInv, WalkedInv, HandedInv, DriveInv
  <1> SUFFICES ASSUME NEW e \in Exec, NEW n \in Node
               PROVE  /\ starts'[e][n] <= 1 + crashes'
                      /\ ~Spent(e, n)' => starts'[e][n] <= crashes'
    BY DEF StartsInv
  <1>0. /\ starts[e][n] \in Nat /\ crashes \in Nat
        /\ starts[e][n] <= 1 + crashes
        /\ ~Spent(e, n) => starts[e][n] <= crashes
    BY EngineAssumption DEF StartsInv, TypeOK, RowsType
  <1>1. ASSUME NEW i \in Inst, Crash(i)
        PROVE  /\ starts'[e][n] <= 1 + crashes'
               /\ ~Spent(e, n)' => starts'[e][n] <= crashes'
    BY <1>0, <1>1 DEF Crash
  <1>2. ASSUME NEW w \in Worker, StartStep(w)
        PROVE  /\ starts'[e][n] <= 1 + crashes'
               /\ ~Spent(e, n)' => starts'[e][n] <= crashes'
    <2>1. ~\E i \in Inst : Crash(i)
      <3>1. crashes' = crashes
        BY <1>2 DEF StartStep, OthersUnchanged
      <3>2. ASSUME NEW i \in Inst, Crash(i) PROVE crashes' = crashes + 1
        BY <3>2 DEF Crash
      <3> QED
        BY <1>0, <3>1, <3>2
    <2>2. PICK m \in wReady[w] :
             /\ starts' = [starts EXCEPT ![wExec[w]][m] = IF @ < MaxStarts THEN @ + 1 ELSE @]
             /\ wNode' = [wNode EXCEPT ![w] = m]
      BY <1>2 DEF StartStep
    <2>3. /\ UNCHANGED <<crashes, wExec>> /\ wPc[w] = "pick" /\ wPc'[w] = "exec"
          /\ wExec[w] \in Exec /\ m \in Node
      BY <1>2, <2>2 DEF StartStep, OthersUnchanged, GoTo, TypeOK, WorkerType
    <2>4. CASE wExec[w] = e /\ m = n
      <3>1. starts[e][n] <= crashes
        BY <1>0, <2>2, <2>3, <2>4, StartedWasDue
      <3>2. starts'[e][n] = IF starts[e][n] < MaxStarts THEN starts[e][n] + 1 ELSE starts[e][n]
        BY <2>2, <2>4 DEF TypeOK, RowsType
      <3>3. Spent(e, n)'
        BY <2>2, <2>3, <2>4 DEF Spent, PassedBy, AtNode, TypeOK, WorkerType
      <3>4. starts'[e][n] <= 1 + crashes
        BY <1>0, <3>1, <3>2
      <3> QED
        BY <2>3, <3>3, <3>4
    <2>5. CASE ~(wExec[w] = e /\ m = n)
      <3>1. starts'[e][n] = starts[e][n]
        BY <2>2, <2>3, <2>5 DEF TypeOK, RowsType
      <3> QED
        BY <1>0, <2>1, <2>3, <3>1, SpentStays
    <2> QED
      BY <2>4, <2>5
  <1>3. CASE ~(\E i \in Inst : Crash(i)) /\ ~(\E w \in Worker : StartStep(w))
    <2>1. UNCHANGED <<starts, crashes>>
      BY <1>3 DEF Next, vars, rowVars, boundVars, CreateExecution, RunStep, SaveSeed, EnqueueRun,
         LoadForResume, ResumeStep, ClaimWaiting, SaveResumed, EnqueueResumed, RecoveryStep,
         ListRunning, FailStaleSteps, EnqueueRecovered, WorkerStep, WorkerFault, Take, Load,
         PruneNode, UnknownType, ExecuteReturns, ExecuteFails, FinishStep, SaveState, SetWaiting,
         FinishExecution, Release, DriveStoreError, FinishStepIgnored, LoadWorkflowError,
         OthersUnchanged
    <2> QED
      BY <1>0, <1>3, <2>1, SpentStays
  <1> QED
    BY <1>1, <1>2, <1>3

(* Under the conditions of CheckpointsOnlyGrow a node starts at most once  *)
(* more per crash, whatever store errors there are.                        *)
THEOREM RerunsNeedCrashes ==
  ASSUME Orderly, OneResumer
  PROVE  Spec => []RerunOnlyAfterCrash
  <1>1. Init => StartsInv
    BY DEF Init, StartsInv
  <1>2. StartsInv => RerunOnlyAfterCrash
    BY DEF StartsInv, RerunOnlyAfterCrash
  <1>3. CheckedInv /\ StartsInv /\ [Next]_vars => StartsInv'
    BY StartsStep
  <1> QED
    BY <1>1, <1>2, <1>3, CheckInvariant, PTL DEF Spec

-----------------------------------------------------------------------------
(* The executor implements Execution                                       *)

(* The two modules speak of one graph.                                     *)
LEMMA SameGraph ==
  /\ Lifecycle!Node = Node
  /\ \A visited : Lifecycle!Closed(visited) <=> Closed(visited)
  <1>1. Lifecycle!Node = Node
    BY DEF Lifecycle!Node, Node
  <1>2. Lifecycle!FindTrigger = FindTrigger
    BY <1>1 DEF Lifecycle!FindTrigger, FindTrigger, Lifecycle!FirstIn, FirstIn, Lifecycle!Roots,
       Roots, Lifecycle!Incoming, Incoming
  <1>3. \A n : Lifecycle!Sources(n) = Sources(n)
    BY DEF Lifecycle!Sources, Sources, Lifecycle!Incoming, Incoming
  <1> QED
    BY <1>1, <1>2, <1>3 DEF Lifecycle!Closed, Closed

(* The checkpoints of the executor as the abstract module sees them.       *)
Done == [e \in Exec |-> saved[e].visited]

LEMMA DoneChange ==
  ASSUME TypeOK, NEW e \in Exec, NEW st, saved' = [saved EXCEPT ![e] = st]
  PROVE  Done' = [Done EXCEPT ![e] = st.visited]
  BY DEF Done, TypeOK, RowsType

LEMMA Implementation ==
  ASSUME Orderly, OneResumer, CheckedInv, CheckedInv', [Next]_vars
  PROVE  Lifecycle!Next \/ UNCHANGED <<status, Done, waitingAt>>
  <1> DEFINE Goal == Lifecycle!Next \/ UNCHANGED <<status, Done, waitingAt>>
  <1> USE DEF CheckedInv, CheckInv, WalkedInv, HandedInv, DriveInv
  <1>0. ASSUME NEW e \in Exec,
               \/ Lifecycle!Create(e) \/ Lifecycle!Checkpoint(e) \/ Lifecycle!Suspend(e)
               \/ Lifecycle!Resume(e)
               \/ \E result \in {"success", "error"} : Lifecycle!Finish(e, result)
        PROVE  Lifecycle!Next
    BY <1>0 DEF Lifecycle!Next
  <1>1. ASSUME NEW e \in Exec, CreateExecution(e) PROVE Goal
    <2>1. Lifecycle!Create(e)
      BY <1>1 DEF CreateExecution, FreshHasNoRow, Lifecycle!Create
    <2> QED
      BY <1>0, <2>1
  <1>2. ASSUME NEW z \in Resumer, ClaimWaiting(z) PROVE Goal
    <2>1. PICK e \in Exec : e = zExec[z]
      BY <1>2 DEF ClaimWaiting, TypeOK, CallerType
    <2>2. CASE UNCHANGED status
      BY <1>2, <2>2 DEF ClaimWaiting, Done
    <2>3. CASE ~UNCHANGED status
      <3>1. Lifecycle!Resume(e)
        BY <1>2, <2>1, <2>3 DEF ClaimWaiting, Lifecycle!Resume, ResetResumer
      <3> QED
        BY <1>0, <3>1
    <2> QED
      BY <2>2, <2>3
  <1>3. ASSUME NEW w \in Worker, SetWaiting(w) PROVE Goal
    <2>1. PICK e, n, skipped : e = wExec[w] /\ n = wNode[w] /\ skipped = wState[w].visited
      OBVIOUS
    <2>2. /\ wPc[w] = "setWaiting" /\ e \in Exec /\ n \in Node /\ wState[w] \in RunState
          /\ status[e] = "running"
      BY <1>3, <2>1 DEF SetWaiting, TypeOK, WorkerType, DrivenIsRunning, Driving, WorkerPcs
    <2>3. /\ n \in WaitNodes /\ Due(n, skipped) /\ Sound(skipped)
          /\ saved[e].visited \subseteq skipped /\ skipped \in SUBSET Node
      BY <2>1, <2>2 DEF WalkInv, WalkerSound, Walking, AtHand, AtNode, Ahead, RunState
    <2>4. Done[e] \cup skipped = skipped
      BY <2>2, <2>3 DEF Done
    <2>5. n \notin skipped /\ Closed(skipped \cup {n})
      BY <2>3 DEF Due, Sound, Closed
    <2>6. /\ status' = [status EXCEPT ![e] = "waiting"]
          /\ waitingAt' = [waitingAt EXCEPT ![e] = n]
          /\ saved' = [saved EXCEPT ![e] = wState[w]]
      BY <1>3, <2>1 DEF SetWaiting
    <2>7. Done' = [Done EXCEPT ![e] = Done[e] \cup skipped]
      BY <2>1, <2>2, <2>4, <2>6, DoneChange
    <2>8. /\ n \notin Done[e] \cup skipped /\ skipped \in SUBSET Lifecycle!Node
          /\ Lifecycle!Closed(Done[e] \cup skipped \cup {n})
      BY <2>3, <2>4, <2>5, SameGraph
    <2>9. Lifecycle!Suspend(e)
      BY <2>2, <2>3, <2>6, <2>7, <2>8 DEF Lifecycle!Suspend, Done
    <2> QED
      BY <1>0, <2>2, <2>9
  <1>4. ASSUME NEW w \in Worker, FinishExecution(w) PROVE Goal
    <2>1. PICK e \in Exec : e = wExec[w]
      BY <1>4 DEF FinishExecution, TypeOK, WorkerType
    <2>2. PICK result \in {"success", "error"} : status' = [status EXCEPT ![e] = result]
      BY <1>4, <2>1 DEF FinishExecution
    <2>3. /\ status[e] = "running" /\ UNCHANGED saved
          /\ waitingAt' = [waitingAt EXCEPT ![e] = None]
      BY <1>4, <2>1 DEF FinishExecution, DrivenIsRunning, Driving, WorkerPcs
    <2>4. Lifecycle!Finish(e, result)
      BY <2>2, <2>3 DEF Lifecycle!Finish
    <2> QED
      BY <1>0, <2>4
  <1>5. ASSUME NEW e \in Exec, NEW st, saved' = [saved EXCEPT ![e] = st],
               status[e] = "running", UNCHANGED <<status, waitingAt>>
        PROVE  Goal
    <2> DEFINE new == st.visited \ saved[e].visited
    <2>1. saved'[e] = st /\ saved'[e] \in RunState
      BY <1>5 DEF TypeOK, RowsType
    <2>2. saved[e].visited \subseteq st.visited
      BY <2>1, StateGrows
    <2>3. Closed(st.visited) /\ st.visited \in SUBSET Node
      BY <2>1 DEF WalkInv, Sound, RunState
    <2>4. new \in SUBSET (Node \ saved[e].visited) /\ saved[e].visited \cup new = st.visited
      BY <2>2, <2>3
    <2>5. Done' = [Done EXCEPT ![e] = st.visited] /\ Done[e] = saved[e].visited
      BY <1>5, DoneChange DEF Done
    <2>6. Lifecycle!Checkpoint(e)
      BY <1>5, <2>3, <2>4, <2>5, SameGraph DEF Lifecycle!Checkpoint, Done
    <2> QED
      BY <1>0, <2>6
  <1>6. ASSUME NEW e \in Exec, SaveSeed(e) PROVE Goal
    <2>1. Requested(e) /\ status[e] = "running" /\ UNCHANGED <<status, waitingAt>>
      BY <1>6 DEF SaveSeed, Requested, HandInv, Held
    <2>2. CASE UNCHANGED saved
      BY <2>1, <2>2 DEF Done
    <2>3. CASE saved' = [saved EXCEPT ![e] = SeedState]
      BY <1>5, <2>1, <2>3
    <2> QED
      BY <1>6, <2>2, <2>3 DEF SaveSeed
  <1>7. ASSUME NEW z \in Resumer, SaveResumed(z) PROVE Goal
    <2>1. PICK e \in Exec : e = zExec[z]
      BY <1>7 DEF SaveResumed, TypeOK, CallerType
    <2>2. PICK st : st = WithPayload(zState[z], zNode[z])
      OBVIOUS
    <2>3. UNCHANGED <<status, waitingAt>> /\ zPc[z] = "save"
      BY <1>7 DEF SaveResumed
    <2>4. status[e] = "running"
      BY <2>1, <2>3 DEF Resumed, HandInv, Held
    <2>5. CASE UNCHANGED saved
      BY <2>3, <2>5 DEF Done
    <2>6. CASE saved' = [saved EXCEPT ![e] = st]
      BY <1>5, <2>3, <2>4, <2>6
    <2> QED
      BY <1>7, <2>1, <2>2, <2>5, <2>6 DEF SaveResumed
  <1>8. ASSUME NEW w \in Worker, SaveState(w) PROVE Goal
    <2>1. PICK e \in Exec : e = wExec[w]
      BY <1>8 DEF SaveState, TypeOK, WorkerType
    <2>2. PICK st : st = wState[w]
      OBVIOUS
    <2>3. /\ UNCHANGED <<status, waitingAt>> /\ status[e] = "running"
          /\ saved' = [saved EXCEPT ![e] = st]
      BY <1>8, <2>1, <2>2 DEF SaveState, OthersUnchanged, DrivenIsRunning, Driving, WorkerPcs
    <2> QED
      BY <1>5, <2>3
  <1>9. ASSUME \/ \E e \in Exec : EnqueueRun(e)
               \/ \E z \in Resumer : (\E e \in Exec : LoadForResume(z, e)) \/ EnqueueResumed(z)
               \/ \E w \in Worker : /\ WorkerStep(w) \/ WorkerFault(w)
                                    /\ ~(SetWaiting(w) \/ FinishExecution(w) \/ SaveState(w))
               \/ \E i \in Inst : RecoveryStep(i) \/ Crash(i)
               \/ UNCHANGED vars
        PROVE  UNCHANGED <<status, saved, waitingAt>>
    BY <1>9 DEF EnqueueRun, LoadForResume, EnqueueResumed, WorkerStep, WorkerFault, Take, Load,
       PruneNode, UnknownType, StartStep, ExecuteReturns, ExecuteFails, FinishStep, Release,
       DriveStoreError, FinishStepIgnored, LoadWorkflowError, RecoveryStep, ListRunning,
       FailStaleSteps, EnqueueRecovered, Crash, OthersUnchanged, vars, rowVars
  <1>10. UNCHANGED <<status, saved, waitingAt>> => Goal
    BY DEF Done
  <1> HIDE DEF CheckedInv, CheckInv, WalkedInv, HandedInv, DriveInv, Goal
  <1>11. Goal
    BY <1>1, <1>2, <1>3, <1>4, <1>6, <1>7, <1>8, <1>9, <1>10 DEF Next, RunStep, ResumeStep
  <1> QED
    BY <1>11 DEF Goal

(* Under the conditions of CheckpointsOnlyGrow the executor implements the *)
(* life of an execution row, step by step.                                 *)
THEOREM Refinement ==
  ASSUME Orderly, OneResumer
  PROVE  Spec => RefinesExecution
  <1>1. Init => Lifecycle!Init
    BY DEF Init, Lifecycle!Init, NullState
  <1>2. CheckedInv /\ CheckedInv' /\ [Next]_vars => [Lifecycle!Next]_(Lifecycle!execVars)
    BY Implementation DEF Lifecycle!execVars, Done
  <1> QED
    BY <1>1, <1>2, CheckInvariant, PTL DEF Spec, RefinesExecution, Lifecycle!Spec
=============================================================================
