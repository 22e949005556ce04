--------------------------- MODULE ShutdownProofs ---------------------------
(***************************************************************************)
(* The stop of the server, for any number of requests, firings, workers    *)
(* and restarts and any capacity of the job channel.                       *)
(***************************************************************************)
EXTENDS Shutdown, TLAPS

(* A step, by the goroutine that takes it.                                 *)
Handlers == \E r \in Request : Accept(r) \/ HandlerStep(r)
Firings  == (\E e \in Firing : SchedulerFires(e)) \/ SchedulerStep
Workers  == \E w \in Worker : WorkerStep(w) \/ WorkerStops(w)

LEMMA NextCases ==
  [Next]_vars <=> \/ Handlers \/ Firings \/ RecoveryStep \/ Workers
                  \/ Signal \/ MainStep \/ Restart \/ UNCHANGED vars
  BY DEF Next, Handlers, Firings, Workers

(* A goroutine holds a run exactly while its program counter says so.      *)
Holding ==
    /\ \A w \in Worker : wExec[w] = None <=> wPc[w] \in {"loop", "gone"}
    /\ rcExec = None <=> rcPc # "send"
    /\ sExec = None <=> sPc \notin {"seed", "send"}

(* Only a process whose context is cancelled is on its way to a restart.   *)
Stopping ==
    /\ cancelled => stops < MaxStops
    /\ mainPc # "serve" => cancelled

Typed == TypeOK /\ Holding /\ Stopping

-----------------------------------------------------------------------------
(* Typing                                                                  *)

(* A send leaves a channel of runs within its capacity.                    *)
LEMMA SendType ==
  ASSUME TypeOK, NEW e \in Exec, Send(e)
  PROVE  jobs' \in Seq(Exec) /\ Len(jobs') <= QueueCap
  BY ShutdownAssumption DEF TypeOK, Send, ShutdownAssumption

(* So does a receive, which yields a run.                                  *)
LEMMA ReceiveType ==
  ASSUME TypeOK, jobs # <<>>
  PROVE  Head(jobs) \in Exec /\ Tail(jobs) \in Seq(Exec) /\ Len(Tail(jobs)) <= QueueCap
  BY ShutdownAssumption DEF TypeOK, ShutdownAssumption

(* What a worker holds after a step fits its program counter.              *)
WorkersTyped ==
    /\ wPc \in [Worker -> {"loop", "load", "exec", "write", "fail", "gone"}]
    /\ wExec \in [Worker -> Exec \cup {None}]
    /\ \A w \in Worker : wExec[w] = None <=> wPc[w] \in {"loop", "gone"}

LEMMA SetWorkerTyped ==
  ASSUME WorkersTyped, NEW w \in Worker, NEW e \in Exec \cup {None},
         NEW pc \in {"loop", "load", "exec", "write", "fail", "gone"},
         e = None <=> pc \in {"loop", "gone"}, SetWorker(w, pc, e)
  PROVE  WorkersTyped'
<1> USE DEF WorkersTyped, SetWorker
<1>1. wPc' \in [Worker -> {"loop", "load", "exec", "write", "fail", "gone"}]
  OBVIOUS
<1>2. wExec' \in [Worker -> Exec \cup {None}]
  OBVIOUS
<1>3. ASSUME NEW v \in Worker PROVE wExec'[v] = None <=> wPc'[v] \in {"loop", "gone"}
  <2>1. CASE v = w
    BY <2>1
  <2>2. CASE v # w
    BY <2>2
  <2> QED
    BY <2>1, <2>2
<1> QED
  BY <1>1, <1>2, <1>3

LEMMA WorkerTyped ==
  ASSUME Typed, NEW w \in Worker, WorkerStep(w) \/ WorkerStops(w)
  PROVE  Typed'
<1>1. WorkersTyped
  BY DEF Typed, TypeOK, Holding, WorkersTyped
<1>2. None \notin Exec
  BY ShutdownAssumption DEF ShutdownAssumption
<1>3. wPc[w] \notin {"loop", "gone"} => wExec[w] \in Exec
  BY <1>1 DEF WorkersTyped
<1>4. WorkersTyped'
  <2>1. CASE Take(w)
    <3>1. CASE UNCHANGED workVars
      BY <1>1, <3>1 DEF workVars, WorkersTyped
    <3>2. CASE SetWorker(w, "load", Head(jobs))
      <4>1. Head(jobs) \in Exec
        BY <2>1, ReceiveType DEF Take, Typed
      <4> QED
        BY <1>1, <1>2, <3>2, <4>1, SetWorkerTyped
    <3> QED
      BY <2>1, <3>1, <3>2 DEF Take
  <2>2. CASE SetWorker(w, "loop", None) \/ SetWorker(w, "gone", None)
    BY <1>1, <1>2, <2>2, SetWorkerTyped
  <2>3. CASE /\ wPc[w] \notin {"loop", "gone"}
             /\ \E pc \in {"exec", "write", "fail"} : SetWorker(w, pc, wExec[w])
    BY <1>1, <1>2, <1>3, <2>3, SetWorkerTyped
  <2> QED
    BY <2>1, <2>2, <2>3 DEF WorkerStep, WorkerStops, Load, Execute, WriteOutcome
<1>5. jobs' \in Seq(Exec) /\ Len(jobs') <= QueueCap
  <2>1. CASE Take(w)
    BY <2>1, ReceiveType DEF Take, Typed
  <2> QED
    BY <2>1 DEF WorkerStep, WorkerStops, Load, Execute, WriteOutcome, Typed, TypeOK
<1>6. /\ status' \in [Exec -> {"none", "running", "success", "error"}]
      /\ effects' \in [Exec -> Nat]
      /\ failedOwn' \subseteq Exec
  <2>1. CASE Execute(w)
    BY <1>3, <2>1 DEF Execute, Typed, TypeOK
  <2>2. CASE WriteOutcome(w)
    BY <2>2 DEF WriteOutcome, WriteStatus, SetStatus, Typed, TypeOK
  <2>3. CASE UNCHANGED rowVars
    BY <2>3 DEF rowVars, Typed, TypeOK
  <2> QED
    BY <2>1, <2>2, <2>3 DEF WorkerStep, WorkerStops, Take, Load
<1>7. UNCHANGED <<stopVars, hPc, schedVars, rcVars>>
  BY DEF WorkerStep, WorkerStops, Take, Load, Execute, WriteOutcome
<1> QED
  BY <1>4, <1>5, <1>6, <1>7 DEF Typed, TypeOK, Holding, Stopping, WorkersTyped, stopVars, schedVars, rcVars

LEMMA HandlersTyped ==
  ASSUME Typed, Handlers
  PROVE  Typed'
<1> PICK r \in Request : Accept(r) \/ HandlerStep(r)
  BY DEF Handlers
<1> USE DEF Typed, TypeOK, Holding, Stopping, Exec
<1>1. CASE Accept(r)
  BY <1>1 DEF Accept, rowVars, stopVars, schedVars, rcVars, workVars
<1>2. CASE HandlerRun(r)
  BY <1>2 DEF HandlerRun, SetStatus, stopVars, schedVars, rcVars, workVars
<1>3. CASE HandlerSend(r)
  <2>1. jobs' \in Seq(Exec) /\ Len(jobs') <= QueueCap
    BY <1>3, SendType DEF HandlerSend
  <2> QED
    BY <1>3, <2>1 DEF HandlerSend, rowVars, stopVars, schedVars, rcVars, workVars
<1> QED
  BY <1>1, <1>2, <1>3 DEF HandlerStep

LEMMA SchedulerTyped ==
  ASSUME Typed, Firings
  PROVE  Typed'
<1> USE ShutdownAssumption DEF Typed, TypeOK, Holding, Stopping, Exec, ShutdownAssumption
<1>1. ASSUME NEW e \in Firing, SchedulerFires(e) PROVE Typed'
  BY <1>1 DEF SchedulerFires, SetStatus, stopVars, rcVars, workVars
<1>2. CASE SchedulerStops
  BY <1>2 DEF SchedulerStops, rowVars, stopVars, rcVars, workVars
<1>3. CASE SchedulerSeeds
  BY <1>3 DEF SchedulerSeeds, rowVars, stopVars, rcVars, workVars
<1>4. CASE SchedulerSend
  <2>1. jobs' \in Seq(Exec) /\ Len(jobs') <= QueueCap
    BY <1>4, SendType DEF SchedulerSend
  <2> QED
    BY <1>4, <2>1 DEF SchedulerSend, rowVars, stopVars, rcVars, workVars
<1> QED
  BY <1>1, <1>2, <1>3, <1>4 DEF Firings, SchedulerStep

LEMMA RecoveryTyped ==
  ASSUME Typed, RecoveryStep
  PROVE  Typed'
<1> USE ShutdownAssumption DEF Typed, TypeOK, Holding, Stopping, ShutdownAssumption
<1>1. CASE ListRunning
  BY <1>1 DEF ListRunning, Interrupted, rowVars, stopVars, schedVars, workVars
<1>2. CASE RecoverNext
  BY <1>2 DEF RecoverNext, rowVars, stopVars, schedVars, workVars
<1>3. CASE RecoverSend
  <2>1. jobs' \in Seq(Exec) /\ Len(jobs') <= QueueCap
    BY <1>3, SendType DEF RecoverSend
  <2> QED
    BY <1>3, <2>1 DEF RecoverSend, rowVars, stopVars, schedVars, workVars
<1> QED
  BY <1>1, <1>2, <1>3 DEF RecoveryStep

LEMMA MainTyped ==
  ASSUME Typed, Signal \/ MainStep \/ Restart
  PROVE  Typed'
<1> USE ShutdownAssumption DEF Typed, TypeOK, Holding, Stopping, ShutdownAssumption
<1>1. CASE Signal
  <2>1. cancelled' \in BOOLEAN
    BY <1>1, Zenon DEF Signal
  <2> QED
    BY <1>1, <2>1 DEF Signal, rowVars, schedVars, rcVars, workVars
<1>2. CASE MainStep
  <2>1. closed' \in BOOLEAN /\ cancelled' \in BOOLEAN
    BY <1>2, Zenon DEF MainStep, StopHttp, CloseJobs, DrainEngine, DrainScheduler
  <2> QED
    BY <1>2, <2>1 DEF MainStep, StopHttp, CloseJobs, DrainEngine, DrainScheduler, MainTo, MainPcs,
                      rowVars, schedVars, rcVars, workVars
<1>3. CASE Restart
  <2>1. closed' \in BOOLEAN /\ cancelled' \in BOOLEAN
    BY <1>3, Zenon DEF Restart
  <2> QED
    BY <1>3, <2>1 DEF Restart, MainTo, MainPcs, rowVars
<1> QED
  BY <1>1, <1>2, <1>3

LEMMA TypedInit == Init => Typed
<1> SUFFICES ASSUME Init PROVE Typed
  OBVIOUS
<1>1. closed \in BOOLEAN /\ cancelled \in BOOLEAN
  BY Zenon DEF Init
<1> QED
  BY <1>1, ShutdownAssumption DEF Init, Typed, TypeOK, Holding, Stopping, MainPcs, ShutdownAssumption

LEMMA TypedStep == Typed /\ [Next]_vars => Typed'
<1> SUFFICES ASSUME Typed, [Next]_vars PROVE Typed'
  OBVIOUS
<1>1. CASE UNCHANGED vars
  BY <1>1 DEF vars, rowVars, stopVars, schedVars, rcVars, workVars, Typed, TypeOK, Holding, Stopping
<1> QED
  BY <1>1, NextCases, HandlersTyped, SchedulerTyped, RecoveryTyped, WorkerTyped, MainTyped
     DEF Workers

(***************************************************************************)
(* Every variable keeps its type; the channel never holds more than its    *)
(* capacity.                                                               *)
(***************************************************************************)
THEOREM TypeCorrect == Spec => []TypeOK
<1>1. Typed => TypeOK
  BY DEF Typed
<1> QED
  BY <1>1, TypedInit, TypedStep, PTL DEF Spec

-----------------------------------------------------------------------------
(* main goes on only when those it waits for have stopped.                 *)
DrainedInOrder ==
    /\ mainPc \in {"drainScheduler", "exited"} =>
          rcPc = "gone" /\ \A w \in Worker : wPc[w] = "gone"
    /\ mainPc = "exited" => sPc = "gone"

LEMMA DrainStep ==
  ASSUME Typed, DrainedInOrder, [Next]_vars
  PROVE  DrainedInOrder'
<1> USE DEF DrainedInOrder
<1>1. CASE Handlers
  BY <1>1 DEF Handlers, Accept, HandlerStep, HandlerRun, HandlerSend,
              stopVars, schedVars, rcVars, workVars
<1>2. CASE Firings
  BY <1>2 DEF Firings, SchedulerFires, SchedulerStep, SchedulerStops, SchedulerSeeds,
              SchedulerSend, stopVars, rcVars, workVars
<1>3. CASE RecoveryStep
  BY <1>3 DEF RecoveryStep, ListRunning, RecoverNext, RecoverSend, stopVars, schedVars, workVars
<1>4. CASE Workers
  <2>1. PICK w \in Worker : WorkerStep(w) \/ WorkerStops(w)
    BY <1>4 DEF Workers
  <2>2. wPc[w] # "gone" /\ UNCHANGED <<mainPc, rcPc, sPc>>
    BY <2>1 DEF WorkerStep, WorkerStops, Take, Load, Execute, WriteOutcome,
                stopVars, schedVars, rcVars
  <2> QED
    BY <2>2
<1>5. CASE Signal
  BY <1>5 DEF Signal, schedVars, rcVars, workVars
<1>6. CASE MainStep
  BY <1>6 DEF MainStep, StopHttp, CloseJobs, DrainEngine, DrainScheduler, EngineDrained, MainTo,
              schedVars, rcVars, workVars
<1>7. CASE Restart
  BY <1>7 DEF Restart, MainTo
<1>8. CASE UNCHANGED vars
  BY <1>8 DEF vars, stopVars, schedVars, rcVars, workVars
<1> QED
  BY NextCases, <1>1, <1>2, <1>3, <1>4, <1>5, <1>6, <1>7, <1>8

(***************************************************************************)
(* When main returns no worker holds a run, the recovery is not between    *)
(* two sends and the scheduler is not inside a firing.                     *)
(***************************************************************************)
THEOREM CleanExit == Spec => []ExitIsClean
<1>1. Init => DrainedInOrder
  BY DEF Init, DrainedInOrder
<1>2. Typed /\ DrainedInOrder /\ [Next]_vars => DrainedInOrder'
  BY DrainStep
<1>3. Typed /\ DrainedInOrder => ExitIsClean
  BY DEF Typed, Holding, DrainedInOrder, ExitIsClean
<1> QED
  BY <1>1, <1>2, <1>3, TypedInit, TypedStep, PTL DEF Spec

-----------------------------------------------------------------------------
(* A failure that will be written is one of the node itself.               *)
OwnFailures ==
    /\ \A w \in Worker : wPc[w] = "fail" /\ ~cancelled => wExec[w] \in failedOwn
    /\ NoFalseFailure

LEMMA OwnFailuresStep ==
  ASSUME Typed, OwnFailures, [Next]_vars
  PROVE  OwnFailures'
<1> USE DEF OwnFailures, NoFalseFailure
<1>1. CASE Handlers
  BY <1>1 DEF Handlers, Accept, HandlerStep, HandlerRun, HandlerSend, SetStatus,
              Typed, TypeOK, rowVars, stopVars, schedVars, rcVars, workVars
<1>2. CASE Firings
  BY <1>2 DEF Firings, SchedulerFires, SchedulerStep, SchedulerStops, SchedulerSeeds,
              SchedulerSend, SetStatus, Typed, TypeOK, rowVars, stopVars, rcVars, workVars
<1>3. CASE RecoveryStep
  BY <1>3 DEF RecoveryStep, ListRunning, RecoverNext, RecoverSend,
              rowVars, stopVars, schedVars, workVars
<1>4. CASE Workers
  <2>1. PICK w \in Worker : WorkerStep(w) \/ WorkerStops(w)
    BY <1>4 DEF Workers
  <2> USE DEF Typed, TypeOK
  <2>2. UNCHANGED cancelled
    BY <2>1 DEF WorkerStep, WorkerStops, Take, Load, Execute, WriteOutcome, stopVars
  <2>3. CASE Execute(w)
    BY <2>2, <2>3 DEF Execute, SetWorker
  <2>4. CASE WriteOutcome(w)
    <3>1. failedOwn' = failedOwn /\ SetWorker(w, "loop", None)
      BY <2>4 DEF WriteOutcome
    <3>2. NoFalseFailure'
      BY <2>4, <3>1 DEF WriteOutcome, WriteStatus, SetStatus
    <3> QED
      BY <2>2, <3>1, <3>2 DEF SetWorker
  <2>5. CASE /\ UNCHANGED rowVars
             /\ \/ UNCHANGED workVars
                \/ \E pc \in {"loop", "load", "exec", "gone"}, e \in Exec \cup {None} :
                      SetWorker(w, pc, e)
    BY <2>2, <2>5 DEF SetWorker, rowVars, workVars
  <2>6. CASE Take(w)
    BY <2>5, <2>6, ReceiveType DEF Take
  <2>7. CASE Load(w) \/ WorkerStops(w)
    BY <2>5, <2>7 DEF Load, WorkerStops
  <2> QED
    BY <2>1, <2>3, <2>4, <2>6, <2>7 DEF WorkerStep
<1>5. CASE Signal \/ MainStep
  BY <1>5 DEF Signal, MainStep, StopHttp, CloseJobs, DrainEngine, DrainScheduler, rowVars, workVars
<1>6. CASE Restart
  BY <1>6 DEF Restart, rowVars
<1>7. CASE UNCHANGED vars
  BY <1>7 DEF vars, rowVars, stopVars, workVars
<1> QED
  BY NextCases, <1>1, <1>2, <1>3, <1>4, <1>5, <1>6, <1>7

(***************************************************************************)
(* A run is marked 'error' only for a failure of its own.                  *)
(***************************************************************************)
THEOREM StopFailsNoRun == Spec => []NoFalseFailure
<1>1. Init => OwnFailures
  BY DEF Init, OwnFailures, NoFalseFailure
<1>2. Typed /\ OwnFailures /\ [Next]_vars => OwnFailures'
  BY OwnFailuresStep
<1>3. OwnFailures => NoFalseFailure
  BY DEF OwnFailures
<1> QED
  BY <1>1, <1>2, <1>3, TypedInit, TypedStep, PTL DEF Spec

-----------------------------------------------------------------------------
(* No two workers hold one run.                                            *)
ClaimsAreExclusive ==
    \A v, w \in Worker : wExec[v] = wExec[w] /\ wExec[v] # None => v = w

(* A run has no row before its caller inserts it, and no effect.           *)
Unborn ==
    /\ \A r \in Request : hPc[r] \in {"idle", "accepted"} => status[r] = "none"
    /\ \A e \in Exec : status[e] = "none" => effects[e] = 0
    /\ \A w \in Worker : wPc[w] \in {"exec", "write", "fail"} => status[wExec[w]] # "none"

(* In one life of the process a run whose node is about to execute has not *)
(* executed it yet, and a running row that a load may still find belongs   *)
(* to such a run.                                                          *)
Writing(e) == \E w \in Worker : wExec[w] = e /\ wPc[w] \in {"write", "fail"}

OncePerLife ==
    /\ \A w \in Worker : wPc[w] = "exec" => effects[wExec[w]] <= stops
    /\ \A e \in Exec : status[e] = "running" /\ ~cancelled /\ ~Writing(e) => effects[e] <= stops

RerunInv == ClaimsAreExclusive /\ Unborn /\ OncePerLife /\ RerunOnlyAfterStop

LEMMA ClaimsStep ==
  ASSUME Typed, ClaimsAreExclusive, NEW w \in Worker, WorkerStep(w) \/ WorkerStops(w)
  PROVE  ClaimsAreExclusive'
<1> USE DEF ClaimsAreExclusive, Typed, TypeOK
<1>1. CASE UNCHANGED workVars
  BY <1>1 DEF workVars
<1>2. CASE \E pc \in {"loop", "gone"} : SetWorker(w, pc, None)
  BY <1>2 DEF SetWorker
<1>3. CASE \E pc \in {"exec", "write", "fail"} : SetWorker(w, pc, wExec[w])
  BY <1>3 DEF SetWorker
<1>4. CASE Take(w) /\ SetWorker(w, "load", Head(jobs)) /\ ~Claimed(Head(jobs))
  BY <1>4 DEF SetWorker, Claimed
<1> QED
  BY <1>1, <1>2, <1>3, <1>4 DEF WorkerStep, WorkerStops, Take, Load, Execute, WriteOutcome

LEMMA ExecuteOnce ==
  ASSUME Typed, RerunInv, NEW w \in Worker, Execute(w)
  PROVE  Unborn' /\ OncePerLife' /\ RerunOnlyAfterStop'
<1> USE DEF Typed, TypeOK, RerunInv
<1> DEFINE e == wExec[w]
<1>1. e \in Exec /\ wPc[w] = "exec" /\ effects[e] <= stops /\ status[e] # "none"
  BY DEF Execute, Holding, OncePerLife, Unborn
<1>2. /\ effects' = [effects EXCEPT ![e] = @ + 1]
      /\ UNCHANGED <<status, hPc, stops, cancelled, wExec>>
  BY DEF Execute, SetWorker, stopVars
<1>3. /\ wPc'[w] \in {"write", "fail"}
      /\ \A v \in Worker : v # w => wPc'[v] = wPc[v] /\ (wPc[v] = "exec" => wExec[v] # e)
  BY <1>1 DEF Execute, SetWorker, ClaimsAreExclusive, Holding
<1>4. Unborn'
  BY <1>1, <1>2, <1>3 DEF Unborn
<1>5. RerunOnlyAfterStop'
  BY <1>1, <1>2 DEF RerunOnlyAfterStop
<1>6. ASSUME NEW v \in Worker, wPc'[v] = "exec" PROVE effects'[wExec'[v]] <= stops'
  BY <1>2, <1>3, <1>6 DEF OncePerLife, Holding
<1>7. ASSUME NEW d \in Exec, status'[d] = "running", ~cancelled', ~Writing(d)'
      PROVE  effects'[d] <= stops'
  <2>1. d # e
    BY <1>2, <1>3, <1>7 DEF Writing
  <2>2. ~Writing(d)
    BY <1>1, <1>2, <1>3, <1>7, <2>1 DEF Writing
  <2> QED
    BY <1>2, <1>7, <2>1, <2>2 DEF OncePerLife
<1> QED
  BY <1>4, <1>5, <1>6, <1>7 DEF OncePerLife

LEMMA WorkerRerun ==
  ASSUME Typed, RerunInv, NEW w \in Worker, WorkerStep(w) \/ WorkerStops(w), ~Execute(w)
  PROVE  Unborn' /\ OncePerLife' /\ RerunOnlyAfterStop'
<1> USE DEF Typed, TypeOK, RerunInv
<1>1. UNCHANGED <<effects, hPc, stops, cancelled>>
  BY DEF WorkerStep, WorkerStops, Take, Load, WriteOutcome, rowVars, stopVars
<1>2. RerunOnlyAfterStop'
  BY <1>1 DEF RerunOnlyAfterStop
<1>3. CASE Take(w)
  <2>1. UNCHANGED status /\ wPc[w] = "loop" /\ wExec[w] = None
    BY <1>3 DEF Take, Holding, rowVars
  <2>2. CASE UNCHANGED workVars
    BY <1>1, <1>2, <2>1, <2>2 DEF workVars, Unborn, OncePerLife, Writing
  <2>3. CASE SetWorker(w, "load", Head(jobs))
    BY <1>1, <1>2, <2>1, <2>3 DEF SetWorker, Unborn, OncePerLife, Writing
  <2> QED
    BY <1>3, <2>2, <2>3 DEF Take
<1>4. CASE Load(w)
  <2>1. UNCHANGED status /\ wPc[w] = "load" /\ wExec[w] \in Exec
    BY <1>4 DEF Load, Holding, rowVars
  <2>2. CASE SetWorker(w, "loop", None)
    BY <1>1, <1>2, <2>1, <2>2 DEF SetWorker, Unborn, OncePerLife, Writing
  <2>3. CASE ~cancelled /\ status[wExec[w]] = "running" /\ SetWorker(w, "exec", wExec[w])
    <3>1. ~Writing(wExec[w])
      BY <2>1, ShutdownAssumption DEF ShutdownAssumption, Writing, ClaimsAreExclusive
    <3>2. effects[wExec[w]] <= stops
      BY <2>1, <2>3, <3>1 DEF OncePerLife
    <3>3. Unborn'
      BY <1>1, <2>1, <2>3 DEF SetWorker, Unborn
    <3>4. OncePerLife'
      BY <1>1, <2>1, <2>3, <3>2 DEF SetWorker, OncePerLife, Writing
    <3> QED
      BY <1>2, <3>3, <3>4
  <2> QED
    BY <1>4, <2>2, <2>3 DEF Load
<1>5. CASE WriteOutcome(w)
  <2> DEFINE e == wExec[w]
  <2>1. e \in Exec /\ wPc[w] \in {"write", "fail"} /\ SetWorker(w, "loop", None)
    BY <1>5 DEF WriteOutcome, Holding
  <2>2. \/ cancelled /\ status' = status
        \/ \E st \in {"success", "error"} : status' = [status EXCEPT ![e] = st]
    BY <1>5 DEF WriteOutcome, WriteStatus, SetStatus
  <2>3. Unborn'
    <3>1. status[e] # "none"
      BY <2>1 DEF Unborn
    <3>2. \A d \in Exec : status'[d] = "none" <=> status[d] = "none"
      BY <2>1, <2>2, <3>1
    <3> QED
      BY <1>1, <2>1, <3>2 DEF SetWorker, Unborn, Exec, Holding
  <2>4. OncePerLife'
    <3>1. ASSUME NEW v \in Worker, wPc'[v] = "exec" PROVE effects'[wExec'[v]] <= stops'
      BY <1>1, <2>1, <3>1 DEF SetWorker, OncePerLife
    <3>2. ASSUME NEW d \in Exec, status'[d] = "running", ~cancelled', ~Writing(d)'
          PROVE  effects'[d] <= stops'
      <4>1. d # e /\ status[d] = "running"
        BY <1>1, <2>1, <2>2, <3>2
      <4>2. ~Writing(d)
        BY <2>1, <3>2, <4>1 DEF SetWorker, Writing
      <4> QED
        BY <1>1, <3>2, <4>1, <4>2 DEF OncePerLife
    <3> QED
      BY <3>1, <3>2 DEF OncePerLife
  <2> QED
    BY <1>2, <2>3, <2>4
<1>6. CASE WorkerStops(w)
  <2>1. UNCHANGED status /\ wPc[w] = "loop" /\ SetWorker(w, "gone", None)
    BY <1>6 DEF WorkerStops, rowVars
  <2> QED
    BY <1>1, <1>2, <2>1 DEF SetWorker, Unborn, OncePerLife, Writing
<1> QED
  BY <1>3, <1>4, <1>5, <1>6 DEF WorkerStep

LEMMA RerunStep ==
  ASSUME Typed, RerunInv, [Next]_vars
  PROVE  RerunInv'
<1> USE DEF Typed, TypeOK, RerunInv
<1>1. ASSUME UNCHANGED <<effects, stops, cancelled, workVars>>,
             \/ UNCHANGED status
             \/ \E e \in Exec : status[e] = "none" /\ status' = [status EXCEPT ![e] = "running"],
             \A r \in Request : hPc'[r] \in {"idle", "accepted"} =>
                                   hPc[r] \in {"idle", "accepted"} /\ status'[r] = status[r]
      PROVE  RerunInv'
  <2>1. ClaimsAreExclusive' /\ RerunOnlyAfterStop'
    BY <1>1 DEF ClaimsAreExclusive, RerunOnlyAfterStop, workVars
  <2>2. Unborn'
    BY <1>1 DEF Unborn, workVars, Holding
  <2>3. OncePerLife'
    <3>1. \A d \in Exec : Writing(d)' <=> Writing(d)
      BY <1>1 DEF Writing, workVars
    <3>2. ASSUME NEW d \in Exec, status'[d] = "running", ~cancelled', ~Writing(d)'
          PROVE  effects'[d] <= stops'
      <4>1. CASE status[d] = "none"
        BY <1>1, <4>1 DEF Unborn
      <4>2. CASE status[d] = "running"
        BY <1>1, <3>1, <3>2, <4>2 DEF OncePerLife
      <4> QED
        BY <1>1, <3>2, <4>1, <4>2
    <3> QED
      BY <1>1, <3>2 DEF OncePerLife, workVars
  <2> QED
    BY <2>1, <2>2, <2>3
<1>2. CASE Handlers
  <2>1. PICK r \in Request : Accept(r) \/ HandlerStep(r)
    BY <1>2 DEF Handlers
  <2>2. CASE Accept(r) \/ HandlerSend(r)
    BY <1>1, <2>2 DEF Accept, HandlerSend, rowVars, stopVars
  <2>3. CASE HandlerRun(r)
    <3>1. r \in Exec /\ status[r] = "none" /\ status' = [status EXCEPT ![r] = "running"]
      BY <2>3 DEF HandlerRun, SetStatus, Unborn, Exec
    <3>2. hPc' = [hPc EXCEPT ![r] = "send"] /\ UNCHANGED <<effects, stops, cancelled, workVars>>
      BY <2>3 DEF HandlerRun, stopVars
    <3>3. \A q \in Request : hPc'[q] \in {"idle", "accepted"} =>
                                hPc[q] \in {"idle", "accepted"} /\ status'[q] = status[q]
      BY <3>1, <3>2 DEF Exec
    <3> QED
      BY <1>1, <3>1, <3>2, <3>3
  <2> QED
    BY <2>1, <2>2, <2>3 DEF HandlerStep
<1>3. CASE Firings
  <2>1. ASSUME NEW e \in Firing, SchedulerFires(e) PROVE RerunInv'
    <3>1. e \in Exec /\ status[e] = "none" /\ status' = [status EXCEPT ![e] = "running"]
      BY <2>1 DEF SchedulerFires, SetStatus, Exec
    <3>2. UNCHANGED <<effects, stops, cancelled, workVars, hPc>>
      BY <2>1 DEF SchedulerFires, stopVars
    <3>3. \A q \in Request : status'[q] = status[q]
      BY <3>1, <2>1, ShutdownAssumption DEF ShutdownAssumption, Exec
    <3> QED
      BY <1>1, <3>1, <3>2, <3>3
  <2>2. CASE SchedulerStep
    BY <1>1, <2>2 DEF SchedulerStep, SchedulerStops, SchedulerSeeds, SchedulerSend,
                      rowVars, stopVars
  <2> QED
    BY <1>3, <2>1, <2>2 DEF Firings
<1>4. CASE RecoveryStep
  BY <1>1, <1>4 DEF RecoveryStep, ListRunning, RecoverNext, RecoverSend, rowVars, stopVars
<1>5. CASE Workers
  BY <1>5, ClaimsStep, ExecuteOnce, WorkerRerun DEF Workers
<1>6. CASE Signal
  BY <1>6 DEF Signal, rowVars, workVars, ClaimsAreExclusive, Unborn, OncePerLife,
              RerunOnlyAfterStop
<1>7. CASE MainStep
  <2>1. UNCHANGED <<status, effects, stops, cancelled, workVars>>
    BY <1>7 DEF MainStep, StopHttp, CloseJobs, DrainEngine, DrainScheduler, rowVars
  <2>2. \A r \in Request : hPc'[r] \in {"idle", "accepted"} => hPc[r] \in {"idle", "accepted"}
    BY <1>7 DEF MainStep, StopHttp, CloseJobs, DrainEngine, DrainScheduler
  <2> QED
    BY <1>1, <2>1, <2>2
<1>8. CASE Restart
  <2>1. /\ UNCHANGED <<status, effects, hPc>> /\ stops' = stops + 1
        /\ \A w \in Worker : wPc'[w] = "loop" /\ wExec'[w] = None
    BY <1>8 DEF Restart, rowVars
  <2> QED
    BY <2>1 DEF ClaimsAreExclusive, Unborn, OncePerLife, RerunOnlyAfterStop
<1>9. CASE UNCHANGED vars
  BY <1>1, <1>9 DEF vars, rowVars, stopVars
<1> QED
  BY NextCases, <1>2, <1>3, <1>4, <1>5, <1>6, <1>7, <1>8, <1>9

(***************************************************************************)
(* A run executes its node again only because of a stop in between, though *)
(* the recovery may queue what a request has queued already.               *)
(***************************************************************************)
THEOREM RerunsNeedStops == Spec => []RerunOnlyAfterStop
<1>1. Init => RerunInv
  BY DEF Init, RerunInv, ClaimsAreExclusive, Unborn, OncePerLife, RerunOnlyAfterStop, Exec
<1>2. Typed /\ RerunInv /\ [Next]_vars => RerunInv'
  BY RerunStep
<1>3. RerunInv => RerunOnlyAfterStop
  BY DEF RerunInv
<1> QED
  BY <1>1, <1>2, <1>3, TypedInit, TypedStep, PTL DEF Spec
-----------------------------------------------------------------------------
(* Towards ShutdownEnds.  The order of the places that a goroutine passes  *)
(* once the context is cancelled.                                          *)
MainPlace ==
    CASE mainPc = "serve" -> 0 [] mainPc = "close" -> 1 [] mainPc = "drainEngine" -> 2
      [] mainPc = "drainScheduler" -> 3 [] OTHER -> 4

SchedulerPlace == CASE sPc \in {"seed", "send"} -> 0 [] sPc = "timer" -> 1 [] OTHER -> 2

RecoveryPlace == CASE rcPc = "send" -> 0 [] rcPc \in {"list", "next"} -> 1 [] OTHER -> 2

HandlerPlace(r) ==
    CASE hPc[r] = "idle" -> 0 [] hPc[r] = "accepted" -> 1 [] hPc[r] = "send" -> 2 [] OTHER -> 3

WorkerPlace(w) ==
    CASE wPc[w] = "exec" -> 0 [] wPc[w] \in {"load", "write", "fail"} -> 1
      [] wPc[w] = "loop" -> 2 [] OTHER -> 3

(* Only a worker goes back, and for that it takes a job off the channel.   *)
WorkerGoesOn(w) ==
    \/ wPc'[w] = wPc[w]
    \/ WorkerPlace(w) < WorkerPlace(w)'
    \/ wPc[w] = "loop" /\ wPc'[w] = "load" /\ Len(jobs') < Len(jobs)

StopGoesOn ==
    cancelled /\ mainPc # "exited" =>
        /\ cancelled'
        /\ closed => closed' /\ Len(jobs') <= Len(jobs)
        /\ mainPc' # mainPc => MainPlace < MainPlace'
        /\ sPc' # sPc => SchedulerPlace < SchedulerPlace'
        /\ rcPc' # rcPc => RecoveryPlace < RecoveryPlace'
        /\ \A r \in Request : hPc'[r] # hPc[r] => HandlerPlace(r) < HandlerPlace(r)'
        /\ \A w \in Worker : WorkerGoesOn(w)

(* The drains wait for goroutines that no send can block any more.         *)
ClosedBeforeDrained == mainPc \in {"drainEngine", "drainScheduler", "exited"} => closed

LEMMA ClosedStep ==
  ASSUME Typed, ClosedBeforeDrained, [Next]_vars
  PROVE  ClosedBeforeDrained'
<1>1. CASE UNCHANGED <<closed, mainPc>>
  BY <1>1 DEF ClosedBeforeDrained
<1>2. CASE Handlers
  BY <1>1, <1>2 DEF Handlers, HandlerStep, Accept, HandlerRun, HandlerSend, stopVars
<1>3. CASE Firings
  BY <1>1, <1>3 DEF Firings, SchedulerFires, SchedulerStep, SchedulerStops, SchedulerSeeds,
                    SchedulerSend, stopVars
<1>4. CASE RecoveryStep
  BY <1>1, <1>4 DEF RecoveryStep, ListRunning, RecoverNext, RecoverSend, stopVars
<1>5. CASE Workers
  BY <1>1, <1>5 DEF Workers, WorkerStep, WorkerStops, Take, Load, Execute, WriteOutcome, stopVars
<1>6. CASE Signal
  BY <1>1, <1>6 DEF Signal
<1>7. CASE MainStep
  BY <1>7 DEF MainStep, StopHttp, CloseJobs, DrainEngine, DrainScheduler, MainTo,
              ClosedBeforeDrained
<1>8. CASE Restart
  BY <1>8 DEF Restart, MainTo, ClosedBeforeDrained
<1>9. CASE UNCHANGED vars
  BY <1>1, <1>9 DEF vars, stopVars
<1> QED
  BY NextCases, <1>2, <1>3, <1>4, <1>5, <1>6, <1>7, <1>8, <1>9

(* A send makes the channel longer only as long as it is open, and a       *)
(* receive makes it shorter.                                               *)
LEMMA ReceiveShortens == ASSUME TypeOK, jobs # <<>> PROVE Len(Tail(jobs)) < Len(jobs)
  BY DEF TypeOK

LEMMA WorkersGoOn ==
  ASSUME Typed, cancelled, Workers
  PROVE  Len(jobs') <= Len(jobs) /\ \A w \in Worker : WorkerGoesOn(w)
<1> PICK w \in Worker : WorkerStep(w) \/ WorkerStops(w)
  BY DEF Workers
<1> USE DEF Typed, TypeOK
<1>1. Len(jobs) \in Nat
  OBVIOUS
<1>2. CASE UNCHANGED workVars /\ Take(w)
  BY <1>1, <1>2, ReceiveShortens DEF Take, WorkerGoesOn, workVars
<1>3. ASSUME NEW pc, NEW e, SetWorker(w, pc, e), UNCHANGED jobs,
             \/ wPc[w] = "loop" /\ pc = "gone"
             \/ wPc[w] \in {"load", "write", "fail"} /\ pc = "loop"
             \/ wPc[w] = "exec" /\ pc \in {"write", "fail"}
      PROVE  Len(jobs') <= Len(jobs) /\ \A v \in Worker : WorkerGoesOn(v)
  <2>1. \A v \in Worker : wPc'[v] = IF v = w THEN pc ELSE wPc[v]
    BY <1>3 DEF SetWorker
  <2>2. WorkerPlace(w) < WorkerPlace(w)'
    BY <1>3, <2>1 DEF WorkerPlace
  <2> QED
    BY <1>1, <1>3, <2>1, <2>2 DEF WorkerGoesOn
<1>4. CASE Take(w) /\ SetWorker(w, "load", Head(jobs))
  <2>1. \A v \in Worker : wPc'[v] = IF v = w THEN "load" ELSE wPc[v]
    BY <1>4 DEF SetWorker
  <2>2. Len(jobs') < Len(jobs) /\ Len(jobs') \in Nat
    BY <1>4, ReceiveShortens, ReceiveType DEF Take
  <2> QED
    BY <1>1, <1>4, <2>1, <2>2 DEF WorkerGoesOn, Take
<1>5. CASE Load(w)
  BY <1>3, <1>5 DEF Load
<1>6. CASE Execute(w)
  BY <1>3, <1>6 DEF Execute
<1>7. CASE WriteOutcome(w)
  BY <1>3, <1>7 DEF WriteOutcome
<1>8. CASE WorkerStops(w)
  BY <1>3, <1>8 DEF WorkerStops
<1>9. CASE Take(w)
  BY <1>2, <1>4, <1>9 DEF Take
<1> QED
  BY <1>5, <1>6, <1>7, <1>8, <1>9 DEF WorkerStep

(* Every step of a stop brings the goroutine that takes it further.        *)
LEMMA StopStep ==
  ASSUME Typed, [Next]_vars
  PROVE  StopGoesOn
<1> SUFFICES ASSUME cancelled, mainPc # "exited" PROVE StopGoesOn
  BY DEF StopGoesOn
<1> USE DEF Typed, TypeOK
<1>1. Len(jobs) \in Nat
  OBVIOUS
<1>2. UNCHANGED wPc => \A w \in Worker : WorkerGoesOn(w)
  BY DEF WorkerGoesOn
<1>3. \A e \in Exec : Send(e) => ~closed
  BY DEF Send
<1>4. CASE Handlers
  <2>1. PICK r \in Request : Accept(r) \/ HandlerStep(r)
    BY <1>4 DEF Handlers
  <2>2. \E pc \in {"accepted", "send", "over"} :
           /\ hPc' = [hPc EXCEPT ![r] = pc]
           /\ hPc[r] = CASE pc = "accepted" -> "idle" [] pc = "send" -> "accepted" [] OTHER -> "send"
    BY <2>1 DEF HandlerStep, Accept, HandlerRun, HandlerSend
  <2>3. \A q \in Request : hPc'[q] # hPc[q] => HandlerPlace(q) < HandlerPlace(q)'
    BY <2>2 DEF HandlerPlace
  <2>4. UNCHANGED <<stopVars, schedVars, rcVars, workVars>>
    BY <2>1 DEF HandlerStep, Accept, HandlerRun, HandlerSend
  <2>5. closed => Len(jobs') <= Len(jobs)
    BY <1>1, <2>1 DEF HandlerStep, Accept, HandlerRun, HandlerSend, Send
  <2> QED
    BY <1>2, <2>3, <2>4, <2>5 DEF StopGoesOn, stopVars, schedVars, rcVars, workVars
<1>5. CASE Firings
  <2>1. UNCHANGED <<stopVars, hPc, rcVars, workVars>>
    BY <1>5 DEF Firings, SchedulerFires, SchedulerStep, SchedulerStops, SchedulerSeeds, SchedulerSend
  <2>2. closed => Len(jobs') <= Len(jobs)
    BY <1>1, <1>5 DEF Firings, SchedulerFires, SchedulerStep, SchedulerStops, SchedulerSeeds,
                      SchedulerSend, Send
  <2>3. SchedulerPlace < SchedulerPlace'
    BY <1>5 DEF Firings, SchedulerFires, SchedulerStep, SchedulerStops, SchedulerSeeds,
                SchedulerSend, SchedulerPlace
  <2> QED
    BY <1>2, <2>1, <2>2, <2>3 DEF StopGoesOn, stopVars, rcVars, workVars
<1>6. CASE RecoveryStep
  <2>1. UNCHANGED <<stopVars, hPc, schedVars, workVars>>
    BY <1>6 DEF RecoveryStep, ListRunning, RecoverNext, RecoverSend
  <2>2. closed => Len(jobs') <= Len(jobs)
    BY <1>1, <1>6 DEF RecoveryStep, ListRunning, RecoverNext, RecoverSend, Send
  <2>3. RecoveryPlace < RecoveryPlace'
    BY <1>6 DEF RecoveryStep, ListRunning, RecoverNext, RecoverSend, RecoveryPlace
  <2> QED
    BY <1>2, <2>1, <2>2, <2>3 DEF StopGoesOn, stopVars, schedVars, workVars
<1>7. CASE Workers
  <2>1. UNCHANGED <<stopVars, hPc, schedVars, rcVars>>
    BY <1>7 DEF Workers, WorkerStep, WorkerStops, Take, Load, Execute, WriteOutcome
  <2> QED
    BY <1>7, <2>1, WorkersGoOn DEF StopGoesOn, stopVars, schedVars, rcVars
<1>8. CASE MainStep
  <2>1. MainPlace < MainPlace'
    <3>1. \/ mainPc = "serve" /\ mainPc' = "close"
          \/ mainPc = "close" /\ mainPc' = "drainEngine"
          \/ mainPc = "drainEngine" /\ mainPc' = "drainScheduler"
          \/ mainPc = "drainScheduler" /\ mainPc' = "exited"
      BY <1>8, Zenon DEF MainStep, StopHttp, CloseJobs, DrainEngine, DrainScheduler, MainTo
    <3> QED
      BY <3>1 DEF MainPlace
  <2>2. ASSUME NEW r \in Request, hPc'[r] # hPc[r] PROVE HandlerPlace(r) < HandlerPlace(r)'
    <3>1. hPc[r] \in {"accepted", "send"} /\ hPc'[r] = "over"
      BY <1>8, <2>2 DEF MainStep, StopHttp, CloseJobs, DrainEngine, DrainScheduler
    <3> QED
      BY <3>1 DEF HandlerPlace
  <2>3. UNCHANGED <<cancelled, jobs, schedVars, rcVars, workVars>>
    BY <1>8 DEF MainStep, StopHttp, CloseJobs, DrainEngine, DrainScheduler
  <2>4. closed => closed'
    BY <1>8, Zenon DEF MainStep, StopHttp, CloseJobs, DrainEngine, DrainScheduler
  <2> QED
    BY <1>1, <1>2, <2>1, <2>2, <2>3, <2>4 DEF StopGoesOn, schedVars, rcVars, workVars
<1>9. CASE UNCHANGED vars
  BY <1>1, <1>2, <1>9 DEF StopGoesOn, vars, stopVars, schedVars, rcVars, workVars
<1> QED
  BY NextCases, <1>4, <1>5, <1>6, <1>7, <1>8, <1>9 DEF Signal, Restart, MainTo

(***************************************************************************)
(* From the signal to the exit, main, the scheduler, the recovery and the  *)
(* handlers only go forward, each a few places, and a worker goes back     *)
(* only for a job.  When main waits for them the channel is closed, so     *)
(* that no send blocks and no job is added: what is left of ShutdownEnds   *)
(* is that the steps are taken.                                            *)
(***************************************************************************)
THEOREM StopsGoForward == Spec => [][StopGoesOn]_vars /\ []ClosedBeforeDrained
<1>1. Init => ClosedBeforeDrained
  BY DEF Init, ClosedBeforeDrained
<1>2. Typed /\ ClosedBeforeDrained /\ [Next]_vars => ClosedBeforeDrained'
  BY ClosedStep
<1>3. Typed /\ [Next]_vars => [StopGoesOn]_vars
  BY StopStep
<1> QED
  BY <1>1, <1>2, <1>3, TypedInit, TypedStep, PTL DEF Spec
=============================================================================
