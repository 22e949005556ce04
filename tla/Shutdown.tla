------------------------------ MODULE Shutdown ------------------------------
(***************************************************************************)
(* The graceful stop of the server and its next start: main, which closes  *)
(* things in order (server/cmd/crosscraft/main.go), the context that the   *)
(* signal cancels, the job channel that Engine.Shutdown closes, and the    *)
(* goroutines that it stops or that must stop by themselves: workers, the  *)
(* recovery, the scheduler, and the HTTP handlers that call Run.           *)
(*                                                                         *)
(* A run is one node: its Execute returns, and then the checkpoint and the *)
(* status are written, which fails once the context is cancelled.          *)
(***************************************************************************)
EXTENDS Naturals, Sequences

CONSTANTS
    Request,   \* runs started by an HTTP request
    Firing,    \* runs started by the scheduler
    Worker,    \* worker goroutines
    None,      \* no run
    QueueCap,  \* capacity of the job channel
    MaxStops   \* bound: stops of the server that are followed by a start

Exec == Request \cup Firing

ASSUME ShutdownAssumption ==
    /\ Request \cap Firing = {} /\ None \notin Exec
    /\ QueueCap \in Nat \ {0} /\ MaxStops \in Nat

VARIABLES
    status,     \* executions.status
    effects,    \* times the node of a run was executed
    failedOwn,  \* runs whose node failed for a reason of its own
    cancelled,  \* ctx.Done() is closed
    closed,     \* the job channel is closed
    jobs,       \* the job channel
    mainPc,     \* main: "serve", then the steps of the shutdown, then "exited"
    hPc,        \* handlers: "idle", "accepted", "send" (Run has inserted the row), an outcome
    sPc, sExec, \* the scheduler: "timer", "seed", "send", "gone"
    rcPc, rcIds, rcExec,  \* recoverRunning: "list", "next", "send", "gone"
    wPc, wExec, \* workers: "loop", "load", "exec", "write", "fail", "gone"
    stops

rowVars   == <<status, effects, failedOwn>>
stopVars  == <<cancelled, closed, mainPc, stops>>
schedVars == <<sPc, sExec>>
rcVars    == <<rcPc, rcIds, rcExec>>
workVars  == <<wPc, wExec>>
vars == <<rowVars, stopVars, jobs, hPc, schedVars, rcVars, workVars>>

MainPcs == {"serve", "close", "drainEngine", "drainScheduler", "exited"}

TypeOK ==
    /\ status \in [Exec -> {"none", "running", "success", "error"}]
    /\ effects \in [Exec -> Nat]
    /\ failedOwn \subseteq Exec
    /\ cancelled \in BOOLEAN /\ closed \in BOOLEAN
    /\ jobs \in Seq(Exec) /\ Len(jobs) <= QueueCap
    /\ mainPc \in MainPcs
    /\ hPc \in [Request -> {"idle", "accepted", "send", "over"}]
    /\ sPc \in {"timer", "seed", "send", "gone"} /\ sExec \in Firing \cup {None}
    /\ rcPc \in {"list", "next", "send", "gone"}
    /\ rcIds \subseteq Exec /\ rcExec \in Exec \cup {None}
    /\ wPc \in [Worker -> {"loop", "load", "exec", "write", "fail", "gone"}]
    /\ wExec \in [Worker -> Exec \cup {None}]
    /\ stops \in 0..MaxStops

(* Some runs may have been left 'running' by the process before this one.  *)
Init ==
    /\ status \in [Exec -> {"none", "running"}]
    /\ effects = [e \in Exec |-> 0]
    /\ failedOwn = {}
    /\ cancelled = FALSE /\ closed = FALSE
    /\ jobs = <<>>
    /\ mainPc = "serve"
    /\ hPc = [r \in Request |-> IF status[r] = "none" THEN "idle" ELSE "over"]
    /\ sPc = "timer" /\ sExec = None
    /\ rcPc = "list" /\ rcIds = {} /\ rcExec = None
    /\ wPc = [w \in Worker |-> "loop"]
    /\ wExec = [w \in Worker |-> None]
    /\ stops = 0

SetStatus(e, st) == status' = [status EXCEPT ![e] = st]

(* enqueue: a send blocks while the channel is full, and panics once it is *)
(* closed, even if it was blocked before.                                  *)
Send(e) == ~closed /\ Len(jobs) < QueueCap /\ jobs' = Append(jobs, e)

SendPanics == closed

-----------------------------------------------------------------------------
(* HTTP handlers.  Their context is the request's: the signal does not     *)
(* cancel it, and the handler writes its row during the shutdown too.      *)

Accept(r) ==
    /\ mainPc = "serve" /\ hPc[r] = "idle"
    /\ hPc' = [hPc EXCEPT ![r] = "accepted"]
    /\ UNCHANGED <<rowVars, stopVars, jobs, schedVars, rcVars, workVars>>

HandlerRun(r) ==
    /\ mainPc # "exited" /\ hPc[r] = "accepted"
    /\ SetStatus(r, "running")
    /\ hPc' = [hPc EXCEPT ![r] = "send"]
    /\ UNCHANGED <<effects, failedOwn, stopVars, jobs, schedVars, rcVars, workVars>>

(* After a panic the HTTP server drops the connection.                     *)
HandlerSend(r) ==
    /\ mainPc # "exited" /\ hPc[r] = "send"
    /\ \/ Send(r)
       \/ SendPanics /\ UNCHANGED jobs
    /\ hPc' = [hPc EXCEPT ![r] = "over"]
    /\ UNCHANGED <<rowVars, stopVars, schedVars, rcVars, workVars>>

-----------------------------------------------------------------------------
(* The scheduler's goroutine                                               *)

SchedulerStops ==
    /\ sPc = "timer" /\ cancelled
    /\ sPc' = "gone"
    /\ UNCHANGED <<rowVars, stopVars, jobs, hPc, sExec, rcVars, workVars>>

(* fireDue runs with the context of the signal: Run fails to insert the    *)
(* row once it is cancelled, or to save the seed of a row it has inserted, *)
(* and the goroutine goes back to the timer.                               *)
SchedulerFires(e) ==
    /\ mainPc # "exited" /\ sPc = "timer" /\ status[e] = "none" /\ ~cancelled
    /\ SetStatus(e, "running")
    /\ sPc' = "seed" /\ sExec' = e
    /\ UNCHANGED <<effects, failedOwn, stopVars, jobs, hPc, rcVars, workVars>>

SchedulerSeeds ==
    /\ sPc = "seed"
    /\ \/ ~cancelled /\ sPc' = "send" /\ UNCHANGED sExec
       \/ cancelled /\ sPc' = "timer" /\ sExec' = None
    /\ UNCHANGED <<rowVars, stopVars, jobs, hPc, rcVars, workVars>>

(* The panic is recovered by the goroutine, which ends.                    *)
SchedulerSend ==
    /\ mainPc # "exited" /\ sPc = "send"
    /\ \/ Send(sExec) /\ sPc' = "timer"
       \/ SendPanics /\ sPc' = "gone" /\ UNCHANGED jobs
    /\ sExec' = None
    /\ UNCHANGED <<rowVars, stopVars, hPc, rcVars, workVars>>

-----------------------------------------------------------------------------
(* recoverRunning                                                          *)

Interrupted_Waiting == {e \in Exec : status[e] = "waiting"}

Interrupted == {e \in Exec : status[e] = "running"}

ListRunning ==
    /\ rcPc = "list"
    /\ \/ cancelled /\ rcPc' = "gone" /\ UNCHANGED rcIds
       \/ ~cancelled /\ rcPc' = "next" /\ rcIds' = Interrupted
    /\ UNCHANGED <<rowVars, stopVars, jobs, hPc, schedVars, rcExec, workVars>>

RecoverNext ==
    /\ rcPc = "next"
    /\ \/ cancelled /\ rcPc' = "gone" /\ UNCHANGED <<rcIds, rcExec>>
       \/ rcIds = {} /\ rcPc' = "gone" /\ UNCHANGED <<rcIds, rcExec>>
       \/ ~cancelled /\ \E e \in rcIds :
             rcPc' = "send" /\ rcExec' = e /\ rcIds' = rcIds \ {e}
    /\ UNCHANGED <<rowVars, stopVars, jobs, hPc, schedVars, workVars>>

RecoverSend ==
    /\ rcPc = "send"
    /\ \/ Send(rcExec) /\ rcPc' = "next"
       \/ SendPanics /\ rcPc' = "gone" /\ UNCHANGED jobs
    /\ rcExec' = None
    /\ UNCHANGED <<rowVars, stopVars, hPc, schedVars, rcIds, workVars>>

-----------------------------------------------------------------------------
(* Workers.  The select between a cancelled context and a job is free; a   *)
(* closed channel yields "", for which process does nothing.               *)

SetWorker(w, pc, e) == wPc' = [wPc EXCEPT ![w] = pc] /\ wExec' = [wExec EXCEPT ![w] = e]

WorkerStops(w) ==
    /\ wPc[w] = "loop" /\ cancelled
    /\ SetWorker(w, "gone", None)
    /\ UNCHANGED <<rowVars, stopVars, jobs, hPc, schedVars, rcVars>>

(* Receive and claim; a job that another worker owns is dropped.           *)
Claimed_Never(e) == FALSE

Claimed(e) == \E w \in Worker : wExec[w] = e

Take(w) ==
    /\ wPc[w] = "loop" /\ jobs # <<>>
    /\ jobs' = Tail(jobs)
    /\ \/ Claimed(Head(jobs)) /\ UNCHANGED workVars
       \/ ~Claimed(Head(jobs)) /\ SetWorker(w, "load", Head(jobs))
    /\ UNCHANGED <<rowVars, stopVars, hPc, schedVars, rcVars>>

(* The loads and StartStep fail once the context is cancelled.             *)
Load(w) ==
    /\ wPc[w] = "load"
    /\ IF cancelled \/ status[wExec[w]] # "running"
       THEN SetWorker(w, "loop", None)
       ELSE SetWorker(w, "exec", wExec[w])
    /\ UNCHANGED <<rowVars, stopVars, jobs, hPc, schedVars, rcVars>>

(* Execute returns, fails, or fails because its context is cancelled.      *)
Execute(w) ==
    LET e == wExec[w] IN
    /\ wPc[w] = "exec"
    /\ effects' = [effects EXCEPT ![e] = @ + 1]
    /\ \/ SetWorker(w, "write", e) /\ UNCHANGED failedOwn
       \/ SetWorker(w, "fail", e) /\ failedOwn' = failedOwn \cup {e}
       \/ cancelled /\ SetWorker(w, "fail", e) /\ UNCHANGED failedOwn
    /\ UNCHANGED <<status, stopVars, jobs, hPc, schedVars, rcVars>>

(* FinishStep, SaveState and FinishExecution with the worker's context:    *)
(* none of them is written once it is cancelled.                           *)
WriteStatus_Background(e, st) == SetStatus(e, st)

WriteStatus(e, st) == IF cancelled THEN UNCHANGED status ELSE SetStatus(e, st)

WriteOutcome(w) ==
    /\ \/ wPc[w] = "write" /\ WriteStatus(wExec[w], "success")
       \/ wPc[w] = "fail" /\ WriteStatus(wExec[w], "error")
    /\ SetWorker(w, "loop", None)
    /\ UNCHANGED <<effects, failedOwn, stopVars, jobs, hPc, schedVars, rcVars>>

-----------------------------------------------------------------------------
(* main                                                                    *)

Signal ==
    /\ ~cancelled /\ stops < MaxStops
    /\ cancelled' = TRUE
    /\ UNCHANGED <<rowVars, closed, mainPc, stops, jobs, hPc, schedVars, rcVars, workVars>>

MainTo(from, to) == mainPc = from /\ mainPc' = to

(* srv.Shutdown takes no new request, and returns when no handler is       *)
(* active or after 30 seconds: handlers may still be at work.              *)
StopHttp ==
    /\ cancelled /\ MainTo("serve", "close")
    /\ UNCHANGED <<rowVars, cancelled, closed, stops, jobs, hPc, schedVars, rcVars, workVars>>

(* Engine.Shutdown                                                         *)
CloseJobs_Skipped ==
    /\ MainTo("close", "drainEngine")
    /\ UNCHANGED <<rowVars, cancelled, closed, stops, jobs, hPc, schedVars, rcVars, workVars>>

CloseJobs ==
    /\ MainTo("close", "drainEngine")
    /\ closed' = TRUE
    /\ UNCHANGED <<rowVars, cancelled, stops, jobs, hPc, schedVars, rcVars, workVars>>

(* Engine.WaitDrain: the WaitGroup counts workers and the recovery.        *)
EngineDrained_RecoveryOnly == rcPc = "gone"

EngineDrained == rcPc = "gone" /\ \A w \in Worker : wPc[w] = "gone"

DrainEngine ==
    /\ EngineDrained /\ MainTo("drainEngine", "drainScheduler")
    /\ UNCHANGED <<rowVars, cancelled, closed, stops, jobs, hPc, schedVars, rcVars, workVars>>

(* Scheduler.WaitDrain, and main returns: the process ends, and with it    *)
(* the connections of the handlers that are still blocked.                 *)
DrainScheduler ==
    /\ sPc = "gone" /\ MainTo("drainScheduler", "exited")
    /\ hPc' = [r \in Request |-> IF hPc[r] \in {"accepted", "send"} THEN "over" ELSE hPc[r]]
    /\ UNCHANGED <<rowVars, cancelled, closed, stops, jobs, schedVars, rcVars, workVars>>

(* The next process: only the rows are left.                               *)
Restart ==
    /\ MainTo("exited", "serve")
    /\ stops' = stops + 1
    /\ cancelled' = FALSE /\ closed' = FALSE
    /\ jobs' = <<>>
    /\ sPc' = "timer" /\ sExec' = None
    /\ rcPc' = "list" /\ rcIds' = {} /\ rcExec' = None
    /\ wPc' = [w \in Worker |-> "loop"] /\ wExec' = [w \in Worker |-> None]
    /\ UNCHANGED <<rowVars, hPc>>

-----------------------------------------------------------------------------
HandlerStep(r) == HandlerRun(r) \/ HandlerSend(r)
SchedulerStep == SchedulerStops \/ SchedulerSeeds \/ SchedulerSend
RecoveryStep == ListRunning \/ RecoverNext \/ RecoverSend
WorkerStep(w) == Take(w) \/ Load(w) \/ Execute(w) \/ WriteOutcome(w)
MainStep == StopHttp \/ CloseJobs \/ DrainEngine \/ DrainScheduler

Next ==
    \/ \E r \in Request : Accept(r) \/ HandlerStep(r)
    \/ (\E e \in Firing : SchedulerFires(e)) \/ SchedulerStep
    \/ RecoveryStep
    \/ \E w \in Worker : WorkerStep(w) \/ WorkerStops(w)
    \/ Signal \/ MainStep \/ Restart

Spec == Init /\ [][Next]_vars

(* Goroutines are scheduled; a worker whose context is cancelled sees it   *)
(* sooner or later, whatever the channel holds, since the select chooses   *)
(* at random; the server is started again.                                 *)
FairSpec ==
    /\ Spec
    /\ \A r \in Request : WF_vars(HandlerStep(r))
    /\ WF_vars(SchedulerStep) /\ WF_vars(RecoveryStep)
    /\ \A w \in Worker : WF_vars(WorkerStep(w)) /\ SF_vars(WorkerStops(w))
    /\ WF_vars(MainStep) /\ WF_vars(Restart)

-----------------------------------------------------------------------------
(* Properties                                                              *)

(* The process leaves no goroutine in the middle of a run or of a firing   *)
(* when main returns.                                                      *)
ExitIsClean ==
    mainPc = "exited" =>
        /\ \A w \in Worker : wExec[w] = None
        /\ rcExec = None /\ sExec = None

(* A run is marked 'error' only for a failure of its own, never because    *)
(* the shutdown cancelled what its node was doing.                         *)
NoFalseFailure == \A e \in Exec : status[e] = "error" => e \in failedOwn

(* A run executes its node again only because of a stop in between.        *)
RerunOnlyAfterStop == \A e \in Exec : effects[e] <= 1 + stops

(* The shutdown ends: closing the channel frees the recovery and the       *)
(* scheduler that are blocked on it while no worker receives any more.     *)
ShutdownEnds == cancelled ~> mainPc = "exited"

(* Every run whose row was inserted settles, in this process or in the     *)
(* next, also when the send of its id panicked or was cut off.             *)
RunsSettle == \A e \in Exec : status[e] = "running" ~> status[e] \in {"success", "error"}

(* Nobody sends once the channel is closed.                                *)
SendersHaveStopped ==
    closed => rcPc # "send" /\ sPc # "send" /\ \A r \in Request : hPc[r] # "send"
=============================================================================
