----------------------------- MODULE Scheduler -----------------------------
(***************************************************************************)
(* The scheduler: server/internal/scheduler/scheduler.go.  One goroutine   *)
(* waits for its timer, lists the active workflows, and starts a run of    *)
(* each scheduled workflow that is due since its last fire.                *)
(*                                                                         *)
(* Time is discrete.  Instead of dates, which grow without bound, the      *)
(* variables hold the time elapsed since them, up to Horizon: beyond it    *)
(* every schedule is due.  A cron schedule is a period whose boundaries    *)
(* are the multiples of CronPeriod.                                        *)
(***************************************************************************)
EXTENDS Naturals, FiniteSets

CONSTANTS
    Workflow,   \* the workflows with a schedule trigger
    IsCron,     \* those in cron mode; the others are in interval mode
    Interval,   \* durationOf(amount, unit) of each workflow in interval mode
    CronPeriod, \* distance of the boundaries of the cron schedules
    Tick,       \* Scheduler.tick
    Horizon,    \* bound: elapsed times saturate here
    MaxOwed     \* bound: the count of boundaries without a fire saturates here

ASSUME SchedulerAssumption ==
    /\ IsCron \subseteq Workflow
    /\ Interval \in [Workflow -> Nat \ {0}]
    /\ CronPeriod \in Nat \ {0} /\ Tick \in Nat \ {0}
    /\ Horizon \in Nat /\ MaxOwed \in Nat \ {0}
    /\ \A w \in Workflow : Interval[w] <= Horizon
    /\ CronPeriod <= Horizon /\ Tick <= Horizon

Elapsed == 0..Horizon

VARIABLES
    enabled,   \* workflows.active, as the API last saved it
    last,      \* elapsed since Scheduler.last of a workflow
    seen,      \* the workflows in Scheduler.last
    pc,        \* "timer": waiting for the tick; "cycle": in fireDue; "run": in Engine.Run
    timer,     \* remaining time of the timer
    listed,    \* what ListActiveWorkflows returned, and is not yet handled
    running,   \* the workflow whose Run has not returned
    cycle,     \* elapsed since fireDue's "now"
    agesAtNow, \* "now" minus last, for each workflow
    phaseAtNow,\* "now" minus the latest cron boundary
    phase,     \* elapsed since the latest cron boundary
    \* history
    started,   \* elapsed since the scheduler last called Run for a workflow
    owed       \* cron boundaries passed while the workflow was known, minus its fires

schedVars == <<pc, timer, listed, running>>
nowVars   == <<cycle, agesAtNow, phaseAtNow>>
vars == <<enabled, last, seen, schedVars, nowVars, phase, started, owed>>

TypeOK ==
    /\ enabled \subseteq Workflow /\ seen \subseteq Workflow /\ listed \subseteq Workflow
    /\ last \in [Workflow -> Elapsed]
    /\ pc \in {"timer", "cycle", "run"} /\ timer \in 0..Tick
    /\ running \subseteq Workflow /\ Cardinality(running) <= 1
    /\ cycle \in Elapsed /\ agesAtNow \in [Workflow -> Elapsed]
    /\ phase \in 0..CronPeriod-1 /\ phaseAtNow \in 0..CronPeriod-1
    /\ started \in [Workflow -> Elapsed]
    /\ owed \in [Workflow -> 0..MaxOwed]

Init ==
    /\ enabled \in SUBSET Workflow
    /\ seen = {} /\ last = [w \in Workflow |-> Horizon]
    /\ pc = "timer" /\ timer = Tick
    /\ listed = {} /\ running = {}
    /\ cycle = 0 /\ phaseAtNow = 0
    /\ agesAtNow = [w \in Workflow |-> 0]
    /\ phase \in 0..CronPeriod-1
    /\ started = [w \in Workflow |-> Horizon]
    /\ owed = [w \in Workflow |-> 0]

Sat(n) == IF n > Horizon THEN Horizon ELSE n

-----------------------------------------------------------------------------
(* A unit of time passes, whatever the goroutine does.                     *)
AfterUnit(t) == IF t = 0 THEN 0 ELSE t - 1

Boundary == phase = CronPeriod - 1

Pass ==
    /\ timer' = IF pc = "timer" THEN AfterUnit(timer) ELSE timer
    /\ last' = [w \in Workflow |-> Sat(last[w] + 1)]
    /\ started' = [w \in Workflow |-> Sat(started[w] + 1)]
    /\ cycle' = Sat(cycle + 1)
    /\ phase' = (phase + 1) % CronPeriod
    /\ owed' = [w \in Workflow |-> IF Boundary /\ w \in seen \cap IsCron /\ owed[w] < MaxOwed
                                   THEN owed[w] + 1 ELSE owed[w]]
    /\ UNCHANGED <<enabled, seen, pc, listed, running, agesAtNow, phaseAtNow>>

(* PUT /api/workflows/{id}, or activation in the canvas.                   *)
SaveWorkflow(w) ==
    /\ enabled' \in {enabled \cup {w}, enabled \ {w}}
    /\ UNCHANGED <<last, seen, schedVars, nowVars, phase, started, owed>>

-----------------------------------------------------------------------------
(* The timer fires: fireDue takes the time and lists, or fails to list.    *)
StartCycle ==
    /\ pc = "timer" /\ timer = 0
    /\ \/ pc' = "cycle" /\ listed' = enabled /\ UNCHANGED timer
       \/ timer' = Tick /\ UNCHANGED <<pc, listed>>
    /\ cycle' = 0 /\ agesAtNow' = last /\ phaseAtNow' = phase
    /\ UNCHANGED <<enabled, last, seen, running, phase, started, owed>>

(* due: in cron mode the first boundary after last is not after now.       *)
Due_WithinPeriod(w) == IF w \in IsCron THEN agesAtNow[w] >= phaseAtNow ELSE agesAtNow[w] > 0

Due(w) == IF w \in IsCron THEN agesAtNow[w] > phaseAtNow ELSE agesAtNow[w] >= Interval[w]

(* setLast(now): now is the one fireDue was called with.                   *)
SetLast(w) == last' = [last EXCEPT ![w] = cycle]

(* A workflow that the scheduler sees for the first time gets a baseline.  *)
Baseline(w) ==
    /\ pc = "cycle" /\ w \in listed \ seen
    /\ listed' = listed \ {w}
    /\ seen' = seen \cup {w} /\ SetLast(w)
    /\ owed' = [owed EXCEPT ![w] = IF w \in IsCron /\ cycle > phase THEN 1 ELSE 0]
    /\ UNCHANGED <<enabled, pc, timer, running, nowVars, phase, started>>

NotDue_Rebaselined(w) ==
    /\ pc = "cycle" /\ w \in listed \cap seen /\ ~Due(w)
    /\ listed' = listed \ {w} /\ SetLast(w)
    /\ UNCHANGED <<enabled, seen, pc, timer, running, nowVars, phase, started, owed>>

NotDue(w) ==
    /\ pc = "cycle" /\ w \in listed \cap seen /\ ~Due(w)
    /\ listed' = listed \ {w}
    /\ UNCHANGED <<enabled, last, seen, pc, timer, running, nowVars, phase, started, owed>>

(* The last fire is recorded before Run, which blocks while the job        *)
(* channel is full and with it every other schedule.                       *)
Fire(w) ==
    /\ pc = "cycle" /\ w \in listed \cap seen /\ Due(w)
    /\ listed' = listed \ {w}
    /\ SetLast(w)
    /\ pc' = "run" /\ running' = {w}
    /\ started' = [started EXCEPT ![w] = 0]
    /\ owed' = [owed EXCEPT ![w] = IF w \in IsCron /\ @ > 0 THEN @ - 1 ELSE @]
    /\ UNCHANGED <<enabled, seen, timer, nowVars, phase>>

(* Engine.Run returns, with an error or not, once the job channel has room.*)
RunReturns ==
    /\ pc = "run"
    /\ pc' = "cycle" /\ running' = {}
    /\ UNCHANGED <<enabled, last, seen, timer, listed, nowVars, phase, started, owed>>

(* fireDue returns and the timer is reset: the next tick is a whole Tick   *)
(* away, however long the cycle took.                                      *)
Reset_Ticker == timer' = IF cycle >= Tick THEN 0 ELSE Tick - cycle

Reset == timer' = Tick

EndCycle ==
    /\ pc = "cycle" /\ listed = {}
    /\ pc' = "timer" /\ Reset
    /\ UNCHANGED <<enabled, last, seen, listed, running, nowVars, phase, started, owed>>

Handle(w) == Baseline(w) \/ NotDue(w) \/ Fire(w)

Next ==
    \/ Pass
    \/ \E w \in Workflow : SaveWorkflow(w) \/ Handle(w)
    \/ StartCycle \/ RunReturns \/ EndCycle

Spec == Init /\ [][Next]_vars

(* Time passes, the goroutine is scheduled, and Run returns (the workers   *)
(* receive jobs); the store answers ListActiveWorkflows now and then.      *)
FairSpec ==
    /\ Spec
    /\ WF_vars(Pass)
    /\ SF_vars(StartCycle /\ pc' = "cycle") /\ WF_vars(StartCycle)
    /\ WF_vars(RunReturns) /\ WF_vars(EndCycle)
    /\ \A w \in Workflow : WF_vars(Handle(w))

-----------------------------------------------------------------------------
(* Properties                                                              *)

(* Two starts of one workflow are at least a tick apart, however late the  *)
(* first cycle ends: the timer is reset after the cycle.                   *)
StartsApart ==
    [][\A w \in Workflow : w \in running' \ running => started[w] >= Tick]_vars

(* A cron schedule starts at most one run per boundary: a late cycle, a    *)
(* stale "now" or a deactivation in between do not add one.                *)
OneStartPerBoundary ==
    [][\A w \in IsCron : w \in running' \ running => owed[w] > 0]_vars

(* An active workflow goes on firing, whatever the other one and the API   *)
(* do and however often the store or Run fails.                            *)
FiresWhileEnabled ==
    \A w \in Workflow : <>[](w \in enabled) => []<>(w \in running)
=============================================================================
