--------------------------- MODULE SchedulerProofs ---------------------------
(***************************************************************************)
(* Proofs about Scheduler, for any workflows, intervals, periods and tick. *)
(* Boundaries and starts are counted to MaxOwed: the count must reach two  *)
(* for the second boundary of a long cycle to be told from the first.      *)
(***************************************************************************)
EXTENDS Scheduler, FiniteSetTheorems, TLAPS

(* The types without Cardinality: there is one run at most.                *)
Typed ==
    /\ enabled \subseteq Workflow /\ seen \subseteq Workflow /\ listed \subseteq Workflow
    /\ last \in [Workflow -> Elapsed]
    /\ pc \in {"timer", "cycle", "run"} /\ timer \in 0..Tick
    /\ cycle \in Elapsed /\ agesAtNow \in [Workflow -> Elapsed]
    /\ phase \in 0..CronPeriod-1 /\ phaseAtNow \in 0..CronPeriod-1
    /\ started \in [Workflow -> Elapsed]
    /\ owed \in [Workflow -> 0..MaxOwed]

OneRun == running = {} \/ \E w \in Workflow : running = {w}

(* While the timer runs, what is left of it makes up the tick; in a cycle, *)
(* what is still to be handled has waited for a whole tick.                *)
WaitedATick ==
    /\ pc = "timer" => \A w \in Workflow : started[w] + timer >= Tick
    /\ pc # "timer" => \A w \in listed : started[w] >= Tick

(* A boundary since the last fire, as the clock sees it now, is owed.      *)
OwedSinceLast == \A w \in seen \cap IsCron : last[w] > phase => owed[w] > 0

(* In a cycle the boundaries before its "now" and after it are both owed.  *)
OwedInCycle ==
    pc # "timer" => \A w \in listed \cap seen \cap IsCron :
        /\ agesAtNow[w] > phaseAtNow => owed[w] > 0
        /\ cycle > phase => owed[w] > 0
        /\ agesAtNow[w] > phaseAtNow /\ cycle > phase => owed[w] > 1

OwedInv == OwedSinceLast /\ OwedInCycle
-----------------------------------------------------------------------------
LEMMA Bounds ==
    /\ CronPeriod \in Nat \ {0} /\ Tick \in Nat \ {0} /\ Horizon \in Nat /\ MaxOwed \in Nat \ {0}
    /\ Tick <= Horizon /\ IsCron \subseteq Workflow
  BY SchedulerAssumption

(* Saturated time stays within the bound and only ever grows by one.       *)
LEMMA Saturated ==
    ASSUME NEW n \in Elapsed
    PROVE  Sat(n + 1) \in Elapsed /\ Sat(n + 1) >= n /\ Sat(n + 1) <= n + 1
           /\ (n < Horizon => Sat(n + 1) = n + 1) /\ Sat(n + 1) <= Horizon
  BY Bounds DEF Sat, Elapsed

LEMMA TypedInit == Init => Typed /\ OneRun
  BY Bounds DEF Init, Typed, OneRun, Elapsed

LEMMA NextPhase ==
    ASSUME phase \in 0..CronPeriod-1
    PROVE  /\ (phase + 1) % CronPeriod \in 0..CronPeriod-1
           /\ (phase + 1) % CronPeriod = IF Boundary THEN 0 ELSE phase + 1
<1>1. CASE Boundary
  <2>1. phase + 1 = CronPeriod /\ CronPeriod % CronPeriod = 0
    BY <1>1, Bounds DEF Boundary
  <2> QED
    BY <1>1, <2>1, Bounds
<1>2. CASE ~Boundary
  <2>1. phase + 1 \in 0..CronPeriod-1
    BY <1>2, Bounds DEF Boundary
  <2> QED
    BY <1>2, <2>1, Bounds
<1> QED
  BY <1>1, <1>2

LEMMA PassTyped == Typed /\ Pass => Typed'
<1> SUFFICES ASSUME Typed, Pass PROVE Typed'
  OBVIOUS
<1> USE DEF Typed, Pass
<1>1. last' \in [Workflow -> Elapsed] /\ started' \in [Workflow -> Elapsed] /\ cycle' \in Elapsed
  BY Saturated
<1>2. timer' \in 0..Tick
  BY Bounds DEF AfterUnit
<1>3. phase' \in 0..CronPeriod-1
  BY NextPhase
<1>4. owed' \in [Workflow -> 0..MaxOwed]
  BY Bounds
<1> QED
  BY <1>1, <1>2, <1>3, <1>4

LEMMA CycleTyped ==
    ASSUME Typed, OneRun, NEW w \in Workflow, Handle(w)
    PROVE  (Typed /\ OneRun)'
<1> USE DEF Typed, OneRun, SetLast, nowVars
<1>1. CASE Baseline(w)
  BY <1>1, Bounds DEF Baseline
<1>2. CASE NotDue(w)
  BY <1>2 DEF NotDue
<1>3. CASE Fire(w)
  <2>1. started' \in [Workflow -> Elapsed]
    BY <1>3, Bounds DEF Fire, Elapsed
  <2>2. owed' \in [Workflow -> 0..MaxOwed]
    BY <1>3, Bounds DEF Fire
  <2> QED
    BY <1>3, <2>1, <2>2 DEF Fire
<1> QED
  BY <1>1, <1>2, <1>3 DEF Handle

LEMMA TypedNext == Typed /\ OneRun /\ [Next]_vars => (Typed /\ OneRun)'
<1> SUFFICES ASSUME Typed, OneRun, [Next]_vars PROVE (Typed /\ OneRun)'
  OBVIOUS
<1>1. CASE Pass
  BY <1>1, PassTyped DEF Pass, OneRun
<1>2. ASSUME NEW w \in Workflow, SaveWorkflow(w) PROVE (Typed /\ OneRun)'
  BY <1>2 DEF SaveWorkflow, Typed, OneRun, schedVars, nowVars
<1>3. ASSUME NEW w \in Workflow, Handle(w) PROVE (Typed /\ OneRun)'
  BY <1>3, CycleTyped
<1>4. CASE StartCycle
  BY <1>4, Bounds DEF StartCycle, Typed, OneRun, Elapsed
<1>5. CASE RunReturns
  BY <1>5 DEF RunReturns, Typed, OneRun, nowVars
<1>6. CASE EndCycle
  BY <1>6, Bounds DEF EndCycle, Reset, Typed, OneRun, nowVars
<1>7. CASE UNCHANGED vars
  BY <1>7 DEF vars, schedVars, nowVars, Typed, OneRun
<1> QED
  BY <1>1, <1>2, <1>3, <1>4, <1>5, <1>6, <1>7 DEF Next

(* Every variable keeps its type, and the scheduler has one run in hand.   *)
THEOREM TypeCorrect == Spec => []TypeOK
<1>1. OneRun => running \subseteq Workflow /\ Cardinality(running) <= 1
  <2>1. CASE running = {}
    BY <2>1, FS_EmptySet
  <2>2. ASSUME NEW w \in Workflow, running = {w} PROVE running \subseteq Workflow /\ Cardinality(running) <= 1
    <3>1. Cardinality({w}) = 1
      BY FS_Singleton
    <3> QED
      BY <2>2, <3>1
  <2> QED
    BY <2>1, <2>2 DEF OneRun
<1>2. Typed /\ OneRun => TypeOK
  BY <1>1 DEF Typed, TypeOK
<1> QED
  BY <1>2, TypedInit, TypedNext, PTL DEF Spec
-----------------------------------------------------------------------------
LEMMA WaitedInit == Init => WaitedATick
  BY Bounds DEF Init, WaitedATick, Elapsed

LEMMA PassWaited == Typed /\ WaitedATick /\ Pass => WaitedATick'
<1> SUFFICES ASSUME Typed, WaitedATick, Pass PROVE WaitedATick'
  OBVIOUS
<1>1. \A w \in Workflow : /\ started[w] \in Elapsed /\ started'[w] \in Elapsed /\ started'[w] >= started[w]
                          /\ started[w] < Horizon => started'[w] = started[w] + 1
  BY Saturated DEF Typed, Pass
<1>2. CASE pc = "timer"
  <2> SUFFICES ASSUME NEW w \in Workflow PROVE started'[w] + timer' >= Tick
    BY <1>2 DEF WaitedATick, Pass
  <2>1. started[w] + timer >= Tick /\ timer \in Nat /\ timer' = AfterUnit(timer)
    BY <1>2 DEF WaitedATick, Typed, Pass
  <2>2. CASE started[w] < Horizon
    BY <1>1, <2>1, <2>2, Bounds DEF AfterUnit, Elapsed
  <2>3. CASE started[w] = Horizon
    BY <1>1, <2>1, <2>3, Bounds DEF AfterUnit, Elapsed
  <2> QED
    BY <1>1, <2>2, <2>3, Bounds DEF Elapsed
<1>3. CASE pc # "timer"
  BY <1>1, <1>3, Bounds DEF WaitedATick, Typed, Pass, Elapsed
<1> QED
  BY <1>2, <1>3

LEMMA WaitedNext == Typed /\ WaitedATick /\ [Next]_vars => WaitedATick'
<1> SUFFICES ASSUME Typed, WaitedATick, [Next]_vars PROVE WaitedATick'
  OBVIOUS
<1> USE DEF WaitedATick
<1>1. CASE Pass
  BY <1>1, PassWaited
<1>2. ASSUME NEW w \in Workflow, SaveWorkflow(w) PROVE WaitedATick'
  BY <1>2 DEF SaveWorkflow, schedVars
<1>3. ASSUME NEW w \in Workflow, Handle(w) PROVE WaitedATick'
  <2>1. CASE Baseline(w)
    BY <2>1 DEF Baseline
  <2>2. CASE NotDue(w)
    BY <2>2 DEF NotDue
  <2>3. CASE Fire(w)
    BY <2>3 DEF Fire, Typed
  <2> QED
    BY <1>3, <2>1, <2>2, <2>3 DEF Handle
<1>4. CASE StartCycle
  <2>1. \A w \in Workflow : started[w] \in Nat /\ started[w] >= Tick /\ started'[w] = started[w]
    BY <1>4, Bounds DEF StartCycle, Typed, Elapsed
  <2>2. listed' \subseteq Workflow /\ timer' \in Nat
    BY <1>4, Bounds DEF StartCycle, Typed
  <2> QED
    BY <1>4, <2>1, <2>2, Bounds DEF StartCycle
<1>5. CASE RunReturns
  BY <1>5 DEF RunReturns
<1>6. CASE EndCycle
  BY <1>6, Bounds DEF EndCycle, Reset, Typed, Elapsed
<1>7. CASE UNCHANGED vars
  BY <1>7 DEF vars, schedVars
<1> QED
  BY <1>1, <1>2, <1>3, <1>4, <1>5, <1>6, <1>7 DEF Next

(* Only Fire starts a run, of one workflow.                                *)
LEMMA StartsByFire ==
    ASSUME [Next]_vars, NEW w \in running' \ running, w \in Workflow
    PROVE  Fire(w)
  BY DEF Next, Pass, SaveWorkflow, Handle, Baseline, NotDue, Fire, StartCycle, RunReturns, EndCycle,
     vars, schedVars

(* Two starts of one workflow are at least a tick apart.                   *)
THEOREM StartsAreApart == Spec => StartsApart
<1>1. Init => Typed /\ OneRun /\ WaitedATick
  BY TypedInit, WaitedInit
<1>2. Typed /\ OneRun /\ WaitedATick /\ [Next]_vars => (Typed /\ OneRun /\ WaitedATick)'
  BY TypedNext, WaitedNext
<1>3. WaitedATick /\ [Next]_vars
        => [\A w \in Workflow : w \in running' \ running => started[w] >= Tick]_vars
  BY StartsByFire DEF WaitedATick, Fire
<1> QED
  BY <1>1, <1>2, <1>3, PTL DEF Spec, StartsApart
-----------------------------------------------------------------------------
LEMMA OwedInit == Init => OwedInv
  BY DEF Init, OwedInv, OwedSinceLast, OwedInCycle

LEMMA PassOwed == MaxOwed > 1 /\ Typed /\ OwedInv /\ Pass => OwedInv'
<1> SUFFICES ASSUME MaxOwed > 1, Typed, OwedInv, Pass PROVE OwedInv'
  OBVIOUS
<1>1. phase' = (IF Boundary THEN 0 ELSE phase + 1) /\ phase \in Nat /\ phase' \in Nat
  BY NextPhase DEF Typed, Pass
<1>2. /\ UNCHANGED <<seen, pc, listed, agesAtNow, phaseAtNow>>
      /\ cycle \in Nat /\ cycle' \in Nat /\ cycle' <= cycle + 1
  BY Saturated DEF Typed, Pass, Elapsed
<1>3. \A w \in Workflow : last[w] \in Nat /\ last'[w] \in Nat /\ last'[w] <= last[w] + 1
  BY Saturated DEF Typed, Pass, Elapsed
<1>4. \A w \in seen \cap IsCron :
         /\ owed[w] \in 0..MaxOwed /\ owed'[w] \in Nat /\ owed'[w] >= owed[w]
         /\ Boundary => owed'[w] > 0 /\ (owed[w] > 0 => owed'[w] > 1)
  BY Bounds DEF Typed, Pass
<1>5. OwedSinceLast'
  <2> SUFFICES ASSUME NEW w \in seen \cap IsCron, last'[w] > phase' PROVE owed'[w] > 0
    BY <1>2 DEF OwedSinceLast
  <2>1. CASE Boundary
    BY <1>4, <2>1
  <2>2. CASE ~Boundary
    <3>1. last[w] > phase
      BY <1>1, <1>3, <2>2, Bounds
    <3> QED
      BY <1>4, <3>1 DEF OwedInv, OwedSinceLast
  <2> QED
    BY <2>1, <2>2
<1>6. OwedInCycle'
  <2> SUFFICES ASSUME pc # "timer", NEW w \in listed \cap seen \cap IsCron
               PROVE  /\ agesAtNow[w] > phaseAtNow => owed'[w] > 0
                      /\ cycle' > phase' => owed'[w] > 0
                      /\ agesAtNow[w] > phaseAtNow /\ cycle' > phase' => owed'[w] > 1
    BY <1>2 DEF OwedInCycle
  <2>1. /\ agesAtNow[w] > phaseAtNow => owed[w] > 0
        /\ cycle > phase => owed[w] > 0
        /\ agesAtNow[w] > phaseAtNow /\ cycle > phase => owed[w] > 1
    BY DEF OwedInv, OwedInCycle
  <2>2. CASE Boundary
    BY <1>4, <2>1, <2>2
  <2>3. CASE ~Boundary
    <3>1. cycle' > phase' => cycle > phase
      BY <1>1, <1>2, <2>3
    <3> QED
      BY <1>4, <2>1, <3>1
  <2> QED
    BY <2>2, <2>3
<1> QED
  BY <1>5, <1>6 DEF OwedInv

LEMMA HandleOwed ==
    ASSUME Typed, OwedInv, NEW w \in Workflow, Handle(w)
    PROVE  OwedInv'
<1> USE DEF Typed, OwedInv, OwedSinceLast, OwedInCycle, SetLast, nowVars
<1>1. CASE Baseline(w)
  BY <1>1, Bounds DEF Baseline
<1>2. CASE NotDue(w)
  BY <1>2 DEF NotDue
<1>3. CASE Fire(w)
  <2>1. \A v \in Workflow \ {w} : owed'[v] = owed[v] /\ last'[v] = last[v]
    BY <1>3 DEF Fire
  <2>2. w \notin listed' /\ listed' \subseteq listed /\ last'[w] = cycle
           /\ UNCHANGED <<seen, phase, cycle, agesAtNow, phaseAtNow>> /\ pc # "timer"
    BY <1>3 DEF Fire
  <2>3. w \in seen \cap IsCron /\ cycle > phase => owed'[w] > 0
    <3> SUFFICES ASSUME w \in seen \cap IsCron, cycle > phase PROVE owed'[w] > 0
      OBVIOUS
    <3>1. agesAtNow[w] > phaseAtNow /\ w \in listed
      BY <1>3 DEF Fire, Due
    <3>2. owed[w] > 1 /\ owed[w] \in Nat
      BY <2>2, <3>1, Bounds
    <3>3. owed'[w] = owed[w] - 1
      BY <1>3, <3>2, Bounds DEF Fire
    <3> QED
      BY <3>2, <3>3
  <2>4. OwedSinceLast'
    BY <2>1, <2>2, <2>3, Bounds
  <2>5. OwedInCycle'
    BY <2>1, <2>2, Bounds
  <2> QED
    BY <2>4, <2>5
<1> QED
  BY <1>1, <1>2, <1>3 DEF Handle

LEMMA OwedNext == MaxOwed > 1 /\ Typed /\ OwedInv /\ [Next]_vars => OwedInv'
<1> SUFFICES ASSUME MaxOwed > 1, Typed, OwedInv, [Next]_vars PROVE OwedInv'
  OBVIOUS
<1> USE DEF OwedInv, OwedSinceLast, OwedInCycle
<1>1. CASE Pass
  BY <1>1, PassOwed
<1>2. ASSUME NEW w \in Workflow, SaveWorkflow(w) PROVE OwedInv'
  BY <1>2 DEF SaveWorkflow, schedVars, nowVars
<1>3. ASSUME NEW w \in Workflow, Handle(w) PROVE OwedInv'
  BY <1>3, HandleOwed
<1>4. CASE StartCycle
  <2>1. cycle' = 0 /\ agesAtNow' = last /\ phaseAtNow' = phase /\ ~(0 > phase)
           /\ UNCHANGED <<last, seen, phase, owed>>
    BY <1>4 DEF StartCycle, Typed
  <2> QED
    BY <2>1
<1>5. CASE RunReturns
  BY <1>5 DEF RunReturns, nowVars
<1>6. CASE EndCycle
  BY <1>6 DEF EndCycle, nowVars
<1>7. CASE UNCHANGED vars
  BY <1>7 DEF vars, schedVars, nowVars
<1> QED
  BY <1>1, <1>2, <1>3, <1>4, <1>5, <1>6, <1>7 DEF Next

(* A cron schedule starts at most one run per boundary, also when a cycle  *)
(* lasts beyond the next one.                                              *)
THEOREM BoundariesStartOnce == ASSUME MaxOwed > 1 PROVE Spec => OneStartPerBoundary
<1>1. Init => Typed /\ OneRun /\ OwedInv
  BY TypedInit, OwedInit
<1>2. Typed /\ OneRun /\ OwedInv /\ [Next]_vars => (Typed /\ OneRun /\ OwedInv)'
  BY TypedNext, OwedNext
<1>3. Typed /\ OwedInv /\ [Next]_vars
        => [\A w \in IsCron : w \in running' \ running => owed[w] > 0]_vars
  <2> SUFFICES ASSUME Typed, OwedInv, [Next]_vars, NEW w \in IsCron, w \in running' \ running
               PROVE  owed[w] > 0
    OBVIOUS
  <2>1. Fire(w)
    BY StartsByFire, Bounds
  <2> QED
    BY <2>1 DEF Fire, Due, OwedInv, OwedInCycle
<1> QED
  BY <1>1, <1>2, <1>3, PTL DEF Spec, OneStartPerBoundary
=============================================================================
