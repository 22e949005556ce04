--------------------------- MODULE PollingProofs ---------------------------
(***************************************************************************)
(* What a run of a polling trigger emits, for any number of items, any     *)
(* overlap, any interval and back-off, and any word width.                 *)
(***************************************************************************)
EXTENDS Polling, Induction, TLAPS

(* The bound on elapsed time is a natural number whatever the constants,   *)
(* and not below a second.                                                 *)
LEMMA HorizonIsNat == Horizon \in Nat /\ Second <= Horizon
  BY PollingAssumption DEF PollingAssumption, Horizon, AtMost

(* A phase is a part of a second.                                          *)
LEMMA PhaseStep ==
  ASSUME NEW n \in 0..(Second - 1)
  PROVE  (n + 1) % Second \in 0..(Second - 1) /\ n \in 0..Horizon
<1> USE PollingAssumption, HorizonIsNat DEF PollingAssumption
<1>1. n + 1 \in Nat /\ Second \in Nat \ {0}
  OBVIOUS
<1>2. (n + 1) % Second \in 0..(Second - 1)
  BY <1>1
<1> QED
  BY <1>2

(* What one poll emits is part of what has been published.                 *)
LEMMA NewIDsAreItems == NewIDs \subseteq NewItems /\ NewItems \subseteq Item
  BY DEF NewIDs, NewItems, Fetched

(***************************************************************************)
(* Every variable keeps its type: elapsed times and the idle count stay    *)
(* within their bounds, and only items with an id are remembered as seen.  *)
(***************************************************************************)
THEOREM TypeCorrect == Spec => []TypeOK
<1>1. Init => TypeOK
  <2> SUFFICES ASSUME Init PROVE TypeOK
    OBVIOUS
  <2>1. polled \in BOOLEAN /\ dedup \in BOOLEAN
    BY Zenon DEF Init
  <2> QED
    BY <2>1, PollingAssumption, HorizonIsNat DEF PollingAssumption, Init, TypeOK
<1>2. TypeOK /\ [Next]_vars => TypeOK'
  <2> SUFFICES ASSUME TypeOK, [Next]_vars PROVE TypeOK'
    OBVIOUS
  <2> USE PollingAssumption, HorizonIsNat DEF PollingAssumption, TypeOK
  <2>1. CASE Publish
    BY <2>1 DEF Publish, pollState
  <2>2. CASE Pass
    BY <2>2, PhaseStep DEF Pass, AtMost
  <2>3. CASE NewRun
    <3>1. polled' \in BOOLEAN
      BY <2>3, Zenon DEF NewRun, FreshState
    <3> QED
      BY <2>3, <3>1 DEF NewRun, FreshState
  <2>4. CASE ShouldFire
    BY <2>4, PhaseStep DEF ShouldFire, MarkFired
  <2>5. CASE FetchFails
    BY <2>5 DEF FetchFails, pollState
  <2>6. CASE Emit
    <3>1. emitted' \in [Item -> 0..2]
      BY <2>6 DEF Emit, AtMost
    <3>2. seenIDs' \subseteq Item \ NoId
      BY <2>6, NewIDsAreItems DEF Emit, NewIDs
    <3>3. idle' \in 0..MaxIdle
      BY <2>6 DEF Emit, IdleAfter, AtMost
    <3>4. cursor' \in 0..MaxItems
      BY <2>6 DEF Emit
    <3> QED
      BY <2>6, <3>1, <3>2, <3>3, <3>4 DEF Emit
  <2>7. CASE UNCHANGED vars
    BY <2>7 DEF vars, pollState
  <2> QED
    BY <2>1, <2>2, <2>3, <2>4, <2>5, <2>6, <2>7 DEF Next
<1> QED
  BY <1>1, <1>2, PTL DEF Spec

-----------------------------------------------------------------------------
(* The seen ids are those of the items that the run has emitted, each of   *)
(* them once, where the trigger passes an id function.                     *)
SeenOnce ==
    \A i \in Item \ NoId : /\ i \in seenIDs <=> emitted[i] = 1
                           /\ i \notin seenIDs <=> emitted[i] = 0

SeenIsEmitted == dedup => SeenOnce

EmissionInv == TypeOK /\ SeenIsEmitted /\ CursorSkipsNothing

(* What is new, where there are ids and where there are none.              *)
LEMMA NewItemsByIds ==
  /\ dedup => /\ NewItems = {i \in Fetched : i \in NoId \/ i \notin seenIDs}
              /\ NewIDs = NewItems \ NoId
  /\ ~dedup => NewItems = Fetched
<1>1. dedup => NewItems = {i \in Fetched : i \in NoId \/ i \notin seenIDs}
  BY Zenon DEF NewItems
<1>2. dedup => NewIDs = NewItems \ NoId
  BY Zenon DEF NewIDs
<1>3. ~dedup => NewItems = Fetched
  BY Zenon DEF NewItems
<1> QED
  BY <1>1, <1>2, <1>3, Zenon

LEMMA EmissionInductive ==
  ASSUME EmissionInv, TypeOK', [Next]_vars
  PROVE  SeenIsEmitted' /\ CursorSkipsNothing'
<1> USE DEF EmissionInv, SeenIsEmitted, CursorSkipsNothing
<1>1. CASE NewRun
  BY <1>1, PollingAssumption DEF NewRun, FreshState, SeenOnce, PollingAssumption, Item
<1>2. CASE Emit
  <2>1. ASSUME NEW i \in Item
        PROVE  emitted'[i] = IF i \in NewItems THEN AtMost(emitted[i] + 1, 2) ELSE emitted[i]
    BY <1>2 DEF Emit
  <2>2. SeenIsEmitted'
    <3> SUFFICES ASSUME dedup, NEW i \in Item \ NoId
                 PROVE  /\ i \in seenIDs' <=> emitted'[i] = 1
                        /\ i \notin seenIDs' <=> emitted'[i] = 0
      BY <1>2, Zenon DEF Emit, SeenOnce
    <3>0. SeenOnce
      BY Zenon
    <3>5. NewItems = {j \in Fetched : j \in NoId \/ j \notin seenIDs} /\ NewIDs = NewItems \ NoId
      BY NewItemsByIds, Zenon
    <3>6. seenIDs' = seenIDs \cup NewIDs
      BY <1>2 DEF Emit
    <3> HIDE DEF SeenIsEmitted
    <3>1. CASE i \in NewItems
      <4>1. i \notin seenIDs /\ emitted[i] = 0
        BY <3>0, <3>1, <3>5 DEF SeenOnce
      <4>2. emitted'[i] = 1
        BY <2>1, <3>1, <4>1 DEF AtMost
      <4> QED
        BY <3>1, <3>5, <3>6, <4>2
    <3>2. CASE i \notin NewItems
      BY <2>1, <3>0, <3>2, <3>5, <3>6 DEF SeenOnce
    <3> QED
      BY <3>1, <3>2
  <2>3. CursorSkipsNothing'
    <3> SUFFICES ASSUME NEW i \in Item, i <= cursor \/ i <= published PROVE emitted'[i] >= 1
      BY <1>2 DEF Emit
    <3>1. emitted[i] \in 0..2
      BY DEF TypeOK
    <3>2. CASE i \in NewItems
      BY <2>1, <3>1, <3>2 DEF AtMost
    <3>3. CASE i \in Fetched \ NewItems
      <4>1. dedup
        BY <3>3, NewItemsByIds, Zenon
      <4>2. i \notin NoId /\ i \in seenIDs
        BY <3>3, <4>1, NewItemsByIds, Zenon
      <4>3. SeenOnce
        BY <4>1, Zenon
      <4>4. emitted[i] = 1
        BY <4>2, <4>3 DEF SeenOnce
      <4> QED
        BY <2>1, <3>3, <4>4
    <3>4. CASE i \notin Fetched
      <4>1. i <= cursor
        BY <3>4, PollingAssumption DEF Fetched, Item, TypeOK, PollingAssumption
      <4>2. i \notin NewItems
        BY <3>4 DEF NewItems
      <4> QED
        BY <2>1, <4>1, <4>2
    <3> QED
      BY <3>2, <3>3, <3>4
  <2> QED
    BY <2>2, <2>3
<1>3. CASE Publish \/ Pass \/ ShouldFire \/ FetchFails \/ UNCHANGED vars
  BY <1>3 DEF Publish, Pass, ShouldFire, FetchFails, MarkFired, SeenOnce, vars, pollState
<1> QED
  BY <1>1, <1>2, <1>3 DEF Next

LEMMA EmissionCorrect == Spec => []EmissionInv
<1>1. Init => SeenIsEmitted /\ CursorSkipsNothing
  BY PollingAssumption DEF Init, SeenIsEmitted, SeenOnce, CursorSkipsNothing, PollingAssumption, Item
<1>2. TypeOK /\ TypeOK' /\ SeenIsEmitted /\ CursorSkipsNothing /\ [Next]_vars
         => SeenIsEmitted' /\ CursorSkipsNothing'
  BY EmissionInductive DEF EmissionInv
<1> QED
  BY <1>1, <1>2, TypeCorrect, PTL DEF Spec, EmissionInv

(* A run never emits an item with an id twice, however often the fetch     *)
(* returns it and whatever polls fail in between.                          *)
THEOREM NothingTwice == Spec => []NeverTwice
<1>1. EmissionInv => NeverTwice
  <2> SUFFICES ASSUME EmissionInv, dedup, NEW i \in Item \ NoId PROVE emitted[i] <= 1
    BY Zenon DEF NeverTwice
  <2>1. SeenOnce
    BY Zenon DEF EmissionInv, SeenIsEmitted
  <2> QED
    BY <2>1 DEF SeenOnce
<1> QED
  BY <1>1, EmissionCorrect, PTL

(* The cursor never moves past an item that the run has not emitted.       *)
THEOREM NothingSkipped == Spec => []CursorSkipsNothing
<1>1. EmissionInv => CursorSkipsNothing
  BY DEF EmissionInv
<1> QED
  BY <1>1, EmissionCorrect, PTL

-----------------------------------------------------------------------------
(* Powers of two.                                                          *)
LEMMA PowerStep ==
  Power \in [Nat -> Nat] /\ Power[0] = 1 /\ \A n \in Nat : Power[n + 1] = 2 * Power[n]
<1> DEFINE step == [v \in Nat |-> 2 * v]
           Doubles(f) == f = [n \in Nat |-> IF n = 0 THEN 1 ELSE 2 * f[n - 1]]
<1>1. PICK f \in [Nat -> Nat] : f[0] = 1 /\ \A n \in Nat : f[n + 1] = step[f[n]]
  <2>1. step \in [Nat -> Nat]
    OBVIOUS
  <2> HIDE DEF step
  <2>2. PICK one \in Nat : one = 1
    OBVIOUS
  <2>3. \E f \in [Nat -> Nat] : f[0] = one /\ \A n \in Nat : f[n + 1] = step[f[n]]
    BY <2>1, Iteration
  <2> QED
    BY <2>2, <2>3
<1>2. ASSUME NEW n \in Nat PROVE f[n] = IF n = 0 THEN 1 ELSE 2 * f[n - 1]
  <2>1. CASE n = 0
    BY <1>1, <2>1
  <2>2. CASE n # 0
    <3>1. n - 1 \in Nat /\ (n - 1) + 1 = n
      BY <2>2
    <3>2. f[(n - 1) + 1] = step[f[n - 1]]
      BY <1>1, <3>1
    <3> QED
      BY <1>1, <2>2, <3>1, <3>2
  <2> QED
    BY <2>1, <2>2
<1>3. Doubles(f)
  BY <1>2
<1>4. Doubles(Power)
  <2>1. Power = CHOOSE g : Doubles(g)
    BY DEF Power
  <2> HIDE DEF Doubles
  <2> QED
    BY <1>3, <2>1
<1>5. ASSUME NEW n \in Nat PROVE Power[n] = IF n = 0 THEN 1 ELSE 2 * Power[n - 1]
  BY <1>4
<1>6. Power[0] = 1 /\ \A n \in Nat : Power[n + 1] = 2 * Power[n]
  <2>1. ASSUME NEW n \in Nat PROVE Power[n + 1] = 2 * Power[n]
    <3>1. n + 1 \in Nat /\ n + 1 # 0 /\ (n + 1) - 1 = n
      OBVIOUS
    <3> QED
      BY <1>5, <3>1
  <2> QED
    BY <1>5, <2>1
<1>7. \A n \in Nat : Power[n] \in Nat
  <2> DEFINE S == {n \in Nat : Power[n] \in Nat}
  <2>1. 0 \in S /\ \A n \in Nat : n \in S => n + 1 \in S
    BY <1>6
  <2> HIDE DEF S
  <2>2. Nat \subseteq S
    BY <2>1, SetInduction
  <2> QED
    BY <2>2 DEF S
<1>8. Power = [n \in Nat |-> Power[n]]
  BY <1>4
<1> QED
  BY <1>6, <1>7, <1>8

(* They are positive and grow.                                             *)
LEMMA PowerGrows ==
  \A n \in Nat : Power[n] >= 1 /\ \A m \in Nat : m <= n => Power[m] <= Power[n]
<1> DEFINE S == {n \in Nat : Power[n] >= 1 /\ \A m \in Nat : m <= n => Power[m] <= Power[n]}
<1>1. 0 \in S
  BY PowerStep
<1>2. ASSUME NEW n \in Nat, n \in S PROVE n + 1 \in S
  <2>1. Power[n] \in Nat /\ Power[n] >= 1 /\ Power[n + 1] = 2 * Power[n] /\ Power[n + 1] \in Nat
    BY <1>2, PowerStep
  <2>2. ASSUME NEW m \in Nat, m <= n + 1 PROVE Power[m] <= Power[n + 1]
    <3>1. CASE m = n + 1
      BY <2>1, <3>1
    <3>2. CASE m <= n
      BY <1>2, <2>1, <3>2, PowerStep
    <3> QED
      BY <2>2, <3>1, <3>2
  <2> QED
    BY <2>1, <2>2
<1> HIDE DEF S
<1>3. Nat \subseteq S
  BY <1>1, <1>2, SetInduction
<1> QED
  BY <1>3 DEF S

(* A number that fits in a signed word is kept by it.                      *)
LEMMA WrapKeeps ==
  ASSUME NEW n \in Nat, n < Power[WordBits - 1]
  PROVE  Wrap(n) = n
<1> DEFINE half == Power[WordBits - 1]
<1>1. half \in Nat /\ Power[WordBits] = 2 * half
  <2>1. WordBits - 1 \in Nat /\ (WordBits - 1) + 1 = WordBits
    BY PollingAssumption DEF PollingAssumption
  <2> QED
    BY <2>1, PowerStep
<1>2. Wrap(n) = ((n + half) % (2 * half)) - half
  BY <1>1 DEF Wrap
<1> HIDE DEF half
<1>3. n < half
  BY DEF half
<1>4. n + half \in 0 .. (2 * half - 1) /\ 2 * half \in Nat \ {0}
  BY <1>1, <1>3
<1>5. (n + half) % (2 * half) = n + half
  BY <1>4
<1> QED
  BY <1>1, <1>2, <1>5

-----------------------------------------------------------------------------
(* The back-off                                                            *)

(* The interval is at most the cap, 32 times the interval fits in a word,  *)
(* and so does the shift for every idle count.  Beyond each of the three   *)
(* the code does poll more often: see the findings in the README.          *)
BackoffFits ==
    /\ Interval <= BackoffCap
    /\ 32 * Interval < Power[WordBits - 1]
    /\ MaxIdle - MaxIdlePolls <= WordBits - 2

LEMMA Multiplies ==
  \A a, b, c \in Nat : a <= b => c * a \in Nat /\ c * b \in Nat /\ c * a <= c * b
<1> SUFFICES ASSUME NEW a \in Nat, NEW b \in Nat, NEW c \in Nat, a <= b
             PROVE  c * a \in Nat /\ c * b \in Nat /\ c * a <= c * b
  OBVIOUS
<1>1. PICK d \in Nat : b = a + d
  <2>1. b - a \in Nat /\ b = a + (b - a)
    OBVIOUS
  <2> QED
    BY <2>1
<1>2. c * b = c * a + c * d /\ c * d \in Nat /\ c * a \in Nat
  BY <1>1
<1> QED
  BY <1>1, <1>2

(* The factor: 2, 4, 8, 16, 32, 32, and so on.                             *)
Factor(k) == AtMost(Power[k], 32)

LEMMA FactorGrows ==
  ASSUME NEW j \in Nat, NEW k \in Nat, j <= k
  PROVE  Factor(j) \in 1..32 /\ Factor(k) \in 1..32 /\ Factor(j) <= Factor(k)
<1>1. Power[j] \in Nat /\ Power[k] \in Nat /\ Power[j] >= 1 /\ Power[j] <= Power[k]
  BY PowerStep, PowerGrows
<1> QED
  BY <1>1 DEF Factor, AtMost

(* In a word the interval is what the comment of the code says it is.      *)
LEMMA IntervalValue ==
  ASSUME BackoffFits, NEW i \in 0..MaxIdle
  PROVE  EffectiveInterval(i) = IF i > MaxIdlePolls
                                THEN AtMost(Interval * Factor(i - MaxIdlePolls), BackoffCap)
                                ELSE Interval
<1> USE PollingAssumption DEF PollingAssumption
<1>1. CASE i > MaxIdlePolls
  <2> DEFINE k == i - MaxIdlePolls
  <2>1. k \in Nat /\ k + 1 \in Nat /\ k + 1 <= WordBits - 1 /\ WordBits - 1 \in Nat
        /\ ~(k >= WordBits)
    BY <1>1 DEF BackoffFits
  <2> HIDE DEF k
  <2>2. Power[k] < Power[WordBits - 1] /\ Power[k] \in Nat
    <3>1. Power[k + 1] = 2 * Power[k] /\ Power[k] >= 1 /\ Power[k] \in Nat
          /\ Power[k + 1] <= Power[WordBits - 1] /\ Power[WordBits - 1] \in Nat
      BY <2>1, PowerStep, PowerGrows
    <3> QED
      BY <3>1
  <2>3. ShiftLeft(k) = Power[k]
    BY <2>1, <2>2, WrapKeeps DEF ShiftLeft
  <2>4. Interval * Factor(k) \in Nat /\ Interval * Factor(k) < Power[WordBits - 1]
    <3>1. Factor(k) \in Nat /\ Factor(k) <= 32
      BY <2>1, FactorGrows
    <3>2. Interval * Factor(k) \in Nat /\ Interval * Factor(k) <= Interval * 32
      BY <3>1, Multiplies
    <3>3. Interval * 32 = 32 * Interval /\ Interval * 32 \in Nat /\ Power[WordBits - 1] \in Nat
      BY <2>1, PowerStep
    <3> DEFINE p == Interval * Factor(k)
               q == Interval * 32
    <3>4. p <= q /\ q < Power[WordBits - 1] /\ p \in Nat /\ q \in Nat
      BY <3>2, <3>3 DEF BackoffFits
    <3> HIDE DEF p, q
    <3>5. p < Power[WordBits - 1]
      BY <3>3, <3>4
    <3> QED
      BY <3>2, <3>5 DEF p
  <2>5. Wrap(Interval * Factor(k)) = Interval * Factor(k)
    BY <2>4, WrapKeeps
  <2>6. EffectiveInterval(i) = AtMost(Wrap(Interval * AtMost(ShiftLeft(k), 32)), BackoffCap)
    BY <1>1 DEF EffectiveInterval, k
  <2>7. EffectiveInterval(i) = AtMost(Interval * Factor(k), BackoffCap)
    BY <2>3, <2>5, <2>6 DEF Factor
  <2> QED
    BY <1>1, <2>7 DEF k
<1>2. CASE ~(i > MaxIdlePolls)
  BY <1>2 DEF EffectiveInterval
<1> QED
  BY <1>1, <1>2

(* It is never below the interval and does not shrink.                     *)
LEMMA IntervalGrows ==
  ASSUME BackoffFits, NEW i \in 0..MaxIdle, NEW j \in 0..MaxIdle, i <= j
  PROVE  /\ EffectiveInterval(i) \in Nat /\ EffectiveInterval(j) \in Nat
         /\ Interval <= EffectiveInterval(i) /\ EffectiveInterval(i) <= EffectiveInterval(j)
<1> DEFINE prod(n) == Interval * Factor(n - MaxIdlePolls)
<1>0. Interval \in Nat /\ BackoffCap \in Nat /\ MaxIdlePolls \in Nat /\ Interval <= BackoffCap
      /\ i \in Nat /\ j \in Nat
  BY PollingAssumption DEF PollingAssumption, BackoffFits
<1>1. ASSUME NEW n \in Nat, n > MaxIdlePolls PROVE prod(n) \in Nat /\ Interval <= prod(n)
  <2>1. Factor(n - MaxIdlePolls) \in Nat /\ 1 <= Factor(n - MaxIdlePolls)
    <3>1. n - MaxIdlePolls \in Nat
      BY <1>0, <1>1
    <3> QED
      BY <3>1, FactorGrows
  <2>2. Interval * 1 <= prod(n) /\ prod(n) \in Nat /\ Interval * 1 = Interval
    BY <1>0, <2>1, Multiplies
  <2> QED
    BY <2>2
<1>2. i > MaxIdlePolls => j > MaxIdlePolls /\ prod(i) <= prod(j)
  <2> SUFFICES ASSUME i > MaxIdlePolls PROVE j > MaxIdlePolls /\ prod(i) <= prod(j)
    OBVIOUS
  <2>1. i - MaxIdlePolls \in Nat /\ j - MaxIdlePolls \in Nat /\ j > MaxIdlePolls
        /\ i - MaxIdlePolls <= j - MaxIdlePolls
    BY <1>0
  <2>2. Factor(i - MaxIdlePolls) \in Nat /\ Factor(j - MaxIdlePolls) \in Nat
        /\ Factor(i - MaxIdlePolls) <= Factor(j - MaxIdlePolls)
    BY <2>1, FactorGrows
  <2> QED
    BY <1>0, <2>1, <2>2, Multiplies
<1>3. /\ EffectiveInterval(i) = IF i > MaxIdlePolls THEN AtMost(prod(i), BackoffCap) ELSE Interval
      /\ EffectiveInterval(j) = IF j > MaxIdlePolls THEN AtMost(prod(j), BackoffCap) ELSE Interval
  BY IntervalValue
<1>4. /\ i > MaxIdlePolls => prod(i) \in Nat /\ Interval <= prod(i)
      /\ j > MaxIdlePolls => prod(j) \in Nat /\ Interval <= prod(j)
  BY <1>0, <1>1
<1> HIDE DEF prod
<1> QED
  BY <1>0, <1>2, <1>3, <1>4 DEF AtMost

(* The other side of the bound: once the shift has left the word the       *)
(* interval is zero, and every call of the trigger polls.                  *)
THEOREM BackoffCollapses ==
  ASSUME NEW i \in Nat, i >= MaxIdlePolls + WordBits
  PROVE  EffectiveInterval(i) = 0
<1> USE PollingAssumption DEF PollingAssumption
<1>1. i > MaxIdlePolls /\ i - MaxIdlePolls >= WordBits
  OBVIOUS
<1>2. Wrap(0) = 0
  <2>1. 0 \in Nat /\ WordBits - 1 \in Nat
    OBVIOUS
  <2>2. 0 < Power[WordBits - 1]
    BY <2>1, PowerStep, PowerGrows
  <2> QED
    BY <2>1, <2>2, WrapKeeps
<1>3. ShiftLeft(i - MaxIdlePolls) = 0
  BY <1>1 DEF ShiftLeft
<1>4. AtMost(ShiftLeft(i - MaxIdlePolls), 32) = 0 /\ Interval * 0 = 0
  BY <1>3 DEF AtMost
<1>5. EffectiveInterval(i) = AtMost(Wrap(0), BackoffCap)
  BY <1>1, <1>4 DEF EffectiveInterval
<1> QED
  BY <1>2, <1>5 DEF AtMost

(* The state of the run overstates the time since the last poll by less    *)
(* than a second, whether its fetch succeeded or failed.                   *)
SinceIsClose == polled => since < gap + Second

LEMMA SinceStep == TypeOK /\ SinceIsClose /\ [Next]_vars => SinceIsClose'
<1> SUFFICES ASSUME TypeOK, SinceIsClose, [Next]_vars, polled' PROVE since' < gap' + Second
  BY DEF SinceIsClose
<1> USE PollingAssumption, HorizonIsNat DEF PollingAssumption, TypeOK
<1>1. CASE Pass
  <2>1. since < gap + Second
    BY <1>1 DEF Pass, SinceIsClose
  <2> QED
    BY <1>1, <2>1 DEF Pass, AtMost
<1>2. CASE NewRun
  BY <1>2, Zenon DEF NewRun, FreshState
<1>3. CASE ShouldFire
  BY <1>3 DEF ShouldFire, MarkFired
<1>4. CASE Publish \/ FetchFails \/ Emit \/ UNCHANGED vars
  <2>1. UNCHANGED <<polled, since, gap>>
    BY <1>4 DEF Publish, FetchFails, Emit, vars, pollState
  <2> QED
    BY <2>1 DEF SinceIsClose
<1> QED
  BY <1>1, <1>2, <1>3, <1>4 DEF Next

(* Polls are more than the interval less a second apart, also after a      *)
(* failed fetch; idle polls never shorten it; and an item with an id, or   *)
(* any item where there are no ids, ends the back-off.                     *)
THEOREM BackoffOnlyDelays ==
  ASSUME BackoffFits
  PROVE  Spec => NotMoreOften
<1>1. ASSUME TypeOK, SinceIsClose, pc = "idle", pc' = "fetch", polled, [Next]_vars
      PROVE  gap > Interval - Second
  <2>1. ShouldFire
    BY <1>1 DEF Next, Publish, Pass, NewRun, FetchFails, Emit, vars
  <2>2. since >= EffectiveInterval(idle) /\ idle \in 0..MaxIdle /\ since < gap + Second
        /\ gap \in Nat /\ since \in Nat
    BY <1>1, <2>1, HorizonIsNat DEF ShouldFire, SinceIsClose, TypeOK
  <2>3. Interval <= EffectiveInterval(idle) /\ EffectiveInterval(idle) \in Nat
    BY <2>2, IntervalGrows
  <2> QED
    BY <2>2, <2>3, PollingAssumption DEF PollingAssumption
<1>2. ASSUME TypeOK, TypeOK', idle' > idle
      PROVE  EffectiveInterval(idle') >= EffectiveInterval(idle)
  <2>1. ASSUME NEW i \in 0..MaxIdle, NEW j \in 0..MaxIdle, j > i
        PROVE  EffectiveInterval(j) >= EffectiveInterval(i)
    <3>1. i <= j
      BY <2>1, PollingAssumption DEF PollingAssumption
    <3> QED
      BY <3>1, IntervalGrows
  <2>2. idle \in 0..MaxIdle /\ idle' \in 0..MaxIdle
    BY <1>2 DEF TypeOK
  <2> QED
    BY <1>2, <2>1, <2>2, Zenon
<1>3. ASSUME TypeOK, [Next]_vars, pc = "fetch", NEW i \in Item, dedup => i \notin NoId, emitted'[i] > emitted[i]
      PROVE  idle' = 0
  <2>1. emitted[i] \in 0..2
    BY <1>3 DEF TypeOK
  <2>2. CASE Emit
    <3>1. i \in NewItems
      BY <1>3, <2>1, <2>2 DEF Emit
    <3>2. i \in Fetched /\ (dedup => i \in NewIDs)
      BY <1>3, <3>1 DEF NewItems, NewIDs
    <3>3. ~IsIdle
      BY <3>2 DEF IsIdle
    <3> QED
      BY <2>2, <3>3 DEF Emit, IdleAfter
  <2>3. CASE ~Emit
    <3>1. UNCHANGED emitted
      BY <1>3, <2>3 DEF Next, Publish, Pass, NewRun, ShouldFire, FetchFails, vars
    <3> QED
      BY <1>3, <2>1, <3>1
  <2> QED
    BY <2>2, <2>3
<1>4. TypeOK /\ TypeOK' /\ SinceIsClose /\ [Next]_vars =>
        [/\ pc = "idle" /\ pc' = "fetch" /\ polled => gap > Interval - Second
         /\ idle' > idle => EffectiveInterval(idle') >= EffectiveInterval(idle)
         /\ pc = "fetch" /\ (\E i \in Item : (dedup => i \notin NoId) /\ emitted'[i] > emitted[i])
               => idle' = 0]_vars
  BY <1>1, <1>2, <1>3
<1>5. Init => SinceIsClose
  BY DEF Init, SinceIsClose
<1> QED
  BY <1>4, <1>5, SinceStep, TypeCorrect, PTL DEF Spec, NotMoreOften
=============================================================================
