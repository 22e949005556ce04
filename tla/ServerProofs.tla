---------------------------- MODULE ServerProofs -----------------------------
(***************************************************************************)
(* Proofs about the HTTP server's own state: the rate limiter, for any number *)
(* of callers, any rate, burst and time of forgetting; the requests that watch *)
(* an execution, for any number of streams, steps and looks; the OAuth2    *)
(* service, for any number of authorizations, redirects, clients and tokens; *)
(* and the three together.                                                 *)
(***************************************************************************)
EXTENDS Server, TLAPS

(***************************************************************************)
(* The rate limiter: it implements the token bucket of TokenBucket, and lets *)
(* no more requests through in any span of time than the burst and the rate *)
(* allow.                                                                  *)
(***************************************************************************)

(* What the rate adds in a longer time is more, and adds up.               *)
LEMMA RateAdds ==
    ASSUME NEW a \in Nat, NEW b \in Nat
    PROVE  /\ Rate * a \in Nat
           /\ Rate * (a + b) = Rate * a + Rate * b
           /\ a >= b => Rate * a >= Rate * b
<1> USE RateLimiterAssumption DEF RateLimiterAssumption
<1>1. Rate * a \in Nat /\ Rate * (a + b) = Rate * a + Rate * b
  OBVIOUS
<1>2. ASSUME a >= b PROVE Rate * a >= Rate * b
  <2>1. a - b \in Nat /\ a = b + (a - b)
    BY <1>2
  <2>2. Rate * (a - b) \in Nat
    BY <2>1
  <2>3. Rate * a = Rate * b + Rate * (a - b)
    BY <2>1
  <2> QED
    BY <2>2, <2>3
<1> QED
  BY <1>1, <1>2

(* The bucket of TokenBucket holds no more than its capacity.              *)
LEMMA LevelRange == ASSUME TypeOK, NEW k \in Key PROVE Level(k) \in 0 .. Capacity
<1> USE RateLimiterAssumption DEF RateLimiterAssumption
<1>1. CASE k \in known
  <2>1. tokens[k] \in 0 .. Capacity /\ now - lastFill[k] \in Nat
    BY DEF TypeOK, Time
  <2>2. Rate * (now - lastFill[k]) \in Nat
    BY <2>1, RateAdds
  <2> QED
    BY <1>1, <2>1, <2>2 DEF Level, AtMost
<1>2. CASE k \notin known
  BY <1>2 DEF Level
<1> QED
  BY <1>1, <1>2

(* A bucket that the clean-up drops would be full.                         *)
LEMMA ForgottenIsFull ==
    ASSUME TypeOK, NEW k \in known \ Kept
    PROVE  Level(k) = Capacity
<1> USE RateLimiterAssumption DEF RateLimiterAssumption
<1>1. k \in Key /\ now - lastFill[k] \in Nat /\ tokens[k] \in Nat
  BY DEF TypeOK, Time
<1>2. now - lastFill[k] > Idle
  BY <1>1 DEF Kept
<1>3. Rate * (now - lastFill[k]) >= Rate * Idle /\ Rate * (now - lastFill[k]) \in Nat /\ Rate * Idle \in Nat
  BY <1>1, <1>2, RateAdds
<1>4. tokens[k] + Rate * (now - lastFill[k]) >= Capacity
  BY <1>1, <1>3
<1> QED
  BY <1>1, <1>3, <1>4 DEF Level, AtMost

(* A refill finds the level of the bucket that is filled all the time.     *)
LEMMA RefilledIsLevel == ASSUME TypeOK, NEW k \in Key PROVE Refilled(k) = Level(k)
<1>1. Kept \subseteq known
  BY DEF Kept
<1>2. CASE k \in Kept
  BY <1>1, <1>2 DEF Refilled, Level
<1>3. CASE k \in known \ Kept
  BY <1>3, ForgottenIsFull DEF Refilled
<1>4. CASE k \notin known
  BY <1>1, <1>4 DEF Refilled, Level
<1> QED
  BY <1>2, <1>3, <1>4

(***************************************************************************)
(* Every variable keeps its type; no bucket is negative or over its burst. *)
(***************************************************************************)
THEOREM LimiterTypeCorrect == Spec => []TypeOK
<1> USE RateLimiterAssumption DEF RateLimiterAssumption
<1>1. Init => TypeOK
  BY DEF Init, TypeOK, Time, NoAnswer
<1>2. TypeOK /\ [Next]_limiterVars => TypeOK'
  <2> SUFFICES ASSUME TypeOK, [Next]_limiterVars PROVE TypeOK'
    OBVIOUS
  <2>1. CASE Tick
    BY <2>1 DEF Tick, TypeOK, Time, NoAnswer
  <2>2. ASSUME NEW k \in Key, Allow(k) PROVE TypeOK'
    <3> DEFINE allowed == Refilled(k) >= Cost
    <3>1. Refilled(k) \in 0 .. Capacity
      BY RefilledIsLevel, LevelRange
    <3>2. now' = now /\ now' \in Time /\ cleanup' \in 0 .. now'
      BY <2>2 DEF Allow, TypeOK, Time
    <3>3. known' \subseteq Key
      BY <2>2 DEF Allow, TypeOK, Kept
    <3>4. tokens' \in [Key -> 0 .. Capacity]
      BY <2>2, <3>1 DEF Allow, TypeOK
    <3>5. lastFill' \in [Key -> 0 .. now']
      BY <2>2 DEF Allow, TypeOK, Time
    <3>6. answer' \in [Key -> {"none", "allowed", "refused"}]
      BY <2>2 DEF Allow, Answer
    <3>7. since' \in [Key -> [Time -> Nat]]
      BY <2>2 DEF Allow, TypeOK
    <3> QED
      BY <3>2, <3>3, <3>4, <3>5, <3>6, <3>7 DEF TypeOK
  <2>3. CASE UNCHANGED limiterVars
    BY <2>3 DEF limiterVars, TypeOK
  <2> QED
    BY <2>1, <2>2, <2>3 DEF Next
<1> QED
  BY <1>1, <1>2, PTL DEF Spec

-----------------------------------------------------------------------------
(* What a step does to the level of the bucket.                            *)
LEMMA TickFills ==
    ASSUME TypeOK, Tick, NEW k \in Key
    PROVE  Level(k)' = AtMost(Level(k) + Rate, Capacity)
<1> USE RateLimiterAssumption DEF RateLimiterAssumption
<1>1. CASE k \in known
  <2> DEFINE age == now - lastFill[k]
  <2>1. age \in Nat /\ tokens[k] \in 0 .. Capacity
    BY DEF TypeOK, Time
  <2>2. now' - lastFill'[k] = age + 1 /\ tokens'[k] = tokens[k] /\ k \in known'
    BY <1>1, <2>1 DEF Tick, TypeOK, Time
  <2>3. Rate * (age + 1) = Rate * age + Rate /\ Rate * age \in Nat
    BY <2>1, RateAdds
  <2>4. Level(k)' = AtMost(tokens[k] + Rate * (age + 1), Capacity)
    BY <2>2 DEF Level
  <2>5. Level(k) = AtMost(tokens[k] + Rate * age, Capacity)
    BY <1>1 DEF Level
  <2> HIDE DEF age
  <2> QED
    BY <2>1, <2>3, <2>4, <2>5 DEF AtMost
<1>2. CASE k \notin known
  BY <1>2 DEF Level, Tick, AtMost
<1> QED
  BY <1>1, <1>2

LEMMA AllowTakes ==
    ASSUME TypeOK, NEW k \in Key, Allow(k)
    PROVE  \A j \in Key : Level(j)' = IF j = k /\ Level(k) >= Cost THEN Level(j) - Cost ELSE Level(j)
<1> USE RateLimiterAssumption DEF RateLimiterAssumption
<1>1. Level(k)' = IF Level(k) >= Cost THEN Level(k) - Cost ELSE Level(k)
  <2>1. Refilled(k) = Level(k) /\ Level(k) \in 0 .. Capacity
    BY RefilledIsLevel, LevelRange
  <2>2. k \in known' /\ now' - lastFill'[k] = 0
    BY DEF Allow, TypeOK, Time
  <2>3. tokens'[k] = IF Level(k) >= Cost THEN Level(k) - Cost ELSE Level(k)
    BY <2>1 DEF Allow, TypeOK
  <2>4. Level(k)' = AtMost(tokens'[k] + Rate * 0, Capacity)
    BY <2>2 DEF Level
  <2>5. Rate * 0 = 0
    OBVIOUS
  <2> QED
    BY <2>1, <2>3, <2>4, <2>5 DEF AtMost
<1>2. ASSUME NEW j \in Key, j # k PROVE Level(j)' = Level(j)
  <2>1. tokens'[j] = tokens[j] /\ lastFill'[j] = lastFill[j] /\ now' = now
    BY <1>2 DEF Allow, TypeOK
  <2>2. (j \in known') <=> (j \in Kept)
    BY <1>2 DEF Allow
  <2>3. CASE j \in Kept
    <3>1. j \in known
      BY <2>3 DEF Kept
    <3> QED
      BY <2>1, <2>2, <2>3, <3>1 DEF Level
  <2>4. CASE j \in known \ Kept
    BY <2>2, <2>4, ForgottenIsFull DEF Level
  <2>5. CASE j \notin known
    <3>1. j \notin Kept
      BY <2>5 DEF Kept
    <3> QED
      BY <2>2, <2>5, <3>1 DEF Level
  <2> QED
    BY <2>3, <2>4, <2>5
<1> QED
  BY <1>1, <1>2

(***************************************************************************)
(* The limiter implements the token bucket: neither the refill at the next *)
(* request nor the clean-up can be told from a bucket filled at each tick. *)
(***************************************************************************)
THEOREM Refinement == Spec => ImplementsTokenBucket
<1> USE RateLimiterAssumption DEF RateLimiterAssumption
<1>1. Init => Bucket!Init
  BY DEF Init, Bucket!Init, Level, NoAnswer, Bucket!NoAnswer
<1>2. TypeOK /\ [Next]_limiterVars => [Bucket!Next]_<<[k \in Key |-> Level(k)], answer>>
  <2> SUFFICES ASSUME TypeOK, [Next]_limiterVars
               PROVE  [Bucket!Next]_<<[k \in Key |-> Level(k)], answer>>
    OBVIOUS
  <2>1. CASE Tick
    <3>1. \A k \in Key : Level(k)' = AtMost(Level(k) + Rate, Capacity)
      BY <2>1, TickFills
    <3>2. answer' = NoAnswer
      BY <2>1 DEF Tick
    <3>3. Bucket!Fill
      BY <3>1, <3>2 DEF Bucket!Fill, Bucket!AtMost, AtMost, NoAnswer, Bucket!NoAnswer
    <3> QED
      BY <3>3 DEF Bucket!Next
  <2>2. ASSUME NEW k \in Key, Allow(k) PROVE Bucket!Request(k)
    <3>1. \A j \in Key : Level(j)' =
             IF j = k /\ Level(k) >= Cost THEN Level(j) - Cost ELSE Level(j)
      BY <2>2, AllowTakes
    <3>2. answer' = Answer(k, Level(k) >= Cost)
      BY <2>2, RefilledIsLevel DEF Allow
    <3> QED
      BY <3>1, <3>2 DEF Bucket!Request, Answer, Bucket!Answer
  <2>3. CASE UNCHANGED limiterVars
    BY <2>3 DEF limiterVars, Level
  <2> QED
    BY <2>1, <2>2, <2>3 DEF Next, Bucket!Next
<1> QED
  BY <1>1, <1>2, LimiterTypeCorrect, PTL DEF Spec, ImplementsTokenBucket, Bucket!Spec

-----------------------------------------------------------------------------
(* What has been let through since t and what is left in the bucket do not *)
(* exceed the burst and what the rate has added since t.                   *)
Budget ==
    \A k \in Key, t \in Time :
        IF t <= now THEN Cost * since[k][t] + Level(k) <= Capacity + Rate * (now - t)
        ELSE since[k][t] = 0

LEMMA TickKeepsBudget == ASSUME TypeOK, Budget, Tick PROVE Budget'
<1> USE RateLimiterAssumption DEF RateLimiterAssumption
<1> SUFFICES ASSUME NEW k \in Key, NEW t \in Time
             PROVE  IF t <= now' THEN Cost * since'[k][t] + Level(k)' <= Capacity + Rate * (now' - t)
                    ELSE since'[k][t] = 0
  BY DEF Budget, Time
<1>1. now' = now + 1 /\ since' = since /\ now \in Nat
  BY DEF Tick, TypeOK, Time
<1>2. Level(k) \in 0 .. Capacity /\ Level(k)' = AtMost(Level(k) + Rate, Capacity)
  BY LevelRange, TickFills
<1>3. since[k][t] \in Nat /\ Cost * since[k][t] \in Nat
  BY DEF TypeOK
<1>4. CASE t <= now
  <2>1. now - t \in Nat /\ now' - t = (now - t) + 1
    BY <1>1, <1>4 DEF Time
  <2>2. Rate * ((now - t) + 1) = Rate * (now - t) + Rate /\ Rate * (now - t) \in Nat
    BY <2>1, RateAdds
  <2>3. Cost * since[k][t] + Level(k) <= Capacity + Rate * (now - t)
    BY <1>4 DEF Budget
  <2>4. Rate * (now' - t) = Rate * (now - t) + Rate
    BY <2>1, <2>2
  <2>5. Cost * since'[k][t] = Cost * since[k][t]
    BY <1>1
  <2>6. t <= now'
    BY <1>1, <1>4 DEF Time
  <2> HIDE DEF Time
  <2> QED
    BY <1>2, <1>3, <2>2, <2>3, <2>4, <2>5, <2>6 DEF AtMost
<1>5. CASE t = now + 1
  <2>1. since'[k][t] = 0
    BY <1>1, <1>5 DEF Budget
  <2>2. now' - t = 0 /\ t <= now'
    BY <1>1, <1>5
  <2>3. Cost * 0 = 0 /\ Rate * 0 = 0
    OBVIOUS
  <2> QED
    BY <1>2, <2>1, <2>2, <2>3 DEF AtMost
<1>6. CASE t > now + 1
  BY <1>1, <1>6 DEF Budget, Time
<1> QED
  BY <1>1, <1>4, <1>5, <1>6 DEF Time

LEMMA AllowKeepsBudget == ASSUME TypeOK, Budget, NEW k \in Key, Allow(k) PROVE Budget'
<1> USE RateLimiterAssumption DEF RateLimiterAssumption
<1> SUFFICES ASSUME NEW j \in Key, NEW t \in Time
             PROVE  IF t <= now' THEN Cost * since'[j][t] + Level(j)' <= Capacity + Rate * (now' - t)
                    ELSE since'[j][t] = 0
  BY DEF Budget, Time
<1>1. now' = now /\ now \in Nat /\ t \in Nat
  BY DEF Allow, TypeOK, Time
<1>2. Level(j) \in 0 .. Capacity
      /\ Level(j)' = IF j = k /\ Level(k) >= Cost THEN Level(j) - Cost ELSE Level(j)
  BY LevelRange, AllowTakes
<1>3. Refilled(k) = Level(k)
  BY RefilledIsLevel
<1>4. since[j][t] \in Nat
  BY DEF TypeOK
<1>5. CASE j = k /\ Level(k) >= Cost /\ t <= now
  <2>1. since'[j][t] = since[j][t] + 1
    BY <1>3, <1>5 DEF Allow, TypeOK
  <2>2. Cost * (since[j][t] + 1) = Cost * since[j][t] + Cost
    BY <1>4
  <2>3. Level(j)' = Level(j) - Cost
    BY <1>2, <1>5
  <2>4. Cost * since[j][t] + Level(j) <= Capacity + Rate * (now - t)
    BY <1>5 DEF Budget
  <2>5. now - t \in Nat
    BY <1>1, <1>5
  <2>6. Rate * (now - t) \in Nat
    BY <2>5 DEF RateLimiterAssumption
  <2>8. Cost * since[j][t] \in Nat
    BY <1>4 DEF RateLimiterAssumption
  <2>7. Rate * (now' - t) = Rate * (now - t)
    BY <1>1
  <2> QED
    BY <1>1, <1>2, <1>5, <2>1, <2>2, <2>3, <2>4, <2>6, <2>7, <2>8
<1>6. CASE ~(j = k /\ Level(k) >= Cost /\ t <= now)
  <2>1. since'[j][t] = since[j][t]
    BY <1>3, <1>6 DEF Allow, TypeOK
  <2>2. CASE t <= now
    <3>1. Level(j)' = Level(j)
      BY <1>2, <1>6, <2>2
    <3> QED
      BY <1>1, <2>1, <2>2, <3>1 DEF Budget
  <2>3. CASE ~(t <= now)
    BY <1>1, <2>1, <2>3 DEF Budget
  <2> QED
    BY <2>2, <2>3
<1> QED
  BY <1>5, <1>6

(***************************************************************************)
(* No span of time sees more requests let through than the burst and what  *)
(* the rate adds in that span.                                             *)
(***************************************************************************)
THEOREM NoSpanOverruns == Spec => []WindowBound
<1> USE RateLimiterAssumption DEF RateLimiterAssumption
<1>1. Init => Budget
  <2> SUFFICES ASSUME Init, NEW k \in Key, NEW t \in Time
               PROVE  IF t <= now THEN Cost * since[k][t] + Level(k) <= Capacity + Rate * (now - t)
                      ELSE since[k][t] = 0
    BY DEF Budget
  <2>1. since[k][t] = 0 /\ now = 0 /\ Level(k) = Capacity
    BY DEF Init, Level
  <2>2. CASE t <= now
    <3>1. t = 0
      BY <2>1, <2>2 DEF Time
    <3>2. Cost * since[k][t] = 0 /\ Rate * (now - t) = 0
      BY <2>1, <3>1
    <3> QED
      BY <2>1, <2>2, <3>2
  <2> QED
    BY <2>1, <2>2
<1>2. TypeOK /\ Budget /\ [Next]_limiterVars => Budget'
  <2> SUFFICES ASSUME TypeOK, Budget, [Next]_limiterVars PROVE Budget'
    OBVIOUS
  <2>1. CASE Tick
    BY <2>1, TickKeepsBudget
  <2>2. CASE \E k \in Key : Allow(k)
    BY <2>2, AllowKeepsBudget
  <2>3. CASE UNCHANGED limiterVars
    BY <2>3 DEF limiterVars, Budget, Level
  <2> QED
    BY <2>1, <2>2, <2>3 DEF Next
<1>3. TypeOK /\ Budget => WindowBound
  <2> SUFFICES ASSUME TypeOK, Budget, NEW k \in Key, NEW t \in Time, t <= now
               PROVE  Cost * since[k][t] <= Capacity + Rate * (now - t)
    BY DEF WindowBound
  <2>1. Level(k) \in 0 .. Capacity
    BY LevelRange
  <2>2. Cost * since[k][t] + Level(k) <= Capacity + Rate * (now - t)
    BY DEF Budget
  <2>3. since[k][t] \in Nat /\ now - t \in Nat
    BY DEF TypeOK, Time
  <2>4. Cost * since[k][t] \in Nat /\ Rate * (now - t) \in Nat
    BY <2>3, RateAdds
  <2> QED
    BY <2>1, <2>2, <2>4
<1> QED
  BY <1>1, <1>2, <1>3, LimiterTypeCorrect, PTL DEF Spec
-----------------------------------------------------------------------------
(***************************************************************************)
(* The requests that watch an execution.                                   *)
(***************************************************************************)

(* A step is open only in a run that is not over.                          *)
OpenWhileRunning == open # {} => status = "running"

Typed == WatchTypeOK /\ OpenWhileRunning

(* What a request has seen to be over is over.                             *)
OverIsOver ==
    \A c \in Client :
        /\ first[c].status \in Terminal => status \in Terminal
        /\ event[c].kind = "state" /\ event[c].status \in Terminal => status \in Terminal

MonitorInv == Typed /\ OverIsOver /\ LastEventIsWhole

(* What the variables of a request hold.                                   *)
Place  == {"check", "status", "steps", "wait", "ended"}
Look   == [status : Terminal \cup {"running", "waiting", "none"}, steps : Rows]
Told   == [kind : {"none", "state", "blind", "error"},
           status : Terminal \cup {"running", "waiting", "none"}, steps : Rows]
-----------------------------------------------------------------------------
LEMMA EmptyRows == NoRows \in Rows /\ Unread \in Look /\ Nothing \in Told
<1>1. NoRows \in Rows
  BY DEF Rows, NoRows
<1> QED
  BY <1>1 DEF Look, Told, Unread, Nothing

LEMMA FailedRows ==
    ASSUME NEW rows \in Rows
    PROVE  Failed(rows) \in Rows /\ Failed(Failed(rows)) = Failed(rows)
  BY DEF Rows, Failed

LEMMA TypedInit == ASSUME MaxPolls \in Nat PROVE WatchInit => Typed
<1> SUFFICES ASSUME WatchInit PROVE Typed
  OBVIOUS
<1>1. steps \in Rows /\ open = {}
  BY EmptyRows DEF WatchInit
<1>2. first \in [Client -> Look] /\ event \in [Client -> Told]
  BY EmptyRows DEF WatchInit
<1>3. at \in [Client -> Place] /\ polls \in [Client -> 0 .. MaxPolls]
  BY DEF WatchInit, Begin, Place
<1>4. /\ exists \in BOOLEAN /\ driven \in BOOLEAN /\ overtaken \in BOOLEAN
      /\ recovery \in {"before", "listed", "done"} /\ status \in Terminal \cup {"running", "waiting"}
  BY DEF WatchInit
<1> QED
  BY <1>1, <1>2, <1>3, <1>4 DEF Typed, WatchTypeOK, OpenWhileRunning, Look, Told, Place

(* No step of the execution disturbs the types.                            *)
LEMMA DriveTyped ==
    ASSUME Typed, Drive \/ Recover \/ Restart
    PROVE  Typed'
<1> USE DEF Typed, WatchTypeOK, OpenWhileRunning, Terminal, execution, requests
<1>1. ASSUME NEW r \in Row, StartStep(r) PROVE Typed'
  BY <1>1 DEF StartStep, Rows
<1>2. ASSUME NEW r \in Row, FinishStep(r) PROVE Typed'
  <2>1. steps' \in Rows
    BY <1>2 DEF FinishStep, Rows
  <2> QED
    BY <1>2, <2>1 DEF FinishStep
<1>3. CASE FinishExecution
  BY <1>3 DEF FinishExecution
<1>4. CASE SetWaiting
  BY <1>4 DEF SetWaiting
<1>5. CASE ClaimWaiting
  BY <1>5 DEF ClaimWaiting
<1>6. CASE Restart
  BY <1>6 DEF Restart
<1>7. CASE ListRunning
  BY <1>7 DEF ListRunning
<1>8. CASE FailStaleRunningSteps
  BY <1>8, FailedRows DEF FailStaleRunningSteps
<1> QED
  BY <1>1, <1>2, <1>3, <1>4, <1>5, <1>6, <1>7, <1>8 DEF Drive, Recover

(* Neither does a request.                                                 *)
LEMMA AskTyped ==
    ASSUME MaxPolls \in Nat, Typed, NEW c \in Client, Ask(c)
    PROVE  Typed'
<1> USE DEF Typed, WatchTypeOK, OpenWhileRunning, execution
<1>1. Begin(c) \in Place /\ 0 \in 0 .. MaxPolls
  BY DEF Begin, Place
<1>2. first' \in [Client -> Look] /\ event' \in [Client -> Told]
  BY EmptyRows DEF Ask, Look, Told
<1>3. at' \in [Client -> Place] /\ polls' \in [Client -> 0 .. MaxPolls]
  BY <1>1 DEF Ask, Place
<1> QED
  BY <1>2, <1>3 DEF Ask, Look, Told, Place

LEMMA ServeTyped ==
    ASSUME MaxPolls \in Nat, Typed, NEW c \in Client, Serve(c)
    PROVE  Typed'
<1> USE DEF Typed, WatchTypeOK, OpenWhileRunning, Terminal, execution, MovesTo
<1>1. CASE Check(c)
  <2>1. polls' \in [Client -> 0 .. MaxPolls]
    BY <1>1 DEF Check
  <2>2. at' \in [Client -> {"check", "status", "steps", "wait", "ended"}]
    BY <1>1 DEF Check
  <2> QED
    BY <1>1, <2>1, <2>2 DEF Check
<1>2. CASE ReadStatus(c)
  <2>1. CASE first' = [first EXCEPT ![c] = [status |-> status, steps |-> steps]] /\ UNCHANGED event
    <3>1. [status |-> status, steps |-> steps] \in Look
      BY DEF Look
    <3>2. first' \in [Client -> Look]
      BY <2>1, <3>1 DEF Look
    <3> QED
      BY <1>2, <2>1, <3>2 DEF ReadStatus, Look
  <2>2. CASE Send(c, "error", "none", NoRows) /\ UNCHANGED first
    <3>1. [kind |-> "error", status |-> "none", steps |-> NoRows] \in Told
      BY EmptyRows DEF Told
    <3>2. event' \in [Client -> Told]
      BY <2>2, <3>1 DEF Send, Told
    <3> QED
      BY <1>2, <2>2, <3>2 DEF ReadStatus, Told
  <2> QED
    BY <1>2, <2>1, <2>2 DEF ReadStatus
<1>3. CASE ReadSteps(c)
  <2>1. first' \in [Client -> Look]
    BY <1>3, EmptyRows DEF ReadSteps, Look
  <2>2. Answered(c).status \in Terminal \cup {"running", "waiting", "none"} /\ Answered(c).steps \in Rows
    BY DEF Answered
  <2>3. \E e \in Told : event' = [event EXCEPT ![c] = e]
    BY <1>3, <2>2, EmptyRows DEF ReadSteps, Send, Told
  <2>4. event' \in [Client -> Told]
    BY <2>3 DEF Told
  <2> QED
    BY <1>3, <2>1, <2>4 DEF ReadSteps, Look, Told
<1>4. CASE Wait(c)
  BY <1>4 DEF Wait
<1> QED
  BY <1>1, <1>2, <1>3, <1>4 DEF Serve

LEMMA TypedNext ==
    ASSUME MaxPolls \in Nat
    PROVE  Typed /\ [WatchNext]_monitorVars => Typed'
<1> SUFFICES ASSUME Typed, [WatchNext]_monitorVars PROVE Typed'
  OBVIOUS
<1>1. CASE Drive \/ Recover \/ Restart
  BY <1>1, DriveTyped
<1>2. ASSUME NEW c \in Client, Ask(c) PROVE Typed'
  BY <1>2, AskTyped
<1>3. ASSUME NEW c \in Client, Serve(c) PROVE Typed'
  BY <1>3, ServeTyped
<1>4. CASE UNCHANGED monitorVars
  BY <1>4 DEF monitorVars, execution, requests, Typed, WatchTypeOK, OpenWhileRunning
<1> QED
  BY <1>1, <1>2, <1>3, <1>4 DEF WatchNext

(* Every variable keeps its type.                                          *)
THEOREM WatchTypeCorrect == ASSUME MaxPolls \in Nat PROVE WatchRuns => []WatchTypeOK
<1>1. Typed => WatchTypeOK
  BY DEF Typed
<1> QED
  BY <1>1, TypedInit, TypedNext, PTL DEF WatchRuns
-----------------------------------------------------------------------------
LEMMA OverInit == WatchInit => OverIsOver /\ LastEventIsWhole
  BY DEF WatchInit, OverIsOver, LastEventIsWhole, Unread, Nothing, Terminal

(* The engine writes no step and no status after the end, and of the steps *)
(* the recovery only fails those left running: what has been answered about*)
(* a run that is over stays true, but for these.                           *)
LEMMA DriveKeepsAnswers ==
    ASSUME MonitorInv, Drive \/ Recover \/ Restart
    PROVE  (OverIsOver /\ LastEventIsWhole)'
<1> USE DEF MonitorInv, Typed, OpenWhileRunning, OverIsOver, LastEventIsWhole, Terminal, execution,
            requests
<1>1. ASSUME NEW r \in Row, StartStep(r) PROVE (OverIsOver /\ LastEventIsWhole)'
  BY <1>1 DEF StartStep
<1>2. ASSUME NEW r \in Row, FinishStep(r) PROVE (OverIsOver /\ LastEventIsWhole)'
  <2>1. status = "running" /\ UNCHANGED <<status, first, event>>
    BY <1>2 DEF FinishStep
  <2> QED
    BY <2>1
<1>3. CASE FinishExecution
  BY <1>3 DEF FinishExecution
<1>4. CASE SetWaiting
  BY <1>4 DEF SetWaiting
<1>5. CASE ClaimWaiting
  BY <1>5 DEF ClaimWaiting
<1>6. CASE Restart
  BY <1>6 DEF Restart
<1>7. CASE ListRunning
  BY <1>7 DEF ListRunning
<1>8. CASE FailStaleRunningSteps
  <2>1. UNCHANGED <<status, first, event>>
    BY <1>8 DEF FailStaleRunningSteps
  <2>2. CASE UNCHANGED <<steps, overtaken>>
    BY <2>1, <2>2
  <2>3. CASE steps' = Failed(steps) /\ overtaken' = (overtaken \/ status \in Terminal)
    <3> SUFFICES ASSUME NEW c \in Client, event[c].kind = "state", event[c].status \in Terminal
                 PROVE  overtaken' /\ steps' = Failed(event[c].steps)
      BY <2>1
    <3>1. overtaken'
      BY <2>3
    <3>2. event[c].steps \in Rows
      BY DEF WatchTypeOK
    <3>3. steps = event[c].steps \/ steps = Failed(event[c].steps)
      OBVIOUS
    <3> QED
      BY <2>3, <3>1, <3>2, <3>3, FailedRows
  <2> QED
    BY <1>8, <2>2, <2>3 DEF FailStaleRunningSteps
<1> QED
  BY <1>1, <1>2, <1>3, <1>4, <1>5, <1>6, <1>7, <1>8 DEF Drive, Recover

LEMMA AskKeepsAnswers ==
    ASSUME MonitorInv, NEW c \in Client, Ask(c)
    PROVE  (OverIsOver /\ LastEventIsWhole)'
<1> USE DEF MonitorInv, Typed, WatchTypeOK, OverIsOver, LastEventIsWhole, execution
<1>1. Unread.status \notin Terminal /\ Nothing.kind # "state"
  BY DEF Unread, Nothing, Terminal
<1>2. first'[c] = Unread /\ event'[c] = Nothing /\ UNCHANGED <<status, steps, overtaken>>
  BY DEF Ask
<1>3. \A d \in Client \ {c} : first'[d] = first[d] /\ event'[d] = event[d]
  BY DEF Ask
<1> QED
  BY <1>1, <1>2, <1>3

(* A request answers with the steps as they are, after a status that was   *)
(* read before.                                                            *)
LEMMA ServeAnswersWhole ==
    ASSUME MonitorInv, NEW c \in Client, Serve(c)
    PROVE  (OverIsOver /\ LastEventIsWhole)'
<1> USE DEF MonitorInv, Typed, WatchTypeOK, OverIsOver, LastEventIsWhole, execution
<1>1. CASE Check(c)
  BY <1>1 DEF Check
<1>2. CASE ReadStatus(c)
  <2>1. CASE exists /\ first' = [first EXCEPT ![c] = [status |-> status, steps |-> steps]]
                   /\ UNCHANGED event
    BY <1>2, <2>1 DEF ReadStatus
  <2>2. CASE Send(c, "error", "none", NoRows) /\ UNCHANGED first
    BY <1>2, <2>2 DEF ReadStatus, Send
  <2> QED
    BY <1>2, <2>1, <2>2 DEF ReadStatus
<1>3. CASE ReadSteps(c)
  <2>1. first' = [first EXCEPT ![c] = Unread] /\ Unread.status \notin Terminal
    BY <1>3 DEF ReadSteps, Unread, Terminal
  <2>2. UNCHANGED <<status, steps, overtaken>>
    BY <1>3 DEF ReadSteps
  <2>3. event'[c].kind = "state" => event'[c].status = first[c].status /\ event'[c].steps = steps
    BY <1>3 DEF ReadSteps, Send, Answered
  <2>4. \A d \in Client \ {c} : event'[d] = event[d]
    BY <1>3 DEF ReadSteps, Send
  <2> QED
    BY <2>1, <2>2, <2>3, <2>4
<1>4. CASE Wait(c)
  BY <1>4 DEF Wait
<1> QED
  BY <1>1, <1>2, <1>3, <1>4 DEF Serve

(* An answer that says the run is over shows its steps as they stay, but   *)
(* for those shown running that a recovery fails which had listed the run: *)
(* the order of the two queries suffices, whatever fails or restarts.      *)
THEOREM FinalAnswersAreWhole ==
    ASSUME MaxPolls \in Nat PROVE WatchRuns => []LastEventIsWhole
<1>1. WatchInit => MonitorInv
  BY TypedInit, OverInit DEF MonitorInv
<1>2. MonitorInv /\ [WatchNext]_monitorVars => MonitorInv'
  <2> SUFFICES ASSUME MonitorInv, [WatchNext]_monitorVars PROVE MonitorInv'
    OBVIOUS
  <2>1. Typed'
    BY TypedNext DEF MonitorInv
  <2>2. CASE Drive \/ Recover \/ Restart
    BY <2>1, <2>2, DriveKeepsAnswers DEF MonitorInv
  <2>3. ASSUME NEW c \in Client, Ask(c) PROVE MonitorInv'
    BY <2>1, <2>3, AskKeepsAnswers DEF MonitorInv
  <2>4. ASSUME NEW c \in Client, Serve(c) PROVE MonitorInv'
    BY <2>1, <2>4, ServeAnswersWhole DEF MonitorInv
  <2>5. CASE UNCHANGED monitorVars
    BY <2>1, <2>5 DEF monitorVars, execution, requests, MonitorInv, OverIsOver, LastEventIsWhole
  <2> QED
    BY <2>2, <2>3, <2>4, <2>5 DEF WatchNext
<1>3. MonitorInv => LastEventIsWhole
  BY DEF MonitorInv
<1> QED
  BY <1>1, <1>2, <1>3, PTL DEF WatchRuns
-----------------------------------------------------------------------------
(* Towards StreamsEnd.  A request goes on from place to place, and a stream*)
(* from look to look, of which there are MaxPolls: how far it has come.    *)
Along(c) ==
    CASE at[c] = "status" -> 4 * polls[c] + 1
      [] at[c] = "steps"  -> 4 * polls[c] + 2
      [] at[c] = "wait"   -> 4 * polls[c] + 3
      [] at[c] = "check"  -> 4 * polls[c] + 4
      [] OTHER            -> 4 * MaxPolls + 4

(* The loop is entered again as long as a look is left.                    *)
LooksLeft == \A c \in Client : at[c] = "check" => polls[c] < MaxPolls

GoesAlong(c) ==
    \/ at'[c] = at[c]
    \/ at[c] = "ended"
    \/ Along(c) < Along(c)' /\ Along(c)' <= 4 * MaxPolls + 4

LEMMA AlongRange ==
    ASSUME MaxPolls \in Nat \ {0}, Typed, LooksLeft, NEW c \in Client, at[c] # "ended"
    PROVE  Along(c) \in Nat /\ Along(c) < 4 * MaxPolls + 4
<1>1. at[c] \in {"check", "status", "steps", "wait", "ended"} /\ polls[c] \in 0 .. MaxPolls
  BY DEF Typed, WatchTypeOK
<1>2. at[c] = "check" => polls[c] < MaxPolls
  BY DEF LooksLeft
<1> QED
  BY <1>1, <1>2 DEF Along

LEMMA EndedIsFar ==
    ASSUME NEW c \in Client, at'[c] = "ended" PROVE Along(c)' = 4 * MaxPolls + 4
  BY DEF Along

(* One step of a request brings it further and leaves the others alone.    *)
LEMMA ServeGoesAlong ==
    ASSUME MaxPolls \in Nat \ {0}, Typed, LooksLeft, NEW c \in Client, Serve(c)
    PROVE  LooksLeft' /\ \A d \in Client : GoesAlong(d)
<1>1. /\ at \in [Client -> {"check", "status", "steps", "wait", "ended"}]
      /\ polls \in [Client -> 0 .. MaxPolls] /\ polls[c] \in 0 .. MaxPolls
  BY DEF Typed, WatchTypeOK
<1>2. at[c] # "ended" /\ \E p \in {"check", "status", "steps", "wait", "ended"} : at' = [at EXCEPT ![c] = p]
  BY DEF Serve, Check, ReadStatus, ReadSteps, Wait, MovesTo
<1>3. \A d \in Client : d # c => at'[d] = at[d] /\ polls'[d] = polls[d]
  BY <1>1, <1>2 DEF Serve, Check, ReadStatus, ReadSteps, Wait
<1>4. Along(c) \in Nat /\ Along(c) < 4 * MaxPolls + 4
  BY <1>2, AlongRange
<1>5. CASE at'[c] = "ended"
  <2>1. GoesAlong(c)
    BY <1>4, <1>5, EndedIsFar DEF GoesAlong
  <2>2. \A d \in Client : d # c => GoesAlong(d)
    BY <1>3 DEF GoesAlong
  <2>3. LooksLeft'
    BY <1>3, <1>5 DEF LooksLeft
  <2> QED
    BY <2>1, <2>2, <2>3
<1>6. ASSUME at'[c] # "ended"
      PROVE  /\ at'[c] = "check" => polls'[c] < MaxPolls
             /\ polls'[c] \in 0 .. MaxPolls
             /\ \/ at[c] = "check" /\ at'[c] = "status" /\ polls'[c] = polls[c] + 1
                \/ at[c] = "status" /\ at'[c] = "steps" /\ polls'[c] = polls[c]
                \/ at[c] = "steps" /\ at'[c] = "wait" /\ polls'[c] = polls[c]
                \/ at[c] = "wait" /\ at'[c] = "check" /\ polls'[c] = polls[c]
  <2>1. CASE Check(c)
    BY <1>1, <1>6, <2>1 DEF Check, MovesTo, LooksLeft
  <2>2. CASE ReadStatus(c)
    BY <1>1, <1>6, <2>2 DEF ReadStatus, MovesTo
  <2>3. CASE ReadSteps(c)
    BY <1>1, <1>6, <2>3 DEF ReadSteps, MovesTo
  <2>4. CASE Wait(c)
    BY <1>1, <1>6, <2>4 DEF Wait, MovesTo, Again
  <2> QED
    BY <2>1, <2>2, <2>3, <2>4 DEF Serve
<1>7. CASE at'[c] # "ended"
  <2>1. Along(c) < Along(c)' /\ Along(c)' <= 4 * MaxPolls + 4
    BY <1>1, <1>6, <1>7 DEF Along
  <2>2. \A d \in Client : GoesAlong(d)
    BY <1>3, <2>1 DEF GoesAlong
  <2>3. LooksLeft'
    BY <1>3, <1>6, <1>7 DEF LooksLeft
  <2> QED
    BY <2>2, <2>3
<1> QED
  BY <1>5, <1>7

(* Whatever the execution does and whatever fails, a stream and a question *)
(* that have not ended only go on, on a way of at most 4 * MaxPolls + 4    *)
(* steps: what is left of StreamsEnd is that the steps are taken.          *)
THEOREM StreamsGoForward ==
    ASSUME MaxPolls \in Nat \ {0}
    PROVE  WatchRuns => [][\A c \in Client : GoesAlong(c)]_monitorVars
<1>1. WatchInit => Typed /\ LooksLeft
  <2>1. WatchInit => LooksLeft
    BY DEF WatchInit, LooksLeft
  <2> QED
    BY <2>1, TypedInit
<1>2. Typed /\ LooksLeft /\ [WatchNext]_monitorVars
        => (Typed /\ LooksLeft)' /\ [\A c \in Client : GoesAlong(c)]_monitorVars
  <2> SUFFICES ASSUME Typed, LooksLeft, [WatchNext]_monitorVars
               PROVE  LooksLeft' /\ [\A c \in Client : GoesAlong(c)]_monitorVars
    BY TypedNext
  <2>1. CASE Drive \/ Recover
    <3>1. UNCHANGED <<at, polls>>
      BY <2>1 DEF Drive, Recover, StartStep, FinishStep, FinishExecution, SetWaiting, ClaimWaiting,
                  ListRunning, FailStaleRunningSteps, requests
    <3> QED
      BY <3>1 DEF LooksLeft, GoesAlong
  <2>2. CASE Restart
    <3>1. \A c \in Client : at'[c] = "ended"
      BY <2>2 DEF Restart
    <3>2. ASSUME NEW c \in Client PROVE GoesAlong(c)
      BY <3>1, AlongRange, EndedIsFar DEF GoesAlong
    <3> QED
      BY <3>1, <3>2 DEF LooksLeft
  <2>3. ASSUME NEW c \in Client, Serve(c) PROVE LooksLeft' /\ \A d \in Client : GoesAlong(d)
    BY <2>3, ServeGoesAlong
  <2>4. ASSUME NEW c \in Client, Ask(c) PROVE LooksLeft' /\ \A d \in Client : GoesAlong(d)
    <3>1. at[c] = "ended" /\ polls'[c] = 0
      BY <2>4 DEF Ask, Typed, WatchTypeOK
    <3>2. \A d \in Client : d # c => at'[d] = at[d] /\ polls'[d] = polls[d]
      BY <2>4 DEF Ask, Typed, WatchTypeOK
    <3> QED
      BY <3>1, <3>2 DEF LooksLeft, GoesAlong
  <2>5. CASE UNCHANGED monitorVars
    BY <2>5 DEF monitorVars, requests, LooksLeft
  <2> QED
    BY <2>1, <2>2, <2>3, <2>4, <2>5 DEF WatchNext
<1> QED
  BY <1>1, <1>2, PTL DEF WatchRuns
-----------------------------------------------------------------------------
(***************************************************************************)
(* The OAuth2 service.                                                     *)
(***************************************************************************)

(* A state that can still be exchanged has not been.                       *)
UnusedWhileOpen == \A f \in Flow : flow[f] \in {"none", "open", "lapsed"} => used[f] = <<>>

SingleUseInv == OAuthTypeOK /\ UnusedWhileOpen /\ SingleUse

Pending(s)  == pc[s] \in {"asked", "read", "write"}
Outdated(t) == t # 0 /\ t \notin valid

(* The refresh token a pending saver holds or is about to receive.         *)
Held(s) == IF pc[s] = "asked" /\ granted[s] # 0 THEN granted[s] ELSE token[s]

(* A saver on whose way to the row is a token it was granted or keeps; one *)
(* that has asked and is granted no new token may yet turn back.           *)
Saving(s) == Pending(s) /\ (pc[s] = "asked" => granted[s] # 0) /\ Held(s) # 0

(* Why a saver may come to write a token that the provider refuses.        *)
Excused(s) == moved[s] \/ lost \/ unsaved \/ overlapped \/ \E q \in Saver \ {s} : Saving(q)

StaleInv ==
    /\ ~row.exists => row.refresh = 0
    /\ Outdated(row.refresh) => lost \/ unsaved \/ overlapped \/ \E q \in Saver : Saving(q)
    /\ \A s \in Saver : Pending(s) /\ Outdated(Held(s)) => Excused(s)
    /\ \A s \in Saver : pc[s] = "write" /\ token[s] = 0 /\ Outdated(read[s]) => Excused(s)

SaverPlace == {"idle", "code", "client", "asked", "read", "write"}
-----------------------------------------------------------------------------
LEMMA TypeInit == ASSUME MaxToken \in Nat PROVE OAuthInit => OAuthTypeOK
<1> SUFFICES ASSUME OAuthInit PROVE OAuthTypeOK
  OBVIOUS
<1>1. issued = 0 /\ 0 \in 0 .. 0 /\ 0 \in 0 .. MaxToken /\ valid = {}
  BY DEF OAuthInit
<1>2. row \in [exists : BOOLEAN, connected : BOOLEAN, refresh : 0 .. issued]
  BY <1>1 DEF OAuthInit
<1> QED
  BY <1>1, <1>2 DEF OAuthInit, OAuthTypeOK

(* A new refresh token has the next number.                                *)
LEMMA NextToken ==
    ASSUME MaxToken \in Nat, OAuthTypeOK, issued < MaxToken
    PROVE  /\ issued + 1 \in 0 .. MaxToken
           /\ issued + 1 \in 1 .. (issued + 1)
           /\ 0 .. issued \subseteq 0 .. (issued + 1) /\ 1 .. issued \subseteq 1 .. (issued + 1)
           /\ issued + 1 \notin valid /\ issued + 1 # 0
  BY DEF OAuthTypeOK

(* Whoever is granted it, nothing else leaves its type.                    *)
LEMMA NextTokenTyped ==
    ASSUME MaxToken \in Nat, OAuthTypeOK, issued < MaxToken, issued' = issued + 1,
           valid' \subseteq valid \cup {issued + 1},
           NEW s \in Saver, Grants(s, issued + 1), token' \in [Saver -> 0 .. issued],
           UNCHANGED <<row, flow, used, read, history>>
    PROVE  OAuthTypeOK'
<1> USE DEF OAuthTypeOK, Grants, Goes, history
<1>1. issued' \in 0 .. MaxToken /\ valid' \subseteq 1 .. issued'
  BY NextToken
<1>2. row' \in [exists : BOOLEAN, connected : BOOLEAN, refresh : 0 .. issued']
  <2>1. row.refresh \in 0 .. issued'
    BY NextToken
  <2> QED
    BY <2>1
<1>3. token' \in [Saver -> 0 .. issued'] /\ read' \in [Saver -> 0 .. issued']
  BY NextToken
<1>4. granted' \in [Saver -> 0 .. issued']
  <2>1. granted \in [Saver -> 0 .. issued'] /\ issued + 1 \in 0 .. issued'
    BY NextToken
  <2> QED
    BY <2>1
<1> QED
  BY <1>1, <1>2, <1>3, <1>4

LEMMA TypeNext == ASSUME MaxToken \in Nat PROVE OAuthTypeOK /\ [OAuthNext]_credentialVars => OAuthTypeOK'
<1> SUFFICES ASSUME OAuthTypeOK, [OAuthNext]_credentialVars PROVE OAuthTypeOK'
  OBVIOUS
<1> USE DEF OAuthTypeOK, Goes, Saver, provider, history
<1>1. ASSUME NEW f \in Flow, AuthURL(f) \/ Lapse(f) PROVE OAuthTypeOK'
  BY <1>1 DEF AuthURL, Lapse
<1>2. ASSUME NEW h \in Callback, NEW f \in Flow, Exchange(h, f) PROVE OAuthTypeOK'
  BY <1>2 DEF Exchange, takeState
<1>3. ASSUME NEW h \in Callback, ExchangeCode(h) PROVE OAuthTypeOK'
  <2>1. token' \in [Saver -> 0 .. issued]
    <3>1. 0 \in 0 .. issued
      OBVIOUS
    <3> QED
      BY <1>3, <3>1 DEF ExchangeCode
  <2>2. CASE issued < MaxToken /\ issued' = issued + 1 /\ Grants(h, issued + 1)
                /\ valid' \in {{issued + 1}, valid \cup {issued + 1}}
    BY <1>3, <2>1, <2>2, NextTokenTyped DEF ExchangeCode
  <2>3. CASE Grants(h, 0) /\ UNCHANGED provider
    <3>1. granted' \in [Saver -> 0 .. issued]
      <4>1. 0 \in 0 .. issued
        OBVIOUS
      <4> QED
        BY <2>3, <4>1 DEF Grants
    <3> QED
      BY <1>3, <2>1, <2>3, <3>1 DEF ExchangeCode, Grants
  <2>4. CASE Goes(h, "idle") /\ UNCHANGED <<granted, moved, provider>>
    BY <1>3, <2>1, <2>4 DEF ExchangeCode
  <2> QED
    BY <1>3, <2>2, <2>3, <2>4 DEF ExchangeCode
<1>4. ASSUME NEW s \in Source, ClientForCredential(s) PROVE OAuthTypeOK'
  BY <1>4 DEF ClientForCredential
<1>5. ASSUME NEW s \in Source, Token(s) PROVE OAuthTypeOK'
  <2>1. CASE issued < MaxToken /\ issued' = issued + 1 /\ Grants(s, issued + 1)
                /\ valid' = (valid \ {token[s]}) \cup {issued + 1}
    BY <1>5, <2>1, NextTokenTyped DEF Token
  <2>2. CASE Grants(s, 0) /\ UNCHANGED provider
    <3>1. granted' \in [Saver -> 0 .. issued]
      <4>1. 0 \in 0 .. issued
        OBVIOUS
      <4> QED
        BY <2>2, <4>1 DEF Grants
    <3> QED
      BY <1>5, <2>2, <3>1 DEF Token, Grants
  <2> QED
    BY <1>5, <2>1, <2>2 DEF Token
<1>6. ASSUME NEW s \in Source, Done(s) PROVE OAuthTypeOK'
  BY <1>6 DEF Done
<1>7. ASSUME NEW s \in Saver, Receives(s) \/ AnswerLost(s) PROVE OAuthTypeOK'
  <2>1. 0 \in 0 .. issued
    OBVIOUS
  <2>2. token' \in [Saver -> 0 .. issued] /\ granted' \in [Saver -> 0 .. issued]
    BY <1>7, <2>1 DEF Receives, AnswerLost
  <2>3. lost' \in BOOLEAN
    BY <1>7 DEF Receives, AnswerLost
  <2>4. pc' \in [Saver -> SaverPlace]
    BY <1>7 DEF Receives, AnswerLost, Returns, SaverPlace
  <2> QED
    BY <1>7, <2>2, <2>3, <2>4 DEF Receives, AnswerLost, SaverPlace
<1>8. ASSUME NEW s \in Saver, PersistRead(s) PROVE OAuthTypeOK'
  BY <1>8 DEF PersistRead, Returns
<1>9. ASSUME NEW s \in Saver, PersistWrite(s) PROVE OAuthTypeOK'
  <2>1. persist(s) \in 0 .. issued
    BY DEF persist
  <2>2. Saved(persist(s)) \in [exists : BOOLEAN, connected : BOOLEAN, refresh : 0 .. issued]
    BY <2>1 DEF Saved
  <2>3. row' \in [exists : BOOLEAN, connected : BOOLEAN, refresh : 0 .. issued]
    BY <1>9, <2>2 DEF PersistWrite, UpdateCredentialData
  <2>4. moved' \in [Saver -> BOOLEAN] /\ overlapped' \in BOOLEAN /\ unsaved' \in BOOLEAN
    BY <1>9 DEF PersistWrite
  <2>5. pc' \in [Saver -> SaverPlace]
    BY <1>9 DEF PersistWrite, Returns, SaverPlace
  <2>6. read' \in [Saver -> 0 .. issued]
    <3>1. 0 \in 0 .. issued
      OBVIOUS
    <3> QED
      BY <1>9, <3>1 DEF PersistWrite
  <2> QED
    BY <1>9, <2>3, <2>4, <2>5, <2>6 DEF PersistWrite, SaverPlace
<1>10. CASE DeleteCredential
  BY <1>10 DEF DeleteCredential, Deleted
<1>11. CASE Crash
  BY <1>11 DEF Crash
<1>12. CASE UNCHANGED credentialVars
  BY <1>12 DEF credentialVars
<1> QED
  BY <1>1, <1>2, <1>3, <1>4, <1>5, <1>6, <1>7, <1>8, <1>9, <1>10, <1>11, <1>12 DEF OAuthNext

(* Every variable keeps its type.                                          *)
THEOREM OAuthTypeCorrect == ASSUME MaxToken \in Nat PROVE OAuthSpec => []OAuthTypeOK
  BY TypeInit, TypeNext, PTL DEF OAuthSpec
-----------------------------------------------------------------------------
LEMMA SingleUseInit == OAuthInit => UnusedWhileOpen /\ SingleUse
  BY DEF OAuthInit, UnusedWhileOpen, SingleUse

LEMMA SingleUseNext == SingleUseInv /\ [OAuthNext]_credentialVars => (UnusedWhileOpen /\ SingleUse)'
<1> SUFFICES ASSUME SingleUseInv, [OAuthNext]_credentialVars PROVE (UnusedWhileOpen /\ SingleUse)'
  OBVIOUS
<1> USE DEF SingleUseInv, OAuthTypeOK, UnusedWhileOpen, SingleUse
<1>1. ASSUME NEW f \in Flow, AuthURL(f) \/ Lapse(f) PROVE (UnusedWhileOpen /\ SingleUse)'
  BY <1>1 DEF AuthURL, Lapse
<1>2. ASSUME NEW h \in Callback, NEW f \in Flow, Exchange(h, f) PROVE (UnusedWhileOpen /\ SingleUse)'
  <2>1. flow' = [flow EXCEPT ![f] = "taken"]
    BY <1>2 DEF Exchange, takeState
  <2>2. CASE flow[f] = "open" /\ used' = [used EXCEPT ![f] = Append(@, flow[f])]
    <3>1. Append(<<>>, "open") = <<"open">>
      OBVIOUS
    <3>2. used[f] = <<>>
      BY <2>2
    <3>3. used' = [used EXCEPT ![f] = <<"open">>]
      BY <2>2, <3>1, <3>2
    <3> QED
      BY <2>1, <3>3
  <2>3. CASE UNCHANGED used
    BY <2>1, <2>3
  <2> QED
    BY <1>2, <2>2, <2>3 DEF Exchange
<1>3. CASE Crash
  BY <1>3 DEF Crash
<1>4. CASE UNCHANGED <<flow, used>>
  BY <1>4
<1> QED
  BY <1>1, <1>2, <1>3, <1>4 DEF OAuthNext, ExchangeCode, ClientForCredential, Token, Done, Receives,
     AnswerLost, PersistRead, PersistWrite, DeleteCredential, credentialVars

(* A state is exchanged at most once, and not after it has lapsed.         *)
THEOREM StatesAreUsedOnce == ASSUME MaxToken \in Nat PROVE OAuthSpec => []SingleUse
<1>1. OAuthInit => SingleUseInv
  BY TypeInit, SingleUseInit DEF SingleUseInv
<1>2. SingleUseInv /\ [OAuthNext]_credentialVars => SingleUseInv'
  BY TypeNext, SingleUseNext DEF SingleUseInv
<1>3. SingleUseInv => SingleUse
  BY DEF SingleUseInv
<1> QED
  BY <1>1, <1>2, <1>3, PTL DEF OAuthSpec
-----------------------------------------------------------------------------
LEMMA StaleInit == OAuthInit => StaleInv
  BY DEF OAuthInit, StaleInv, Outdated, Pending, Held

(* A saver that is granted a new token excuses all the others.             *)
LEMMA NewTokenStale ==
    ASSUME MaxToken \in Nat, OAuthTypeOK, StaleInv, issued < MaxToken,
           NEW s \in Saver, Grants(s, issued + 1), issued + 1 \in valid',
           UNCHANGED <<row, read>>
    PROVE  StaleInv'
<1> USE DEF OAuthTypeOK, Grants, Goes
<1>1. issued + 1 # 0
  BY DEF OAuthTypeOK
<1>2. pc'[s] = "asked" /\ granted'[s] = issued + 1
  OBVIOUS
<1>3. Held(s)' = issued + 1 /\ Saving(s)'
  BY <1>1, <1>2 DEF Held, Saving, Pending
<1>4. \A q \in Saver \ {s} : Excused(q)'
  BY <1>3 DEF Excused
<1>5. ~Outdated(Held(s))'
  BY <1>3 DEF Outdated
<1> QED
  BY <1>2, <1>3, <1>4, <1>5 DEF StaleInv

(* A saver that is granted no new token goes on with one the provider      *)
(* accepts, or with none, and adds nothing; it was no excuse for the       *)
(* others.                                                                 *)
LEMMA SameTokenStale ==
    ASSUME OAuthTypeOK, StaleInv, NEW s \in Saver, ~Pending(s), Grants(s, 0),
           token'[s] \in valid \cup {0}, \A q \in Saver \ {s} : token'[q] = token[q],
           UNCHANGED <<row, read, provider, history>>
    PROVE  StaleInv'
<1> USE DEF OAuthTypeOK, Grants, Goes, provider, history
<1>1. pc'[s] = "asked" /\ granted'[s] = 0
  OBVIOUS
<1>2. \A q \in Saver \ {s} : /\ pc'[q] = pc[q] /\ token'[q] = token[q]
                              /\ granted'[q] = granted[q] /\ moved'[q] = moved[q]
  OBVIOUS
<1>3. \A q \in Saver \ {s} : Held(q)' = Held(q) /\ (Pending(q)' <=> Pending(q)) /\ (Saving(q)' <=> Saving(q))
  BY <1>2 DEF Held, Saving, Pending
<1>4. ~Saving(s) /\ Held(s)' = token'[s]
  BY <1>1 DEF Saving, Held
<1>5. \A q \in Saver \ {s} : Excused(q) => Excused(q)'
  BY <1>2, <1>3, <1>4 DEF Excused
<1>6. Outdated(row.refresh)' => (lost \/ unsaved \/ overlapped \/ \E q \in Saver : Saving(q))'
  BY <1>3, <1>4 DEF StaleInv, Outdated
<1>7. ~Outdated(Held(s))'
  BY <1>4 DEF Outdated
<1>8. \A q \in Saver \ {s} : (Pending(q) /\ Outdated(Held(q)))' => Excused(q)'
  BY <1>3, <1>5 DEF StaleInv, Outdated
<1>9. \A q \in Saver \ {s} : (pc[q] = "write" /\ token[q] = 0 /\ Outdated(read[q]))' => Excused(q)'
  BY <1>2, <1>5 DEF StaleInv, Outdated
<1> QED
  BY <1>1, <1>6, <1>7, <1>8, <1>9 DEF StaleInv

(* What leaves the savers, their tokens and the provider alone, and the    *)
(* row or makes it a deleted one, keeps the invariant.                     *)
LEMMA QuietStale ==
    ASSUME OAuthTypeOK, StaleInv, UNCHANGED <<granted, read, moved, provider, history>>,
           row' \in {row, Deleted},
           pc' \in [Saver -> SaverPlace],
           \A q \in Saver : (Pending(q) \/ Pending(q)') => pc'[q] = pc[q] /\ token'[q] = token[q]
    PROVE  StaleInv'
<1> USE DEF provider, history, Deleted
<1>1. \A q \in Saver : Pending(q)' <=> Pending(q)
  BY DEF Pending
<1>2. \A q \in Saver : Pending(q) => Held(q)' = Held(q)
  BY DEF Held
<1>3. \A q \in Saver : Saving(q)' <=> Saving(q)
  BY <1>1, <1>2 DEF Saving
<1>4. \A q \in Saver : Excused(q) => Excused(q)'
  BY <1>3 DEF Excused
<1>5. Outdated(row.refresh)' => (lost \/ unsaved \/ overlapped \/ \E q \in Saver : Saving(q))'
  BY <1>3 DEF StaleInv, Outdated
<1>6. \A q \in Saver : (Pending(q) /\ Outdated(Held(q)))' => Excused(q)'
  BY <1>1, <1>2, <1>4 DEF StaleInv, Outdated
<1>7. \A q \in Saver : (pc[q] = "write" /\ token[q] = 0 /\ Outdated(read[q]))' => Excused(q)'
  BY <1>4 DEF StaleInv, Outdated, Pending
<1>8. (~row.exists => row.refresh = 0)'
  BY DEF StaleInv
<1> QED
  BY <1>5, <1>6, <1>7, <1>8 DEF StaleInv

(* The answer brings what was held already.                                *)
LEMMA ReceivesStale ==
    ASSUME OAuthTypeOK, StaleInv, NEW s \in Saver, Receives(s)
    PROVE  StaleInv'
<1> USE DEF OAuthTypeOK, Goes, provider, history
<1>1. pc[s] = "asked" /\ pc'[s] = "read" /\ token'[s] = (IF granted[s] # 0 THEN granted[s] ELSE token[s])
  BY DEF Receives
<1>2. \A q \in Saver \ {s} : pc'[q] = pc[q] /\ token'[q] = token[q] /\ granted'[q] = granted[q]
  BY DEF Receives
<1>3. UNCHANGED <<row, read, moved, valid, lost, unsaved, overlapped>>
  BY DEF Receives
<1>4. \A q \in Saver : Held(q)' = Held(q) /\ (Pending(q)' <=> Pending(q))
  BY <1>1, <1>2 DEF Held, Pending
<1>5. \A q \in Saver : Saving(q) => Saving(q)'
  BY <1>1, <1>2, <1>4 DEF Saving
<1>6. \A q \in Saver : Excused(q) => Excused(q)'
  BY <1>3, <1>5 DEF Excused
<1>7. Outdated(row.refresh)' => (lost \/ unsaved \/ overlapped \/ \E q \in Saver : Saving(q))'
  BY <1>3, <1>5 DEF StaleInv, Outdated
<1>8. \A q \in Saver : (Pending(q) /\ Outdated(Held(q)))' => Excused(q)'
  BY <1>3, <1>4, <1>6 DEF StaleInv, Outdated
<1>9. \A q \in Saver : (pc[q] = "write" /\ token[q] = 0 /\ Outdated(read[q]))' => Excused(q)'
  BY <1>1, <1>2, <1>3, <1>6 DEF StaleInv, Outdated
<1> QED
  BY <1>3, <1>7, <1>8, <1>9 DEF StaleInv

(* An answer that does not arrive is an excuse for all, or was none.       *)
LEMMA AnswerLostStale ==
    ASSUME OAuthTypeOK, StaleInv, NEW s \in Saver, AnswerLost(s)
    PROVE  StaleInv'
<1> USE DEF OAuthTypeOK, Goes, Returns, provider
<1>1. pc[s] = "asked" /\ pc'[s] \in {"client", "idle"} /\ lost' = (lost \/ granted[s] # 0)
  BY DEF AnswerLost
<1>2. \A q \in Saver \ {s} : pc'[q] = pc[q] /\ granted'[q] = granted[q]
  BY DEF AnswerLost
<1>3. UNCHANGED <<row, token, read, moved, valid, unsaved, overlapped>>
  BY DEF AnswerLost
<1>4. CASE lost'
  BY <1>3, <1>4 DEF StaleInv, Excused
<1>5. CASE ~lost'
  <2>1. ~Saving(s) /\ ~Saving(s)' /\ ~Pending(s)' /\ ~lost
    BY <1>1, <1>5 DEF Saving, Pending
  <2>2. \A q \in Saver \ {s} : Held(q)' = Held(q) /\ (Pending(q)' <=> Pending(q)) /\ (Saving(q)' <=> Saving(q))
    BY <1>2, <1>3 DEF Held, Saving, Pending
  <2>3. \A q \in Saver : Excused(q) => Excused(q)'
    BY <1>3, <2>1, <2>2 DEF Excused
  <2>4. Outdated(row.refresh)' => (lost \/ unsaved \/ overlapped \/ \E q \in Saver : Saving(q))'
    BY <1>3, <2>1, <2>2 DEF StaleInv, Outdated
  <2>5. \A q \in Saver : (Pending(q) /\ Outdated(Held(q)))' => Excused(q)'
    BY <1>3, <2>1, <2>2, <2>3 DEF StaleInv, Outdated
  <2>6. \A q \in Saver : (pc[q] = "write" /\ token[q] = 0 /\ Outdated(read[q]))' => Excused(q)'
    BY <1>1, <1>2, <1>3, <2>3 DEF StaleInv, Outdated
  <2> QED
    BY <1>3, <2>4, <2>5, <2>6 DEF StaleInv
<1> QED
  BY <1>4, <1>5

(* persist reads the row: what it finds outdated has its cause already,    *)
(* and that cause is not the reader when the reader holds no token.        *)
LEMMA PersistReadStale ==
    ASSUME OAuthTypeOK, StaleInv, NEW s \in Saver, PersistRead(s)
    PROVE  StaleInv'
<1> USE DEF OAuthTypeOK, Goes, provider, history
<1>1. CASE unsaved'
  <2>1. ~row'.exists => row'.refresh = 0
    BY DEF PersistRead, StaleInv
  <2> QED
    BY <1>1, <2>1 DEF StaleInv, Excused
<1>2. CASE read' = [read EXCEPT ![s] = row.refresh] /\ Goes(s, "write") /\ UNCHANGED history
  <2>1. pc[s] = "read" /\ pc'[s] = "write" /\ read'[s] = row.refresh
           /\ UNCHANGED <<row, token, granted, moved, valid, lost, unsaved, overlapped>>
    BY <1>2 DEF PersistRead
  <2>2. \A q \in Saver \ {s} : pc'[q] = pc[q] /\ read'[q] = read[q]
    BY <1>2
  <2>3. \A q \in Saver : Held(q)' = Held(q) /\ (Pending(q)' <=> Pending(q))
    BY <2>1, <2>2 DEF Held, Pending
  <2>4. \A q \in Saver : Saving(q)' <=> Saving(q)
    BY <2>1, <2>2, <2>3 DEF Saving
  <2>5. \A q \in Saver : Excused(q)' <=> Excused(q)
    BY <2>1, <2>4 DEF Excused
  <2>6. token[s] = 0 /\ Outdated(row.refresh) => Excused(s)
    <3>1. token[s] = 0 => ~Saving(s)
      BY <2>1 DEF Saving, Held
    <3> QED
      BY <3>1 DEF StaleInv, Excused
  <2>7. (\A q \in Saver : Pending(q) /\ Outdated(Held(q)) => Excused(q))'
    BY <2>1, <2>3, <2>5 DEF StaleInv, Outdated
  <2>8. (\A q \in Saver : pc[q] = "write" /\ token[q] = 0 /\ Outdated(read[q]) => Excused(q))'
    BY <2>1, <2>2, <2>5, <2>6 DEF StaleInv, Outdated
  <2>9. (Outdated(row.refresh) => lost \/ unsaved \/ overlapped \/ \E q \in Saver : Saving(q))'
    BY <2>1, <2>4 DEF StaleInv, Outdated
  <2> QED
    BY <2>1, <2>7, <2>8, <2>9 DEF StaleInv
<1> QED
  BY <1>1, <1>2 DEF PersistRead

(* persist writes the row: the other savers have been overtaken, and what  *)
(* excused this one excuses the row.                                       *)
LEMMA PersistWriteStale ==
    ASSUME OAuthTypeOK, StaleInv, NEW s \in Saver, PersistWrite(s)
    PROVE  StaleInv'
<1> USE DEF OAuthTypeOK, Goes, Returns, provider
<1>1. pc[s] = "write" /\ ~Pending(s)' /\ UNCHANGED <<token, granted, valid, lost>>
  BY DEF PersistWrite, Pending
<1>2. \A q \in Saver \ {s} : pc'[q] = pc[q]
  BY DEF PersistWrite
<1>3. CASE unsaved' /\ UNCHANGED row
  BY <1>3 DEF StaleInv, Excused
<1>4. CASE /\ row' = UpdateCredentialData(s) /\ overlapped' = (overlapped \/ moved[s])
           /\ moved' = [q \in Saver |-> q # s /\ pc[q] \in {"asked", "read", "write"}]
           /\ UNCHANGED unsaved
  <2>1. \A q \in Saver : Pending(q)' => moved'[q]
    BY <1>1, <1>2, <1>4 DEF Pending
  <2>2. \A q \in Saver \ {s} : Saving(q)' <=> Saving(q)
    BY <1>1, <1>2 DEF Saving, Pending, Held
  <2>3. Excused(s) => lost' \/ unsaved' \/ overlapped' \/ \E q \in Saver : Saving(q)'
    BY <1>1, <1>4, <2>2 DEF Excused
  <2>4. \A q \in Saver : (pc[q] = "write")' => Pending(q)'
    BY DEF Pending
  <2>5. \A q \in Saver : Pending(q)' => Excused(q)'
    BY <2>1 DEF Excused
  <2>6. CASE row.exists
    <3>1. row'.exists /\ row'.refresh = persist(s)
      BY <1>4, <2>6 DEF UpdateCredentialData, Saved
    <3>2. Outdated(persist(s)) => Excused(s)
      BY <1>1 DEF StaleInv, persist, Pending, Held, Outdated
    <3>3. Outdated(row.refresh)' => Excused(s)
      BY <1>1, <3>1, <3>2 DEF Outdated
    <3> QED
      BY <2>3, <2>4, <2>5, <3>1, <3>3 DEF StaleInv
  <2>7. CASE ~row.exists
    <3>1. UNCHANGED row /\ row.refresh = 0
      BY <1>4, <2>7 DEF UpdateCredentialData, StaleInv
    <3> QED
      BY <2>4, <2>5, <3>1 DEF StaleInv, Outdated
  <2> QED
    BY <2>6, <2>7
<1> QED
  BY <1>3, <1>4 DEF PersistWrite
-----------------------------------------------------------------------------
(* Only PersistWrite and DeleteCredential change the row.                  *)
LEMMA RowChanges ==
    ASSUME [OAuthNext]_credentialVars, row' # row
    PROVE  \/ row' = Deleted
           \/ \E s \in Saver : pc[s] = "write" /\ row.exists /\ row' = Saved(persist(s))
  BY DEF OAuthNext, AuthURL, Lapse, Exchange, ExchangeCode, ClientForCredential, Token, Done, Receives,
     AnswerLost, PersistRead, PersistWrite, UpdateCredentialData, DeleteCredential, Crash, credentialVars

(* A deleted credential stays deleted, whatever save was under way.        *)
THEOREM DeletionIsFinal == OAuthSpec => DeletedStaysDeleted
<1>1. [OAuthNext]_credentialVars => [~row.exists => ~row'.exists]_credentialVars
  BY RowChanges DEF Deleted
<1> QED
  BY <1>1, PTL DEF OAuthSpec, DeletedStaysDeleted
-----------------------------------------------------------------------------
LEMMA StaleNext ==
    ASSUME MaxToken \in Nat, OAuthTypeOK, StaleInv, [OAuthNext]_credentialVars
    PROVE  StaleInv'
<1> USE DEF history, provider
<1>1. ASSUME NEW f \in Flow, AuthURL(f) \/ Lapse(f) PROVE StaleInv'
  BY <1>1, QuietStale DEF AuthURL, Lapse, OAuthTypeOK, SaverPlace
<1>2. ASSUME NEW h \in Callback, NEW f \in Flow, Exchange(h, f) PROVE StaleInv'
  BY <1>2, QuietStale DEF Exchange, Goes, OAuthTypeOK, Pending, Saver, SaverPlace
<1>3. ASSUME NEW h \in Callback, ExchangeCode(h) PROVE StaleInv'
  <2>1. h \in Saver /\ ~Pending(h) /\ UNCHANGED <<row, read, history>>
    BY <1>3 DEF ExchangeCode, Saver, Pending
  <2>2. token'[h] = 0 /\ \A q \in Saver \ {h} : token'[q] = token[q]
    BY <1>3, <2>1 DEF ExchangeCode, OAuthTypeOK
  <2>3. CASE issued < MaxToken /\ Grants(h, issued + 1)
                /\ valid' \in {{issued + 1}, valid \cup {issued + 1}}
    BY <2>1, <2>2, <2>3, NewTokenStale
  <2>4. CASE Grants(h, 0) /\ UNCHANGED provider
    BY <2>1, <2>2, <2>4, SameTokenStale
  <2>5. CASE Goes(h, "idle") /\ UNCHANGED <<granted, moved, provider>>
    BY <2>1, <2>2, <2>5, QuietStale DEF Goes, OAuthTypeOK, Pending, SaverPlace
  <2> QED
    BY <1>3, <2>3, <2>4, <2>5 DEF ExchangeCode
<1>4. ASSUME NEW s \in Source, ClientForCredential(s) PROVE StaleInv'
  BY <1>4, QuietStale DEF ClientForCredential, Goes, OAuthTypeOK, Pending, Saver, SaverPlace
<1>5. ASSUME NEW s \in Source, Token(s) PROVE StaleInv'
  <2>1. /\ s \in Saver /\ ~Pending(s) /\ UNCHANGED <<row, read, history>>
        /\ token'[s] \in valid /\ \A q \in Saver \ {s} : token'[q] = token[q]
    BY <1>5 DEF Token, Saver, Pending
  <2>2. CASE issued < MaxToken /\ Grants(s, issued + 1)
                /\ valid' = (valid \ {token[s]}) \cup {issued + 1}
    BY <2>1, <2>2, NewTokenStale
  <2>3. CASE Grants(s, 0) /\ UNCHANGED provider
    BY <2>1, <2>3, SameTokenStale
  <2> QED
    BY <1>5, <2>2, <2>3 DEF Token
<1>6. ASSUME NEW s \in Source, Done(s) PROVE StaleInv'
  BY <1>6, QuietStale DEF Done, Goes, OAuthTypeOK, Pending, Saver, SaverPlace
<1>7. ASSUME NEW s \in Saver, PersistRead(s) PROVE StaleInv'
  BY <1>7, PersistReadStale
<1>8. ASSUME NEW s \in Saver, PersistWrite(s) PROVE StaleInv'
  BY <1>8, PersistWriteStale
<1>9. CASE DeleteCredential
  BY <1>9, QuietStale DEF DeleteCredential, OAuthTypeOK, SaverPlace
<1>10. CASE Crash
  <2>1. \A q \in Saver : pc'[q] = "idle"
    BY <1>10 DEF Crash
  <2>2. (\E q \in Saver : Saving(q)) => lost' \/ unsaved'
    BY <1>10 DEF Crash, Saving, Pending
  <2>3. UNCHANGED <<row, valid, overlapped>> /\ (lost => lost') /\ (unsaved => unsaved')
    BY <1>10 DEF Crash
  <2> QED
    BY <2>1, <2>2, <2>3 DEF StaleInv, Outdated, Pending
<1>11. CASE UNCHANGED credentialVars
  BY <1>11, QuietStale DEF credentialVars, OAuthTypeOK, SaverPlace
<1>12. ASSUME NEW s \in Saver, Receives(s) \/ AnswerLost(s) PROVE StaleInv'
  BY <1>12, ReceivesStale, AnswerLostStale
<1> QED
  BY <1>1, <1>2, <1>3, <1>4, <1>5, <1>6, <1>7, <1>8, <1>9, <1>10, <1>11, <1>12 DEF OAuthNext

(* The refresh token in the row goes stale only by an answer that did not  *)
(* arrive, by a failed save, on the way from the provider's grant to the   *)
(* row, or when a save overtook a newer one.                               *)
THEOREM StalenessHasACause == ASSUME MaxToken \in Nat PROVE OAuthSpec => []StaleHasACause
<1>1. OAuthInit => OAuthTypeOK /\ StaleInv
  BY TypeInit, StaleInit
<1>2. OAuthTypeOK /\ StaleInv /\ [OAuthNext]_credentialVars => (OAuthTypeOK /\ StaleInv)'
  BY TypeNext, StaleNext
<1>3. StaleInv => StaleHasACause
  BY DEF StaleInv, StaleHasACause, Outdated, Saving, Pending
<1> QED
  BY <1>1, <1>2, <1>3, PTL DEF OAuthSpec
-----------------------------------------------------------------------------
(***************************************************************************)
(* The server.                                                             *)
(***************************************************************************)

(* The server's behaviours are behaviours of each of its parts: what is    *)
(* proved of a part is true of the server.                                 *)
THEOREM PartsBehave == ServerRuns => Spec /\ WatchRuns /\ OAuthSpec
<1> DEFINE Asks == caller \in Client
<1>1. ServerInit => Init /\ WatchInit /\ OAuthInit /\ Asks
  BY DEF ServerInit
<1>2. [ServerNext]_serverVars => [Next]_limiterVars
  BY DEF ServerNext, serverVars, Limit, Execute, Open, Watch, Connect
<1>3. Asks /\ [ServerNext]_serverVars => Asks' /\ [WatchNext]_monitorVars
  <2> SUFFICES ASSUME caller \in Client, [ServerNext]_serverVars
               PROVE  caller' \in Client /\ [WatchNext]_monitorVars
    OBVIOUS
  <2>1. CASE Limit \/ Connect
    BY <2>1 DEF Limit, Connect
  <2>2. CASE Execute
    BY <2>2 DEF Execute, WatchNext
  <2>3. CASE Open
    BY <2>3 DEF Open, WatchNext
  <2>4. CASE Watch
    BY <2>4 DEF Watch, WatchNext
  <2>5. CASE UNCHANGED serverVars
    BY <2>5 DEF serverVars
  <2> QED
    BY <2>1, <2>2, <2>3, <2>4, <2>5 DEF ServerNext
<1>4. [ServerNext]_serverVars => [OAuthNext]_credentialVars
  <2> SUFFICES ASSUME [ServerNext]_serverVars PROVE [OAuthNext]_credentialVars
    OBVIOUS
  <2>1. CASE Limit \/ Execute \/ Open \/ Watch
    BY <2>1 DEF Limit, Execute, Open, Watch
  <2>2. CASE Connect
    BY <2>2 DEF Connect
  <2>3. CASE UNCHANGED serverVars
    BY <2>3 DEF serverVars
  <2> QED
    BY <2>1, <2>2, <2>3 DEF ServerNext
<1> HIDE DEF Asks
<1>5. ServerRuns => Spec
  BY <1>1, <1>2, PTL DEF ServerRuns, Spec
<1>6. ServerRuns => WatchRuns
  BY <1>1, <1>3, PTL DEF ServerRuns, WatchRuns
<1>7. ServerRuns => OAuthSpec
  BY <1>1, <1>4, PTL DEF ServerRuns, OAuthSpec
<1> QED
  BY <1>5, <1>6, <1>7, PTL

(* In every behaviour of the server no window of time overruns, a final    *)
(* answer shows the run as it stays unless the recovery had listed it, a   *)
(* state admits one exchange, a saved token that the provider refuses has  *)
(* a cause, the limiter is a token bucket and a deleted credential stays   *)
(* deleted.                                                                *)
THEOREM ServerIsSafe ==
    ASSUME MaxPolls \in Nat, MaxToken \in Nat
    PROVE  ServerRuns => /\ [](WindowBound /\ LastEventIsWhole /\ SingleUse /\ StaleHasACause)
                         /\ ImplementsTokenBucket /\ DeletedStaysDeleted
<1> QED
  BY PartsBehave, NoSpanOverruns, Refinement, FinalAnswersAreWhole, StatesAreUsedOnce,
     StalenessHasACause, DeletionIsFinal, PTL
=============================================================================
