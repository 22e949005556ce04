---------------------------- MODULE RateLimiter ------------------------------
(***************************************************************************)
(* The rate limiter of the HTTP API (api/ratelimit.go).  A bucket is made  *)
(* full when its key is first seen, refilled only when its key comes       *)
(* again, and forgotten when it has been idle for long; every call of      *)
(* Allow holds the mutex, so it is one step.  The clock is counted in      *)
(* ticks and tokens in fractions, Cost of them to a token: the limiter for *)
(* runs has a rate of 1 a second and a burst of 5, the one for the copilot *)
(* 0.5 and 3; both forget a bucket after 300 seconds.                      *)
(***************************************************************************)
EXTENDS Integers

CONSTANTS
    Key,        \* the callers
    Rate,       \* fractions of a token a tick adds
    Cost,       \* fractions of a token a request takes
    Capacity,   \* the burst, in fractions
    Idle,       \* ticks after which a bucket may be forgotten
    Horizon     \* bound on the clock

\* A forgotten bucket would be full by the time it is forgotten.
ASSUME RateLimiterAssumption ==
    /\ Rate \in Nat /\ Cost \in Nat \ {0} /\ Capacity \in Nat /\ Idle \in Nat /\ Horizon \in Nat
    /\ Capacity <= Rate * Idle

VARIABLES
    now,
    tokens,     \* of the keys that have a bucket
    lastFill,
    known,      \* the keys that have a bucket
    cleanup,    \* the time of the last clean-up
    answer,     \* the last call and what it returned
    since       \* how many requests of a key were let through from a time on

limiterVars == <<now, tokens, lastFill, known, cleanup, answer, since>>

Time == 0 .. Horizon

AtMost(x, max) == IF x > max THEN max ELSE x

NoAnswer == [j \in Key |-> "none"]
Answer(k, allowed) ==
    [j \in Key |-> IF j # k THEN "none" ELSE IF allowed THEN "allowed" ELSE "refused"]

Init ==
    /\ now = 0 /\ cleanup = 0
    /\ known = {}
    /\ tokens = [k \in Key |-> 0] /\ lastFill = [k \in Key |-> 0]
    /\ answer = NoAnswer
    /\ since = [k \in Key |-> [t \in Time |-> 0]]

Tick ==
    /\ now < Horizon
    /\ now' = now + 1
    /\ answer' = NoAnswer
    /\ UNCHANGED <<tokens, lastFill, known, cleanup, since>>

(* The keys whose buckets are left after the clean-up, if one is due.      *)
Kept_AnyAge == IF now - cleanup > Idle THEN {} ELSE known
Kept ==
    IF now - cleanup > Idle THEN {k \in known : now - lastFill[k] <= Idle} ELSE known

(* The tokens in the bucket of k after the refill.                         *)
Refilled_Uncapped(k) == IF k \in Kept THEN tokens[k] + Rate * (now - lastFill[k]) ELSE Capacity
Refilled(k) ==
    IF k \in Kept THEN AtMost(tokens[k] + Rate * (now - lastFill[k]), Capacity) ELSE Capacity

Allow(k) ==
    LET allowed == Refilled(k) >= Cost IN
    /\ cleanup' = IF now - cleanup > Idle THEN now ELSE cleanup
    /\ known' = Kept \cup {k}
    /\ tokens' = [tokens EXCEPT ![k] = IF allowed THEN Refilled(k) - Cost ELSE Refilled(k)]
    /\ lastFill' = [lastFill EXCEPT ![k] = now]
    /\ answer' = Answer(k, allowed)
    /\ since' = IF allowed
                THEN [since EXCEPT ![k] = [t \in Time |-> IF t <= now THEN @[t] + 1 ELSE @[t]]]
                ELSE since
    /\ UNCHANGED now

Next == Tick \/ \E k \in Key : Allow(k)

Spec == Init /\ [][Next]_limiterVars
-----------------------------------------------------------------------------
TypeOK ==
    /\ now \in Time /\ cleanup \in 0 .. now
    /\ known \subseteq Key
    /\ tokens \in [Key -> 0 .. Capacity]
    /\ lastFill \in [Key -> 0 .. now]
    /\ answer \in [Key -> {"none", "allowed", "refused"}]
    /\ since \in [Key -> [Time -> Nat]]

(* In no span of time are more requests let through than the burst and     *)
(* what the rate adds in that span, forgotten buckets or not.              *)
WindowBound ==
    \A k \in Key, t \in Time : t <= now => Cost * since[k][t] <= Capacity + Rate * (now - t)

(* The bucket a key would have if every bucket were filled at every tick   *)
(* and none were forgotten.                                                *)
Level(k) == IF k \in known THEN AtMost(tokens[k] + Rate * (now - lastFill[k]), Capacity)
            ELSE Capacity

Bucket == INSTANCE TokenBucket WITH level <- [k \in Key |-> Level(k)]

(* Filling lazily and forgetting idle buckets cannot be told from the      *)
(* outside: the limiter implements the token bucket.                       *)
ImplementsTokenBucket == Bucket!Spec
=============================================================================
