---------------------------- MODULE TokenBucket ------------------------------
(***************************************************************************)
(* What a rate limiter promises its callers: each key has a bucket of      *)
(* tokens that is filled at a constant rate up to its capacity; a request  *)
(* is let through exactly when it finds a whole token, and takes it.       *)
(* Tokens are counted in fractions: a request costs Cost of them, a tick   *)
(* of the clock adds Rate.                                                 *)
(***************************************************************************)
EXTENDS Integers

CONSTANTS Key, Rate, Cost, Capacity

VARIABLES level, answer

AtMost(x, max) == IF x > max THEN max ELSE x

NoAnswer == [j \in Key |-> "none"]
Answer(k, allowed) ==
    [j \in Key |-> IF j # k THEN "none" ELSE IF allowed THEN "allowed" ELSE "refused"]

TypeOK ==
    /\ level \in [Key -> 0 .. Capacity]
    /\ answer \in [Key -> {"none", "allowed", "refused"}]

Init ==
    /\ level = [k \in Key |-> Capacity]
    /\ answer = NoAnswer

Fill ==
    /\ level' = [k \in Key |-> AtMost(level[k] + Rate, Capacity)]
    /\ answer' = NoAnswer

Request(k) ==
    /\ answer' = Answer(k, level[k] >= Cost)
    /\ level' = IF level[k] >= Cost THEN [level EXCEPT ![k] = @ - Cost] ELSE level

Next == Fill \/ \E k \in Key : Request(k)

Spec == Init /\ [][Next]_<<level, answer>>
=============================================================================
