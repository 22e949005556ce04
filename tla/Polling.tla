------------------------------ MODULE Polling ------------------------------
(***************************************************************************)
(* The polling framework for trigger nodes:                                *)
(* server/internal/triggers/polling.go.  A Poller reads its state from the *)
(* state of the run (ExecContext.State), decides whether enough time has   *)
(* passed, fetches what is after its cursor, drops the items it has seen   *)
(* and writes its state back.                                              *)
(*                                                                         *)
(* The items of the source are numbered in the order they appear; the      *)
(* cursor is the number of the last one fetched, and a fetch returns again *)
(* the Overlap items before the cursor, as a time window does.  Time is    *)
(* the time elapsed since the last poll, in units, of which Second are the *)
(* unit of LastPoll: it is stored as a Unix time and compared with the     *)
(* clock in its full resolution.                                           *)
(***************************************************************************)
EXTENDS Integers, FiniteSets

CONSTANTS
    MaxItems,     \* bound: items that the source publishes
    Overlap,      \* items before the cursor that a fetch returns again
    NoId,         \* items for which the id extractor returns ""
    Interval,     \* Opts.Interval, after New has clamped it
    MaxIdlePolls, \* Opts.MaxIdlePolls
    BackoffCap,   \* the cap of the back-off (30 minutes)
    Second,       \* units of time in a second
    WordBits,     \* width of int64
    MaxIdle,      \* bound: the idle count saturates here
    MaxRuns       \* bound: runs of the workflow

ASSUME PollingAssumption ==
    /\ MaxItems \in Nat /\ Overlap \in Nat /\ NoId \subseteq 1..MaxItems
    /\ Interval \in Nat \ {0} /\ MaxIdlePolls \in Nat \ {0} /\ BackoffCap \in Nat \ {0}
    /\ WordBits \in Nat \ {0} /\ Second \in Nat \ {0}
    /\ MaxIdle \in Nat /\ MaxRuns \in Nat \ {0}

VARIABLES
    published, \* items the source has published
    phase,     \* units since the clock's last full second
    dedup,     \* the trigger passes WithIDFunc to Emit
    \* pollState, as it is in ctx.State
    polled,    \* LastPoll is set
    since,     \* the clock less LastPoll, up to Horizon
    seenIDs, cursor, idle,
    \* a call of Poll
    pc,        \* "idle", or "fetch" between ShouldFire and Emit
    \* history
    gap,       \* time since the last fetch began, up to Horizon
    emitted,   \* how often this run emitted each item, up to 2
    runs       \* runs of the workflow started

pollState == <<polled, since, seenIDs, cursor, idle>>
vars == <<published, phase, dedup, pollState, pc, gap, emitted, runs>>

Item == 1..MaxItems

-----------------------------------------------------------------------------
(* effectiveInterval.  int64(1) << extra and base * multiplier are         *)
(* computed in WordBits bits, two's complement.                            *)
Power[n \in Nat] == IF n = 0 THEN 1 ELSE 2 * Power[n - 1]

Wrap(n) == ((n + Power[WordBits - 1]) % Power[WordBits]) - Power[WordBits - 1]

ShiftLeft(n) == IF n >= WordBits THEN 0 ELSE Wrap(Power[n])

AtMost(n, m) == IF n > m THEN m ELSE n

EffectiveInterval(i) ==
    IF i > MaxIdlePolls
    THEN AtMost(Wrap(Interval * AtMost(ShiftLeft(i - MaxIdlePolls), 32)), BackoffCap)
    ELSE Interval

Horizon == AtMost(32 * Interval, BackoffCap) + Interval + Second

-----------------------------------------------------------------------------
TypeOK ==
    /\ published \in 0..MaxItems /\ phase \in 0..(Second - 1) /\ dedup \in BOOLEAN
    /\ polled \in BOOLEAN /\ since \in 0..Horizon
    /\ seenIDs \subseteq Item \ NoId
    /\ cursor \in 0..MaxItems
    /\ idle \in 0..MaxIdle
    /\ pc \in {"idle", "fetch"}
    /\ gap \in 0..Horizon
    /\ emitted \in [Item -> 0..2]
    /\ runs \in 1..MaxRuns

FreshState == polled' = FALSE /\ since' = 0 /\ seenIDs' = {} /\ cursor' = 0 /\ idle' = 0

Init ==
    /\ published = 0 /\ phase \in 0..(Second - 1) /\ dedup \in BOOLEAN
    /\ polled = FALSE /\ since = 0 /\ seenIDs = {} /\ cursor = 0 /\ idle = 0
    /\ pc = "idle"
    /\ gap = Horizon
    /\ emitted = [i \in Item |-> 0]
    /\ runs = 1

(* The environment: an item appears, time passes.                          *)
Publish ==
    /\ published < MaxItems /\ published' = published + 1
    /\ UNCHANGED <<phase, dedup, pollState, pc, gap, emitted, runs>>

Pass ==
    /\ phase' = (phase + 1) % Second
    /\ since' = AtMost(since + 1, Horizon)
    /\ gap' = AtMost(gap + 1, Horizon)
    /\ UNCHANGED <<published, dedup, polled, seenIDs, cursor, idle, pc, emitted, runs>>

(* Engine.Run starts a run with an empty State.                            *)
NewRun ==
    /\ pc = "idle" /\ runs < MaxRuns /\ runs' = runs + 1
    /\ FreshState
    /\ emitted' = [i \in Item |-> 0]
    /\ UNCHANGED <<published, phase, dedup, pc, gap>>

(* New, which reads the state, and ShouldFire, which marks the poll before *)
(* the fetch with the last full second.                                    *)
MarkFired_OnlyFirst == polled' = TRUE /\ UNCHANGED since

MarkFired == polled' = TRUE /\ since' = phase

ShouldFire ==
    /\ pc = "idle"
    /\ polled => since >= EffectiveInterval(idle)
    /\ pc' = "fetch"
    /\ MarkFired
    /\ gap' = 0
    /\ UNCHANGED <<published, phase, dedup, seenIDs, cursor, idle, emitted, runs>>

(* The items a fetch returns: those after the cursor, and the overlap.     *)
Fetched_OffByOne == {i \in Item : i > cursor + 1 - Overlap /\ i < published}

Fetched == {i \in Item : i > cursor - Overlap /\ i <= published}

(* A failed fetch leaves the cursor and the seen items alone.              *)
FetchFails_CursorMoved ==
    /\ pc = "fetch"
    /\ pc' = "idle"
    /\ cursor' = published
    /\ UNCHANGED <<published, phase, dedup, polled, since, seenIDs, idle, gap, emitted, runs>>

FetchFails ==
    /\ pc = "fetch"
    /\ pc' = "idle"
    /\ UNCHANGED <<published, phase, dedup, pollState, gap, emitted, runs>>

(* Emit: the items without an id and those not seen, or all of them when   *)
(* the trigger passes no id function; the new cursor, if the fetch gave    *)
(* one, the ids and the idle count are saved together.                     *)
NewItems_NoDedup == Fetched

NewItems == {i \in Fetched : dedup => i \in NoId \/ i \notin seenIDs}

NewIDs == {i \in NewItems : dedup /\ i \notin NoId}

IsIdle == IF dedup THEN NewIDs = {} ELSE Fetched = {}

IdleAfter == IF ~IsIdle THEN 0 ELSE AtMost(idle + 1, MaxIdle)

Emit ==
    /\ pc = "fetch"
    /\ pc' = "idle"
    /\ emitted' = [i \in Item |-> IF i \in NewItems THEN AtMost(emitted[i] + 1, 2) ELSE emitted[i]]
    /\ seenIDs' = seenIDs \cup NewIDs
    /\ cursor' \in {cursor, published}
    /\ idle' = IdleAfter
    /\ UNCHANGED <<published, phase, dedup, polled, since, gap, runs>>

Next == Publish \/ Pass \/ NewRun \/ ShouldFire \/ FetchFails \/ Emit

Spec == Init /\ [][Next]_vars

(* Time passes, the node is called again and again, and the source answers *)
(* now and then.                                                           *)
FairSpec == Spec /\ WF_vars(Pass) /\ WF_vars(ShouldFire) /\ SF_vars(Emit) /\ WF_vars(FetchFails)

-----------------------------------------------------------------------------
(* Properties                                                              *)

(* A run does not emit an item with an id twice.                           *)
NeverTwice == dedup => \A i \in Item \ NoId : emitted[i] <= 1

(* The cursor never passes an item that the run has not emitted: neither a *)
(* failed fetch nor the rate limit loses one.                              *)
CursorSkipsNothing == \A i \in Item : i <= cursor => emitted[i] >= 1

(* The back-off only ever delays: polls are more than Interval less one    *)
(* second apart (LastPoll has lost the fraction of its second), with or    *)
(* without it and also after a fetch that failed; as idle polls add up the *)
(* interval gets no shorter; and a poll that emits an item with an id, or  *)
(* any item where there are no ids, ends it.                               *)
NotMoreOften ==
    [][/\ pc = "idle" /\ pc' = "fetch" /\ polled => gap > Interval - Second
       /\ idle' > idle => EffectiveInterval(idle') >= EffectiveInterval(idle)
       /\ pc = "fetch" /\ (\E i \in Item : (dedup => i \notin NoId) /\ emitted'[i] > emitted[i])
             => idle' = 0]_vars

(* Every item is emitted in the end, whatever the back-off.                *)
ItemsAreEmitted == \A i \in Item : published >= i ~> emitted[i] >= 1
=============================================================================
