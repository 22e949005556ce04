---------------------------- MODULE TriggerState -----------------------------
(***************************************************************************)
(* What the executor keeps of a trigger's state from one run of a workflow *)
(* to the next.  A trigger node reads and writes ExecContext.State, which  *)
(* the engine takes from the state of the run (engine.go, engine/store.go);*)
(* the triggers of the node packs and triggers.Poller keep there what they *)
(* have seen, or the position they have read to.                           *)
(***************************************************************************)
EXTENDS Naturals

CONSTANTS MaxItems, MaxRuns     \* bounds on the items of the feed and on the runs

Item == 1 .. MaxItems

VARIABLES
    kind,      \* "seen": makes a map of its own when there is none; "cursor": does not
    async,     \* the workers drive the run, or the caller does
    feed,      \* the items the service offers
    row,       \* RunState.State as it is saved with the execution
    mem,       \* RunState.State in memory
    stage,     \* idle, seeded, loaded, executed
    emitted,   \* how many runs got each item
    runs,
    errors     \* the runs that ended in error

vars == <<kind, async, feed, row, mem, stage, emitted, runs, errors>>

(* A map of what the trigger has handled; a nil map reads as an empty one. *)
Nil      == [isMap |-> FALSE, handled |-> {}]
Map(set) == [isMap |-> TRUE, handled |-> set]

(* An empty map is omitted from the JSON, and what is not there is nil.    *)
OmitEmpty(state) == IF state.handled = {} THEN Nil ELSE state

Init ==
    /\ kind \in {"seen", "cursor"} /\ async \in BOOLEAN
    /\ feed = {} /\ row = Nil /\ mem = Nil /\ stage = "idle"
    /\ emitted = [i \in Item |-> 0] /\ runs = 0 /\ errors = 0

Publish ==
    /\ \E i \in Item \ feed : feed' = feed \cup {i}
    /\ UNCHANGED <<kind, async, row, mem, stage, emitted, runs, errors>>

(* Every run is a new execution with an empty map.                         *)
Run ==
    /\ stage = "idle" /\ runs < MaxRuns
    /\ runs' = runs + 1
    /\ mem' = Map({})
    /\ IF async THEN row' = OmitEmpty(Map({})) /\ stage' = "seeded"
       ELSE row' = Nil /\ stage' = "loaded"
    /\ UNCHANGED <<kind, async, feed, emitted, errors>>

(* A worker loads the row.                                                 *)
Process ==
    /\ stage = "seeded"
    /\ mem' = row /\ stage' = "loaded"
    /\ UNCHANGED <<kind, async, feed, row, emitted, runs, errors>>

(* The trigger emits what is new to the state it is given.  The map it     *)
(* makes for itself belongs to its context, which nobody reads afterwards. *)
Execute ==
    /\ stage = "loaded"
    /\ kind = "seen" \/ mem.isMap
    /\ emitted' = [i \in Item |-> IF i \in feed \ mem.handled THEN emitted[i] + 1 ELSE emitted[i]]
    /\ mem' = IF mem.isMap THEN Map(feed) ELSE Nil
    /\ stage' = "executed"
    /\ UNCHANGED <<kind, async, feed, row, runs, errors>>

(* Writing the position to a nil map panics, before anything is emitted.   *)
ExecutePanics ==
    /\ stage = "loaded" /\ kind = "cursor" /\ ~mem.isMap
    /\ stage' = "idle" /\ errors' = errors + 1
    /\ UNCHANGED <<kind, async, feed, row, mem, emitted, runs>>

SaveState ==
    /\ stage = "executed"
    /\ row' = OmitEmpty(mem) /\ stage' = "idle"
    /\ UNCHANGED <<kind, async, feed, mem, emitted, runs, errors>>

Next == Publish \/ Run \/ Process \/ Execute \/ ExecutePanics \/ SaveState
Spec == Init /\ [][Next]_vars
-----------------------------------------------------------------------------
(* The state of a trigger survives from run to run: no item is emitted     *)
(* twice.                                                                  *)
EmittedOnce == \A i \in Item : emitted[i] <= 1
=============================================================================
