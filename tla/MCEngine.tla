------------------------------ MODULE MCEngine ------------------------------
(***************************************************************************)
(* Instances of Engine for TLC: small workflows and the placement of the   *)
(* goroutines on instances.                                                *)
(***************************************************************************)
EXTENDS Engine, TLC

(* A trigger joined again with its only branch, which waits.               *)
TriangleOrder == <<"t", "w", "j">>
TriangleEdges == {<<"t", "w">>, <<"t", "j">>, <<"w", "j">>}

(* Two nodes in a row after the trigger, and a third.                      *)
ChainOrder == <<"t", "w", "x", "u">>
ChainEdges == {<<"t", "w">>, <<"w", "x">>, <<"x", "u">>}

(* A trigger with two branches, one to a node of an unknown type.          *)
BranchOrder == <<"t", "a", "u">>
BranchEdges == {<<"t", "a">>, <<"t", "u">>}

(* One instance serves everything.                                         *)
HomeSingle == [x \in Worker \cup Resumer \cup Exec |-> CHOOSE i \in Inst : TRUE]

Symmetric == Permutations(Worker) \cup Permutations(Exec) \cup Permutations(Resumer)
=============================================================================
