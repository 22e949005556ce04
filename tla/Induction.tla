----------------------------- MODULE Induction ------------------------------
(***************************************************************************)
(* Induction over the natural numbers in the form the proofs use it: with  *)
(* sets and functions in the place of the operators that the theorems of   *)
(* NaturalsInduction and WellFoundedInduction take; and what it gives of   *)
(* lists.                                                                  *)
(***************************************************************************)
EXTENDS Integers, Selection, SequenceTheorems, WellFoundedInduction, TLAPS

(* A nonempty set of natural numbers has a least element.                  *)
THEOREM LeastNumber ==
    ASSUME NEW T \in SUBSET Nat, T # {}
    PROVE  \E x \in T : \A y \in T : x <= y
  <1> DEFINE R == OpToRel(<, Nat)
  <1>1. IsWellFoundedOn(R, Nat)
    BY NatLessThanWellFounded
  <1>2. \A x, y \in Nat : y < x => <<y, x>> \in R
    BY DEF OpToRel
  <1> HIDE DEF R
  <1>3. PICK x \in T : \A y \in T : <<y, x>> \notin R
    BY <1>1, WFMin
  <1>4. \A y \in T : ~(y < x)
    BY <1>2, <1>3
  <1> QED
    BY <1>3, <1>4

(* A set that holds 0, and the successor of each of its members, holds all *)
(* natural numbers.                                                        *)
THEOREM SetInduction ==
    ASSUME NEW S, 0 \in S, \A n \in Nat : n \in S => n + 1 \in S
    PROVE  Nat \subseteq S
  <1>1. SUFFICES ASSUME Nat \ S # {} PROVE FALSE
    OBVIOUS
  <1>2. PICK x \in Nat \ S : \A y \in Nat \ S : x <= y
    <2>1. Nat \ S \in SUBSET Nat
      OBVIOUS
    <2> QED
      BY <1>1, <2>1, LeastNumber
  <1>3. x # 0 /\ x - 1 \in Nat
    BY <1>2
  <1>4. x - 1 \in S
    BY <1>2, <1>3
  <1> QED
    BY <1>2, <1>3, <1>4

-----------------------------------------------------------------------------
(* Iteration: f[0] = b and f[n + 1] = step[f[n]] defines a function.       *)

Upto(n, f, b, step) == f[0] = b /\ \A i \in Nat : i < n => f[i + 1] = step[f[i]]

LEMMA UptoUnique ==
    ASSUME NEW n \in Nat, NEW f, NEW g, NEW b, NEW step, Upto(n, f, b, step), Upto(n, g, b, step)
    PROVE  \A i \in 0 .. n : f[i] = g[i]
  <1> DEFINE S == {i \in Nat : i <= n => f[i] = g[i]}
  <1>1. 0 \in S
    BY DEF Upto
  <1>2. \A i \in Nat : i \in S => i + 1 \in S
    BY DEF Upto
  <1> HIDE DEF S
  <1>3. Nat \subseteq S
    BY <1>1, <1>2, SetInduction
  <1> QED
    BY <1>3 DEF S

LEMMA UptoExists ==
    ASSUME NEW b \in Nat, NEW step \in [Nat -> Nat], NEW n \in Nat
    PROVE  \E f \in [Nat -> Nat] : Upto(n, f, b, step)
  <1> DEFINE S == {k \in Nat : \E f \in [Nat -> Nat] : Upto(k, f, b, step)}
  <1>1. 0 \in S
    <2>1. Upto(0, [i \in Nat |-> b], b, step)
      BY DEF Upto
    <2> QED
      BY <2>1
  <1>2. ASSUME NEW k \in Nat, k \in S PROVE k + 1 \in S
    <2>1. PICK f \in [Nat -> Nat] : Upto(k, f, b, step)
      BY <1>2
    <2> DEFINE g == [f EXCEPT ![k + 1] = step[f[k]]]
    <2>2. g \in [Nat -> Nat] /\ g[k + 1] = step[f[k]] /\ \A i \in Nat : i <= k => g[i] = f[i]
      BY <1>2
    <2> HIDE DEF g
    <2>3. Upto(k + 1, g, b, step)
      <3>1. g[0] = b
        BY <2>1, <2>2 DEF Upto
      <3>2. ASSUME NEW i \in Nat, i < k + 1 PROVE g[i + 1] = step[g[i]]
        <4>1. CASE i = k
          BY <2>2, <4>1
        <4>2. CASE i < k
          <5>1. i + 1 \in Nat /\ i + 1 <= k /\ i <= k
            BY <4>2
          <5>2. f[i + 1] = step[f[i]]
            BY <2>1, <4>2 DEF Upto
          <5> QED
            BY <2>2, <5>1, <5>2
        <4> QED
          BY <3>2, <4>1, <4>2
      <3> QED
        BY <3>1, <3>2 DEF Upto
    <2>4. \E h \in [Nat -> Nat] : Upto(k + 1, h, b, step)
      BY <2>2, <2>3, Zenon
    <2> QED
      BY <2>4
  <1> HIDE DEF S
  <1>3. Nat \subseteq S
    BY <1>1, <1>2, SetInduction
  <1> QED
    BY <1>3 DEF S

THEOREM Iteration ==
    ASSUME NEW b \in Nat, NEW step \in [Nat -> Nat]
    PROVE  \E f \in [Nat -> Nat] : f[0] = b /\ \A n \in Nat : f[n + 1] = step[f[n]]
  <1> DEFINE g(n) == CHOOSE h \in [Nat -> Nat] : Upto(n, h, b, step)
             f == [n \in Nat |-> g(n)[n]]
  <1>1. ASSUME NEW n \in Nat PROVE g(n) \in [Nat -> Nat] /\ Upto(n, g(n), b, step)
    <2>1. \E h \in [Nat -> Nat] : Upto(n, h, b, step)
      BY UptoExists
    <2> HIDE DEF f
    <2> QED
      BY <2>1, Zenon
  <1> HIDE DEF g
  <1>2. f \in [Nat -> Nat]
    BY <1>1
  <1>3. f[0] = b
    BY <1>1 DEF Upto
  <1>4. ASSUME NEW n \in Nat PROVE f[n + 1] = step[f[n]]
    <2>1. g(n + 1)[n + 1] = step[g(n + 1)[n]]
      BY <1>1 DEF Upto
    <2>2. Upto(n, g(n + 1), b, step)
      <3>1. Upto(n + 1, g(n + 1), b, step)
        BY <1>1
      <3> QED
        BY <3>1 DEF Upto
    <2>3. g(n + 1)[n] = g(n)[n]
      BY <1>1, <2>2, UptoUnique
    <2> QED
      BY <2>1, <2>3
  <1> QED
    BY <1>2, <1>3, <1>4
-----------------------------------------------------------------------------
(* Recursion over the numbers up to N: f[0] = b and f[n] = step[n, f[n-1]] *)
(* defines a function.                                                     *)

Stepwise(m, f, b, step) == f[0] = b /\ \A i \in 1 .. m : f[i] = step[<<i, f[i - 1]>>]

LEMMA RecursionUpto ==
    ASSUME NEW N \in Nat, NEW V, NEW b \in V, NEW step \in [(1 .. N) \X V -> V],
           NEW k \in Nat, k <= N
    PROVE  \E f \in [0 .. N -> V] : Stepwise(k, f, b, step)
  <1> USE DEF Stepwise
  <1> DEFINE Good(f, m) == Stepwise(m, f, b, step)
             S == {m \in Nat : m <= N => \E f \in [0 .. N -> V] : Good(f, m)}
  <1>1. 0 \in S
    <2>1. [i \in 0 .. N |-> b] \in [0 .. N -> V] /\ Good([i \in 0 .. N |-> b], 0)
      OBVIOUS
    <2> QED
      BY <2>1
  <1>2. ASSUME NEW m \in Nat, m \in S PROVE m + 1 \in S
    <2> SUFFICES ASSUME m + 1 <= N PROVE \E f \in [0 .. N -> V] : Good(f, m + 1)
      OBVIOUS
    <2>1. PICK f \in [0 .. N -> V] : Good(f, m)
      BY <1>2
    <2> DEFINE g == [f EXCEPT ![m + 1] = step[<<m + 1, f[m]>>]]
    <2>2. m \in 0 .. N /\ m + 1 \in 1 .. N /\ m + 1 \in 0 .. N
      OBVIOUS
    <2>3. step[<<m + 1, f[m]>>] \in V
      BY <2>2
    <2>4. /\ g \in [0 .. N -> V] /\ g[m + 1] = step[<<m + 1, f[m]>>]
          /\ \A i \in 0 .. m : g[i] = f[i]
      BY <2>2, <2>3
    <2> HIDE DEF g
    <2>5. g[0] = b
      BY <2>1, <2>4
    <2>6. ASSUME NEW i \in 1 .. (m + 1) PROVE g[i] = step[<<i, g[i - 1]>>]
      <3>1. CASE i = m + 1
        <4>1. i - 1 = m /\ m \in 0 .. m
          BY <3>1
        <4> QED
          BY <2>4, <3>1, <4>1
      <3>2. CASE i # m + 1
        <4>1. i \in 1 .. m /\ i \in 0 .. m /\ i - 1 \in 0 .. m
          BY <3>2
        <4> QED
          BY <2>1, <2>4, <4>1
      <3> QED
        BY <3>1, <3>2
    <2> QED
      BY <2>4, <2>5, <2>6
  <1> HIDE DEF S
  <1>3. Nat \subseteq S
    BY <1>1, <1>2, SetInduction
  <1> QED
    BY <1>3 DEF S

Recursive(N, f, b, step) ==
    f = [n \in 0 .. N |-> IF n = 0 THEN b ELSE step[<<n, f[n - 1]>>]]

THEOREM Recursion ==
    ASSUME NEW N \in Nat, NEW V, NEW b \in V, NEW step \in [(1 .. N) \X V -> V]
    PROVE  \E f \in [0 .. N -> V] : Recursive(N, f, b, step)
  <1>1. PICK f \in [0 .. N -> V] : f[0] = b /\ \A i \in 1 .. N : f[i] = step[<<i, f[i - 1]>>]
    <2>1. N <= N
      OBVIOUS
    <2>2. \E f \in [0 .. N -> V] : Stepwise(N, f, b, step)
      BY <2>1, RecursionUpto
    <2> QED
      BY <2>2 DEF Stepwise
  <1> DEFINE next(n) == IF n = 0 THEN b ELSE step[<<n, f[n - 1]>>]
  <1>2. ASSUME NEW n \in 0 .. N PROVE f[n] = next(n)
    <2>1. CASE n = 0
      BY <1>1, <2>1
    <2>2. CASE n # 0
      <3>1. n \in 1 .. N
        BY <2>2
      <3>2. f[n] = step[<<n, f[n - 1]>>]
        BY <1>1, <3>1
      <3> QED
        BY <2>2, <3>2
    <2> QED
      BY <2>1, <2>2
  <1> HIDE DEF next
  <1>3. f = [n \in 0 .. N |-> next(n)]
    BY <1>1, <1>2
  <1> QED
    BY <1>1, <1>3 DEF next, Recursive

-----------------------------------------------------------------------------
(***************************************************************************)
(* Lists: what selecting (Selection) and concatenating give, which follows *)
(* from Recursion.                                                         *)
(***************************************************************************)

(* What has been selected once the loop has passed the n-th element.       *)
Passed(n, f, s, places) ==
    f[n] = IF n = 0 THEN <<>> ELSE IF n \in places THEN Append(f[n - 1], s[n]) ELSE f[n - 1]

(* Selecting is a loop: there is a function of the elements passed so far  *)
(* that computes it.                                                       *)
LEMMA SelectedIsComputed ==
    ASSUME NEW V, NEW s \in Seq(V), NEW places
    PROVE  \E f \in [0 .. Len(s) -> Seq(V)] :
              (\A n \in 0 .. Len(s) : Passed(n, f, s, places)) /\ Selected(s, places) = f[Len(s)]
  <1> DEFINE N == Len(s)
             next(n, prev) == IF n \in places THEN Append(prev, s[n]) ELSE prev
             step == [x \in (1 .. N) \X Seq(V) |-> next(x[1], x[2])]
             Eq(f) == f = [n \in 0 .. N |-> IF n = 0 THEN <<>>
                                            ELSE IF n \in places THEN Append(f[n - 1], s[n]) ELSE f[n - 1]]
             g == CHOOSE f : Eq(f)
  <1>1. N \in Nat /\ <<>> \in Seq(V) /\ \A n \in 1 .. N : s[n] \in V
    OBVIOUS
  <1>2. step \in [(1 .. N) \X Seq(V) -> Seq(V)]
    BY <1>1
  <1>3. \E f : Eq(f)
    <2>1. PICK f \in [0 .. N -> Seq(V)] : Recursive(N, f, <<>>, step)
      <3> HIDE DEF step, N
      <3> QED
        BY <1>1, <1>2, Recursion
    <2> USE DEF Recursive
    <2>2. ASSUME NEW n \in 0 .. N PROVE f[n] = IF n = 0 THEN <<>> ELSE next(n, f[n - 1])
      <3>1. CASE n = 0
        BY <2>1, <3>1
      <3>2. CASE n # 0
        <4>1. n \in 1 .. N /\ f[n - 1] \in Seq(V)
          BY <3>2
        <4>2. f[n] = step[<<n, f[n - 1]>>]
          BY <2>1, <3>2
        <4> QED
          BY <3>2, <4>1, <4>2
      <3> QED
        BY <3>1, <3>2
    <2>3. Eq(f)
      BY <2>1, <2>2
    <2> QED
      BY <2>3
  <1>4. Eq(g) /\ Selected(s, places) = g[N]
    BY <1>3 DEF Selected
  <1> HIDE DEF g
  <1>5. \A n \in 0 .. N : Passed(n, g, s, places)
    BY <1>4 DEF Passed
  <1>6. \A n \in 0 .. N : g[n] \in Seq(V)
    <2> DEFINE S == {n \in Nat : n <= N => g[n] \in Seq(V)}
    <2>1. 0 \in S
      <3>1. 0 \in 0 .. N
        BY <1>1
      <3> QED
        BY <1>1, <1>5, <3>1 DEF Passed
    <2>2. ASSUME NEW n \in Nat, n \in S PROVE n + 1 \in S
      <3> SUFFICES ASSUME n + 1 <= N PROVE g[n + 1] \in Seq(V)
        OBVIOUS
      <3>1. n + 1 \in 1 .. N /\ n + 1 \in 0 .. N /\ (n + 1) - 1 = n /\ n + 1 # 0 /\ n <= N
        OBVIOUS
      <3>2. g[n] \in Seq(V) /\ s[n + 1] \in V
        BY <2>2, <3>1, <1>1
      <3>3. g[n + 1] = IF n + 1 \in places THEN Append(g[n], s[n + 1]) ELSE g[n]
        BY <1>5, <3>1 DEF Passed
      <3> QED
        BY <3>2, <3>3
    <2> HIDE DEF S
    <2>3. Nat \subseteq S
      BY <2>1, <2>2, SetInduction
    <2> QED
      BY <2>3 DEF S
  <1>7. g \in [0 .. N -> Seq(V)]
    BY <1>4, <1>6
  <1> QED
    BY <1>4, <1>5, <1>7

(* t is the elements of s at these places, in the order of s.              *)
Picks(t, s, places, at) ==
    /\ at \in [1 .. Len(t) -> places]
    /\ \A k \in 1 .. Len(t) : t[k] = s[at[k]]
    /\ \A k, l \in 1 .. Len(t) : k < l => at[k] < at[l]
    /\ \A i \in places : \E k \in 1 .. Len(t) : at[k] = i

PicksOut(t, s, places) == \E at : Picks(t, s, places, at)

(* One more selected element.                                              *)
LEMMA PicksMore ==
    ASSUME NEW V, NEW s \in Seq(V), NEW t \in Seq(V), NEW n \in Nat, NEW places,
           NEW v \in V, n + 1 \in 1 .. Len(s), v = s[n + 1], places \subseteq 1 .. n,
           PicksOut(t, s, places)
    PROVE  PicksOut(Append(t, v), s, places \cup {n + 1})
  <1>1. PICK at : Picks(t, s, places, at)
    BY DEF PicksOut
  <1>2. PICK L \in Nat : L = Len(t)
    OBVIOUS
  <1>3. PICK u : u = Append(t, v)
    OBVIOUS
  <1>4. Len(u) = L + 1 /\ u[L + 1] = v /\ \A k \in 1 .. L : u[k] = t[k]
    BY <1>2, <1>3
  <1>5. /\ at \in [1 .. L -> places] /\ \A k \in 1 .. L : t[k] = s[at[k]]
        /\ \A k, l \in 1 .. L : k < l => at[k] < at[l]
        /\ \A i \in places : \E k \in 1 .. L : at[k] = i
    BY <1>1, <1>2 DEF Picks
  <1> DEFINE new == [k \in 1 .. (L + 1) |-> IF k = L + 1 THEN n + 1 ELSE at[k]]
  <1>6. /\ new \in [1 .. (L + 1) -> places \cup {n + 1}]
        /\ new[L + 1] = n + 1 /\ \A k \in 1 .. L : new[k] = at[k] /\ at[k] \in 1 .. n
    <2>1. \A k \in 1 .. L : at[k] \in places /\ at[k] \in 1 .. n
      <3>1. \A k \in 1 .. L : at[k] \in places
        BY <1>5
      <3> QED
        BY <3>1
    <2>2. /\ \A k \in 1 .. (L + 1) : k # L + 1 => k \in 1 .. L
          /\ \A k \in 1 .. L : k # L + 1 /\ k \in 1 .. (L + 1)
      OBVIOUS
    <2>3. L + 1 \in 1 .. (L + 1)
      OBVIOUS
    <2> QED
      BY <2>1, <2>2, <2>3
  <1> HIDE DEF new
  <1>7. \A k \in 1 .. (L + 1) : k = L + 1 \/ k \in 1 .. L
    OBVIOUS
  <1>8. \A k \in 1 .. (L + 1) : u[k] = s[new[k]]
    BY <1>4, <1>5, <1>6, <1>7
  <1>9. \A k, l \in 1 .. (L + 1) : k < l => new[k] < new[l]
    <2> SUFFICES ASSUME NEW k \in 1 .. (L + 1), NEW l \in 1 .. (L + 1), k < l PROVE new[k] < new[l]
      OBVIOUS
    <2>1. k \in 1 .. L
      OBVIOUS
    <2>2. CASE l = L + 1
      BY <1>6, <2>1, <2>2
    <2>3. CASE l \in 1 .. L
      BY <1>5, <1>6, <2>1, <2>3
    <2> QED
      BY <1>7, <2>2, <2>3
  <1>10. ASSUME NEW i \in places \cup {n + 1} PROVE \E k \in 1 .. (L + 1) : new[k] = i
    <2>1. CASE i = n + 1
      BY <1>6, <2>1
    <2>2. CASE i \in places
      BY <1>5, <1>6, <2>2
    <2> QED
      BY <2>1, <2>2
  <1>11. Picks(u, s, places \cup {n + 1}, new)
    BY <1>4, <1>6, <1>8, <1>9, <1>10 DEF Picks
  <1> QED
    BY <1>3, <1>11 DEF PicksOut

PickedUpto(n, t, s, places) == Len(t) <= n /\ PicksOut(t, s, places \cap (1 .. n))

(* Selecting (the filtering loops of nodes/core: a result list that grows  *)
(* by one element of the input at a time) gives the elements at the chosen *)
(* places, each once and in their order, for every list and every set of   *)
(* places.                                                                 *)
THEOREM SelectedPicks ==
    ASSUME NEW V, NEW s \in Seq(V), NEW places, places \subseteq 1 .. Len(s)
    PROVE  /\ Selected(s, places) \in Seq(V)
           /\ Len(Selected(s, places)) <= Len(s)
           /\ PicksOut(Selected(s, places), s, places)
  <1>0. PICK N \in Nat : N = Len(s)
    OBVIOUS
  <1>1. PICK f \in [0 .. N -> Seq(V)] :
           (\A n \in 0 .. N : Passed(n, f, s, places)) /\ Selected(s, places) = f[N]
    BY <1>0, SelectedIsComputed
  <1> DEFINE S == {m \in Nat : m <= N => PickedUpto(m, f[m], s, places)}
  <1>2. 0 \in S
    <2>1. f[0] = <<>> /\ Len(f[0]) = 0 /\ places \cap (1 .. 0) = {}
      <3>1. 0 \in 0 .. N
        OBVIOUS
      <3> QED
        BY <1>1, <3>1 DEF Passed
    <2>2. Picks(f[0], s, {}, [k \in 1 .. 0 |-> 0])
      BY <2>1 DEF Picks
    <2>3. PickedUpto(0, f[0], s, places)
      BY <2>1, <2>2 DEF PicksOut, PickedUpto
    <2> QED
      BY <2>3
  <1>3. ASSUME NEW n \in Nat, n \in S PROVE n + 1 \in S
    <2> SUFFICES ASSUME n + 1 <= N PROVE PickedUpto(n + 1, f[n + 1], s, places)
      OBVIOUS
    <2>1. n <= N
      OBVIOUS
    <2>2. PickedUpto(n, f[n], s, places)
      BY <1>3, <2>1
    <2> HIDE DEF S
    <2>3. n + 1 \in 1 .. N /\ n + 1 \in 0 .. N /\ n \in 0 .. N /\ (n + 1) - 1 = n /\ n + 1 # 0
      OBVIOUS
    <2>4. f[n] \in Seq(V) /\ s[n + 1] \in V
      BY <1>0, <2>3
    <2>5. f[n + 1] = IF n + 1 \in places THEN Append(f[n], s[n + 1]) ELSE f[n]
      BY <1>1, <2>3 DEF Passed
    <2>6. PICK t \in Seq(V), v \in V : t = f[n] /\ v = s[n + 1]
      BY <2>4
    <2>7. Len(t) \in Nat /\ Len(t) <= n /\ PicksOut(t, s, places \cap (1 .. n))
      BY <2>2, <2>6 DEF PickedUpto
    <2>8. CASE n + 1 \notin places
      <3>1. f[n + 1] = t /\ places \cap (1 .. (n + 1)) = places \cap (1 .. n)
        BY <2>5, <2>6, <2>8
      <3> QED
        <4>1. Len(t) <= n + 1
          BY <2>7
        <4> QED
          BY <2>7, <3>1, <4>1 DEF PickedUpto
    <2>9. CASE n + 1 \in places
      <3>1. f[n + 1] = Append(t, v)
        BY <2>5, <2>6, <2>9
      <3>2. places \cap (1 .. (n + 1)) = (places \cap (1 .. n)) \cup {n + 1}
        BY <2>9
      <3>3. n + 1 \in 1 .. Len(s) /\ places \cap (1 .. n) \subseteq 1 .. n
        BY <1>0, <2>3
      <3>4. PicksOut(Append(t, v), s, (places \cap (1 .. n)) \cup {n + 1})
        BY <2>6, <2>7, <3>3, PicksMore
      <3>5. Len(Append(t, v)) <= n + 1
        BY <2>7
      <3> QED
        BY <3>1, <3>2, <3>4, <3>5 DEF PickedUpto
    <2> QED
      BY <2>8, <2>9
  <1> HIDE DEF S
  <1>4. Nat \subseteq S
    BY <1>2, <1>3, SetInduction
  <1>5. PickedUpto(N, f[N], s, places)
    <2>1. N \in S
      BY <1>4
    <2> QED
      BY <2>1 DEF S
  <1>6. f[N] \in Seq(V) /\ places \cap (1 .. N) = places
    <2>1. N \in 0 .. N
      OBVIOUS
    <2>2. places \cap (1 .. N) = places
      BY <1>0
    <2> QED
      BY <2>1, <2>2
  <1> QED
    BY <1>0, <1>1, <1>5, <1>6 DEF PickedUpto

(* A set of numbers that has a bound has a greatest one.                   *)
LEMMA GreatestNumber ==
    ASSUME NEW N \in Nat, NEW T \in SUBSET (0 .. N), T # {}
    PROVE  \E x \in T : \A y \in T : y <= x
  <1> DEFINE U == {m \in Nat : \A y \in T : y <= m}
  <1>1. N \in U
    OBVIOUS
  <1>2. U \in SUBSET Nat /\ U # {}
    BY <1>1
  <1>3. PICK m \in U : \A u \in U : m <= u
    <2> HIDE DEF U
    <2> QED
      BY <1>2, LeastNumber
  <1>4. m \in T
    <2> SUFFICES ASSUME m \notin T PROVE FALSE
      OBVIOUS
    <2>1. \A y \in T : y \in Nat /\ y < m
      BY <1>3
    <2>2. m - 1 \in Nat /\ \A y \in T : y <= m - 1
      <3>1. PICK y \in T : TRUE
        OBVIOUS
      <3>2. m \in Nat /\ y \in Nat /\ y < m
        BY <1>3, <2>1
      <3> QED
        BY <2>1, <3>2
    <2>3. m - 1 \in U
      BY <2>2
    <2> QED
      BY <1>3, <2>3
  <1> QED
    BY <1>3, <1>4

(* Selecting every element changes nothing.                                *)
LEMMA SelectedAll ==
    ASSUME NEW V, NEW s \in Seq(V), NEW places, \A n \in 1 .. Len(s) : n \in places
    PROVE  Selected(s, places) = s
  <1>1. PICK N \in Nat : N = Len(s)
    OBVIOUS
  <1>2. PICK f \in [0 .. N -> Seq(V)] :
           (\A n \in 0 .. N : Passed(n, f, s, places)) /\ Selected(s, places) = f[N]
    BY <1>1, SelectedIsComputed
  <1> DEFINE S == {n \in Nat : n <= N => f[n] = SubSeq(s, 1, n)}
  <1>3. 0 \in S
    <2>1. 0 \in 0 .. N
      OBVIOUS
    <2>2. f[0] = <<>>
      BY <1>2, <2>1 DEF Passed
    <2> QED
      BY <2>2
  <1>4. ASSUME NEW n \in Nat, n \in S PROVE n + 1 \in S
    <2> SUFFICES ASSUME n + 1 <= N PROVE f[n + 1] = SubSeq(s, 1, n + 1)
      OBVIOUS
    <2>1. n + 1 \in 1 .. N /\ n + 1 \in 0 .. N /\ (n + 1) - 1 = n /\ n + 1 # 0 /\ n <= N
      OBVIOUS
    <2>2. f[n] = SubSeq(s, 1, n)
      BY <1>4, <2>1
    <2> HIDE DEF S
    <2>3. f[n + 1] = Append(f[n], s[n + 1])
      BY <1>1, <1>2, <2>1 DEF Passed
    <2>4. SubSeq(s, 1, n + 1) = Append(SubSeq(s, 1, n), s[n + 1])
      BY <1>1, <2>1
    <2> QED
      BY <2>2, <2>3, <2>4
  <1> HIDE DEF S
  <1>5. Nat \subseteq S
    BY <1>3, <1>4, SetInduction
  <1>6. f[N] = SubSeq(s, 1, N)
    <2>1. N \in S
      BY <1>5
    <2> QED
      BY <2>1 DEF S
  <1> QED
    BY <1>1, <1>2, <1>6, SubSeqFull

(* Appending and concatenating.                                            *)
LEMMA AppendToConcat ==
    ASSUME NEW V, NEW s \in Seq(V), NEW t \in Seq(V), NEW x \in V
    PROVE  Append(s \o t, x) = s \o Append(t, x) /\ Append(t, x) \in Seq(V)
  <1>1. s \o t \in Seq(V) /\ <<x>> \in Seq(V)
    OBVIOUS
  <1>2. (s \o t) \o <<x>> = s \o (t \o <<x>>)
    BY <1>1, ConcatAssociative
  <1>3. Append(t, x) = t \o <<x>> /\ Append(t, x) \in Seq(V)
    BY AppendIsConcat
  <1>4. Append(s \o t, x) = (s \o t) \o <<x>>
    BY <1>1, AppendIsConcat
  <1> QED
    BY <1>2, <1>3, <1>4

SamePlaces(P, Q, a) == \A n \in 1 .. Len(a) : n \in P <=> n \in Q
Continues(long, short, V) == \E more \in Seq(V) : long = short \o more

(* What is selected of a list begins with what is selected of its first    *)
(* part.                                                                   *)
LEMMA SelectedContinues ==
    ASSUME NEW V, NEW a \in Seq(V), NEW b \in Seq(V), NEW P, NEW Q, SamePlaces(P, Q, a),
           NEW c, c = a \o b
    PROVE  Continues(Selected(c, P), Selected(a, Q), V)
  <1>1. PICK N \in Nat, M \in Nat : N = Len(a) /\ M = Len(a \o b) /\ N <= M
    <2>1. Len(a \o b) = Len(a) + Len(b) /\ Len(a) \in Nat /\ Len(b) \in Nat
      OBVIOUS
    <2> QED
      BY <2>1
  <1>2. PICK s \in Seq(V) : s = a \o b /\ Len(s) = M /\ \A n \in 1 .. N : s[n] = a[n]
    <2>1. a \o b \in Seq(V) /\ \A i \in 1 .. Len(a) + Len(b) :
             (a \o b)[i] = IF i <= Len(a) THEN a[i] ELSE b[i - Len(a)]
      BY ConcatProperties
    <2>2. \A n \in 1 .. N : n \in 1 .. Len(a) + Len(b) /\ n <= Len(a)
      BY <1>1
    <2> QED
      BY <1>1, <2>1, <2>2
  <1>3. PICK f \in [0 .. M -> Seq(V)] :
           (\A n \in 0 .. M : Passed(n, f, s, P)) /\ Selected(s, P) = f[M]
    <2>1. Len(s) = M
      BY <1>2
    <2> QED
      BY <2>1, SelectedIsComputed
  <1>4. PICK g \in [0 .. N -> Seq(V)] :
           (\A n \in 0 .. N : Passed(n, g, a, Q)) /\ Selected(a, Q) = g[N]
    BY <1>1, SelectedIsComputed
  <1> DEFINE S == {n \in Nat : n <= N => f[n] = g[n]}
  <1>5. 0 \in S
    <2>1. 0 \in 0 .. N /\ 0 \in 0 .. M
      OBVIOUS
    <2> QED
      BY <1>3, <1>4, <2>1 DEF Passed
  <1>6. ASSUME NEW n \in Nat, n \in S PROVE n + 1 \in S
    <2> SUFFICES ASSUME n + 1 <= N PROVE f[n + 1] = g[n + 1]
      OBVIOUS
    <2>1. n + 1 \in 1 .. N /\ n + 1 \in 0 .. N /\ n + 1 \in 0 .. M /\ (n + 1) - 1 = n /\ n + 1 # 0 /\ n <= N
      BY <1>1
    <2>2. f[n] = g[n]
      BY <1>6, <2>1
    <2> HIDE DEF S
    <2>3. f[n + 1] = IF n + 1 \in P THEN Append(f[n], s[n + 1]) ELSE f[n]
      BY <1>3, <2>1 DEF Passed
    <2>4. g[n + 1] = IF n + 1 \in Q THEN Append(g[n], a[n + 1]) ELSE g[n]
      BY <1>4, <2>1 DEF Passed
    <2>5. n + 1 \in P <=> n + 1 \in Q
      BY <1>1, <2>1 DEF SamePlaces
    <2> QED
      BY <1>2, <2>1, <2>2, <2>3, <2>4, <2>5
  <1> HIDE DEF S
  <1>7. Nat \subseteq S
    BY <1>5, <1>6, SetInduction
  <1>8. f[N] = g[N] /\ g[N] \in Seq(V)
    <2>1. N \in S /\ N \in 0 .. N
      BY <1>7
    <2> QED
      BY <2>1 DEF S
  <1> DEFINE Extends(n) == \E more \in Seq(V) : f[n] = g[N] \o more
             T == {k \in Nat : N + k <= M => Extends(N + k)}
  <1>9. 0 \in T
    <2>1. <<>> \in Seq(V) /\ f[N] = g[N] \o <<>>
      BY <1>8
    <2>2. Extends(N)
      BY <2>1
    <2> HIDE DEF Extends
    <2>3. N + 0 = N
      OBVIOUS
    <2> QED
      BY <2>2, <2>3
  <1>10. ASSUME NEW k \in Nat, k \in T PROVE k + 1 \in T
    <2> HIDE DEF Extends
    <2> SUFFICES ASSUME N + (k + 1) <= M PROVE Extends(N + (k + 1))
      OBVIOUS
    <2>0. PICK n \in Nat : n = N + k
      <3> HIDE DEF T
      <3> QED
        BY <1>1
    <2>1. n \in 0 .. M /\ n + 1 = N + (k + 1) /\ n + 1 \in 0 .. M /\ n + 1 \in 1 .. M
          /\ (n + 1) - 1 = n /\ n + 1 # 0
      BY <2>0
    <2>2. Extends(n)
      BY <1>10, <2>0, <2>1
    <2> HIDE DEF T
    <2>3. PICK more \in Seq(V) : f[n] = g[N] \o more
      BY <2>2 DEF Extends
    <2>4. f[n + 1] = IF n + 1 \in P THEN Append(f[n], s[n + 1]) ELSE f[n]
      BY <1>3, <2>1 DEF Passed
    <2>5. CASE n + 1 \in P
      <3>1. s[n + 1] \in V
        BY <1>1, <1>2, <2>1
      <3>2. Append(g[N] \o more, s[n + 1]) = g[N] \o Append(more, s[n + 1]) /\ Append(more, s[n + 1]) \in Seq(V)
        <4>1. PICK x \in V, p \in Seq(V) : x = s[n + 1] /\ p = g[N]
          BY <1>8, <3>1
        <4>2. Append(p \o more, x) = p \o Append(more, x) /\ Append(more, x) \in Seq(V)
          BY AppendToConcat
        <4> QED
          BY <4>1, <4>2
      <3>3. f[n + 1] = g[N] \o Append(more, s[n + 1])
        BY <2>3, <2>4, <2>5, <3>2
      <3> QED
        BY <2>1, <3>2, <3>3 DEF Extends
    <2>6. CASE n + 1 \notin P
      BY <2>1, <2>3, <2>4, <2>6 DEF Extends
    <2> QED
      BY <2>5, <2>6
  <1> HIDE DEF T
  <1>11. Nat \subseteq T
    BY <1>9, <1>10, SetInduction
  <1>12. Extends(M)
    <2>1. M - N \in T /\ N + (M - N) = M
      BY <1>1, <1>11
    <2> HIDE DEF Extends
    <2> QED
      BY <2>1 DEF T
  <1> QED
    BY <1>2, <1>3, <1>4, <1>12 DEF Continues

ElementsOf(s) == {s[m] : m \in 1 .. Len(s)}

(* A concatenation holds the elements of both.                             *)
LEMMA ElementsOfConcat ==
    ASSUME NEW V, NEW p \in Seq(V), NEW q \in Seq(V)
    PROVE  ElementsOf(p \o q) = ElementsOf(p) \cup ElementsOf(q)
  <1>0. PICK r : r = p \o q
    OBVIOUS
  <1>1. PICK L \in Nat, M \in Nat : L = Len(p) /\ M = Len(q)
    OBVIOUS
  <1>2. /\ Len(r) = L + M
        /\ \A i \in 1 .. L + M : r[i] = IF i <= L THEN p[i] ELSE q[i - L]
    BY <1>0, <1>1, ConcatProperties
  <1>3. ASSUME NEW m \in 1 .. L + M PROVE r[m] \in ElementsOf(p) \cup ElementsOf(q)
    <2>1. CASE m <= L
      BY <1>1, <1>2, <2>1 DEF ElementsOf
    <2>2. CASE ~(m <= L)
      <3>1. m - L \in 1 .. M
        BY <1>1, <2>2
      <3> QED
        BY <1>1, <1>2, <2>2, <3>1 DEF ElementsOf
    <2> QED
      BY <2>1, <2>2
  <1>4. ASSUME NEW m \in 1 .. L PROVE p[m] \in ElementsOf(r)
    <2>1. m \in 1 .. L + M /\ m <= L
      BY <1>1
    <2> QED
      BY <1>2, <2>1 DEF ElementsOf
  <1>5. ASSUME NEW m \in 1 .. M PROVE q[m] \in ElementsOf(r)
    <2>1. m + L \in 1 .. L + M /\ ~(m + L <= L) /\ (m + L) - L = m
      BY <1>1
    <2> QED
      BY <1>2, <2>1 DEF ElementsOf
  <1>6. \A x \in ElementsOf(r) : x \in ElementsOf(p) \cup ElementsOf(q)
    BY <1>2, <1>3 DEF ElementsOf
  <1>7. \A x \in ElementsOf(p) \cup ElementsOf(q) : x \in ElementsOf(r)
    <2>1. /\ \A x \in ElementsOf(p) : \E m \in 1 .. L : x = p[m]
          /\ \A x \in ElementsOf(q) : \E m \in 1 .. M : x = q[m]
      BY <1>1 DEF ElementsOf
    <2> QED
      BY <1>4, <1>5, <2>1
  <1> QED
    BY <1>0, <1>6, <1>7

(* The first occurrences of the elements of a list.                          *)
Firsts(s) == {n \in DOMAIN s : \A m \in 1 .. (n - 1) : s[m] # s[n]}

(* They hold every element, once each.                                     *)
LEMMA FirstsKeep ==
    ASSUME NEW V, NEW s \in Seq(V), NEW strings, strings = Selected(s, Firsts(s))
    PROVE  /\ strings \in Seq(V)
           /\ \A n \in 1 .. Len(s) : \E k \in 1 .. Len(strings) : strings[k] = s[n]
           /\ \A k \in 1 .. Len(strings) : \E n \in 1 .. Len(s) : strings[k] = s[n]
  <1>1. Firsts(s) \subseteq 1 .. Len(s) /\ DOMAIN s = 1 .. Len(s)
    BY DEF Firsts
  <1>2. strings \in Seq(V) /\ PicksOut(strings, s, Firsts(s))
    BY <1>1, SelectedPicks
  <1>3. PICK at : Picks(strings, s, Firsts(s), at)
    BY <1>2 DEF PicksOut
  <1>4. ASSUME NEW n \in 1 .. Len(s) PROVE \E k \in 1 .. Len(strings) : strings[k] = s[n]
    <2> DEFINE T == {m \in 1 .. Len(s) : s[m] = s[n]}
    <2>1. T \in SUBSET Nat /\ T # {}
      OBVIOUS
    <2>2. PICK m \in T : \A y \in T : m <= y
      <3> HIDE DEF T
      <3> QED
        BY <2>1, LeastNumber
    <2>3. m \in 1 .. Len(s) /\ s[m] = s[n]
      BY <2>2
    <2>4. \A l \in 1 .. (m - 1) : s[l] # s[m]
      <3> SUFFICES ASSUME NEW l \in 1 .. (m - 1), s[l] = s[m] PROVE FALSE
        OBVIOUS
      <3>1. l \in T /\ l < m /\ l \in Nat /\ m \in Nat
        BY <2>3
      <3> HIDE DEF T
      <3> QED
        BY <2>2, <3>1
    <2>5. m \in Firsts(s)
      BY <1>1, <2>3, <2>4 DEF Firsts
    <2> QED
      BY <1>3, <2>3, <2>5 DEF Picks
  <1>5. \A k \in 1 .. Len(strings) : \E n \in 1 .. Len(s) : strings[k] = s[n]
    <2>1. \A k \in 1 .. Len(strings) : at[k] \in Firsts(s) /\ strings[k] = s[at[k]]
      BY <1>3 DEF Picks
    <2> QED
      BY <1>1, <2>1
  <1> QED
    BY <1>2, <1>4, <1>5

(* A function on 1 .. L is a list.                                         *)
LEMMA FunctionIsList ==
    ASSUME NEW L \in Nat, NEW s, DOMAIN s = 1 .. L, s = [i \in 1 .. L |-> s[i]],
           NEW V, \A i \in 1 .. L : s[i] \in V
    PROVE  s \in Seq(V) /\ Len(s) = L
  OBVIOUS

ListOf(s, n) == DOMAIN s = 1 .. n /\ s = [i \in 1 .. n |-> s[i]]
Begins(long, short) == Len(short) <= Len(long) /\ SubSeq(long, 1, Len(short)) = short
Agree(s, t, n) == \A i \in 1 .. n : s[i] = t[i]

(* A list that agrees with a shorter one begins with it.                   *)
LEMMA FirstPart ==
    ASSUME NEW L \in Nat, NEW M \in Nat, L <= M, NEW short, NEW long,
           ListOf(short, L), ListOf(long, M), Agree(long, short, L)
    PROVE  Begins(long, short) /\ Len(short) = L
  <1> DEFINE V == {long[i] : i \in 1 .. M}
  <1>1. \A i \in 1 .. M : long[i] \in V
    OBVIOUS
  <1>2. \A i \in 1 .. L : i \in 1 .. M
    OBVIOUS
  <1>3. \A i \in 1 .. L : short[i] \in V
    BY <1>1, <1>2 DEF Agree
  <1> HIDE DEF V
  <1>4. long \in Seq(V) /\ Len(long) = M
    BY <1>1, FunctionIsList DEF ListOf
  <1>5. short \in Seq(V) /\ Len(short) = L
    BY <1>3, FunctionIsList DEF ListOf
  <1> DEFINE s == SubSeq(long, 1, L)
  <1>6. s \in Seq(V) /\ Len(s) = L /\ \A i \in 1 .. L : s[i] = long[i]
    BY <1>4
  <1> HIDE DEF s
  <1>7. s = short
    BY <1>5, <1>6, SeqEqual DEF Agree
  <1> QED
    BY <1>4, <1>5, <1>7 DEF s, Begins

(* A list that another one begins with.                                    *)
LEMMA FirstOf ==
    ASSUME NEW W, NEW rows \in Seq(W), NEW more \in Seq(W), rows # <<>>
    PROVE  \E L \in Nat, M \in Nat :
             /\ Len(rows) = L + 1 /\ Len(rows \o more) = (L + M) + 1 /\ rows \o more # <<>>
             /\ (rows \o more)[1] = rows[1] /\ \A i \in 1 .. L : (rows \o more)[i + 1] = rows[i + 1]
  <1>1. PICK N \in Nat, M \in Nat : N = Len(rows) /\ M = Len(more) /\ N # 0
    OBVIOUS
  <1>2. PICK all \in Seq(W) : all = rows \o more
    BY ConcatProperties
  <1>3. Len(all) = N + M /\ \A i \in 1 .. N + M : all[i] = IF i <= N THEN rows[i] ELSE more[i - N]
    BY <1>1, <1>2, ConcatProperties
  <1>4. PICK L \in Nat : N = L + 1
    <2>1. N - 1 \in Nat /\ N = (N - 1) + 1
      BY <1>1
    <2> QED
      BY <2>1
  <1>5. \A i \in 1 .. N : i \in 1 .. N + M /\ all[i] = rows[i]
    <2>1. \A i \in 1 .. N : i \in 1 .. N + M /\ i <= N
      OBVIOUS
    <2> QED
      BY <1>3, <2>1
  <1>6. 1 \in 1 .. N /\ \A i \in 1 .. L : i + 1 \in 1 .. N
    BY <1>4
  <1>7. Len(all) = (L + M) + 1 /\ all # <<>>
    BY <1>3, <1>4
  <1> QED
    BY <1>1, <1>2, <1>4, <1>5, <1>6, <1>7

(* A concatenation begins with its first part.                             *)
LEMMA ConcatBegins ==
    ASSUME NEW W, NEW a \in Seq(W), NEW b \in Seq(W), NEW c, c = a \o b
    PROVE  \A x \in 1 .. Len(a) : x \in DOMAIN c /\ c[x] = a[x]
  <1>1. PICK N \in Nat, M \in Nat : N = Len(a) /\ M = Len(b)
    OBVIOUS
  <1>2. c \in Seq(W) /\ Len(c) = N + M /\ \A i \in 1 .. N + M : c[i] = IF i <= N THEN a[i] ELSE b[i - N]
    BY <1>1, ConcatProperties
  <1>3. DOMAIN c = 1 .. N + M
    BY <1>2
  <1>4. \A i \in 1 .. N : i \in 1 .. N + M /\ i <= N
    OBVIOUS
  <1> QED
    BY <1>1, <1>2, <1>3, <1>4
=============================================================================
