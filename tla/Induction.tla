----------------------------- MODULE Induction -----------------------------
(***************************************************************************)
(* Induction without operator parameters: every non-empty set of natural   *)
(* numbers has a least element, so a set with 0 and every successor is all *)
(* of them, so a recursive function whose steps are given by a function is *)
(* what its recursion says.                                                *)
(***************************************************************************)
EXTENDS Integers, Sequences, WellFoundedInduction, TLAPS

(* A set of natural numbers has a least element.                           *)
LEMMA LeastElement ==
    ASSUME NEW T \in SUBSET Nat, T # {}
    PROVE  \E m \in T : \A k \in T : m <= k
<1>1. IsWellFoundedOn(OpToRel(<, Nat), Nat)
  BY NatLessThanWellFounded, Zenon
<1>2. PICK m \in T : \A k \in T : <<k, m>> \notin OpToRel(<, Nat)
  BY <1>1, WFMin, Zenon
<1>3. \A k \in T : ~(k < m)
  BY <1>2, Zenon DEF OpToRel
<1> QED
  BY <1>3

(* Induction over the numbers up to N.                                     *)
LEMMA BoundedInduction ==
    ASSUME NEW N \in Nat, NEW T, 0 \in T, \A n \in 0 .. N - 1 : n \in T => n + 1 \in T
    PROVE  \A n \in 0 .. N : n \in T
<1> DEFINE U == {n \in 0 .. N : n \notin T}
<1> SUFFICES ASSUME U # {} PROVE FALSE
  OBVIOUS
<1>1. U \in SUBSET Nat
  OBVIOUS
<1>2. PICK m \in U : \A k \in U : m <= k
  BY <1>1, LeastElement
<1>3. m # 0 /\ m - 1 \in 0 .. N - 1 /\ m - 1 \notin U
  BY <1>2
<1> QED
  BY <1>2, <1>3

(* The same where a number follows from all that are smaller.              *)
LEMMA StrongInduction ==
    ASSUME NEW N \in Nat, NEW T, \A n \in 0 .. N : (\A k \in 0 .. n - 1 : k \in T) => n \in T
    PROVE  \A n \in 0 .. N : n \in T
<1> DEFINE U == {n \in 0 .. N : n \notin T}
<1> SUFFICES ASSUME U # {} PROVE FALSE
  OBVIOUS
<1>1. U \in SUBSET Nat
  OBVIOUS
<1>2. PICK m \in U : \A k \in U : m <= k
  BY <1>1, LeastElement
<1>3. \A k \in 0 .. m - 1 : k \in T
  BY <1>2
<1> QED
  BY <1>2, <1>3

(* A set of natural numbers that is bounded has a greatest element.        *)
LEMMA GreatestElement ==
    ASSUME NEW N \in Nat, NEW T \in SUBSET (0 .. N), T # {}
    PROVE  \E m \in T : \A k \in T : k <= m
<1> DEFINE U == {n \in Nat : N - n \in T}
<1>1. U \in SUBSET Nat /\ U # {}
  <2>1. PICK k \in T : TRUE
    OBVIOUS
  <2> QED
    BY <2>1, N - (N - k) = k, N - k \in Nat
<1>2. PICK m \in U : \A k \in U : m <= k
  BY <1>1, LeastElement
<1>3. \A k \in T : k <= N - m
  <2> TAKE k \in T
  <2>1. N - k \in U
    BY N - (N - k) = k
  <2> QED
    BY <1>2, <2>1
<1> QED
  BY <1>2, <1>3

(* A function defined by recursion exists: its value at n is a step from   *)
(* its value at a smaller number.                                          *)
Steps(g, c, N, prev, step) == g[0] = c /\ \A n \in 1 .. N : g[n] = step[<<g[prev[n]], n>>]

LEMMA RecursionExists ==
    ASSUME NEW V, NEW c \in V, NEW N \in Nat, NEW prev \in [1 .. N -> Nat],
           \A n \in 1 .. N : prev[n] < n, NEW step \in [V \X (1 .. N) -> V]
    PROVE  \E g \in [0 .. N -> V] : Steps(g, c, N, prev, step)
<1> DEFINE Upto(m) == \E g \in [0 .. m -> V] :
                        g[0] = c /\ \A n \in 1 .. m : g[n] = step[<<g[prev[n]], n>>]
           T == {m \in 0 .. N : Upto(m)}
<1>1. 0 \in T
  <2> DEFINE h == [i \in 0 .. 0 |-> c]
  <2>1. h \in [0 .. 0 -> V] /\ h[0] = c /\ \A n \in 1 .. 0 : h[n] = step[<<h[prev[n]], n>>]
    OBVIOUS
  <2> HIDE DEF h
  <2>2. Upto(0)
    BY <2>1
  <2> QED
    BY <2>2
<1>2. ASSUME NEW m \in 0 .. N - 1, m \in T PROVE m + 1 \in T
  <2>1. PICK g \in [0 .. m -> V] : g[0] = c /\ \A n \in 1 .. m : g[n] = step[<<g[prev[n]], n>>]
    BY <1>2
  <2> DEFINE s == step[<<g[prev[m + 1]], m + 1>>]
             h == [i \in 0 .. m + 1 |-> IF i = m + 1 THEN s ELSE g[i]]
  <2>2. prev[m + 1] \in 0 .. m /\ m + 1 \in 1 .. N
    OBVIOUS
  <2>3. s \in V
    BY <2>2
  <2>4. h \in [0 .. m + 1 -> V] /\ h[0] = c
    BY <2>1, <2>3
  <2>5. ASSUME NEW n \in 1 .. m + 1 PROVE h[n] = step[<<h[prev[n]], n>>]
    <3>1. n \in 1 .. N /\ prev[n] \in 0 .. n - 1
      OBVIOUS
    <3>2. h[prev[n]] = g[prev[n]]
      BY <3>1
    <3>3. CASE n = m + 1
      <4>1. h[n] = step[<<g[prev[n]], n>>]
        BY <3>3
      <4> QED
        BY <3>2, <4>1
    <3>4. CASE n \in 1 .. m
      BY <2>1, <3>2, <3>4
    <3> QED
      BY <3>3, <3>4
  <2> HIDE DEF h
  <2>6. Upto(m + 1)
    BY <2>4, <2>5
  <2>7. m + 1 \in 0 .. N
    OBVIOUS
  <2> HIDE DEF Upto
  <2> QED
    BY <2>6, <2>7
<1> HIDE DEF T
<1>3. \A m \in 0 .. N - 1 : m \in T => m + 1 \in T
  BY <1>2
<1>4. \A m \in 0 .. N : m \in T
  BY <1>1, <1>3, BoundedInduction, Zenon
<1> HIDE DEF Upto
<1>5. N \in 0 .. N
  OBVIOUS
<1>6. Upto(N)
  BY <1>4, <1>5 DEF T
<1> QED
  BY <1>6 DEF Upto, Steps

(* The step is from the number before.                                     *)
Primitive(g, c, N, step) == g[0] = c /\ \A n \in 1 .. N : g[n] = step[<<g[n - 1], n>>]

LEMMA PrimitiveRecursion ==
    ASSUME NEW V, NEW c \in V, NEW N \in Nat, NEW step \in [V \X (1 .. N) -> V]
    PROVE  \E g \in [0 .. N -> V] : Primitive(g, c, N, step)
<1> DEFINE prev == [n \in 1 .. N |-> n - 1]
<1>1. prev \in [1 .. N -> Nat]
  OBVIOUS
<1>2. \A n \in 1 .. N : prev[n] = n - 1
  OBVIOUS
<1> HIDE DEF prev
<1>3. \A n \in 1 .. N : prev[n] < n
  BY <1>2
<1>4. PICK g \in [0 .. N -> V] : Steps(g, c, N, prev, step)
  BY <1>1, <1>3, RecursionExists, Zenon
<1>5. \A n \in 1 .. N : g[n] = step[<<g[n - 1], n>>]
  BY <1>2, <1>4 DEF Steps
<1> QED
  BY <1>4, <1>5 DEF Steps, Primitive
=============================================================================
