---------------------------- MODULE NaturalFacts ----------------------------
(***************************************************************************)
(* Least and greatest elements of sets of natural numbers; induction and   *)
(* recursion over a bounded range of them.                                 *)
(***************************************************************************)
EXTENDS Integers, WellFoundedInduction, TLAPS

\* The natural numbers are well ordered.
LEMMA LeastNatural ==
  ASSUME NEW S \in SUBSET Nat, S # {}
  PROVE  \E x \in S : \A y \in S : x <= y
  <1>1. PICK x \in S : \A y \in S : ~(<<y, x>> \in OpToRel(<, Nat))
    BY NatLessThanWellFounded, WFMin, Zenon
  <1>2. ASSUME NEW y \in S, ~(x <= y) PROVE FALSE
    <2>1. x \in Nat /\ y \in Nat /\ y < x
      BY <1>2
    <2>2. <<y, x>> \in OpToRel(<, Nat)
      BY <2>1 DEF OpToRel
    <2> QED
      BY <2>2, <1>1
  <1> QED
    BY <1>2

\* A bounded set of natural numbers has a greatest element.
LEMMA GreatestBounded ==
  ASSUME NEW n \in Nat, NEW S \in SUBSET (0 .. n), S # {}
  PROVE  \E x \in S : \A y \in S : y <= x
  <1> DEFINE T == {i \in Nat : \E s \in S : i = n - s}
  <1>1. \A s \in S : n - s \in T
    OBVIOUS
  <1>2. T # {} /\ T \in SUBSET Nat
    BY <1>1
  <1> HIDE DEF T
  <1>3. PICK i \in T : \A j \in T : i <= j
    BY <1>2, LeastNatural
  <1>4. PICK x \in S : i = n - x
    BY DEF T
  <1>5. \A y \in S : y <= x
    BY <1>1, <1>3, <1>4
  <1> QED
    BY <1>5

\* Bounded induction.
LEMMA StaysIn ==
  ASSUME NEW N \in Nat, NEW P, 0 \in P, \A n \in 1 .. N : n - 1 \in P => n \in P
  PROVE  0 .. N \subseteq P
  <1> DEFINE T == {n \in 0 .. N : n \notin P}
  <1>1. SUFFICES ASSUME T # {} PROVE FALSE
    OBVIOUS
  <1>2. PICK x \in T : \A y \in T : x <= y
    <2>1. T \in SUBSET Nat
      OBVIOUS
    <2> HIDE DEF T
    <2> QED
      BY <1>1, <2>1, LeastNatural
  <1>3. x \in 1 .. N /\ x - 1 \in 0 .. N
    BY <1>2
  <1>4. x - 1 \in P
    BY <1>2, <1>3
  <1> QED
    BY <1>2, <1>3, <1>4

\* What is defined by recursion over a bounded range of numbers exists: each
\* value is the step g takes from the one before it.
LEMMA RecursionExists ==
  ASSUME NEW S, NEW b \in S, NEW N \in Nat, NEW g \in [1 .. N -> [S -> S]]
  PROVE  \E f \in [0 .. N -> S] : f[0] = b /\ \A i \in 1 .. N : f[i] = g[i][f[i - 1]]
  <1> DEFINE Upto(n, f) == f[0] = b /\ \A i \in 1 .. n : f[i] = g[i][f[i - 1]]
             Exists(n) == \E f \in [0 .. n -> S] : Upto(n, f)
             P == {n \in 0 .. N : Exists(n)}
  <1>1. Exists(0)
    <2>1. [i \in 0 .. 0 |-> b] \in [0 .. 0 -> S] /\ Upto(0, [i \in 0 .. 0 |-> b])
      OBVIOUS
    <2> HIDE DEF Upto
    <2> QED
      BY <2>1
  <1>2. ASSUME NEW n \in 1 .. N, Exists(n - 1) PROVE Exists(n)
    <2>1. PICK f \in [0 .. n - 1 -> S] : Upto(n - 1, f)
      BY <1>2
    <2> DEFINE h == [i \in 0 .. n |-> IF i = n THEN g[n][f[n - 1]] ELSE f[i]]
    <2>2. g[n] \in [S -> S] /\ f[n - 1] \in S
      BY <2>1
    <2>3. h \in [0 .. n -> S]
      BY <2>1, <2>2
    <2>4. h[0] = b
      BY <2>1
    <2>5. ASSUME NEW i \in 1 .. n PROVE h[i] = g[i][h[i - 1]]
      <3>1. CASE i = n
        BY <3>1
      <3>2. CASE i # n
        <4>1. i \in 1 .. n - 1 /\ h[i] = f[i] /\ h[i - 1] = f[i - 1]
          BY <3>2
        <4> QED
          BY <4>1, <2>1
      <3> QED
        BY <3>1, <3>2
    <2>6. Upto(n, h)
      BY <2>4, <2>5
    <2> HIDE DEF Upto, h
    <2> QED
      BY <2>3, <2>6
  <1> HIDE DEF Exists
  <1>3. 0 \in P /\ \A n \in 1 .. N : n - 1 \in P => n \in P
    BY <1>1, <1>2
  <1>4. 0 .. N \subseteq P
    <2> HIDE DEF P
    <2> QED
      BY <1>3, StaysIn
  <1>5. Exists(N)
    BY <1>4
  <1> QED
    BY <1>5 DEF Exists
=============================================================================
