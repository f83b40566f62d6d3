------------------------------- MODULE Recursion -------------------------------
(***************************************************************************)
(* Lemmas about numbers and recursive functions that more than one proof   *)
(* needs.                                                                  *)
(***************************************************************************)
EXTENDS Integers, NaturalsInduction, WellFoundedInduction, TLAPS

(***************************************************************************)
(* Induction over a set of numbers, and functions defined by recursion.    *)
(***************************************************************************)
LEMMA AllNumbers ==
  ASSUME NEW T, 0 \in T, \A n \in Nat : n \in T => n + 1 \in T
  PROVE  Nat \subseteq T
<1> DEFINE U == Nat \ T
<1> SUFFICES ASSUME U # {} PROVE FALSE
  OBVIOUS
<1>1. PICK x \in U : \A y \in U : ~ (<<y, x>> \in OpToRel(<, Nat))
  <2>1. U \subseteq Nat
    OBVIOUS
  <2> HIDE DEF U
  <2> QED
    BY <2>1, NatLessThanWellFounded, WFMin, Zenon
<1>2. x # 0 /\ x \in Nat
  OBVIOUS
<1>3. x - 1 \in Nat /\ x - 1 < x /\ x = (x - 1) + 1
  BY <1>2
<1>4. <<x - 1, x>> \in OpToRel(<, Nat)
  BY <1>2, <1>3 DEF OpToRel
<1>5. x - 1 \in T
  BY <1>1, <1>3, <1>4
<1> QED
  BY <1>2, <1>3, <1>5

RecursiveUpTo(f, n, a, G) == f[0] = a /\ \A i \in Nat : i < n => f[i + 1] = G[<<i, f[i]>>]

LEMMA RecursionUnique ==
  ASSUME NEW a, NEW G, NEW f, NEW g, NEW n \in Nat, NEW m \in Nat,
         RecursiveUpTo(f, n, a, G), RecursiveUpTo(g, m, a, G)
  PROVE  \A i \in Nat : i <= n /\ i <= m => f[i] = g[i]
<1> DEFINE T == {i \in Nat : i <= n /\ i <= m => f[i] = g[i]}
<1>1. 0 \in T
  BY DEF RecursiveUpTo
<1>2. ASSUME NEW i \in Nat, i \in T PROVE i + 1 \in T
  <2> SUFFICES ASSUME i + 1 <= n, i + 1 <= m PROVE f[i + 1] = g[i + 1]
    OBVIOUS
  <2>1. i < n /\ i < m /\ f[i] = g[i]
    BY <1>2
  <2> QED
    BY <2>1 DEF RecursiveUpTo
<1> HIDE DEF T
<1>3. Nat \subseteq T
  BY <1>1, <1>2, AllNumbers
<1> QED
  BY <1>3 DEF T

Recursive(f, S, a, G) == f \in [Nat -> S] /\ f[0] = a /\ \A i \in Nat : f[i + 1] = G[<<i, f[i]>>]

LEMMA RecursionExists ==
  ASSUME NEW S, NEW a \in S, NEW G \in [Nat \X S -> S]
  PROVE  \E f : Recursive(f, S, a, G)
<1> DEFINE T == {n \in Nat : \E f \in [Nat -> S] : RecursiveUpTo(f, n, a, G)}
<1>1. 0 \in T
  <2>1. [i \in Nat |-> a] \in [Nat -> S] /\ RecursiveUpTo([i \in Nat |-> a], 0, a, G)
    BY DEF RecursiveUpTo
  <2> QED
    BY <2>1
<1>2. ASSUME NEW n \in Nat, n \in T PROVE n + 1 \in T
  <2>1. PICK f \in [Nat -> S] : RecursiveUpTo(f, n, a, G)
    BY <1>2
  <2> DEFINE g == [i \in Nat |-> IF i = n + 1 THEN G[<<n, f[n]>>] ELSE f[i]]
  <2>2. g \in [Nat -> S]
    OBVIOUS
  <2>3. g[0] = a
    BY <2>1 DEF RecursiveUpTo
  <2>4. ASSUME NEW i \in Nat, i < n + 1 PROVE g[i + 1] = G[<<i, g[i]>>]
    <3>1. g[i] = f[i]
      BY <2>4
    <3>2. CASE i = n
      BY <3>1, <3>2
    <3>3. CASE i < n
      <4>1. g[i + 1] = f[i + 1]
        BY <3>3
      <4> QED
        BY <2>1, <3>1, <3>3, <4>1 DEF RecursiveUpTo
    <3> QED
      BY <2>4, <3>2, <3>3
  <2>5. RecursiveUpTo(g, n + 1, a, G)
    BY <2>3, <2>4 DEF RecursiveUpTo
  <2> QED
    BY <2>2, <2>5
<1> HIDE DEF T
<1>3. Nat \subseteq T
  BY <1>1, <1>2, AllNumbers
<1> DEFINE Upto(n) == CHOOSE f \in [Nat -> S] : RecursiveUpTo(f, n, a, G)
           h == [n \in Nat |-> Upto(n)[n]]
<1>4. ASSUME NEW n \in Nat PROVE Upto(n) \in [Nat -> S] /\ RecursiveUpTo(Upto(n), n, a, G)
  <2>1. \E f \in [Nat -> S] : RecursiveUpTo(f, n, a, G)
    BY <1>3 DEF T
  <2> QED
    BY <2>1, Zenon
<1> HIDE DEF Upto
<1>5. h \in [Nat -> S]
  BY <1>4
<1>6. h[0] = a
  BY <1>4 DEF RecursiveUpTo
<1>7. ASSUME NEW i \in Nat PROVE h[i + 1] = G[<<i, h[i]>>]
  <2>1. Upto(i)[i] = Upto(i + 1)[i]
    <3>1. i + 1 \in Nat /\ i <= i /\ i <= i + 1
      OBVIOUS
    <3>2. RecursiveUpTo(Upto(i), i, a, G) /\ RecursiveUpTo(Upto(i + 1), i + 1, a, G)
      BY <1>4, <3>1
    <3> QED
      BY <3>1, <3>2, RecursionUnique
  <2>2. Upto(i + 1)[i + 1] = G[<<i, Upto(i + 1)[i]>>]
    BY <1>4 DEF RecursiveUpTo
  <2> QED
    BY <2>1, <2>2
<1> HIDE DEF h
<1> QED
  BY <1>5, <1>6, <1>7 DEF Recursive
================================================================================
