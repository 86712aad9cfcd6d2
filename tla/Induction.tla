------------------------------- MODULE Induction -------------------------------
(***************************************************************************)
(* Induction and recursion over the natural numbers, stated with sets and  *)
(* functions in place of predicates and operators: what the proofs about   *)
(* recursively defined functions, and about sets of numbers, rest on.      *)
(***************************************************************************)
EXTENDS Integers, WellFoundedInduction, TLAPS

\* every set of natural numbers has a least element
LEMMA LeastElement ==
  ASSUME NEW T \in SUBSET Nat, T # {}
  PROVE  \E m \in T : \A n \in T : m <= n
  <1> DEFINE R == OpToRel(<, Nat)
  <1>1. \E x \in T : \A y \in T : <<y, x>> \notin R
    <2>1. IsWellFoundedOn(R, Nat)
      BY NatLessThanWellFounded
    <2> HIDE DEF R
    <2> QED
      BY <2>1, WFMin
  <1>2. \A x, y \in Nat : y < x => <<y, x>> \in R
    BY DEF OpToRel
  <1> HIDE DEF R
  <1>3. PICK x \in T : \A y \in T : <<y, x>> \notin R
    BY <1>1
  <1>4. \A y \in T : ~ (y < x)
    BY <1>2, <1>3
  <1> QED
    BY <1>3, <1>4

\* a set that has 0 and the successor of each of its numbers has all numbers
LEMMA SetInduction ==
  ASSUME NEW S, 0 \in S, \A n \in Nat : n \in S => n + 1 \in S
  PROVE  \A n \in Nat : n \in S
  <1> SUFFICES ASSUME Nat \ S # {} PROVE FALSE
    OBVIOUS
  <1>1. PICK m \in Nat \ S : \A n \in Nat \ S : m <= n
    BY LeastElement
  <1>2. m # 0 /\ m - 1 \in Nat /\ m - 1 + 1 = m
    BY <1>1
  <1>3. m - 1 \in S
    BY <1>1, <1>2
  <1> QED
    BY <1>1, <1>2, <1>3

\* a first value and a step define a function on the natural numbers
LEMMA Recursion ==
  ASSUME NEW A, NEW a \in A, NEW g \in [A -> A]
  PROVE  \E f \in [Nat -> A] : f[0] = a /\ \A n \in Nat : f[n + 1] = g[f[n]]
  <1> DEFINE Partial(n, f) == /\ f \in [0 .. n -> A] /\ f[0] = a
                              /\ \A k \in 0 .. n - 1 : f[k + 1] = g[f[k]]
             S == {n \in Nat : \E f \in [0 .. n -> A] : Partial(n, f)}
  <1>1. \A n \in Nat : n \in S
    <2>1. 0 \in S
      <3> DEFINE f == [k \in 0 .. 0 |-> a]
      <3>1. Partial(0, f)
        OBVIOUS
      <3> QED
        BY <3>1
    <2>2. ASSUME NEW n \in Nat, n \in S PROVE n + 1 \in S
      <3>1. PICK f \in [0 .. n -> A] : Partial(n, f)
        BY <2>2
      <3> DEFINE h == [k \in 0 .. n + 1 |-> IF k = n + 1 THEN g[f[n]] ELSE f[k]]
      <3>2. h \in [0 .. n + 1 -> A] /\ h[0] = a
        BY <3>1
      <3>3. ASSUME NEW k \in 0 .. n + 1 - 1 PROVE h[k + 1] = g[h[k]]
        <4>1. CASE k = n
          BY <4>1
        <4>2. CASE k # n
          <5>1. k \in 0 .. n - 1 /\ k + 1 \in 0 .. n /\ k + 1 # n + 1 /\ k # n + 1
            BY <4>2
          <5> QED
            BY <3>1, <5>1
        <4> QED
          BY <4>1, <4>2
      <3> HIDE DEF h
      <3>4. Partial(n + 1, h)
        BY <3>2, <3>3
      <3>5. n + 1 \in Nat
        OBVIOUS
      <3> QED
        BY <3>2, <3>4, <3>5
    <2> HIDE DEF S
    <2> QED
      BY <2>1, <2>2, SetInduction
  <1> DEFINE F(n) == CHOOSE f \in [0 .. n -> A] : Partial(n, f)
             F0 == [n \in Nat |-> F(n)[n]]
  <1>2. ASSUME NEW n \in Nat PROVE Partial(n, F(n))
    <2>1. \E f \in [0 .. n -> A] : Partial(n, f)
      BY <1>1
    <2> HIDE DEF Partial
    <2> QED
      BY <2>1
  \* two of them agree where both are defined
  <1>3. ASSUME NEW n \in Nat PROVE F(n + 1)[n] = F(n)[n]
    <2> DEFINE E == {k \in Nat : k <= n => F(n + 1)[k] = F(n)[k]}
    <2>1. Partial(n, F(n)) /\ Partial(n + 1, F(n + 1))
      <3> HIDE DEF F, Partial
      <3>1. n + 1 \in Nat
        OBVIOUS
      <3> QED
        BY <1>2, <3>1
    <2> HIDE DEF F
    <2>2. 0 \in E
      BY <2>1
    <2>3. ASSUME NEW k \in Nat, k \in E PROVE k + 1 \in E
      <3>1. CASE k + 1 <= n
        <4>1. k \in 0 .. n - 1 /\ k \in 0 .. n + 1 - 1
          BY <3>1
        <4> QED
          BY <2>1, <2>3, <3>1, <4>1
      <3>2. CASE ~ (k + 1 <= n)
        BY <3>2
      <3> QED
        BY <3>1, <3>2
    <2>4. n \in E
      <3> HIDE DEF E
      <3> QED
        BY <2>2, <2>3, SetInduction
    <2> QED
      BY <2>4
  <1> HIDE DEF F
  <1>4. F0 \in [Nat -> A]
    BY <1>2
  <1>5. F0[0] = a
    BY <1>2
  <1>6. ASSUME NEW n \in Nat PROVE F0[n + 1] = g[F0[n]]
    <2>1. Partial(n + 1, F(n + 1)) /\ n \in 0 .. n + 1 - 1
      BY <1>2
    <2>2. F(n + 1)[n + 1] = g[F(n + 1)[n]]
      BY <2>1
    <2>3. F0[n + 1] = F(n + 1)[n + 1] /\ F0[n] = F(n)[n]
      OBVIOUS
    <2> HIDE DEF F0
    <2> QED
      BY <1>3, <2>2, <2>3
  <1> QED
    BY <1>4, <1>5, <1>6
=============================================================================
