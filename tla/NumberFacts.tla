----------------------------- MODULE NumberFacts -----------------------------
(***************************************************************************)
(* Least and greatest elements of sets of numbers, from < being            *)
(* well-founded.  They stand for induction in the proofs that need one: a  *)
(* set of counterexamples that is not empty has a least element.           *)
(***************************************************************************)
EXTENDS Integers, WellFoundedInduction, TLAPS

\* A set of natural numbers that is not empty has a least element.
LEMMA Least ==
  ASSUME NEW S \in SUBSET Nat, S # {}
  PROVE  \E x \in S : \A y \in S : x <= y
  <1> DEFINE R == OpToRel(<, Nat)
  <1>1. IsWellFoundedOn(R, Nat)
    BY NatLessThanWellFounded, Zenon
  <1>2. \A x, y \in Nat : x < y => <<x, y>> \in R
    BY DEF OpToRel
  <1> HIDE DEF R
  <1>3. PICK x \in S : \A y \in S : ~ (<<y, x>> \in R)
    BY <1>1, WFMin
  <1>4. ASSUME NEW y \in S PROVE x <= y
    <2>1. x \in Nat /\ y \in Nat /\ ~(y < x)
      BY <1>2, <1>3
    <2> QED BY <2>1
  <1> QED BY <1>4

\* A set of numbers up to n that is not empty has a greatest element.
LEMMA Greatest ==
  ASSUME NEW n \in Nat, NEW S \in SUBSET (1..n), S # {}
  PROVE  \E x \in S : \A y \in S : y <= x
  <1> DEFINE T == {n - i : i \in S}
  <1>1. PICK l \in T : \A k \in T : l <= k
    <2>1. T \in SUBSET Nat
      OBVIOUS
    <2>2. T # {}
      <3>1. PICK i \in S : TRUE
        OBVIOUS
      <3>2. n - i \in T
        OBVIOUS
      <3> QED BY <3>2
    <2> HIDE DEF T
    <2> QED BY <2>1, <2>2, Least
  <1>2. PICK x \in S : l = n - x
    BY <1>1
  <1>3. ASSUME NEW j \in S PROVE j <= x
    <2>1. l <= n - j
      BY <1>1
    <2> QED BY <1>2, <2>1
  <1> QED BY <1>3
===============================================================================
