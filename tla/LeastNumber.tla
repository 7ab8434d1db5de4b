---------------------------- MODULE LeastNumber ----------------------------
(***************************************************************************)
(* Induction over numbers as a fact the provers can use: what holds for    *)
(* some number holds for a least one.                                      *)
(***************************************************************************)
EXTENDS Integers, FiniteSets, FiniteSetTheorems, TLAPS

\* Induction: a set of numbers that is not empty has a least element.
LEMMA LeastNat ==
  ASSUME NEW T \in SUBSET Nat, T # {}
  PROVE  \E x \in T : \A y \in T : x <= y
<1> DEFINE F == {1..k : k \in T}
<1>1. F \subseteq FiniteSubsetsOf(Nat) /\ F # {}
  <2>1. \A k \in T : 1..k \subseteq Nat /\ IsFiniteSet(1..k)
    BY FS_Interval
  <2> QED BY <2>1 DEF FiniteSubsetsOf
<1>2. \E X \in F : \A Y \in F : <<Y, X>> \notin StrictSubsetOrdering(Nat)
  <2> HIDE DEF F
  <2> QED BY <1>1, FS_StrictSubsetOrderingWellFounded, WFMin
<1>3. PICK x \in T : \A y \in T : <<1..y, 1..x>> \notin StrictSubsetOrdering(Nat)
  BY <1>2
<1>4. ASSUME NEW y \in T, y < x PROVE FALSE
  <2>1. x \in 1..x /\ x \notin 1..y
    BY <1>4
  <2>2. 1..y \in SUBSET Nat /\ 1..x \in SUBSET Nat /\ 1..y \subseteq 1..x
    BY <1>4
  <2>3. <<1..y, 1..x>> \in StrictSubsetOrdering(Nat)
    <3> DEFINE A == 1..y
               B == 1..x
    <3>1. A \in SUBSET Nat /\ B \in SUBSET Nat /\ A \subseteq B /\ A # B
      BY <2>1, <2>2
    <3> HIDE DEF A, B
    <3>2. <<A, B>> \in StrictSubsetOrdering(Nat)
      BY <3>1 DEF StrictSubsetOrdering
    <3> QED BY <3>2 DEF A, B
  <2> QED BY <1>3, <2>3
<1> QED BY <1>4
=============================================================================
