------------------------------ MODULE NatFacts ------------------------------
(***************************************************************************)
(* Facts about the natural numbers that several proofs need.               *)
(***************************************************************************)
EXTENDS Integers, WellFoundedInduction, TLAPS

\* A search from the bottom finds something wherever there is something.
LEMMA LeastExists ==
  ASSUME NEW S, S \subseteq Nat, S # {}
  PROVE  \E x \in S : \A y \in S : x <= y
<1> DEFINE R == {ss \in Nat \X Nat : ss[1] < ss[2]}
<1>1. IsWellFoundedOn(R, Nat)
  BY NatLessThanWellFounded, Zenon DEF OpToRel
<1>2. \E x \in S : \A y \in S : ~ (<<y, x>> \in R)
  <2> HIDE DEF R
  <2> QED BY <1>1, WFMin, Zenon
<1>3. PICK x \in S : \A y \in S : ~ (<<y, x>> \in R)
  BY <1>2
<1>4. ASSUME NEW y \in S PROVE x <= y
  <2>1. x \in Nat /\ y \in Nat
    OBVIOUS
  <2>2. ASSUME y < x PROVE <<y, x>> \in R
    BY <2>1, <2>2
  <2> HIDE DEF R
  <2> QED BY <1>3, <2>1, <2>2
<1> QED BY <1>4

\* Induction, for the members of a set.
LEMMA Induct ==
  ASSUME NEW S, 0 \in S, \A n \in Nat : n \in S => n + 1 \in S
  PROVE  Nat \subseteq S
<1> SUFFICES ASSUME Nat \ S # {} PROVE FALSE
  OBVIOUS
<1>1. PICK f \in Nat \ S : \A g \in Nat \ S : f <= g
  <2>1. Nat \ S \subseteq Nat
    OBVIOUS
  <2> QED BY <2>1, LeastExists
<1>2. f # 0 /\ f - 1 \in Nat
  BY <1>1
<1>3. f - 1 \in S
  BY <1>1, <1>2
<1>4. (f - 1) + 1 = f
  BY <1>1
<1> QED BY <1>1, <1>2, <1>3, <1>4
=============================================================================
