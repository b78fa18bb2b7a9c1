----------------------------- MODULE Induction -----------------------------
(***************************************************************************)
(* Induction on the natural numbers, in terms of sets, for the proofs      *)
(* about definitions that count.                                           *)
(***************************************************************************)
EXTENDS Integers, WellFoundedInduction, TLAPS

\* A set of natural numbers that is not empty has a least element.
LEMMA LeastNumber ==
    ASSUME NEW S \in SUBSET Nat, S # {}
    PROVE  \E least \in S : \A n \in S : least <= n
<1> DEFINE Less == OpToRel(<, Nat)
<1>1. IsWellFoundedOn(Less, Nat)
  BY NatLessThanWellFounded
<1>2. \A x, y \in Nat : x < y => <<x, y>> \in Less
  BY DEF OpToRel
<1> HIDE DEF Less
<1>3. PICK least \in S : \A n \in S : ~(<<n, least>> \in Less)
  BY <1>1, WFMin
<1>4. \A n \in S : n \in Nat /\ least \in Nat /\ ~(n < least)
  BY <1>2, <1>3, Zenon
<1> QED
  BY <1>4

\* A set that has 0, and with each number the next one, has them all.
LEMMA NatSetInduction ==
    ASSUME NEW S, 0 \in S, \A n \in Nat : n \in S => n + 1 \in S
    PROVE  Nat \subseteq S
<1> SUFFICES ASSUME NEW n \in Nat, n \notin S PROVE FALSE
  OBVIOUS
<1>1. PICK least \in Nat \ S : \A k \in Nat \ S : least <= k
  BY LeastNumber
<1>2. least # 0
  OBVIOUS
<1>3. least - 1 \in Nat /\ least - 1 \in S
  BY <1>1, <1>2
<1>4. least - 1 + 1 \in S
  BY <1>3
<1> QED
  BY <1>4
=============================================================================
