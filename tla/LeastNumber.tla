---------------------------- MODULE LeastNumber ----------------------------
(***************************************************************************)
(* The least-number principle, which the searches of the model (the first  *)
(* module that lists a command, the first node that holds a key) rest on.  *)
(***************************************************************************)
EXTENDS Naturals, WellFoundedInduction, TLAPS

\* A set of numbers that is not empty has a least element.
LEMMA LeastExists ==
  ASSUME NEW S \in SUBSET Nat, S # {}
  PROVE  \E m \in S : \A k \in S : m <= k
<1> DEFINE R == OpToRel(<, Nat)
<1>1. IsWellFoundedOn(R, Nat)
  BY NatLessThanWellFounded
<1>2. PICK m \in S : \A k \in S : ~ (<<k, m>> \in R)
  <2> HIDE DEF R
  <2> QED BY <1>1, WFMin
<1>3. \A k \in S : k < m => <<k, m>> \in R
  BY DEF OpToRel
<1>4. \A k \in S : m <= k
  <2>1. SUFFICES ASSUME NEW k \in S, k < m PROVE FALSE
    OBVIOUS
  <2>2. QED
    BY <1>2, <1>3, <2>1
<1>5. QED
  BY <1>4
=============================================================================
