---------------------------- MODULE LeastElement ----------------------------
(***************************************************************************)
(* Sets of naturals have a least element: what a scan upwards meets first, *)
(* and the first record of a std::set.                                     *)
(***************************************************************************)
EXTENDS Naturals, WellFoundedInduction, TLAPS

\* A non-empty set of naturals has a least element: the lowest index the loop of
\* remove_one_mutex finds, the record index_ip_set_iter of detect.cc points to.
LEMMA LeastNatural ==
  ASSUME NEW T \in SUBSET Nat, T # {}
  PROVE  \E x \in T : \A y \in T : x <= y
<1> DEFINE R == {ss \in Nat \X Nat : ss[1] < ss[2]}
<1>1. IsWellFoundedOn(R, Nat)
  BY NatLessThanWellFounded DEF OpToRel
<1> HIDE DEF R
<1>2. PICK x \in T : \A y \in T : ~(<<y, x>> \in R)
  BY <1>1, WFMin, Zenon
<1>3. \A y \in T : ~(y < x)
  BY <1>2, Zenon DEF R
<1> QED
  BY <1>3
=============================================================================
