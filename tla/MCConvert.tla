----------------------------- MODULE MCConvert -----------------------------
(* Instances of Convert for TLC. *)
EXTENDS Convert, TLC

Symmetry == Permutations(File)
=============================================================================
