----------------------------- MODULE MCDetector -----------------------------
(* Instances of Detector for TLC. *)
EXTENDS Detector, TLC

Symmetry == Permutations(Thread) \cup Permutations(Lock)
=============================================================================
