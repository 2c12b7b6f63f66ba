----------------------------- MODULE MCLockset -----------------------------
(* Instances of Lockset for TLC. *)
EXTENDS Lockset, TLC

Symmetry == Permutations(Thread) \cup Permutations(Mutex)
=============================================================================
