---------------------------- MODULE MCHeapTrace ----------------------------
(* Instances of HeapTrace for TLC. *)
EXTENDS HeapTrace, TLC

Symmetry == Permutations(Thread)
=============================================================================
