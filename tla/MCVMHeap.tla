----------------------------- MODULE MCVMHeap -----------------------------
(* Small instances of VMHeap for TLC. *)
EXTENDS VMHeap, TLC

Symmetry == Permutations(Blocks)
=============================================================================
