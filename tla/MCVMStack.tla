----------------------------- MODULE MCVMStack -----------------------------
(* Small instances of VMStack for TLC. *)
EXTENDS VMStack

(* Requests of whole words: two quads, and eight bytes. *)
WholeWords == {[n |-> 2, mode |-> 3], [n |-> 8, mode |-> 0]}
=============================================================================
