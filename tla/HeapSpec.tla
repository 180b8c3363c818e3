----------------------------- MODULE HeapSpec -----------------------------
(***************************************************************************)
(* What the guest heap promises its callers, without its lists: a set of   *)
(* live extents.  VM_alloc(n) either fails or adds an extent of at least n *)
(* bytes between the bounds of the heap that shares no byte with a live    *)
(* one; VM_free of the address of a live extent gives exactly that extent  *)
(* back, and of any other address does nothing.                            *)
(***************************************************************************)
EXTENDS Integers

CONSTANTS hb, lmt,  \* the bounds of the heap
          Sizes     \* the request sizes

VARIABLE live       \* the extents handed out and not yet given back

Apart(e, f) == e.addr + e.size <= f.addr \/ f.addr + f.size <= e.addr

Init == live = {}

Alloc(n) ==
  \E a \in hb .. lmt : \E s \in n .. lmt :
    /\ a + s <= lmt
    /\ \A e \in live : Apart(e, [addr |-> a, size |-> s])
    /\ live' = live \cup {[addr |-> a, size |-> s]}

Free(e) == live' = live \ {e}

Next ==
  \/ \E n \in Sizes : Alloc(n)
  \/ \E e \in live : Free(e)

Spec == Init /\ [][Next]_live
=============================================================================
