------------------------------ MODULE VMHeap ------------------------------
(***************************************************************************)
(* The guest heap of the virtual machine: src/src/vm/memory.c.             *)
(*                                                                         *)
(* A fixed pool of block descriptors is kept on three linked lists: free,  *)
(* used and fresh.  A descriptor on free or used stands for the bytes      *)
(* addr .. addr+size-1 of guest memory.  `top' separates the part of the   *)
(* heap that was handed out at least once from the part never touched.     *)
(*                                                                         *)
(* The lists are modelled by the sets of their members:                    *)
(*  - free is sorted by address: VM_heap_insert_heap_block walks past the  *)
(*    blocks with a smaller address and stops in front of one with the     *)
(*    same address.  Precedes is that order.  Blocks tie only when one of  *)
(*    them is empty (a request for 0 bytes); compaction merges an empty    *)
(*    block standing in front of its twin, so of an old tie the longer     *)
(*    block comes first;                                                   *)
(*  - fresh is a stack whose members are interchangeable;                  *)
(*  - used is searched by address; the order only matters when two used    *)
(*    blocks share an address (again only for requests of 0 bytes), and    *)
(*    then either one may be found.                                        *)
(***************************************************************************)
EXTENDS Integers

CONSTANTS Blocks,   \* the descriptors, nhbs of them
          M,        \* arithmetic on u32 is modulo M
          hb,       \* vm->ram.hb, the first heap address
          lmt,      \* vm->ram.hlm, copied to heap->lmt
          sth,      \* split threshold
          aln,      \* alignment of sizes
          Sizes     \* the request sizes a guest passes, as u32

Word == 0 .. M - 1

ASSUME HeapAssumption ==
  /\ M \in Nat /\ aln \in Nat \ {0} /\ M % aln = 0
  /\ hb \in Word \ {0} /\ lmt \in Word /\ sth \in Nat \ {0}
  /\ Sizes \subseteq Word

VARIABLES free, used, fresh,  \* the three lists
          addr, size,         \* the fields of the descriptors
          top                 \* heap->top

vars == <<free, used, fresh, addr, size, top>>

(* Fault: rounds down, so a request is served short. *)
CynAlignDown(n) == (n \div aln) * aln

(* CynAlign on a u32: round up to a multiple of aln, modulo M. *)
CynAlign(n) == (((n + aln - 1) % M) \div aln) * aln

(* Does i stand in front of j on the free list?  `new' holds the block just
   inserted, if any: it goes in front of the blocks with its address. *)
Precedes(new, A, S, i, j) ==
  \/ A[i] < A[j]
  \/ /\ A[i] = A[j]
     /\ \/ i \in new
        \/ j \notin new /\ S[i] > S[j]

(* j is the block right behind i on the list of F, and starts where i ends. *)
Adjoins(F, new, A, S, i, j) ==
  /\ Precedes(new, A, S, i, j)
  /\ ~ \E k \in F \ {i, j} : Precedes(new, A, S, i, k) /\ Precedes(new, A, S, k, j)
  /\ (A[i] + S[i]) % M = A[j]

(* Fault: nothing is merged. *)
HeadsUnmerged(F, new, A, S) == F

(* VM_heap_compact: the first block of every run of adjoining blocks. *)
Heads(F, new, A, S) ==
  {j \in F : ~ \E i \in F \ {j} : Adjoins(F, new, A, S, i, j)}

(* VM_heap_compact: the last block (prev) of the run that starts at h. *)
IsRunEnd(F, new, A, S, h, e) ==
  /\ e \in F
  /\ e = h \/ Precedes(new, A, S, h, e)
  /\ ~ \E j \in F \ {e} : Adjoins(F, new, A, S, e, j)
  /\ \A k \in F \ {e} :
       (k = h \/ Precedes(new, A, S, h, k)) /\ Precedes(new, A, S, k, e)
         => \E j \in F \ {k} : Adjoins(F, new, A, S, k, j)

RunEnd(F, new, A, S, h) == CHOOSE e \in F : IsRunEnd(F, new, A, S, h, e)

(* Fault: the size of the last block of the run is left out. *)
MergedSizeShort(F, new, A, S, h) ==
  LET e == RunEnd(F, new, A, S, h) IN IF e = h THEN S[h] ELSE A[e] - A[h]

(* VM_heap_compact: newSize, the length of the run that starts at h. *)
MergedSize(F, new, A, S, h) ==
  LET e == RunEnd(F, new, A, S, h) IN (A[e] - A[h] + S[e]) % M

(* Fault: the descriptors of merged blocks are not given back. *)
InsertAndCompactDropping(F, b, A, S, unused) ==
  LET G == F \cup {b}
      heads == Heads(G, {b}, A, S)
  IN  /\ free' = heads
      /\ fresh' = unused
      /\ addr' = [i \in Blocks |-> IF i \in G \ heads THEN 0 ELSE A[i]]
      /\ size' = [i \in Blocks |->
                    IF i \in heads THEN MergedSize(G, {b}, A, S, i)
                    ELSE IF i \in G THEN 0 ELSE S[i]]

(* VM_heap_insert_heap_block of b into the list of F, then VM_heap_compact:
   every head takes over its run, the other members of the runs go back to
   fresh (VM_heap_release_heap_blocks clears them).  A, S: the descriptors'
   fields before; unused: the fresh list before. *)
InsertAndCompact(F, b, A, S, unused) ==
  LET G == F \cup {b}
      heads == Heads(G, {b}, A, S)
  IN  /\ free' = heads
      /\ fresh' = unused \cup (G \ heads)
      /\ addr' = [i \in Blocks |-> IF i \in G \ heads THEN 0 ELSE A[i]]
      /\ size' = [i \in Blocks |->
                    IF i \in heads THEN MergedSize(G, {b}, A, S, i)
                    ELSE IF i \in G THEN 0 ELSE S[i]]

-----------------------------------------------------------------------------
(* VM_heap_init_: all descriptors fresh (their fields are not read before
   they are written), no byte handed out. *)
Init ==
  /\ free = {} /\ used = {} /\ fresh = Blocks
  /\ addr = [b \in Blocks |-> 0]
  /\ size = [b \in Blocks |-> 0]
  /\ top = hb

(* Fault: the limit is not checked when the top block is resized. *)
IsTopUnlimited(p, s) == (addr[p] + size[p]) % M >= top

(* The free block p ends at the top of the heap and can be resized to s. *)
IsTop(p, s) == (addr[p] + size[p]) % M >= top /\ (addr[p] + s) % M <= lmt

(* Fault: a top block that is too small is passed over, not grown. *)
FitsAsIs(p, s) == size[p] >= s

Fits(p, s) == IsTop(p, s) \/ size[p] >= s

(* The walk of VM_heap_alloc_heap_block over the free list stops at p. *)
FirstFit(p, s) ==
  /\ p \in free /\ Fits(p, s)
  /\ \A q \in free \ {p} : Fits(q, s) => Precedes({}, addr, size, p, q)

(* The block found is the top one: it gets exactly s bytes, grown or shrunk,
   and the top of the heap moves to its end. *)
AllocTop(s) ==
  \E p \in free :
    /\ FirstFit(p, s) /\ IsTop(p, s)
    /\ free' = free \ {p} /\ used' = used \cup {p}
    /\ size' = [size EXCEPT ![p] = s]
    /\ top' = (addr[p] + s) % M
    /\ UNCHANGED <<fresh, addr>>

(* The block found is large enough but not worth splitting, or there is no
   descriptor for the rest: it is handed out whole. *)
AllocWhole(s) ==
  \E p \in free :
    /\ FirstFit(p, s) /\ ~ IsTop(p, s)
    /\ fresh = {} \/ size[p] - s < sth
    /\ free' = free \ {p} /\ used' = used \cup {p}
    /\ UNCHANGED <<fresh, addr, size, top>>

(* Fault: the block that is split keeps its old size. *)
AllocSplitUnshrunk(s) ==
  \E p \in free :
    /\ FirstFit(p, s) /\ ~ IsTop(p, s)
    /\ fresh # {} /\ size[p] - s >= sth
    /\ \E split \in fresh :
         InsertAndCompact(free \ {p}, split,
                          [addr EXCEPT ![split] = (addr[p] + s) % M],
                          [size EXCEPT ![split] = size[p] - s],
                          fresh \ {split})
    /\ used' = used \cup {p}
    /\ UNCHANGED top

(* The block found is split: its tail becomes a free block of its own. *)
AllocSplit(s) ==
  \E p \in free :
    /\ FirstFit(p, s) /\ ~ IsTop(p, s)
    /\ fresh # {} /\ size[p] - s >= sth
    /\ \E split \in fresh :
         InsertAndCompact(free \ {p}, split,
                          [addr EXCEPT ![split] = (addr[p] + s) % M],
                          [size EXCEPT ![p] = s, ![split] = size[p] - s],
                          fresh \ {split})
    /\ used' = used \cup {p}
    /\ UNCHANGED top

(* No free block will do: a fresh descriptor takes s bytes at the top. *)
AllocFresh(s) ==
  /\ \A p \in free : ~ Fits(p, s)
  /\ (top + s) % M <= lmt
  /\ \E b \in fresh :
       /\ fresh' = fresh \ {b} /\ used' = used \cup {b}
       /\ addr' = [addr EXCEPT ![b] = top]
       /\ size' = [size EXCEPT ![b] = s]
  /\ top' = (top + s) % M
  /\ UNCHANGED free

(* VM_alloc returns 0 exactly when none of the four cases above applies. *)
CanAlloc(s) ==
  \/ \E p \in free : Fits(p, s)
  \/ fresh # {} /\ (top + s) % M <= lmt

AllocFails(s) == ~ CanAlloc(s) /\ UNCHANGED vars

VM_alloc(n) ==
  LET s == CynAlign(n)
  IN  AllocTop(s) \/ AllocWhole(s) \/ AllocSplit(s) \/ AllocFresh(s) \/ AllocFails(s)

(* Fault: the block is not unlinked from the used list. *)
VM_freeKept(mem) ==
  \E b \in used :
    /\ mem # 0 /\ addr[b] = mem
    /\ InsertAndCompact(free, b, addr, size, fresh)
    /\ UNCHANGED <<used, top>>

(* VM_free of the address of a used block; the top is not lowered. *)
VM_free(mem) ==
  \E b \in used :
    /\ mem # 0 /\ addr[b] = mem
    /\ used' = used \ {b}
    /\ InsertAndCompact(free, b, addr, size, fresh)
    /\ UNCHANGED top

(* VM_free of 0, or of an address no used block has, returns false. *)
VM_freeUnknown(mem) ==
  /\ mem = 0 \/ \A b \in used : addr[b] # mem
  /\ UNCHANGED vars

Next ==
  \/ \E n \in Sizes : VM_alloc(n)
  \/ \E mem \in Word : VM_free(mem)
  \/ \E mem \in Word : VM_freeUnknown(mem)

Spec == Init /\ [][Next]_vars
-----------------------------------------------------------------------------
(***************************************************************************)
(* Correctness.                                                            *)
(***************************************************************************)

(* Requests for at least one byte that do not wrap the u32 sums of
   VM_heap_alloc_heap_block.  The guest may pass others, for which the heap
   does break (WithinLimit below); the other properties are about these. *)
RequestsFit ==
  \A n \in Sizes : n > 0 /\ lmt + n + aln <= M /\ hb + n + aln <= M

Blocked == used \cup free

End(b) == addr[b] + size[b]

(* The fields and lists have their types. *)
TypeOK ==
  /\ free \subseteq Blocks /\ used \subseteq Blocks /\ fresh \subseteq Blocks
  /\ addr \in [Blocks -> Word] /\ size \in [Blocks -> Word]
  /\ top \in Word

(* No descriptor is lost or on two lists: every path of alloc (unlink, split)
   and free (insert, merge, release) moves each descriptor from one list to
   exactly one other. *)
DescriptorsConserved ==
  /\ free \cup used \cup fresh = Blocks
  /\ free \cap used = {} /\ free \cap fresh = {} /\ used \cap fresh = {}

(* Blocks on the free and used lists are not empty and lie between the heap
   boundary and the top, and the top never passes the limit ("Heap
   allocations cannot be made past this address", vm.h). *)
InBounds ==
  /\ \A b \in Blocked : size[b] > 0 /\ hb <= addr[b] /\ End(b) <= top
  /\ top = hb \/ (hb <= top /\ top <= lmt)

(* No byte belongs to two blocks: neither two live allocations share memory
   nor is a live byte also on the free list, whatever was split or merged. *)
NoOverlap ==
  \A b, c \in Blocked : b # c => End(b) <= addr[c] \/ End(c) <= addr[b]

(* Compaction is complete: no two free blocks adjoin. *)
Compacted == \A b, c \in free : End(b) # addr[c]

(* No byte below the top is lost: each belongs to a used or a free block. *)
NoLeak ==
  \A x \in hb .. top - 1 : \E b \in Blocked : addr[b] <= x /\ x < End(b)

(* The inductive invariant: what the list operations rely on and keep. *)
HeapInvariant ==
  TypeOK /\ DescriptorsConserved /\ InBounds /\ NoOverlap /\ Compacted /\ NoLeak

(* A gap of s bytes between the live allocations. *)
Gap(a, s) ==
  /\ hb <= a /\ a + s <= lmt
  /\ \A b \in used : End(b) <= a \/ a + s <= addr[b]

(* VM_alloc does not report "out of memory" while a gap between the live
   allocations could hold the request and a descriptor is left: first fit,
   the resizing of the top block and compaction together find it. *)
NoFalseOutOfMemory ==
  \A n \in Sizes : \A a \in hb .. lmt :
    fresh # {} /\ Gap(a, CynAlign(n)) => CanAlloc(CynAlign(n))

(* Once the guest has freed everything the heap is whole again: at most one
   descriptor is bound and any request the limit admits is served. *)
EmptyHeapIsWhole ==
  used = {} =>
    /\ \A b, c \in free : b = c
    /\ \A n \in Sizes : hb + CynAlign(n) <= lmt => CanAlloc(CynAlign(n))

(* "Heap allocations cannot be made past this address" (vm.h, of hlm).  True
   of requests that fit; VM_heap_alloc_heap_block compares top + size with the
   limit after the u32 sum has wrapped, so a huge request passes the check. *)
WithinLimit == \A b \in used : End(b) <= lmt

(* Allocation and release of other blocks never move or resize a live one. *)
LiveBlocksStay ==
  [][\A b \in used \cap used' : addr'[b] = addr[b] /\ size'[b] = size[b]]_vars

(* The abstract heap: the extents of the used blocks. *)
Abstract == INSTANCE HeapSpec WITH live <- {[addr |-> addr[b], size |-> size[b]] : b \in used}

(* The linked lists implement the abstract heap: VM_alloc hands out unshared
   memory of the requested size within the bounds, VM_free takes back the
   extent at the address it is given and nothing else. *)
ImplementsHeapSpec == Abstract!Spec
=============================================================================
