----------------------------- MODULE Allocators -----------------------------
(***************************************************************************)
(* The memory managers of the compiler: the front Allocator_alloc,         *)
(* _cAlloc, _reAlloc, _dealloc, _relocate with a record of metadata before *)
(* every block, and behind it the system's allocator, the arena and the    *)
(* pool with its lists of segments per size class.                         *)
(*                                                                         *)
(* Sizes are scaled: the smallest class is Meta, the size of the metadata, *)
(* as in the code.  A block is known by the handle of the client that      *)
(* holds it; data is what the client stored in it, Junk where it has not   *)
(* stored anything.  Left out: statistics and their printing, thread-local *)
(* numbering of allocators, the magic numbers (a client hands back what it *)
(* was given).                                                             *)
(***************************************************************************)
EXTENDS Integers, Sequences, FiniteSets

CONSTANTS Meta,             \* sizeof(AllocatorMetadata)
          Link,             \* sizeof(PoolAllocatorData), before the segments
          NUMBER_OF_POOLS,
          POOL_BLOCK_SIZE,
          ArenaSize,        \* size of the first region of the arena
          Word,             \* alignment in the arena
          MaxRegions,       \* bound: regions of the arena
          Handles,          \* holders of blocks
          Sizes             \* bound: sizes asked for

ASSUME AllocatorsAssumption ==
    /\ {Meta, Link, NUMBER_OF_POOLS, POOL_BLOCK_SIZE, ArenaSize, Word, MaxRegions}
         \subseteq Nat \ {0}
    /\ Sizes \subseteq Nat

VARIABLES free,     \* the free segments of every pool, last pushed last
          arena,    \* the regions of the arena: size, current
          blocks,   \* the blocks in use, by handle
          status    \* "ok", or "assert", "overrun", "wild" when the program
                    \* went wrong

heap == <<free, arena, blocks>>

Junk == 0
Smaller(a, b) == IF a < b THEN a ELSE b
Larger(a, b) == IF a < b THEN b ELSE a

(***************************************************************************)
(* The pool.  A segment is [sp, at, room]: the pool it was cut from, where *)
(* it starts, how many bytes there are up to the next one.                 *)
(***************************************************************************)
Pools == 0..NUMBER_OF_POOLS - 1
(* 1 << c                                                                  *)
Pow2[c \in Nat] == IF c = 0 THEN 1 ELSE 2 * Pow2[c - 1]
ClassSize(c) == Meta * Pow2[c]

(* np2 and n21: the class of a size, the first that is large enough, is    *)
(* the number of classes that are too small.  (Sizes larger than the first *)
(* class behind the pools are not told apart: no pool has blocks of them.) *)
PoolSizes == [c \in 0..NUMBER_OF_POOLS |-> ClassSize(c)]
PoolClass(size) == Cardinality({c \in 0..NUMBER_OF_POOLS : PoolSizes[c] < size})

(* Segments are cut as long as they start before POOL_BLOCK_SIZE, but the  *)
(* memory they are cut from has PoolBytes only: the last one, which is the *)
(* first to be handed out, hangs over its end.                             *)
PoolAllocatorBlock_Init(c) ==
    LET step == ClassSize(c) + Meta
        count == (POOL_BLOCK_SIZE + step - 1) \div step
    IN  [i \in 1..count |-> [sp |-> <<"pool", c>>, at |-> (i - 1) * step, room |-> step]]

Segments == UNION {{PoolAllocatorBlock_Init(c)[i] :
                       i \in DOMAIN PoolAllocatorBlock_Init(c)} : c \in Pools}

PoolBytes == POOL_BLOCK_SIZE - Meta - Link
Last(c) == PoolAllocatorBlock_Init(c)[Len(PoolAllocatorBlock_Init(c))]
(* True of the sizes in the code: the last segment of every class starts   *)
(* inside the memory                                                       *)
ASSUME CutAssumption == \A c \in Pools : Last(c).at <= PoolBytes

Init ==
    /\ free = [c \in Pools |-> PoolAllocatorBlock_Init(c)]
    /\ arena = <<[size |-> ArenaSize, current |-> 0]>>
    /\ blocks = [h \in {} |-> 0]
    /\ status = "ok"

(***************************************************************************)
(* The managers.  What a request for size bytes (metadata included) gives: *)
(* res is "ok", "null" or "wild"; the segment; the lists and regions       *)
(* afterwards.                                                             *)
(***************************************************************************)
Nowhere == [sp |-> <<"none", 0>>, at |-> 0, room |-> 0]

(* The first n bytes of a segment end behind the memory of its pool        *)
Hangs(seg, n) == seg.sp[1] = "pool" /\ seg.at + n > PoolBytes

(* What may become of a client that uses the n bytes (metadata included)   *)
(* it was answered with: what it stores behind the memory of a pool may do *)
(* harm                                                                    *)
Outcomes(res, seg, n) ==
    CASE res = "wild" -> {"wild"}
      [] res = "ok" /\ Hangs(seg, n) -> {"ok", "wild"}
      [] OTHER -> {"ok"}

Answer(res, seg, fr, ar) == [res |-> res, seg |-> seg, free |-> fr, arena |-> ar]

(* The system's allocator always finds memory of its own                   *)
defaultAlloc(size) ==
    Answer("ok", [sp |-> <<"system", 0>>, at |-> 0, room |-> size], free, arena)

(* The first region with more than size bytes left, or a new region        *)
ArenaAllocator_alloc(size) ==
    LET need == ((size + Word - 1) \div Word) * Word
        fits == {r \in DOMAIN arena : arena[r].size - arena[r].current > need}
        r == IF fits = {} THEN Len(arena) + 1
             ELSE CHOOSE r \in fits : \A q \in fits : r <= q
        at == IF fits = {} THEN 0 ELSE arena[r].current
    IN  Answer("ok", [sp |-> <<"arena", r>>, at |-> at, room |-> need], free,
               IF fits /= {} THEN [arena EXCEPT ![r].current = @ + need]
               ELSE Append(arena, [size |-> Larger(ArenaSize, need),
                                   current |-> need]))

(* Fault: the segment handed out stays on the free list                    *)
PoolAllocator_allocKept(size) ==
    LET c == PoolClass(size)
    IN  IF c \notin Pools \/ free[c] = <<>> THEN Answer("null", Nowhere, free, arena)
        ELSE Answer("ok", free[c][Len(free[c])], free, arena)

(* A class behind the last pool is not refused: only sizes of at least     *)
(* twice the largest class are.                                            *)
PoolAllocator_alloc(size) ==
    LET c == PoolClass(size)
    IN  CASE size = 0 \/ size >= ClassSize(NUMBER_OF_POOLS) ->
               Answer("null", Nowhere, free, arena)
          [] 0 < size /\ size < ClassSize(NUMBER_OF_POOLS) /\ c \notin Pools ->
               Answer("wild", Nowhere, free, arena)
          [] c \in Pools /\ free[c] = <<>> -> Answer("null", Nowhere, free, arena)
          [] c \in Pools /\ free[c] /= <<>> ->
               Answer("ok", free[c][Len(free[c])],
                      [free EXCEPT ![c] = SubSeq(@, 1, Len(@) - 1)], arena)

Allocated(A, size) ==
    CASE A = "default" -> defaultAlloc(size)
      [] A = "arena" -> ArenaAllocator_alloc(size)
      [] A = "pool" -> PoolAllocator_alloc(size)

(* num * size bytes, cleared                                               *)
defaultCAlloc(num, size) == defaultAlloc(num * size)

ArenaAllocator_cAlloc(num, size) == ArenaAllocator_alloc(num * size)

PoolAllocator_cAlloc(num, size) == PoolAllocator_alloc(num * size)

CAllocated(A, num, size) ==
    CASE A = "default" -> defaultCAlloc(num, size)
      [] A = "arena" -> ArenaAllocator_cAlloc(num, size)
      [] A = "pool" -> PoolAllocator_cAlloc(num, size)

(* A segment is given back                                                 *)
defaultDealloc(fr) == fr

ArenaAllocator_dealloc(fr) == fr

PoolAllocator_dealloc(seg, size, fr) ==
    [fr EXCEPT ![PoolClass(size)] = Append(@, seg)]

Deallocated(A, seg, size, fr) ==
    CASE A = "default" -> defaultDealloc(fr)
      [] A = "arena" -> ArenaAllocator_dealloc(fr)
      [] A = "pool" -> PoolAllocator_dealloc(seg, size, fr)

(* A segment of orig bytes is to have size.  The second component says how *)
(* many bytes keep their contents: all, where the segment stays.           *)
defaultReAlloc(seg, orig, size) ==
    <<Answer("ok", [seg EXCEPT !.room = size], free, arena), size>>

ArenaAllocator_reAlloc(seg, orig, size) ==
    <<ArenaAllocator_alloc(size), Smaller(orig, size)>>

PoolAllocator_reAlloc(seg, orig, size) ==
    LET t == PoolAllocator_alloc(size)
    IN  IF PoolClass(orig) = PoolClass(size)
        THEN <<Answer("ok", seg, free, arena), size>>
        ELSE <<IF t.res /= "ok" THEN t
               ELSE [t EXCEPT !.free = PoolAllocator_dealloc(seg, orig, @)],
               Smaller(orig, size)>>

NewSegment(A, seg, orig, size) ==
    CASE A = "default" -> defaultReAlloc(seg, orig, size)
      [] A = "arena" -> ArenaAllocator_reAlloc(seg, orig, size)
      [] A = "pool" -> PoolAllocator_reAlloc(seg, orig, size)

(***************************************************************************)
(* The front.  size is the size in the metadata, data what the client may  *)
(* use.                                                                    *)
(***************************************************************************)
Block(A, seg, size, data) == [A |-> A, seg |-> seg, size |-> size, data |-> data]
Blank(n) == [i \in 1..n |-> Junk]
(* A client stores something in all the bytes it asked for                 *)
Filled(n) == [i \in 1..n |-> 1]
Put(h, b) == [x \in DOMAIN blocks \cup {h} |-> IF x = h THEN b ELSE blocks[x]]
Without(h) == [x \in DOMAIN blocks \ {h} |-> blocks[x]]

(* The first n bytes, of which k were copied from d                        *)
Keep(d, k, n) == [i \in 1..n |-> IF i <= k /\ i <= Len(d) THEN d[i] ELSE Junk]

(* What Allocator_reAlloc does for the holder h: the answer and the block. *)
(* Without a block it is Allocator_alloc.                                  *)
ReAllocated(h, A, size) ==
    IF h \notin DOMAIN blocks
    THEN LET t == Allocated(A, size + Meta)
         IN  [res |-> t.res, free |-> t.free, arena |-> t.arena,
              block |-> Block(A, t.seg, size, Blank(size))]
    ELSE LET b == blocks[h]
             r == NewSegment(A, b.seg, b.size + Meta, size + Meta)
         IN  [res |-> r[1].res, free |-> r[1].free, arena |-> r[1].arena,
              block |-> Block(A, r[1].seg, size, Keep(b.data, r[2] - Meta, size))]

Managers == {"default", "arena", "pool"}
RegionLeft == Len(arena) < MaxRegions

Allocator_alloc(h, A, size) ==
    /\ status = "ok" /\ h \notin DOMAIN blocks /\ size > 0
    /\ LET t == Allocated(A, size + Meta)
       IN  /\ free' = t.free /\ arena' = t.arena
           /\ blocks' = IF t.res = "ok"
                        THEN Put(h, Block(A, t.seg, size, Filled(size)))
                        ELSE blocks
           /\ status' \in Outcomes(t.res, t.seg, size + Meta)

(* A string of len characters and the 0 behind it                          *)
Allocator_strndup(h, A, len) == Allocator_alloc(h, A, len + 1)

(* The metadata gets the size of one element                               *)
Allocator_cAlloc(h, A, size, num) ==
    /\ status = "ok" /\ h \notin DOMAIN blocks /\ size > 0 /\ num > 0
    /\ LET t == CAllocated(A, 1, size * num + Meta)
       IN  /\ free' = t.free /\ arena' = t.arena
           /\ blocks' = IF t.res = "ok"
                        THEN Put(h, Block(A, t.seg, size, Filled(size * num)))
                        ELSE blocks
           /\ status' \in Outcomes(t.res, t.seg, size * num + Meta)

(* Fault: the contents are not moved along                                 *)
Allocator_reAllocBlank(h, size) ==
    /\ status = "ok" /\ h \in DOMAIN blocks /\ size > 0
    /\ LET t == ReAllocated(h, blocks[h].A, size)
       IN  /\ free' = t.free /\ arena' = t.arena
           /\ blocks' = IF t.res = "ok"
                        THEN Put(h, [t.block EXCEPT !.data = Blank(size)])
                        ELSE blocks
           /\ status' \in Outcomes(t.res, t.block.seg, size + Meta)

Allocator_reAlloc(h, size) ==
    /\ status = "ok" /\ h \in DOMAIN blocks /\ size > 0
    /\ LET t == ReAllocated(h, blocks[h].A, size)
       IN  /\ free' = t.free /\ arena' = t.arena
           /\ blocks' = IF t.res = "ok" THEN Put(h, t.block) ELSE blocks
           /\ status' \in Outcomes(t.res, t.block.seg, size + Meta)

Released(b, fr) == Deallocated(b.A, b.seg, b.size + Meta, fr)

Allocator_dealloc(h) ==
    /\ status = "ok" /\ h \in DOMAIN blocks
    /\ free' = Released(blocks[h], free)
    /\ blocks' = Without(h)
    /\ UNCHANGED <<arena, status>>

(* A move to another manager, which keeps at most the bytes the metadata   *)
(* says there are                                                          *)
Allocator_relocate(h, to, size) ==
    /\ status = "ok" /\ h \in DOMAIN blocks /\ blocks[h].A /= to /\ size > 0
    /\ LET b == blocks[h]
           n == Smaller(b.size, size)
           t == Allocated(to, n + Meta)
       IN  /\ free' = IF t.res = "ok" THEN Released(b, t.free) ELSE t.free
           /\ arena' = t.arena
           /\ blocks' = IF t.res = "ok"
                        THEN Put(h, Block(to, t.seg, n, Keep(b.data, n, n)))
                        ELSE blocks
           /\ status' \in Outcomes(t.res, t.seg, n + Meta)

(***************************************************************************)
(* Properties.                                                             *)
(***************************************************************************)
Apart(s, t) == s.sp = t.sp => s.at + s.room <= t.at \/ t.at + t.room <= s.at

(* The places of segments: on a free list, or with the holder of a block   *)
Listed == UNION {{<<c, i>> : i \in DOMAIN free[c]} : c \in Pools}
Holding == {h \in DOMAIN blocks : blocks[h].A = "pool"}

(* Every segment of every pool is in one place only, on one free list or   *)
(* in the hands of one client, blocks lie apart in the arena, and no block *)
(* reaches into the next: over allocations, reallocations in place and     *)
(* moves between managers, and for arrays too, whose segments go back to a *)
(* list of another class.  Blocks of the pool also end inside the pool's   *)
(* memory, except in the last segment of a class, which the code cuts too  *)
(* long (heap.c:116).                                                      *)
SegmentsInOnePlace ==
    /\ {free[p[1]][p[2]] : p \in Listed} \cup {blocks[h].seg : h \in Holding} = Segments
    /\ Cardinality(Listed) + Cardinality(Holding) = Cardinality(Segments)
    /\ \A g, h \in DOMAIN blocks :
          g /= h /\ blocks[g].A /= "default" => Apart(blocks[g].seg, blocks[h].seg)
    /\ \A h \in DOMAIN blocks :
          LET b == blocks[h]
              n == Len(b.data) + Meta
          IN  /\ n <= b.seg.room
              /\ Hangs(b.seg, n) => \E c \in Pools : b.seg = Last(c)

(* A block keeps what its client stored, as far as old and new size reach, *)
(* whenever it is reallocated or moved.  (Arrays of Allocator_cAlloc are   *)
(* excluded: their metadata has the size of one element.)                  *)
ContentsKept ==
    [][\A h \in DOMAIN blocks \cap DOMAIN blocks' \cap Handles :
         LET old == blocks[h].data
             new == blocks'[h].data
         IN  Len(old) = blocks[h].size =>
               \A i \in 1..Smaller(Len(old), Len(new)) :
                  old[i] /= Junk => new[i] = old[i]]_<<heap, status>>
=============================================================================
