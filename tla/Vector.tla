------------------------------- MODULE Vector -------------------------------
(***************************************************************************)
(* A growable array (vector.c, vector.h) and the strings built in it       *)
(* (buffer.c) in memory of the pool, beside other clients of the same      *)
(* memory managers (Allocators).  Elements have one byte.  elems is the    *)
(* sequence that the vector stands for: every operation is stated on it    *)
(* with the operators of sequences and carried out on the memory as the    *)
(* code does.                                                              *)
(***************************************************************************)
EXTENDS Allocators

CONSTANTS MINIMUM_SIZE, \* the smallest capacity Vector_expand_ asks for
          Slack,        \* unused bytes that Buffer_release_ gives back
          Kinds,        \* elements are 1..Kinds
          V,            \* the holder of the vector's memory
          MaxLen        \* bound: length of the vector

ASSUME VectorAssumption ==
    /\ {MINIMUM_SIZE, MaxLen} \subseteq Nat \ {0} /\ Slack \in Nat
    /\ Kinds \in Nat \ {0} /\ V \notin Handles

VARIABLES vec,      \* len and capacity; blocks[V] is its memory
          elems     \* the sequence of elements

vars == <<free, arena, blocks, status, vec, elems>>

Empty == [len |-> 0, cap |-> 0]
VInit == Init /\ vec = Empty /\ elems = <<>>

Data == IF V \in DOMAIN blocks THEN blocks[V].data ELSE <<>>

(* The memory an operation stores into: n bytes for cap elements, if the   *)
(* allocator has them, or the memory as it is; how the program goes on     *)
Resized(n, cap) ==
    LET t == ReAllocated(V, "pool", n)
    IN  [res |-> t.res, free |-> t.free, arena |-> t.arena, block |-> t.block, cap |-> cap,
         ends |-> IF t.res = "null" THEN {"assert"}
                  ELSE Outcomes(t.res, t.block.seg, n + Meta)]
InPlace ==
    [res |-> "ok", free |-> free, arena |-> arena, block |-> blocks[V], cap |-> vec.cap,
     ends |-> {"ok"}]

(* data is what is then in memory m, the vector has len elements and       *)
(* stands for s; or an assertion fails, as there is no memory; or the      *)
(* elements reach behind the memory, which is there but too small          *)
Becomes(m, data, len, s) ==
    LET fits == len <= Len(m.block.data)
        done == m.res = "ok" /\ fits
    IN  /\ free' = m.free /\ arena' = m.arena
        /\ status' \in IF m.res = "ok" /\ ~fits THEN {"overrun"} ELSE m.ends
        /\ blocks' = CASE done -> Put(V, [m.block EXCEPT !.data = data])
                       [] m.res = "ok" /\ ~fits -> Put(V, m.block)
                       [] m.res /= "ok" -> blocks
        /\ vec' = IF done THEN [len |-> len, cap |-> m.cap] ELSE vec
        /\ elems' = IF done THEN s ELSE elems

(* Fault: one element too few is moved                                     *)
MovedShort(d, to, from, count) ==
    [i \in DOMAIN d |-> IF i > to /\ i < to + count /\ i - to + from \in DOMAIN d
                        THEN d[i - to + from] ELSE d[i]]

(* memmove of count elements; cells outside of the memory are not there    *)
Moved(d, to, from, count) ==
    [i \in DOMAIN d |-> IF i > to /\ i <= to + count /\ i - to + from \in DOMAIN d
                        THEN d[i - to + from] ELSE d[i]]
Written(d, at, arr) ==
    [i \in DOMAIN d |-> IF i - at \in DOMAIN arr THEN arr[i - at] ELSE d[i]]

round2pow2(n) ==
    IF n = 0 THEN 0 ELSE Pow2[CHOOSE e \in 0..n : Pow2[e] >= n /\ (e = 0 \/ Pow2[e - 1] < n)]

Ready == status = "ok"
Short(s) == Len(s) <= MaxLen

(* Vector_init0With: capacity for n elements                               *)
Vector_init0(n) ==
    LET m == Resized(n, n)
    IN  /\ Ready /\ V \notin DOMAIN blocks /\ vec = Empty
        /\ Becomes(m, m.block.data, 0, <<>>)

(* Vector_expand_ makes room for one more element                          *)
Vector_expand_ ==
    IF vec.len + 1 > vec.cap
    THEN LET n == IF vec.cap < MINIMUM_SIZE THEN MINIMUM_SIZE ELSE 2 * vec.cap
         IN  Resized(n, n)
    ELSE InPlace

Vector_push(x) ==
    LET m == Vector_expand_
    IN  /\ Ready /\ Short(Append(elems, x))
        /\ Becomes(m, Written(m.block.data, vec.len, <<x>>), vec.len + 1, Append(elems, x))

Vector_pop ==
    /\ Ready /\ vec.len > 0
    /\ Becomes(InPlace, Data, vec.len - 1, SubSeq(elems, 1, vec.len - 1))

(* Vector_reserve_: n more elements.  The capacity becomes n, also when    *)
(* the memory has more and when n is less than the number of elements.     *)
Vector_reserve_(n) ==
    LET needed == n - (vec.cap - vec.len)
    IN  IF needed > 0 THEN Resized(vec.cap + needed, n) ELSE InPlace

(* The caller's own n.  A capacity below the length makes the next         *)
(* Vector_expand_ ask for too little.                                      *)
Reserve(n) ==
    LET m == Vector_reserve_(n)
    IN  /\ Ready
        /\ IF n > vec.cap - vec.len THEN Becomes(m, m.block.data, vec.len, elems)
           ELSE UNCHANGED vars
Vector_reserve(n) == Reserve(n)
Vector_reserve0(n) == Reserve(round2pow2(n))

(* Vector_pushArr, which rounds to a power of 2, and Vector_expand, which  *)
(* does not and whose caller stores the elements                           *)
Vector_pushArr(arr) ==
    LET m == Vector_reserve_(round2pow2(vec.len + Len(arr)))
    IN  /\ Ready /\ Short(elems \o arr)
        /\ Becomes(m, Written(m.block.data, vec.len, arr), vec.len + Len(arr), elems \o arr)
Vector_expand(arr) ==
    LET m == Vector_reserve_(vec.len + Len(arr))
    IN  /\ Ready /\ Short(elems \o arr)
        /\ Becomes(m, Written(m.block.data, vec.len, arr), vec.len + Len(arr), elems \o arr)

Vector_insert(i, x) ==
    LET m == Vector_expand_
    IN  /\ Ready /\ i \in 0..vec.len /\ Short(Append(elems, x))
        /\ Becomes(m, Written(Moved(m.block.data, i + 1, i, vec.len - i), i, <<x>>),
             vec.len + 1, SubSeq(elems, 1, i) \o <<x>> \o SubSeq(elems, i + 1, vec.len))

Vector_splice(start, count) ==
    /\ Ready /\ start + count <= vec.len
    /\ Becomes(InPlace, Moved(Data, start, start + count, vec.len - start - count),
         vec.len - count,
         SubSeq(elems, 1, start) \o SubSeq(elems, start + count + 1, vec.len))

(* The last count elements take the place of those removed                 *)
Vector_swapSplice(start, count) ==
    /\ Ready /\ start + count <= vec.len
    /\ Becomes(InPlace, Moved(Data, start, vec.len - count, count), vec.len - count,
         [i \in 1..vec.len - count |->
            IF i > start /\ i <= start + count
            THEN elems[i - start + vec.len - count] ELSE elems[i]])

Vector_swap(i, j) ==
    LET Swapped(d) == [d EXCEPT ![i + 1] = d[j + 1], ![j + 1] = d[i + 1]]
    IN  /\ Ready /\ i < j /\ j < vec.len
        /\ Becomes(InPlace, Swapped(Data), vec.len, Swapped(elems))

Vector_truncate(n) ==
    /\ Ready /\ n < vec.len
    /\ Becomes(InPlace, Data, n, SubSeq(elems, 1, n))

(* Memory of the allocator is given to free() when nothing is in it        *)
Vector_compact ==
    LET m == Resized(vec.len, vec.len)
    IN  /\ Ready /\ V \in DOMAIN blocks
        /\ IF vec.len = 0 THEN status' = "wild" /\ UNCHANGED <<heap, vec, elems>>
           ELSE Becomes(m, m.block.data, vec.len, elems)

(* The macro forgets the allocator too; a vector is used again behind      *)
(* Vector_initWith only, which gives it the pool again.                    *)
Vector_deinit ==
    /\ Ready /\ V \in DOMAIN blocks
    /\ free' = Released(blocks[V], free) /\ blocks' = Without(V)
    /\ vec' = Empty /\ elems' = <<>>
    /\ UNCHANGED <<arena, status>>

(* The string is handed to a client, with a 0 behind it.  The room left is *)
(* an unsigned difference, large where the capacity is below the length;   *)
(* the length is compared with the capacity after Vector_release has       *)
(* cleared it.  The 0 may lie behind the bytes that were asked for, as     *)
(* long as the segment has room.  The characters are not followed.         *)
Buffer_release(h, compact) ==
    LET shrink == \/ compact /\ (vec.cap < vec.len \/ vec.cap - vec.len > Slack)
                  \/ vec.len = 0
        t == ReAllocated(V, "pool", vec.len + 1)
        b == IF shrink THEN t.block ELSE blocks[V]
        hand(r) == [x \in (DOMAIN blocks \ {V}) \cup {h} |->
                      IF x = h THEN [r EXCEPT !.data = Blank(Len(@))]
                      ELSE blocks[x]]
    IN  /\ Ready /\ V \in DOMAIN blocks /\ h \notin DOMAIN blocks
        /\ vec' = Empty /\ elems' = <<>>
        /\ IF (shrink /\ t.res /= "ok") \/ vec.len + 1 + Meta > b.seg.room
           THEN status' = "wild" /\ UNCHANGED heap
           ELSE /\ status' \in Outcomes("ok", b.seg, vec.len + 1 + Meta)
                /\ free' = (IF shrink THEN t.free ELSE free)
                /\ arena' = (IF shrink THEN t.arena ELSE arena)
                /\ blocks' = hand(b)

(***************************************************************************)
(* The other clients use every manager.                                    *)
(***************************************************************************)
Clients ==
    /\ \/ \E h \in Handles, A \in Managers, n \in Sizes :
             /\ A = "arena" => RegionLeft
             /\ \/ Allocator_alloc(h, A, n)
                \/ Allocator_strndup(h, A, n - 1)
                \/ Allocator_cAlloc(h, A, n, 2)
       \/ \E h \in Handles, n \in Sizes : RegionLeft /\ Allocator_reAlloc(h, n)
       \/ \E h \in Handles, A \in Managers, n \in Sizes :
             RegionLeft /\ Allocator_relocate(h, A, n)
       \/ \E h \in Handles : Allocator_dealloc(h)
    /\ UNCHANGED <<vec, elems>>

(* Elements are numbered in turn, so that neighbours differ                *)
Fresh(i) == 1 + ((vec.len + i) % Kinds)
VectorStep ==
    \/ \E n \in Sizes : Vector_init0(n)
    \/ Vector_push(Fresh(0))
    \/ Vector_pop
    \/ \E n \in 0..MaxLen : Vector_reserve(n) \/ Vector_reserve0(n)
    \/ Vector_pushArr(<<Fresh(0), Fresh(1)>>)
    \/ Vector_expand(<<Fresh(0), Fresh(1)>>)
    \/ \E i \in 0..MaxLen : Vector_insert(i, Fresh(1))
    \/ \E start \in 0..MaxLen, count \in 1..MaxLen : Vector_splice(start, count)
    \/ \E start \in 0..MaxLen, count \in 1..MaxLen :
          Vector_swapSplice(start, count)
    \/ \E i, j \in 0..MaxLen : Vector_swap(i, j)
    \/ \E n \in 0..MaxLen : Vector_truncate(n)
    \/ Vector_compact
    \/ Vector_deinit
    \/ \E h \in Handles, compact \in BOOLEAN : Buffer_release(h, compact)

Next == Clients \/ VectorStep
Spec == VInit /\ [][Next]_vars

(* The memory of the vector holds the elements it should, in their order,  *)
(* inside of what was asked for, however it was reserved, grown, shrunk,   *)
(* compacted and moved to another segment.  An operation finds the memory  *)
(* it grew too small for the elements only if the capacity was below the   *)
(* length, as a Vector_reserve of fewer elements than there are leaves it  *)
(* (vector.c:55).                                                          *)
VectorIsSequence ==
    /\ Ready => /\ vec.len = Len(elems) /\ vec.len <= Len(Data)
                /\ vec.cap <= Len(Data)
                /\ SubSeq(Data, 1, vec.len) = elems
    /\ status = "overrun" => vec.cap < vec.len
=============================================================================
