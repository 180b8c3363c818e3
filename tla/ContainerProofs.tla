--------------------------- MODULE ContainerProofs ---------------------------
(***************************************************************************)
(* Proofs about the containers: the vector with the memory managers        *)
(* (Vector, Allocators), and the map (Map).                                *)
(*                                                                         *)
(* The invariant of the vector has two parts.  HeapOK is about the         *)
(* managers: a segment is in one place, a list of the pool holds segments  *)
(* large enough for its class, and each block satisfies BlockOK, what its  *)
(* manager owes its holder.  It is stated for lists, regions and blocks as *)
(* parameters, so that what an allocation would give can be spoken of      *)
(* before it is stored.  VectorOK relates the vector to the sequence it    *)
(* stands for.                                                             *)
(*                                                                         *)
(* The invariant of the map relates its buckets to the function it stands  *)
(* for, again with both as parameters: growing goes through buckets that   *)
(* hold a part of the function.                                            *)
(***************************************************************************)
EXTENDS Vector, Map, FiniteSetTheorems, WellFoundedInduction, TLAPS

(* The segments in the hands of clients, by holder.                        *)
Holds(bl) == [h \in {g \in DOMAIN bl : bl[g].A = "pool"} |-> bl[h].seg]

(* No segment is in two places, and each is in one.                        *)
ListsApart(fr) ==
    \A c, d \in Pools : \A i \in DOMAIN fr[c], j \in DOMAIN fr[d] :
        fr[c][i] = fr[d][j] => c = d /\ i = j
HoldersApart(ho) == \A g, h \in DOMAIN ho : ho[g] = ho[h] => g = h
FreeOrHeld(fr, ho) ==
    \A c \in Pools : \A i \in DOMAIN fr[c] : \A h \in DOMAIN ho : fr[c][i] /= ho[h]
NoneLost(fr, ho) ==
    \A s \in Segments :
        \/ \E c \in Pools : \E i \in DOMAIN fr[c] : fr[c][i] = s
        \/ \E h \in DOMAIN ho : ho[h] = s
Placed(fr, ho) ==
    ListsApart(fr) /\ HoldersApart(ho) /\ FreeOrHeld(fr, ho) /\ NoneLost(fr, ho)

(* What a manager owes the holder of a block: the metadata is not larger   *)
(* than what is stored, and there is room for it.  A segment of the pool   *)
(* also has room for the class to whose list it will go back.              *)
PoolBlock(b) ==
    /\ b.seg \in Segments
    /\ PoolClass(b.size + Meta) \in Pools
    /\ ClassSize(PoolClass(b.size + Meta)) + Meta <= b.seg.room
ArenaBlock(b, ar) ==
    \E r \in DOMAIN ar :
        /\ b.seg.sp = <<"arena", r>> /\ b.seg.at \in Nat /\ b.seg.room \in Nat
        /\ b.seg.at + b.seg.room <= ar[r].current
BlockOK(b, ar) ==
    /\ b.A \in Managers /\ b.size \in Nat /\ b.data \in Seq(Nat)
    /\ Len(b.data) + Meta <= b.seg.room
    /\ b.A = "pool" => PoolBlock(b)
    /\ b.A = "arena" => ArenaBlock(b, ar)
    /\ b.A = "default" => /\ b.seg = [sp |-> <<"system", 0>>, at |-> 0, room |-> b.seg.room]
                          /\ b.seg.room \in Nat

(* The lists of the pool hold what their class needs.                      *)
ListsOK(fr) ==
    /\ fr \in [Pools -> Seq(Segments)]
    /\ \A c \in Pools : \A i \in DOMAIN fr[c] : ClassSize(c) + Meta <= fr[c][i].room
ArenaApart(bl) ==
    \A g, h \in DOMAIN bl :
        g /= h /\ bl[g].A = "arena" /\ bl[h].A = "arena" => Apart(bl[g].seg, bl[h].seg)

HeapOK(fr, ar, bl) ==
    /\ ListsOK(fr)
    /\ ar \in Seq([size : Nat, current : Nat])
    /\ \A h \in DOMAIN bl : BlockOK(bl[h], ar)
    /\ Placed(fr, Holds(bl))
    /\ ArenaApart(bl)

(* The vector, while the program runs.  Its capacity may be below its      *)
(* length, but its memory is not.                                          *)
VectorOK ==
    /\ vec \in [len : Nat, cap : Nat] /\ elems \in Seq(Nat)
    /\ V \in DOMAIN blocks =>
          blocks[V] = Block("pool", blocks[V].seg, Len(blocks[V].data), blocks[V].data)
    /\ vec.len = Len(elems) /\ vec.len <= Len(Data) /\ vec.cap <= Len(Data)
    /\ \A i \in 1..vec.len : Data[i] = elems[i]

VectorInv ==
    /\ HeapOK(free, arena, blocks)
    /\ Ready => VectorOK
    /\ status = "overrun" => vec.cap < vec.len
-----------------------------------------------------------------------------
(* Numbers: induction on a set, and the powers of two.                     *)
LEMMA NatLeast ==
    ASSUME NEW T, T \subseteq Nat, T /= {}
    PROVE  \E x \in T : \A y \in T : x <= y
<1>1. PICK x \in T : \A y \in T : ~ (<<y, x>> \in OpToRel(<, Nat))
  BY NatLessThanWellFounded, WFMin
<1>2. \A y \in T : ~ (<<y, x>> \in {ss \in Nat \X Nat : ss[1] < ss[2]})
  BY <1>1 DEF OpToRel
<1>3. ASSUME NEW y \in T PROVE x <= y
  <2>1. x \in Nat /\ y \in Nat
    OBVIOUS
  <2>2. y < x => <<y, x>> \in {ss \in Nat \X Nat : ss[1] < ss[2]}
    BY <2>1
  <2> QED
    BY <1>2, <2>1, <2>2
<1> QED
  BY <1>3

LEMMA Induction ==
    ASSUME NEW T, T \subseteq Nat, 0 \in T, \A n \in T : n + 1 \in T
    PROVE  T = Nat
<1> DEFINE M == Nat \ T
<1> SUFFICES ASSUME M /= {} PROVE FALSE
  OBVIOUS
<1>1. M \subseteq Nat
  OBVIOUS
<1>2. PICK m \in M : \A y \in M : m <= y
  BY <1>1, NatLeast
<1>3. m \in Nat /\ m \notin T
  BY <1>2
<1>4. m /= 0
  BY <1>3
<1>5. m - 1 \in Nat /\ m - 1 \notin M
  BY <1>2, <1>3, <1>4
<1>6. m - 1 \in T
  BY <1>5
<1>7. (m - 1) + 1 \in T
  BY <1>6
<1> QED
  BY <1>3, <1>7

Doubles(f, n) ==
    f \in [0..n -> Nat] /\ f[0] = 1 /\ \A k \in 1..n : f[k] = 2 * f[k - 1]

LEMMA DoublesExist ==
    ASSUME NEW n \in Nat
    PROVE  \E f : Doubles(f, n)
<1> DEFINE T == {m \in Nat : \E f : Doubles(f, m)}
<1>1. 0 \in T
  <2>1. Doubles([k \in 0..0 |-> 1], 0)
    BY DEF Doubles
  <2> QED
    BY <2>1
<1>2. ASSUME NEW m \in T PROVE m + 1 \in T
  <2>1. PICK f : Doubles(f, m)
    OBVIOUS
  <2> DEFINE g == [k \in 0..m + 1 |-> IF k = m + 1 THEN 2 * f[m] ELSE f[k]]
  <2>2. m \in Nat /\ f \in [0..m -> Nat] /\ f[0] = 1 /\ \A k \in 1..m : f[k] = 2 * f[k - 1]
    BY <2>1 DEF Doubles
  <2>3. g \in [0..m + 1 -> Nat] /\ g[0] = 1
    BY <2>2
  <2>4. ASSUME NEW k \in 1..m + 1 PROVE g[k] = 2 * g[k - 1]
    BY <2>2
  <2>5. Doubles(g, m + 1)
    BY <2>3, <2>4 DEF Doubles
  <2> QED
    BY <2>2, <2>5
<1> HIDE DEF T
<1>3. T = Nat
  <2>1. T \subseteq Nat
    BY DEF T
  <2> QED
    BY <1>1, <1>2, <2>1, Induction
<1> QED
  BY <1>3 DEF T

LEMMA DoublesUnique ==
    ASSUME NEW m \in Nat, NEW n \in Nat, m <= n, NEW f, Doubles(f, m), NEW g, Doubles(g, n)
    PROVE  f[m] = g[m]
<1> DEFINE T == {k \in Nat : k <= m => f[k] = g[k]}
<1>1. /\ f[0] = 1 /\ \A k \in 1..m : f[k] = 2 * f[k - 1]
      /\ g[0] = 1 /\ \A k \in 1..n : g[k] = 2 * g[k - 1]
  BY DEF Doubles
<1>2. 0 \in T
  BY <1>1
<1>3. ASSUME NEW k \in T PROVE k + 1 \in T
  <2>1. k \in Nat /\ (k <= m => f[k] = g[k])
    OBVIOUS
  <2>2. CASE k + 1 <= m
    <3>1. k + 1 \in 1..m /\ k + 1 \in 1..n /\ (k + 1) - 1 = k
      BY <2>1, <2>2
    <3> QED
      BY <1>1, <2>1, <2>2, <3>1
  <2> QED
    BY <2>1, <2>2
<1> HIDE DEF T
<1>4. T = Nat
  <2>1. T \subseteq Nat
    BY DEF T
  <2> QED
    BY <1>2, <1>3, <2>1, Induction
<1> QED
  BY <1>4 DEF T

(* The powers of two are what shifting gives.                              *)
LEMMA Pow2Def ==
    /\ Pow2[0] = 1
    /\ \A n \in Nat : Pow2[n + 1] = 2 * Pow2[n]
    /\ \A n \in Nat : Pow2[n] \in Nat
<1> DEFINE F(f) == [c \in Nat |-> IF c = 0 THEN 1 ELSE 2 * f[c - 1]]
           d(n) == CHOOSE f : Doubles(f, n)
           h == [n \in Nat |-> d(n)[n]]
<1>1. Pow2 = CHOOSE f : f = F(f)
  BY Zenon DEF Pow2
<1>2. \A n \in Nat : Doubles(d(n), n)
  BY DoublesExist, Zenon
<1> HIDE DEF d
<1>3. h[0] = 1
  <2>1. Doubles(d(0), 0)
    BY <1>2
  <2> QED
    BY <2>1 DEF Doubles
<1>4. ASSUME NEW n \in Nat, n /= 0 PROVE h[n] = 2 * h[n - 1]
  <2>0. n - 1 \in Nat /\ n - 1 <= n /\ n \in 1..n
    BY <1>4
  <2>1. Doubles(d(n), n) /\ Doubles(d(n - 1), n - 1)
    BY <1>2, <2>0, Zenon
  <2>2. d(n - 1)[n - 1] = d(n)[n - 1]
    BY <2>0, <2>1, DoublesUnique
  <2>3. d(n)[n] = 2 * d(n)[n - 1]
    BY <2>0, <2>1 DEF Doubles
  <2> QED
    BY <2>0, <2>2, <2>3
<1>5. h = F(h)
  <2> HIDE DEF h
  <2>1. h = [n \in Nat |-> h[n]]
    BY DEF h
  <2>2. \A n \in Nat : h[n] = F(h)[n]
    BY <1>3, <1>4
  <2> QED
    BY <2>1, <2>2
<1> HIDE DEF h
<1>6. Pow2 = F(Pow2)
  <2>1. \E f : f = F(f)
    BY <1>5
  <2> QED
    BY <1>1, <2>1, Zenon
<1>7. Pow2[0] = 1
  BY <1>6
<1>8. ASSUME NEW n \in Nat PROVE Pow2[n + 1] = 2 * Pow2[n]
  <2>1. n + 1 \in Nat /\ n + 1 /= 0 /\ (n + 1) - 1 = n
    OBVIOUS
  <2>2. \A c \in Nat : Pow2[c] = IF c = 0 THEN 1 ELSE 2 * Pow2[c - 1]
    BY <1>6
  <2> QED
    BY <2>1, <2>2
<1> DEFINE T == {n \in Nat : Pow2[n] \in Nat}
<1>9. 0 \in T /\ \A n \in T : n + 1 \in T
  BY <1>7, <1>8
<1> HIDE DEF T
<1>10. T = Nat
  <2>1. T \subseteq Nat
    BY DEF T
  <2> QED
    BY <1>9, <2>1, Induction
<1> QED
  BY <1>7, <1>8, <1>10 DEF T

(* They grow, faster than their exponents.                                 *)
LEMMA Pow2Grows == \A n \in Nat : Pow2[n] > n
<1> DEFINE T == {n \in Nat : Pow2[n] > n}
<1>1. 0 \in T
  BY Pow2Def
<1>2. ASSUME NEW n \in T PROVE n + 1 \in T
  <2>1. n \in Nat /\ Pow2[n] > n /\ Pow2[n] \in Nat /\ Pow2[n + 1] = 2 * Pow2[n]
    BY Pow2Def
  <2> QED
    BY <2>1
<1> HIDE DEF T
<1>3. T = Nat
  <2>1. T \subseteq Nat
    BY DEF T
  <2> QED
    BY <1>1, <1>2, <2>1, Induction
<1> QED
  BY <1>3 DEF T

LEMMA Pow2Monotone == \A m \in Nat : \A k \in Nat : Pow2[m] <= Pow2[m + k]
<1> SUFFICES ASSUME NEW m \in Nat PROVE \A k \in Nat : Pow2[m] <= Pow2[m + k]
  OBVIOUS
<1> DEFINE T == {k \in Nat : Pow2[m] <= Pow2[m + k]}
<1>1. 0 \in T
  BY Pow2Def
<1>2. ASSUME NEW k \in T PROVE k + 1 \in T
  <2>1. m + k \in Nat /\ m + (k + 1) = (m + k) + 1
    OBVIOUS
  <2>2. Pow2[(m + k) + 1] = 2 * Pow2[m + k] /\ Pow2[m + k] \in Nat /\ Pow2[m] \in Nat
    BY <2>1, Pow2Def
  <2> QED
    BY <2>1, <2>2
<1> HIDE DEF T
<1>3. T = Nat
  <2>1. T \subseteq Nat
    BY DEF T
  <2> QED
    BY <1>1, <1>2, <2>1, Induction
<1> QED
  BY <1>3 DEF T
-----------------------------------------------------------------------------
(* The constants, one by one.                                              *)
LEMMA Sizing ==
    /\ Meta \in Nat /\ Meta > 0 /\ NUMBER_OF_POOLS \in Nat /\ NUMBER_OF_POOLS > 0
    /\ POOL_BLOCK_SIZE \in Nat /\ ArenaSize \in Nat /\ Word \in Nat /\ Word > 0
    /\ MINIMUM_SIZE \in Nat /\ MINIMUM_SIZE > 0 /\ MaxLen \in Nat /\ Slack \in Nat
    /\ Kinds \in Nat /\ Kinds > 0 /\ Sizes \subseteq Nat
    /\ Link \in Nat /\ V \notin Handles
<1>1. /\ Meta \in Nat \ {0} /\ NUMBER_OF_POOLS \in Nat \ {0} /\ POOL_BLOCK_SIZE \in Nat \ {0}
      /\ ArenaSize \in Nat \ {0} /\ Word \in Nat \ {0} /\ MINIMUM_SIZE \in Nat \ {0}
      /\ MaxLen \in Nat \ {0} /\ Link \in Nat \ {0}
  BY AllocatorsAssumption, VectorAssumption
<1> QED
  BY <1>1, AllocatorsAssumption, VectorAssumption

LEMMA Multiple ==
    ASSUME NEW m \in Nat, m > 0, NEW a \in Nat, NEW b \in Nat, a <= b
    PROVE  m * a \in Nat /\ m * a >= a /\ m * a <= m * b
OBVIOUS

LEMMA ClassSizes ==
    /\ \A c \in Nat : ClassSize(c) \in Nat
    /\ \A n \in Nat : ClassSize(n) >= n
    /\ \A c, d \in Nat : c <= d => ClassSize(c) <= ClassSize(d)
<1>1. \A c \in Nat : Pow2[c] \in Nat /\ Pow2[c] > c
  BY Pow2Def, Pow2Grows
<1>2. ASSUME NEW c \in Nat PROVE ClassSize(c) \in Nat /\ ClassSize(c) >= c
  <2>1. Meta * Pow2[c] \in Nat /\ Meta * Pow2[c] >= Pow2[c]
    BY <1>1, Sizing, Multiple
  <2> QED
    BY <1>1, <2>1 DEF ClassSize
<1>3. ASSUME NEW c \in Nat, NEW d \in Nat, c <= d PROVE ClassSize(c) <= ClassSize(d)
  <2>1. PICK k \in Nat : d = c + k
    <3>1. d - c \in Nat /\ d = c + (d - c)
      BY <1>3
    <3> QED
      BY <3>1
  <2>2. Pow2[c] <= Pow2[d]
    BY <2>1, Pow2Monotone
  <2>3. Pow2[c] \in Nat /\ Pow2[d] \in Nat
    BY <1>1
  <2>4. Meta * Pow2[c] <= Meta * Pow2[d]
    BY <2>2, <2>3, Sizing, Multiple
  <2> QED
    BY <2>4 DEF ClassSize
<1> QED
  BY <1>2, <1>3

(* np2 and n21 find the first class that is large enough, if the table of  *)
(* classes has one.                                                        *)
IsClass(c, size) ==
    /\ c \in Nat /\ c <= NUMBER_OF_POOLS + 1
    /\ c <= NUMBER_OF_POOLS => ClassSize(c) >= size
    /\ \A d \in 0..c - 1 : ClassSize(d) < size

LEMMA PoolClassIs ==
    ASSUME NEW size \in Nat
    PROVE  IsClass(PoolClass(size), size)
<1> DEFINE N == NUMBER_OF_POOLS
           T == {c \in 0..N : ClassSize(c) >= size} \cup {N + 1}
           S == {c \in 0..N : PoolSizes[c] < size}
<1>0. N \in Nat
  BY Sizing
<1>1. N + 1 \in T /\ T \subseteq Nat
  BY <1>0
<1>2. PICK m \in T : \A y \in T : m <= y
  BY <1>1, NatLeast
<1>3. m \in Nat /\ m <= N + 1
  BY <1>0, <1>1, <1>2
<1>4. ASSUME NEW d \in 0..m - 1 PROVE ClassSize(d) < size
  <2>1. d \in Nat /\ d < m /\ d \in 0..N
    BY <1>0, <1>3
  <2>2. d \notin T
    BY <1>2, <1>3, <2>1
  <2>3. ~ (ClassSize(d) >= size) /\ ClassSize(d) \in Nat
    BY <2>1, <2>2, ClassSizes
  <2> QED
    BY <2>3
<1>5. ASSUME NEW d \in 0..N, d >= m PROVE ClassSize(d) >= size
  <2>1. m \in 0..N
    BY <1>0, <1>3, <1>5
  <2>2. ClassSize(m) >= size
    BY <1>0, <1>2, <2>1
  <2>3. ClassSize(m) <= ClassSize(d) /\ ClassSize(m) \in Nat /\ ClassSize(d) \in Nat
    BY <1>0, <1>3, <1>5, ClassSizes
  <2> QED
    BY <2>2, <2>3
<1>6. S = 0..m - 1
  <2>1. \A d \in 0..N : PoolSizes[d] = ClassSize(d) /\ ClassSize(d) \in Nat
    BY <1>0, ClassSizes DEF PoolSizes
  <2>2. \A d \in 0..N : d \in 0..m - 1 <=> d \in S
    BY <1>0, <1>3, <1>4, <1>5, <2>1
  <2>3. 0..m - 1 \subseteq 0..N
    BY <1>0, <1>3
  <2> QED
    BY <2>2, <2>3
<1>7. Cardinality(0..m - 1) = m
  BY <1>3, FS_Interval
<1>8. PoolClass(size) = m
  BY <1>6, <1>7 DEF PoolClass
<1>9. m <= N => ClassSize(m) >= size
  BY <1>0, <1>2, <1>3
<1> QED
  BY <1>3, <1>4, <1>8, <1>9 DEF IsClass

(* A larger size has no smaller class.                                     *)
LEMMA PoolClassMonotone ==
    ASSUME NEW m \in Nat, NEW n \in Nat, m <= n
    PROVE  PoolClass(m) <= PoolClass(n)
<1>1. PICK c \in Nat : c = PoolClass(m) /\ IsClass(c, m)
  BY PoolClassIs DEF IsClass
<1>2. PICK d \in Nat : d = PoolClass(n) /\ IsClass(d, n)
  BY PoolClassIs DEF IsClass
<1>3. SUFFICES ASSUME d < c PROVE FALSE
  BY <1>1, <1>2
<1>4. d \in 0..c - 1 /\ ClassSize(d) \in Nat
  BY <1>3, ClassSizes
<1>5. ClassSize(d) < m /\ ClassSize(d) >= n
  BY <1>1, <1>2, <1>3, <1>4, Sizing DEF IsClass
<1> QED
  BY <1>4, <1>5
-----------------------------------------------------------------------------
(* The segments of the pool.                                               *)
Step(c) == ClassSize(c) + Meta
Count(c) == (POOL_BLOCK_SIZE + Step(c) - 1) \div Step(c)
SegmentAt(c, i) == [sp |-> <<"pool", c>>, at |-> (i - 1) * Step(c), room |-> Step(c)]

LEMMA Division ==
    ASSUME NEW a \in Nat, NEW b \in Nat, b > 0
    PROVE  /\ a \div b \in Nat
           /\ ((a + b - 1) \div b) * b \in Nat
           /\ ((a + b - 1) \div b) * b >= a
<1>1. a \div b \in Nat
  OBVIOUS
<1> DEFINE q == (a + b - 1) \div b
<1>2. q \in Nat
  OBVIOUS
<1>3. a + b - 1 = q * b + ((a + b - 1) % b) /\ (a + b - 1) % b \in 0..b - 1
  OBVIOUS
<1>4. q * b \in Nat
  BY <1>2
<1> QED
  BY <1>1, <1>3, <1>4

LEMMA Steps ==
    ASSUME NEW c \in Pools
    PROVE  /\ c \in Nat /\ Step(c) \in Nat /\ Step(c) > 0 /\ Count(c) \in Nat
           /\ PoolAllocatorBlock_Init(c) = [i \in 1..Count(c) |-> SegmentAt(c, i)]
<1>1. c \in Nat
  BY Sizing DEF Pools
<1>2. Step(c) \in Nat /\ Step(c) > 0
  BY <1>1, ClassSizes, Sizing DEF Step
<1>3. PICK st \in Nat : st = Step(c) /\ st > 0
  BY <1>2
<1>4. POOL_BLOCK_SIZE + st - 1 \in Nat
  BY <1>3, Sizing
<1>5. Count(c) \in Nat
  BY <1>3, <1>4, Division DEF Count
<1>6. PoolAllocatorBlock_Init(c) = [i \in 1..Count(c) |-> SegmentAt(c, i)]
  BY DEF PoolAllocatorBlock_Init, Step, Count, SegmentAt
<1> QED
  BY <1>1, <1>2, <1>5, <1>6

LEMMA SegmentIs ==
    /\ \A c \in Pools : \A i \in 1..Count(c) : SegmentAt(c, i) \in Segments
    /\ \A s \in Segments : \E c \in Pools : \E i \in 1..Count(c) : s = SegmentAt(c, i)
<1> DEFINE B(c) == PoolAllocatorBlock_Init(c)
           R(c) == {B(c)[i] : i \in DOMAIN B(c)}
<1>1. Segments = UNION {R(c) : c \in Pools}
  BY DEF Segments
<1>2. ASSUME NEW c \in Pools PROVE R(c) = {SegmentAt(c, i) : i \in 1..Count(c)}
  <2>1. DOMAIN B(c) = 1..Count(c) /\ \A i \in 1..Count(c) : B(c)[i] = SegmentAt(c, i)
    BY Steps
  <2> HIDE DEF B
  <2> QED
    BY <2>1
<1> HIDE DEF R
<1> QED
  BY <1>1, <1>2

LEMMA Factors ==
    ASSUME NEW n \in Nat, n > 0, NEW i \in Nat, NEW j \in Nat, i < j
    PROVE  /\ (i - 1) * n + n <= (j - 1) * n /\ (i - 1) * n /= (j - 1) * n
           /\ (i - 1) * n \in Int /\ (j - 1) * n \in Int
<1>1. PICK d \in Nat : j - 1 = (i - 1) + 1 + d
  <2>1. (j - 1) - i \in Nat /\ j - 1 = (i - 1) + 1 + ((j - 1) - i)
    OBVIOUS
  <2> QED
    BY <2>1
<1>2. PICK m \in Int : m = i - 1
  OBVIOUS
<1>3. (m + 1 + d) * n = m * n + n + d * n /\ d * n \in Nat /\ m * n \in Int
  OBVIOUS
<1> QED
  BY <1>1, <1>2, <1>3

LEMMA SegmentFields ==
    ASSUME NEW c \in Pools, NEW i \in 1..Count(c)
    PROVE  /\ SegmentAt(c, i).sp = <<"pool", c>> /\ SegmentAt(c, i).room = Step(c)
           /\ SegmentAt(c, i).at = (i - 1) * Step(c)
           /\ i \in Nat /\ SegmentAt(c, i).at \in Nat /\ Step(c) \in Nat
<1>1. /\ SegmentAt(c, i).sp = <<"pool", c>> /\ SegmentAt(c, i).room = Step(c)
      /\ SegmentAt(c, i).at = (i - 1) * Step(c)
  BY DEF SegmentAt
<1>2. i \in Nat /\ i - 1 \in Nat
  BY Steps
<1>3. PICK st \in Nat : st = Step(c)
  BY Steps
<1>4. (i - 1) * st \in Nat
  BY <1>2, <1>3
<1> QED
  BY <1>1, <1>2, <1>3, <1>4

(* Segments cut from the pool do not overlap.                              *)
LEMMA SegmentsApart ==
    /\ \A c, d \in Pools : \A i \in 1..Count(c), j \in 1..Count(d) :
         SegmentAt(c, i) = SegmentAt(d, j) => c = d /\ i = j
    /\ \A s, t \in Segments : s /= t => Apart(s, t)
<1>1. ASSUME NEW c \in Pools, NEW i \in 1..Count(c), NEW j \in 1..Count(c), i < j
      PROVE  /\ SegmentAt(c, i).at + SegmentAt(c, i).room <= SegmentAt(c, j).at
             /\ SegmentAt(c, i) /= SegmentAt(c, j)
  <2>1. PICK st \in Nat : st = Step(c) /\ st > 0
    BY Steps
  <2>2. i \in Nat /\ j \in Nat
    BY SegmentFields
  <2>3. (i - 1) * st + st <= (j - 1) * st /\ (i - 1) * st /= (j - 1) * st
    BY <1>1, <2>1, <2>2, Factors
  <2> QED
    BY <2>1, <2>3, SegmentFields
<1>2. ASSUME NEW c \in Pools, NEW d \in Pools, NEW i \in 1..Count(c), NEW j \in 1..Count(d),
             SegmentAt(c, i).sp = SegmentAt(d, j).sp
      PROVE  c = d
  BY <1>2, SegmentFields
<1>3. ASSUME NEW c \in Pools, NEW d \in Pools, NEW i \in 1..Count(c), NEW j \in 1..Count(d),
             SegmentAt(c, i) = SegmentAt(d, j)
      PROVE  c = d /\ i = j
  <2>1. c = d
    BY <1>2, <1>3
  <2>2. i \in Nat /\ j \in Nat /\ ~ (i < j) /\ ~ (j < i)
    BY <1>1, <1>3, <2>1, SegmentFields
  <2> QED
    BY <2>1, <2>2
<1>4. ASSUME NEW s \in Segments, NEW t \in Segments, s /= t, s.sp = t.sp
      PROVE  s.at + s.room <= t.at \/ t.at + t.room <= s.at
  <2>1. PICK c \in Pools : \E i \in 1..Count(c) : s = SegmentAt(c, i)
    BY SegmentIs
  <2>2. PICK i \in 1..Count(c) : s = SegmentAt(c, i)
    BY <2>1
  <2>3. PICK d \in Pools : \E j \in 1..Count(d) : t = SegmentAt(d, j)
    BY SegmentIs
  <2>4. PICK j \in 1..Count(d) : t = SegmentAt(d, j)
    BY <2>3
  <2>5. c = d
    BY <1>2, <1>4, <2>2, <2>4
  <2>6. i /= j /\ i \in Nat /\ j \in Nat
    BY <1>4, <2>2, <2>4, <2>5, SegmentFields
  <2>7. i < j \/ j < i
    BY <2>6
  <2> QED
    BY <1>1, <2>2, <2>4, <2>5, <2>7
<1> QED
  BY <1>3, <1>4 DEF Apart

LEMMA SegmentRooms ==
    ASSUME NEW s \in Segments
    PROVE  s.room \in Nat /\ s.at \in Nat /\ \E c \in Pools : s.sp = <<"pool", c>>
<1>1. PICK c \in Pools : \E i \in 1..Count(c) : s = SegmentAt(c, i)
  BY SegmentIs
<1>2. PICK i \in 1..Count(c) : s = SegmentAt(c, i)
  BY <1>1
<1> QED
  BY <1>2, SegmentFields

LEMMA SegmentsFinite == IsFiniteSet(Segments)
<1> DEFINE R(c) == {SegmentAt(c, i) : i \in 1..Count(c)}
<1>1. ASSUME NEW c \in Pools PROVE IsFiniteSet(R(c))
  <2>1. IsFiniteSet(1..Count(c))
    BY Steps, FS_Interval
  <2> DEFINE f == [i \in 1..Count(c) |-> SegmentAt(c, i)]
  <2>2. R(c) = {f[i] : i \in 1..Count(c)}
    OBVIOUS
  <2>3. f \in [1..Count(c) -> R(c)] /\ \A y \in R(c) : \E x \in 1..Count(c) : f[x] = y
    OBVIOUS
  <2>4. f \in Surjection(1..Count(c), R(c))
    BY <2>3 DEF Surjection
  <2> QED
    BY <2>1, <2>4, FS_Surjection
<1> HIDE DEF R
<1>2. IsFiniteSet(Pools)
  BY Sizing, FS_Interval DEF Pools
<1>3. IsFiniteSet({R(c) : c \in Pools})
  <2> DEFINE U == {R(c) : c \in Pools}
             f == [c \in Pools |-> R(c)]
  <2>1. f \in [Pools -> U] /\ \A y \in U : \E x \in Pools : f[x] = y
    OBVIOUS
  <2>2. f \in Surjection(Pools, U)
    BY <2>1 DEF Surjection
  <2> QED
    BY <1>2, <2>2, FS_Surjection
<1>4. \A T \in {R(c) : c \in Pools} : IsFiniteSet(T)
  BY <1>1
<1>5. IsFiniteSet(UNION {R(c) : c \in Pools})
  BY <1>3, <1>4, FS_UNION
<1>6. Segments \subseteq UNION {R(c) : c \in Pools}
  BY SegmentIs DEF R
<1> QED
  BY <1>5, <1>6, FS_Subset
-----------------------------------------------------------------------------
(* Two moves of a segment: the last of a list goes to a holder, and a      *)
(* holder's one goes to the end of a list.                                 *)
Popped(fr, c, fr2) ==
    /\ c \in Pools /\ Len(fr[c]) > 0
    /\ fr2 = [fr EXCEPT ![c] = SubSeq(@, 1, Len(@) - 1)]
Pushed(fr, c, s, fr2) ==
    c \in Pools /\ s \in Segments /\ fr2 = [fr EXCEPT ![c] = Append(@, s)]
LastOf(q) == q[Len(q)]
With(f, h, b) == [x \in DOMAIN f \cup {h} |-> IF x = h THEN b ELSE f[x]]
Drop(f, h) == [x \in DOMAIN f \ {h} |-> f[x]]

LEMMA Shortened ==
    ASSUME NEW T, NEW q \in Seq(T), Len(q) > 0
    PROVE  LET r == SubSeq(q, 1, Len(q) - 1) IN
           /\ r \in Seq(T) /\ DOMAIN r = 1..Len(q) - 1 /\ DOMAIN q = 1..Len(q)
           /\ Len(q) \in DOMAIN q /\ Len(q) \notin DOMAIN r
           /\ \A i \in DOMAIN r : i \in DOMAIN q /\ r[i] = q[i]
           /\ \A i \in DOMAIN q : i \in DOMAIN r \/ i = Len(q)
OBVIOUS

LEMMA Lengthened ==
    ASSUME NEW T, NEW q \in Seq(T), NEW s \in T
    PROVE  LET r == Append(q, s) IN
           /\ r \in Seq(T) /\ Len(q) + 1 \in DOMAIN r /\ r[Len(q) + 1] = s
           /\ Len(q) + 1 \notin DOMAIN q
           /\ \A i \in DOMAIN q : i \in DOMAIN r /\ r[i] = q[i]
           /\ \A i \in DOMAIN r : i \in DOMAIN q \/ i = Len(q) + 1
OBVIOUS

(* The lists after a pop: all but the last of list c is where it was.      *)
LEMMA PopLists ==
    ASSUME NEW fr, fr \in [Pools -> Seq(Segments)], NEW c, NEW fr2, Popped(fr, c, fr2)
    PROVE  /\ fr2 \in [Pools -> Seq(Segments)]
           /\ Len(fr[c]) \in DOMAIN fr[c] /\ Len(fr[c]) \notin DOMAIN fr2[c]
           /\ \A d \in Pools : \A i \in DOMAIN fr2[d] : i \in DOMAIN fr[d] /\ fr2[d][i] = fr[d][i]
           /\ \A d \in Pools : \A i \in DOMAIN fr[d] :
                 i \in DOMAIN fr2[d] \/ (d = c /\ i = Len(fr[c]))
<1>1. c \in Pools /\ Len(fr[c]) > 0 /\ fr[c] \in Seq(Segments)
  BY DEF Popped
<1>2. PICK r : r = SubSeq(fr[c], 1, Len(fr[c]) - 1)
  OBVIOUS
<1>3. /\ r \in Seq(Segments) /\ Len(fr[c]) \in DOMAIN fr[c] /\ Len(fr[c]) \notin DOMAIN r
      /\ \A i \in DOMAIN r : i \in DOMAIN fr[c] /\ r[i] = fr[c][i]
      /\ \A i \in DOMAIN fr[c] : i \in DOMAIN r \/ i = Len(fr[c])
  BY <1>1, <1>2, Shortened
<1>4. fr2 = [fr EXCEPT ![c] = r]
  BY <1>2 DEF Popped
<1>5. fr2[c] = r /\ \A d \in Pools : d /= c => fr2[d] = fr[d]
  BY <1>1, <1>4
<1>6. fr2 \in [Pools -> Seq(Segments)]
  BY <1>1, <1>3, <1>4
<1>7. ASSUME NEW d \in Pools, NEW i \in DOMAIN fr2[d]
      PROVE  i \in DOMAIN fr[d] /\ fr2[d][i] = fr[d][i]
  BY <1>3, <1>5
<1>8. ASSUME NEW d \in Pools, NEW i \in DOMAIN fr[d]
      PROVE  i \in DOMAIN fr2[d] \/ (d = c /\ i = Len(fr[c]))
  BY <1>3, <1>5
<1> QED
  BY <1>3, <1>5, <1>6, <1>7, <1>8

(* The segment is at place n of list c, and nothing else is new.           *)
Landed(fr, c, s, fr2, n) ==
    /\ n \in DOMAIN fr2[c] /\ n \notin DOMAIN fr[c] /\ fr2[c][n] = s
    /\ \A d \in Pools : \A i \in DOMAIN fr2[d] : i \in DOMAIN fr[d] \/ (d = c /\ i = n)

LEMMA PushLists ==
    ASSUME NEW fr, fr \in [Pools -> Seq(Segments)], NEW c, NEW s, NEW fr2, Pushed(fr, c, s, fr2)
    PROVE  /\ fr2 \in [Pools -> Seq(Segments)]
           /\ \E n : Landed(fr, c, s, fr2, n)
           /\ \A d \in Pools : \A i \in DOMAIN fr[d] : i \in DOMAIN fr2[d] /\ fr2[d][i] = fr[d][i]
<1>1. c \in Pools /\ s \in Segments /\ fr[c] \in Seq(Segments)
  BY DEF Pushed
<1>2. PICK r : r = Append(fr[c], s)
  OBVIOUS
<1>3. /\ r \in Seq(Segments) /\ Len(fr[c]) + 1 \in DOMAIN r /\ Len(fr[c]) + 1 \notin DOMAIN fr[c]
      /\ r[Len(fr[c]) + 1] = s
      /\ \A i \in DOMAIN fr[c] : i \in DOMAIN r /\ r[i] = fr[c][i]
      /\ \A i \in DOMAIN r : i \in DOMAIN fr[c] \/ i = Len(fr[c]) + 1
  BY <1>1, <1>2, Lengthened
<1>4. fr2 = [fr EXCEPT ![c] = r]
  BY <1>2 DEF Pushed
<1>5. fr2[c] = r /\ \A d \in Pools : d /= c => fr2[d] = fr[d]
  BY <1>1, <1>4
<1>6. fr2 \in [Pools -> Seq(Segments)]
  BY <1>1, <1>3, <1>4
<1>7. ASSUME NEW d \in Pools, NEW i \in DOMAIN fr[d]
      PROVE  i \in DOMAIN fr2[d] /\ fr2[d][i] = fr[d][i]
  BY <1>3, <1>5
<1>8. ASSUME NEW d \in Pools, NEW i \in DOMAIN fr2[d]
      PROVE  i \in DOMAIN fr[d] \/ (d = c /\ i = Len(fr[c]) + 1)
  BY <1>3, <1>5
<1>9. Landed(fr, c, s, fr2, Len(fr[c]) + 1)
  BY <1>3, <1>5, <1>8 DEF Landed
<1> QED
  BY <1>6, <1>7, <1>9

LEMMA PopPlaced ==
    ASSUME NEW fr, fr \in [Pools -> Seq(Segments)], NEW c, NEW fr2, Popped(fr, c, fr2),
           NEW ho, Placed(fr, ho), NEW h, h \notin DOMAIN ho
    PROVE  Placed(fr2, With(ho, h, LastOf(fr[c])))
<1> DEFINE n == Len(fr[c])
<1>1. /\ n \in DOMAIN fr[c] /\ n \notin DOMAIN fr2[c] /\ c \in Pools
      /\ \A d \in Pools : \A i \in DOMAIN fr2[d] : i \in DOMAIN fr[d] /\ fr2[d][i] = fr[d][i]
      /\ \A d \in Pools : \A i \in DOMAIN fr[d] : i \in DOMAIN fr2[d] \/ (d = c /\ i = n)
  BY PopLists DEF Popped
<1> HIDE DEF n
<1>2. PICK s : s = LastOf(fr[c])
  OBVIOUS
<1>3. s = fr[c][n]
  BY <1>2 DEF LastOf, n
<1>4. PICK ho2 : ho2 = With(ho, h, s)
  OBVIOUS
<1>5. DOMAIN ho2 = DOMAIN ho \cup {h} /\ ho2[h] = s /\ \A x \in DOMAIN ho : ho2[x] = ho[x]
  BY <1>4 DEF With
<1>6. /\ ListsApart(fr) /\ HoldersApart(ho) /\ FreeOrHeld(fr, ho) /\ NoneLost(fr, ho)
  BY DEF Placed
<1>7. ListsApart(fr2)
  BY <1>1, <1>6 DEF ListsApart
<1>8. HoldersApart(ho2)
  BY <1>1, <1>3, <1>5, <1>6 DEF HoldersApart, FreeOrHeld
<1>9. FreeOrHeld(fr2, ho2)
  <2> SUFFICES ASSUME NEW d \in Pools, NEW i \in DOMAIN fr2[d], NEW x \in DOMAIN ho2
               PROVE  fr2[d][i] /= ho2[x]
    BY DEF FreeOrHeld
  <2>1. CASE x = h
    BY <1>1, <1>3, <1>5, <1>6, <2>1 DEF ListsApart
  <2>2. CASE x \in DOMAIN ho
    BY <1>1, <1>5, <1>6, <2>2 DEF FreeOrHeld
  <2> QED
    BY <1>5, <2>1, <2>2
<1>10. NoneLost(fr2, ho2)
  <2> SUFFICES ASSUME NEW t \in Segments
               PROVE  \/ \E d \in Pools : \E i \in DOMAIN fr2[d] : fr2[d][i] = t
                      \/ \E x \in DOMAIN ho2 : ho2[x] = t
    BY DEF NoneLost
  <2>1. CASE \E x \in DOMAIN ho : ho[x] = t
    BY <1>5, <2>1
  <2>2. CASE \E d \in Pools : \E i \in DOMAIN fr[d] : fr[d][i] = t
    BY <1>1, <1>3, <1>5, <2>2
  <2> QED
    BY <1>6, <2>1, <2>2 DEF NoneLost
<1> QED
  BY <1>2, <1>4, <1>7, <1>8, <1>9, <1>10 DEF Placed

LEMMA PushPlaced ==
    ASSUME NEW fr, fr \in [Pools -> Seq(Segments)], NEW c, NEW fr2,
           NEW ho, Placed(fr, ho), NEW h \in DOMAIN ho, Pushed(fr, c, ho[h], fr2)
    PROVE  Placed(fr2, Drop(ho, h))
<1>1. c \in Pools
  BY DEF Pushed
<1>2. \A d \in Pools : \A i \in DOMAIN fr[d] : i \in DOMAIN fr2[d] /\ fr2[d][i] = fr[d][i]
  BY PushLists
<1>3a. PICK n : Landed(fr, c, ho[h], fr2, n)
  BY PushLists, Zenon
<1>3. /\ n \in DOMAIN fr2[c] /\ n \notin DOMAIN fr[c] /\ fr2[c][n] = ho[h]
      /\ \A d \in Pools : \A i \in DOMAIN fr2[d] : i \in DOMAIN fr[d] \/ (d = c /\ i = n)
  BY <1>3a DEF Landed
<1>4. PICK ho2 : ho2 = Drop(ho, h)
  OBVIOUS
<1>5. DOMAIN ho2 = DOMAIN ho \ {h} /\ \A x \in DOMAIN ho2 : ho2[x] = ho[x]
  BY <1>4 DEF Drop
<1>6. /\ ListsApart(fr) /\ HoldersApart(ho) /\ FreeOrHeld(fr, ho) /\ NoneLost(fr, ho)
  BY DEF Placed
<1>7. ListsApart(fr2)
  <2> SUFFICES ASSUME NEW d \in Pools, NEW e \in Pools, NEW i \in DOMAIN fr2[d],
                      NEW j \in DOMAIN fr2[e], fr2[d][i] = fr2[e][j]
               PROVE  d = e /\ i = j
    BY DEF ListsApart
  <2>1. CASE i \in DOMAIN fr[d] /\ j \in DOMAIN fr[e]
    BY <1>2, <1>6, <2>1 DEF ListsApart
  <2>2. CASE i \in DOMAIN fr[d] /\ (e = c /\ j = n)
    BY <1>2, <1>3, <1>6, <2>2 DEF FreeOrHeld
  <2>3. CASE j \in DOMAIN fr[e] /\ (d = c /\ i = n)
    BY <1>2, <1>3, <1>6, <2>3 DEF FreeOrHeld
  <2> QED
    BY <1>3, <2>1, <2>2, <2>3
<1>8. HoldersApart(ho2)
  BY <1>5, <1>6 DEF HoldersApart
<1>9. FreeOrHeld(fr2, ho2)
  BY <1>2, <1>3, <1>5, <1>6 DEF FreeOrHeld, HoldersApart
<1>10. NoneLost(fr2, ho2)
  <2> SUFFICES ASSUME NEW t \in Segments
               PROVE  \/ \E d \in Pools : \E i \in DOMAIN fr2[d] : fr2[d][i] = t
                      \/ \E x \in DOMAIN ho2 : ho2[x] = t
    BY DEF NoneLost
  <2>1. CASE \E x \in DOMAIN ho : ho[x] = t
    BY <1>1, <1>3, <1>5, <2>1
  <2>2. CASE \E d \in Pools : \E i \in DOMAIN fr[d] : fr[d][i] = t
    BY <1>2, <2>2
  <2> QED
    BY <1>6, <2>1, <2>2 DEF NoneLost
<1> QED
  BY <1>4, <1>7, <1>8, <1>9, <1>10 DEF Placed

(* A block changes hands.                                                  *)
LEMMA RenamePlaced ==
    ASSUME NEW fr, NEW ho, Placed(fr, ho), NEW g \in DOMAIN ho, NEW h, h \notin DOMAIN ho
    PROVE  Placed(fr, With(Drop(ho, g), h, ho[g]))
<1>1. PICK ho2 : ho2 = With(Drop(ho, g), h, ho[g])
  OBVIOUS
<1>2. /\ DOMAIN ho2 = (DOMAIN ho \ {g}) \cup {h} /\ ho2[h] = ho[g]
      /\ \A x \in DOMAIN ho : x /= g => ho2[x] = ho[x]
  BY <1>1 DEF With, Drop
<1>3. /\ ListsApart(fr) /\ HoldersApart(ho) /\ FreeOrHeld(fr, ho) /\ NoneLost(fr, ho)
  BY DEF Placed
<1>4. HoldersApart(ho2)
  BY <1>2, <1>3 DEF HoldersApart
<1>5. FreeOrHeld(fr, ho2)
  BY <1>2, <1>3 DEF FreeOrHeld
<1>6. NoneLost(fr, ho2)
  <2> SUFFICES ASSUME NEW t \in Segments, NEW x \in DOMAIN ho, ho[x] = t
               PROVE  \E y \in DOMAIN ho2 : ho2[y] = t
    BY <1>3 DEF NoneLost
  <2> QED
    BY <1>2
<1> QED
  BY <1>1, <1>3, <1>4, <1>5, <1>6 DEF Placed
-----------------------------------------------------------------------------
(* What the managers do to the heap as a whole.                            *)
LEMMA HoldsWith ==
    ASSUME NEW bl, NEW h, h \notin DOMAIN bl, NEW b
    PROVE  Holds(With(bl, h, b)) =
               IF b.A = "pool" THEN With(Holds(bl), h, b.seg) ELSE Holds(bl)
<1>1. PICK bl2 : bl2 = With(bl, h, b)
  OBVIOUS
<1>2. DOMAIN bl2 = DOMAIN bl \cup {h} /\ bl2[h] = b /\ \A x \in DOMAIN bl : bl2[x] = bl[x]
  BY <1>1 DEF With
<1>3. Holds(bl2) = [x \in {g \in DOMAIN bl2 : bl2[g].A = "pool"} |-> bl2[x].seg]
  BY DEF Holds
<1>4. Holds(bl) = [x \in {g \in DOMAIN bl : bl[g].A = "pool"} |-> bl[x].seg]
  BY DEF Holds
<1>5. CASE b.A = "pool"
  <2>1. With(Holds(bl), h, b.seg) =
          [x \in DOMAIN Holds(bl) \cup {h} |-> IF x = h THEN b.seg ELSE Holds(bl)[x]]
    BY DEF With
  <2>2. {g \in DOMAIN bl2 : bl2[g].A = "pool"} = DOMAIN Holds(bl) \cup {h}
    BY <1>2, <1>4, <1>5
  <2>3. \A x \in DOMAIN Holds(bl) : bl2[x].seg = Holds(bl)[x] /\ x /= h
    BY <1>2, <1>4
  <2>4. Holds(bl2) = With(Holds(bl), h, b.seg)
    BY <1>2, <1>3, <2>1, <2>2, <2>3
  <2> QED
    BY <1>1, <1>5, <2>4
<1>6. CASE b.A /= "pool"
  <2>1. {g \in DOMAIN bl2 : bl2[g].A = "pool"} = {g \in DOMAIN bl : bl[g].A = "pool"}
    BY <1>2, <1>6
  <2> QED
    BY <1>1, <1>2, <1>3, <1>4, <1>6, <2>1
<1> QED
  BY <1>5, <1>6

LEMMA HoldsDrop ==
    ASSUME NEW bl, NEW h \in DOMAIN bl
    PROVE  Holds(Drop(bl, h)) = IF bl[h].A = "pool" THEN Drop(Holds(bl), h) ELSE Holds(bl)
<1>1. PICK bl2 : bl2 = Drop(bl, h)
  OBVIOUS
<1>2. DOMAIN bl2 = DOMAIN bl \ {h} /\ \A x \in DOMAIN bl2 : bl2[x] = bl[x]
  BY <1>1 DEF Drop
<1>3. Holds(bl2) = [x \in {g \in DOMAIN bl2 : bl2[g].A = "pool"} |-> bl2[x].seg]
  BY DEF Holds
<1>4. Holds(bl) = [x \in {g \in DOMAIN bl : bl[g].A = "pool"} |-> bl[x].seg]
  BY DEF Holds
<1>5. CASE bl[h].A = "pool"
  <2>1. Drop(Holds(bl), h) = [x \in DOMAIN Holds(bl) \ {h} |-> Holds(bl)[x]]
    BY DEF Drop
  <2>2. {g \in DOMAIN bl2 : bl2[g].A = "pool"} = DOMAIN Holds(bl) \ {h}
    BY <1>2, <1>4, <1>5
  <2> QED
    BY <1>1, <1>2, <1>3, <1>4, <1>5, <2>1, <2>2
<1>6. CASE bl[h].A /= "pool"
  <2>1. {g \in DOMAIN bl2 : bl2[g].A = "pool"} = {g \in DOMAIN bl : bl[g].A = "pool"}
    BY <1>2, <1>6
  <2> QED
    BY <1>1, <1>2, <1>3, <1>4, <1>6, <2>1
<1> QED
  BY <1>5, <1>6

(* A block that starts where a region ended.                               *)
ArenaGiven(ar, need, seg, ar2) ==
    /\ ar2 \in Seq([size : Nat, current : Nat]) /\ DOMAIN ar \subseteq DOMAIN ar2
    /\ \A r \in DOMAIN ar : ar[r].current <= ar2[r].current
    /\ \E r \in DOMAIN ar2 :
          /\ seg.sp = <<"arena", r>> /\ seg.at \in Nat /\ seg.room \in Nat /\ seg.room >= need
          /\ seg.at + seg.room <= ar2[r].current
          /\ r \in DOMAIN ar => ar[r].current <= seg.at

LEMMA ElementType ==
    ASSUME NEW T, NEW q \in Seq(T), NEW i \in DOMAIN q
    PROVE  q[i] \in T
OBVIOUS

LEMMA RegionType ==
    ASSUME NEW ar \in Seq([size : Nat, current : Nat]), NEW r \in DOMAIN ar
    PROVE  ar[r].size \in Nat /\ ar[r].current \in Nat
<1>1. ar[r] \in [size : Nat, current : Nat]
  BY ElementType, Zenon
<1> QED
  BY <1>1

LEMMA SumBelow ==
    ASSUME NEW a \in Nat, NEW b \in Nat, NEW c \in Nat, NEW d \in Nat, a + b <= c, c <= d
    PROVE  a + b <= d
OBVIOUS

LEMMA BlockGrows ==
    ASSUME NEW ar \in Seq([size : Nat, current : Nat]), NEW need, NEW seg, NEW ar2,
           ArenaGiven(ar, need, seg, ar2), NEW b, BlockOK(b, ar)
    PROVE  BlockOK(b, ar2)
<1>1. CASE b.A = "arena"
  <2>1. PICK r \in DOMAIN ar : /\ b.seg.sp = <<"arena", r>> /\ b.seg.at \in Nat
                               /\ b.seg.room \in Nat /\ b.seg.at + b.seg.room <= ar[r].current
    BY <1>1 DEF BlockOK, ArenaBlock
  <2>2. r \in DOMAIN ar2 /\ ar[r].current <= ar2[r].current
    BY DEF ArenaGiven
  <2>3. ar[r].current \in Nat /\ ar2[r].current \in Nat
    BY <2>2, RegionType DEF ArenaGiven
  <2>4. b.seg.at + b.seg.room <= ar2[r].current
    BY <2>1, <2>2, <2>3, SumBelow
  <2>5. ArenaBlock(b, ar2)
    BY <2>1, <2>2, <2>4 DEF ArenaBlock
  <2> QED
    BY <1>1, <2>5 DEF BlockOK
<1>2. CASE b.A /= "arena"
  BY <1>2 DEF BlockOK
<1> QED
  BY <1>1, <1>2

LEMMA ArenaHeap ==
    ASSUME NEW fr, NEW ar, NEW bl, HeapOK(fr, ar, bl), NEW need, NEW seg, NEW ar2,
           ArenaGiven(ar, need, seg, ar2), NEW h, h \notin DOMAIN bl, NEW b,
           b.A = "arena", b.seg = seg, b.size \in Nat, b.data \in Seq(Nat), need \in Nat,
           Len(b.data) + Meta <= need
    PROVE  HeapOK(fr, ar2, With(bl, h, b))
<1>1. /\ ListsOK(fr) /\ ar \in Seq([size : Nat, current : Nat]) /\ Placed(fr, Holds(bl))
      /\ \A x \in DOMAIN bl : BlockOK(bl[x], ar)
      /\ ArenaApart(bl)
  BY DEF HeapOK
<1>2. PICK r \in DOMAIN ar2 :
          /\ seg.sp = <<"arena", r>> /\ seg.at \in Nat /\ seg.room \in Nat /\ seg.room >= need
          /\ seg.at + seg.room <= ar2[r].current
          /\ r \in DOMAIN ar => ar[r].current <= seg.at
  BY DEF ArenaGiven
<1>3. PICK bl2 : bl2 = With(bl, h, b)
  OBVIOUS
<1>4. DOMAIN bl2 = DOMAIN bl \cup {h} /\ bl2[h] = b /\ \A x \in DOMAIN bl : bl2[x] = bl[x]
  BY <1>3 DEF With
<1>5. BlockOK(b, ar2)
  <2>1. Len(b.data) + Meta <= b.seg.room
    BY <1>2, Sizing
  <2>2. ArenaBlock(b, ar2)
    BY <1>2 DEF ArenaBlock
  <2> QED
    BY <2>1, <2>2 DEF BlockOK, Managers
<1>6. \A x \in DOMAIN bl2 : BlockOK(bl2[x], ar2)
  BY <1>1, <1>4, <1>5, BlockGrows
<1>7. Holds(bl2) = Holds(bl)
  BY <1>3, HoldsWith
<1>8. ASSUME NEW x \in DOMAIN bl, bl[x].A = "arena" PROVE Apart(seg, bl[x].seg) /\ Apart(bl[x].seg, seg)
  <2>1. PICK q \in DOMAIN ar : /\ bl[x].seg.sp = <<"arena", q>> /\ bl[x].seg.at \in Nat
                               /\ bl[x].seg.room \in Nat
                               /\ bl[x].seg.at + bl[x].seg.room <= ar[q].current
    BY <1>1, <1>8 DEF BlockOK, ArenaBlock
  <2>2. ar[q].current \in Nat
    BY <1>1, RegionType
  <2>3. seg.sp = bl[x].seg.sp => bl[x].seg.at + bl[x].seg.room <= seg.at
    <3>1. SUFFICES ASSUME seg.sp = bl[x].seg.sp PROVE bl[x].seg.at + bl[x].seg.room <= seg.at
      OBVIOUS
    <3>2. q = r
      BY <1>2, <2>1, <3>1
    <3> QED
      BY <1>2, <2>1, <2>2, <3>2
  <2> QED
    BY <2>3 DEF Apart
<1>9. ArenaApart(bl2)
  BY <1>1, <1>4, <1>8 DEF ArenaApart
<1>10. ar2 \in Seq([size : Nat, current : Nat])
  BY DEF ArenaGiven
<1> QED
  BY <1>1, <1>3, <1>6, <1>7, <1>9, <1>10 DEF HeapOK

LEMMA DefaultHeap ==
    ASSUME NEW fr, NEW ar, NEW bl, HeapOK(fr, ar, bl), NEW h, h \notin DOMAIN bl, NEW b,
           b.A = "default", b.size \in Nat, b.data \in Seq(Nat), NEW need \in Nat,
           b.seg = [sp |-> <<"system", 0>>, at |-> 0, room |-> need],
           Len(b.data) + Meta <= need
    PROVE  HeapOK(fr, ar, With(bl, h, b))
<1>1. /\ ListsOK(fr) /\ ar \in Seq([size : Nat, current : Nat]) /\ Placed(fr, Holds(bl))
      /\ \A x \in DOMAIN bl : BlockOK(bl[x], ar)
      /\ ArenaApart(bl)
  BY DEF HeapOK
<1>3. PICK bl2 : bl2 = With(bl, h, b)
  OBVIOUS
<1>4. DOMAIN bl2 = DOMAIN bl \cup {h} /\ bl2[h] = b /\ \A x \in DOMAIN bl : bl2[x] = bl[x]
  BY <1>3 DEF With
<1>5. BlockOK(b, ar)
  <2>1. b.seg.room = need
    OBVIOUS
  <2> QED
    BY <2>1 DEF BlockOK, Managers
<1>6. \A x \in DOMAIN bl2 : BlockOK(bl2[x], ar)
  BY <1>1, <1>4, <1>5
<1>7. Holds(bl2) = Holds(bl)
  BY <1>3, HoldsWith
<1>9. ArenaApart(bl2)
  BY <1>1, <1>4 DEF ArenaApart
<1> QED
  BY <1>1, <1>3, <1>6, <1>7, <1>9 DEF HeapOK

(* The pool gives the last segment of the list of the class; the metadata  *)
(* may say less than was asked for.                                        *)
LEMMA PoolHeap ==
    ASSUME NEW fr, NEW ar, NEW bl, HeapOK(fr, ar, bl), NEW n \in Nat, NEW fr2,
           Popped(fr, PoolClass(n + Meta), fr2), NEW h, h \notin DOMAIN bl, NEW b,
           b.A = "pool", b.seg = LastOf(fr[PoolClass(n + Meta)]), b.data \in Seq(Nat),
           b.size \in Nat, b.size <= n, Len(b.data) <= n
    PROVE  HeapOK(fr2, ar, With(bl, h, b))
<1>1. /\ ListsOK(fr) /\ ar \in Seq([size : Nat, current : Nat]) /\ Placed(fr, Holds(bl))
      /\ \A x \in DOMAIN bl : BlockOK(bl[x], ar)
      /\ ArenaApart(bl)
  BY DEF HeapOK
<1>2. PICK c : c = PoolClass(n + Meta)
  OBVIOUS
<1>2a. c \in Pools /\ Popped(fr, c, fr2) /\ fr \in [Pools -> Seq(Segments)]
  BY <1>1, <1>2 DEF Popped, ListsOK
<1>3. PICK bl2 : bl2 = With(bl, h, b)
  OBVIOUS
<1>4. DOMAIN bl2 = DOMAIN bl \cup {h} /\ bl2[h] = b /\ \A x \in DOMAIN bl : bl2[x] = bl[x]
  BY <1>3 DEF With
<1>5. /\ fr2 \in [Pools -> Seq(Segments)] /\ Len(fr[c]) \in DOMAIN fr[c]
      /\ \A d \in Pools : \A i \in DOMAIN fr2[d] : i \in DOMAIN fr[d] /\ fr2[d][i] = fr[d][i]
  BY <1>2a, PopLists, SMTT(40)
<1>6. ListsOK(fr2)
  BY <1>1, <1>5 DEF ListsOK
<1>7. b.seg \in Segments /\ ClassSize(c) + Meta <= b.seg.room
  <2>1. b.seg = fr[c][Len(fr[c])]
    BY <1>2 DEF LastOf
  <2>2. fr[c][Len(fr[c])] \in Segments
    BY <1>2a, <1>5
  <2> QED
    BY <1>1, <1>2a, <1>5, <2>1, <2>2 DEF ListsOK
<1>8. BlockOK(b, ar)
  <2>1. b.seg.room \in Nat
    BY <1>7, SegmentRooms
  <2>2. n + Meta \in Nat /\ b.size + Meta \in Nat /\ b.size + Meta <= n + Meta
    BY Sizing
  <2>3. PICK d : d = PoolClass(b.size + Meta)
    OBVIOUS
  <2>4. d <= c
    BY <1>2, <2>2, <2>3, PoolClassMonotone
  <2>5. d \in Nat /\ c \in Nat /\ ClassSize(c) >= n + Meta
    <3>1. IsClass(c, n + Meta) /\ IsClass(d, b.size + Meta)
      BY <1>2, <2>2, <2>3, PoolClassIs
    <3>2. c <= NUMBER_OF_POOLS
      BY <1>2a, Sizing DEF Pools
    <3> QED
      BY <3>1, <3>2 DEF IsClass
  <2>6. ClassSize(d) <= ClassSize(c) /\ ClassSize(d) \in Nat /\ ClassSize(c) \in Nat
    BY <2>4, <2>5, ClassSizes
  <2>7. d \in Pools
    BY <1>2a, <2>4, <2>5, Sizing DEF Pools
  <2>8. PoolBlock(b)
    BY <1>7, <2>1, <2>3, <2>6, <2>7, Sizing DEF PoolBlock
  <2>9. Len(b.data) + Meta <= b.seg.room
    BY <1>7, <2>1, <2>5, <2>6, Sizing
  <2> QED
    BY <2>8, <2>9 DEF BlockOK, Managers
<1>9. \A x \in DOMAIN bl2 : BlockOK(bl2[x], ar)
  BY <1>1, <1>4, <1>8
<1>10. h \notin DOMAIN Holds(bl)
  BY DEF Holds
<1>11. Placed(fr2, Holds(bl2))
  <2>1. Holds(bl2) = With(Holds(bl), h, b.seg)
    BY <1>3, HoldsWith
  <2>2. Placed(fr2, With(Holds(bl), h, LastOf(fr[c])))
    BY <1>1, <1>2a, <1>10, PopPlaced
  <2> QED
    BY <1>2, <2>1, <2>2
<1>12. ArenaApart(bl2)
  BY <1>1, <1>4 DEF ArenaApart
<1> QED
  BY <1>1, <1>3, <1>6, <1>9, <1>11, <1>12 DEF HeapOK

(* A block is given back: a segment of the pool to the list of the class   *)
(* that its metadata says.                                                 *)
LEMMA ReleaseHeap ==
    ASSUME NEW fr, NEW ar, NEW bl, HeapOK(fr, ar, bl), NEW h \in DOMAIN bl
    PROVE  HeapOK(Released(bl[h], fr), ar, Drop(bl, h))
<1>1. /\ ListsOK(fr) /\ ar \in Seq([size : Nat, current : Nat]) /\ Placed(fr, Holds(bl))
      /\ \A x \in DOMAIN bl : BlockOK(bl[x], ar)
      /\ ArenaApart(bl)
  BY DEF HeapOK
<1>2. PICK bl2 : bl2 = Drop(bl, h)
  OBVIOUS
<1>3. DOMAIN bl2 = DOMAIN bl \ {h} /\ \A x \in DOMAIN bl2 : bl2[x] = bl[x]
  BY <1>2 DEF Drop
<1>4. (\A x \in DOMAIN bl2 : BlockOK(bl2[x], ar)) /\ ArenaApart(bl2)
  BY <1>1, <1>3 DEF ArenaApart
<1>5. PICK b : b = bl[h]
  OBVIOUS
<1>6. BlockOK(b, ar)
  BY <1>1, <1>5
<1>7. PICK fr2 : fr2 = Released(b, fr)
  OBVIOUS
<1>8. CASE b.A = "pool"
  <2>1. PICK c : c = PoolClass(b.size + Meta)
    OBVIOUS
  <2>2. c \in Pools /\ b.seg \in Segments /\ ClassSize(c) + Meta <= b.seg.room
    BY <1>6, <1>8, <2>1 DEF BlockOK, PoolBlock
  <2>3. fr2 = [fr EXCEPT ![c] = Append(@, b.seg)]
    BY <1>7, <1>8, <2>1 DEF Released, Deallocated, PoolAllocator_dealloc
  <2>4. Pushed(fr, c, b.seg, fr2)
    BY <2>2, <2>3 DEF Pushed
  <2>5. fr \in [Pools -> Seq(Segments)]
    BY <1>1 DEF ListsOK
  <2>6. /\ fr2 \in [Pools -> Seq(Segments)]
        /\ \A d \in Pools : \A i \in DOMAIN fr[d] : i \in DOMAIN fr2[d] /\ fr2[d][i] = fr[d][i]
    BY <2>4, <2>5, PushLists
  <2>7a. PICK n : Landed(fr, c, b.seg, fr2, n)
    BY <2>4, <2>5, PushLists, Zenon
  <2>7. /\ n \in DOMAIN fr2[c] /\ n \notin DOMAIN fr[c] /\ fr2[c][n] = b.seg
        /\ \A d \in Pools : \A i \in DOMAIN fr2[d] : i \in DOMAIN fr[d] \/ (d = c /\ i = n)
    BY <2>7a DEF Landed
  <2>8. ListsOK(fr2)
    BY <1>1, <2>2, <2>6, <2>7 DEF ListsOK
  <2>9. h \in DOMAIN Holds(bl) /\ Holds(bl)[h] = b.seg
    BY <1>5, <1>8 DEF Holds
  <2>10. Holds(bl2) = Drop(Holds(bl), h)
    BY <1>2, <1>5, <1>8, HoldsDrop
  <2>11. Placed(fr2, Holds(bl2))
    BY <1>1, <2>4, <2>5, <2>9, <2>10, PushPlaced
  <2> QED
    BY <1>1, <1>2, <1>4, <1>5, <1>7, <2>8, <2>11 DEF HeapOK
<1>9. CASE b.A /= "pool"
  <2>1. fr2 = fr
    BY <1>6, <1>7, <1>9 DEF BlockOK, Managers, Released, Deallocated, defaultDealloc,
                            ArenaAllocator_dealloc
  <2>2. Holds(bl2) = Holds(bl)
    BY <1>2, <1>5, <1>9, HoldsDrop
  <2> QED
    BY <1>1, <1>2, <1>4, <1>5, <1>7, <2>1, <2>2 DEF HeapOK
<1> QED
  BY <1>8, <1>9

(* A block changes hands.                                                  *)
LEMMA RenameHeap ==
    ASSUME NEW fr, NEW ar, NEW bl, HeapOK(fr, ar, bl), NEW g \in DOMAIN bl,
           NEW h, h \notin DOMAIN bl
    PROVE  HeapOK(fr, ar, With(Drop(bl, g), h, bl[g]))
<1>1. /\ ListsOK(fr) /\ ar \in Seq([size : Nat, current : Nat]) /\ Placed(fr, Holds(bl))
      /\ \A x \in DOMAIN bl : BlockOK(bl[x], ar)
      /\ ArenaApart(bl)
  BY DEF HeapOK
<1>2. PICK bl1 : bl1 = Drop(bl, g)
  OBVIOUS
<1>3. PICK bl2 : bl2 = With(bl1, h, bl[g])
  OBVIOUS
<1>4. h \notin DOMAIN bl1
  BY <1>2 DEF Drop
<1>5. /\ DOMAIN bl2 = (DOMAIN bl \ {g}) \cup {h} /\ bl2[h] = bl[g]
      /\ \A x \in DOMAIN bl : x /= g => bl2[x] = bl[x]
  BY <1>2, <1>3 DEF With, Drop
<1>6. (\A x \in DOMAIN bl2 : BlockOK(bl2[x], ar)) /\ ArenaApart(bl2)
  BY <1>1, <1>5 DEF ArenaApart
<1>7. Placed(fr, Holds(bl2))
  <2>1. CASE bl[g].A = "pool"
    <3>1. Holds(bl1) = Drop(Holds(bl), g)
      BY <1>2, <2>1, HoldsDrop
    <3>2. Holds(bl2) = With(Holds(bl1), h, bl[g].seg)
      BY <1>3, <1>4, <2>1, HoldsWith
    <3>3. g \in DOMAIN Holds(bl) /\ Holds(bl)[g] = bl[g].seg /\ h \notin DOMAIN Holds(bl)
      BY <2>1 DEF Holds
    <3> QED
      BY <1>1, <3>1, <3>2, <3>3, RenamePlaced
  <2>2. CASE bl[g].A /= "pool"
    <3>1. Holds(bl1) = Holds(bl)
      BY <1>2, <2>2, HoldsDrop
    <3>2. Holds(bl2) = Holds(bl1)
      BY <1>3, <1>4, <2>2, HoldsWith
    <3> QED
      BY <1>1, <3>1, <3>2
  <2> QED
    BY <2>1, <2>2
<1> QED
  BY <1>1, <1>2, <1>3, <1>6, <1>7 DEF HeapOK

(* A block stays where it is, and something in it changes.                 *)
LEMMA ReplaceHeap ==
    ASSUME NEW fr, NEW ar, NEW bl, HeapOK(fr, ar, bl), NEW h \in DOMAIN bl,
           NEW b, BlockOK(b, ar), b.A = bl[h].A, b.seg = bl[h].seg
    PROVE  HeapOK(fr, ar, With(bl, h, b))
<1>1. /\ ListsOK(fr) /\ ar \in Seq([size : Nat, current : Nat]) /\ Placed(fr, Holds(bl))
      /\ \A x \in DOMAIN bl : BlockOK(bl[x], ar)
      /\ ArenaApart(bl)
  BY DEF HeapOK
<1>2. PICK bl2 : bl2 = With(bl, h, b)
  OBVIOUS
<1>3. /\ DOMAIN bl2 = DOMAIN bl /\ bl2[h] = b
      /\ \A x \in DOMAIN bl : x /= h => bl2[x] = bl[x]
  BY <1>2 DEF With
<1>4. \A x \in DOMAIN bl2 : BlockOK(bl2[x], ar)
  BY <1>1, <1>3
<1>5. ArenaApart(bl2)
  BY <1>1, <1>3 DEF ArenaApart
<1>6. Holds(bl2) = Holds(bl)
  <2>1. {g \in DOMAIN bl2 : bl2[g].A = "pool"} = {g \in DOMAIN bl : bl[g].A = "pool"}
    BY <1>3
  <2>2. \A x \in DOMAIN bl : bl2[x].seg = bl[x].seg
    BY <1>3
  <2> QED
    BY <2>1, <2>2 DEF Holds
<1> QED
  BY <1>1, <1>2, <1>4, <1>5, <1>6 DEF HeapOK
-----------------------------------------------------------------------------
(* What the managers answer to a request for n bytes and the metadata.     *)
Given(A, n, t) ==
    /\ t.res \in {"ok", "null", "wild"} /\ t = Answer(t.res, t.seg, t.free, t.arena)
    /\ t.res /= "ok" => t.free = free /\ t.arena = arena
    /\ t.res = "ok" /\ A = "default" =>
          /\ t.free = free /\ t.arena = arena
          /\ t.seg = [sp |-> <<"system", 0>>, at |-> 0, room |-> n + Meta]
    /\ t.res = "ok" /\ A = "arena" =>
          t.free = free /\ ArenaGiven(arena, n + Meta, t.seg, t.arena)
    /\ t.res = "ok" /\ A = "pool" =>
          /\ t.arena = arena /\ Popped(free, PoolClass(n + Meta), t.free)
          /\ t.seg = LastOf(free[PoolClass(n + Meta)])

LEMMA AnswerFields ==
    ASSUME NEW res, NEW seg, NEW fr, NEW ar
    PROVE  /\ Answer(res, seg, fr, ar).res = res /\ Answer(res, seg, fr, ar).seg = seg
           /\ Answer(res, seg, fr, ar).free = fr /\ Answer(res, seg, fr, ar).arena = ar
BY DEF Answer

LEMMA ArenaFrom ==
    ASSUME NEW ar \in Seq([size : Nat, current : Nat]), NEW r \in DOMAIN ar, NEW need \in Nat
    PROVE  LET ar2 == [ar EXCEPT ![r].current = @ + need] IN
           /\ ar2 \in Seq([size : Nat, current : Nat]) /\ DOMAIN ar2 = DOMAIN ar
           /\ ar2[r].current = ar[r].current + need
           /\ \A q \in DOMAIN ar : q /= r => ar2[q] = ar[q]
<1>1. ar[r] \in [size : Nat, current : Nat]
  BY ElementType, Zenon
<1>2. PICK x : x = [ar[r] EXCEPT !.current = @ + need]
  OBVIOUS
<1>3. x \in [size : Nat, current : Nat] /\ x.current = ar[r].current + need
  BY <1>1, <1>2
<1>4. PICK R : R = [size : Nat, current : Nat]
  OBVIOUS
<1>5. PICK ar2 : ar2 = [ar EXCEPT ![r] = x]
  OBVIOUS
<1>6. ar \in Seq(R) /\ x \in R
  BY <1>3, <1>4
<1>7. ar2 \in Seq(R) /\ DOMAIN ar2 = DOMAIN ar /\ ar2[r] = x /\ \A q \in DOMAIN ar : q /= r => ar2[q] = ar[q]
  BY <1>5, <1>6
<1>8. ar2 = [ar EXCEPT ![r].current = @ + need]
  BY <1>2, <1>5
<1> QED
  BY <1>3, <1>4, <1>7, <1>8

LEMMA ArenaMore ==
    ASSUME NEW T, NEW ar \in Seq(T), NEW x \in T
    PROVE  LET ar2 == Append(ar, x) IN
           /\ ar2 \in Seq(T) /\ DOMAIN ar \subseteq DOMAIN ar2
           /\ Len(ar) + 1 \in DOMAIN ar2 /\ Len(ar) + 1 \notin DOMAIN ar /\ ar2[Len(ar) + 1] = x
           /\ \A q \in DOMAIN ar : ar2[q] = ar[q]
OBVIOUS

LEMMA ArenaGives ==
    ASSUME NEW n \in Nat, arena \in Seq([size : Nat, current : Nat])
    PROVE  Given("arena", n, ArenaAllocator_alloc(n + Meta))
<1> DEFINE size == n + Meta
           need == ((size + Word - 1) \div Word) * Word
           fits == {r \in DOMAIN arena : arena[r].size - arena[r].current > need}
           first == CHOOSE r \in fits : \A q \in fits : r <= q
           t == ArenaAllocator_alloc(n + Meta)
<1>1. size \in Nat
  BY Sizing
<1>2. need \in Nat /\ need >= size
  BY <1>1, Sizing, Division
<1>3. CASE fits = {}
  <2>1. t = Answer("ok", [sp |-> <<"arena", Len(arena) + 1>>, at |-> 0, room |-> need], free,
                   Append(arena, [size |-> Larger(ArenaSize, need), current |-> need]))
    BY <1>3 DEF ArenaAllocator_alloc
  <2> HIDE DEF t, need, fits
  <2>2. PICK x : x = [size |-> Larger(ArenaSize, need), current |-> need]
    OBVIOUS
  <2>3. x \in [size : Nat, current : Nat] /\ x.current = need
    BY <1>2, <2>2, Sizing DEF Larger
  <2>4. PICK seg : seg = [sp |-> <<"arena", Len(arena) + 1>>, at |-> 0, room |-> need]
    OBVIOUS
  <2>5. seg.sp = <<"arena", Len(arena) + 1>> /\ seg.at = 0 /\ seg.room = need
    BY <2>4
  <2>6. PICK ar2 : ar2 = Append(arena, x)
    OBVIOUS
  <2>7. /\ ar2 \in Seq([size : Nat, current : Nat]) /\ DOMAIN arena \subseteq DOMAIN ar2
        /\ Len(arena) + 1 \in DOMAIN ar2 /\ Len(arena) + 1 \notin DOMAIN arena
        /\ ar2[Len(arena) + 1] = x /\ \A q \in DOMAIN arena : ar2[q] = arena[q]
    BY <2>3, <2>6, ArenaMore
  <2>8. ArenaGiven(arena, n + Meta, seg, ar2)
    <3>1. \A r \in DOMAIN arena : arena[r].current <= ar2[r].current
      BY <2>7, RegionType, SMTT(40)
    <3> QED
      BY <1>2, <2>3, <2>5, <2>7, <3>1 DEF ArenaGiven
  <2>9. t = Answer("ok", seg, free, ar2)
    BY <2>1, <2>2, <2>4, <2>6
  <2>10. t.res = "ok" /\ t.seg = seg /\ t.free = free /\ t.arena = ar2
    BY <2>9, AnswerFields
  <2> QED
    BY <2>8, <2>9, <2>10 DEF Given, t
<1>4. CASE fits /= {}
  <2>1. first \in fits
    <3>1. fits \subseteq Nat
      OBVIOUS
    <3>2. \E r \in fits : \A q \in fits : r <= q
      BY <1>4, <3>1, NatLeast
    <3> QED
      BY <3>2, Zenon
  <2>2. t = Answer("ok", [sp |-> <<"arena", first>>, at |-> arena[first].current, room |-> need],
                   free, [arena EXCEPT ![first].current = @ + need])
    BY <1>4 DEF ArenaAllocator_alloc
  <2>3. PICK r : r = first
    OBVIOUS
  <2>4. r \in DOMAIN arena
    BY <2>1, <2>3
  <2> HIDE DEF t, need, fits, first
  <2>5. PICK ar2 : ar2 = [arena EXCEPT ![r].current = @ + need]
    OBVIOUS
  <2>6. /\ ar2 \in Seq([size : Nat, current : Nat]) /\ DOMAIN ar2 = DOMAIN arena
        /\ ar2[r].current = arena[r].current + need
        /\ \A q \in DOMAIN arena : q /= r => ar2[q] = arena[q]
    BY <1>2, <2>4, <2>5, ArenaFrom
  <2>7. PICK seg : seg = [sp |-> <<"arena", r>>, at |-> arena[r].current, room |-> need]
    OBVIOUS
  <2>8. seg.sp = <<"arena", r>> /\ seg.at = arena[r].current /\ seg.room = need
    BY <2>7
  <2>9. \A q \in DOMAIN arena : arena[q].current \in Nat
    BY RegionType
  <2>10. ArenaGiven(arena, n + Meta, seg, ar2)
    <3>1. \A q \in DOMAIN arena : arena[q].current <= ar2[q].current
      <4> SUFFICES ASSUME NEW q \in DOMAIN arena PROVE arena[q].current <= ar2[q].current
        OBVIOUS
      <4>1. arena[q].current \in Nat
        BY <2>9
      <4>2. ar2[q].current = arena[q].current + need \/ ar2[q].current = arena[q].current
        BY <2>6
      <4> QED
        BY <1>2, <4>1, <4>2
    <3>2. seg.at + seg.room <= ar2[r].current /\ seg.at \in Nat /\ seg.room \in Nat
          /\ seg.room >= n + Meta /\ arena[r].current <= seg.at
      BY <1>2, <2>4, <2>6, <2>8, <2>9, SMTT(40)
    <3> QED
      BY <2>4, <2>6, <2>8, <3>1, <3>2 DEF ArenaGiven
  <2>11. t = Answer("ok", seg, free, ar2)
    BY <2>2, <2>3, <2>5, <2>7
  <2>12. t.res = "ok" /\ t.seg = seg /\ t.free = free /\ t.arena = ar2
    BY <2>11, AnswerFields
  <2> QED
    BY <2>10, <2>11, <2>12 DEF Given, t
<1> QED
  BY <1>3, <1>4

LEMMA PoolGives ==
    ASSUME NEW n \in Nat, free \in [Pools -> Seq(Segments)]
    PROVE  Given("pool", n, PoolAllocator_alloc(n + Meta))
<1>1. PICK size : size = n + Meta
  OBVIOUS
<1>2. size \in Nat /\ size > 0 /\ ClassSize(NUMBER_OF_POOLS) \in Nat
  BY <1>1, Sizing, ClassSizes
<1>3. PICK c : c = PoolClass(size)
  OBVIOUS
<1>4. PICK t : t = PoolAllocator_alloc(size)
  OBVIOUS
<1>5. PICK fr2 : fr2 = [free EXCEPT ![c] = SubSeq(@, 1, Len(@) - 1)]
  OBVIOUS
<1> DEFINE p1 == size = 0 \/ size >= ClassSize(NUMBER_OF_POOLS)
           p2 == 0 < size /\ size < ClassSize(NUMBER_OF_POOLS) /\ c \notin Pools
           p3 == c \in Pools /\ free[c] = <<>>
           p4 == c \in Pools /\ free[c] /= <<>>
           e1 == Answer("null", Nowhere, free, arena)
           e2 == Answer("wild", Nowhere, free, arena)
           e4 == Answer("ok", free[c][Len(free[c])], fr2, arena)
<1>6. t = CASE p1 -> e1 [] p2 -> e2 [] p3 -> e1 [] p4 -> e4
  BY <1>3, <1>4, <1>5, Zenon DEF PoolAllocator_alloc
<1>7. p1 \/ p2 \/ p3 \/ p4
  BY <1>2
<1>7a. p1 \in BOOLEAN /\ p2 \in BOOLEAN /\ p3 \in BOOLEAN /\ p4 \in BOOLEAN
  OBVIOUS
<1> HIDE DEF p1, p2, p3, p4, e1, e2, e4
<1>8. t = e1 \/ t = e2 \/ (p4 /\ t = e4)
  BY <1>6, <1>7, <1>7a, SMT
<1>9. CASE t = e1 \/ t = e2
  BY <1>1, <1>4, <1>9, AnswerFields DEF Given, e1, e2
<1>10. CASE p4 /\ t = e4
  <2>1. /\ t.res = "ok" /\ t.seg = free[c][Len(free[c])] /\ t.free = fr2 /\ t.arena = arena
        /\ t = Answer("ok", free[c][Len(free[c])], fr2, arena)
    BY <1>10, AnswerFields DEF e4
  <2>2. c \in Pools /\ free[c] /= <<>> /\ free[c] \in Seq(Segments)
    BY <1>10 DEF p4
  <2>3. Len(free[c]) > 0
    BY <2>2
  <2>4. Popped(free, c, fr2)
    BY <1>5, <2>2, <2>3 DEF Popped
  <2> QED
    BY <1>1, <1>3, <1>4, <2>1, <2>4 DEF Given, LastOf
<1> QED
  BY <1>8, <1>9, <1>10

LEMMA AllocatedGives ==
    ASSUME NEW n \in Nat, free \in [Pools -> Seq(Segments)],
           arena \in Seq([size : Nat, current : Nat]), NEW A \in Managers
    PROVE  Given(A, n, Allocated(A, n + Meta))
<1>1. CASE A = "default"
  <2>1. Allocated(A, n + Meta) = defaultAlloc(n + Meta)
    BY <1>1 DEF Allocated
  <2>2. PICK t : t = defaultAlloc(n + Meta)
    OBVIOUS
  <2>3. /\ t.res = "ok" /\ t.free = free /\ t.arena = arena
        /\ t.seg = [sp |-> <<"system", 0>>, at |-> 0, room |-> n + Meta]
        /\ t = Answer(t.res, t.seg, t.free, t.arena)
    BY <2>2, AnswerFields DEF defaultAlloc
  <2> QED
    BY <1>1, <2>1, <2>2, <2>3 DEF Given
<1>2. CASE A = "arena"
  BY <1>2, ArenaGives DEF Allocated
<1>3. CASE A = "pool"
  BY <1>3, PoolGives DEF Allocated
<1> QED
  BY <1>1, <1>2, <1>3 DEF Managers
-----------------------------------------------------------------------------
(* Allocation and reallocation keep the heap in order.                     *)
LEMMA FunctionIsSeq ==
    ASSUME NEW n \in Nat, NEW f, f \in [1..n -> Nat]
    PROVE  f \in Seq(Nat) /\ Len(f) = n
OBVIOUS

LEMMA KeepIs ==
    ASSUME NEW d \in Seq(Nat), NEW k \in Int, NEW n \in Nat
    PROVE  /\ Keep(d, k, n) \in Seq(Nat) /\ Len(Keep(d, k, n)) = n
           /\ \A i \in 1..n : i <= k /\ i <= Len(d) => Keep(d, k, n)[i] = d[i]
<1>1. \A i \in 1..n : i <= k /\ i <= Len(d) => d[i] \in Nat
  OBVIOUS
<1>2. Keep(d, k, n) \in [1..n -> Nat]
  BY <1>1 DEF Keep, Junk
<1>3. \A i \in 1..n : i <= k /\ i <= Len(d) => Keep(d, k, n)[i] = d[i]
  BY DEF Keep
<1> QED
  BY <1>2, <1>3, FunctionIsSeq

LEMMA BlankIs ==
    ASSUME NEW n \in Nat
    PROVE  /\ Blank(n) \in Seq(Nat) /\ Len(Blank(n)) = n
           /\ Filled(n) \in Seq(Nat) /\ Len(Filled(n)) = n
<1>1. Blank(n) \in [1..n -> Nat] /\ Filled(n) \in [1..n -> Nat]
  BY DEF Blank, Filled, Junk
<1> QED
  BY <1>1, FunctionIsSeq

LEMMA BlockFields ==
    ASSUME NEW A, NEW seg, NEW size, NEW data
    PROVE  /\ Block(A, seg, size, data).A = A /\ Block(A, seg, size, data).seg = seg
           /\ Block(A, seg, size, data).size = size /\ Block(A, seg, size, data).data = data
BY DEF Block

(* The lists fr may differ from free, where another manager gives.         *)
LEMMA AllocHeap ==
    ASSUME NEW fr, NEW bl, HeapOK(fr, arena, bl), NEW A \in Managers, A = "pool" => fr = free,
           NEW n \in Nat, NEW t, Given(A, n, t), t.res = "ok", NEW h, h \notin DOMAIN bl,
           NEW sz \in Nat, sz <= n, NEW data \in Seq(Nat), Len(data) <= n
    PROVE  HeapOK(IF A = "pool" THEN t.free ELSE fr, t.arena, With(bl, h, Block(A, t.seg, sz, data)))
<1>1. PICK b : b = Block(A, t.seg, sz, data)
  OBVIOUS
<1>2. b.A = A /\ b.seg = t.seg /\ b.size = sz /\ b.data = data
  BY <1>1, BlockFields
<1>3. PICK need : need = n + Meta
  OBVIOUS
<1>4. need \in Nat /\ Len(b.data) + Meta <= need
  BY <1>2, <1>3, Sizing
<1>5. CASE A = "default"
  <2>1. t.arena = arena /\ b.seg = [sp |-> <<"system", 0>>, at |-> 0, room |-> need]
    BY <1>2, <1>3, <1>5 DEF Given
  <2>2. b.A = "default" /\ b.size \in Nat /\ b.data \in Seq(Nat)
    BY <1>2, <1>5
  <2>3. HeapOK(fr, arena, With(bl, h, b))
    BY <1>4, <2>1, <2>2, DefaultHeap
  <2> QED
    BY <1>1, <1>5, <2>1, <2>3
<1>6. CASE A = "arena"
  <2>1. ArenaGiven(arena, need, t.seg, t.arena)
    BY <1>3, <1>6 DEF Given
  <2>2. b.A = "arena" /\ b.size \in Nat /\ b.data \in Seq(Nat)
    BY <1>2, <1>6
  <2>3. HeapOK(fr, t.arena, With(bl, h, b))
    BY <1>2, <1>4, <2>1, <2>2, ArenaHeap
  <2> QED
    BY <1>1, <1>6, <2>3
<1>7. CASE A = "pool"
  <2>1. t.arena = arena /\ Popped(fr, PoolClass(n + Meta), t.free)
        /\ b.seg = LastOf(fr[PoolClass(n + Meta)])
    BY <1>2, <1>7 DEF Given
  <2>2. b.A = "pool" /\ b.size \in Nat /\ b.data \in Seq(Nat) /\ b.size <= n /\ Len(b.data) <= n
    BY <1>2, <1>7
  <2>3. HeapOK(t.free, arena, With(bl, h, b))
    BY <2>1, <2>2, PoolHeap
  <2> QED
    BY <1>1, <1>7, <2>1, <2>3
<1> QED
  BY <1>5, <1>6, <1>7 DEF Managers

LEMMA WithDrop ==
    ASSUME NEW f, NEW h, NEW b
    PROVE  /\ With(Drop(f, h), h, b) = With(f, h, b)
           /\ h \notin DOMAIN Drop(f, h)
<1>1. PICK g : g = Drop(f, h)
  OBVIOUS
<1>2. DOMAIN g = DOMAIN f \ {h} /\ \A x \in DOMAIN g : g[x] = f[x]
  BY <1>1 DEF Drop
<1>3. DOMAIN g \cup {h} = DOMAIN f \cup {h}
  BY <1>2
<1>4. With(g, h, b) = With(f, h, b)
  BY <1>2, <1>3 DEF With
<1> QED
  BY <1>1, <1>2, <1>4

(* What Allocator_reAlloc promises the holder h of a block: the heap stays *)
(* in order, and of the contents there remains what the sizes in the       *)
(* metadata have in common.                                                *)
Kept(d, size, n, e) ==
    /\ e \in Seq(Nat) /\ Len(e) = n
    /\ \A i \in 1..n : i <= size /\ i <= Len(d) => e[i] = d[i]
Renewed(h, A, n, t) ==
    /\ t.res \in {"ok", "null", "wild"}
    /\ t.res /= "ok" => t.free = free /\ t.arena = arena
    /\ t.res = "ok" =>
          /\ HeapOK(t.free, t.arena, With(blocks, h, t.block))
          /\ t.block.A = A /\ t.block.size = n /\ t.block.data \in Seq(Nat)
          /\ Len(t.block.data) = n
          /\ h \in DOMAIN blocks => Kept(blocks[h].data, blocks[h].size, n, t.block.data)
          /\ t.block = Block(A, t.block.seg, n, t.block.data)

LEMMA RenewedNew ==
    ASSUME HeapOK(free, arena, blocks), NEW A \in Managers, NEW n \in Nat,
           NEW h, h \notin DOMAIN blocks
    PROVE  Renewed(h, A, n, ReAllocated(h, A, n))
<1>1. PICK s : s = Allocated(A, n + Meta)
  OBVIOUS
<1>2. Given(A, n, s)
  <2>1. free \in [Pools -> Seq(Segments)] /\ arena \in Seq([size : Nat, current : Nat])
    BY DEF HeapOK, ListsOK
  <2> QED
    BY <1>1, <2>1, AllocatedGives
<1>3. PICK t : t = ReAllocated(h, A, n)
  OBVIOUS
<1>4. PICK b : b = Block(A, s.seg, n, Blank(n))
  OBVIOUS
<1>5. t.res = s.res /\ t.free = s.free /\ t.arena = s.arena /\ t.block = b
  BY <1>1, <1>3, <1>4 DEF ReAllocated
<1>6. Blank(n) \in Seq(Nat) /\ Len(Blank(n)) = n /\ n <= n
  BY BlankIs
<1>7. b.A = A /\ b.size = n /\ b.data = Blank(n) /\ b.seg = s.seg
  BY <1>4, BlockFields
<1>8. ASSUME s.res = "ok" PROVE HeapOK(s.free, s.arena, With(blocks, h, b))
  <2>1. HeapOK(IF A = "pool" THEN s.free ELSE free, s.arena, With(blocks, h, b))
    BY <1>2, <1>4, <1>6, <1>8, AllocHeap
  <2>2. A /= "pool" => s.free = free
    BY <1>2, <1>8 DEF Given, Managers
  <2> QED
    BY <2>1, <2>2
<1> QED
  BY <1>2, <1>3, <1>4, <1>5, <1>6, <1>7, <1>8 DEF Renewed, Given

LEMMA SmallerIs ==
    ASSUME NEW a \in Int, NEW b \in Int
    PROVE  Smaller(a, b) \in {a, b} /\ Smaller(a, b) <= a /\ Smaller(a, b) <= b
BY DEF Smaller

(* The block moved or stayed; what is kept are k bytes or more.            *)
LEMMA RenewedFrom ==
    ASSUME NEW A, NEW n \in Nat, NEW h \in DOMAIN blocks, NEW t, NEW k \in Int,
           blocks[h].data \in Seq(Nat), blocks[h].size \in Nat,
           k >= n \/ k >= blocks[h].size, t.res = "ok",
           NEW seg, t.block = Block(A, seg, n, Keep(blocks[h].data, k, n)),
           HeapOK(t.free, t.arena, With(blocks, h, t.block))
    PROVE  Renewed(h, A, n, t)
<1>1. PICK d : d = Keep(blocks[h].data, k, n)
  OBVIOUS
<1>2. /\ d \in Seq(Nat) /\ Len(d) = n
      /\ \A i \in 1..n : i <= k /\ i <= Len(blocks[h].data) => d[i] = blocks[h].data[i]
  BY <1>1, KeepIs
<1>3. /\ t.block.A = A /\ t.block.size = n /\ t.block.data = d /\ t.block.seg = seg
  BY <1>1, BlockFields
<1>4. \A i \in 1..n : i <= blocks[h].size => i <= k
  OBVIOUS
<1>5. Kept(blocks[h].data, blocks[h].size, n, d)
  BY <1>2, <1>4 DEF Kept
<1> QED
  BY <1>1, <1>2, <1>3, <1>5 DEF Renewed

LEMMA RenewedOld ==
    ASSUME HeapOK(free, arena, blocks), NEW A \in Managers, NEW n \in Nat,
           NEW h \in DOMAIN blocks, A = blocks[h].A
    PROVE  Renewed(h, A, n, ReAllocated(h, A, n))
<1>1. PICK b : b = blocks[h]
  OBVIOUS
<1>2. PICK r : r = NewSegment(A, b.seg, b.size + Meta, n + Meta)
  OBVIOUS
<1>3. PICK t : t = ReAllocated(h, A, n)
  OBVIOUS
<1>4. /\ t.res = r[1].res /\ t.free = r[1].free /\ t.arena = r[1].arena
      /\ t.block = Block(A, r[1].seg, n, Keep(b.data, r[2] - Meta, n))
  BY <1>1, <1>2, <1>3 DEF ReAllocated
<1>5. BlockOK(b, arena)
  BY <1>1 DEF HeapOK
<1>6. b.size \in Nat /\ b.data \in Seq(Nat) /\ b.A = A
  BY <1>1, <1>5 DEF BlockOK
<1>7. free \in [Pools -> Seq(Segments)] /\ arena \in Seq([size : Nat, current : Nat])
  BY DEF HeapOK, ListsOK
<1>8. HeapOK(Released(b, free), arena, Drop(blocks, h))
  BY <1>1, ReleaseHeap
<1>9. PICK bl : bl = Drop(blocks, h)
  OBVIOUS
<1>10. h \notin DOMAIN bl /\ \A x : With(bl, h, x) = With(blocks, h, x)
  BY <1>9, WithDrop
<1>11. A /= "pool" => Released(b, free) = free
  BY <1>6 DEF Managers, Released, Deallocated, defaultDealloc, ArenaAllocator_dealloc
<1>12. PICK orig : orig = b.size + Meta
  OBVIOUS
<1>13. PICK size : size = n + Meta
  OBVIOUS
<1>14. orig \in Nat /\ size \in Nat /\ orig - Meta = b.size /\ size - Meta = n
  BY <1>6, <1>12, <1>13, Sizing
<1>15. Smaller(orig, size) \in {orig, size}
  BY <1>14, SmallerIs
<1>16. ASSUME NEW k, k \in {orig, size}, NEW d, d = Keep(b.data, k - Meta, n)
       PROVE  d \in Seq(Nat) /\ Len(d) = n /\ k - Meta \in Int
              /\ (k - Meta >= n \/ k - Meta >= b.size)
  BY <1>6, <1>14, <1>16, KeepIs
<1>20. CASE A = "default"
  <2>1. r = <<Answer("ok", [b.seg EXCEPT !.room = size], free, arena), size>>
    BY <1>2, <1>13, <1>20 DEF NewSegment, defaultReAlloc
  <2>2. PICK seg : seg = [b.seg EXCEPT !.room = size]
    OBVIOUS
  <2>3. seg = [sp |-> <<"system", 0>>, at |-> 0, room |-> size]
    <3>1. b.seg = [sp |-> <<"system", 0>>, at |-> 0, room |-> b.seg.room]
      BY <1>5, <1>6, <1>20 DEF BlockOK
    <3>2. PICK ro : ro = b.seg.room
      OBVIOUS
    <3>3. b.seg = [sp |-> <<"system", 0>>, at |-> 0, room |-> ro]
      BY <3>1, <3>2
    <3> QED
      BY <2>2, <3>3
  <2>4. /\ r[1].res = "ok" /\ r[1].seg = seg /\ r[1].free = free /\ r[1].arena = arena
        /\ r[2] = size
    BY <2>1, <2>2, AnswerFields
  <2>5. PICK d : d = Keep(b.data, size - Meta, n)
    OBVIOUS
  <2>6. d \in Seq(Nat) /\ Len(d) = n
    BY <1>16, <2>5
  <2>7. PICK nb : nb = Block(A, seg, n, d)
    OBVIOUS
  <2>8. nb.A = "default" /\ nb.seg = seg /\ nb.size = n /\ nb.data = d
    BY <1>20, <2>7, BlockFields
  <2>9. HeapOK(free, arena, bl)
    BY <1>8, <1>9, <1>11, <1>20
  <2>10. Len(d) + Meta <= size
    BY <1>13, <1>14, <2>6, Sizing
  <2>11. HeapOK(free, arena, With(bl, h, nb))
    BY <1>10, <1>14, <2>3, <2>6, <2>8, <2>9, <2>10, DefaultHeap
  <2>12. t.res = "ok" /\ t.block = Block(A, seg, n, Keep(b.data, size - Meta, n))
         /\ HeapOK(t.free, t.arena, With(blocks, h, t.block))
    BY <1>4, <1>10, <2>4, <2>5, <2>7, <2>11
  <2>13. size - Meta \in Int /\ (size - Meta >= n \/ size - Meta >= b.size)
    BY <1>14
  <2> QED
    BY <1>1, <1>3, <1>6, <2>12, <2>13, RenewedFrom
<1>21. CASE A = "arena"
  <2>1. PICK s : s = ArenaAllocator_alloc(n + Meta)
    OBVIOUS
  <2>2. r = <<s, Smaller(orig, size)>>
    BY <1>2, <1>12, <1>13, <1>21, <2>1 DEF NewSegment, ArenaAllocator_reAlloc
  <2>3. Given(A, n, s)
    BY <1>7, <1>21, <2>1, ArenaGives
  <2>4. PICK k : k = Smaller(orig, size)
    OBVIOUS
  <2>5. PICK d : d = Keep(b.data, k - Meta, n)
    OBVIOUS
  <2>6. d \in Seq(Nat) /\ Len(d) = n /\ k - Meta \in Int
        /\ (k - Meta >= n \/ k - Meta >= b.size)
    BY <1>15, <1>16, <2>4, <2>5
  <2>7. HeapOK(free, arena, bl)
    BY <1>8, <1>9, <1>11, <1>21
  <2>8. CASE s.res = "ok"
    <3>1. n <= n /\ Len(d) <= n
      BY <2>6
    <3>2. HeapOK(free, s.arena, With(bl, h, Block(A, s.seg, n, d)))
      BY <1>10, <1>21, <2>3, <2>6, <2>7, <2>8, <3>1, AllocHeap
    <3>3. s.free = free
      BY <1>21, <2>3, <2>8 DEF Given
    <3>4. /\ t.res = "ok" /\ t.block = Block(A, s.seg, n, Keep(b.data, k - Meta, n))
          /\ HeapOK(t.free, t.arena, With(blocks, h, t.block))
      BY <1>4, <1>10, <2>2, <2>4, <2>5, <2>8, <3>2, <3>3
    <3> QED
      BY <1>1, <1>3, <1>6, <2>6, <3>4, RenewedFrom
  <2>9. CASE s.res /= "ok"
    <3>1. s.res \in {"ok", "null", "wild"} /\ s.free = free /\ s.arena = arena
      BY <2>3, <2>9 DEF Given
    <3>2. t.res = s.res /\ t.free = s.free /\ t.arena = s.arena
      BY <1>4, <2>2
    <3> QED
      BY <1>3, <2>9, <3>1, <3>2 DEF Renewed
  <2> QED
    BY <2>8, <2>9
<1>22. CASE A = "pool"
  <2>1. PICK s : s = PoolAllocator_alloc(n + Meta)
    OBVIOUS
  <2>2. Given(A, n, s)
    BY <1>7, <1>22, <2>1, PoolGives
  <2>3. PoolBlock(b)
    BY <1>5, <1>6, <1>22 DEF BlockOK
  <2>4. CASE PoolClass(orig) = PoolClass(size)
    <3>1. r = <<Answer("ok", b.seg, free, arena), size>>
      BY <1>2, <1>12, <1>13, <1>22, <2>4 DEF NewSegment, PoolAllocator_reAlloc
    <3>2. /\ r[1].res = "ok" /\ r[1].seg = b.seg /\ r[1].free = free /\ r[1].arena = arena
          /\ r[2] = size
      BY <3>1, AnswerFields
    <3>3. PICK d : d = Keep(b.data, size - Meta, n)
      OBVIOUS
    <3>4. d \in Seq(Nat) /\ Len(d) = n
      BY <1>16, <3>3
    <3>5. PICK nb : nb = Block(A, b.seg, n, d)
      OBVIOUS
    <3>6. nb.A = A /\ nb.seg = b.seg /\ nb.size = n /\ nb.data = d
      BY <3>5, BlockFields
    <3>7. PoolBlock(nb)
      BY <1>12, <1>13, <2>3, <2>4, <3>6 DEF PoolBlock
    <3>8. Len(d) + Meta <= b.seg.room
      <4>1. PICK c : c = PoolClass(size)
        OBVIOUS
      <4>2. c \in Nat /\ ClassSize(c) >= size
        BY <1>12, <1>14, <2>3, <2>4, <4>1, PoolClassIs, Sizing DEF IsClass, PoolBlock, Pools
      <4>3. ClassSize(c) + Meta <= b.seg.room /\ b.seg \in Segments
        BY <1>12, <2>3, <2>4, <4>1 DEF PoolBlock
      <4>4. b.seg.room \in Nat /\ ClassSize(c) \in Nat
        BY <4>2, <4>3, SegmentRooms, ClassSizes
      <4> QED
        BY <1>13, <1>14, <3>4, <4>2, <4>3, <4>4, Sizing
    <3>9. BlockOK(nb, arena)
      BY <1>22, <3>4, <3>6, <3>7, <3>8 DEF BlockOK
    <3>10. HeapOK(free, arena, With(blocks, h, nb))
      BY <1>1, <1>6, <3>6, <3>9, ReplaceHeap
    <3>11. t.res = "ok" /\ t.block = Block(A, b.seg, n, Keep(b.data, size - Meta, n))
           /\ HeapOK(t.free, t.arena, With(blocks, h, t.block))
      BY <1>4, <3>2, <3>3, <3>5, <3>10
    <3>12. size - Meta \in Int /\ (size - Meta >= n \/ size - Meta >= b.size)
      BY <1>14
    <3> QED
      BY <1>1, <1>3, <1>6, <3>11, <3>12, RenewedFrom
  <2>5. CASE PoolClass(orig) /= PoolClass(size) /\ s.res /= "ok"
    <3>1. r = <<s, Smaller(orig, size)>>
      BY <1>2, <1>12, <1>13, <1>22, <2>1, <2>5 DEF NewSegment, PoolAllocator_reAlloc
    <3>2. s.res \in {"ok", "null", "wild"} /\ s.free = free /\ s.arena = arena
      BY <2>2, <2>5 DEF Given
    <3>3. t.res = s.res /\ t.free = s.free /\ t.arena = s.arena
      BY <1>4, <3>1
    <3> QED
      BY <1>3, <2>5, <3>2, <3>3 DEF Renewed
  <2>6. CASE PoolClass(orig) /= PoolClass(size) /\ s.res = "ok"
    <3>1. r = <<[s EXCEPT !.free = PoolAllocator_dealloc(b.seg, orig, @)], Smaller(orig, size)>>
      BY <1>2, <1>12, <1>13, <1>22, <2>1, <2>6 DEF NewSegment, PoolAllocator_reAlloc
    <3>2. PICK fr2 : fr2 = PoolAllocator_dealloc(b.seg, orig, s.free)
      OBVIOUS
    <3>3. fr2 = Released(b, s.free)
      BY <1>6, <1>12, <1>22, <3>2 DEF Released, Deallocated
    <3>4. PICK q : q = [s EXCEPT !.free = fr2]
      OBVIOUS
    <3>5. q.res = "ok" /\ q.free = fr2 /\ q.arena = s.arena /\ q.seg = s.seg
      <4>1. s = Answer(s.res, s.seg, s.free, s.arena)
        BY <2>2 DEF Given
      <4>2. PICK s1, s2, s3, s4 : s = Answer(s1, s2, s3, s4)
        BY <4>1
      <4>3. q = Answer(s1, s2, fr2, s4)
        BY <3>4, <4>2 DEF Answer
      <4> QED
        BY <2>6, <4>2, <4>3, AnswerFields
    <3>6. r = <<q, Smaller(orig, size)>>
      BY <3>1, <3>2, <3>4
    <3>7. PICK k : k = Smaller(orig, size)
      OBVIOUS
    <3>8. PICK d : d = Keep(b.data, k - Meta, n)
      OBVIOUS
    <3>9. d \in Seq(Nat) /\ Len(d) = n /\ k - Meta \in Int
          /\ (k - Meta >= n \/ k - Meta >= b.size)
      BY <1>15, <1>16, <3>7, <3>8
    <3>10. PICK tmp : tmp \notin DOMAIN blocks
      BY NoSetContainsEverything
    <3>11. PICK nb : nb = Block(A, s.seg, n, d)
      OBVIOUS
    <3>12. PICK bl1 : bl1 = With(blocks, tmp, nb)
      OBVIOUS
    <3>13. HeapOK(s.free, s.arena, bl1)
      <4>1. n <= n /\ Len(d) <= n
        BY <3>9
      <4>2. HeapOK(IF A = "pool" THEN s.free ELSE free, s.arena,
                   With(blocks, tmp, Block(A, s.seg, n, d)))
        BY <2>2, <2>6, <3>9, <3>10, <4>1, AllocHeap
      <4> QED
        BY <1>22, <3>11, <3>12, <4>2
    <3>14. DOMAIN bl1 = DOMAIN blocks \cup {tmp} /\ bl1[tmp] = nb
           /\ \A x \in DOMAIN blocks : bl1[x] = blocks[x]
      BY <3>10, <3>12 DEF With
    <3>15. PICK bl2 : bl2 = Drop(bl1, h)
      OBVIOUS
    <3>16. HeapOK(fr2, s.arena, bl2)
      BY <1>1, <3>3, <3>13, <3>14, <3>15, ReleaseHeap
    <3>17. DOMAIN bl2 = (DOMAIN blocks \cup {tmp}) \ {h} /\ bl2[tmp] = nb
           /\ \A x \in DOMAIN blocks : x /= h => bl2[x] = blocks[x]
      BY <3>10, <3>14, <3>15 DEF Drop
    <3>18. HeapOK(fr2, s.arena, With(Drop(bl2, tmp), h, nb))
      BY <3>10, <3>16, <3>17, RenameHeap
    <3>19. With(Drop(bl2, tmp), h, nb) = With(blocks, h, nb)
      <4>1. PICK bl3 : bl3 = Drop(bl2, tmp)
        OBVIOUS
      <4>2. DOMAIN bl3 = DOMAIN blocks \ {h} /\ \A x \in DOMAIN bl3 : bl3[x] = blocks[x]
        BY <3>10, <3>17, <4>1 DEF Drop
      <4>3. DOMAIN bl3 \cup {h} = DOMAIN blocks \cup {h}
        BY <4>2
      <4>4. With(bl3, h, nb) = With(blocks, h, nb)
        BY <4>2, <4>3 DEF With
      <4> QED
        BY <4>1, <4>4
    <3>20. /\ t.res = "ok" /\ t.block = Block(A, s.seg, n, Keep(b.data, k - Meta, n))
           /\ HeapOK(t.free, t.arena, With(blocks, h, t.block))
      BY <1>4, <3>5, <3>6, <3>7, <3>8, <3>11, <3>18, <3>19
    <3> QED
      BY <1>1, <1>3, <1>6, <3>9, <3>20, RenewedFrom
  <2> QED
    BY <2>4, <2>5, <2>6
<1> QED
  BY <1>20, <1>21, <1>22 DEF Managers
-----------------------------------------------------------------------------
(* The other clients.  A step of one leaves the heap in order, the blocks  *)
(* of all others as they were, and its own contents.                       *)
SameContents(b, c) ==
    Len(b.data) = b.size =>
        \A i \in 1..Smaller(Len(b.data), Len(c.data)) :
            b.data[i] /= Junk => c.data[i] = b.data[i]
Others(h) ==
    \A x : x /= h => /\ x \in DOMAIN blocks' <=> x \in DOMAIN blocks
                     /\ x \in DOMAIN blocks => blocks'[x] = blocks[x]
ClientStep(h) ==
    /\ HeapOK(free', arena', blocks')
    /\ Others(h)
    /\ h \in DOMAIN blocks /\ h \in DOMAIN blocks' => SameContents(blocks[h], blocks'[h])

LEMMA SameRefl == ASSUME NEW b PROVE SameContents(b, b)
BY DEF SameContents

LEMMA StepWith ==
    ASSUME NEW h, NEW b, HeapOK(free', arena', With(blocks, h, b)), blocks' = With(blocks, h, b),
           h \in DOMAIN blocks => SameContents(blocks[h], b)
    PROVE  ClientStep(h)
<1>1. /\ DOMAIN blocks' = DOMAIN blocks \cup {h} /\ blocks'[h] = b
      /\ \A x \in DOMAIN blocks : x /= h => blocks'[x] = blocks[x]
  BY DEF With
<1>2. Others(h)
  BY <1>1 DEF Others
<1> QED
  BY <1>1, <1>2 DEF ClientStep

LEMMA StepNone ==
    ASSUME NEW h, HeapOK(free, arena, blocks), UNCHANGED <<free, arena, blocks>>
    PROVE  ClientStep(h)
BY SameRefl DEF ClientStep, Others

LEMMA KeptSame ==
    ASSUME NEW b, b.data \in Seq(Nat), b.size \in Nat, NEW n \in Nat, NEW c,
           Kept(b.data, b.size, n, c.data)
    PROVE  SameContents(b, c)
<1> SUFFICES ASSUME Len(b.data) = b.size, NEW i \in 1..Smaller(Len(b.data), Len(c.data))
             PROVE  c.data[i] = b.data[i]
  BY DEF SameContents
<1>1. Len(c.data) = n /\ \A j \in 1..n : j <= b.size /\ j <= Len(b.data) => c.data[j] = b.data[j]
  BY DEF Kept
<1>2. i \in 1..n /\ i <= Len(b.data)
  BY <1>1 DEF Smaller
<1> QED
  BY <1>1, <1>2

LEMMA HeapTypes ==
    ASSUME HeapOK(free, arena, blocks)
    PROVE  /\ free \in [Pools -> Seq(Segments)] /\ arena \in Seq([size : Nat, current : Nat])
           /\ \A h \in DOMAIN blocks :
                 blocks[h].A \in Managers /\ blocks[h].size \in Nat /\ blocks[h].data \in Seq(Nat)
BY DEF HeapOK, ListsOK, BlockOK

(* An allocation of n bytes, of which the metadata says sz.                *)
LEMMA AllocStep ==
    ASSUME HeapOK(free, arena, blocks), NEW h, h \notin DOMAIN blocks, NEW A \in Managers,
           NEW n \in Nat, NEW sz \in Nat, sz <= n, NEW t, Given(A, n, t),
           free' = t.free, arena' = t.arena,
           blocks' = IF t.res = "ok" THEN Put(h, Block(A, t.seg, sz, Filled(n))) ELSE blocks
    PROVE  ClientStep(h)
<1>1. CASE t.res = "ok"
  <2>1. PICK b : b = Block(A, t.seg, sz, Filled(n))
    OBVIOUS
  <2>2. Filled(n) \in Seq(Nat) /\ Len(Filled(n)) <= n
    BY BlankIs
  <2>3. HeapOK(IF A = "pool" THEN t.free ELSE free, t.arena, With(blocks, h, b))
    BY <1>1, <2>1, <2>2, AllocHeap
  <2>4. A /= "pool" => t.free = free
    BY <1>1 DEF Given, Managers
  <2>5. HeapOK(free', arena', With(blocks, h, b))
    BY <2>3, <2>4
  <2>6. blocks' = With(blocks, h, b)
    BY <1>1, <2>1 DEF Put, With
  <2> QED
    BY <2>5, <2>6, StepWith
<1>2. CASE t.res /= "ok"
  <2>1. t.free = free /\ t.arena = arena
    BY <1>2 DEF Given
  <2> QED
    BY <1>2, <2>1, StepNone
<1> QED
  BY <1>1, <1>2

LEMMA Allocator_allocStep ==
    ASSUME HeapOK(free, arena, blocks), NEW h, NEW A \in Managers, NEW n \in Int,
           Allocator_alloc(h, A, n)
    PROVE  ClientStep(h)
<1>1. n \in Nat /\ h \notin DOMAIN blocks
  BY DEF Allocator_alloc
<1>2. PICK t : t = Allocated(A, n + Meta)
  OBVIOUS
<1>3. Given(A, n, t)
  BY <1>1, <1>2, HeapTypes, AllocatedGives
<1>4. /\ free' = t.free /\ arena' = t.arena
      /\ blocks' = IF t.res = "ok" THEN Put(h, Block(A, t.seg, n, Filled(n))) ELSE blocks
  BY <1>2 DEF Allocator_alloc
<1>5. n <= n
  BY <1>1
<1> QED
  BY <1>1, <1>3, <1>4, <1>5, AllocStep

LEMMA Allocator_cAllocStep ==
    ASSUME HeapOK(free, arena, blocks), NEW h, NEW A \in Managers, NEW size \in Nat,
           Allocator_cAlloc(h, A, size, 2)
    PROVE  ClientStep(h)
<1>1. h \notin DOMAIN blocks
  BY DEF Allocator_cAlloc
<1>2. PICK n \in Nat : n = size * 2
  OBVIOUS
<1>3. PICK t : t = Allocated(A, n + Meta)
  OBVIOUS
<1>4. CAllocated(A, 1, n + Meta) = t
  <2>1. 1 * (n + Meta) = n + Meta
    BY Sizing
  <2> QED
    BY <1>3, <2>1 DEF CAllocated, Allocated, defaultCAlloc, ArenaAllocator_cAlloc,
                      PoolAllocator_cAlloc, Managers
<1>5. Given(A, n, t)
  BY <1>3, HeapTypes, AllocatedGives
<1>6. /\ free' = t.free /\ arena' = t.arena
      /\ blocks' = IF t.res = "ok" THEN Put(h, Block(A, t.seg, size, Filled(n))) ELSE blocks
  BY <1>2, <1>4 DEF Allocator_cAlloc
<1>7. size <= n
  BY <1>2
<1> QED
  BY <1>1, <1>5, <1>6, <1>7, AllocStep

LEMMA Allocator_reAllocStep ==
    ASSUME HeapOK(free, arena, blocks), NEW h, NEW n \in Nat, Allocator_reAlloc(h, n)
    PROVE  ClientStep(h)
<1>1. h \in DOMAIN blocks
  BY DEF Allocator_reAlloc
<1>2. PICK A : A = blocks[h].A
  OBVIOUS
<1>3. PICK t : t = ReAllocated(h, A, n)
  OBVIOUS
<1>4. A \in Managers /\ blocks[h].size \in Nat /\ blocks[h].data \in Seq(Nat)
  BY <1>1, <1>2, HeapTypes
<1>5. Renewed(h, A, n, t)
  BY <1>1, <1>2, <1>3, <1>4, RenewedOld
<1>6. /\ free' = t.free /\ arena' = t.arena
      /\ blocks' = IF t.res = "ok" THEN Put(h, t.block) ELSE blocks
  BY <1>2, <1>3 DEF Allocator_reAlloc
<1>7. CASE t.res = "ok"
  <2>1. PICK b : b = t.block
    OBVIOUS
  <2>2. HeapOK(free', arena', With(blocks, h, b))
    BY <1>5, <1>6, <1>7, <2>1 DEF Renewed
  <2>3. blocks' = With(blocks, h, b)
    BY <1>6, <1>7, <2>1 DEF Put, With
  <2>4. Kept(blocks[h].data, blocks[h].size, n, b.data)
    BY <1>1, <1>5, <1>7, <2>1 DEF Renewed
  <2>5. SameContents(blocks[h], b)
    BY <1>4, <2>4, KeptSame
  <2> QED
    BY <2>2, <2>3, <2>5, StepWith
<1>8. CASE t.res /= "ok"
  BY <1>5, <1>6, <1>8, StepNone DEF Renewed
<1> QED
  BY <1>7, <1>8

LEMMA ReleaseStep ==
    ASSUME HeapOK(free, arena, blocks), NEW h \in DOMAIN blocks,
           free' = Released(blocks[h], free), blocks' = Without(h), UNCHANGED arena
    PROVE  ClientStep(h)
<1>1. Without(h) = Drop(blocks, h)
  BY DEF Without, Drop
<1>2. HeapOK(free', arena', blocks')
  BY <1>1, ReleaseHeap
<1>3. DOMAIN blocks' = DOMAIN blocks \ {h} /\ \A x \in DOMAIN blocks' : blocks'[x] = blocks[x]
  BY <1>1 DEF Drop
<1>4. Others(h)
  BY <1>3 DEF Others
<1> QED
  BY <1>2, <1>3, <1>4 DEF ClientStep

LEMMA Allocator_deallocStep ==
    ASSUME HeapOK(free, arena, blocks), NEW h, Allocator_dealloc(h)
    PROVE  ClientStep(h)
BY ReleaseStep DEF Allocator_dealloc

LEMMA Allocator_relocateStep ==
    ASSUME HeapOK(free, arena, blocks), NEW h, NEW A \in Managers, NEW size \in Nat,
           Allocator_relocate(h, A, size)
    PROVE  ClientStep(h)
<1>1. h \in DOMAIN blocks /\ blocks[h].A /= A
  BY DEF Allocator_relocate
<1>2. PICK b : b = blocks[h]
  OBVIOUS
<1>3. b.A \in Managers /\ b.size \in Nat /\ b.data \in Seq(Nat)
  BY <1>1, <1>2, HeapTypes
<1>4. PICK n : n = Smaller(b.size, size)
  OBVIOUS
<1>5. n \in Nat
  BY <1>3, <1>4 DEF Smaller
<1>6. PICK t : t = Allocated(A, n + Meta)
  OBVIOUS
<1>7. Given(A, n, t)
  BY <1>5, <1>6, HeapTypes, AllocatedGives
<1>8. PICK d : d = Keep(b.data, n, n)
  OBVIOUS
<1>9. /\ d \in Seq(Nat) /\ Len(d) = n /\ n <= n
      /\ \A i \in 1..n : i <= n /\ i <= Len(b.data) => d[i] = b.data[i]
  BY <1>3, <1>5, <1>8, KeepIs
<1>10. PICK nb : nb = Block(A, t.seg, n, d)
  OBVIOUS
<1>11. /\ free' = (IF t.res = "ok" THEN Released(b, t.free) ELSE t.free) /\ arena' = t.arena
       /\ blocks' = IF t.res = "ok" THEN Put(h, nb) ELSE blocks
  BY <1>2, <1>4, <1>6, <1>8, <1>10 DEF Allocator_relocate
<1>12. CASE t.res = "ok"
  <2>1. PICK fr : fr = Released(b, free)
    OBVIOUS
  <2>2. PICK bl : bl = Drop(blocks, h)
    OBVIOUS
  <2>3. HeapOK(fr, arena, bl)
    BY <1>1, <1>2, <2>1, <2>2, ReleaseHeap
  <2>4. h \notin DOMAIN bl /\ With(bl, h, nb) = With(blocks, h, nb)
    BY <2>2, WithDrop
  <2>5. b.A /= "pool" => \A f : Released(b, f) = f
    BY <1>3 DEF Managers, Released, Deallocated, defaultDealloc, ArenaAllocator_dealloc
  <2>6. A = "pool" => fr = free
    BY <1>1, <1>2, <2>1, <2>5
  <2>7. Len(d) <= n
    BY <1>9
  <2>8. HeapOK(IF A = "pool" THEN t.free ELSE fr, t.arena, With(bl, h, nb))
    BY <1>5, <1>7, <1>9, <1>10, <1>12, <2>3, <2>4, <2>6, <2>7, AllocHeap
  <2>9. (IF A = "pool" THEN t.free ELSE fr) = Released(b, t.free)
    <3>1. CASE A = "pool"
      BY <1>1, <1>2, <2>5, <3>1
    <3>2. CASE A /= "pool"
      <4>1. t.free = free
        BY <1>7, <1>12, <3>2 DEF Given, Managers
      <4> QED
        BY <2>1, <3>2, <4>1
    <3> QED
      BY <3>1, <3>2
  <2>10. HeapOK(free', arena', With(blocks, h, nb))
    BY <1>11, <1>12, <2>4, <2>8, <2>9
  <2>11. blocks' = With(blocks, h, nb)
    BY <1>11, <1>12 DEF Put, With
  <2>12. SameContents(blocks[h], nb)
    <3>1. nb.data = d
      BY <1>10, BlockFields
    <3>2. SUFFICES ASSUME Len(b.data) = b.size, NEW i \in 1..Smaller(Len(b.data), Len(d))
                   PROVE  d[i] = b.data[i]
      BY <1>2, <3>1 DEF SameContents
    <3>3. i \in 1..n /\ i <= n /\ i <= Len(b.data)
      BY <1>3, <1>4, <1>5, <1>9 DEF Smaller
    <3> QED
      BY <1>9, <3>3
  <2> QED
    BY <2>10, <2>11, <2>12, StepWith
<1>13. CASE t.res /= "ok"
  BY <1>7, <1>11, <1>13, StepNone DEF Given
<1> QED
  BY <1>12, <1>13

(* How the program goes on behind an answer.                               *)
LEMMA OutcomesAre ==
    /\ \A res, seg, n : \A o \in Outcomes(res, seg, n) : o \in {"ok", "wild"}
    /\ \A seg, n : \A o \in Outcomes("wild", seg, n) : o = "wild"
BY DEF Outcomes

(* Every step of the clients is one of a holder other than the vector.     *)
LEMMA ClientsStep ==
    ASSUME HeapOK(free, arena, blocks), Clients
    PROVE  /\ \E h \in Handles : ClientStep(h)
           /\ UNCHANGED <<vec, elems>> /\ Ready /\ status' /= "overrun"
<1>1. UNCHANGED <<vec, elems>>
  BY DEF Clients
<1>2. CASE \E h \in Handles, A \in Managers, n \in Sizes :
              \/ Allocator_alloc(h, A, n)
              \/ Allocator_strndup(h, A, n - 1)
              \/ Allocator_cAlloc(h, A, n, 2)
  <2>1. PICK h \in Handles, A \in Managers, n \in Sizes :
              \/ Allocator_alloc(h, A, n)
              \/ Allocator_strndup(h, A, n - 1)
              \/ Allocator_cAlloc(h, A, n, 2)
    BY <1>2
  <2>2. n \in Nat /\ (n - 1) + 1 \in Int
    BY Sizing
  <2>3. CASE Allocator_alloc(h, A, n)
    BY <1>1, <2>2, <2>3, Allocator_allocStep, OutcomesAre DEF Allocator_alloc, Ready
  <2>4. CASE Allocator_strndup(h, A, n - 1)
    <3>1. Allocator_alloc(h, A, (n - 1) + 1)
      BY <2>4 DEF Allocator_strndup
    <3> QED
      BY <1>1, <2>2, <3>1, Allocator_allocStep, OutcomesAre DEF Allocator_alloc, Ready
  <2>5. CASE Allocator_cAlloc(h, A, n, 2)
    BY <1>1, <2>2, <2>5, Allocator_cAllocStep, OutcomesAre DEF Allocator_cAlloc, Ready
  <2> QED
    BY <2>1, <2>3, <2>4, <2>5
<1>3. CASE \E h \in Handles, n \in Sizes : RegionLeft /\ Allocator_reAlloc(h, n)
  <2>1. PICK h \in Handles, n \in Sizes : Allocator_reAlloc(h, n)
    BY <1>3
  <2>2. n \in Nat
    BY Sizing
  <2> QED
    BY <1>1, <2>1, <2>2, Allocator_reAllocStep, OutcomesAre DEF Allocator_reAlloc, Ready
<1>4. CASE \E h \in Handles, A \in Managers, n \in Sizes : RegionLeft /\ Allocator_relocate(h, A, n)
  <2>1. PICK h \in Handles, A \in Managers, n \in Sizes : Allocator_relocate(h, A, n)
    BY <1>4
  <2>2. n \in Nat
    BY Sizing
  <2> QED
    BY <1>1, <2>1, <2>2, Allocator_relocateStep, OutcomesAre DEF Allocator_relocate, Ready
<1>5. CASE \E h \in Handles : Allocator_dealloc(h)
  BY <1>1, <1>5, Allocator_deallocStep DEF Allocator_dealloc, Ready
<1> QED
  BY <1>2, <1>3, <1>4, <1>5 DEF Clients
-----------------------------------------------------------------------------
(* The vector.  Memory m that an operation stores into: the elements are   *)
(* in it, as far as it reaches, and the heap would be in order with it.    *)
MemOK(m) ==
    /\ m.res \in {"ok", "null", "wild"}
    /\ \A o \in m.ends : o \in {"ok", "assert", "wild"}
    /\ m.res /= "ok" => m.free = free /\ m.arena = arena /\ "ok" \notin m.ends
    /\ m.res = "ok" =>
          /\ HeapOK(m.free, m.arena, With(blocks, V, m.block))
          /\ m.block = Block("pool", m.block.seg, Len(m.block.data), m.block.data)
          /\ m.block.data \in Seq(Nat) /\ m.cap \in Nat /\ m.cap <= Len(m.block.data)
          /\ \A i \in 1..vec.len : i <= Len(m.block.data) => m.block.data[i] = elems[i]

(* What is stored is the new sequence s of length len.                     *)
StoresOK(m, data, len, s) ==
    /\ data \in Seq(Nat) /\ Len(data) = Len(m.block.data)
    /\ s \in Seq(Nat) /\ Len(s) = len /\ len <= Len(m.block.data)
    /\ \A i \in 1..len : data[i] = s[i]

(* It would not fit, as the capacity was below the length.                 *)
TooSmall(m, len) == ~ (len <= Len(m.block.data)) /\ vec.cap < vec.len

VectorStepOK ==
    /\ VectorInv'
    /\ \A h \in Handles : h \in DOMAIN blocks /\ h \in DOMAIN blocks' => blocks'[h] = blocks[h]

LEMMA VectorTypes ==
    ASSUME VectorOK, HeapOK(free, arena, blocks)
    PROVE  /\ vec.len \in Nat /\ vec.cap \in Nat /\ elems \in Seq(Nat) /\ vec.len = Len(elems)
           /\ vec.len <= Len(Data) /\ vec.cap <= Len(Data) /\ Data \in Seq(Nat)
           /\ \A i \in 1..vec.len : Data[i] = elems[i]
           /\ vec = [len |-> vec.len, cap |-> vec.cap]
           /\ V \in DOMAIN blocks => blocks[V].A = "pool" /\ blocks[V].size = Len(blocks[V].data)
<1>1. vec \in [len : Nat, cap : Nat]
  BY DEF VectorOK
<1>2. vec.len \in Nat /\ vec.cap \in Nat /\ vec = [len |-> vec.len, cap |-> vec.cap]
  BY <1>1
<1>3. Data \in Seq(Nat)
  BY HeapTypes DEF Data
<1>4. V \in DOMAIN blocks => blocks[V].A = "pool" /\ blocks[V].size = Len(blocks[V].data)
  BY BlockFields DEF VectorOK
<1> QED
  BY <1>2, <1>3, <1>4 DEF VectorOK

LEMMA ResizedMem ==
    ASSUME VectorOK, HeapOK(free, arena, blocks), NEW n \in Nat, NEW cap \in Nat, cap <= n
    PROVE  LET m == Resized(n, cap) IN
           MemOK(m) /\ m.cap = cap /\ (m.res = "ok" => Len(m.block.data) = n)
<1>1. PICK t : t = ReAllocated(V, "pool", n)
  OBVIOUS
<1>2. PICK m : m = Resized(n, cap)
  OBVIOUS
<1>3. /\ m.res = t.res /\ m.free = t.free /\ m.arena = t.arena /\ m.block = t.block /\ m.cap = cap
      /\ m.ends = IF t.res = "null" THEN {"assert"} ELSE Outcomes(t.res, t.block.seg, n + Meta)
  BY <1>1, <1>2 DEF Resized
<1>4. Renewed(V, "pool", n, t)
  <2>1. "pool" \in Managers
    BY DEF Managers
  <2>2. CASE V \in DOMAIN blocks
    BY <1>1, <2>1, <2>2, VectorTypes, RenewedOld
  <2>3. CASE V \notin DOMAIN blocks
    BY <1>1, <2>1, <2>3, RenewedNew
  <2> QED
    BY <2>2, <2>3
<1>5. ASSUME t.res = "ok", NEW i \in 1..vec.len, i <= n PROVE t.block.data[i] = elems[i]
  <2>1. i \in Nat /\ i <= Len(Data) /\ Data[i] = elems[i] /\ i \in 1..n
    BY <1>5, VectorTypes
  <2>2. V \in DOMAIN blocks /\ Data = blocks[V].data
    BY <2>1 DEF Data
  <2>3. Kept(blocks[V].data, blocks[V].size, n, t.block.data)
    BY <1>4, <1>5, <2>2 DEF Renewed
  <2> QED
    BY <2>1, <2>2, <2>3, VectorTypes DEF Kept
<1>5a. /\ \A o \in m.ends : o \in {"ok", "assert", "wild"}
       /\ m.res /= "ok" => "ok" \notin m.ends
  <2>1. t.res \in {"ok", "null", "wild"}
    BY <1>4 DEF Renewed
  <2> QED
    BY <1>3, <2>1, OutcomesAre
<1>6. MemOK(m)
  BY <1>3, <1>4, <1>5, <1>5a DEF MemOK, Renewed
<1> QED
  BY <1>2, <1>3, <1>4, <1>6 DEF Renewed

LEMMA InPlaceMem ==
    ASSUME VectorOK, HeapOK(free, arena, blocks), V \in DOMAIN blocks
    PROVE  /\ MemOK(InPlace) /\ InPlace.cap = vec.cap /\ InPlace.res = "ok"
           /\ InPlace.block.data = Data
<1>1. PICK m : m = InPlace
  OBVIOUS
<1>2. /\ m.res = "ok" /\ m.free = free /\ m.arena = arena /\ m.block = blocks[V] /\ m.cap = vec.cap
      /\ m.ends = {"ok"}
  BY <1>1 DEF InPlace
<1>3. Data = blocks[V].data
  BY DEF Data
<1>4. HeapOK(free, arena, With(blocks, V, blocks[V]))
  <2>1. BlockOK(blocks[V], arena)
    BY DEF HeapOK
  <2> QED
    BY <2>1, ReplaceHeap
<1>5. blocks[V] = Block("pool", blocks[V].seg, Len(blocks[V].data), blocks[V].data)
  BY DEF VectorOK
<1>6. MemOK(m)
  BY <1>2, <1>3, <1>4, <1>5, VectorTypes DEF MemOK
<1> QED
  BY <1>1, <1>2, <1>3, <1>6

LEMMA StoredBlock ==
    ASSUME NEW b, NEW seg, NEW size, NEW d, b = Block("pool", seg, size, d), NEW data
    PROVE  [b EXCEPT !.data = data] = Block("pool", seg, size, data)
BY DEF Block

LEMMA BecomesStep ==
    ASSUME VectorOK, HeapOK(free, arena, blocks), NEW m, MemOK(m), NEW data, NEW len, NEW s,
           m.res = "ok" => StoresOK(m, data, len, s) \/ TooSmall(m, len),
           Becomes(m, data, len, s)
    PROVE  VectorStepOK
<1>1. CASE m.res = "ok" /\ StoresOK(m, data, len, s)
  <2>0. len <= Len(m.block.data)
    BY <1>1 DEF StoresOK
  <2>1. PICK d : d = m.block.data
    OBVIOUS
  <2>2. PICK b : b = Block("pool", m.block.seg, Len(d), data)
    OBVIOUS
  <2>3. [m.block EXCEPT !.data = data] = b
    BY <1>1, <2>1, <2>2, StoredBlock DEF MemOK
  <2>4. b.A = "pool" /\ b.seg = m.block.seg /\ b.size = Len(d) /\ b.data = data
    BY <2>2, BlockFields
  <2>5. blocks' = With(blocks, V, b)
    BY <1>1, <2>0, <2>3 DEF Becomes, Put, With
  <2>6. PICK bl : bl = With(blocks, V, m.block)
    OBVIOUS
  <2>7. /\ DOMAIN bl = DOMAIN blocks \cup {V} /\ bl[V] = m.block
        /\ \A x \in DOMAIN blocks : x /= V => bl[x] = blocks[x]
    BY <2>6 DEF With
  <2>8. HeapOK(m.free, m.arena, bl)
    BY <1>1, <2>6 DEF MemOK
  <2>9. BlockOK(m.block, m.arena) /\ m.block.A = "pool" /\ m.block.size = Len(d)
    <3>1. BlockOK(bl[V], m.arena)
      BY <2>7, <2>8 DEF HeapOK
    <3> QED
      BY <1>1, <2>1, <2>7, <3>1, BlockFields DEF MemOK
  <2>10. Len(data) = Len(d) /\ data \in Seq(Nat)
    BY <1>1, <2>1 DEF StoresOK
  <2>11. BlockOK(b, m.arena)
    <3>1. PoolBlock(m.block)
      BY <2>9 DEF BlockOK
    <3>2. PoolBlock(b)
      BY <2>4, <2>9, <3>1 DEF PoolBlock
    <3> QED
      BY <2>1, <2>4, <2>9, <2>10, <3>2 DEF BlockOK
  <2>12. HeapOK(m.free, m.arena, With(bl, V, b))
    BY <2>4, <2>7, <2>8, <2>9, <2>11, ReplaceHeap
  <2>13. With(bl, V, b) = With(blocks, V, b)
    <3>1. DOMAIN bl \cup {V} = DOMAIN blocks \cup {V}
      BY <2>7
    <3> QED
      BY <2>7, <3>1 DEF With
  <2>14. HeapOK(free', arena', blocks')
    BY <1>1, <2>5, <2>12, <2>13 DEF Becomes
  <2>15. /\ V \in DOMAIN blocks' /\ blocks'[V] = b
         /\ \A x \in DOMAIN blocks : x /= V => blocks'[x] = blocks[x]
    BY <2>5 DEF With
  <2>16. vec' = [len |-> len, cap |-> m.cap] /\ elems' = s
    BY <1>1, <2>0 DEF Becomes
  <2>17. /\ len \in Nat /\ m.cap \in Nat /\ len <= Len(d) /\ m.cap <= Len(d) /\ s \in Seq(Nat)
         /\ Len(s) = len /\ \A i \in 1..len : data[i] = s[i]
    BY <1>1, <2>1 DEF StoresOK, MemOK
  <2>18. Data' = data
    BY <2>4, <2>15 DEF Data
  <2>19. vec' \in [len : Nat, cap : Nat] /\ vec'.len = len /\ vec'.cap = m.cap
    BY <2>16, <2>17
  <2>20. blocks'[V] = Block("pool", blocks'[V].seg, Len(blocks'[V].data), blocks'[V].data)
    BY <2>2, <2>4, <2>10, <2>15
  <2>21. VectorOK'
    BY <2>10, <2>15, <2>16, <2>17, <2>18, <2>19, <2>20 DEF VectorOK
  <2>22. \A h \in Handles : h \in DOMAIN blocks => blocks'[h] = blocks[h]
    BY <2>15, Sizing
  <2>23. status' /= "overrun"
    BY <1>1, <2>0 DEF Becomes, MemOK
  <2> QED
    BY <2>14, <2>21, <2>22, <2>23 DEF VectorStepOK, VectorInv
<1>2. CASE m.res = "ok" /\ TooSmall(m, len)
  <2>1. /\ free' = m.free /\ arena' = m.arena /\ status' = "overrun" /\ vec' = vec
        /\ blocks' = With(blocks, V, m.block)
    BY <1>2 DEF Becomes, TooSmall, Put, With
  <2>2. HeapOK(free', arena', blocks')
    BY <1>2, <2>1 DEF MemOK
  <2>3. vec'.cap < vec'.len
    BY <1>2, <2>1 DEF TooSmall
  <2>4. \A h \in Handles : h \in DOMAIN blocks => blocks'[h] = blocks[h]
    BY <2>1, Sizing DEF With
  <2> QED
    BY <2>1, <2>2, <2>3, <2>4 DEF VectorStepOK, VectorInv, Ready
<1>3. CASE m.res /= "ok"
  <2>1. status' = "assert" \/ status' = "wild"
    BY <1>3 DEF Becomes, MemOK
  <2>2. free' = free /\ arena' = arena /\ blocks' = blocks
    BY <1>3 DEF Becomes, MemOK
  <2> QED
    BY <2>1, <2>2 DEF VectorStepOK, VectorInv, Ready
<1> QED
  BY <1>1, <1>2, <1>3
-----------------------------------------------------------------------------
(* What storing and moving leaves in memory.                               *)
IsWritten(w, d, at, arr) ==
    /\ w \in Seq(Nat) /\ Len(w) = Len(d)
    /\ \A i \in 1..Len(d) :
          w[i] = IF at < i /\ i <= at + Len(arr) THEN arr[i - at] ELSE d[i]

LEMMA WrittenIs ==
    ASSUME NEW d \in Seq(Nat), NEW at \in Nat, NEW arr \in Seq(Nat)
    PROVE  IsWritten(Written(d, at, arr), d, at, arr)
<1>1. PICK n \in Nat : n = Len(d) /\ DOMAIN d = 1..n
  OBVIOUS
<1>2. PICK k \in Nat : k = Len(arr) /\ DOMAIN arr = 1..k
  OBVIOUS
<1>3. \A i \in 1..n : i - at \in DOMAIN arr <=> at < i /\ i <= at + k
  BY <1>2
<1>4. (\A i \in 1..n : d[i] \in Nat) /\ \A i \in DOMAIN arr : arr[i] \in Nat
  BY <1>1
<1>5. Written(d, at, arr) = [i \in 1..n |-> IF i - at \in DOMAIN arr THEN arr[i - at] ELSE d[i]]
  BY <1>1 DEF Written
<1>6. Written(d, at, arr) \in [1..n -> Nat]
  BY <1>4, <1>5
<1>7. Written(d, at, arr) \in Seq(Nat) /\ Len(Written(d, at, arr)) = n
  BY <1>6, FunctionIsSeq
<1>8. \A i \in 1..n : Written(d, at, arr)[i] =
          IF at < i /\ i <= at + k THEN arr[i - at] ELSE d[i]
  BY <1>3, <1>5
<1> QED
  BY <1>1, <1>2, <1>7, <1>8 DEF IsWritten

IsMoved(w, d, to, from, count) ==
    /\ w \in Seq(Nat) /\ Len(w) = Len(d)
    /\ \A i \in 1..Len(d) :
          /\ i > to /\ i <= to + count /\ i - to + from <= Len(d) => w[i] = d[i - to + from]
          /\ ~ (i > to /\ i <= to + count) => w[i] = d[i]

LEMMA MovedIs ==
    ASSUME NEW d \in Seq(Nat), NEW to \in Nat, NEW from \in Nat, NEW count \in Nat
    PROVE  IsMoved(Moved(d, to, from, count), d, to, from, count)
<1>1. PICK n \in Nat : n = Len(d) /\ DOMAIN d = 1..n
  OBVIOUS
<1>2. \A i \in 1..n : d[i] \in Nat
  BY <1>1
<1>3. Moved(d, to, from, count) =
        [i \in 1..n |-> IF i > to /\ i <= to + count /\ i - to + from \in 1..n
                        THEN d[i - to + from] ELSE d[i]]
  BY <1>1 DEF Moved
<1>4. Moved(d, to, from, count) \in [1..n -> Nat]
  BY <1>2, <1>3
<1>5. Moved(d, to, from, count) \in Seq(Nat) /\ Len(Moved(d, to, from, count)) = n
  BY <1>4, FunctionIsSeq
<1>6. ASSUME NEW i \in 1..n, i > to, i <= to + count, i - to + from <= n
      PROVE  Moved(d, to, from, count)[i] = d[i - to + from]
  <2>1. i - to + from \in 1..n
    BY <1>6
  <2> QED
    BY <1>3, <1>6, <2>1
<1>7. ASSUME NEW i \in 1..n, ~ (i > to /\ i <= to + count)
      PROVE  Moved(d, to, from, count)[i] = d[i]
  BY <1>3, <1>7
<1> QED
  BY <1>1, <1>5, <1>6, <1>7 DEF IsMoved

IsJoin(s, e, a) ==
    /\ s \in Seq(Nat) /\ Len(s) = Len(e) + Len(a)
    /\ \A i \in 1..Len(e) + Len(a) : s[i] = IF i <= Len(e) THEN e[i] ELSE a[i - Len(e)]

LEMMA JoinedIs ==
    ASSUME NEW e \in Seq(Nat), NEW a \in Seq(Nat)
    PROVE  IsJoin(e \o a, e, a)
BY DEF IsJoin

(* Elements put behind those there are.                                    *)
LEMMA JoinedStores ==
    ASSUME VectorOK, HeapOK(free, arena, blocks), NEW m, MemOK(m), m.res = "ok",
           NEW arr \in Seq(Nat), vec.len + Len(arr) <= Len(m.block.data)
    PROVE  StoresOK(m, Written(m.block.data, vec.len, arr), vec.len + Len(arr), elems \o arr)
<1>1. PICK d : d = m.block.data
  OBVIOUS
<1>2. PICK len \in Nat : len = vec.len
  BY VectorTypes
<1>3. PICK e \in Seq(Nat) : e = elems /\ Len(e) = len
  BY <1>2, VectorTypes
<1>4. /\ d \in Seq(Nat) /\ m.cap \in Nat /\ m.cap <= Len(d)
      /\ \A i \in 1..len : i <= Len(d) => d[i] = e[i]
  BY <1>1, <1>2, <1>3 DEF MemOK
<1>5. PICK w : w = Written(d, len, arr)
  OBVIOUS
<1>6. /\ w \in Seq(Nat) /\ Len(w) = Len(d)
      /\ \A i \in 1..Len(d) : w[i] = IF len < i /\ i <= len + Len(arr) THEN arr[i - len] ELSE d[i]
  BY <1>4, <1>5, WrittenIs DEF IsWritten
<1>7. PICK s : s = e \o arr
  OBVIOUS
<1>8. /\ s \in Seq(Nat) /\ Len(s) = len + Len(arr)
      /\ \A i \in 1..len + Len(arr) : s[i] = IF i <= len THEN e[i] ELSE arr[i - len]
  BY <1>3, <1>7, JoinedIs DEF IsJoin
<1>9. ASSUME NEW i \in 1..len + Len(arr) PROVE w[i] = s[i]
  <2>1. PICK k \in Nat : k = Len(arr)
    OBVIOUS
  <2>2. PICK n \in Nat : n = Len(d)
    BY <1>4
  <2>3. i \in Nat /\ 1 <= i /\ i <= len + k /\ len + k <= n /\ i \in 1..n
    BY <1>1, <1>2, <1>4, <2>1, <2>2
  <2>4. s[i] = IF i <= len THEN e[i] ELSE arr[i - len]
    BY <1>8
  <2>5. w[i] = IF len < i /\ i <= len + k THEN arr[i - len] ELSE d[i]
    BY <1>6, <2>1, <2>2, <2>3
  <2>6. CASE i <= len
    <3>1. d[i] = e[i] /\ ~ (len < i)
      BY <1>4, <2>2, <2>3, <2>6
    <3> QED
      BY <2>4, <2>5, <2>6, <3>1
  <2>7. CASE ~ (i <= len)
    BY <2>3, <2>4, <2>5, <2>7
  <2> QED
    BY <2>6, <2>7
<1> QED
  BY <1>1, <1>2, <1>3, <1>5, <1>6, <1>7, <1>8, <1>9 DEF StoresOK

(* Vector_expand_ has room for one more, whether it asked for memory or    *)
(* not, unless the capacity was below the length.                          *)
LEMMA ExpandMem ==
    ASSUME VectorOK, HeapOK(free, arena, blocks)
    PROVE  /\ MemOK(Vector_expand_)
           /\ Vector_expand_.res = "ok" =>
                 vec.len + 1 <= Len(Vector_expand_.block.data) \/ vec.cap < vec.len
<1>1. /\ vec.len \in Nat /\ vec.cap \in Nat /\ vec.len <= Len(Data) /\ vec.cap <= Len(Data)
      /\ Data \in Seq(Nat)
  BY VectorTypes
<1>2. CASE vec.len + 1 > vec.cap
  <2>1. PICK n : n = IF vec.cap < MINIMUM_SIZE THEN MINIMUM_SIZE ELSE 2 * vec.cap
    OBVIOUS
  <2>2. n \in Nat /\ (vec.len + 1 <= n \/ vec.cap < vec.len) /\ n <= n
    BY <1>1, <1>2, <2>1, Sizing
  <2>3. Vector_expand_ = Resized(n, n)
    BY <1>2, <2>1 DEF Vector_expand_
  <2>4. /\ MemOK(Resized(n, n))
        /\ Resized(n, n).res = "ok" => Len(Resized(n, n).block.data) = n
    BY <2>2, ResizedMem
  <2> QED
    BY <2>2, <2>3, <2>4
<1>3. CASE ~ (vec.len + 1 > vec.cap)
  <2>1. Vector_expand_ = InPlace
    BY <1>3 DEF Vector_expand_
  <2>2. vec.len + 1 <= Len(Data) /\ vec.cap > 0
    BY <1>1, <1>3
  <2>3. V \in DOMAIN blocks
    BY <1>1, <2>2 DEF Data
  <2> QED
    BY <2>1, <2>2, <2>3, InPlaceMem
<1> QED
  BY <1>2, <1>3

LEMMA ReserveMem ==
    ASSUME VectorOK, HeapOK(free, arena, blocks), NEW k \in Nat, k > 0,
           NEW n \in Nat, vec.len + k <= n
    PROVE  /\ MemOK(Vector_reserve_(n))
           /\ Vector_reserve_(n).res = "ok" => vec.len + k <= Len(Vector_reserve_(n).block.data)
<1>1. /\ vec.len \in Nat /\ vec.cap \in Nat /\ vec.cap <= Len(Data) /\ Data \in Seq(Nat)
  BY VectorTypes
<1>2. PICK needed : needed = n - (vec.cap - vec.len)
  OBVIOUS
<1>3. CASE needed > 0
  <2>1. PICK z : z = vec.cap + needed
    OBVIOUS
  <2>2. z \in Nat /\ n <= z /\ vec.len + k <= z
    BY <1>1, <1>2, <2>1, SMTT(40)
  <2>3. Vector_reserve_(n) = Resized(z, n)
    BY <1>2, <1>3, <2>1 DEF Vector_reserve_
  <2>4. /\ MemOK(Resized(z, n))
        /\ Resized(z, n).res = "ok" => Len(Resized(z, n).block.data) = z
    BY <2>2, ResizedMem
  <2> QED
    BY <2>2, <2>3, <2>4
<1>4. CASE ~ (needed > 0)
  <2>1. Vector_reserve_(n) = InPlace
    BY <1>2, <1>4 DEF Vector_reserve_
  <2>2. vec.len + k <= Len(Data) /\ Len(Data) > 0
    BY <1>1, <1>2, <1>4
  <2>3. V \in DOMAIN blocks
    BY <1>1, <2>2 DEF Data
  <2> QED
    BY <2>1, <2>2, <2>3, InPlaceMem
<1> QED
  BY <1>3, <1>4

(* round2pow2 does not round down.                                         *)
LEMMA Rounded ==
    ASSUME NEW n \in Nat
    PROVE  round2pow2(n) \in Nat /\ round2pow2(n) >= n
<1>0. CASE n = 0
  BY <1>0 DEF round2pow2
<1> SUFFICES ASSUME n /= 0 PROVE round2pow2(n) \in Nat /\ round2pow2(n) >= n
  BY <1>0
<1> DEFINE P(e) == Pow2[e] >= n /\ (e = 0 \/ Pow2[e - 1] < n)
           T == {e \in 0..n : Pow2[e] >= n}
<1>1. n \in T /\ T \subseteq Nat
  BY Pow2Def, Pow2Grows
<1>2. PICK m \in T : \A y \in T : m <= y
  BY <1>1, NatLeast
<1>3. m \in 0..n /\ P(m)
  <2>1. m \in 0..n /\ Pow2[m] >= n
    OBVIOUS
  <2>2. ASSUME m /= 0 PROVE Pow2[m - 1] < n
    <3>1. m - 1 \in 0..n /\ m - 1 \in Nat /\ ~ (m <= m - 1)
      BY <2>1, <2>2
    <3>2. m - 1 \notin T
      BY <1>2, <3>1
    <3>3. ~ (Pow2[m - 1] >= n) /\ Pow2[m - 1] \in Nat
      BY <3>1, <3>2, Pow2Def
    <3> QED
      BY <3>3
  <2> QED
    BY <2>1, <2>2
<1>4. PICK c : c = CHOOSE e \in 0..n : P(e)
  OBVIOUS
<1>5. c \in 0..n /\ P(c)
  BY <1>3, <1>4, Zenon
<1>6. round2pow2(n) = Pow2[c]
  BY <1>4, Zenon DEF round2pow2
<1> QED
  BY <1>5, <1>6, Pow2Def

-----------------------------------------------------------------------------
(* The operations.                                                         *)
VectorPre == Ready /\ VectorOK /\ HeapOK(free, arena, blocks)

LEMMA Vector_init0Inv ==
    ASSUME VectorPre, NEW n \in Nat, Vector_init0(n)
    PROVE  VectorStepOK
<1>1. PICK m : m = Resized(n, n)
  OBVIOUS
<1>2. n <= n
  OBVIOUS
<1>3. MemOK(m) /\ m.cap = n
  BY <1>1, <1>2, ResizedMem DEF VectorPre
<1>4. m.res = "ok" => StoresOK(m, m.block.data, 0, <<>>)
  BY <1>3 DEF MemOK, StoresOK
<1>5. Becomes(m, m.block.data, 0, <<>>)
  BY <1>1 DEF Vector_init0
<1> QED
  BY <1>3, <1>4, <1>5, BecomesStep DEF VectorPre

LEMMA AppendIsJoin ==
    ASSUME NEW e \in Seq(Nat), NEW x \in Nat
    PROVE  Append(e, x) = e \o <<x>> /\ <<x>> \in Seq(Nat) /\ Len(<<x>>) = 1
OBVIOUS

LEMMA Vector_pushInv ==
    ASSUME VectorPre, NEW x \in Nat, Vector_push(x)
    PROVE  VectorStepOK
<1>1. PICK m : m = Vector_expand_
  OBVIOUS
<1>2. /\ MemOK(m)
      /\ m.res = "ok" => vec.len + 1 <= Len(m.block.data) \/ vec.cap < vec.len
  BY <1>1, ExpandMem DEF VectorPre
<1>3. elems \in Seq(Nat)
  BY VectorTypes DEF VectorPre
<1>4. PICK arr \in Seq(Nat) : arr = <<x>> /\ Len(arr) = 1 /\ Append(elems, x) = elems \o arr
  BY <1>3, AppendIsJoin
<1>5. Becomes(m, Written(m.block.data, vec.len, arr), vec.len + Len(arr), elems \o arr)
  BY <1>1, <1>4 DEF Vector_push
<1>6. m.res = "ok" =>
        \/ StoresOK(m, Written(m.block.data, vec.len, arr), vec.len + Len(arr), elems \o arr)
        \/ TooSmall(m, vec.len + Len(arr))
  BY <1>2, <1>4, JoinedStores DEF VectorPre, TooSmall
<1> QED
  BY <1>2, <1>5, <1>6, BecomesStep DEF VectorPre

LEMMA Vector_pushArrInv ==
    ASSUME VectorPre, NEW arr \in Seq(Nat), Len(arr) > 0, Vector_pushArr(arr)
    PROVE  VectorStepOK
<1>1. PICK n : n = round2pow2(vec.len + Len(arr))
  OBVIOUS
<1>2. vec.len + Len(arr) \in Nat
  BY VectorTypes DEF VectorPre
<1>3. n \in Nat /\ vec.len + Len(arr) <= n
  BY <1>1, <1>2, Rounded
<1>4. PICK m : m = Vector_reserve_(n)
  OBVIOUS
<1>5. MemOK(m) /\ (m.res = "ok" => vec.len + Len(arr) <= Len(m.block.data))
  BY <1>3, <1>4, ReserveMem DEF VectorPre
<1>6. Becomes(m, Written(m.block.data, vec.len, arr), vec.len + Len(arr), elems \o arr)
  BY <1>1, <1>4 DEF Vector_pushArr
<1>7. m.res = "ok" =>
        StoresOK(m, Written(m.block.data, vec.len, arr), vec.len + Len(arr), elems \o arr)
  BY <1>5, JoinedStores DEF VectorPre
<1> QED
  BY <1>5, <1>6, <1>7, BecomesStep DEF VectorPre

LEMMA Vector_expandInv ==
    ASSUME VectorPre, NEW arr \in Seq(Nat), Len(arr) > 0, Vector_expand(arr)
    PROVE  VectorStepOK
<1>1. PICK n : n = vec.len + Len(arr)
  OBVIOUS
<1>2. n \in Nat /\ vec.len + Len(arr) <= n
  BY <1>1, VectorTypes DEF VectorPre
<1>3. PICK m : m = Vector_reserve_(n)
  OBVIOUS
<1>4. MemOK(m) /\ (m.res = "ok" => vec.len + Len(arr) <= Len(m.block.data))
  BY <1>2, <1>3, ReserveMem DEF VectorPre
<1>5. Becomes(m, Written(m.block.data, vec.len, arr), vec.len + Len(arr), elems \o arr)
  BY <1>1, <1>3 DEF Vector_expand
<1>6. m.res = "ok" =>
        StoresOK(m, Written(m.block.data, vec.len, arr), vec.len + Len(arr), elems \o arr)
  BY <1>4, JoinedStores DEF VectorPre
<1> QED
  BY <1>4, <1>5, <1>6, BecomesStep DEF VectorPre

(* The caller's own count: the elements there are stay in place, whatever  *)
(* capacity is recorded.                                                   *)
LEMMA ReserveInv ==
    ASSUME VectorPre, NEW n \in Nat, Reserve(n)
    PROVE  VectorStepOK
<1>1. /\ vec.len \in Nat /\ vec.cap \in Nat /\ elems \in Seq(Nat) /\ vec.len = Len(elems)
  BY VectorTypes DEF VectorPre
<1>2. CASE n > vec.cap - vec.len
  <2>1. PICK len \in Nat : len = vec.len
    BY <1>1
  <2>2. PICK z : z = vec.cap + (n - (vec.cap - vec.len))
    OBVIOUS
  <2>3. z \in Nat /\ n <= z /\ len <= z /\ n - (vec.cap - vec.len) > 0
    BY <1>1, <1>2, <2>1, <2>2
  <2>4. PICK m : m = Resized(z, n)
    OBVIOUS
  <2>5. Vector_reserve_(n) = m
    BY <2>2, <2>3, <2>4 DEF Vector_reserve_
  <2>6. MemOK(m) /\ (m.res = "ok" => Len(m.block.data) = z)
    BY <2>3, <2>4, ResizedMem DEF VectorPre
  <2>7. Becomes(m, m.block.data, len, elems)
    BY <1>2, <2>1, <2>5 DEF Reserve
  <2>8. ASSUME m.res = "ok" PROVE StoresOK(m, m.block.data, len, elems)
    <3>1. /\ m.block.data \in Seq(Nat) /\ Len(m.block.data) = z
          /\ \A i \in 1..len : i <= z => m.block.data[i] = elems[i]
      BY <2>1, <2>6, <2>8 DEF MemOK
    <3>2. \A i \in 1..len : m.block.data[i] = elems[i]
      BY <2>3, <3>1
    <3> QED
      BY <1>1, <2>1, <2>3, <3>1, <3>2 DEF StoresOK
  <2> QED
    BY <2>6, <2>7, <2>8, BecomesStep DEF VectorPre
<1>3. CASE ~ (n > vec.cap - vec.len)
  <2>1. UNCHANGED vars
    BY <1>3 DEF Reserve
  <2>2. /\ free' = free /\ arena' = arena /\ blocks' = blocks /\ status' = status
        /\ vec' = vec /\ elems' = elems
    BY <2>1 DEF vars
  <2> QED
    BY <2>2 DEF VectorPre, VectorStepOK, VectorInv, Ready, VectorOK, Data
<1> QED
  BY <1>2, <1>3

(* Operations on the elements that are there.                              *)
LEMMA InPlaceInv ==
    ASSUME VectorPre, vec.len > 0, NEW data \in Seq(Nat), Len(data) = Len(Data),
           NEW len \in Nat, len <= vec.len, NEW s \in Seq(Nat), Len(s) = len,
           \A i \in 1..len : data[i] = s[i], Becomes(InPlace, data, len, s)
    PROVE  VectorStepOK
<1>1. /\ vec.len \in Nat /\ vec.len <= Len(Data) /\ Data \in Seq(Nat)
  BY VectorTypes DEF VectorPre
<1>2. V \in DOMAIN blocks
  BY <1>1 DEF Data
<1>3. PICK m : m = InPlace
  OBVIOUS
<1>4. MemOK(m) /\ m.cap = vec.cap /\ m.res = "ok" /\ m.block.data = Data
  BY <1>2, <1>3, InPlaceMem DEF VectorPre
<1>5. len <= Len(m.block.data)
  BY <1>1, <1>4
<1>6. StoresOK(m, data, len, s)
  BY <1>4, <1>5 DEF StoresOK
<1> QED
  BY <1>3, <1>4, <1>6, BecomesStep DEF VectorPre

LEMMA FrontIs ==
    ASSUME NEW e \in Seq(Nat), NEW n \in Nat, n <= Len(e)
    PROVE  /\ SubSeq(e, 1, n) \in Seq(Nat) /\ Len(SubSeq(e, 1, n)) = n
           /\ \A i \in 1..n : SubSeq(e, 1, n)[i] = e[i]
OBVIOUS

IsBack(s, e, n, len) ==
    s \in Seq(Nat) /\ Len(s) = len - n /\ \A i \in 1..len - n : s[i] = e[n + i]

LEMMA BackIs ==
    ASSUME NEW e \in Seq(Nat), NEW n \in Nat, NEW len \in Nat, len = Len(e), n <= len,
           NEW s, s = SubSeq(e, n + 1, len)
    PROVE  IsBack(s, e, n, len)
<1>2. s \in Seq(Nat)
  OBVIOUS
<1>3. Len(s) = len - n
  OBVIOUS
<1>4. ASSUME NEW i \in 1..len - n PROVE s[i] = e[n + i]
  <2>1. i \in 1..len + 1 - (n + 1) /\ n + 1 \in Int /\ len \in Int /\ n + i = n + 1 + i - 1
    OBVIOUS
  <2> QED
    BY <2>1
<1> QED
  BY <1>2, <1>3, <1>4 DEF IsBack

(* The first n elements remain.                                            *)
LEMMA ShortenedInv ==
    ASSUME VectorPre, NEW n \in Nat, n < vec.len, Becomes(InPlace, Data, n, SubSeq(elems, 1, n))
    PROVE  VectorStepOK
<1>1. /\ vec.len \in Nat /\ elems \in Seq(Nat) /\ vec.len = Len(elems) /\ Data \in Seq(Nat)
      /\ \A i \in 1..vec.len : Data[i] = elems[i]
  BY VectorTypes DEF VectorPre
<1>2. PICK s : s = SubSeq(elems, 1, n)
  OBVIOUS
<1>3. n <= Len(elems) /\ n <= vec.len /\ vec.len > 0
  BY <1>1
<1>4. s \in Seq(Nat) /\ Len(s) = n /\ \A i \in 1..n : s[i] = elems[i]
  BY <1>1, <1>2, <1>3, FrontIs
<1>5. ASSUME NEW i \in 1..n PROVE Data[i] = s[i]
  <2>1. i \in 1..vec.len
    BY <1>1, <1>3
  <2> QED
    BY <1>1, <1>4, <2>1
<1> QED
  BY <1>1, <1>2, <1>3, <1>4, <1>5, InPlaceInv

LEMMA Vector_popInv ==
    ASSUME VectorPre, Vector_pop
    PROVE  VectorStepOK
<1>1. vec.len \in Nat /\ vec.len > 0
  BY VectorTypes DEF VectorPre, Vector_pop
<1>2. vec.len - 1 \in Nat /\ vec.len - 1 < vec.len
  BY <1>1
<1> QED
  BY <1>2, ShortenedInv DEF Vector_pop

LEMMA Vector_truncateInv ==
    ASSUME VectorPre, NEW n \in Nat, Vector_truncate(n)
    PROVE  VectorStepOK
BY ShortenedInv DEF Vector_truncate

(* The names of the parts of a vector.                                     *)
LEMMA VectorParts ==
    ASSUME VectorPre
    PROVE  \E d, e \in Seq(Nat) : \E len, size \in Nat :
              /\ d = Data /\ e = elems /\ len = vec.len /\ len = Len(e) /\ size = Len(d)
              /\ len <= size /\ \A i \in 1..len : d[i] = e[i]
<1>1. /\ vec.len \in Nat /\ elems \in Seq(Nat) /\ vec.len = Len(elems) /\ Data \in Seq(Nat)
      /\ vec.len <= Len(Data)
      /\ \A i \in 1..vec.len : Data[i] = elems[i]
  BY VectorTypes DEF VectorPre
<1>2. PICK d \in Seq(Nat) : d = Data
  BY <1>1
<1>3. PICK size \in Nat : size = Len(d)
  OBVIOUS
<1>4. vec.len <= size
  BY <1>1, <1>2, <1>3
<1> QED
  BY <1>1, <1>2, <1>3, <1>4

LEMMA SpliceSums ==
    ASSUME NEW len \in Nat, NEW start \in Nat, NEW count \in Nat, start + count <= len, count > 0
    PROVE  /\ start <= len /\ len - start - count \in Nat /\ len - count \in Nat /\ len > 0
           /\ len - (start + count) = len - start - count
           /\ start + (len - start - count) = len - count /\ len - count <= len
OBVIOUS

LEMMA WithinIs ==
    ASSUME NEW len \in Nat, NEW size \in Nat, len <= size, NEW start \in Nat, NEW rest \in Nat,
           NEW to \in Nat, start <= to, len - to = rest, NEW i \in 1..start + rest
    PROVE  /\ i \in Nat /\ 1 <= i /\ i <= start + rest /\ i \in 1..len /\ i \in 1..size
           /\ ~ (i <= start) =>
                 /\ i - start \in 1..rest /\ to + (i - start) \in 1..len
                 /\ i - start + to = to + (i - start) /\ i > start /\ to + (i - start) <= size
OBVIOUS

LEMMA Vector_spliceInv ==
    ASSUME VectorPre, NEW start \in Nat, NEW count \in Nat, count > 0, Vector_splice(start, count)
    PROVE  VectorStepOK
<1>1. PICK d, e \in Seq(Nat) : \E len, size \in Nat :
              /\ d = Data /\ e = elems /\ len = vec.len /\ len = Len(e) /\ size = Len(d)
              /\ len <= size /\ \A i \in 1..len : d[i] = e[i]
  BY VectorParts
<1>0. PICK len, size \in Nat :
              /\ d = Data /\ e = elems /\ len = vec.len /\ len = Len(e) /\ size = Len(d)
              /\ len <= size /\ \A i \in 1..len : d[i] = e[i]
  BY <1>1
<1>8. len <= size /\ size = Len(d)
  BY <1>0
<1>2. start + count <= len
  BY <1>0 DEF Vector_splice
<1>3. PICK past \in Nat : past = start + count
  OBVIOUS
<1>4. PICK rest \in Nat : rest = len - start - count
  BY <1>2, SpliceSums
<1>5. /\ start <= len /\ start <= past /\ past <= len /\ len - past = rest /\ start + rest = len - count
      /\ len - count \in Nat /\ len > 0 /\ len - count <= len
  BY <1>2, <1>3, <1>4, SpliceSums
<1>6. PICK a : a = SubSeq(e, 1, start)
  OBVIOUS
<1>7. PICK b : b = SubSeq(e, past + 1, len)
  OBVIOUS
<1>9. a \in Seq(Nat) /\ Len(a) = start /\ \A i \in 1..start : a[i] = e[i]
  BY <1>0, <1>5, <1>6, FrontIs
<1>10. b \in Seq(Nat) /\ Len(b) = rest /\ \A i \in 1..rest : b[i] = e[past + i]
  <2>1. e \in Seq(Nat) /\ len = Len(e) /\ past <= len
    BY <1>0, <1>5
  <2>2. IsBack(b, e, past, len)
    BY <1>7, <2>1, BackIs
  <2>3. b \in Seq(Nat) /\ Len(b) = len - past /\ \A i \in 1..len - past : b[i] = e[past + i]
    BY <2>2 DEF IsBack
  <2> QED
    BY <1>5, <2>3
<1>11. PICK s : s = a \o b
  OBVIOUS
<1>12. /\ s \in Seq(Nat) /\ Len(s) = start + rest
       /\ \A i \in 1..start + rest : s[i] = IF i <= start THEN a[i] ELSE b[i - start]
  <2>1. IsJoin(s, a, b)
    BY <1>9, <1>10, <1>11, JoinedIs
  <2> QED
    BY <1>9, <1>10, <2>1 DEF IsJoin
<1>13. PICK w : w = Moved(d, start, past, rest)
  OBVIOUS
<1>14. /\ w \in Seq(Nat) /\ Len(w) = size
       /\ \A i \in 1..size :
             /\ i > start /\ i <= start + rest /\ i - start + past <= size => w[i] = d[i - start + past]
             /\ ~ (i > start /\ i <= start + rest) => w[i] = d[i]
  <2>1. IsMoved(w, d, start, past, rest)
    BY <1>13, MovedIs
  <2> QED
    BY <1>8, <2>1 DEF IsMoved
<1>15. ASSUME NEW i \in 1..start + rest PROVE w[i] = s[i]
  <2>1. i \in Nat /\ 1 <= i /\ i <= start + rest /\ i \in 1..len /\ i \in 1..size
    BY <1>5, <1>8, WithinIs
  <2>2. d[i] = e[i]
    BY <1>0, <2>1
  <2>3. CASE i <= start
    <3>1. s[i] = e[i]
      BY <1>9, <1>12, <2>1, <2>3, SMTT(40)
    <3> QED
      BY <1>14, <2>1, <2>2, <2>3, <3>1, SMTT(40)
  <2>4. CASE ~ (i <= start)
    <3>1. PICK j \in Nat : j = i - start
      BY <2>1, <2>4
    <3>2. j \in 1..rest /\ past + j \in 1..len /\ i - start + past = past + j /\ i > start /\ past + j <= size
      BY <1>5, <1>8, <2>1, <2>4, <3>1, WithinIs
    <3>3. s[i] = b[j] /\ b[j] = e[past + j]
      BY <1>10, <1>12, <2>4, <3>1, <3>2
    <3>4. d[past + j] = e[past + j]
      BY <1>0, <3>2
    <3>5. w[i] = d[i - start + past]
      BY <1>14, <2>1, <3>2
    <3> QED
      BY <3>2, <3>3, <3>4, <3>5
  <2> QED
    BY <2>3, <2>4
<1>16. Becomes(InPlace, w, len - count, s)
  BY <1>0, <1>3, <1>4, <1>6, <1>7, <1>11, <1>13 DEF Vector_splice
<1>17. len - count <= vec.len /\ vec.len > 0 /\ \A i \in 1..len - count : w[i] = s[i]
  BY <1>0, <1>5, <1>15
<1>18. Len(w) = Len(Data) /\ Len(s) = len - count
  BY <1>0, <1>5, <1>12, <1>14
<1> QED
  BY <1>5, <1>12, <1>14, <1>16, <1>17, <1>18, InPlaceInv

LEMMA Vector_swapSpliceInv ==
    ASSUME VectorPre, NEW start \in Nat, NEW count \in Nat, count > 0,
           Vector_swapSplice(start, count)
    PROVE  VectorStepOK
<1>1. PICK d, e \in Seq(Nat) : \E len, size \in Nat :
              /\ d = Data /\ e = elems /\ len = vec.len /\ len = Len(e) /\ size = Len(d)
              /\ len <= size /\ \A i \in 1..len : d[i] = e[i]
  BY VectorParts
<1>0. PICK len, size \in Nat :
              /\ d = Data /\ e = elems /\ len = vec.len /\ len = Len(e) /\ size = Len(d)
              /\ len <= size /\ \A i \in 1..len : d[i] = e[i]
  BY <1>1
<1>s. len <= size /\ size = Len(d)
  BY <1>0
<1>2. start + count <= len
  BY <1>0 DEF Vector_swapSplice
<1>3. PICK n \in Nat : n = len - count
  BY <1>2, SpliceSums
<1>4. PICK s : s = [i \in 1..n |-> IF i > start /\ i <= start + count
                                   THEN e[i - start + len - count] ELSE e[i]]
  OBVIOUS
<1>5. \A i \in 1..n : i \in 1..len /\ i \in 1..size
  BY <1>0, <1>3
<1>6. ASSUME NEW i \in 1..n, i > start, i <= start + count
      PROVE  /\ i - start + n \in 1..len /\ i - start + n <= size
             /\ i - start + len - count = i - start + n
  BY <1>0, <1>2, <1>3, <1>6
<1>7. \A i \in 1..len : e[i] \in Nat
  BY <1>0
<1>8. s \in Seq(Nat) /\ Len(s) = n
  <2>1. s \in [1..n -> Nat]
    BY <1>4, <1>5, <1>6, <1>7
  <2> QED
    BY <2>1, FunctionIsSeq
<1>9. PICK w : w = Moved(d, start, n, count)
  OBVIOUS
<1>10. /\ w \in Seq(Nat) /\ Len(w) = size
       /\ \A i \in 1..size :
             /\ i > start /\ i <= start + count /\ i - start + n <= size => w[i] = d[i - start + n]
             /\ ~ (i > start /\ i <= start + count) => w[i] = d[i]
  <2>1. IsMoved(w, d, start, n, count)
    BY <1>9, MovedIs
  <2> QED
    BY <1>s, <2>1 DEF IsMoved
<1>11. ASSUME NEW i \in 1..n PROVE w[i] = s[i]
  <2>1. CASE i > start /\ i <= start + count
    <3>1. w[i] = d[i - start + n]
      BY <1>5, <1>6, <1>10, <2>1
    <3>2. s[i] = e[i - start + n]
      BY <1>4, <1>6, <2>1
    <3> QED
      BY <1>0, <1>6, <2>1, <3>1, <3>2
  <2>2. CASE ~ (i > start /\ i <= start + count)
    <3>1. w[i] = d[i]
      BY <1>5, <1>10, <2>2
    <3>2. s[i] = e[i]
      BY <1>4, <2>2
    <3> QED
      BY <1>0, <1>5, <3>1, <3>2
  <2> QED
    BY <2>1, <2>2
<1>12. Becomes(InPlace, w, n, s)
  BY <1>0, <1>3, <1>4, <1>9 DEF Vector_swapSplice
<1>13. n <= vec.len /\ vec.len > 0 /\ Len(w) = Len(Data)
  BY <1>0, <1>2, <1>3, <1>10, SMTT(40)
<1> QED
  BY <1>8, <1>10, <1>11, <1>12, <1>13, InPlaceInv

LEMMA SwappedIs ==
    ASSUME NEW d \in Seq(Nat), NEW i \in Nat, NEW j \in Nat, i < j, j < Len(d),
           NEW w, w = [d EXCEPT ![i + 1] = d[j + 1], ![j + 1] = d[i + 1]]
    PROVE  /\ w \in Seq(Nat) /\ Len(w) = Len(d)
           /\ \A k \in 1..Len(d) : w[k] = IF k = i + 1 THEN d[j + 1]
                                          ELSE IF k = j + 1 THEN d[i + 1] ELSE d[k]
<1>0. PICK n \in Nat : n = Len(d) /\ DOMAIN d = 1..n
  OBVIOUS
<1>1. n = Len(d) /\ DOMAIN d = 1..n /\ i + 1 \in 1..n /\ j + 1 \in 1..n /\ i + 1 /= j + 1
  BY <1>0
<1>2. PICK a \in Nat : a = d[i + 1]
  BY <1>1
<1>3. PICK b \in Nat : b = d[j + 1]
  BY <1>1
<1>4. w = [d EXCEPT ![i + 1] = b, ![j + 1] = a]
  BY <1>2, <1>3
<1>5. d \in [1..n -> Nat]
  BY <1>1
<1>6. /\ w \in [1..n -> Nat]
      /\ \A k \in 1..n : w[k] = IF k = i + 1 THEN b ELSE IF k = j + 1 THEN a ELSE d[k]
  BY <1>1, <1>4, <1>5
<1>7. w \in Seq(Nat) /\ Len(w) = n
  BY <1>6, FunctionIsSeq
<1> QED
  BY <1>1, <1>2, <1>3, <1>4, <1>6, <1>7

LEMMA Vector_swapInv ==
    ASSUME VectorPre, NEW i \in Nat, NEW j \in Nat, Vector_swap(i, j)
    PROVE  VectorStepOK
<1>1. PICK d, e \in Seq(Nat) : \E len, size \in Nat :
              /\ d = Data /\ e = elems /\ len = vec.len /\ len = Len(e) /\ size = Len(d)
              /\ len <= size /\ \A k \in 1..len : d[k] = e[k]
  BY VectorParts
<1>0. PICK len, size \in Nat :
              /\ d = Data /\ e = elems /\ len = vec.len /\ len = Len(e) /\ size = Len(d)
              /\ len <= size /\ \A k \in 1..len : d[k] = e[k]
  BY <1>1
<1>2. i < j /\ j < len /\ j < size
  BY <1>0 DEF Vector_swap
<1>4. PICK w : w = [d EXCEPT ![i + 1] = d[j + 1], ![j + 1] = d[i + 1]]
  OBVIOUS
<1>5. PICK s : s = [e EXCEPT ![i + 1] = e[j + 1], ![j + 1] = e[i + 1]]
  OBVIOUS
<1>6. /\ w \in Seq(Nat) /\ Len(w) = size
      /\ \A k \in 1..size : w[k] = IF k = i + 1 THEN d[j + 1] ELSE IF k = j + 1 THEN d[i + 1] ELSE d[k]
  <2>1. d \in Seq(Nat) /\ size = Len(d) /\ i < j /\ j < Len(d)
    BY <1>0, <1>2
  <2> QED
    BY <1>4, <2>1, SwappedIs, SMTT(40)
<1>7. /\ s \in Seq(Nat) /\ Len(s) = len
      /\ \A k \in 1..len : s[k] = IF k = i + 1 THEN e[j + 1] ELSE IF k = j + 1 THEN e[i + 1] ELSE e[k]
  <2>1. e \in Seq(Nat) /\ len = Len(e) /\ i < j /\ j < Len(e)
    BY <1>0, <1>2
  <2> QED
    BY <1>5, <2>1, SwappedIs, SMTT(40)
<1>8. i + 1 \in 1..len /\ j + 1 \in 1..len /\ \A k \in 1..len : k \in 1..size
  BY <1>0, <1>2
<1>9. \A k \in 1..len : w[k] = s[k]
  BY <1>0, <1>6, <1>7, <1>8
<1>10. Becomes(InPlace, w, len, s)
  BY <1>0, <1>4, <1>5 DEF Vector_swap
<1>11. len <= vec.len /\ vec.len > 0 /\ Len(w) = Len(Data)
  BY <1>0, <1>2, <1>6
<1> QED
  BY <1>6, <1>7, <1>9, <1>10, <1>11, InPlaceInv

LEMMA InsertSums ==
    ASSUME NEW len \in Nat, NEW size \in Nat, len + 1 <= size, NEW at \in 0..len,
           NEW i \in 1..len + 1
    PROVE  /\ at \in Nat /\ at <= len /\ len - at \in Nat /\ i \in 1..size
           /\ i <= at => /\ i \in 1..at /\ i \in 1..len /\ ~ (at < i /\ i <= at + 1)
                         /\ ~ (i > at + 1 /\ i <= (at + 1) + (len - at))
           /\ i = at + 1 => at < i /\ i <= at + 1 /\ i - at = 1 /\ ~ (i <= at)
           /\ i > at + 1 => /\ i - 1 \in 1..len /\ i - (at + 1) \in 1..len - at
                            /\ i - (at + 1) + at = i - 1 /\ at + (i - (at + 1)) = i - 1
                            /\ i <= (at + 1) + (len - at) /\ i - 1 <= size /\ ~ (i <= at)
                            /\ ~ (i <= at + 1) /\ ~ (at < i /\ i <= at + 1)
OBVIOUS

LEMMA SingleIs ==
    ASSUME NEW x \in Nat
    PROVE  <<x>> \in Seq(Nat) /\ Len(<<x>>) = 1 /\ <<x>>[1] = x
OBVIOUS

(* Room is made in front of the elements behind the place.                 *)
Inserted(w, d, len, at, x, size) ==
    /\ w \in Seq(Nat) /\ Len(w) = size
    /\ \A i \in 1..len + 1 :
          /\ i <= at => w[i] = d[i]
          /\ i = at + 1 => w[i] = x
          /\ i > at + 1 => w[i] = d[i - 1]
InsertedInto(w, d, len, at, x) ==
    w = Written(Moved(d, at + 1, at, len - at), at, <<x>>)
LEMMA InsertedData ==
    ASSUME NEW d \in Seq(Nat), NEW len \in Nat, NEW size \in Nat, size = Len(d), len + 1 <= size,
           NEW at \in 0..len, NEW x \in Nat, NEW w, InsertedInto(w, d, len, at, x)
    PROVE  Inserted(w, d, len, at, x, size)
<1>1. PICK arr \in Seq(Nat) : arr = <<x>> /\ Len(arr) = 1 /\ arr[1] = x
  BY SingleIs
<1>2. PICK v : v = Moved(d, at + 1, at, len - at)
  OBVIOUS
<1>3. at \in Nat /\ at + 1 \in Nat /\ len - at \in Nat
  OBVIOUS
<1>4. IsMoved(v, d, at + 1, at, len - at)
  BY <1>2, <1>3, MovedIs
<1>5. /\ v \in Seq(Nat) /\ Len(v) = size
      /\ \A i \in 1..size :
            /\ i > at + 1 /\ i <= (at + 1) + (len - at) /\ i - (at + 1) + at <= size =>
                  v[i] = d[i - (at + 1) + at]
            /\ ~ (i > at + 1 /\ i <= (at + 1) + (len - at)) => v[i] = d[i]
  BY <1>4 DEF IsMoved
<1>6. w = Written(v, at, arr)
  BY <1>1, <1>2 DEF InsertedInto
<1>7. /\ w \in Seq(Nat) /\ Len(w) = size
      /\ \A i \in 1..size : w[i] = IF at < i /\ i <= at + 1 THEN arr[i - at] ELSE v[i]
  <2>1. IsWritten(w, v, at, arr)
    BY <1>3, <1>5, <1>6, WrittenIs
  <2> QED
    BY <1>1, <1>5, <2>1 DEF IsWritten
<1>8. ASSUME NEW i \in 1..len + 1, i <= at PROVE w[i] = d[i]
  <2>1. i \in 1..size /\ ~ (at < i /\ i <= at + 1) /\ ~ (i > at + 1 /\ i <= (at + 1) + (len - at))
    BY <1>8, InsertSums
  <2> QED
    BY <1>5, <1>7, <2>1
<1>9. ASSUME NEW i \in 1..len + 1, i = at + 1 PROVE w[i] = x
  <2>1. i \in 1..size /\ at < i /\ i <= at + 1 /\ i - at = 1
    BY <1>9, InsertSums
  <2> QED
    BY <1>1, <1>7, <2>1
<1>10. ASSUME NEW i \in 1..len + 1, i > at + 1 PROVE w[i] = d[i - 1]
  <2>1. /\ i \in 1..size /\ ~ (at < i /\ i <= at + 1) /\ i - (at + 1) + at = i - 1
        /\ i <= (at + 1) + (len - at) /\ i - 1 <= size
    BY <1>10, InsertSums
  <2>2. w[i] = v[i]
    BY <1>7, <2>1
  <2> QED
    BY <1>5, <1>10, <2>1, <2>2
<1> QED
  BY <1>7, <1>8, <1>9, <1>10 DEF Inserted

LEMMA InsertedSequence ==
    ASSUME NEW e \in Seq(Nat), NEW len \in Nat, len = Len(e), NEW at \in 0..len, NEW x \in Nat,
           NEW s, s = SubSeq(e, 1, at) \o <<x>> \o SubSeq(e, at + 1, len)
    PROVE  Inserted(s, e, len, at, x, len + 1)
<1>1. PICK n \in Nat : n = at /\ n <= len
  OBVIOUS
<1>2. PICK a : a = SubSeq(e, 1, at)
  OBVIOUS
<1>3. PICK b : b = SubSeq(e, at + 1, len)
  OBVIOUS
<1>4. a \in Seq(Nat) /\ Len(a) = at /\ \A i \in 1..at : a[i] = e[i]
  BY <1>1, <1>2, FrontIs
<1>5. IsBack(b, e, at, len)
  BY <1>1, <1>3, BackIs
<1>6. b \in Seq(Nat) /\ Len(b) = len - at /\ \A i \in 1..len - at : b[i] = e[at + i]
  BY <1>5 DEF IsBack
<1>7. PICK m \in Seq(Nat) : m = <<x>> /\ Len(m) = 1 /\ m[1] = x
  BY SingleIs
<1>8. PICK c : c = a \o m
  OBVIOUS
<1>9. /\ c \in Seq(Nat) /\ Len(c) = at + 1
      /\ \A i \in 1..at + 1 : c[i] = IF i <= at THEN a[i] ELSE m[i - at]
  <2>1. IsJoin(c, a, m)
    BY <1>4, <1>7, <1>8, JoinedIs
  <2> QED
    BY <1>4, <1>7, <2>1 DEF IsJoin
<1>10. s = c \o b
  BY <1>2, <1>3, <1>7, <1>8
<1>11. at + 1 + (len - at) = len + 1
  BY <1>1
<1>12. /\ s \in Seq(Nat) /\ Len(s) = len + 1
       /\ \A i \in 1..len + 1 : s[i] = IF i <= at + 1 THEN c[i] ELSE b[i - (at + 1)]
  <2>1. IsJoin(s, c, b)
    BY <1>6, <1>9, <1>10, JoinedIs
  <2> QED
    BY <1>6, <1>9, <1>11, <2>1 DEF IsJoin
<1>13. PICK size \in Nat : size = len + 1 /\ len + 1 <= size
  OBVIOUS
<1>14. ASSUME NEW i \in 1..len + 1, i <= at PROVE s[i] = e[i]
  <2>1. i \in 1..at /\ i <= at + 1 /\ i \in 1..at + 1
    BY <1>1, <1>14
  <2> QED
    BY <1>4, <1>9, <1>12, <1>14, <2>1
<1>15. ASSUME NEW i \in 1..len + 1, i = at + 1 PROVE s[i] = x
  <2>1. i <= at + 1 /\ i \in 1..at + 1 /\ ~ (i <= at) /\ i - at = 1
    BY <1>1, <1>15
  <2> QED
    BY <1>7, <1>9, <1>12, <2>1
<1>16. ASSUME NEW i \in 1..len + 1, i > at + 1 PROVE s[i] = e[i - 1]
  <2>1. i - (at + 1) \in 1..len - at /\ at + (i - (at + 1)) = i - 1 /\ ~ (i <= at + 1)
    BY <1>13, <1>16, InsertSums
  <2>2. s[i] = b[i - (at + 1)]
    BY <1>12, <2>1
  <2> QED
    BY <1>6, <2>1, <2>2
<1> QED
  BY <1>12, <1>14, <1>15, <1>16 DEF Inserted

LEMMA Vector_insertInv ==
    ASSUME VectorPre, NEW at \in Nat, NEW x \in Nat, Vector_insert(at, x)
    PROVE  VectorStepOK
<1>1. PICK m : m = Vector_expand_
  OBVIOUS
<1>2. /\ MemOK(m)
      /\ m.res = "ok" => vec.len + 1 <= Len(m.block.data) \/ vec.cap < vec.len
  BY <1>1, ExpandMem DEF VectorPre
<1>3. PICK len \in Nat : len = vec.len
  BY VectorTypes DEF VectorPre
<1>4. PICK e \in Seq(Nat) : e = elems /\ len = Len(e)
  BY <1>3, VectorTypes DEF VectorPre
<1>5. at \in 0..len
  BY <1>3 DEF Vector_insert
<1>6. PICK s : s = SubSeq(e, 1, at) \o <<x>> \o SubSeq(e, at + 1, len)
  OBVIOUS
<1>7. PICK d : d = m.block.data
  OBVIOUS
<1>8. PICK w : w = Written(Moved(d, at + 1, at, len - at), at, <<x>>)
  OBVIOUS
<1>9. Becomes(m, w, len + 1, s)
  BY <1>1, <1>3, <1>4, <1>6, <1>7, <1>8 DEF Vector_insert
<1>10. ASSUME m.res = "ok", len + 1 <= Len(d) PROVE StoresOK(m, w, len + 1, s)
  <2>1. /\ d \in Seq(Nat) /\ m.cap \in Nat /\ m.cap <= Len(d)
        /\ \A i \in 1..len : i <= Len(d) => d[i] = e[i]
    BY <1>2, <1>3, <1>4, <1>7, <1>10 DEF MemOK
  <2>2. PICK size \in Nat : size = Len(d)
    BY <2>1
  <2>3. len + 1 <= size
    BY <1>10, <2>2
  <2>4. InsertedInto(w, d, len, at, x)
    BY <1>8 DEF InsertedInto
  <2>5. /\ w \in Seq(Nat) /\ Len(w) = size
        /\ \A i \in 1..len + 1 : /\ i <= at => w[i] = d[i]
                                 /\ i = at + 1 => w[i] = x
                                 /\ i > at + 1 => w[i] = d[i - 1]
    <3>1. Inserted(w, d, len, at, x, size)
      BY <1>5, <2>1, <2>2, <2>3, <2>4, InsertedData
    <3> QED
      BY <3>1 DEF Inserted
  <2>6. /\ s \in Seq(Nat) /\ Len(s) = len + 1
        /\ \A i \in 1..len + 1 : /\ i <= at => s[i] = e[i]
                                 /\ i = at + 1 => s[i] = x
                                 /\ i > at + 1 => s[i] = e[i - 1]
    <3>1. Inserted(s, e, len, at, x, len + 1)
      BY <1>4, <1>5, <1>6, InsertedSequence
    <3> QED
      BY <3>1 DEF Inserted
  <2>7. ASSUME NEW i \in 1..len + 1 PROVE w[i] = s[i]
    <3>1. /\ i <= at => i \in 1..len /\ i <= size
          /\ i > at + 1 => i - 1 \in 1..len /\ i - 1 <= size
          /\ i <= at \/ i = at + 1 \/ i > at + 1
      BY <1>5, <2>3
    <3>2. CASE i <= at
      BY <2>1, <2>2, <2>5, <2>6, <3>1, <3>2
    <3>3. CASE i = at + 1
      BY <2>5, <2>6, <3>3
    <3>4. CASE i > at + 1
      <4>1. d[i - 1] = e[i - 1]
        BY <2>1, <2>2, <3>1, <3>4
      <4> QED
        BY <2>5, <2>6, <3>4, <4>1
    <3> QED
      BY <3>1, <3>2, <3>3, <3>4
  <2> QED
    BY <1>7, <2>2, <2>3, <2>5, <2>6, <2>7 DEF StoresOK
<1>11. m.res = "ok" => StoresOK(m, w, len + 1, s) \/ TooSmall(m, len + 1)
  BY <1>2, <1>3, <1>7, <1>10 DEF TooSmall
<1> QED
  BY <1>2, <1>9, <1>11, BecomesStep DEF VectorPre

(* Without memory the vector is the empty one.                             *)
LEMMA EmptyVector ==
    ASSUME vec' = Empty, elems' = <<>>, V \notin DOMAIN blocks'
    PROVE  VectorOK'
<1>1. Data' = <<>>
  BY DEF Data
<1>2. vec' \in [len : Nat, cap : Nat] /\ vec'.len = 0 /\ vec'.cap = 0
  BY DEF Empty
<1>3. elems' \in Seq(Nat) /\ Len(elems') = 0
  OBVIOUS
<1>4. Len(Data') = 0
  BY <1>1
<1> QED
  BY <1>2, <1>3, <1>4 DEF VectorOK

LEMMA Vector_compactInv ==
    ASSUME VectorPre, Vector_compact
    PROVE  VectorStepOK
<1>1. CASE vec.len = 0
  <2>1. status' = "wild" /\ free' = free /\ arena' = arena /\ blocks' = blocks
    BY <1>1 DEF Vector_compact, heap
  <2> QED
    BY <2>1 DEF VectorStepOK, VectorInv, Ready, VectorPre
<1>2. CASE vec.len /= 0
  <2>1. PICK n \in Nat : n = vec.len /\ n <= n
    BY VectorTypes DEF VectorPre
  <2>2. PICK m : m = Resized(n, n)
    OBVIOUS
  <2>3. MemOK(m) /\ m.cap = n /\ (m.res = "ok" => Len(m.block.data) = n)
    BY <2>1, <2>2, ResizedMem DEF VectorPre
  <2>4. Becomes(m, m.block.data, n, elems)
    BY <1>2, <2>1, <2>2 DEF Vector_compact
  <2>5. elems \in Seq(Nat) /\ Len(elems) = n
    BY <2>1, VectorTypes DEF VectorPre
  <2>6. ASSUME m.res = "ok" PROVE StoresOK(m, m.block.data, n, elems)
    <3>1. /\ m.block.data \in Seq(Nat) /\ Len(m.block.data) = n
          /\ \A i \in 1..n : i <= n => m.block.data[i] = elems[i]
      BY <2>1, <2>3, <2>6 DEF MemOK
    <3>2. \A i \in 1..n : m.block.data[i] = elems[i]
      BY <3>1
    <3> QED
      BY <2>1, <2>3, <2>5, <3>1, <3>2 DEF StoresOK
  <2> QED
    BY <2>3, <2>4, <2>6, BecomesStep DEF VectorPre
<1> QED
  BY <1>1, <1>2

LEMMA Vector_deinitInv ==
    ASSUME VectorPre, Vector_deinit
    PROVE  VectorStepOK
<1>1. /\ V \in DOMAIN blocks /\ free' = Released(blocks[V], free) /\ blocks' = Without(V)
      /\ UNCHANGED arena /\ vec' = Empty /\ elems' = <<>> /\ status' = "ok"
  BY DEF Vector_deinit, Ready
<1>2. ClientStep(V)
  BY <1>1, ReleaseStep DEF VectorPre
<1>3. V \notin DOMAIN blocks'
  BY <1>1 DEF Without
<1>4. VectorOK'
  BY <1>1, <1>3, EmptyVector
<1>5. \A h \in Handles : h \in DOMAIN blocks => blocks'[h] = blocks[h]
  BY <1>2, Sizing DEF ClientStep, Others
<1> QED
  BY <1>1, <1>2, <1>4, <1>5 DEF VectorStepOK, VectorInv, ClientStep

(* The block changes hands.                                                *)
Handed(h, b) ==
    [x \in (DOMAIN blocks \ {V}) \cup {h} |->
        IF x = h THEN [b EXCEPT !.data = Blank(Len(@))] ELSE blocks[x]]
LEMMA HandedHeap ==
    ASSUME NEW fr, NEW ar, NEW b, HeapOK(fr, ar, With(blocks, V, b)),
           NEW h \in Handles, h \notin DOMAIN blocks,
           b = Block("pool", b.seg, b.size, b.data)
    PROVE  HeapOK(fr, ar, Handed(h, b))
<1>1. PICK bl : bl = With(blocks, V, b)
  OBVIOUS
<1>2. /\ DOMAIN bl = DOMAIN blocks \cup {V} /\ bl[V] = b
      /\ \A x \in DOMAIN blocks : x /= V => bl[x] = blocks[x]
  BY <1>1 DEF With
<1>3. V /= h
  BY Sizing
<1>4. BlockOK(b, ar)
  BY <1>1, <1>2 DEF HeapOK
<1>5. PICK d : d = b.data
  OBVIOUS
<1>6. d \in Seq(Nat) /\ Len(d) \in Nat
  BY <1>4, <1>5 DEF BlockOK
<1>7. PICK z : z = Blank(Len(d))
  OBVIOUS
<1>8. z \in Seq(Nat) /\ Len(z) = Len(d)
  BY <1>6, <1>7, BlankIs
<1>9. PICK r : r = Block("pool", b.seg, b.size, z)
  OBVIOUS
<1>10. [b EXCEPT !.data = Blank(Len(@))] = r
  BY <1>5, <1>7, <1>9, StoredBlock
<1>11. r.A = "pool" /\ r.seg = b.seg /\ r.size = b.size /\ r.data = z /\ b.A = "pool"
  BY <1>9, BlockFields
<1>12. BlockOK(r, ar)
  <2>1. PoolBlock(b)
    BY <1>4, <1>11 DEF BlockOK
  <2>2. PoolBlock(r)
    BY <1>11, <2>1 DEF PoolBlock
  <2> QED
    BY <1>4, <1>5, <1>8, <1>11, <2>2 DEF BlockOK
<1>13. PICK bm : bm = With(bl, V, r)
  OBVIOUS
<1>14. HeapOK(fr, ar, bm)
  BY <1>1, <1>2, <1>11, <1>12, <1>13, ReplaceHeap
<1>15. /\ DOMAIN bm = DOMAIN blocks \cup {V} /\ bm[V] = r
       /\ \A x \in DOMAIN blocks : x /= V => bm[x] = blocks[x]
  <2>1. DOMAIN bm = DOMAIN bl \cup {V} /\ bm[V] = r /\ \A x \in DOMAIN bl : x /= V => bm[x] = bl[x]
    BY <1>13 DEF With
  <2> QED
    BY <1>2, <2>1
<1>16. V \in DOMAIN bm /\ h \notin DOMAIN bm
  BY <1>3, <1>15
<1>17. HeapOK(fr, ar, With(Drop(bm, V), h, bm[V]))
  BY <1>14, <1>16, RenameHeap
<1>18. With(Drop(bm, V), h, bm[V]) = Handed(h, b)
  <2>1. DOMAIN Drop(bm, V) = DOMAIN blocks \ {V}
    BY <1>15 DEF Drop
  <2>2. \A x \in DOMAIN blocks \ {V} : Drop(bm, V)[x] = blocks[x]
    BY <1>15 DEF Drop
  <2>3. PICK f : f = Drop(bm, V)
    OBVIOUS
  <2>4. With(f, h, r) = [x \in (DOMAIN blocks \ {V}) \cup {h} |-> IF x = h THEN r ELSE blocks[x]]
    BY <2>1, <2>2, <2>3 DEF With
  <2> QED
    BY <1>10, <1>15, <2>3, <2>4 DEF Handed
<1> QED
  BY <1>17, <1>18

LEMMA Buffer_releaseInv ==
    ASSUME VectorPre, NEW h \in Handles, NEW compact, Buffer_release(h, compact)
    PROVE  VectorStepOK
<1> DEFINE shrink == \/ compact /\ (vec.cap < vec.len \/ vec.cap - vec.len > Slack)
                     \/ vec.len = 0
<1>1. PICK n \in Nat : n = vec.len + 1
  BY VectorTypes DEF VectorPre
<1>2. PICK t : t = ReAllocated(V, "pool", n)
  OBVIOUS
<1>3. PICK b : b = IF shrink THEN t.block ELSE blocks[V]
  OBVIOUS
<1>4. V \in DOMAIN blocks /\ h \notin DOMAIN blocks /\ vec' = Empty /\ elems' = <<>>
  BY DEF Buffer_release
<1>5. Renewed(V, "pool", n, t)
  <2>1. "pool" \in Managers
    BY DEF Managers
  <2> QED
    BY <1>2, <1>4, <2>1, VectorTypes, RenewedOld DEF VectorPre
<1> HIDE DEF shrink
<1>6. \/ status' = "wild" /\ UNCHANGED heap
      \/ /\ shrink => t.res = "ok"
         /\ free' = (IF shrink THEN t.free ELSE free)
         /\ arena' = (IF shrink THEN t.arena ELSE arena)
         /\ blocks' = Handed(h, b) /\ status' /= "overrun"
  <2>1. n = vec.len + 1
    BY <1>1
  <2> QED
    BY <1>2, <1>3, <2>1, OutcomesAre DEF Buffer_release, Handed, shrink
<1>7. CASE status' = "wild" /\ UNCHANGED heap
  BY <1>7 DEF VectorStepOK, VectorInv, Ready, VectorPre, heap
<1>8. CASE /\ shrink => t.res = "ok"
           /\ free' = (IF shrink THEN t.free ELSE free)
           /\ arena' = (IF shrink THEN t.arena ELSE arena)
           /\ blocks' = Handed(h, b) /\ status' /= "overrun"
  <2>1. /\ HeapOK(free', arena', With(blocks, V, b))
        /\ b = Block("pool", b.seg, b.size, b.data)
    <3>1. CASE shrink
      BY <1>3, <1>5, <1>8, <3>1 DEF Renewed
    <3>2. CASE ~ shrink
      <4>1. b = blocks[V] /\ free' = free /\ arena' = arena
        BY <1>3, <1>8, <3>2
      <4>2. BlockOK(blocks[V], arena) /\ blocks[V].size = Len(blocks[V].data)
        BY <1>4, VectorTypes DEF VectorPre, HeapOK
      <4>3. HeapOK(free, arena, With(blocks, V, blocks[V]))
        BY <1>4, <4>2, ReplaceHeap DEF VectorPre
      <4>4. blocks[V] = Block("pool", blocks[V].seg, Len(blocks[V].data), blocks[V].data)
        BY <1>4 DEF VectorPre, VectorOK
      <4> QED
        BY <4>1, <4>2, <4>3, <4>4
    <3> QED
      BY <3>1, <3>2
  <2>2. HeapOK(free', arena', blocks')
    BY <1>4, <1>8, <2>1, HandedHeap
  <2>3. V \notin DOMAIN blocks' /\ \A g \in Handles : g \in DOMAIN blocks => blocks'[g] = blocks[g]
    BY <1>4, <1>8, Sizing DEF Handed
  <2>4. VectorOK'
    BY <1>4, <2>3, EmptyVector
  <2> QED
    BY <1>8, <2>2, <2>3, <2>4 DEF VectorStepOK, VectorInv
<1> QED
  BY <1>6, <1>7, <1>8

LEMMA FreshIs ==
    ASSUME VectorPre
    PROVE  /\ Fresh(0) \in Nat /\ Fresh(1) \in Nat
           /\ <<Fresh(0), Fresh(1)>> \in Seq(Nat) /\ Len(<<Fresh(0), Fresh(1)>>) > 0
<1>1. PICK len \in Nat : len = vec.len
  BY VectorTypes DEF VectorPre
<1>2. PICK k \in Nat : k = Kinds /\ k > 0
  BY Sizing
<1>3. \A i \in Nat : 1 + ((len + i) % k) \in Nat
  BY <1>2
<1>4. PICK a \in Nat : a = Fresh(0)
  BY <1>1, <1>2, <1>3 DEF Fresh
<1>5. PICK b \in Nat : b = Fresh(1)
  BY <1>1, <1>2, <1>3 DEF Fresh
<1>6. <<a, b>> \in Seq(Nat) /\ Len(<<a, b>>) = 2
  OBVIOUS
<1> QED
  BY <1>4, <1>5, <1>6

(* Every operation on the vector keeps the invariant, and the blocks of    *)
(* the other clients as they are.                                          *)
LEMMA VectorStepInv ==
    ASSUME VectorInv, VectorStep
    PROVE  VectorStepOK
<1>1. Ready
  BY DEF VectorStep, Vector_init0, Vector_push, Vector_pop, Vector_pushArr, Vector_expand,
         Vector_insert, Vector_splice, Vector_swapSplice, Vector_swap, Vector_truncate,
         Vector_compact, Vector_deinit, Buffer_release, Vector_reserve, Vector_reserve0, Reserve
<1>2. VectorPre
  BY <1>1 DEF VectorInv, VectorPre
<1>3. MaxLen \in Nat /\ \A i \in 0..MaxLen : i \in Nat
  BY Sizing
<1>4. CASE \E n \in Sizes : Vector_init0(n)
  BY <1>2, <1>4, Sizing, Vector_init0Inv
<1>5. CASE Vector_push(Fresh(0))
  BY <1>2, <1>5, FreshIs, Vector_pushInv
<1>6. CASE Vector_pop
  BY <1>2, <1>6, Vector_popInv
<1>7. CASE Vector_pushArr(<<Fresh(0), Fresh(1)>>)
  BY <1>2, <1>7, FreshIs, Vector_pushArrInv
<1>8. CASE Vector_expand(<<Fresh(0), Fresh(1)>>)
  BY <1>2, <1>8, FreshIs, Vector_expandInv
<1>9. CASE \E i \in 0..MaxLen : Vector_insert(i, Fresh(1))
  BY <1>2, <1>3, <1>9, FreshIs, Vector_insertInv
<1>10. CASE \E start \in 0..MaxLen, count \in 1..MaxLen : Vector_splice(start, count)
  <2>1. PICK start \in 0..MaxLen, count \in 1..MaxLen : Vector_splice(start, count)
    BY <1>10
  <2>2. start \in Nat /\ count \in Nat /\ count > 0
    BY <1>3
  <2> QED
    BY <1>2, <2>1, <2>2, Vector_spliceInv
<1>11. CASE \E start \in 0..MaxLen, count \in 1..MaxLen : Vector_swapSplice(start, count)
  <2>1. PICK start \in 0..MaxLen, count \in 1..MaxLen : Vector_swapSplice(start, count)
    BY <1>11
  <2>2. start \in Nat /\ count \in Nat /\ count > 0
    BY <1>3
  <2> QED
    BY <1>2, <2>1, <2>2, Vector_swapSpliceInv
<1>12. CASE \E i, j \in 0..MaxLen : Vector_swap(i, j)
  BY <1>2, <1>3, <1>12, Vector_swapInv
<1>13. CASE \E n \in 0..MaxLen : Vector_truncate(n)
  BY <1>2, <1>3, <1>13, Vector_truncateInv
<1>14. CASE Vector_compact
  BY <1>2, <1>14, Vector_compactInv
<1>15. CASE Vector_deinit
  BY <1>2, <1>15, Vector_deinitInv
<1>16. CASE \E h \in Handles, compact \in BOOLEAN : Buffer_release(h, compact)
  BY <1>2, <1>16, Buffer_releaseInv
<1>17. CASE \E n \in 0..MaxLen : Vector_reserve(n) \/ Vector_reserve0(n)
  <2>1. PICK n \in 0..MaxLen : Reserve(n) \/ Reserve(round2pow2(n))
    BY <1>17 DEF Vector_reserve, Vector_reserve0
  <2>2. n \in Nat /\ round2pow2(n) \in Nat
    BY <1>3, Rounded
  <2> QED
    BY <1>2, <2>1, <2>2, ReserveInv
<1> QED
  BY <1>4, <1>5, <1>6, <1>7, <1>8, <1>9, <1>10, <1>11, <1>12, <1>13, <1>14, <1>15, <1>16, <1>17
     DEF VectorStep
-----------------------------------------------------------------------------
(* The invariant.                                                          *)
LEMMA FunctionSeq ==
    ASSUME NEW T, NEW n \in Nat, NEW f, f \in [1..n -> T]
    PROVE  f \in Seq(T) /\ DOMAIN f = 1..n
OBVIOUS

LEMMA InitLists ==
    ASSUME VInit
    PROVE  /\ free \in [Pools -> Seq(Segments)]
           /\ \A c \in Pools : /\ DOMAIN free[c] = 1..Count(c)
                               /\ \A i \in 1..Count(c) : free[c][i] = SegmentAt(c, i)
<1>1. free = [c \in Pools |-> PoolAllocatorBlock_Init(c)]
  BY DEF VInit, Init
<1>2. ASSUME NEW c \in Pools
      PROVE  /\ free[c] \in Seq(Segments) /\ DOMAIN free[c] = 1..Count(c)
             /\ \A i \in 1..Count(c) : free[c][i] = SegmentAt(c, i)
  <2>1. Count(c) \in Nat /\ free[c] = [i \in 1..Count(c) |-> SegmentAt(c, i)]
    BY <1>1, Steps
  <2>2. free[c] \in [1..Count(c) -> Segments]
    BY <2>1, SegmentIs
  <2> QED
    BY <2>1, <2>2, FunctionSeq
<1> QED
  BY <1>1, <1>2

LEMMA InitInv ==
    ASSUME VInit
    PROVE  VectorInv
<1>1. ListsOK(free)
  <2>1. ASSUME NEW c \in Pools, NEW i \in DOMAIN free[c]
        PROVE  ClassSize(c) + Meta <= free[c][i].room
    <3>1. i \in 1..Count(c) /\ free[c][i] = SegmentAt(c, i)
      BY InitLists
    <3>2. free[c][i].room = Step(c) /\ Step(c) \in Nat
      BY <3>1, SegmentFields
    <3> QED
      BY <3>2 DEF Step
  <2> QED
    BY <2>1, InitLists DEF ListsOK
<1>2. arena \in Seq([size : Nat, current : Nat])
  <2>1. PICK r : r = [size |-> ArenaSize, current |-> 0]
    OBVIOUS
  <2>2. r \in [size : Nat, current : Nat]
    BY <2>1, Sizing
  <2>3. PICK T : T = [size : Nat, current : Nat]
    OBVIOUS
  <2>4. r \in T => <<r>> \in Seq(T)
    OBVIOUS
  <2>5. arena = <<r>>
    BY <2>1 DEF VInit, Init
  <2> QED
    BY <2>2, <2>3, <2>4, <2>5, Zenon
<1>3. DOMAIN blocks = {}
  BY DEF VInit, Init
<1>4. DOMAIN Holds(blocks) = {}
  BY <1>3 DEF Holds
<1>5. Placed(free, Holds(blocks))
  <2>1. ListsApart(free)
    <3>1. SUFFICES ASSUME NEW c \in Pools, NEW d \in Pools, NEW i \in DOMAIN free[c],
                          NEW j \in DOMAIN free[d], free[c][i] = free[d][j]
                   PROVE  c = d /\ i = j
      BY DEF ListsApart
    <3>2. i \in 1..Count(c) /\ free[c][i] = SegmentAt(c, i)
      BY InitLists
    <3>3. j \in 1..Count(d) /\ free[d][j] = SegmentAt(d, j)
      BY InitLists
    <3>4. SegmentAt(c, i) = SegmentAt(d, j)
      BY <3>1, <3>2, <3>3
    <3> QED
      BY <3>2, <3>3, <3>4, SegmentsApart
  <2>2. NoneLost(free, Holds(blocks))
    <3>1. SUFFICES ASSUME NEW s \in Segments
                   PROVE  \E c \in Pools : \E i \in DOMAIN free[c] : free[c][i] = s
      BY DEF NoneLost
    <3>2. PICK c \in Pools : \E i \in 1..Count(c) : s = SegmentAt(c, i)
      BY SegmentIs
    <3>3. PICK i \in 1..Count(c) : s = SegmentAt(c, i)
      BY <3>2
    <3>4. i \in DOMAIN free[c] /\ free[c][i] = s
      BY <3>3, InitLists
    <3> QED
      BY <3>4
  <2> QED
    BY <1>4, <2>1, <2>2 DEF Placed, HoldersApart, FreeOrHeld
<1>6. HeapOK(free, arena, blocks)
  BY <1>1, <1>2, <1>3, <1>5 DEF HeapOK, ArenaApart
<1>7. VectorOK
  <2>1. Data = <<>> /\ Len(Data) = 0
    BY <1>3 DEF Data
  <2>2. vec \in [len : Nat, cap : Nat] /\ vec.len = 0 /\ vec.cap = 0
    BY DEF VInit, Empty
  <2>3. elems \in Seq(Nat) /\ Len(elems) = 0
    BY DEF VInit
  <2> QED
    BY <1>3, <2>1, <2>2, <2>3 DEF VectorOK
<1>8. status /= "overrun"
  BY DEF VInit, Init
<1> QED
  BY <1>6, <1>7, <1>8 DEF VectorInv

(* A client does not touch the memory of the vector.                       *)
LEMMA ClientsInv ==
    ASSUME VectorInv, Clients
    PROVE  /\ VectorInv'
           /\ \A h \in Handles : h \in DOMAIN blocks /\ h \in DOMAIN blocks' =>
                 SameContents(blocks[h], blocks'[h])
<1>1. HeapOK(free, arena, blocks)
  BY DEF VectorInv
<1>2. PICK h \in Handles : ClientStep(h)
  BY <1>1, ClientsStep
<1>3. UNCHANGED <<vec, elems>> /\ Ready /\ status' /= "overrun"
  BY <1>1, ClientsStep
<1>4. h /= V
  BY Sizing
<1>5. /\ V \in DOMAIN blocks' <=> V \in DOMAIN blocks
      /\ V \in DOMAIN blocks => blocks'[V] = blocks[V]
  BY <1>2, <1>4 DEF ClientStep, Others
<1>6. Data' = Data
  BY <1>5 DEF Data
<1>7. VectorOK
  BY <1>3 DEF VectorInv
<1>8. VectorOK'
  BY <1>3, <1>5, <1>6, <1>7 DEF VectorOK
<1>9. ASSUME NEW x \in Handles, x \in DOMAIN blocks, x \in DOMAIN blocks'
      PROVE  SameContents(blocks[x], blocks'[x])
  <2>1. CASE x = h
    BY <1>2, <1>9, <2>1 DEF ClientStep
  <2>2. CASE x /= h
    <3>1. blocks'[x] = blocks[x]
      BY <1>2, <1>9, <2>2 DEF ClientStep, Others
    <3> QED
      BY <3>1, SameRefl
  <2> QED
    BY <2>1, <2>2
<1> QED
  BY <1>2, <1>3, <1>8, <1>9 DEF ClientStep, VectorInv

LEMMA StepInv ==
    ASSUME VectorInv, [Next]_vars
    PROVE  /\ VectorInv'
           /\ \A h \in Handles : h \in DOMAIN blocks /\ h \in DOMAIN blocks' =>
                 SameContents(blocks[h], blocks'[h])
<1>1. CASE Clients
  BY <1>1, ClientsInv
<1>2. CASE VectorStep
  <2>1. VectorStepOK
    BY <1>2, VectorStepInv
  <2>2. ASSUME NEW h \in Handles, h \in DOMAIN blocks, h \in DOMAIN blocks'
        PROVE  SameContents(blocks[h], blocks'[h])
    <3>1. blocks'[h] = blocks[h]
      BY <2>1, <2>2 DEF VectorStepOK
    <3> QED
      BY <3>1, SameRefl
  <2> QED
    BY <2>1, <2>2 DEF VectorStepOK
<1>3. CASE UNCHANGED vars
  <2>1. /\ free' = free /\ arena' = arena /\ blocks' = blocks /\ status' = status
        /\ vec' = vec /\ elems' = elems
    BY <1>3 DEF vars
  <2>2. VectorInv'
    BY <2>1 DEF VectorInv, Ready, VectorOK, Data
  <2> QED
    BY <2>1, <2>2, SameRefl
<1> QED
  BY <1>1, <1>2, <1>3 DEF Next
-----------------------------------------------------------------------------
(* Places and segments: two ways to be somewhere that exclude each other   *)
(* and cover a finite set are as many as its members.                      *)
LEMMA Counted ==
    ASSUME NEW T, IsFiniteSet(T), NEW A, NEW B, NEW f, f \in [A -> T], NEW g, g \in [B -> T],
           \A x, y \in A : f[x] = f[y] => x = y, \A x, y \in B : g[x] = g[y] => x = y,
           \A x \in A, y \in B : f[x] /= g[y],
           \A t \in T : (\E x \in A : f[x] = t) \/ (\E y \in B : g[y] = t)
    PROVE  Cardinality(A) + Cardinality(B) = Cardinality(T)
<1>1. PICK X : X = {f[x] : x \in A}
  OBVIOUS
<1>2. PICK Y : Y = {g[y] : y \in B}
  OBVIOUS
<1>3. X \in SUBSET T /\ Y \in SUBSET T
  BY <1>1, <1>2
<1>4. IsFiniteSet(X) /\ IsFiniteSet(Y)
  BY <1>3, FS_Subset
<1>5. X \cup Y = T
  BY <1>1, <1>2
<1>6. X \cap Y = {}
  BY <1>1, <1>2
<1>7. f \in Injection(A, X) /\ f \in Surjection(A, X)
  <2>1. f \in [A -> X]
    BY <1>1
  <2>2. f \in Injection(A, X)
    BY <2>1 DEF Injection, IsInjective
  <2>3. f \in Surjection(A, X)
    BY <1>1, <2>1 DEF Surjection
  <2> QED
    BY <2>2, <2>3
<1>8. g \in Injection(B, Y) /\ g \in Surjection(B, Y)
  <2>1. g \in [B -> Y]
    BY <1>2
  <2>2. g \in Injection(B, Y)
    BY <2>1 DEF Injection, IsInjective
  <2>3. g \in Surjection(B, Y)
    BY <1>2, <2>1 DEF Surjection
  <2> QED
    BY <2>2, <2>3
<1>9. Cardinality(A) = Cardinality(X)
  BY <1>4, <1>7, FS_Injection
<1>10. Cardinality(B) = Cardinality(Y)
  BY <1>4, <1>8, FS_Injection
<1>11. Cardinality(X \cup Y) = Cardinality(X) + Cardinality(Y) - Cardinality(X \cap Y)
  BY <1>4, FS_Union
<1>12. Cardinality({}) = 0
  BY FS_EmptySet
<1>13. Cardinality(X) \in Nat /\ Cardinality(Y) \in Nat
  BY <1>4, FS_CardinalityType
<1>14. PICK m \in Nat : m = Cardinality(X)
  BY <1>13
<1>15. PICK n \in Nat : n = Cardinality(Y)
  BY <1>13
<1>16. Cardinality(T) = m + n - 0
  BY <1>5, <1>6, <1>11, <1>12, <1>14, <1>15
<1>17. Cardinality(A) = m /\ Cardinality(B) = n
  BY <1>9, <1>10, <1>14, <1>15
<1>18. m + n - 0 = m + n
  OBVIOUS
<1> QED
  BY <1>16, <1>17, <1>18

LEMMA PlacesCounted ==
    ASSUME HeapOK(free, arena, blocks)
    PROVE  /\ {free[p[1]][p[2]] : p \in Listed} \cup {blocks[h].seg : h \in Holding} = Segments
           /\ Cardinality(Listed) + Cardinality(Holding) = Cardinality(Segments)
<1>1. free \in [Pools -> Seq(Segments)]
  BY HeapTypes
<1>2. PICK f : f = [p \in Listed |-> free[p[1]][p[2]]]
  OBVIOUS
<1>3. PICK ho : ho = Holds(blocks)
  OBVIOUS
<1>4. /\ DOMAIN ho = Holding /\ \A h \in Holding : ho[h] = blocks[h].seg
      /\ ho = [h \in Holding |-> blocks[h].seg]
  BY <1>3 DEF Holds, Holding
<1>5. \A p \in Listed : \E c \in Pools : \E i \in DOMAIN free[c] : p = <<c, i>>
  BY DEF Listed
<1>6. \A c \in Pools : \A i \in DOMAIN free[c] : <<c, i>> \in Listed /\ f[<<c, i>>] = free[c][i]
  <2>1. ASSUME NEW c \in Pools, NEW i \in DOMAIN free[c] PROVE <<c, i>> \in Listed
    BY DEF Listed
  <2> QED
    BY <1>2, <2>1
<1>7. f \in [Listed -> Segments]
  <2>1. ASSUME NEW p \in Listed PROVE f[p] \in Segments
    <3>1. PICK c \in Pools : \E i \in DOMAIN free[c] : p = <<c, i>>
      BY <1>5
    <3>2. PICK i \in DOMAIN free[c] : p = <<c, i>>
      BY <3>1
    <3>3. free[c] \in Seq(Segments)
      BY <1>1
    <3>4. free[c][i] \in Segments
      BY <3>3, ElementType
    <3> QED
      BY <1>6, <3>2, <3>4
  <2> QED
    BY <1>2, <2>1
<1>8. ho \in [Holding -> Segments]
  <2>1. ASSUME NEW h \in Holding PROVE blocks[h].seg \in Segments
    BY DEF Holding, HeapOK, BlockOK, PoolBlock
  <2> QED
    BY <1>4, <2>1
<1>9. ListsApart(free) /\ HoldersApart(ho) /\ FreeOrHeld(free, ho) /\ NoneLost(free, ho)
  BY <1>3 DEF HeapOK, Placed
<1>10. \A p, q \in Listed : f[p] = f[q] => p = q
  BY <1>5, <1>6, <1>9 DEF ListsApart
<1>11. \A g, h \in Holding : ho[g] = ho[h] => g = h
  BY <1>4, <1>9 DEF HoldersApart
<1>12. \A p \in Listed, h \in Holding : f[p] /= ho[h]
  BY <1>4, <1>5, <1>6, <1>9 DEF FreeOrHeld
<1>13. \A s \in Segments : (\E p \in Listed : f[p] = s) \/ (\E h \in Holding : ho[h] = s)
  <2>1. SUFFICES ASSUME NEW s \in Segments, ~ \E h \in Holding : ho[h] = s
                 PROVE  \E p \in Listed : f[p] = s
    OBVIOUS
  <2>2. PICK c \in Pools : \E i \in DOMAIN free[c] : free[c][i] = s
    BY <1>4, <1>9, <2>1 DEF NoneLost
  <2>3. PICK i \in DOMAIN free[c] : free[c][i] = s
    BY <2>2
  <2>4. <<c, i>> \in Listed /\ f[<<c, i>>] = s
    BY <1>6, <2>3
  <2> QED
    BY <2>4
<1>14. Cardinality(Listed) + Cardinality(Holding) = Cardinality(Segments)
  BY <1>7, <1>8, <1>10, <1>11, <1>12, <1>13, SegmentsFinite, Counted
<1>15. {f[p] : p \in Listed} \cup {ho[h] : h \in Holding} = Segments
  BY <1>7, <1>8, <1>13
<1>16. {f[p] : p \in Listed} = {free[p[1]][p[2]] : p \in Listed}
  BY <1>2
<1>17. {ho[h] : h \in Holding} = {blocks[h].seg : h \in Holding}
  BY <1>4
<1> QED
  BY <1>14, <1>15, <1>16, <1>17

(* Blocks of different managers do not lie in the same space.              *)
LEMMA BlocksApart ==
    ASSUME HeapOK(free, arena, blocks), NEW g \in DOMAIN blocks, NEW h \in DOMAIN blocks,
           g /= h, blocks[g].A /= "default"
    PROVE  Apart(blocks[g].seg, blocks[h].seg)
<1>1. PICK b : b = blocks[g]
  OBVIOUS
<1>2. PICK c : c = blocks[h]
  OBVIOUS
<1>3. BlockOK(b, arena) /\ BlockOK(c, arena)
  BY <1>1, <1>2 DEF HeapOK
<1>4. b.A = "pool" => \E k \in Pools : b.seg.sp = <<"pool", k>>
  BY <1>3, SegmentRooms DEF BlockOK, PoolBlock
<1>5. c.A = "pool" => \E k \in Pools : c.seg.sp = <<"pool", k>>
  BY <1>3, SegmentRooms DEF BlockOK, PoolBlock
<1>6. b.A = "arena" => \E k \in DOMAIN arena : b.seg.sp = <<"arena", k>>
  BY <1>3 DEF BlockOK, ArenaBlock
<1>7. c.A = "arena" => \E k \in DOMAIN arena : c.seg.sp = <<"arena", k>>
  BY <1>3 DEF BlockOK, ArenaBlock
<1>8. c.A = "default" => c.seg.sp = <<"system", 0>>
  BY <1>3 DEF BlockOK
<1>9. b.A \in {"pool", "arena"} /\ c.A \in {"pool", "arena", "default"}
  BY <1>1, <1>3 DEF BlockOK, Managers
<1>10. CASE b.A = "pool" /\ c.A = "pool"
  <2>1. g \in DOMAIN Holds(blocks) /\ h \in DOMAIN Holds(blocks)
        /\ Holds(blocks)[g] = b.seg /\ Holds(blocks)[h] = c.seg
    BY <1>1, <1>2, <1>10 DEF Holds
  <2>2. b.seg /= c.seg
    BY <2>1 DEF HeapOK, Placed, HoldersApart
  <2>3. b.seg \in Segments /\ c.seg \in Segments
    BY <1>3, <1>10 DEF BlockOK, PoolBlock
  <2> QED
    BY <1>1, <1>2, <2>2, <2>3, SegmentsApart
<1>11. CASE b.A = "arena" /\ c.A = "arena"
  BY <1>1, <1>2, <1>11 DEF HeapOK, ArenaApart
<1>12. CASE b.A /= c.A
  <2>1. b.seg.sp[1] /= c.seg.sp[1]
    BY <1>4, <1>5, <1>6, <1>7, <1>8, <1>9, <1>12
  <2>2. b.seg.sp /= c.seg.sp
    BY <2>1
  <2> QED
    BY <1>1, <1>2, <2>2 DEF Apart
<1> QED
  BY <1>9, <1>10, <1>11, <1>12

(* A segment that is not the last of its class ends before the last one    *)
(* starts, which is inside the memory of the pool.                         *)
LEMMA LastIs ==
    ASSUME NEW c \in Pools
    PROVE  Last(c) = SegmentAt(c, Count(c))
<1>1. PICK k \in Nat : k = Count(c)
  BY Steps
<1>2. k > 0
  <2>1. PICK st \in Nat : st = Step(c) /\ st > 0
    BY Steps
  <2>2. k * st >= POOL_BLOCK_SIZE /\ POOL_BLOCK_SIZE > 0
    BY <1>1, <2>1, Sizing, AllocatorsAssumption, Division DEF Count
  <2>3. k = 0 => k * st = 0
    BY <2>1
  <2> QED
    BY <2>2, <2>3, Sizing
<1>3. PICK q : q = PoolAllocatorBlock_Init(c)
  OBVIOUS
<1>4. q = [i \in 1..k |-> SegmentAt(c, i)]
  BY <1>1, <1>3, Steps
<1>5. Len(q) = k
  BY <1>4
<1>6. q[k] = SegmentAt(c, k)
  BY <1>2, <1>4
<1> QED
  BY <1>1, <1>3, <1>5, <1>6 DEF Last

LEMMA PoolBytesInt == PoolBytes \in Int
BY Sizing DEF PoolBytes

LEMMA InnerEnds ==
    ASSUME NEW c \in Pools, NEW i \in 1..Count(c), i /= Count(c)
    PROVE  SegmentAt(c, i).at + SegmentAt(c, i).room <= PoolBytes
<1>1. PICK k \in Nat : k = Count(c)
  BY Steps
<1>2. PICK st \in Nat : st = Step(c) /\ st > 0
  BY Steps
<1>3. i \in Nat /\ k \in 1..Count(c) /\ i < k
  BY <1>1
<1>4. (i - 1) * st + st <= (k - 1) * st /\ (i - 1) * st \in Int /\ (k - 1) * st \in Int
  BY <1>2, <1>3, Factors
<1>5. Last(c) = SegmentAt(c, k)
  BY <1>1, LastIs
<1>6. Last(c).at = (k - 1) * st /\ SegmentAt(c, i).at = (i - 1) * st /\ SegmentAt(c, i).room = st
  BY <1>2, <1>3, <1>5, SegmentFields
<1>7. (k - 1) * st <= PoolBytes
  BY <1>6, CutAssumption
<1>8. PICK a \in Int, b \in Int : a = (i - 1) * st /\ b = (k - 1) * st
  BY <1>4
<1>9. a + st <= b /\ b <= PoolBytes
  BY <1>4, <1>7, <1>8
<1>10. a + st <= PoolBytes
  BY <1>9, PoolBytesInt
<1> QED
  BY <1>6, <1>8, <1>10

LEMMA LastHangs ==
    ASSUME HeapOK(free, arena, blocks), NEW h \in DOMAIN blocks,
           Hangs(blocks[h].seg, Len(blocks[h].data) + Meta)
    PROVE  \E c \in Pools : blocks[h].seg = Last(c)
<1>1. PICK b : b = blocks[h]
  OBVIOUS
<1>2. BlockOK(b, arena)
  BY <1>1 DEF HeapOK
<1>3. b.seg.sp[1] = "pool" /\ b.seg.at + (Len(b.data) + Meta) > PoolBytes
  BY <1>1 DEF Hangs
<1>4. b.A = "pool"
  <2>1. b.A = "arena" => \E k \in DOMAIN arena : b.seg.sp = <<"arena", k>>
    BY <1>2 DEF BlockOK, ArenaBlock
  <2>2. b.A = "default" => b.seg.sp = <<"system", 0>>
    BY <1>2 DEF BlockOK
  <2> QED
    BY <1>2, <1>3, <2>1, <2>2 DEF BlockOK, Managers
<1>5. b.seg \in Segments /\ b.data \in Seq(Nat) /\ Len(b.data) + Meta <= b.seg.room
  BY <1>2, <1>4 DEF BlockOK, PoolBlock
<1>6. PICK c \in Pools : \E i \in 1..Count(c) : b.seg = SegmentAt(c, i)
  BY <1>5, SegmentIs
<1>7. PICK i \in 1..Count(c) : b.seg = SegmentAt(c, i)
  BY <1>6
<1>8. CASE i = Count(c)
  BY <1>1, <1>7, <1>8, LastIs
<1>9. CASE i /= Count(c)
  <2>1. b.seg.at + b.seg.room <= PoolBytes
    BY <1>7, <1>9, InnerEnds
  <2>2. PICK a \in Nat, r \in Nat : a = b.seg.at /\ r = b.seg.room
    BY <1>5, SegmentRooms
  <2>3. PICK n \in Nat : n = Len(b.data) + Meta
    BY <1>5, Sizing
  <2>4. a + n > PoolBytes /\ n <= r /\ a + r <= PoolBytes
    BY <1>3, <1>5, <2>1, <2>2, <2>3
  <2> QED
    BY <2>4, PoolBytesInt
<1> QED
  BY <1>8, <1>9
-----------------------------------------------------------------------------
(* The inductive invariant, over every operation of the vector and every   *)
(* client of the managers.                                                 *)
THEOREM VectorCorrect == Spec => []VectorInv
<1>1. VInit => VectorInv
  BY InitInv
<1>2. VectorInv /\ [Next]_vars => VectorInv'
  BY StepInv
<1> QED
  BY <1>1, <1>2, PTL DEF Spec

LEMMA SameElements ==
    ASSUME NEW d \in Seq(Nat), NEW e \in Seq(Nat), NEW n \in Nat, n = Len(e), n <= Len(d),
           \A i \in 1..n : d[i] = e[i]
    PROVE  SubSeq(d, 1, n) = e
<1>1. PICK s : s = SubSeq(d, 1, n)
  OBVIOUS
<1>2. s \in Seq(Nat) /\ Len(s) = n /\ \A i \in 1..n : s[i] = d[i]
  BY <1>1, FrontIs
<1>3. \A i \in 1..n : s[i] = e[i]
  BY <1>2
<1> QED
  BY <1>1, <1>2, <1>3

(* The memory of the vector holds the elements of the sequence it stands   *)
(* for, in their order and inside of what was asked for, whatever          *)
(* Vector_expand_, Vector_reserve_ with any count, Vector_compact_ and the *)
(* moves within the memory did before; an operation overruns the memory it *)
(* grew only where a reservation left the capacity below the length        *)
(* (vector.c:55).  For every size of the pool, of its blocks and of the    *)
(* vector.                                                                 *)
THEOREM VectorHoldsItsElements == Spec => []VectorIsSequence
<1>1. VectorInv => VectorIsSequence
  <2>0. VectorInv => (status = "overrun" => vec.cap < vec.len)
    BY DEF VectorInv
  <2>1. SUFFICES ASSUME VectorInv, Ready
                 PROVE  /\ vec.len = Len(elems) /\ vec.len <= Len(Data) /\ vec.cap <= Len(Data)
                        /\ SubSeq(Data, 1, vec.len) = elems
    BY <2>0 DEF VectorIsSequence
  <2>2. VectorOK /\ HeapOK(free, arena, blocks)
    BY <2>1 DEF VectorInv
  <2>3. PICK len \in Nat, cap \in Nat : len = vec.len /\ cap = vec.cap
    BY <2>2, VectorTypes
  <2>4. PICK d \in Seq(Nat), e \in Seq(Nat) : d = Data /\ e = elems
    BY <2>2, VectorTypes
  <2>5. len = Len(e) /\ len <= Len(d) /\ cap <= Len(d) /\ \A i \in 1..len : d[i] = e[i]
    BY <2>2, <2>3, <2>4, VectorTypes
  <2>6. len <= Len(d)
    BY <2>5
  <2>7. SubSeq(d, 1, len) = e
    BY <2>5, <2>6, SameElements
  <2> QED
    BY <2>3, <2>4, <2>5, <2>6, <2>7
<1> QED
  BY <1>1, VectorCorrect, PTL

(* Every segment of every pool is on one list or in the hands of one       *)
(* client, none is lost and none is in two places, although Allocator_     *)
(* cAlloc records the size of one element and the segment of an array      *)
(* goes back to a list of another class; blocks of the pool and the arena  *)
(* lie apart, none reaches into the next, and only one in the last segment *)
(* of a class may end behind the memory of the pool (heap.c:116).          *)
THEOREM SegmentsStayInOnePlace == Spec => []SegmentsInOnePlace
<1>1. VectorInv => SegmentsInOnePlace
  <2>1. SUFFICES ASSUME HeapOK(free, arena, blocks)
                 PROVE  SegmentsInOnePlace
    BY DEF VectorInv
  <2>2. \A h \in DOMAIN blocks : Len(blocks[h].data) + Meta <= blocks[h].seg.room
    BY <2>1 DEF HeapOK, BlockOK
  <2>3. \A g, h \in DOMAIN blocks :
           g /= h /\ blocks[g].A /= "default" => Apart(blocks[g].seg, blocks[h].seg)
    BY <2>1, BlocksApart
  <2>4. ASSUME NEW h \in DOMAIN blocks,
               Hangs(blocks[h].seg, Len(blocks[h].data) + Meta)
        PROVE  \E c \in Pools : blocks[h].seg = Last(c)
    BY <2>1, <2>4, LastHangs
  <2> QED
    BY <2>1, <2>2, <2>3, <2>4, PlacesCounted DEF SegmentsInOnePlace
<1> QED
  BY <1>1, VectorCorrect, PTL

(* A block keeps what its client stored, as far as old and new size reach: *)
(* Allocator_reAlloc and Allocator_relocate of any manager copy enough,    *)
(* and no step of another client or of the vector touches the block.       *)
THEOREM ContentsAreKept == Spec => ContentsKept
<1> DEFINE Keeps == \A h \in DOMAIN blocks \cap DOMAIN blocks' \cap Handles :
                       LET old == blocks[h].data
                           new == blocks'[h].data
                       IN  Len(old) = blocks[h].size =>
                             \A i \in 1..Smaller(Len(old), Len(new)) :
                                old[i] /= Junk => new[i] = old[i]
<1>1. VectorInv /\ [Next]_vars => Keeps
  BY StepInv DEF SameContents
<1>2. VectorInv /\ [Next]_vars => [Keeps]_<<heap, status>>
  BY <1>1
<1> HIDE DEF Keeps
<1>3. [][VectorInv /\ [Next]_vars]_vars => [][Keeps]_<<heap, status>>
  <2>1. [VectorInv /\ [Next]_vars]_vars => [Keeps]_<<heap, status>>
    <3>1. UNCHANGED vars => UNCHANGED <<heap, status>>
      BY DEF vars, heap
    <3> QED
      BY <1>2, <3>1
  <2> QED
    BY <2>1, PTL
<1>4. Spec => [][Keeps]_<<heap, status>>
  BY <1>3, VectorCorrect, PTL DEF Spec
<1> QED
  BY <1>4 DEF ContentsKept, Keeps

-----------------------------------------------------------------------------
(* The map.  Buckets b, c of them, hold the nodes of the function d: each  *)
(* in the bucket of its hash, and each key once.                           *)
NodeSet == [key : Keys, hash : Nat, value : Values]
Place(k, c) == Map_bucket_idx(Hash[k], c)

NodeOf(n, d) == n.key \in DOMAIN d /\ n.hash = Hash[n.key] /\ n.value = d[n.key]

BucketsOf(b, c) == c \in Nat /\ b \in [0..(c - 1) -> Seq(NodeSet)]
Right(b, c, d) ==
    \A i \in 0..(c - 1) : \A p \in 1..Len(b[i]) :
        NodeOf(b[i][p], d) /\ Place(b[i][p].key, c) = i
Stored(b, c, d) ==
    \A k \in DOMAIN d :
        c > 0 /\ \E p \in 1..Len(b[Place(k, c)]) : b[Place(k, c)][p].key = k
KeysApart(s) == \A p, q \in 1..Len(s) : s[p].key = s[q].key => p = q
Stores(b, c, d) ==
    /\ BucketsOf(b, c) /\ Right(b, c, d) /\ Stored(b, c, d)
    /\ \A i \in 0..(c - 1) : KeysApart(b[i])

Dict(d) == DOMAIN d \subseteq Keys /\ d \in [DOMAIN d -> Values]

(* An iterator has seen the keys of the buckets from 1 to its index, in    *)
(* the last of them as far as the node it is at.                           *)
SeenTo(it, b, i, p) ==
    i < it.index \/ (i = it.index /\ p + Len(it.chain) <= Len(b[i]) + 1)
Sees(it, b, c) ==
    /\ \A i \in 1..(c - 1) : \A p \in 1..Len(b[i]) :
          SeenTo(it, b, i, p) => \E j \in 1..Len(it.seen) : it.seen[j] = b[i][p].key
    /\ \A j \in 1..Len(it.seen) : \E i \in 1..(c - 1) : \E p \in 1..Len(b[i]) :
          SeenTo(it, b, i, p) /\ it.seen[j] = b[i][p].key
    /\ \A j, l \in 1..Len(it.seen) : it.seen[j] = it.seen[l] => j = l
AtNode(it, b, c) ==
    /\ it.index \in 1..(c - 1)
    /\ Len(it.chain) \in 1..Len(b[it.index])
    /\ \A p \in 1..Len(it.chain) :
          it.chain[p].key = b[it.index][Len(b[it.index]) - Len(it.chain) + p].key
Iterators == [on : BOOLEAN, index : Nat, chain : Seq(NodeSet), seen : Seq(Keys)]
Walking(it, b, c) ==
    it \in Iterators /\ (it.on => AtNode(it, b, c) /\ Sees(it, b, c))

MapInv ==
    /\ Stores(buckets, bucketCount, dict) /\ Dict(dict)
    /\ IsFiniteSet(DOMAIN dict) /\ nodeCount = Cardinality(DOMAIN dict)
    /\ ~live => DOMAIN dict = {}
    /\ Walking(ite, buckets, bucketCount)

(* A function is defined by recursion on 0..n.                             *)
RunsOn(f, n, D, z, h) ==
    f \in [0..n -> D] /\ f[0] = z /\ \A i \in 1..n : f[i] = h[i][f[i - 1]]

LEMMA Recursion ==
    ASSUME NEW n \in Nat, NEW D, NEW z \in D, NEW h \in [1..n -> [D -> D]]
    PROVE  \E f : RunsOn(f, n, D, z, h)
<1> DEFINE Runs(f, m) == f \in [0..m -> D] /\ f[0] = z
                         /\ \A i \in 1..m : f[i] = h[i][f[i - 1]]
           T == {m \in Nat : m <= n => \E f : Runs(f, m)}
<1>1. 0 \in T
  <2> DEFINE g == [i \in 0..0 |-> z]
  <2>1. g \in [0..0 -> D] /\ g[0] = z /\ 1..0 = {}
    OBVIOUS
  <2> HIDE DEF g
  <2>2. \E f : Runs(f, 0)
    BY <2>1
  <2> QED
    BY <2>2
<1>2. ASSUME NEW m \in T PROVE m + 1 \in T
  <2> SUFFICES ASSUME m + 1 <= n PROVE \E f : Runs(f, m + 1)
    <3>1. m + 1 \in Nat
      OBVIOUS
    <3> HIDE DEF Runs
    <3> QED
      BY <3>1
  <2>1. m \in Nat /\ m <= n /\ m + 1 \in 1..n
    OBVIOUS
  <2>2. PICK f : Runs(f, m)
    BY <2>1
  <2>3. f \in [0..m -> D] /\ f[0] = z /\ f[m] \in D
        /\ \A i \in 1..m : f[i] = h[i][f[i - 1]]
    BY <2>1, <2>2
  <2> DEFINE g == [i \in 0..m + 1 |-> IF i = m + 1 THEN h[m + 1][f[m]] ELSE f[i]]
  <2>4. g \in [0..m + 1 -> D] /\ g[0] = z
    BY <2>1, <2>3
  <2>5. ASSUME NEW i \in 1..m + 1 PROVE g[i] = h[i][g[i - 1]]
    BY <2>1, <2>3
  <2> QED
    BY <2>4, <2>5
<1> HIDE DEF T
<1>3. T = Nat
  <2>1. T \subseteq Nat
    BY DEF T
  <2> QED
    BY <1>1, <1>2, <2>1, Induction
<1>4. PICK f : Runs(f, n)
  BY <1>3 DEF T
<1> QED
  BY <1>4 DEF RunsOn

LEMMA PlaceIn ==
    ASSUME NEW k \in Keys, NEW c \in Nat, c > 0
    PROVE  Place(k, c) \in 0..(c - 1)
<1>1. Hash[k] \in Nat
  BY MapAssumption
<1> QED
  BY <1>1 DEF Place, Map_bucket_idx

LEMMA BucketsCounted == ASSUME NEW b, NEW c, BucketsOf(b, c) PROVE Cardinality(DOMAIN b) = c
<1>1. c \in Nat /\ DOMAIN b = 0..(c - 1)
  BY DEF BucketsOf
<1>2. Cardinality(0..(c - 1)) = c
  BY <1>1, FS_Interval
<1> QED
  BY <1>1, <1>2

(* Putting a node at the head of a chain.                                  *)
LEMMA Headed ==
    ASSUME NEW s \in Seq(NodeSet), NEW n \in NodeSet
    PROVE  /\ <<n>> \o s \in Seq(NodeSet) /\ Len(<<n>> \o s) = Len(s) + 1
           /\ (<<n>> \o s)[1] = n
           /\ \A p \in 1..Len(s) : (<<n>> \o s)[p + 1] = s[p]
OBVIOUS

WithKey(d, k, v) == [x \in DOMAIN d \cup {k} |-> IF x = k THEN v ELSE d[x]]

LEMMA AddedStores ==
    ASSUME NEW b, NEW c, NEW d, Stores(b, c, d), Dict(d), c > 0,
           NEW n \in NodeSet, n.key \notin DOMAIN d, n.hash = Hash[n.key]
    PROVE  Stores(Added(b, n), c, WithKey(d, n.key, n.value))
<1>1. PICK k, v, i, e, a : /\ k = n.key /\ v = n.value /\ i = Place(k, c)
                           /\ e = WithKey(d, k, v) /\ a = Added(b, n)
  OBVIOUS
<1>2. c \in Nat /\ b \in [0..(c - 1) -> Seq(NodeSet)] /\ Cardinality(DOMAIN b) = c
  BY BucketsCounted DEF Stores, BucketsOf
<1>3. k \in Keys /\ i \in 0..(c - 1) /\ k \notin DOMAIN d
  BY <1>1, <1>2, PlaceIn DEF NodeSet
<1>4. PICK s : s = <<n>> \o b[i]
  OBVIOUS
<1>5. b[i] \in Seq(NodeSet)
  BY <1>2, <1>3
<1>6. /\ s \in Seq(NodeSet) /\ Len(s) = Len(b[i]) + 1 /\ s[1] = n
      /\ \A p \in 1..Len(b[i]) : s[p + 1] = b[i][p]
  BY <1>4, <1>5, Headed, Zenon
<1>7. a = [b EXCEPT ![i] = s]
  BY <1>1, <1>2, <1>4 DEF Added, Place
<1>8. a \in [0..(c - 1) -> Seq(NodeSet)] /\ a[i] = s /\ \A j \in 0..(c - 1) : j # i => a[j] = b[j]
  BY <1>2, <1>3, <1>6, <1>7
<1>9. /\ DOMAIN e = DOMAIN d \cup {k} /\ e[k] = v
      /\ \A x \in DOMAIN d : e[x] = d[x]
  BY <1>1, <1>3 DEF WithKey
<1>10. \A p \in 1..Len(s) : p = 1 \/ (p - 1 \in 1..Len(b[i]) /\ s[p] = b[i][p - 1])
  <2> SUFFICES ASSUME NEW p \in 1..Len(s), p # 1
               PROVE  p - 1 \in 1..Len(b[i]) /\ s[p] = b[i][p - 1]
    OBVIOUS
  <2>1. Len(b[i]) \in Nat
    BY <1>5
  <2>2. p - 1 \in 1..Len(b[i]) /\ (p - 1) + 1 = p
    BY <1>6, <2>1
  <2> QED
    BY <1>6, <2>2
<1>11. \A j \in 0..(c - 1) : \A p \in 1..Len(b[j]) :
          NodeOf(b[j][p], d) /\ Place(b[j][p].key, c) = j
  BY DEF Stores, Right
<1>12. \A m : NodeOf(m, d) => NodeOf(m, e) /\ m.key # k
  BY <1>3, <1>9 DEF NodeOf
<1>13. NodeOf(n, e) /\ Place(n.key, c) = i
  BY <1>1, <1>9 DEF NodeOf
<1>14. Right(a, c, e)
  <2> SUFFICES ASSUME NEW j \in 0..(c - 1), NEW p \in 1..Len(a[j])
               PROVE  NodeOf(a[j][p], e) /\ Place(a[j][p].key, c) = j
    BY DEF Right
  <2>1. CASE j # i
    <3>1. a[j] = b[j]
      BY <1>8, <2>1
    <3> QED
      BY <1>11, <1>12, <3>1
  <2>2. CASE j = i /\ p = 1
    BY <1>6, <1>8, <1>13, <2>2
  <2>3. CASE j = i /\ p # 1
    <3>1. p - 1 \in 1..Len(b[i]) /\ a[j][p] = b[i][p - 1]
      BY <1>8, <1>10, <2>3
    <3> QED
      BY <1>3, <1>11, <1>12, <2>3, <3>1
  <2> QED
    BY <2>1, <2>2, <2>3
<1>15. Stored(a, c, e)
  <2> SUFFICES ASSUME NEW x \in DOMAIN e
               PROVE  \E p \in 1..Len(a[Place(x, c)]) : a[Place(x, c)][p].key = x
    BY DEF Stored
  <2>1. CASE x = k
    <3>1. 1 \in 1..Len(s) /\ s[1].key = k
      BY <1>1, <1>5, <1>6
    <3> QED
      BY <1>1, <1>8, <2>1, <3>1
  <2>2. CASE x \in DOMAIN d
    <3>1. PICK p \in 1..Len(b[Place(x, c)]) : b[Place(x, c)][p].key = x
      BY <2>2 DEF Stores, Stored
    <3>2. Place(x, c) \in 0..(c - 1)
      BY <1>2, <2>2, PlaceIn DEF Dict
    <3>3. CASE Place(x, c) # i
      BY <1>8, <3>1, <3>2, <3>3
    <3>4. CASE Place(x, c) = i
      <4>1. p + 1 \in 1..Len(s) /\ s[p + 1].key = x
        BY <1>5, <1>6, <3>1, <3>4
      <4> QED
        BY <1>8, <3>4, <4>1
    <3> QED
      BY <3>3, <3>4
  <2> QED
    BY <1>9, <2>1, <2>2
<1>16. ASSUME NEW j \in 0..(c - 1) PROVE KeysApart(a[j])
  <2>1. KeysApart(b[j])
    BY DEF Stores
  <2>2. CASE j # i
    BY <1>8, <2>1, <2>2
  <2>3. CASE j = i
    <3> SUFFICES ASSUME NEW p \in 1..Len(s), NEW q \in 1..Len(s), s[p].key = s[q].key
                 PROVE  p = q
      BY <1>8, <2>3 DEF KeysApart
    <3>1. \A r \in 1..Len(s) : r # 1 => s[r].key # k
      BY <1>3, <1>10, <1>11, <1>12
    <3>2. s[1].key = k
      BY <1>1, <1>6
    <3>3. CASE p # 1 /\ q # 1
      <4>1. p - 1 \in 1..Len(b[i]) /\ q - 1 \in 1..Len(b[i])
            /\ b[i][p - 1].key = b[i][q - 1].key
        BY <1>10, <3>3
      <4>2. p - 1 = q - 1
        BY <2>1, <2>3, <4>1 DEF KeysApart
      <4> QED
        BY <4>2
    <3> QED
      BY <3>1, <3>2, <3>3
  <2> QED
    BY <2>2, <2>3
<1>17. Stores(a, c, e)
  BY <1>2, <1>8, <1>14, <1>15, <1>16 DEF Stores, BucketsOf, Stored
<1> QED
  BY <1>1, <1>17

(* The nodes of the map in a sequence, and what it takes to add them all   *)
(* to other buckets.                                                       *)
ListOf(s, d) ==
    /\ s \in Seq(NodeSet) /\ KeysApart(s)
    /\ \A j \in 1..Len(s) : NodeOf(s[j], d)
    /\ \A k \in DOMAIN d : \E j \in 1..Len(s) : s[j].key = k

(* The nodes of the buckets below i.                                       *)
ListBelow(s, b, i, d) ==
    /\ s \in Seq(NodeSet) /\ KeysApart(s)
    /\ \A j \in 1..Len(s) : NodeOf(s[j], d)
    /\ \A j \in 1..Len(s) : \E l \in 0..(i - 1) : \E p \in 1..Len(b[l]) : s[j] = b[l][p]
    /\ \A l \in 0..(i - 1) : \A p \in 1..Len(b[l]) : \E j \in 1..Len(s) : s[j] = b[l][p]

LEMMA Joined ==
    ASSUME NEW u \in Seq(NodeSet), NEW s \in Seq(NodeSet)
    PROVE  /\ u \o s \in Seq(NodeSet) /\ Len(u \o s) = Len(u) + Len(s)
           /\ \A j \in 1..Len(u) : (u \o s)[j] = u[j]
           /\ \A j \in 1..Len(s) : (u \o s)[Len(u) + j] = s[j]
           /\ \A j \in 1..Len(u \o s) :
                 \/ j \in 1..Len(u) /\ (u \o s)[j] = u[j]
                 \/ j - Len(u) \in 1..Len(s) /\ (u \o s)[j] = s[j - Len(u)]
OBVIOUS

LEMMA ListGrows ==
    ASSUME NEW b, NEW c, NEW d, Stores(b, c, d), NEW i \in 0..(c - 1),
           NEW s, ListBelow(s, b, i, d)
    PROVE  ListBelow(b[i] \o s, b, i + 1, d)
<1>1. c \in Nat /\ i \in Nat /\ b[i] \in Seq(NodeSet) /\ s \in Seq(NodeSet)
  BY DEF Stores, BucketsOf, ListBelow
<1>2. PICK u, t : u = b[i] /\ t = u \o s
  OBVIOUS
<1>3. /\ t \in Seq(NodeSet) /\ Len(t) = Len(u) + Len(s) /\ Len(u) \in Nat /\ Len(s) \in Nat
      /\ \A j \in 1..Len(u) : t[j] = u[j]
      /\ \A j \in 1..Len(s) : t[Len(u) + j] = s[j]
      /\ \A j \in 1..Len(t) : \/ j \in 1..Len(u) /\ t[j] = u[j]
                              \/ j - Len(u) \in 1..Len(s) /\ t[j] = s[j - Len(u)]
  <2>1. u \in Seq(NodeSet) /\ t = u \o s
    BY <1>1, <1>2
  <2>2. Len(u) \in Nat /\ Len(s) \in Nat
    BY <1>1, <2>1
  <2> QED
    BY <1>1, <2>1, <2>2, Joined, Zenon
<1>4. \A l \in 0..i : l = i \/ l \in 0..(i - 1)
  BY <1>1
<1>5. /\ i \in 0..i /\ \A l \in 0..(i - 1) : l \in 0..i /\ l # i /\ l \in 0..(c - 1)
  BY <1>1
<1>6. (i + 1) - 1 = i
  BY <1>1
<1>7. \A p \in 1..Len(u) : NodeOf(u[p], d) /\ Place(u[p].key, c) = i
  BY <1>2 DEF Stores, Right
<1>8. \A j \in 1..Len(s) : NodeOf(s[j], d) /\ Place(s[j].key, c) # i
  <2> SUFFICES ASSUME NEW j \in 1..Len(s) PROVE NodeOf(s[j], d) /\ Place(s[j].key, c) # i
    OBVIOUS
  <2>1. PICK l \in 0..(i - 1) : \E p \in 1..Len(b[l]) : s[j] = b[l][p]
    BY DEF ListBelow
  <2>3. PICK p \in 1..Len(b[l]) : s[j] = b[l][p]
    BY <2>1
  <2>2. Place(b[l][p].key, c) = l
    BY <1>5 DEF Stores, Right
  <2> QED
    BY <1>5, <2>2, <2>3 DEF ListBelow
<1>9. \A j \in 1..Len(t) : NodeOf(t[j], d)
  BY <1>3, <1>7, <1>8
<1>10. KeysApart(t)
  <2> SUFFICES ASSUME NEW p \in 1..Len(t), NEW q \in 1..Len(t), t[p].key = t[q].key PROVE p = q
    BY DEF KeysApart
  <2>1. CASE p \in 1..Len(u) /\ t[p] = u[p]
    <3>1. q \in 1..Len(u) /\ t[q] = u[q]
      BY <1>3, <1>7, <1>8, <2>1
    <3>2. KeysApart(u)
      BY <1>2 DEF Stores
    <3> QED
      BY <2>1, <3>1, <3>2 DEF KeysApart
  <2>2. CASE p - Len(u) \in 1..Len(s) /\ t[p] = s[p - Len(u)]
    <3>1. q - Len(u) \in 1..Len(s) /\ t[q] = s[q - Len(u)]
      BY <1>3, <1>7, <1>8, <2>2
    <3>2. p - Len(u) = q - Len(u)
      BY <2>2, <3>1 DEF ListBelow, KeysApart
    <3> QED
      BY <1>3, <3>2
  <2> QED
    BY <1>3, <2>1, <2>2
<1>11. ASSUME NEW j \in 1..Len(t)
       PROVE  \E l \in 0..i : \E p \in 1..Len(b[l]) : t[j] = b[l][p]
  <2>1. CASE j \in 1..Len(u) /\ t[j] = u[j]
    BY <1>2, <1>5, <2>1
  <2>2. CASE j - Len(u) \in 1..Len(s) /\ t[j] = s[j - Len(u)]
    BY <1>5, <2>2 DEF ListBelow
  <2> QED
    BY <1>3, <2>1, <2>2
<1>12. ASSUME NEW l \in 0..i, NEW p \in 1..Len(b[l]) PROVE \E j \in 1..Len(t) : t[j] = b[l][p]
  <2>1. CASE l = i
    <3>1. p \in 1..Len(t) /\ t[p] = b[l][p]
      BY <1>2, <1>3, <2>1
    <3> QED
      BY <3>1
  <2>2. CASE l \in 0..(i - 1)
    <3>1. PICK j \in 1..Len(s) : s[j] = b[l][p]
      BY <2>2 DEF ListBelow
    <3>2. Len(u) + j \in 1..Len(t) /\ t[Len(u) + j] = s[j]
      BY <1>3
    <3> QED
      BY <3>1, <3>2
  <2> QED
    BY <1>4, <2>1, <2>2
<1>13. ListBelow(t, b, i + 1, d)
  BY <1>3, <1>6, <1>9, <1>10, <1>11, <1>12 DEF ListBelow
<1> QED
  BY <1>2, <1>13

LEMMA ChainedIs ==
    ASSUME Stores(buckets, bucketCount, dict)
    PROVE  /\ bucketCount \in Nat /\ Chained[0] = <<>>
           /\ \A i \in 1..bucketCount : Chained[i] = buckets[i - 1] \o Chained[i - 1]
<1>1. PICK n : n = bucketCount
  OBVIOUS
<1>2. n \in Nat /\ buckets \in [0..(n - 1) -> Seq(NodeSet)]
  BY <1>1 DEF Stores, BucketsOf
<1> DEFINE h == [i \in 1..n |-> [s \in Seq(NodeSet) |-> buckets[i - 1] \o s]]
<1>3. h \in [1..n -> [Seq(NodeSet) -> Seq(NodeSet)]]
  <2> SUFFICES ASSUME NEW i \in 1..n, NEW s \in Seq(NodeSet)
               PROVE  buckets[i - 1] \o s \in Seq(NodeSet)
    OBVIOUS
  <2>1. buckets[i - 1] \in Seq(NodeSet)
    BY <1>2
  <2> QED
    BY <2>1
<1>4. \A i \in 1..n : \A s \in Seq(NodeSet) : h[i][s] = buckets[i - 1] \o s
  OBVIOUS
<1> HIDE DEF h
<1>5. PICK z, D, t : z = <<>> /\ D = Seq(NodeSet) /\ t = h
  OBVIOUS
<1>6. PICK f : RunsOn(f, n, D, z, t)
  <2>1. z \in D
    BY <1>5
  <2>2. t \in [1..n -> [D -> D]]
    BY <1>3, <1>5
  <2> QED
    BY <1>2, <2>1, <2>2, Recursion, Zenon
<1> DEFINE Def(g) == g = [i \in 0..n |-> IF i = 0 THEN <<>> ELSE buckets[i - 1] \o g[i - 1]]
<1>7. ASSUME NEW i \in 1..n PROVE f[i] = buckets[i - 1] \o f[i - 1]
  <2>1. f[i - 1] \in D
    BY <1>2, <1>6 DEF RunsOn
  <2> QED
    BY <1>4, <1>5, <1>6, <2>1, Zenon DEF RunsOn
<1>8. Def(f)
  <2>1. \A i \in 0..n : f[i] = IF i = 0 THEN <<>> ELSE buckets[i - 1] \o f[i - 1]
    <3>1. \A i \in 0..n : i = 0 \/ i \in 1..n
      BY <1>2
    <3> QED
      BY <1>5, <1>6, <1>7, <3>1, Zenon DEF RunsOn
  <2> QED
    BY <1>6, <2>1, Zenon DEF RunsOn
<1>9. Chained = CHOOSE g : Def(g)
  BY <1>1, Zenon DEF Chained
<1>10. Def(Chained)
  BY <1>8, <1>9, Zenon
<1> HIDE DEF Def
<1>11. PICK g : g = Chained
  OBVIOUS
<1>12. g = [i \in 0..n |-> IF i = 0 THEN <<>> ELSE buckets[i - 1] \o g[i - 1]]
  BY <1>10, <1>11 DEF Def
<1>13. g[0] = <<>> /\ \A i \in 1..n : g[i] = buckets[i - 1] \o g[i - 1]
  <2>1. 0 \in 0..n /\ \A i \in 1..n : i \in 0..n /\ i # 0
    BY <1>2
  <2> QED
    BY <1>12, <2>1
<1> QED
  BY <1>1, <1>2, <1>11, <1>13

LEMMA AllNodesList ==
    ASSUME Stores(buckets, bucketCount, dict), Dict(dict)
    PROVE  ListOf(AllNodes, dict)
<1>1. PICK n : n = bucketCount
  OBVIOUS
<1> DEFINE T == {i \in Nat : i <= n => ListBelow(Chained[i], buckets, i, dict)}
<1>2. /\ n \in Nat /\ Chained[0] = <<>>
      /\ \A i \in 1..n : Chained[i] = buckets[i - 1] \o Chained[i - 1]
  BY <1>1, ChainedIs
<1>3. 0 \in T
  <2>1. PICK s : s = Chained[0]
    OBVIOUS
  <2>2. s \in Seq(NodeSet) /\ 1..Len(s) = {} /\ 0..(0 - 1) = {}
    BY <1>2, <2>1
  <2>3. ListBelow(s, buckets, 0, dict)
    BY <2>2 DEF ListBelow, KeysApart
  <2> QED
    BY <2>1, <2>3
<1>4. ASSUME NEW i \in T PROVE i + 1 \in T
  <2> SUFFICES ASSUME i + 1 <= n PROVE ListBelow(Chained[i + 1], buckets, i + 1, dict)
    OBVIOUS
  <2>1. i \in 0..(n - 1) /\ i + 1 \in 1..n /\ (i + 1) - 1 = i /\ i <= n
    BY <1>2
  <2>2. Chained[i + 1] = buckets[i] \o Chained[i]
    BY <1>2, <2>1
  <2>3. ListBelow(Chained[i], buckets, i, dict)
    BY <2>1
  <2> QED
    BY <1>1, <2>1, <2>2, <2>3, ListGrows
<1> HIDE DEF T
<1>5. T = Nat
  <2>1. T \subseteq Nat
    BY DEF T
  <2> QED
    BY <1>3, <1>4, <2>1, Induction
<1>6. ListBelow(AllNodes, buckets, n, dict)
  BY <1>1, <1>2, <1>5 DEF T, AllNodes
<1>7. ASSUME NEW k \in DOMAIN dict PROVE \E j \in 1..Len(AllNodes) : AllNodes[j].key = k
  <2>1. /\ n > 0 /\ Place(k, n) \in 0..(n - 1)
    BY <1>1, <1>2, PlaceIn DEF Stores, Stored, Dict
  <2>2. PICK p \in 1..Len(buckets[Place(k, n)]) : buckets[Place(k, n)][p].key = k
    BY <1>1 DEF Stores, Stored
  <2>3. PICK j \in 1..Len(AllNodes) : AllNodes[j] = buckets[Place(k, n)][p]
    BY <1>6, <2>1 DEF ListBelow
  <2> QED
    BY <2>2, <2>3
<1> QED
  BY <1>6, <1>7 DEF ListOf, ListBelow

(* The function that the last m of n nodes make.                           *)
Part(s, m) == {s[j].key : j \in (Len(s) + 1 - m)..Len(s)}
PartOf(s, m, d) == [k \in Part(s, m) |-> d[k]]

LEMMA PartGrows ==
    ASSUME NEW d, Dict(d), NEW s, ListOf(s, d), NEW m \in Nat, m + 1 <= Len(s)
    PROVE  /\ s[Len(s) - m] \in NodeSet
           /\ NodeOf(s[Len(s) - m], d)
           /\ s[Len(s) - m].key \notin Part(s, m)
           /\ PartOf(s, m + 1, d)
                = WithKey(PartOf(s, m, d), s[Len(s) - m].key, s[Len(s) - m].value)
<1>1. PICK n, l, x : n = Len(s) /\ l = n - m /\ x = s[l]
  OBVIOUS
<1>2. n \in Nat /\ l \in 1..n /\ (n + 1) - (m + 1) = l /\ (n + 1) - m = l + 1 /\ l \in Nat
  <2>1. Len(s) \in Nat
    BY DEF ListOf
  <2> QED
    BY <1>1, <2>1
<1>3. x \in NodeSet /\ NodeOf(x, d)
  BY <1>1, <1>2 DEF ListOf
<1>4. Part(s, m) = {s[j].key : j \in (l + 1)..n} /\ Part(s, m + 1) = {s[j].key : j \in l..n}
  BY <1>1, <1>2 DEF Part
<1>5. x.key \notin Part(s, m)
  <2> SUFFICES ASSUME NEW j \in (l + 1)..n, s[j].key = x.key PROVE FALSE
    BY <1>4
  <2>1. j \in 1..n /\ j # l
    BY <1>2
  <2> QED
    BY <1>1, <1>2, <2>1 DEF ListOf, KeysApart
<1>6. Part(s, m + 1) = Part(s, m) \cup {x.key}
  <2>1. \A j : j \in l..n <=> j = l \/ j \in (l + 1)..n
    BY <1>2
  <2> QED
    BY <1>1, <1>4, <2>1, Zenon
<1>7. x.value = d[x.key]
  BY <1>3 DEF NodeOf
<1>8. PartOf(s, m + 1, d) = WithKey(PartOf(s, m, d), x.key, x.value)
  BY <1>5, <1>6, <1>7 DEF PartOf, WithKey
<1> QED
  BY <1>1, <1>3, <1>5, <1>8

LEMMA AddedType ==
    ASSUME NEW c \in Nat, c > 0, NEW b \in [0..(c - 1) -> Seq(NodeSet)], NEW n \in NodeSet
    PROVE  Added(b, n) \in [0..(c - 1) -> Seq(NodeSet)]
<1>1. Cardinality(DOMAIN b) = c
  BY BucketsCounted DEF BucketsOf
<1>2. n.hash \in Nat
  BY DEF NodeSet
<1>3. PICK i : i = n.hash % c
  OBVIOUS
<1>4. i \in 0..(c - 1)
  BY <1>2, <1>3
<1>5. b[i] \in Seq(NodeSet)
  BY <1>4
<1>6. <<n>> \o b[i] \in Seq(NodeSet)
  BY <1>5, Headed
<1>7. Added(b, n) = [b EXCEPT ![i] = <<n>> \o b[i]]
  BY <1>1, <1>3 DEF Added, Map_bucket_idx
<1> QED
  BY <1>4, <1>6, <1>7

LEMMA ResizedStores ==
    ASSUME Stores(buckets, bucketCount, dict), Dict(dict), NEW c \in Nat, c > 0
    PROVE  Stores(Map_resized(c), c, dict)
<1>1. PICK s, n, D, z : /\ s = AllNodes /\ n = Len(s)
                        /\ D = [0..(c - 1) -> Seq(NodeSet)]
                        /\ z = [j \in 0..c - 1 |-> <<>>]
  OBVIOUS
<1>2. ListOf(s, dict) /\ n \in Nat
  <2>1. ListOf(s, dict)
    BY <1>1, AllNodesList
  <2> QED
    BY <1>1, <2>1 DEF ListOf
<1>3. \A i \in 1..n : n + 1 - i \in 1..n /\ s[n + 1 - i] \in NodeSet
  <2> SUFFICES ASSUME NEW i \in 1..n PROVE n + 1 - i \in 1..n /\ s[n + 1 - i] \in NodeSet
    OBVIOUS
  <2>1. n + 1 - i \in 1..n
    BY <1>2
  <2> QED
    BY <1>1, <1>2, <2>1 DEF ListOf
<1> DEFINE h == [i \in 1..n |-> [b \in D |-> Added(b, s[n + 1 - i])]]
<1>4. ASSUME NEW i \in 1..n, NEW b \in D PROVE Added(b, s[n + 1 - i]) \in D
  BY <1>1, <1>3, AddedType
<1>5. h \in [1..n -> [D -> D]]
  BY <1>4
<1>6. \A i \in 1..n : \A b \in D : h[i][b] = Added(b, s[n + 1 - i])
  BY Zenon
<1> HIDE DEF h
<1>7. z \in D
  BY <1>1
<1>8. PICK f : RunsOn(f, n, D, z, h)
  BY <1>2, <1>5, <1>7, Recursion, Zenon
<1> DEFINE Def(g) == g = [i \in 0..n |-> IF i = 0 THEN z ELSE Added(g[i - 1], s[n + 1 - i])]
<1>9. ASSUME NEW i \in 1..n PROVE f[i] = Added(f[i - 1], s[n + 1 - i])
  <2>1. f[i - 1] \in D
    BY <1>2, <1>8 DEF RunsOn
  <2> QED
    BY <1>6, <1>8, <2>1, Zenon DEF RunsOn
<1>10. Def(f)
  <2>1. \A i \in 0..n : f[i] = IF i = 0 THEN z ELSE Added(f[i - 1], s[n + 1 - i])
    <3>1. \A i \in 0..n : i = 0 \/ i \in 1..n
      BY <1>2
    <3> QED
      BY <1>8, <1>9, <3>1, Zenon DEF RunsOn
  <2> QED
    BY <1>8, <2>1, Zenon DEF RunsOn
<1>11. PICK g : g = CHOOSE x : Def(x)
  OBVIOUS
<1>12. Map_resized(c) = g[n]
  BY <1>1, <1>11, Zenon DEF Map_resized
<1>13. Def(g)
  BY <1>10, <1>11, Zenon
<1>14. g[0] = z /\ \A i \in 1..n : g[i] = Added(g[i - 1], s[n + 1 - i])
  <2>1. 0 \in 0..n /\ \A i \in 1..n : i \in 0..n /\ i # 0
    BY <1>2
  <2> QED
    BY <1>13, <2>1, Zenon
<1> HIDE DEF Def
<1> DEFINE T == {m \in Nat : m <= n => Stores(g[m], c, PartOf(s, m, dict))}
<1>15. 0 \in T
  <2>1. (n + 1 - 0)..n = {}
    BY <1>2
  <2>2. Part(s, 0) = {}
    BY <1>1, <2>1 DEF Part
  <2>3. PICK e : e = PartOf(s, 0, dict)
    OBVIOUS
  <2>4. DOMAIN e = {}
    BY <2>2, <2>3 DEF PartOf
  <2>5. \A j \in 0..(c - 1) : z[j] = <<>> /\ 1..Len(z[j]) = {}
    BY <1>1
  <2>6. Stores(z, c, e)
    BY <1>1, <1>7, <2>4, <2>5 DEF Stores, BucketsOf, Right, Stored, KeysApart
  <2> QED
    BY <1>14, <2>3, <2>6
<1>16. ASSUME NEW m \in T PROVE m + 1 \in T
  <2> SUFFICES ASSUME m + 1 <= n PROVE Stores(g[m + 1], c, PartOf(s, m + 1, dict))
    OBVIOUS
  <2>1. PICK x, d, e : /\ x = s[n - m] /\ d = PartOf(s, m, dict)
                       /\ e = PartOf(s, m + 1, dict)
    OBVIOUS
  <2>2. m \in Nat /\ m <= n /\ m + 1 \in 1..n /\ (m + 1) - 1 = m /\ (n + 1) - (m + 1) = n - m
    BY <1>2
  <2>3. Stores(g[m], c, d)
    BY <2>1, <2>2
  <2>4. x \in NodeSet /\ NodeOf(x, dict) /\ x.key \notin Part(s, m)
        /\ e = WithKey(d, x.key, x.value)
    <3>1. m + 1 <= Len(s) /\ x = s[Len(s) - m]
      BY <1>1, <2>1
    <3> QED
      BY <1>2, <2>1, <2>2, <3>1, PartGrows, ZenonT(40)
  <2>5. DOMAIN d = Part(s, m) /\ \A k \in Part(s, m) : d[k] = dict[k]
    BY <2>1 DEF PartOf
  <2>6. Part(s, m) \subseteq DOMAIN dict
    <3> SUFFICES ASSUME NEW j \in (n + 1 - m)..n PROVE s[j].key \in DOMAIN dict
      BY <1>1 DEF Part
    <3>1. j \in 1..n
      BY <1>2, <2>2
    <3> QED
      BY <1>1, <1>2, <3>1 DEF ListOf, NodeOf
  <2>7. Dict(d)
    <3>1. d = [k \in Part(s, m) |-> dict[k]]
      BY <2>1 DEF PartOf
    <3> QED
      BY <2>5, <2>6, <3>1 DEF Dict
  <2>8. x.hash = Hash[x.key] /\ x.key \notin DOMAIN d
    BY <2>4, <2>5 DEF NodeOf
  <2>9. Stores(Added(g[m], x), c, WithKey(d, x.key, x.value))
    BY <2>3, <2>4, <2>7, <2>8, AddedStores
  <2>10. g[m + 1] = Added(g[m], x)
    <3>1. g[m + 1] = Added(g[(m + 1) - 1], s[n + 1 - (m + 1)])
      BY <1>14, <2>2, Zenon
    <3>2. g[(m + 1) - 1] = g[m] /\ s[n + 1 - (m + 1)] = x
      BY <1>2, <2>1, <2>2
    <3> QED
      BY <3>1, <3>2
  <2> QED
    BY <2>1, <2>4, <2>9, <2>10
<1> HIDE DEF T
<1>17. T = Nat
  <2>1. T \subseteq Nat
    BY DEF T
  <2> QED
    BY <1>15, <1>16, <2>1, Induction
<1>18. Stores(g[n], c, PartOf(s, n, dict))
  BY <1>2, <1>17 DEF T
<1>19. PartOf(s, n, dict) = dict
  <2>1. (n + 1 - n)..n = 1..n
    BY <1>2
  <2>2. Part(s, n) = {s[j].key : j \in 1..n}
    BY <1>1, <2>1 DEF Part
  <2>3. Part(s, n) = DOMAIN dict
    <3>1. /\ \A j \in 1..n : s[j].key \in DOMAIN dict
          /\ \A k \in DOMAIN dict : \E j \in 1..n : s[j].key = k
      BY <1>1, <1>2 DEF ListOf, NodeOf
    <3> QED
      BY <2>2, <3>1, Zenon
  <2>4. dict = [k \in DOMAIN dict |-> dict[k]]
    BY DEF Dict
  <2> QED
    BY <2>3, <2>4 DEF PartOf
<1> QED
  BY <1>12, <1>18, <1>19

(* The search finds the node of a key, and no other.                       *)
LEMMA GetRef ==
    ASSUME Stores(buckets, bucketCount, dict), Dict(dict), NEW k \in Keys
    PROVE  \/ k \notin DOMAIN dict /\ Map_get_ref(k) = 0
           \/ /\ k \in DOMAIN dict /\ bucketCount > 0 /\ bucketCount \in Nat
              /\ Chain(k) = buckets[Place(k, bucketCount)]
              /\ Map_get_ref(k) \in 1..Len(Chain(k))
              /\ Chain(k)[Map_get_ref(k)].key = k
<1>1. PICK c, s, i : c = bucketCount /\ s = Chain(k) /\ i = Place(k, c)
  OBVIOUS
<1>2. c \in Nat /\ buckets \in [0..(c - 1) -> Seq(NodeSet)]
  BY <1>1 DEF Stores, BucketsOf
<1>3. /\ c = 0 => s = <<>>
      /\ c > 0 => s = buckets[i] /\ i \in 0..(c - 1)
  <2>1. s = IF c = 0 THEN <<>> ELSE buckets[i]
    BY <1>1, Zenon DEF Chain, Place
  <2>2. c > 0 => c # 0 /\ i \in 0..(c - 1)
    BY <1>1, <1>2, PlaceIn
  <2> QED
    BY <2>1, <2>2
<1>4. s \in Seq(NodeSet)
  BY <1>2, <1>3
<1>5. ASSUME NEW p \in 1..Len(s) PROVE c > 0 /\ NodeOf(s[p], dict)
  <2>1. c > 0
    BY <1>2, <1>3, <1>4
  <2> QED
    BY <1>1, <1>3, <2>1 DEF Stores, Right
<1>6. ASSUME NEW p \in 1..Len(s) PROVE Matches(s[p], k) <=> s[p].key = k
  <2>1. s[p].key \in Keys /\ s[p].hash = Hash[s[p].key]
    BY <1>5 DEF NodeOf, Dict
  <2> QED
    BY <2>1, MapAssumption DEF Matches
<1> DEFINE hits == {p \in DOMAIN s : Matches(s[p], k)}
<1>7. DOMAIN s = 1..Len(s)
  BY <1>4
<1>8. Map_get_ref(k) = IF hits = {} THEN 0 ELSE CHOOSE p \in hits : \A q \in hits : p <= q
  <2> DEFINE found == {p \in DOMAIN Chain(k) : Matches(Chain(k)[p], k)}
  <2>1. found = hits
    BY <1>1
  <2>2. Map_get_ref(k) = IF found = {} THEN 0 ELSE CHOOSE p \in found : \A q \in found : p <= q
    BY DEF Map_get_ref
  <2> HIDE DEF found, hits
  <2> QED
    BY <2>1, <2>2
<1>9. hits = {p \in 1..Len(s) : s[p].key = k}
  BY <1>6, <1>7
<1>10. CASE k \notin DOMAIN dict
  <2>1. hits = {}
    BY <1>5, <1>9, <1>10 DEF NodeOf
  <2> QED
    BY <1>8, <1>10, <2>1
<1>11. CASE k \in DOMAIN dict
  <2>1. c > 0 /\ \E p \in 1..Len(buckets[i]) : buckets[i][p].key = k
    BY <1>1, <1>11 DEF Stores, Stored
  <2>2. PICK p \in 1..Len(s) : s[p].key = k
    BY <1>3, <2>1
  <2>3. KeysApart(s)
    BY <1>1, <1>3, <2>1 DEF Stores
  <2>4. hits = {p}
    BY <1>9, <2>2, <2>3 DEF KeysApart
  <2>5. Map_get_ref(k) = CHOOSE q \in {p} : \A r \in {p} : q <= r
    BY <1>8, <2>4
  <2>6. p <= p
    BY <1>4
  <2>7. Map_get_ref(k) = p
    BY <2>5, <2>6
  <2> QED
    BY <1>1, <1>2, <1>3, <1>11, <2>1, <2>2, <2>7
<1> QED
  BY <1>10, <1>11

(* The count is that of the list of all nodes.                             *)
LEMMA ListCounts ==
    ASSUME NEW d, IsFiniteSet(DOMAIN d), NEW s, ListOf(s, d)
    PROVE  Cardinality(DOMAIN d) = Len(s)
<1>1. PICK n : n = Len(s)
  OBVIOUS
<1>2. n \in Nat
  BY <1>1 DEF ListOf
<1> DEFINE f == [j \in 1..n |-> s[j].key]
<1>3. f \in [1..n -> DOMAIN d]
  BY <1>1 DEF ListOf, NodeOf
<1>4. \A j, l \in 1..n : f[j] = f[l] => j = l
  BY <1>1 DEF ListOf, KeysApart
<1>5. \A k \in DOMAIN d : \E j \in 1..n : f[j] = k
  BY <1>1 DEF ListOf
<1> HIDE DEF f
<1>6. f \in Bijection(1..n, DOMAIN d)
  BY <1>3, <1>4, <1>5, Zenon DEF Bijection, Injection, IsInjective, Surjection
<1>7. ExistsBijection(1..n, DOMAIN d)
  BY <1>6 DEF ExistsBijection
<1>8. IsFiniteSet(1..n) /\ Cardinality(1..n) = n
  BY <1>2, FS_Interval
<1> QED
  BY <1>1, <1>7, <1>8, FS_Bijection

LEMMA InvariantTells == MapInv => MapIsFunction
<1> SUFFICES ASSUME MapInv PROVE MapIsFunction
  OBVIOUS
<1>1. /\ Stores(buckets, bucketCount, dict) /\ Dict(dict)
      /\ IsFiniteSet(DOMAIN dict) /\ nodeCount = Cardinality(DOMAIN dict)
  BY DEF MapInv
<1>2. nodeCount = Len(AllNodes)
  BY <1>1, AllNodesList, ListCounts
<1>3. ASSUME NEW k \in Keys
      PROVE  Map_get(k) = IF k \in DOMAIN dict THEN <<dict[k]>> ELSE <<>>
  <2>1. CASE k \notin DOMAIN dict
    BY <1>1, <2>1, GetRef DEF Map_get
  <2>2. CASE k \in DOMAIN dict
    <3>1. PICK c, i, p : c = bucketCount /\ i = Place(k, c) /\ p = Map_get_ref(k)
      OBVIOUS
    <3>2. /\ c > 0 /\ c \in Nat /\ Chain(k) = buckets[i]
          /\ p \in 1..Len(buckets[i]) /\ buckets[i][p].key = k
      BY <1>1, <2>2, <3>1, GetRef
    <3>3. i \in 0..(c - 1) /\ p # 0
      BY <3>1, <3>2, PlaceIn
    <3>4. buckets[i][p].value = dict[k]
      BY <1>1, <3>1, <3>2, <3>3 DEF Stores, Right, NodeOf
    <3>5. Map_get(k) = <<Chain(k)[p].value>>
      BY <3>1, <3>3, Zenon DEF Map_get
    <3> QED
      BY <2>2, <3>2, <3>4, <3>5
  <2> QED
    BY <2>1, <2>2
<1> QED
  BY <1>1, <1>2, <1>3 DEF MapIsFunction

(* The operations on a key.                                                *)
SameKeys(a, b, c) ==
    \A i \in 0..(c - 1) : Len(a[i]) = Len(b[i]) /\ \A p \in 1..Len(b[i]) : a[i][p].key = b[i][p].key

LEMMA DictWith ==
    ASSUME NEW d, Dict(d), NEW k \in Keys, NEW v \in Values
    PROVE  Dict(WithKey(d, k, v)) /\ DOMAIN WithKey(d, k, v) = DOMAIN d \cup {k}
BY DEF Dict, WithKey

LEMMA ReplacedStores ==
    ASSUME NEW b, NEW c, NEW d, Stores(b, c, d), Dict(d), NEW k \in DOMAIN d, NEW v \in Values,
           NEW i, i = Place(k, c), NEW p \in 1..Len(b[i]), b[i][p].key = k
    PROVE  /\ Stores([b EXCEPT ![i][p].value = v], c, WithKey(d, k, v))
           /\ SameKeys([b EXCEPT ![i][p].value = v], b, c)
<1>1. c \in Nat /\ c > 0 /\ b \in [0..(c - 1) -> Seq(NodeSet)] /\ i \in 0..(c - 1) /\ k \in Keys
  <2>1. c \in Nat /\ c > 0 /\ b \in [0..(c - 1) -> Seq(NodeSet)] /\ k \in Keys
    BY DEF Stores, BucketsOf, Stored, Dict
  <2> QED
    BY <2>1, PlaceIn
<1>2. PICK s, n, t, a, e : /\ s = b[i] /\ n = [s[p] EXCEPT !.value = v]
                           /\ t = [s EXCEPT ![p] = n] /\ a = [b EXCEPT ![i] = t]
                           /\ e = WithKey(d, k, v)
  OBVIOUS
<1>3. a = [b EXCEPT ![i][p].value = v]
  BY <1>1, <1>2
<1>4. s \in Seq(NodeSet) /\ p \in 1..Len(s) /\ s[p] \in NodeSet
  BY <1>1, <1>2
<1>5. n \in NodeSet /\ n.key = s[p].key /\ n.hash = s[p].hash /\ n.value = v
  BY <1>2, <1>4 DEF NodeSet
<1>6. /\ t \in Seq(NodeSet) /\ Len(t) = Len(s) /\ t[p] = n
      /\ \A q \in 1..Len(s) : q # p => t[q] = s[q]
  BY <1>2, <1>4, <1>5
<1>7. /\ a \in [0..(c - 1) -> Seq(NodeSet)] /\ a[i] = t
      /\ \A j \in 0..(c - 1) : j # i => a[j] = b[j]
  BY <1>1, <1>2, <1>6
<1>8. \A q \in 1..Len(s) : t[q].key = s[q].key
  BY <1>5, <1>6
<1>9. SameKeys(a, b, c)
  <2> SUFFICES ASSUME NEW j \in 0..(c - 1)
               PROVE  Len(a[j]) = Len(b[j]) /\ \A q \in 1..Len(b[j]) : a[j][q].key = b[j][q].key
    BY DEF SameKeys
  <2>1. CASE j = i
    BY <1>2, <1>6, <1>7, <1>8, <2>1
  <2>2. CASE j # i
    BY <1>7, <2>2
  <2> QED
    BY <2>1, <2>2
<1>10. DOMAIN e = DOMAIN d /\ e[k] = v /\ \A x \in DOMAIN d : x # k => e[x] = d[x]
  BY <1>2 DEF WithKey
<1>11. \A j \in 0..(c - 1) : \A q \in 1..Len(b[j]) :
          NodeOf(b[j][q], d) /\ Place(b[j][q].key, c) = j
  BY DEF Stores, Right
<1>12. \A m : NodeOf(m, d) /\ m.key # k => NodeOf(m, e)
  BY <1>10 DEF NodeOf
<1>13. NodeOf(n, e)
  BY <1>1, <1>2, <1>4, <1>5, <1>10, <1>11 DEF NodeOf
<1>14. Right(a, c, e)
  <2> SUFFICES ASSUME NEW j \in 0..(c - 1), NEW q \in 1..Len(a[j])
               PROVE  NodeOf(a[j][q], e) /\ Place(a[j][q].key, c) = j
    BY DEF Right
  <2>1. q \in 1..Len(b[j]) /\ a[j][q].key = b[j][q].key
    BY <1>9 DEF SameKeys
  <2>2. Place(a[j][q].key, c) = j
    BY <1>11, <2>1
  <2>3. CASE a[j][q].key # k
    <3>1. ~ (j = i /\ q = p)
      BY <1>2, <2>1, <2>3
    <3>2. a[j][q] = b[j][q]
      BY <1>2, <1>6, <1>7, <2>1, <3>1
    <3> QED
      BY <1>11, <1>12, <2>1, <2>2, <2>3, <3>2
  <2>4. CASE a[j][q].key = k
    <3>1. j = i
      BY <2>2, <2>4
    <3>2. q = p
      BY <1>1, <2>1, <2>4, <3>1 DEF Stores, KeysApart
    <3> QED
      BY <1>6, <1>7, <1>13, <2>2, <3>1, <3>2
  <2> QED
    BY <2>3, <2>4
<1>15. Stored(a, c, e)
  <2> SUFFICES ASSUME NEW x \in DOMAIN d
               PROVE  \E q \in 1..Len(a[Place(x, c)]) : a[Place(x, c)][q].key = x
    BY <1>1, <1>10 DEF Stored
  <2>1. Place(x, c) \in 0..(c - 1)
    BY <1>1, PlaceIn DEF Dict
  <2>2. PICK q \in 1..Len(b[Place(x, c)]) : b[Place(x, c)][q].key = x
    BY DEF Stores, Stored
  <2> QED
    BY <1>9, <2>1, <2>2 DEF SameKeys
<1>16. \A j \in 0..(c - 1) : KeysApart(a[j])
  <2> SUFFICES ASSUME NEW j \in 0..(c - 1) PROVE KeysApart(a[j])
    OBVIOUS
  <2>1. KeysApart(b[j])
    BY DEF Stores
  <2> QED
    BY <1>9, <2>1 DEF SameKeys, KeysApart
<1>17. Stores(a, c, e)
  BY <1>1, <1>7, <1>14, <1>15, <1>16 DEF Stores, BucketsOf
<1> QED
  BY <1>2, <1>3, <1>9, <1>17

Cut(s, p) == SubSeq(s, 1, p - 1) \o SubSeq(s, p + 1, Len(s))
WithoutKey(d, k) == [x \in DOMAIN d \ {k} |-> d[x]]

LEMMA CutIs ==
    ASSUME NEW s \in Seq(NodeSet), NEW p \in 1..Len(s)
    PROVE  /\ Cut(s, p) \in Seq(NodeSet) /\ Len(Cut(s, p)) = Len(s) - 1
           /\ \A q \in 1..Len(Cut(s, p)) : Cut(s, p)[q] = IF q < p THEN s[q] ELSE s[q + 1]
<1>1. PICK n, u, w : n = Len(s) /\ u = SubSeq(s, 1, p - 1) /\ w = SubSeq(s, p + 1, n)
  OBVIOUS
<1>2. n \in Nat /\ p \in 1..n
  BY <1>1
<1>3. u \in Seq(NodeSet) /\ Len(u) = p - 1 /\ \A q \in 1..(p - 1) : u[q] = s[q]
  BY <1>1, <1>2
<1>4. w \in Seq(NodeSet) /\ Len(w) = n - p /\ \A q \in 1..(n - p) : w[q] = s[q + p]
  BY <1>1, <1>2
<1>5. PICK t : t = u \o w
  OBVIOUS
<1>6. /\ t \in Seq(NodeSet) /\ Len(t) = Len(u) + Len(w)
      /\ \A q \in 1..Len(t) : \/ q \in 1..Len(u) /\ t[q] = u[q]
                              \/ q - Len(u) \in 1..Len(w) /\ t[q] = w[q - Len(u)]
  BY <1>3, <1>4, <1>5, Joined, Zenon
<1>7. ASSUME NEW q \in 1..Len(t) PROVE t[q] = IF q < p THEN s[q] ELSE s[q + 1]
  <2>1. CASE q \in 1..Len(u) /\ t[q] = u[q]
    BY <1>2, <1>3, <2>1
  <2>2. CASE q - Len(u) \in 1..Len(w) /\ t[q] = w[q - Len(u)]
    <3>1. q - (p - 1) \in 1..(n - p) /\ (q - (p - 1)) + p = q + 1 /\ ~ (q < p)
      BY <1>2, <1>3, <1>4, <1>6, <2>2, SMTT(40)
    <3> QED
      BY <1>3, <1>4, <2>2, <3>1
  <2> QED
    BY <1>6, <2>1, <2>2
<1>8. Len(t) = n - 1
  BY <1>2, <1>3, <1>4, <1>6
<1> QED
  BY <1>1, <1>5, <1>6, <1>7, <1>8 DEF Cut

LEMMA RemovedStores ==
    ASSUME NEW b, NEW c, NEW d, Stores(b, c, d), Dict(d), NEW k \in DOMAIN d,
           NEW i, i = Place(k, c), NEW p \in 1..Len(b[i]), b[i][p].key = k
    PROVE  Stores([b EXCEPT ![i] = Cut(b[i], p)], c, WithoutKey(d, k))
<1>1. c \in Nat /\ c > 0 /\ b \in [0..(c - 1) -> Seq(NodeSet)] /\ i \in 0..(c - 1) /\ k \in Keys
  <2>1. c \in Nat /\ c > 0 /\ b \in [0..(c - 1) -> Seq(NodeSet)] /\ k \in Keys
    BY DEF Stores, BucketsOf, Stored, Dict
  <2> QED
    BY <2>1, PlaceIn
<1>2. PICK s, t, a, e : /\ s = b[i] /\ t = Cut(s, p) /\ a = [b EXCEPT ![i] = t]
                        /\ e = WithoutKey(d, k)
  OBVIOUS
<1>3. s \in Seq(NodeSet) /\ p \in 1..Len(s) /\ Len(s) \in Nat
  BY <1>1, <1>2
<1>4. /\ t \in Seq(NodeSet) /\ Len(t) = Len(s) - 1
      /\ \A q \in 1..Len(t) : t[q] = IF q < p THEN s[q] ELSE s[q + 1]
  BY <1>2, <1>3, CutIs, Zenon
<1> DEFINE old(q) == IF q < p THEN q ELSE q + 1
<1>5. /\ \A q \in 1..Len(t) : old(q) \in 1..Len(s) /\ old(q) # p /\ t[q] = s[old(q)]
      /\ \A q, r \in 1..Len(t) : old(q) = old(r) => q = r
      /\ \A q \in 1..Len(s) : q # p => \E r \in 1..Len(t) : old(r) = q
  <2>1. \A q \in 1..Len(t) : old(q) \in 1..Len(s) /\ old(q) # p
    BY <1>3, <1>4
  <2>2. \A q, r \in 1..Len(t) : old(q) = old(r) => q = r
    BY <1>3, <1>4
  <2>3. ASSUME NEW q \in 1..Len(s), q # p PROVE \E r \in 1..Len(t) : old(r) = q
    <3>1. CASE q < p
      BY <1>3, <1>4, <3>1
    <3>2. CASE q > p
      <4>1. q - 1 \in 1..Len(t) /\ old(q - 1) = q
        BY <1>3, <1>4, <3>2
      <4> QED
        BY <4>1
    <3> QED
      BY <1>3, <2>3, <3>1, <3>2
  <2> QED
    BY <1>4, <2>1, <2>2, <2>3
<1> HIDE DEF old
<1>6. /\ a \in [0..(c - 1) -> Seq(NodeSet)] /\ a[i] = t
      /\ \A j \in 0..(c - 1) : j # i => a[j] = b[j]
  BY <1>1, <1>2, <1>4
<1>7. DOMAIN e = DOMAIN d \ {k} /\ \A x \in DOMAIN e : e[x] = d[x]
  BY <1>2 DEF WithoutKey
<1>8. \A j \in 0..(c - 1) : \A q \in 1..Len(b[j]) :
          NodeOf(b[j][q], d) /\ Place(b[j][q].key, c) = j
  BY DEF Stores, Right
<1>9. \A m : NodeOf(m, d) /\ m.key # k => NodeOf(m, e)
  BY <1>7 DEF NodeOf
<1>10. KeysApart(s) /\ \A q \in 1..Len(s) : q # p => s[q].key # k
  BY <1>1, <1>2, <1>3 DEF Stores, KeysApart
<1>11. Right(a, c, e)
  <2> SUFFICES ASSUME NEW j \in 0..(c - 1), NEW q \in 1..Len(a[j])
               PROVE  NodeOf(a[j][q], e) /\ Place(a[j][q].key, c) = j
    BY DEF Right
  <2>1. CASE j = i
    <3>1. q \in 1..Len(t) /\ a[j][q] = s[old(q)] /\ old(q) \in 1..Len(s) /\ old(q) # p
      BY <1>5, <1>6, <2>1
    <3>2. NodeOf(s[old(q)], d) /\ Place(s[old(q)].key, c) = i
      BY <1>1, <1>2, <1>8, <3>1
    <3> QED
      BY <1>9, <1>10, <2>1, <3>1, <3>2
  <2>2. CASE j # i
    <3>1. a[j] = b[j] /\ NodeOf(b[j][q], d) /\ Place(b[j][q].key, c) = j
      BY <1>6, <1>8, <2>2
    <3>2. b[j][q].key # k
      BY <2>2, <3>1
    <3> QED
      BY <1>9, <3>1, <3>2
  <2> QED
    BY <2>1, <2>2
<1>12. Stored(a, c, e)
  <2> SUFFICES ASSUME NEW x \in DOMAIN d, x # k
               PROVE  \E q \in 1..Len(a[Place(x, c)]) : a[Place(x, c)][q].key = x
    BY <1>1, <1>7 DEF Stored
  <2>1. Place(x, c) \in 0..(c - 1)
    BY <1>1, PlaceIn DEF Dict
  <2>2. PICK q \in 1..Len(b[Place(x, c)]) : b[Place(x, c)][q].key = x
    BY DEF Stores, Stored
  <2>3. CASE Place(x, c) # i
    BY <1>6, <2>1, <2>2, <2>3
  <2>4. CASE Place(x, c) = i
    <3>1. q \in 1..Len(s) /\ s[q].key = x /\ q # p
      BY <1>2, <2>2, <2>4
    <3>2. PICK r \in 1..Len(t) : old(r) = q
      BY <1>5, <3>1
    <3>3. t[r].key = x
      BY <1>5, <3>1, <3>2
    <3> QED
      BY <1>6, <2>4, <3>3
  <2> QED
    BY <2>3, <2>4
<1>13. ASSUME NEW j \in 0..(c - 1) PROVE KeysApart(a[j])
  <2>1. CASE j # i
    BY <1>6, <2>1 DEF Stores
  <2>2. CASE j = i
    <3> SUFFICES ASSUME NEW q \in 1..Len(t), NEW r \in 1..Len(t), t[q].key = t[r].key PROVE q = r
      BY <1>6, <2>2 DEF KeysApart
    <3>1. old(q) = old(r)
      BY <1>5, <1>10 DEF KeysApart
    <3> QED
      BY <1>5, <3>1
  <2> QED
    BY <2>1, <2>2
<1>14. Stores(a, c, e)
  BY <1>1, <1>6, <1>11, <1>12, <1>13 DEF Stores, BucketsOf
<1> QED
  BY <1>2, <1>14

(* The iterator.                                                           *)
LEMMA SameWalk ==
    ASSUME NEW a, NEW b, NEW c \in Nat, NEW it, SameKeys(a, b, c), Walking(it, b, c)
    PROVE  Walking(it, a, c)
<1> SUFFICES ASSUME it.on PROVE AtNode(it, a, c) /\ Sees(it, a, c)
  BY DEF Walking
<1>1. it \in Iterators /\ AtNode(it, b, c) /\ Sees(it, b, c)
  BY DEF Walking
<1>2. \A i \in 1..(c - 1) : /\ Len(a[i]) = Len(b[i])
                            /\ \A p \in 1..Len(b[i]) : a[i][p].key = b[i][p].key
  BY DEF SameKeys
<1>3. AtNode(it, a, c)
  <2>1. PICK i, s, t, ch : i = it.index /\ s = b[i] /\ t = a[i] /\ ch = it.chain
    OBVIOUS
  <2>2. /\ i \in 1..(c - 1) /\ Len(ch) \in 1..Len(s)
        /\ \A p \in 1..Len(ch) : ch[p].key = s[Len(s) - Len(ch) + p].key
    BY <1>1, <2>1 DEF AtNode
  <2>3. Len(t) = Len(s) /\ \A p \in 1..Len(s) : t[p].key = s[p].key
    BY <1>2, <2>1, <2>2
  <2>4. ASSUME NEW p \in 1..Len(ch) PROVE ch[p].key = t[Len(t) - Len(ch) + p].key
    <3>1. Len(ch) \in Nat
      BY <1>1, <2>1 DEF Iterators
    <3>2. Len(s) \in Nat \/ Len(s) \notin Int
      BY <2>2
    <3>3. Len(s) - Len(ch) + p \in 1..Len(s)
      BY <2>2, <3>1
    <3> QED
      BY <2>2, <2>3, <3>3
  <2> QED
    BY <2>1, <2>2, <2>3, <2>4 DEF AtNode
<1>4. Sees(it, a, c)
  <2>1. \A i \in 1..(c - 1) : \A p : SeenTo(it, a, i, p) <=> SeenTo(it, b, i, p)
    BY <1>2 DEF SeenTo
  <2>2. ASSUME NEW i \in 1..(c - 1), NEW p \in 1..Len(a[i]), SeenTo(it, a, i, p)
        PROVE  \E j \in 1..Len(it.seen) : it.seen[j] = a[i][p].key
    <3>1. p \in 1..Len(b[i]) /\ a[i][p].key = b[i][p].key /\ SeenTo(it, b, i, p)
      <4>1. Len(a[i]) = Len(b[i]) /\ \A q \in 1..Len(b[i]) : a[i][q].key = b[i][q].key
        BY <1>2, Zenon
      <4>2. p \in 1..Len(b[i])
        BY <4>1, Zenon
      <4>3. SeenTo(it, b, i, p)
        BY <2>1, <2>2, Zenon
      <4> QED
        BY <4>1, <4>2, <4>3, Zenon
    <3>2. \A j \in 1..(c - 1) : \A q \in 1..Len(b[j]) :
             SeenTo(it, b, j, q) => \E l \in 1..Len(it.seen) : it.seen[l] = b[j][q].key
      BY <1>1, Zenon DEF Sees
    <3>3. \E l \in 1..Len(it.seen) : it.seen[l] = b[i][p].key
      BY <3>1, <3>2, Zenon
    <3> QED
      BY <3>1, <3>3, Zenon
  <2>3. ASSUME NEW j \in 1..Len(it.seen)
        PROVE  \E i \in 1..(c - 1) : \E p \in 1..Len(a[i]) :
                  SeenTo(it, a, i, p) /\ it.seen[j] = a[i][p].key
    <3>1. PICK i \in 1..(c - 1) : \E p \in 1..Len(b[i]) :
              SeenTo(it, b, i, p) /\ it.seen[j] = b[i][p].key
      BY <1>1 DEF Sees
    <3> QED
      BY <1>2, <2>1, <3>1
  <2> QED
    BY <1>1, <2>2, <2>3 DEF Sees
<1> QED
  BY <1>3, <1>4

(* One more node is seen.                                                  *)
LEMMA SeesMore ==
    ASSUME NEW b, NEW c, NEW d, Stores(b, c, d), NEW it \in Iterators, NEW r \in Iterators,
           Sees(it, b, c), NEW i \in 1..(c - 1), NEW p \in 1..Len(b[i]),
           ~ SeenTo(it, b, i, p), r.seen = Append(it.seen, b[i][p].key),
           \A j \in 1..(c - 1) : \A q \in 1..Len(b[j]) :
              SeenTo(r, b, j, q) <=> SeenTo(it, b, j, q) \/ (j = i /\ q = p)
    PROVE  Sees(r, b, c)
<1>1. PICK s, t, n, k : s = it.seen /\ t = r.seen /\ n = Len(s) /\ k = b[i][p].key
  OBVIOUS
<1>2. c \in Nat /\ s \in Seq(Keys) /\ n \in Nat /\ i \in 0..(c - 1)
  BY <1>1 DEF Iterators, Stores, BucketsOf
<1>3. k \in Keys
  <2>1. b[i][p] \in NodeSet
    BY <1>2 DEF Stores, BucketsOf
  <2> QED
    BY <1>1, <2>1 DEF NodeSet
<1>4. Len(t) = n + 1 /\ t[n + 1] = k /\ \A j \in 1..n : t[j] = s[j]
  BY <1>1, <1>2, <1>3
<1>5. \A j \in 1..(n + 1) : j \in 1..n \/ j = n + 1
  BY <1>2
<1>6. n + 1 \in 1..(n + 1) /\ \A j \in 1..n : j \in 1..(n + 1)
  BY <1>2
<1>7. \A j \in 1..n : s[j] # k
  <2> SUFFICES ASSUME NEW j \in 1..n, s[j] = k PROVE FALSE
    OBVIOUS
  <2>1. PICK l \in 1..(c - 1) : \E q \in 1..Len(b[l]) : SeenTo(it, b, l, q) /\ s[j] = b[l][q].key
    BY <1>1, ZenonT(40) DEF Sees
  <2>2. PICK q \in 1..Len(b[l]) : SeenTo(it, b, l, q) /\ s[j] = b[l][q].key
    BY <2>1
  <2>3. l \in 0..(c - 1) /\ Place(b[l][q].key, c) = l /\ Place(b[i][p].key, c) = i
    BY <1>2 DEF Stores, Right
  <2>4. l = i
    BY <1>1, <2>2, <2>3
  <2>5. q = p
    BY <1>1, <2>2, <2>3, <2>4 DEF Stores, KeysApart
  <2> QED
    BY <2>2, <2>4, <2>5
<1>8. ASSUME NEW l \in 1..(c - 1), NEW q \in 1..Len(b[l]), SeenTo(r, b, l, q)
      PROVE  \E j \in 1..(n + 1) : t[j] = b[l][q].key
  <2>1. CASE l = i /\ q = p
    BY <1>1, <1>4, <1>6, <2>1
  <2>2. CASE SeenTo(it, b, l, q)
    <3>1. PICK j \in 1..n : s[j] = b[l][q].key
      BY <1>1, <2>2 DEF Sees
    <3> QED
      BY <1>4, <1>6, <3>1
  <2> QED
    BY <1>8, <2>1, <2>2
<1>9. ASSUME NEW j \in 1..(n + 1)
      PROVE  \E l \in 1..(c - 1) : \E q \in 1..Len(b[l]) :
                SeenTo(r, b, l, q) /\ t[j] = b[l][q].key
  <2>1. CASE j = n + 1
    BY <1>1, <1>4, <2>1
  <2>2. CASE j \in 1..n
    <3>1. PICK l \in 1..(c - 1) : \E q \in 1..Len(b[l]) : SeenTo(it, b, l, q) /\ s[j] = b[l][q].key
      BY <1>1, <2>2 DEF Sees
    <3> QED
      BY <1>4, <2>2, <3>1
  <2> QED
    BY <1>5, <2>1, <2>2
<1>10. ASSUME NEW j \in 1..(n + 1), NEW l \in 1..(n + 1), t[j] = t[l] PROVE j = l
  <2>1. \A x, y \in 1..n : s[x] = s[y] => x = y
    BY <1>1 DEF Sees
  <2> QED
    BY <1>4, <1>5, <1>7, <1>10, <2>1
<1>11. /\ \A l \in 1..(c - 1) : \A q \in 1..Len(b[l]) :
             SeenTo(r, b, l, q) => \E j \in 1..Len(r.seen) : r.seen[j] = b[l][q].key
       /\ \A j \in 1..Len(r.seen) : \E l \in 1..(c - 1) : \E q \in 1..Len(b[l]) :
             SeenTo(r, b, l, q) /\ r.seen[j] = b[l][q].key
  <2>1. r.seen = t /\ Len(r.seen) = n + 1
    BY <1>1, <1>4
  <2> QED
    BY <1>8, <1>9, <2>1, ZenonT(40)
<1>12. \A j, l \in 1..Len(r.seen) : r.seen[j] = r.seen[l] => j = l
  BY <1>1, <1>4, <1>10
<1> QED
  BY <1>11, <1>12, Zenon DEF Sees

(* What moving an iterator makes of its fields.                            *)
Onwards(it, u, t) == [it EXCEPT !.chain = u, !.seen = t]
Finished(it, i, u) == [it EXCEPT !.on = FALSE, !.index = i, !.chain = u]
Entered(it, i, u, t) == [it EXCEPT !.index = i, !.chain = u, !.seen = t]
HasFields(it, o, i, u, t) ==
    it \in Iterators /\ it.on = o /\ it.index = i /\ it.chain = u /\ it.seen = t

LEMMA Fields ==
    ASSUME NEW it \in Iterators, NEW i \in Nat, NEW u \in Seq(NodeSet), NEW t \in Seq(Keys)
    PROVE  /\ HasFields(Onwards(it, u, t), it.on, it.index, u, t)
           /\ HasFields(Finished(it, i, u), FALSE, i, u, it.seen)
           /\ HasFields(Entered(it, i, u, t), it.on, i, u, t)
<1>1. PICK A, B : A = Seq(NodeSet) /\ B = Seq(Keys)
  OBVIOUS
<1>2. Iterators = [on : BOOLEAN, index : Nat, chain : A, seen : B] /\ u \in A /\ t \in B
  BY <1>1 DEF Iterators
<1> QED
  BY <1>2 DEF HasFields, Onwards, Finished, Entered

Starts(it) == it.index = 0 /\ it.chain = <<>>
ChainsFrom(i) == {j \in i + 1 .. bucketCount - 1 : buckets[j] # <<>>}

LEMMA NextWalk ==
    ASSUME Stores(buckets, bucketCount, dict), bucketCount > 0, NEW it \in Iterators, it.on,
           Sees(it, buckets, bucketCount),
           AtNode(it, buckets, bucketCount) \/ Starts(it),
           NEW r, r = Map_iter_next(it)
    PROVE  /\ r \in Iterators /\ Sees(r, buckets, bucketCount)
           /\ r.on => AtNode(r, buckets, bucketCount)
           /\ ~ r.on => r.index = bucketCount
<1>1. PICK b, c, ch, i, full : /\ b = buckets /\ c = bucketCount /\ ch = it.chain /\ i = it.index
                               /\ full = ChainsFrom(i)
  OBVIOUS
<1>2. /\ c \in Nat /\ c > 0 /\ b \in [0..(c - 1) -> Seq(NodeSet)] /\ Stores(b, c, dict)
      /\ Sees(it, b, c) /\ (AtNode(it, b, c) \/ Starts(it))
  BY <1>1 DEF Stores, BucketsOf
<1>3. /\ ch \in Seq(NodeSet) /\ i \in Nat /\ it.seen \in Seq(Keys) /\ Len(ch) \in Nat
      /\ it \in [on : BOOLEAN, index : Nat, chain : Seq(NodeSet), seen : Seq(Keys)]
  <2>1. it \in [on : BOOLEAN, index : Nat, chain : Seq(NodeSet), seen : Seq(Keys)]
    BY DEF Iterators
  <2> QED
    BY <1>1, <2>1
<1>4. full = {j \in i + 1 .. c - 1 : b[j] # <<>>}
  BY <1>1 DEF ChainsFrom
<1>5. CASE Len(ch) > 1
  <2>1. AtNode(it, b, c)
    <3>1. ch # <<>>
      BY <1>3, <1>5
    <3> QED
      BY <1>1, <1>2, <3>1 DEF Starts
  <2>2. PICK s, p : s = b[i] /\ p = Len(s) - Len(ch) + 2
    OBVIOUS
  <2>3. /\ i \in 1..(c - 1) /\ s \in Seq(NodeSet) /\ Len(s) \in Nat /\ Len(ch) <= Len(s)
        /\ \A q \in 1..Len(ch) : ch[q].key = s[Len(s) - Len(ch) + q].key
    <3>1. /\ i \in 1..(c - 1) /\ Len(ch) \in 1..Len(s)
          /\ \A q \in 1..Len(ch) : ch[q].key = s[Len(s) - Len(ch) + q].key
      BY <1>1, <2>1, <2>2 DEF AtNode
    <3>2. s \in Seq(NodeSet)
      BY <1>2, <2>2, <3>1
    <3>3. Len(s) \in Nat
      BY <3>2
    <3> QED
      BY <1>3, <3>1, <3>2, <3>3
  <2>4. r = [it EXCEPT !.chain = Tail(@), !.seen = Append(@, ch[2].key)]
    BY <1>1, <1>5, Zenon DEF Map_iter_next
  <2>5. PICK u, k : u = Tail(ch) /\ k = ch[2].key
    OBVIOUS
  <2>6. /\ u \in Seq(NodeSet) /\ Len(u) = Len(ch) - 1 /\ k \in Keys
        /\ \A q \in 1..Len(u) : u[q] = ch[q + 1]
    <3>1. ch # <<>> /\ 2 \in 1..Len(ch)
      BY <1>3, <1>5
    <3>2. ch[2] \in NodeSet
      BY <1>3, <3>1
    <3> QED
      BY <1>3, <2>5, <3>1, <3>2 DEF NodeSet
  <2>7. r.on = TRUE /\ r.index = i /\ r.chain = u /\ r.seen = Append(it.seen, k) /\ r \in Iterators
    <3>1. PICK t : t = Append(it.seen, k)
      OBVIOUS
    <3>2. t \in Seq(Keys)
      BY <1>3, <2>6, <3>1
    <3>3. r = Onwards(it, u, t)
      BY <1>1, <2>4, <2>5, <3>1 DEF Onwards
    <3>4. HasFields(r, it.on, it.index, u, t)
      BY <1>3, <2>6, <3>2, <3>3, Fields, Zenon
    <3> QED
      BY <1>1, <3>1, <3>4 DEF HasFields
  <2>8. p \in 1..Len(s) /\ k = s[p].key
    <3>1. PICK m, x : m = Len(s) /\ x = Len(ch)
      OBVIOUS
    <3>2. p \in 1..m /\ 2 \in 1..x
      BY <1>3, <1>5, <2>2, <2>3, <3>1
    <3>3. ch[2].key = s[Len(s) - Len(ch) + 2].key
      BY <2>3, <3>1, <3>2, Zenon
    <3> QED
      BY <2>2, <2>5, <3>1, <3>2, <3>3
  <2>9. AtNode(r, b, c)
    <3>1. Len(u) \in 1..Len(s)
      BY <1>3, <1>5, <2>3, <2>6
    <3>2. ASSUME NEW q \in 1..Len(u) PROVE u[q].key = s[Len(s) - Len(u) + q].key
      <4>1. q + 1 \in 1..Len(ch) /\ Len(s) - Len(ch) + (q + 1) = Len(s) - Len(u) + q
        <5>1. PICK m, x, y : m = Len(s) /\ x = Len(ch) /\ y = Len(u)
          OBVIOUS
        <5>2. m \in Nat /\ x \in Nat /\ y = x - 1 /\ q \in 1..y
          BY <1>3, <2>3, <2>6, <5>1
        <5>3. q + 1 \in 1..x /\ m - x + (q + 1) = m - y + q
          BY <5>2
        <5> QED
          BY <5>1, <5>3
      <4> QED
        BY <2>3, <2>6, <4>1, Zenon
    <3> QED
      BY <2>2, <2>3, <2>7, <3>1, <3>2 DEF AtNode
  <2>10. ~ SeenTo(it, b, i, p)
    BY <1>1, <1>3, <2>2, <2>3 DEF SeenTo
  <2>11. ASSUME NEW j \in 1..(c - 1), NEW q \in 1..Len(b[j])
         PROVE  SeenTo(r, b, j, q) <=> SeenTo(it, b, j, q) \/ (j = i /\ q = p)
    <3>1. CASE j # i
      BY <1>1, <2>7, <3>1 DEF SeenTo
    <3>2. CASE j = i
      <4>1. SeenTo(r, b, j, q) <=> q + Len(u) <= Len(s) + 1
        BY <1>3, <2>2, <2>7, <3>2 DEF SeenTo
      <4>2. SeenTo(it, b, j, q) <=> q + Len(ch) <= Len(s) + 1
        BY <1>1, <1>3, <2>2, <3>2 DEF SeenTo
      <4>3. q + Len(u) <= Len(s) + 1 <=> (q + Len(ch) <= Len(s) + 1 \/ q = p)
        <5>1. PICK m, x, y : m = Len(s) /\ x = Len(ch) /\ y = Len(u)
          OBVIOUS
        <5>2. m \in Nat /\ x \in Nat /\ y = x - 1 /\ p = m - x + 2 /\ q \in Nat
          BY <1>3, <2>2, <2>3, <2>6, <3>2, <5>1
        <5>3. q + y <= m + 1 <=> (q + x <= m + 1 \/ q = p)
          BY <5>2
        <5> QED
          BY <5>1, <5>3
      <4> QED
        BY <3>2, <4>1, <4>2, <4>3
    <3> QED
      BY <3>1, <3>2
  <2>12. Sees(r, b, c)
    <3>1. r.seen = Append(it.seen, b[i][p].key) /\ p \in 1..Len(b[i])
      BY <2>2, <2>7, <2>8
    <3> QED
      BY <1>2, <2>3, <2>7, <2>10, <2>11, <3>1, SeesMore
  <2> QED
    BY <1>1, <2>7, <2>9, <2>12
<1>6. ASSUME ~ (Len(ch) > 1), NEW j \in 1..(c - 1), NEW q \in 1..Len(b[j])
      PROVE  SeenTo(it, b, j, q) <=> j <= i
  <2>1. Len(b[j]) \in Nat /\ Len(ch) <= 1
    BY <1>2, <1>3, <1>6
  <2>2. q + Len(ch) <= Len(b[j]) + 1
    BY <1>3, <2>1
  <2> QED
    BY <1>1, <1>3, <2>2 DEF SeenTo
<1>7. CASE ~ (Len(ch) > 1) /\ full = {}
  <2>1. r = [it EXCEPT !.on = FALSE, !.index = bucketCount, !.chain = <<>>]
    BY <1>1, <1>7 DEF Map_iter_next, ChainsFrom
  <2>2. /\ r.on = FALSE /\ r.index = c /\ r.chain = <<>> /\ r.seen = it.seen /\ r \in Iterators
    <3>1. <<>> \in Seq(NodeSet)
      OBVIOUS
    <3>2. r = Finished(it, c, <<>>)
      BY <1>1, <2>1 DEF Finished
    <3>3. HasFields(r, FALSE, c, <<>>, it.seen)
      BY <1>2, <1>3, <3>1, <3>2, Fields, Zenon
    <3> QED
      BY <3>3 DEF HasFields
  <2>3. ASSUME NEW j \in 1..(c - 1), NEW q \in 1..Len(b[j])
        PROVE  SeenTo(r, b, j, q) /\ SeenTo(it, b, j, q)
    <3>1. SeenTo(r, b, j, q)
      BY <1>2, <2>2 DEF SeenTo
    <3>2. b[j] # <<>>
      BY <1>2
    <3>3. j <= i
      <4>1. j \in Nat /\ j <= c - 1 /\ j \notin i + 1 .. c - 1
        <5>1. j \notin i + 1 .. c - 1
          BY <1>4, <1>7, <3>2, Zenon
        <5> QED
          BY <1>2, <5>1
      <4> QED
        BY <1>2, <1>3, <4>1
    <3> QED
      BY <1>6, <1>7, <3>1, <3>3
  <2>4. Sees(r, b, c)
    BY <1>2, <2>2, <2>3 DEF Sees
  <2> QED
    BY <1>1, <2>2, <2>4
<1>8. CASE ~ (Len(ch) > 1) /\ full # {}
  <2>1. PICK l : l = CHOOSE x \in full : \A y \in full : x <= y
    OBVIOUS
  <2>2. l \in full /\ \A y \in full : l <= y
    <3>1. full \subseteq Nat
      BY <1>2, <1>3, <1>4
    <3>2. \E x \in full : \A y \in full : x <= y
      BY <1>8, <3>1, NatLeast
    <3> QED
      BY <2>1, <3>2, Zenon
  <2>3. l \in 1..(c - 1) /\ l > i /\ b[l] \in Seq(NodeSet) /\ b[l] # <<>> /\ Len(b[l]) \in Nat
    BY <1>2, <1>3, <1>4, <2>2
  <2>4. 1 \in 1..Len(b[l]) /\ b[l][1] \in NodeSet /\ b[l][1].key \in Keys
    <3>1. 1 \in 1..Len(b[l])
      BY <2>3
    <3>2. b[l][1] \in NodeSet
      BY <2>3, <3>1
    <3> QED
      BY <3>1, <3>2 DEF NodeSet
  <2>5. r = [it EXCEPT !.index = l, !.chain = b[l], !.seen = Append(@, b[l][1].key)]
    <3>1. l = CHOOSE x \in ChainsFrom(it.index) : \A y \in ChainsFrom(it.index) : x <= y
      BY <1>1, <2>1
    <3> QED
      BY <1>1, <1>8, <3>1, Zenon DEF Map_iter_next, ChainsFrom
  <2>6. /\ r.on = TRUE /\ r.index = l /\ r.chain = b[l] /\ r.seen = Append(it.seen, b[l][1].key)
        /\ r \in Iterators
    <3>1. PICK t : t = Append(it.seen, b[l][1].key)
      OBVIOUS
    <3>2. t \in Seq(Keys) /\ l \in Nat
      BY <1>3, <2>3, <2>4, <3>1
    <3>3. r = Entered(it, l, b[l], t)
      BY <2>5, <3>1 DEF Entered
    <3>4. HasFields(r, it.on, l, b[l], t)
      BY <2>3, <3>2, <3>3, Fields, Zenon
    <3> QED
      BY <3>1, <3>4 DEF HasFields
  <2>7. AtNode(r, b, c)
    <3>1. Len(b[l]) \in 1..Len(b[l]) /\ \A q \in 1..Len(b[l]) : Len(b[l]) - Len(b[l]) + q = q
      BY <2>3, <2>4
    <3> QED
      BY <2>3, <2>6, <3>1 DEF AtNode
  <2>8. ~ SeenTo(it, b, l, 1)
    BY <1>3, <1>6, <1>8, <2>3, <2>4
  <2>9. ASSUME NEW j \in 1..(c - 1), NEW q \in 1..Len(b[j])
        PROVE  SeenTo(r, b, j, q) <=> SeenTo(it, b, j, q) \/ (j = l /\ q = 1)
    <3>1. b[j] # <<>> /\ Len(b[j]) \in Nat
      BY <1>2
    <3>2. j > i => j >= l
      BY <1>2, <1>3, <1>4, <2>2, <3>1
    <3>3. SeenTo(r, b, j, q) <=> j < l \/ (j = l /\ q = 1)
      BY <2>3, <2>6, <3>1 DEF SeenTo
    <3>4. SeenTo(it, b, j, q) <=> j <= i
      BY <1>6, <1>8
    <3> QED
      BY <1>3, <2>3, <3>2, <3>3, <3>4
  <2>10. Sees(r, b, c)
    BY <1>2, <2>3, <2>4, <2>6, <2>8, <2>9, SeesMore, ZenonT(40)
  <2> QED
    BY <1>1, <2>6, <2>7, <2>10
<1> QED
  BY <1>3, <1>5, <1>7, <1>8

(* Each operation preserves the invariant.                                 *)
LEMMA ClosedWalks == ASSUME NEW b, NEW c PROVE Walking(Closed, b, c)
<1>1. Closed.on = FALSE /\ Closed.index = 0 /\ Closed.chain = <<>> /\ Closed.seen = <<>>
  BY DEF Closed
<1>2. Closed \in Iterators
  BY DEF Closed, Iterators
<1> QED
  BY <1>1, <1>2 DEF Walking

LEMMA NewCount ==
    ASSUME NEW c, Stores(buckets', c, dict')
    PROVE  bucketCount' = c /\ Stores(buckets', bucketCount', dict')
<1>1. Cardinality(DOMAIN buckets') = c
  BY BucketsCounted DEF Stores
<1> QED
  BY <1>1 DEF bucketCount

LEMMA EmptyStores ==
    ASSUME NEW c \in Nat, NEW b, b = [i \in 0..c - 1 |-> <<>>], NEW d, DOMAIN d = {}
    PROVE  Stores(b, c, d)
<1>1. \A i \in 0..(c - 1) : b[i] = <<>> /\ 1..Len(b[i]) = {}
  OBVIOUS
<1>2. b \in [0..(c - 1) -> Seq(NodeSet)]
  OBVIOUS
<1> QED
  BY <1>1, <1>2 DEF Stores, BucketsOf, Right, Stored, KeysApart

LEMMA NoBuckets ==
    ASSUME NEW d, DOMAIN d = {}
    PROVE  Stores([i \in {} |-> <<>>], 0, d)
<1>1. 0..(0 - 1) = {} /\ 0..0 - 1 = {}
  OBVIOUS
<1>2. [i \in {} |-> <<>>] = [i \in 0..0 - 1 |-> <<>>]
  BY <1>1, Zenon
<1> QED
  BY <1>2, EmptyStores

LEMMA EmptyDict ==
    ASSUME NEW d, d = [k \in {} |-> 0]
    PROVE  DOMAIN d = {} /\ Dict(d) /\ IsFiniteSet(DOMAIN d) /\ Cardinality(DOMAIN d) = 0
<1>1. DOMAIN d = {} /\ Dict(d)
  BY DEF Dict
<1> QED
  BY <1>1, FS_EmptySet

LEMMA InitHolds == MapInit => MapInv
<1> SUFFICES ASSUME MapInit PROVE MapInv
  OBVIOUS
<1>1. Stores(buckets, 0, dict) /\ DOMAIN dict = {} /\ Dict(dict)
      /\ IsFiniteSet(DOMAIN dict) /\ nodeCount = Cardinality(DOMAIN dict)
  BY EmptyDict, NoBuckets DEF MapInit
<1>2. bucketCount = 0
  BY <1>1, BucketsCounted DEF Stores, bucketCount
<1> QED
  BY <1>1, <1>2, ClosedWalks DEF MapInv, MapInit

LEMMA Map_initInv == ASSUME MapInv, Map_init PROVE MapInv'
<1>1. /\ DOMAIN dict = {} /\ Stores(buckets, bucketCount, dict) /\ Dict(dict)
      /\ Walking(ite, buckets, bucketCount)
  BY DEF MapInv, Map_init
<1>2. UNCHANGED <<nodeCount, dict, ite>> /\ live'
  BY DEF Map_init
<1>3. \E c : Stores(buckets', c, dict')
  <2>1. DOMAIN dict' = {}
    BY <1>1, <1>2
  <2>2. PICK size \in InitSizes : \/ buckets' = [i \in 0..size - 1 |-> <<>>]
                                  \/ buckets' = [i \in {} |-> <<>>]
    BY DEF Map_init
  <2>3. size \in Nat
    BY MapAssumption
  <2> QED
    BY <2>1, <2>2, <2>3, EmptyStores, NoBuckets
<1>4. Stores(buckets', bucketCount', dict')
  BY <1>3, NewCount
<1>5. ~ ite.on
  <2> SUFFICES ASSUME ite.on PROVE FALSE
    OBVIOUS
  <2>1. PICK i : i = ite.index
    OBVIOUS
  <2>2. AtNode(ite, buckets, bucketCount) /\ bucketCount \in Nat
    BY <1>1 DEF Walking, Stores, BucketsOf
  <2>3. i \in 0..(bucketCount - 1) /\ Len(ite.chain) \in 1..Len(buckets[i])
    BY <2>1, <2>2 DEF AtNode
  <2>4. Len(ite.chain) \in Nat /\ Len(buckets[i]) \in Nat
    BY <1>1, <2>3 DEF Walking, Iterators, Stores, BucketsOf
  <2>5. 1 \in 1..Len(buckets[i])
    BY <2>3, <2>4
  <2>6. NodeOf(buckets[i][1], dict)
    BY <1>1, <2>3, <2>5 DEF Stores, Right
  <2> QED
    BY <1>1, <2>6 DEF NodeOf
<1>6. Walking(ite', buckets', bucketCount')
  BY <1>1, <1>2, <1>5 DEF Walking
<1> QED
  BY <1>1, <1>2, <1>4, <1>6 DEF MapInv

LEMMA Map_deinitInv == ASSUME MapInv, Map_deinit PROVE MapInv'
<1>1. /\ DOMAIN dict' = {} /\ Dict(dict') /\ IsFiniteSet(DOMAIN dict')
      /\ Cardinality(DOMAIN dict') = 0 /\ nodeCount' = 0 /\ ite' = Closed
  BY EmptyDict DEF Map_deinit
<1>2. Stores(buckets', 0, dict')
  BY <1>1, NoBuckets DEF Map_deinit
<1>3. Stores(buckets', bucketCount', dict')
  BY <1>2, NewCount
<1> QED
  BY <1>1, <1>3, ClosedWalks DEF MapInv

LEMMA SetInPlaceInv ==
    ASSUME MapInv, NEW k \in Keys, NEW v \in Values, SetInPlace(k, v)
    PROVE  MapInv'
<1>1. PICK c, i, p : c = bucketCount /\ i = Place(k, c) /\ p = Map_get_ref(k)
  OBVIOUS
<1>2. /\ Stores(buckets, c, dict) /\ Dict(dict) /\ Walking(ite, buckets, c)
      /\ IsFiniteSet(DOMAIN dict) /\ nodeCount = Cardinality(DOMAIN dict)
  BY <1>1 DEF MapInv
<1>3. /\ p > 0 /\ live /\ buckets' = [buckets EXCEPT ![i][p].value = v]
      /\ dict' = WithKey(dict, k, v) /\ UNCHANGED <<nodeCount, live, ite>>
  BY <1>1 DEF SetInPlace, Place, WithValue, WithKey, MapReady
<1>4. /\ k \in DOMAIN dict /\ c \in Nat /\ p \in 1..Len(buckets[i]) /\ buckets[i][p].key = k
  BY <1>1, <1>2, <1>3, GetRef
<1>5. Stores(buckets', c, dict') /\ SameKeys(buckets', buckets, c)
  BY <1>1, <1>2, <1>3, <1>4, ReplacedStores, Zenon
<1>6. bucketCount' = c /\ Stores(buckets', bucketCount', dict')
  BY <1>5, NewCount
<1>7. Walking(ite', buckets', bucketCount')
  <2>1. PICK a : a = buckets'
    OBVIOUS
  <2>2. Walking(ite, a, c)
    BY <1>2, <1>4, <1>5, <2>1, SameWalk
  <2> QED
    BY <1>3, <1>6, <2>1, <2>2
<1>8. Dict(dict') /\ DOMAIN dict' = DOMAIN dict
  <2>1. Dict(dict') /\ DOMAIN dict' = DOMAIN dict \cup {k}
    BY <1>2, <1>3, DictWith
  <2> QED
    BY <1>4, <2>1
<1> QED
  BY <1>2, <1>3, <1>6, <1>7, <1>8 DEF MapInv

LEMMA SetNewInv ==
    ASSUME MapInv, NEW k \in Keys, NEW v \in Values, SetNew(k, v)
    PROVE  MapInv'
<1>1. PICK c, b, n : /\ n = Node(k, v)
                     /\ c = IF nodeCount >= bucketCount THEN NextSize ELSE bucketCount
                     /\ b = IF nodeCount >= bucketCount THEN Map_resized(NextSize) ELSE buckets
  OBVIOUS
<1>2. /\ Stores(buckets, bucketCount, dict) /\ Dict(dict)
      /\ IsFiniteSet(DOMAIN dict) /\ nodeCount = Cardinality(DOMAIN dict)
  BY DEF MapInv
<1>3. /\ buckets' = Added(b, n) /\ dict' = WithKey(dict, k, v) /\ nodeCount' = nodeCount + 1
      /\ ite' = Closed /\ live' = live /\ live /\ Map_get_ref(k) = 0
  BY <1>1 DEF SetNew, WithValue, WithKey, MapReady
<1>4. k \notin DOMAIN dict
  BY <1>2, <1>3, GetRef
<1>5. n \in NodeSet /\ n.key = k /\ n.hash = Hash[k] /\ n.value = v
  <2>1. Hash[k] \in Nat
    BY MapAssumption
  <2> QED
    BY <1>1, <2>1 DEF Node, NodeSet
<1>6. nodeCount \in Nat /\ bucketCount \in Nat
  BY <1>2, FS_CardinalityType DEF Stores, BucketsOf
<1>7. c \in Nat /\ c > 0 /\ Stores(b, c, dict)
  <2>1. CASE nodeCount >= bucketCount
    <3>1. NextSize \in Nat /\ NextSize > 0
      BY <1>6, MapAssumption DEF NextSize
    <3> QED
      BY <1>1, <1>2, <2>1, <3>1, ResizedStores
  <2>2. CASE ~ (nodeCount >= bucketCount)
    BY <1>1, <1>2, <1>6, <2>2
  <2> QED
    BY <2>1, <2>2
<1>8. Stores(buckets', c, dict')
  <2>1. Stores(Added(b, n), c, WithKey(dict, n.key, n.value))
    BY <1>2, <1>4, <1>5, <1>7, AddedStores
  <2> QED
    BY <1>3, <1>5, <2>1
<1>9. Stores(buckets', bucketCount', dict')
  BY <1>8, NewCount
<1>10. Dict(dict') /\ DOMAIN dict' = DOMAIN dict \cup {k}
  BY <1>2, <1>3, DictWith
<1>11. IsFiniteSet(DOMAIN dict') /\ nodeCount' = Cardinality(DOMAIN dict')
  <2>1. /\ IsFiniteSet(DOMAIN dict \cup {k})
        /\ Cardinality(DOMAIN dict \cup {k}) = Cardinality(DOMAIN dict) + 1
    BY <1>2, <1>4, FS_AddElement
  <2> QED
    BY <1>2, <1>3, <1>10, <2>1
<1> QED
  BY <1>3, <1>9, <1>10, <1>11, ClosedWalks DEF MapInv

LEMMA SetFailsInv == ASSUME MapInv, NEW k \in Keys, SetFails(k) PROVE MapInv'
<1>1. UNCHANGED <<buckets, nodeCount, live, dict>> /\ (ite' = ite \/ ite' = Closed)
  BY DEF SetFails
<1>2. bucketCount' = bucketCount
  BY <1>1 DEF bucketCount
<1>3. Walking(ite', buckets', bucketCount')
  BY <1>1, <1>2, ClosedWalks DEF MapInv
<1> QED
  BY <1>1, <1>2, <1>3 DEF MapInv

LEMMA Map_removeInv == ASSUME MapInv, NEW k \in Keys, Map_remove(k) PROVE MapInv'
<1>1. PICK c, i, p : c = bucketCount /\ i = Place(k, c) /\ p = Map_get_ref(k)
  OBVIOUS
<1>2. /\ Stores(buckets, c, dict) /\ Dict(dict) /\ Walking(ite, buckets, c)
      /\ IsFiniteSet(DOMAIN dict) /\ nodeCount = Cardinality(DOMAIN dict)
  BY <1>1 DEF MapInv
<1>3. CASE p = 0
  <2>1. UNCHANGED <<buckets, nodeCount, live, dict, ite>>
    BY <1>1, <1>3 DEF Map_remove
  <2>2. bucketCount' = bucketCount
    BY <2>1 DEF bucketCount
  <2> QED
    BY <2>1, <2>2 DEF MapInv
<1>4. CASE p # 0
  <2>1. /\ buckets' = [buckets EXCEPT ![i] = Cut(buckets[i], p)]
        /\ nodeCount' = nodeCount - 1 /\ dict' = WithoutKey(dict, k)
        /\ ite' = Closed /\ live /\ live' = live
    BY <1>1, <1>4 DEF Map_remove, Place, WithoutKey, Cut, MapReady
  <2>2. k \in DOMAIN dict /\ p \in 1..Len(buckets[i]) /\ buckets[i][p].key = k
    BY <1>1, <1>2, <1>4, GetRef
  <2>3. Stores(buckets', c, dict')
    BY <1>1, <1>2, <2>1, <2>2, RemovedStores, Zenon
  <2>4. Stores(buckets', bucketCount', dict')
    BY <2>3, NewCount
  <2>5. DOMAIN dict' = DOMAIN dict \ {k} /\ Dict(dict')
    BY <1>2, <2>1 DEF WithoutKey, Dict
  <2>6. IsFiniteSet(DOMAIN dict') /\ nodeCount' = Cardinality(DOMAIN dict')
    <3>1. /\ IsFiniteSet(DOMAIN dict \ {k})
          /\ Cardinality(DOMAIN dict \ {k}) = Cardinality(DOMAIN dict) - 1
      BY <1>2, <2>2, FS_RemoveElement
    <3> QED
      BY <1>2, <2>1, <2>5, <3>1
  <2> QED
    BY <2>1, <2>4, <2>5, <2>6, ClosedWalks DEF MapInv
<1> QED
  BY <1>3, <1>4

(* A step of the iterator, from its start or from a node.                  *)
WalkStep ==
    /\ UNCHANGED <<buckets, nodeCount, live, dict>> /\ bucketCount' = bucketCount
    /\ ite' \in Iterators /\ Sees(ite', buckets, bucketCount)
    /\ ite'.on => AtNode(ite', buckets, bucketCount)
    /\ ~ ite'.on => ite'.index = bucketCount

LEMMA Map_beginStep == ASSUME MapInv, Map_begin PROVE WalkStep
<1>1. PICK it : it = [Closed EXCEPT !.on = TRUE]
  OBVIOUS
<1>2. it.on = TRUE /\ it.index = 0 /\ it.chain = <<>> /\ it.seen = <<>>
  BY <1>1 DEF Closed
<1>3. it \in Iterators
  <2>1. it = [on |-> TRUE, index |-> 0, chain |-> <<>>, seen |-> <<>>]
    BY <1>1 DEF Closed
  <2>2. <<>> \in Seq(NodeSet) /\ <<>> \in Seq(Keys)
    OBVIOUS
  <2> QED
    BY <2>1, <2>2 DEF Iterators
<1>4. Stores(buckets, bucketCount, dict) /\ bucketCount \in Nat
  BY DEF MapInv, Stores, BucketsOf
<1>5. Sees(it, buckets, bucketCount)
  <2>1. 1..Len(it.seen) = {}
    BY <1>2
  <2>2. \A i \in 1..(bucketCount - 1) : \A p : ~ SeenTo(it, buckets, i, p)
    BY <1>2, <1>4 DEF SeenTo
  <2> QED
    BY <2>1, <2>2, Zenon DEF Sees
<1>6. UNCHANGED <<buckets, nodeCount, live, dict>> /\ ite' = Map_iter_next(it) /\ bucketCount > 0
  BY <1>1 DEF Map_begin
<1>7. bucketCount' = bucketCount
  BY <1>6 DEF bucketCount
<1>8. PICK r : r = ite'
  OBVIOUS
<1>9. /\ r \in Iterators /\ Sees(r, buckets, bucketCount)
      /\ r.on => AtNode(r, buckets, bucketCount)
      /\ ~ r.on => r.index = bucketCount
  BY <1>2, <1>3, <1>4, <1>5, <1>6, <1>8, NextWalk DEF Starts
<1> QED
  BY <1>6, <1>7, <1>8, <1>9 DEF WalkStep

LEMMA WalkGoesOn == ASSUME MapInv, Walk PROVE WalkStep
<1>1. /\ Stores(buckets, bucketCount, dict) /\ ite \in Iterators /\ ite.on
      /\ AtNode(ite, buckets, bucketCount) /\ Sees(ite, buckets, bucketCount)
  BY DEF MapInv, Walking, Walk
<1>2. UNCHANGED <<buckets, nodeCount, live, dict>> /\ ite' = Map_iter_next(ite)
  BY DEF Walk
<1>3. bucketCount' = bucketCount /\ bucketCount > 0
  <2>1. ite.index \in 1..(bucketCount - 1) /\ bucketCount \in Nat
    BY <1>1 DEF AtNode, Stores, BucketsOf
  <2> QED
    BY <1>2, <2>1 DEF bucketCount
<1>4. PICK r : r = ite'
  OBVIOUS
<1>5. /\ r \in Iterators /\ Sees(r, buckets, bucketCount)
      /\ r.on => AtNode(r, buckets, bucketCount)
      /\ ~ r.on => r.index = bucketCount
  BY <1>1, <1>2, <1>3, <1>4, NextWalk
<1> QED
  BY <1>2, <1>3, <1>4, <1>5 DEF WalkStep

LEMMA WalkInv == ASSUME MapInv, WalkStep PROVE MapInv'
<1>1. Walking(ite', buckets', bucketCount')
  BY DEF WalkStep, Walking
<1> QED
  BY <1>1 DEF MapInv, WalkStep

LEMMA MapStepInv == MapInv /\ [MapNext]_mapVars => MapInv'
<1> SUFFICES ASSUME MapInv, [MapNext]_mapVars PROVE MapInv'
  OBVIOUS
<1>1. CASE Map_set
  BY <1>1, SetInPlaceInv, SetNewInv, SetFailsInv DEF Map_set
<1>2. CASE Map_begin \/ Walk
  BY <1>2, Map_beginStep, WalkGoesOn, WalkInv
<1>3. CASE UNCHANGED mapVars
  <2>1. UNCHANGED <<buckets, nodeCount, live, dict, ite>>
    BY <1>3 DEF mapVars
  <2>2. bucketCount' = bucketCount
    BY <2>1 DEF bucketCount
  <2> QED
    BY <2>1, <2>2 DEF MapInv
<1> QED
  BY <1>1, <1>2, <1>3, Map_initInv, Map_deinitInv, Map_removeInv DEF MapNext

(* The buckets of the map hold, each in the place of its hash and once,    *)
(* the nodes of the function it stands for, before and after every growth; *)
(* and the iterator has seen what lies before the node it is at.           *)
THEOREM MapCorrect == MapSpec => []MapInv
<1> QED
  BY InitHolds, MapStepInv, PTL DEF MapSpec

(* Search finds every key with the value set last, and no other key, after *)
(* any history of operations on a map of any size.                         *)
THEOREM MapStaysFunction == MapSpec => []MapIsFunction
<1> QED
  BY MapCorrect, InvariantTells, PTL

VisitedIn(it, d, c) ==
    /\ \A k \in DOMAIN d :
          Cardinality({j \in DOMAIN it.seen : it.seen[j] = k}) = IF Place(k, c) = 0 THEN 0 ELSE 1
    /\ \A j \in DOMAIN it.seen : it.seen[j] \in DOMAIN d

LEMMA AllSeen ==
    ASSUME NEW b, NEW c, NEW d, NEW it \in Iterators, Stores(b, c, d), Dict(d),
           Sees(it, b, c), it.index = c
    PROVE  VisitedIn(it, d, c)
<1>1. PICK s, n : s = it.seen /\ n = Len(s)
  OBVIOUS
<1>2. s \in Seq(Keys) /\ n \in Nat /\ DOMAIN s = 1..n /\ c \in Nat
  BY <1>1 DEF Iterators, Stores, BucketsOf
<1>3. ASSUME NEW j \in 1..n PROVE s[j] \in DOMAIN d /\ Place(s[j], c) # 0
  <2>1. PICK i \in 1..(c - 1) : \E p \in 1..Len(b[i]) : s[j] = b[i][p].key
    BY <1>1 DEF Sees
  <2>2. PICK p \in 1..Len(b[i]) : s[j] = b[i][p].key
    BY <2>1
  <2>3. i \in 0..(c - 1) /\ i # 0
    BY <1>2
  <2>4. NodeOf(b[i][p], d) /\ Place(b[i][p].key, c) = i
    BY <2>3 DEF Stores, Right
  <2> QED
    BY <2>2, <2>3, <2>4 DEF NodeOf
<1>4. ASSUME NEW k \in DOMAIN d
      PROVE  Cardinality({j \in DOMAIN s : s[j] = k}) = IF Place(k, c) = 0 THEN 0 ELSE 1
  <2>1. CASE Place(k, c) = 0
    <3>1. {j \in DOMAIN s : s[j] = k} = {}
      BY <1>2, <1>3, <2>1
    <3> QED
      BY <2>1, <3>1, FS_EmptySet
  <2>2. CASE Place(k, c) # 0
    <3>1. PICK i : i = Place(k, c)
      OBVIOUS
    <3>2. c > 0 /\ \E p \in 1..Len(b[i]) : b[i][p].key = k
      BY <3>1 DEF Stores, Stored
    <3>3. i \in 1..(c - 1)
      <4>1. i \in 0..(c - 1)
        BY <1>2, <3>1, <3>2, PlaceIn DEF Dict
      <4> QED
        BY <1>2, <2>2, <3>1, <4>1
    <3>4. PICK p \in 1..Len(b[i]) : b[i][p].key = k
      BY <3>2
    <3>5. SeenTo(it, b, i, p)
      BY <1>2, <3>3 DEF SeenTo
    <3>6. PICK j \in 1..n : s[j] = k
      BY <1>1, <3>3, <3>4, <3>5 DEF Sees
    <3>7. {l \in DOMAIN s : s[l] = k} = {j}
      BY <1>1, <1>2, <3>6 DEF Sees
    <3>8. Cardinality({j}) = 1
      BY FS_Singleton
    <3> QED
      BY <2>2, <3>7, <3>8
  <2> QED
    BY <2>1, <2>2
<1> QED
  BY <1>1, <1>2, <1>3, <1>4 DEF VisitedIn

(* A walk that comes to its end has seen each key outside of bucket 0 once *)
(* and nothing else, however the values changed on the way.                *)
THEOREM WalksSeeEachOnce == MapSpec => EachVisitedOnce
<1>1. ASSUME MapInv, MapInv', [MapNext]_mapVars, Walked PROVE Visited'
  <2>1. WalkStep
    <3>1. ite' # ite /\ ite' # Closed
      BY <1>1 DEF Walked, Closed
    <3>2. Map_begin \/ Walk
      BY <1>1, <3>1 DEF MapNext, mapVars, Map_init, Map_deinit, Map_set, SetInPlace, SetNew,
                        SetFails, Map_remove
    <3> QED
      BY <1>1, <3>2, Map_beginStep, WalkGoesOn
  <2>2. PICK it, b, c, d : it = ite' /\ b = buckets' /\ c = bucketCount' /\ d = dict'
    OBVIOUS
  <2>3. it \in Iterators /\ Stores(b, c, d) /\ Dict(d) /\ Sees(it, b, c) /\ it.index = c
    BY <1>1, <2>1, <2>2 DEF WalkStep, MapInv, Walked
  <2>4. VisitedIn(it, d, c)
    BY <2>3, AllSeen
  <2> QED
    BY <2>2, <2>4 DEF Visited, VisitedIn, Place
<1>2. MapInv /\ MapInv' /\ [MapNext]_mapVars => (Walked => Visited')
  BY <1>1
<1>3. MapInv /\ MapInv' /\ [MapNext]_mapVars => [Walked => Visited']_mapVars
  BY <1>2
<1> QED
  BY <1>3, MapCorrect, PTL DEF MapSpec, EachVisitedOnce
=============================================================================
