--------------------------- MODULE VMHeapProofs ---------------------------
(***************************************************************************)
(* Proofs about the guest heap, VMHeap.  HeapInvariant is inductive; the   *)
(* work is in VM_heap_compact.  The list it walks was compact before one   *)
(* block b went in, so the runs it merges have at most three members (the  *)
(* block in front of b, b, the block behind b), and what they cover can be *)
(* computed without induction on the list.                                 *)
(***************************************************************************)
EXTENDS VMHeap, TLAPS

USE DEF Word

(* CynAlign rounds a request that fits up to less than aln bytes more,
   and neither the top nor the boundary plus the result wraps. *)
LEMMA AlignUp ==
  ASSUME RequestsFit, NEW n \in Sizes
  PROVE  /\ CynAlign(n) \in Nat /\ n <= CynAlign(n) /\ CynAlign(n) < n + aln
         /\ CynAlign(n) > 0 /\ lmt + CynAlign(n) < M /\ hb + CynAlign(n) < M
<1>1. n \in Nat /\ aln \in Nat /\ aln > 0 /\ M \in Nat /\ lmt \in Nat /\ hb \in Nat
      /\ n > 0 /\ lmt + n + aln <= M /\ hb + n + aln <= M
  BY HeapAssumption DEF RequestsFit
<1>2. (n + aln - 1) % M = n + aln - 1
  BY <1>1
<1> DEFINE q == (n + aln - 1) \div aln
<1>3. q \in Int /\ q * aln <= n + aln - 1 /\ n + aln - 1 < q * aln + aln
  BY <1>1
<1>4. CynAlign(n) = q * aln
  BY <1>2 DEF CynAlign
<1>5. q * aln \in Int
  BY <1>1, <1>3
<1> QED
  BY <1>1, <1>3, <1>4, <1>5

(* What holds of the free list's blocks G when b has just been inserted: the
   extents are not empty and share no byte, and none of the others adjoin. *)
Insertable(G, b, A, S) ==
  /\ \A k \in G : S[k] > 0 /\ A[k] + S[k] < M
  /\ \A k, l \in G : k # l => A[k] + S[k] <= A[l] \/ A[l] + S[l] <= A[k]
  /\ \A k, l \in G \ {b} : A[k] + S[k] # A[l]

(* No block of G starts where e ends. *)
Last(G, A, S, e) == \A k \in G : A[e] + S[e] # A[k]

(* The run that starts at h has n bytes in one, two or three blocks; in the
   last case the inserted block b is the one in the middle. *)
RunOfOne(G, A, S, h, n) == Last(G, A, S, h) /\ n = S[h]
RunOfTwo(G, A, S, h, n) ==
  \E j \in G : A[h] + S[h] = A[j] /\ Last(G, A, S, j) /\ n = S[h] + S[j]
RunOfThree(G, b, A, S, h, n) ==
  \E l \in G : /\ A[h] + S[h] = A[b] /\ A[b] + S[b] = A[l]
               /\ Last(G, A, S, l) /\ n = S[h] + S[b] + S[l]

(* What compaction leaves: heads that share no byte, do not adjoin, end where
   a block of G ended and together cover exactly the bytes of G. *)
RunsMerged(G, b, A, S) ==
  LET H == Heads(G, {b}, A, S)
      N(i) == MergedSize(G, {b}, A, S, i)
  IN  /\ H \subseteq G
      /\ \A i \in H : /\ N(i) \in Nat /\ N(i) > 0
                      /\ \E e \in G : A[i] + N(i) = A[e] + S[e]
      /\ \A i, j \in H : i # j => A[i] + N(i) <= A[j] \/ A[j] + N(j) <= A[i]
      /\ \A i, j \in H : A[i] + N(i) # A[j]
      /\ \A x \in Nat : (\E i \in G : A[i] <= x /\ x < A[i] + S[i])
                        <=> (\E i \in H : A[i] <= x /\ x < A[i] + N(i))

(* On a list of non-empty blocks that share no byte, the order in which
   VM_heap_insert_heap_block links them is the order of their addresses, and
   VM_heap_compact joins i and j exactly when j starts where i ends. *)
LEMMA Neighbours ==
  ASSUME NEW G \in SUBSET Blocks, NEW b \in G,
         NEW A \in [Blocks -> Word], NEW S \in [Blocks -> Word],
         Insertable(G, b, A, S),
         NEW i \in G, NEW j \in G, i # j
  PROVE  /\ Precedes({b}, A, S, i, j) <=> A[i] < A[j]
         /\ Adjoins(G, {b}, A, S, i, j) <=> A[i] + S[i] = A[j]
<1>0. M \in Nat
  BY HeapAssumption
<1> USE DEF Insertable
<1>1. \A k \in G : A[k] \in Nat /\ S[k] \in Nat /\ S[k] > 0
  BY <1>0
<1>2. \A k, l \in G : k # l => (Precedes({b}, A, S, k, l) <=> A[k] < A[l])
  BY <1>1 DEF Precedes
<1>3. (A[i] + S[i]) % M = A[i] + S[i]
  BY <1>0, <1>1
<1>4. ASSUME A[i] + S[i] = A[j],
             NEW k \in G \ {i, j}, A[i] < A[k], A[k] < A[j]
      PROVE  FALSE
  <2>1. A[i] + S[i] <= A[k] \/ A[k] + S[k] <= A[i]
    BY <1>4
  <2> QED
    BY <1>1, <1>4, <2>1
<1>5. A[i] + S[i] = A[j] => A[i] < A[j]
  BY <1>1
<1>6. (\E k \in G \ {i, j} : Precedes({b}, A, S, i, k) /\ Precedes({b}, A, S, k, j))
         <=> (\E k \in G \ {i, j} : A[i] < A[k] /\ A[k] < A[j])
  BY <1>2
<1>7. Precedes({b}, A, S, i, j) <=> A[i] < A[j]
  BY <1>2
<1>8. Adjoins(G, {b}, A, S, i, j) <=>
        (A[i] < A[j] /\ A[i] + S[i] = A[j]
          /\ ~ \E k \in G \ {i, j} : A[i] < A[k] /\ A[k] < A[j])
  BY <1>3, <1>6, <1>7 DEF Adjoins
<1> QED
  BY <1>4, <1>5, <1>7, <1>8

(* The list was compact before b went in, so the run VM_heap_compact follows
   from any block has one, two or three members, and newSize is their sum. *)
LEMMA RunOfHead ==
  ASSUME NEW G \in SUBSET Blocks, NEW b \in G,
         NEW A \in [Blocks -> Word], NEW S \in [Blocks -> Word],
         Insertable(G, b, A, S),
         NEW h \in G
  PROVE  LET n == MergedSize(G, {b}, A, S, h)
         IN  \/ RunOfOne(G, A, S, h, n)
             \/ RunOfTwo(G, A, S, h, n)
             \/ RunOfThree(G, b, A, S, h, n)
<1> DEFINE n == MergedSize(G, {b}, A, S, h)
           Last_(e) == Last(G, A, S, e)
<1>0. M \in Nat
  BY HeapAssumption
<1>1. \A k \in G : A[k] \in Nat /\ S[k] \in Nat /\ S[k] > 0 /\ A[k] + S[k] < M
  BY <1>0 DEF Insertable
<1>2. \A k, l \in G : k # l =>
        /\ Precedes({b}, A, S, k, l) <=> A[k] < A[l]
        /\ Adjoins(G, {b}, A, S, k, l) <=> A[k] + S[k] = A[l]
  <2> SUFFICES ASSUME NEW k \in G, NEW l \in G, k # l
               PROVE  /\ Precedes({b}, A, S, k, l) <=> A[k] < A[l]
                      /\ Adjoins(G, {b}, A, S, k, l) <=> A[k] + S[k] = A[l]
    OBVIOUS
  <2>1. Precedes({b}, A, S, k, l) <=> A[k] < A[l]
    BY Neighbours
  <2>2. Adjoins(G, {b}, A, S, k, l) <=> A[k] + S[k] = A[l]
    BY Neighbours
  <2> QED
    BY <2>1, <2>2
<1> USE DEF Insertable
<1>3. \A k \in G : (\E l \in G \ {k} : Adjoins(G, {b}, A, S, k, l)) <=> ~ Last_(k)
  BY <1>1, <1>2, SMTT(40) DEF Last
<1>4. \A e \in G : IsRunEnd(G, {b}, A, S, h, e) <=>
        /\ e = h \/ A[h] < A[e]
        /\ Last_(e)
        /\ \A k \in G : A[h] <= A[k] /\ A[k] < A[e] => ~ Last_(k)
  <2> TAKE e \in G
  <2>1. (e = h \/ Precedes({b}, A, S, h, e)) <=> (e = h \/ A[h] < A[e])
    BY <1>2
  <2>2. \A k \in G \ {e} : (k = h \/ Precedes({b}, A, S, h, k)) <=> A[h] <= A[k]
    BY <1>1, <1>2
  <2>3. \A k \in G \ {e} : Precedes({b}, A, S, k, e) <=> A[k] < A[e]
    BY <1>2
  <2>4. (\A k \in G \ {e} :
          (k = h \/ Precedes({b}, A, S, h, k)) /\ Precedes({b}, A, S, k, e)
            => \E j \in G \ {k} : Adjoins(G, {b}, A, S, k, j))
        <=> (\A k \in G \ {e} : A[h] <= A[k] /\ A[k] < A[e] => ~ Last_(k))
    BY <1>3, <2>2, <2>3
  <2>5. (\A k \in G \ {e} : A[h] <= A[k] /\ A[k] < A[e] => ~ Last_(k))
        <=> (\A k \in G : A[h] <= A[k] /\ A[k] < A[e] => ~ Last_(k))
    BY <1>1
  <2>6. (~ \E j \in G \ {e} : Adjoins(G, {b}, A, S, e, j)) <=> Last_(e)
    BY <1>3
  <2> HIDE DEF Last_
  <2> QED
    BY <2>1, <2>4, <2>5, <2>6 DEF IsRunEnd
<1> HIDE DEF Last_
<1>5. ASSUME NEW e \in G, e = h \/ A[h] < A[e], Last_(e),
             \A k \in G : A[h] <= A[k] /\ A[k] < A[e] => ~ Last_(k)
      PROVE  n = A[e] + S[e] - A[h]
  <2>1. IsRunEnd(G, {b}, A, S, h, e)
    BY <1>4, <1>5
  <2>2. PICK f \in G : f = RunEnd(G, {b}, A, S, h) /\ IsRunEnd(G, {b}, A, S, h, f)
    BY <2>1 DEF RunEnd
  <2>3. /\ f = h \/ A[h] < A[f]
        /\ Last_(f)
        /\ \A k \in G : A[h] <= A[k] /\ A[k] < A[f] => ~ Last_(k)
    BY <1>4, <2>2
  <2>4. ~ (A[e] < A[f]) /\ ~ (A[f] < A[e])
    BY <1>1, <1>5, <2>3
  <2>5. A[e] = A[f]
    BY <1>1, <2>4
  <2>6. e = f
    BY <1>1, <2>5
  <2>7. n = (A[e] - A[h] + S[e]) % M
    BY <2>2, <2>6 DEF MergedSize
  <2>8. A[e] - A[h] + S[e] \in 0 .. M - 1
    BY <1>0, <1>1, <1>5
  <2> QED
    BY <1>0, <1>1, <2>7, <2>8
<1>6. CASE Last_(h)
  <2>1. n = A[h] + S[h] - A[h]
    BY <1>1, <1>5, <1>6
  <2> QED
    BY <1>1, <1>6, <2>1 DEF Last_, RunOfOne
<1>7. CASE ~ Last_(h)
  <2>1. PICK j \in G : A[h] + S[h] = A[j]
    BY <1>7 DEF Last_, Last
  <2>2. A[h] < A[j] /\ j # h
    BY <1>1, <2>1
  <2>3. ASSUME NEW k \in G, A[h] <= A[k], A[k] < A[j]
        PROVE  k = h
    BY <1>1, <2>1, <2>3
  <2>4. CASE Last_(j)
    <3>1. n = A[j] + S[j] - A[h]
      BY <1>5, <1>7, <2>2, <2>3, <2>4
    <3>2. n = S[h] + S[j]
      BY <1>1, <2>1, <3>1
    <3> QED
      BY <2>1, <2>4, <3>2 DEF Last_, RunOfTwo
  <2>5. CASE ~ Last_(j)
    <3>1. PICK l \in G : A[j] + S[j] = A[l]
      BY <2>5 DEF Last_, Last
    <3>2. A[j] < A[l]
      BY <1>1, <3>1
    <3>3. j = b
      BY <1>1, <2>1, <2>2, <3>1, <3>2
    <3>4. Last_(l)
      <4> SUFFICES ASSUME NEW m \in G, A[l] + S[l] = A[m]
                   PROVE  FALSE
        BY DEF Last_, Last
      <4>1. A[l] < A[m]
        BY <1>1
      <4> QED
        BY <1>1, <3>2, <3>3, <4>1
    <3>5. ASSUME NEW k \in G, A[h] <= A[k], A[k] < A[l]
          PROVE  k = h \/ k = j
      BY <1>1, <2>1, <3>1, <3>5
    <3>6. n = A[l] + S[l] - A[h]
      <4>1. \A k \in G : A[h] <= A[k] /\ A[k] < A[l] => ~ Last_(k)
        BY <1>7, <2>5, <3>5
      <4>2. A[h] < A[l]
        BY <1>1, <2>2, <3>2
      <4> QED
        BY <1>5, <3>4, <4>1, <4>2
    <3>7. n = S[h] + S[b] + S[l]
      BY <1>1, <2>1, <3>1, <3>3, <3>6
    <3> QED
      BY <2>1, <3>1, <3>3, <3>4, <3>7 DEF Last_, RunOfThree
  <2> QED
    BY <2>4, <2>5
<1> QED
  BY <1>6, <1>7

(* What VM_heap_compact leaves behind: heads that still lie in the old
   extents, cover the same bytes, share none, and adjoin no other head. *)
LEMMA CompactResult ==
  ASSUME NEW G \in SUBSET Blocks, NEW b \in G,
         NEW A \in [Blocks -> Word], NEW S \in [Blocks -> Word],
         Insertable(G, b, A, S)
  PROVE  RunsMerged(G, b, A, S)
<1> DEFINE H == Heads(G, {b}, A, S)
           N(i) == MergedSize(G, {b}, A, S, i)
           Last_(e) == Last(G, A, S, e)
           One(i) == Last_(i) /\ N(i) = S[i]
           Two(i, j) == A[i] + S[i] = A[j] /\ Last_(j) /\ N(i) = S[i] + S[j]
           Three(i, l) == /\ A[i] + S[i] = A[b] /\ A[b] + S[b] = A[l] /\ Last_(l)
                          /\ N(i) = S[i] + S[b] + S[l]
<1>4. \A i \in G : One(i) \/ (\E j \in G : Two(i, j)) \/ (\E l \in G : Three(i, l))
  <2> TAKE i \in G
  <2>1. \/ RunOfOne(G, A, S, i, N(i))
        \/ RunOfTwo(G, A, S, i, N(i))
        \/ RunOfThree(G, b, A, S, i, N(i))
    BY RunOfHead
  <2> HIDE DEF N
  <2> QED
    BY <2>1 DEF RunOfOne, RunOfTwo, RunOfThree
<1>0. M \in Nat
  BY HeapAssumption
<1>1. \A k \in G : A[k] \in Nat /\ S[k] \in Nat /\ S[k] > 0
  BY <1>0 DEF Insertable
<1>2. \A k, l \in G : k # l => (Adjoins(G, {b}, A, S, k, l) <=> A[k] + S[k] = A[l])
  BY Neighbours
<1> USE DEF Insertable
<1>3. H \subseteq G /\ \A j \in G : j \in H <=> \A i \in G : A[i] + S[i] # A[j]
  <2>1. H \subseteq G /\ \A j \in G :
          j \in H <=> ~ \E i \in G \ {j} : Adjoins(G, {b}, A, S, i, j)
    BY DEF Heads
  <2>2. \A j \in G : (\E i \in G \ {j} : Adjoins(G, {b}, A, S, i, j))
                      <=> \E i \in G \ {j} : A[i] + S[i] = A[j]
    BY <1>2
  <2>3. \A j \in G : A[j] + S[j] # A[j]
    BY <1>1
  <2> HIDE DEF H
  <2> QED
    BY <2>1, <2>2, <2>3
<1> HIDE DEF H, N
<1> USE DEF Last
<1>5. \A i \in G : N(i) \in Nat /\ N(i) >= S[i]
  BY <1>1, <1>4
<1>6. \A i \in G : \E e \in G : A[i] + N(i) = A[e] + S[e] /\ Last_(e)
  <2> TAKE i \in G
  <2>1. CASE One(i)
    BY <2>1
  <2>2. ASSUME NEW j \in G, Two(i, j) PROVE \E e \in G : A[i] + N(i) = A[e] + S[e] /\ Last_(e)
    BY <1>1, <2>2
  <2>3. ASSUME NEW l \in G, Three(i, l) PROVE \E e \in G : A[i] + N(i) = A[e] + S[e] /\ Last_(e)
    BY <1>1, <2>3
  <2> QED
    BY <1>4, <2>1, <2>2, <2>3
<1>7. ASSUME NEW i \in H, NEW j \in H, A[i] < A[j]
      PROVE  A[i] + N(i) <= A[j]
  <2>0. i \in G /\ j \in G /\ i # j
    BY <1>1, <1>3, <1>7
  <2>1. A[i] + S[i] <= A[j]
    BY <1>1, <1>7, <2>0
  <2>2. ASSUME NEW k \in G, \E p \in G : A[p] + S[p] = A[k], A[k] <= A[j]
        PROVE  A[k] + S[k] <= A[j]
    <3>1. k # j
      BY <1>3, <2>2
    <3> QED
      BY <1>1, <2>0, <2>2, <3>1
  <2>3. CASE One(i)
    BY <2>1, <2>3
  <2>4. ASSUME NEW k \in G, Two(i, k) PROVE A[i] + N(i) <= A[j]
    <3>1. A[k] + S[k] <= A[j]
      BY <2>0, <2>1, <2>2, <2>4
    <3> QED
      BY <1>1, <2>0, <2>4, <3>1
  <2>5. ASSUME NEW l \in G, Three(i, l) PROVE A[i] + N(i) <= A[j]
    <3>1. A[b] + S[b] <= A[j]
      BY <2>0, <2>1, <2>2, <2>5
    <3>2. A[l] + S[l] <= A[j]
      BY <2>2, <2>5, <3>1
    <3> QED
      BY <1>1, <2>0, <2>5, <3>2
  <2> QED
    BY <1>4, <2>0, <2>3, <2>4, <2>5
<1>8. \A i, j \in H : i # j => A[i] + N(i) <= A[j] \/ A[j] + N(j) <= A[i]
  <2>1. \A i, j \in H : i # j => A[i] < A[j] \/ A[j] < A[i]
    BY <1>1, <1>3
  <2> QED
    BY <1>7, <2>1
<1>9. \A i, j \in H : A[i] + N(i) # A[j]
  BY <1>3, <1>6
<1>10. ASSUME NEW x \in Nat, NEW i \in G, A[i] <= x, x < A[i] + S[i]
       PROVE  \E g \in H : A[g] <= x /\ x < A[g] + N(g)
  <2>1. CASE i \in H
    BY <1>1, <1>5, <1>10, <2>1
  <2>2. CASE i \notin H
    <3>1. PICK p \in G : A[p] + S[p] = A[i]
      BY <1>3, <2>2
    <3>2. ~ Last_(p)
      BY <3>1
    <3>3. A[p] < A[i]
      BY <1>1, <3>1
    <3>4. CASE p \in H
      <4>1. N(p) >= S[p] + S[i]
        <5>1. ASSUME NEW j \in G, A[p] + S[p] = A[j] PROVE j = i
          BY <1>1, <3>1, <5>1
        <5> QED
          BY <1>1, <1>4, <3>2, <5>1
      <4> QED
        BY <1>1, <1>5, <1>10, <3>1, <3>3, <3>4, <4>1
    <3>5. CASE p \notin H
      <4>1. PICK q \in G : A[q] + S[q] = A[p]
        BY <1>3, <3>5
      <4>2. A[q] < A[p]
        BY <1>1, <4>1
      <4>3. p = b
        BY <1>1, <3>1, <3>3, <4>1, <4>2
      <4>4. q \in H
        <5> SUFFICES ASSUME NEW r \in G, A[r] + S[r] = A[q] PROVE FALSE
          BY <1>3
        <5>1. A[r] < A[q]
          BY <1>1
        <5> QED
          BY <1>1, <4>2, <4>3, <5>1
      <4>5. ASSUME NEW l \in G, A[b] + S[b] = A[l] PROVE l = i
        BY <1>1, <3>1, <4>3, <4>5
      <4>6. N(q) = S[q] + S[b] + S[i]
        <5>1. ~ One(q)
          BY <4>1
        <5>2. ASSUME NEW j \in G, Two(q, j) PROVE FALSE
          BY <1>1, <3>2, <4>1, <5>2
        <5> QED
          BY <1>4, <4>5, <5>1, <5>2
      <4> QED
        BY <1>1, <1>10, <3>1, <3>3, <4>1, <4>2, <4>3, <4>4, <4>6
    <3> QED
      BY <3>4, <3>5
  <2> QED
    BY <2>1, <2>2
<1>11. ASSUME NEW x \in Nat, NEW i \in H, A[i] <= x, x < A[i] + N(i)
       PROVE  \E g \in G : A[g] <= x /\ x < A[g] + S[g]
  <2>0. i \in G
    BY <1>3
  <2>1. CASE One(i)
    BY <1>11, <2>0, <2>1
  <2>2. ASSUME NEW j \in G, Two(i, j) PROVE \E g \in G : A[g] <= x /\ x < A[g] + S[g]
    BY <1>1, <1>11, <2>0, <2>2
  <2>3. ASSUME NEW l \in G, Three(i, l) PROVE \E g \in G : A[g] <= x /\ x < A[g] + S[g]
    BY <1>1, <1>11, <2>0, <2>3
  <2> QED
    BY <1>4, <2>0, <2>1, <2>2, <2>3
<1>12. \A x \in Nat : (\E i \in G : A[i] <= x /\ x < A[i] + S[i])
                      <=> (\E i \in H : A[i] <= x /\ x < A[i] + N(i))
  BY <1>10, <1>11
<1>13. \A i \in H : /\ N(i) \in Nat /\ N(i) > 0
                    /\ \E e \in G : A[i] + N(i) = A[e] + S[e]
  BY <1>1, <1>3, <1>5, <1>6
<1> QED
  BY <1>3, <1>8, <1>9, <1>12, <1>13 DEF H, N, RunsMerged

(* Inserting a block into the free list and compacting it, as VM_free and the
   split of VM_heap_alloc_heap_block do, re-establishes the invariant.  Stated
   of any fields A, S, because the split writes them before it inserts. *)
LEMMA InsertAndCompactKeepsInvariant ==
  ASSUME NEW F \in SUBSET Blocks, NEW b \in Blocks \ F,
         NEW U \in SUBSET Blocks, NEW R \in SUBSET Blocks,
         NEW A \in [Blocks -> Word], NEW S \in [Blocks -> Word],
         F \cup {b} \cup U \cup R = Blocks,
         F \cap U = {}, F \cap R = {}, U \cap R = {}, b \notin U, b \notin R,
         \A k \in F \cup {b} \cup U : S[k] > 0 /\ hb <= A[k] /\ A[k] + S[k] <= top,
         \A k, l \in F \cup {b} \cup U : k # l => A[k] + S[k] <= A[l] \/ A[l] + S[l] <= A[k],
         \A k, l \in F : A[k] + S[k] # A[l],
         \A x \in hb .. top - 1 : \E k \in F \cup {b} \cup U : A[k] <= x /\ x < A[k] + S[k],
         top \in Word, top = hb \/ (hb <= top /\ top <= lmt),
         InsertAndCompact(F, b, A, S, R), used' = U, top' = top
  PROVE  HeapInvariant'
<1> DEFINE G == F \cup {b}
           H == Heads(G, {b}, A, S)
           N(i) == MergedSize(G, {b}, A, S, i)
<1>0. M \in Nat /\ hb \in Nat /\ hb < M /\ lmt \in Nat /\ lmt < M /\ top \in Nat /\ top < M
  BY HeapAssumption
<1>1. \A k \in Blocks : A[k] \in Nat /\ S[k] \in Nat
  BY <1>0
<1>2. Insertable(G, b, A, S)
  BY <1>0, <1>1 DEF Insertable
<1>3. /\ H \subseteq G
      /\ \A i \in H : /\ N(i) \in Nat /\ N(i) > 0
                      /\ \E e \in G : A[i] + N(i) = A[e] + S[e]
      /\ \A i, j \in H : i # j => A[i] + N(i) <= A[j] \/ A[j] + N(j) <= A[i]
      /\ \A i, j \in H : A[i] + N(i) # A[j]
      /\ \A x \in Nat : (\E i \in G : A[i] <= x /\ x < A[i] + S[i])
                        <=> (\E i \in H : A[i] <= x /\ x < A[i] + N(i))
  <2>1. G \in SUBSET Blocks /\ b \in G
    OBVIOUS
  <2> HIDE DEF G
  <2>2. RunsMerged(G, b, A, S)
    BY <1>2, <2>1, CompactResult
  <2> QED
    BY <2>2 DEF RunsMerged
<1>4. /\ free' = H
      /\ fresh' = R \cup (G \ H)
      /\ addr' = [i \in Blocks |-> IF i \in G \ H THEN 0 ELSE A[i]]
      /\ size' = [i \in Blocks |->
                    IF i \in H THEN N(i) ELSE IF i \in G THEN 0 ELSE S[i]]
  BY DEF InsertAndCompact
<1> HIDE DEF H, N
<1>5. \A i \in H : addr'[i] = A[i] /\ size'[i] = N(i)
  BY <1>3, <1>4
<1>6. \A i \in U : addr'[i] = A[i] /\ size'[i] = S[i]
  BY <1>3, <1>4
<1>7. \A i \in H : N(i) \in Nat /\ N(i) > 0 /\ hb <= A[i] /\ A[i] + N(i) <= top
  <2> TAKE i \in H
  <2>1. i \in G
    BY <1>3
  <2>2. PICK e \in G : A[i] + N(i) = A[e] + S[e]
    BY <1>3
  <2>3. A[e] + S[e] <= top /\ hb <= A[i]
    BY <2>1
  <2> QED
    BY <1>3, <2>2, <2>3
<1>8. \A i \in H : A[i] \in Nat /\ N(i) < M
  <2>1. \A i \in H : i \in Blocks
    BY <1>3
  <2> QED
    BY <1>0, <1>1, <1>7, <2>1
<1>9. TypeOK'
  <2>1. addr' \in [Blocks -> Word]
    BY <1>0, <1>4
  <2>2. \A i \in Blocks :
          (IF i \in H THEN N(i) ELSE IF i \in G THEN 0 ELSE S[i]) \in 0 .. M - 1
    BY <1>0, <1>1, <1>7, <1>8
  <2>3. size' \in [Blocks -> Word]
    BY <1>4, <2>2
  <2> QED
    BY <1>3, <1>4, <2>1, <2>3 DEF TypeOK
<1>10. DescriptorsConserved'
  BY <1>3, <1>4 DEF DescriptorsConserved
<1>11. InBounds'
  <2>1. \A i \in H \cup U : size'[i] > 0 /\ hb <= addr'[i] /\ addr'[i] + size'[i] <= top
    BY <1>5, <1>6, <1>7
  <2> QED
    BY <1>4, <2>1 DEF InBounds, Blocked, End
<1>12. ASSUME NEW u \in U, NEW i \in H
       PROVE  A[u] + S[u] <= A[i] \/ A[i] + N(i) <= A[u]
  <2> SUFFICES ASSUME A[i] < A[u] + S[u], A[u] < A[i] + N(i)
               PROVE  FALSE
    BY <1>1, <1>3, <1>7
  <2>1. PICK x \in Nat : A[u] <= x /\ x < A[u] + S[u] /\ A[i] <= x /\ x < A[i] + N(i)
    <3>1. CASE A[i] <= A[u]
      BY <1>1, <3>1
    <3>2. CASE A[u] < A[i]
      BY <1>1, <1>7, <1>8, <3>2
    <3> QED
      BY <1>1, <1>8, <3>1, <3>2
  <2>2. PICK g \in G : A[g] <= x /\ x < A[g] + S[g]
    BY <1>3, <2>1
  <2>3. g # u
    OBVIOUS
  <2>4. A[g] + S[g] <= A[u] \/ A[u] + S[u] <= A[g]
    BY <2>3
  <2> QED
    BY <1>1, <2>1, <2>2, <2>4
<1>13. NoOverlap'
  <2> SUFFICES ASSUME NEW k \in H \cup U, NEW l \in H \cup U, k # l
               PROVE  addr'[k] + size'[k] <= addr'[l] \/ addr'[l] + size'[l] <= addr'[k]
    BY <1>4 DEF NoOverlap, Blocked, End
  <2>1. CASE k \in H /\ l \in H
    BY <1>3, <1>5, <2>1
  <2>2. CASE k \in U /\ l \in U
    BY <1>6, <2>2
  <2>3. CASE k \in U /\ l \in H
    BY <1>5, <1>6, <1>12, <2>3
  <2>4. CASE k \in H /\ l \in U
    BY <1>5, <1>6, <1>12, <2>4
  <2> QED
    BY <2>1, <2>2, <2>3, <2>4
<1>14. Compacted'
  BY <1>3, <1>4, <1>5 DEF Compacted, End
<1>15. NoLeak'
  <2> SUFFICES ASSUME NEW x \in hb .. top - 1
               PROVE  \E k \in H \cup U : addr'[k] <= x /\ x < addr'[k] + size'[k]
    BY <1>4 DEF NoLeak, Blocked, End
  <2>0. x \in Nat
    BY <1>0
  <2>1. PICK k \in G \cup U : A[k] <= x /\ x < A[k] + S[k]
    OBVIOUS
  <2>2. CASE k \in U
    BY <1>6, <2>1, <2>2
  <2>3. CASE k \in G
    <3>1. PICK i \in H : A[i] <= x /\ x < A[i] + N(i)
      BY <1>3, <2>0, <2>1, <2>3
    <3> QED
      BY <1>5, <3>1
  <2> QED
    BY <2>2, <2>3
<1> QED
  BY <1>9, <1>10, <1>11, <1>13, <1>14, <1>15 DEF HeapInvariant

(* A request the allocator computes with without wrapping. *)
Request(s) == s \in Nat /\ s > 0 /\ lmt + s < M /\ hb + s < M

(* Resizing the free block at the top of the heap keeps the invariant. *)
LEMMA AllocTopKeepsInvariant ==
  ASSUME HeapInvariant, NEW s, Request(s), AllocTop(s)
  PROVE  HeapInvariant'
<1> USE DEF HeapInvariant, Blocked, End
<1>0. /\ M \in Nat /\ hb \in Nat /\ lmt \in Nat /\ lmt < M /\ hb < M
      /\ s \in Nat /\ s > 0 /\ lmt + s < M /\ hb + s < M
      /\ top \in Nat /\ top < M
      /\ \A k \in Blocks : addr[k] \in Nat /\ size[k] \in Nat
  BY HeapAssumption DEF Request, TypeOK
<1>1. PICK p \in free :
        /\ IsTop(p, s)
        /\ free' = free \ {p} /\ used' = used \cup {p}
        /\ size' = [size EXCEPT ![p] = s]
        /\ top' = (addr[p] + s) % M
        /\ UNCHANGED <<fresh, addr>>
  BY DEF AllocTop
<1>2. p \in Blocks /\ size[p] > 0 /\ hb <= addr[p] /\ addr[p] + size[p] <= top
  BY DEF TypeOK, InBounds
<1>3. top <= lmt
  BY <1>0, <1>2 DEF InBounds
<1>4. addr[p] + size[p] = top
  BY <1>0, <1>1, <1>2 DEF IsTop
<1>5. top' = addr[p] + s /\ addr[p] + s <= lmt
  BY <1>0, <1>1, <1>2, <1>3 DEF IsTop
<1>6. \A k \in Blocked : k # p => addr[k] + size[k] <= addr[p]
  <2> TAKE k \in Blocked
  <2> HAVE k # p
  <2>1. addr[k] + size[k] <= top /\ size[k] > 0
    BY DEF InBounds
  <2>2. addr[k] + size[k] <= addr[p] \/ addr[p] + size[p] <= addr[k]
    BY <1>1 DEF NoOverlap
  <2>3. addr[k] \in Nat /\ size[k] \in Nat
    BY <1>0 DEF TypeOK
  <2> QED
    BY <1>0, <1>2, <1>4, <2>1, <2>2, <2>3
<1>7. size'[p] = s /\ \A k \in Blocks : k # p => size'[k] = size[k]
  BY <1>1, <1>2 DEF TypeOK
<1>8. Blocked' = Blocked /\ addr' = addr
  BY <1>1
<1>9. TypeOK'
  BY <1>0, <1>1, <1>2, <1>5 DEF TypeOK
<1>10. DescriptorsConserved'
  BY <1>1 DEF DescriptorsConserved
<1>11. InBounds'
  <2> SUFFICES ASSUME NEW k \in Blocked
               PROVE  size'[k] > 0 /\ hb <= addr[k] /\ addr[k] + size'[k] <= top'
    BY <1>0, <1>2, <1>5, <1>8 DEF InBounds
  <2>1. CASE k = p
    BY <1>0, <1>2, <1>5, <1>7, <2>1
  <2>2. CASE k # p
    <3>1. k \in Blocks /\ size[k] > 0 /\ hb <= addr[k]
      BY DEF InBounds, TypeOK
    <3> QED
      BY <1>0, <1>2, <1>5, <1>6, <1>7, <2>2, <3>1
  <2> QED
    BY <2>1, <2>2
<1>12. NoOverlap'
  <2> SUFFICES ASSUME NEW k \in Blocked, NEW l \in Blocked, k # l
               PROVE  addr[k] + size'[k] <= addr[l] \/ addr[l] + size'[l] <= addr[k]
    BY <1>8 DEF NoOverlap
  <2>1. k \in Blocks /\ l \in Blocks
    BY DEF TypeOK
  <2>2. addr[k] + size[k] <= addr[l] \/ addr[l] + size[l] <= addr[k]
    BY DEF NoOverlap
  <2> QED
    BY <1>6, <1>7, <2>1, <2>2
<1>13. Compacted'
  BY <1>1, <1>7 DEF Compacted, TypeOK
<1>14. NoLeak'
  <2> SUFFICES ASSUME NEW x \in hb .. top' - 1
               PROVE  \E k \in Blocked : addr[k] <= x /\ x < addr[k] + size'[k]
    BY <1>8 DEF NoLeak
  <2>1. CASE addr[p] <= x
    BY <1>0, <1>1, <1>2, <1>5, <1>7, <2>1
  <2>2. CASE x < addr[p]
    <3>1. x \in hb .. top - 1
      BY <1>0, <1>2, <1>4, <1>5, <2>2
    <3>2. PICK k \in Blocked : addr[k] <= x /\ x < addr[k] + size[k]
      BY <3>1 DEF NoLeak
    <3>3. k # p /\ k \in Blocks
      BY <1>0, <1>2, <2>2, <3>1, <3>2 DEF TypeOK
    <3> QED
      BY <1>7, <3>2, <3>3
  <2> QED
    BY <1>0, <1>2, <1>5, <2>1, <2>2
<1> QED
  BY <1>9, <1>10, <1>11, <1>12, <1>13, <1>14

(* Handing out a free block as it is keeps the invariant. *)
LEMMA AllocWholeKeepsInvariant ==
  ASSUME HeapInvariant, NEW s, AllocWhole(s)
  PROVE  HeapInvariant'
<1> USE DEF HeapInvariant, Blocked, End
<1>1. PICK p \in free :
        /\ free' = free \ {p} /\ used' = used \cup {p}
        /\ UNCHANGED <<fresh, addr, size, top>>
  BY DEF AllocWhole
<1>2. Blocked' = Blocked
  BY <1>1
<1>3. TypeOK' /\ DescriptorsConserved' /\ Compacted'
  BY <1>1 DEF TypeOK, DescriptorsConserved, Compacted
<1>4. InBounds' /\ NoOverlap' /\ NoLeak'
  BY <1>1, <1>2 DEF InBounds, NoOverlap, NoLeak
<1> QED
  BY <1>3, <1>4

(* Binding a fresh descriptor at the top of the heap keeps the invariant. *)
LEMMA AllocFreshKeepsInvariant ==
  ASSUME HeapInvariant, NEW s, Request(s), AllocFresh(s)
  PROVE  HeapInvariant'
<1> USE DEF HeapInvariant, End
<1>0. /\ M \in Nat /\ hb \in Nat /\ lmt \in Nat /\ lmt < M /\ hb < M
      /\ s \in Nat /\ s > 0 /\ lmt + s < M /\ hb + s < M
      /\ top \in Nat /\ top < M
      /\ \A k \in Blocks : addr[k] \in Nat /\ size[k] \in Nat
  BY HeapAssumption DEF Request, TypeOK
<1>1. PICK b \in fresh :
        /\ fresh' = fresh \ {b} /\ used' = used \cup {b}
        /\ addr' = [addr EXCEPT ![b] = top]
        /\ size' = [size EXCEPT ![b] = s]
        /\ free' = free /\ top' = (top + s) % M /\ (top + s) % M <= lmt
  BY DEF AllocFresh
<1>2. hb <= top /\ top + s < M
  BY <1>0 DEF InBounds
<1>3. top' = top + s /\ top + s <= lmt
  BY <1>0, <1>1, <1>2
<1>4. b \in Blocks /\ b \notin Blocked /\ Blocked' = Blocked \cup {b}
  BY <1>1 DEF TypeOK, DescriptorsConserved, Blocked
<1>5. /\ addr'[b] = top /\ size'[b] = s
      /\ \A k \in Blocked : /\ addr'[k] = addr[k] /\ size'[k] = size[k]
                            /\ k \in Blocks
  BY <1>1, <1>4 DEF TypeOK, Blocked
<1>6. TypeOK'
  BY <1>0, <1>1, <1>3, <1>4 DEF TypeOK
<1>7. DescriptorsConserved'
  BY <1>1 DEF DescriptorsConserved
<1>8. \A k \in Blocked : size[k] > 0 /\ hb <= addr[k] /\ addr[k] + size[k] <= top
  BY DEF InBounds
<1>9. InBounds'
  <2>1. \A k \in Blocked' : size'[k] > 0 /\ hb <= addr'[k] /\ addr'[k] + size'[k] <= top'
    BY <1>0, <1>2, <1>3, <1>4, <1>5, <1>8
  <2> QED
    BY <1>0, <1>2, <1>3, <2>1 DEF InBounds
<1>10. NoOverlap'
  <2>1. \A k, l \in Blocked : k # l => addr[k] + size[k] <= addr[l] \/ addr[l] + size[l] <= addr[k]
    BY DEF NoOverlap
  <2> QED
    BY <1>4, <1>5, <1>8, <2>1 DEF NoOverlap
<1>11. Compacted'
  BY <1>1, <1>5 DEF Compacted, Blocked
<1>12. NoLeak'
  <2> SUFFICES ASSUME NEW x \in hb .. top' - 1
               PROVE  \E k \in Blocked' : addr'[k] <= x /\ x < addr'[k] + size'[k]
    BY DEF NoLeak
  <2>1. CASE x < top
    <3>1. PICK k \in Blocked : addr[k] <= x /\ x < addr[k] + size[k]
      BY <1>0, <2>1 DEF NoLeak
    <3> QED
      BY <1>4, <1>5, <3>1
  <2>2. CASE top <= x
    BY <1>0, <1>3, <1>4, <1>5, <2>2
  <2> QED
    BY <1>0, <2>1, <2>2
<1> QED
  BY <1>6, <1>7, <1>9, <1>10, <1>11, <1>12

(* Splitting a free block keeps the invariant. *)
LEMMA AllocSplitKeepsInvariant ==
  ASSUME HeapInvariant, NEW s, Request(s), AllocSplit(s)
  PROVE  HeapInvariant'
<1>0. /\ M \in Nat /\ hb \in Nat /\ lmt \in Nat /\ lmt < M /\ hb < M
      /\ s \in Nat /\ s > 0 /\ sth \in Nat /\ sth > 0
      /\ top \in Nat /\ top < M
      /\ free \in SUBSET Blocks /\ used \in SUBSET Blocks /\ fresh \in SUBSET Blocks
      /\ addr \in [Blocks -> Word] /\ size \in [Blocks -> Word]
      /\ \A k \in Blocks : addr[k] \in Nat /\ size[k] \in Nat
  BY HeapAssumption DEF Request, TypeOK, HeapInvariant
<1>1. PICK p \in free, split \in fresh :
        /\ FirstFit(p, s) /\ ~ IsTop(p, s)
        /\ size[p] - s >= sth
        /\ InsertAndCompact(free \ {p}, split,
                            [addr EXCEPT ![split] = (addr[p] + s) % M],
                            [size EXCEPT ![p] = s, ![split] = size[p] - s],
                            fresh \ {split})
        /\ used' = used \cup {p} /\ top' = top
  BY DEF AllocSplit
<1> DEFINE A == [addr EXCEPT ![split] = (addr[p] + s) % M]
           S == [size EXCEPT ![p] = s, ![split] = size[p] - s]
           F == free \ {p}
           U == used \cup {p}
           R == fresh \ {split}
<1>2. /\ p \in Blocks /\ split \in Blocks /\ p # split
      /\ split \notin Blocked /\ p \in Blocked /\ p \notin used
  BY <1>1 DEF HeapInvariant, TypeOK, DescriptorsConserved, Blocked
<1>3. size[p] > 0 /\ hb <= addr[p] /\ addr[p] + size[p] <= top
  BY <1>2 DEF HeapInvariant, InBounds, End
<1>4. s < size[p] /\ size[p] - s \in Nat /\ size[p] - s > 0
  BY <1>0, <1>1, <1>2
<1>5. (addr[p] + s) % M = addr[p] + s
  BY <1>0, <1>2, <1>3, <1>4
<1>6. /\ A \in [Blocks -> Word] /\ S \in [Blocks -> Word]
      /\ A[split] = addr[p] + s /\ S[split] = size[p] - s
      /\ A[p] = addr[p] /\ S[p] = s
      /\ \A k \in Blocks \ {split} : A[k] = addr[k]
      /\ \A k \in Blocks \ {p, split} : S[k] = size[k]
  BY <1>0, <1>2, <1>3, <1>4, <1>5
<1>7. F \cup {split} \cup U = Blocked \cup {split}
  BY <1>1 DEF Blocked
<1>8. /\ F \cup {split} \cup U \cup R = Blocks
      /\ F \cap U = {} /\ F \cap R = {} /\ U \cap R = {}
      /\ split \notin F /\ split \notin U /\ split \notin R
  BY <1>0, <1>1, <1>2 DEF HeapInvariant, DescriptorsConserved, Blocked
<1>9. InsertAndCompact(F, split, A, S, R)
  BY <1>1
<1> HIDE DEF A, S, F, U, R
<1>10. \A k \in Blocked : /\ k \in Blocks \ {split} /\ size[k] > 0
                          /\ hb <= addr[k] /\ addr[k] + size[k] <= top
  BY <1>0, <1>2 DEF HeapInvariant, InBounds, Blocked, End
<1>11. \A k, l \in Blocked : k # l => addr[k] + size[k] <= addr[l] \/ addr[l] + size[l] <= addr[k]
  BY DEF HeapInvariant, NoOverlap, End
<1>12. \A k \in F \cup {split} \cup U : S[k] > 0 /\ hb <= A[k] /\ A[k] + S[k] <= top
  <2> SUFFICES ASSUME NEW k \in Blocked \cup {split}
               PROVE  S[k] > 0 /\ hb <= A[k] /\ A[k] + S[k] <= top
    BY <1>7
  <2>1. CASE k = split
    BY <1>0, <1>2, <1>3, <1>4, <1>6, <2>1
  <2>2. CASE k = p
    BY <1>0, <1>2, <1>3, <1>4, <1>6, <2>2
  <2>3. CASE k \notin {p, split}
    BY <1>6, <1>10, <2>3
  <2> QED
    BY <2>1, <2>2, <2>3
<1>13. ASSUME NEW k \in Blocked \ {p}
       PROVE  \/ addr[k] + size[k] <= addr[p] /\ addr[k] + size[k] <= A[split]
              \/ addr[p] + size[p] <= addr[k]
  <2>1. addr[k] + size[k] <= addr[p] \/ addr[p] + size[p] <= addr[k]
    BY <1>2, <1>11
  <2> QED
    BY <1>0, <1>2, <1>6, <1>10, <2>1
<1>14. \A k, l \in F \cup {split} \cup U :
         k # l => A[k] + S[k] <= A[l] \/ A[l] + S[l] <= A[k]
  <2> SUFFICES ASSUME NEW k \in Blocked \cup {split}, NEW l \in Blocked \cup {split}, k # l
               PROVE  A[k] + S[k] <= A[l] \/ A[l] + S[l] <= A[k]
    BY <1>7
  <2>1. \A m \in Blocked \ {p} : A[m] = addr[m] /\ S[m] = size[m]
    BY <1>6, <1>10
  <2>2. A[p] + S[p] = A[split] /\ A[split] + S[split] = addr[p] + size[p]
    BY <1>0, <1>2, <1>6
  <2>3. \A m \in Blocked \ {p} :
          \/ A[m] + S[m] <= A[p] /\ A[m] + S[m] <= A[split]
          \/ A[p] + S[p] <= A[m] /\ A[split] + S[split] <= A[m]
    <3> TAKE m \in Blocked \ {p}
    <3>1. addr[m] \in Nat /\ size[m] \in Nat
      BY <1>0, <1>10
    <3> QED
      BY <1>0, <1>2, <1>4, <1>6, <1>13, <2>1, <2>2, <3>1
  <2>4. A[p] + S[p] <= A[split]
    BY <1>0, <1>2, <1>4, <1>6
  <2>5. \A m, o \in Blocked \ {p} : m # o => A[m] + S[m] <= A[o] \/ A[o] + S[o] <= A[m]
    BY <1>11, <2>1
  <2> QED
    BY <2>3, <2>4, <2>5
<1>15. \A k, l \in F : A[k] + S[k] # A[l]
  <2>1. \A k \in F : k \in free /\ A[k] = addr[k] /\ S[k] = size[k]
    BY <1>6, <1>8, <1>10 DEF F, Blocked
  <2> QED
    BY <2>1 DEF HeapInvariant, Compacted, End
<1>16. \A x \in hb .. top - 1 :
         \E k \in F \cup {split} \cup U : A[k] <= x /\ x < A[k] + S[k]
  <2> SUFFICES ASSUME NEW x \in hb .. top - 1
               PROVE  \E k \in Blocked \cup {split} : A[k] <= x /\ x < A[k] + S[k]
    BY <1>7
  <2>1. PICK k \in Blocked : addr[k] <= x /\ x < addr[k] + size[k]
    BY DEF HeapInvariant, NoLeak, End
  <2>2. CASE k # p
    BY <1>6, <1>10, <2>1, <2>2
  <2>3. CASE k = p
    <3>1. CASE x < addr[p] + s
      BY <1>2, <1>6, <2>1, <2>3, <3>1
    <3>2. CASE addr[p] + s <= x
      BY <1>0, <1>2, <1>6, <2>1, <2>3, <3>2
    <3> QED
      BY <1>0, <1>2, <3>1, <3>2
  <2> QED
    BY <2>2, <2>3
<1>17. top \in Word /\ (top = hb \/ (hb <= top /\ top <= lmt))
  BY DEF HeapInvariant, TypeOK, InBounds
<1>18. F \in SUBSET Blocks /\ U \in SUBSET Blocks /\ R \in SUBSET Blocks
  BY <1>0, <1>2 DEF F, U, R
<1>19. used' = U /\ top' = top
  BY <1>1 DEF U
<1> QED
  BY <1>2, <1>6, <1>8, <1>9, <1>12, <1>14, <1>15, <1>16, <1>17, <1>18, <1>19,
     InsertAndCompactKeepsInvariant

(* VM_free of a used block keeps the invariant. *)
LEMMA FreeKeepsInvariant ==
  ASSUME HeapInvariant, NEW mem, VM_free(mem)
  PROVE  HeapInvariant'
<1> USE DEF HeapInvariant
<1>1. PICK b \in used :
        /\ used' = used \ {b} /\ top' = top
        /\ InsertAndCompact(free, b, addr, size, fresh)
  BY DEF VM_free
<1> DEFINE U == used \ {b}
<1>2. /\ free \in SUBSET Blocks /\ U \in SUBSET Blocks /\ fresh \in SUBSET Blocks
      /\ addr \in [Blocks -> Word] /\ size \in [Blocks -> Word]
      /\ b \in Blocks \ free
      /\ free \cup {b} \cup U \cup fresh = Blocks
      /\ free \cap U = {} /\ free \cap fresh = {} /\ U \cap fresh = {}
      /\ b \notin U /\ b \notin fresh
  BY <1>1 DEF TypeOK, DescriptorsConserved
<1>3. free \cup {b} \cup U = Blocked
  BY <1>1 DEF Blocked
<1>4. /\ \A k \in Blocked : size[k] > 0 /\ hb <= addr[k] /\ addr[k] + size[k] <= top
      /\ top \in Word /\ (top = hb \/ (hb <= top /\ top <= lmt))
  BY DEF TypeOK, InBounds, End
<1>5. \A k, l \in Blocked : k # l => addr[k] + size[k] <= addr[l] \/ addr[l] + size[l] <= addr[k]
  BY DEF NoOverlap, End
<1>6. \A k, l \in free : addr[k] + size[k] # addr[l]
  BY DEF Compacted, End
<1>7. \A x \in hb .. top - 1 : \E k \in Blocked : addr[k] <= x /\ x < addr[k] + size[k]
  BY DEF NoLeak, End
<1>8. used' = U
  BY <1>1
<1> HIDE DEF U, HeapInvariant
<1> QED
  BY <1>1, <1>2, <1>3, <1>4, <1>5, <1>6, <1>7, <1>8, InsertAndCompactKeepsInvariant

(* Every call of VM_alloc and VM_free keeps the invariant. *)
LEMMA NextKeepsInvariant ==
  ASSUME RequestsFit, HeapInvariant, [Next]_vars
  PROVE  HeapInvariant'
<1>1. ASSUME NEW n \in Sizes, VM_alloc(n)
      PROVE  HeapInvariant'
  <2> DEFINE s == CynAlign(n)
  <2>1. Request(s)
    BY AlignUp DEF Request
  <2> HIDE DEF s
  <2>2. AllocTop(s) \/ AllocWhole(s) \/ AllocSplit(s) \/ AllocFresh(s) \/ AllocFails(s)
    BY <1>1 DEF VM_alloc, s
  <2>3. CASE AllocFails(s)
    BY <2>3 DEF AllocFails, vars, HeapInvariant, TypeOK, DescriptorsConserved,
                InBounds, NoOverlap, Compacted, NoLeak, Blocked, End
  <2> QED
    BY <2>1, <2>2, <2>3, AllocTopKeepsInvariant, AllocWholeKeepsInvariant,
       AllocSplitKeepsInvariant, AllocFreshKeepsInvariant
<1>2. ASSUME NEW mem \in Word, VM_free(mem)
      PROVE  HeapInvariant'
  BY <1>2, FreeKeepsInvariant
<1>3. CASE UNCHANGED vars
  BY <1>3 DEF vars, HeapInvariant, TypeOK, DescriptorsConserved,
              InBounds, NoOverlap, Compacted, NoLeak, Blocked, End
<1> QED
  BY <1>1, <1>2, <1>3 DEF Next, VM_freeUnknown

(* VM_heap_init_ establishes the invariant. *)
LEMMA InitInvariant == Init => HeapInvariant
<1> SUFFICES ASSUME Init PROVE HeapInvariant
  OBVIOUS
<1>1. hb \in Nat /\ M \in Nat /\ M > 0 /\ hb < M /\ hb .. hb - 1 = {}
  BY HeapAssumption
<1>2. Blocked = {}
  BY DEF Init, Blocked
<1> QED
  BY <1>1, <1>2 DEF Init, HeapInvariant, TypeOK, DescriptorsConserved,
                    InBounds, NoOverlap, Compacted, NoLeak

(* The guest heap is safe for every size of memory, split threshold and
   alignment, and any number of descriptors: whatever VM_alloc and VM_free do,
   the lists keep the invariant as long as the requests do not wrap. *)
THEOREM HeapSafe == RequestsFit => (Spec => []HeapInvariant)
<1> SUFFICES ASSUME RequestsFit PROVE Spec => []HeapInvariant
  OBVIOUS
<1>1. Init => HeapInvariant
  BY InitInvariant
<1>2. HeapInvariant /\ [Next]_vars => HeapInvariant'
  BY NextKeepsInvariant
<1> QED
  BY <1>1, <1>2, PTL DEF Spec

(* The fields and lists of the heap keep their types. *)
THEOREM TypeCorrect == RequestsFit => (Spec => []TypeOK)
  BY HeapSafe, PTL DEF HeapInvariant

(* No call loses a descriptor or links it into two lists. *)
THEOREM DescriptorsAreConserved == RequestsFit => (Spec => []DescriptorsConserved)
  BY HeapSafe, PTL DEF HeapInvariant

(* No allocation reaches past the top, and the top never past the limit. *)
THEOREM StaysInBounds == RequestsFit => (Spec => []InBounds)
  BY HeapSafe, PTL DEF HeapInvariant

(* VM_alloc never hands out a byte that is live or on the free list. *)
THEOREM BlocksAreDisjoint == RequestsFit => (Spec => []NoOverlap)
  BY HeapSafe, PTL DEF HeapInvariant

(* One pass of VM_heap_compact after each insertion is enough: no two free
   blocks ever adjoin. *)
THEOREM FreeListIsCompact == RequestsFit => (Spec => []Compacted)
  BY HeapSafe, PTL DEF HeapInvariant

(* Splitting and merging never lose a byte below the top. *)
THEOREM NoByteIsLost == RequestsFit => (Spec => []NoLeak)
  BY HeapSafe, PTL DEF HeapInvariant

(* If live allocations leave room for a request, either the top can move, or
   the gap lies in one free block (the free list is compact), or it reaches
   across the top and the free block there can be grown. *)
LEMMA GapIsFound ==
  ASSUME RequestsFit, HeapInvariant,
         NEW n \in Sizes, NEW a \in hb .. lmt, fresh # {}, Gap(a, CynAlign(n))
  PROVE  CanAlloc(CynAlign(n))
<1> DEFINE s == CynAlign(n)
<1>0. /\ M \in Nat /\ hb \in Nat /\ lmt \in Nat /\ lmt < M
      /\ s \in Nat /\ s > 0 /\ lmt + s < M /\ hb + s < M
      /\ top \in Nat /\ top < M /\ a \in Nat /\ hb <= a /\ a + s <= lmt
      /\ \A k \in Blocks : addr[k] \in Nat /\ size[k] \in Nat
      /\ \A k \in Blocked : k \in Blocks
  BY HeapAssumption, AlignUp DEF HeapInvariant, TypeOK, Gap, Blocked
<1>1. \A b \in used : addr[b] + size[b] <= a \/ a + s <= addr[b]
  BY DEF Gap, End
<1> HIDE DEF s
<1>2. CASE top <= a
  <2>1. (top + s) % M = top + s /\ top + s <= lmt
    BY <1>0, <1>2
  <2> QED
    BY <2>1 DEF CanAlloc, s
<1>3. CASE a < top
  <2>1. PICK f \in Blocked : addr[f] <= a /\ a < addr[f] + size[f]
    BY <1>0, <1>3 DEF HeapInvariant, NoLeak, End
  <2>2. f \in free
    BY <1>0, <1>1, <2>1 DEF Blocked
  <2>3. addr[f] + size[f] <= top /\ f \in Blocks
    BY <1>0, <2>1 DEF HeapInvariant, InBounds, End
  <2>4. CASE a + s <= addr[f] + size[f]
    <3>1. size[f] >= s
      BY <1>0, <2>1, <2>3, <2>4
    <3> QED
      BY <2>2, <3>1 DEF CanAlloc, Fits, s
  <2>5. CASE addr[f] + size[f] = top
    <3>1. (addr[f] + size[f]) % M >= top /\ (addr[f] + s) % M <= lmt
      BY <1>0, <2>1, <2>3, <2>5
    <3> QED
      BY <2>2, <3>1 DEF CanAlloc, Fits, IsTop, s
  <2>6. CASE addr[f] + size[f] < a + s /\ addr[f] + size[f] < top
    <3> DEFINE x == addr[f] + size[f]
    <3>1. x \in hb .. top - 1 /\ x \in Nat
      BY <1>0, <2>1, <2>3, <2>6
    <3>2. PICK g \in Blocked : addr[g] <= x /\ x < addr[g] + size[g]
      BY <3>1 DEF HeapInvariant, NoLeak, End
    <3>3. g \in free
      BY <1>0, <1>1, <2>1, <2>3, <2>6, <3>2 DEF Blocked
    <3>4. g # f
      BY <1>0, <2>3, <3>2
    <3>5. addr[f] + size[f] <= addr[g] \/ addr[g] + size[g] <= addr[f]
      BY <2>1, <3>2, <3>4 DEF HeapInvariant, NoOverlap, End
    <3>6. addr[f] + size[f] = addr[g]
      BY <1>0, <2>3, <3>2, <3>5
    <3> QED
      BY <2>2, <3>3, <3>6 DEF HeapInvariant, Compacted, End
  <2> QED
    BY <1>0, <2>3, <2>4, <2>5, <2>6
<1> QED
  BY <1>0, <1>2, <1>3

(* VM_alloc never reports "out of memory" while a large enough gap between the
   live allocations exists and a descriptor is left. *)
THEOREM MemoryIsFound == RequestsFit => (Spec => []NoFalseOutOfMemory)
<1> SUFFICES ASSUME RequestsFit PROVE Spec => []NoFalseOutOfMemory
  OBVIOUS
<1>1. HeapInvariant => NoFalseOutOfMemory
  BY GapIsFound DEF NoFalseOutOfMemory
<1> QED
  BY <1>1, HeapSafe, PTL

(* With no live allocation the free list is one block or none. *)
LEMMA WholeWhenEmpty ==
  ASSUME RequestsFit, HeapInvariant, used = {}, Blocks # {}
  PROVE  /\ \A b, c \in free : b = c
         /\ \A n \in Sizes : hb + CynAlign(n) <= lmt => CanAlloc(CynAlign(n))
<1>0. /\ M \in Nat /\ hb \in Nat /\ lmt \in Nat /\ lmt < M
      /\ top \in Nat /\ top < M
      /\ \A k \in free : /\ addr[k] \in Nat /\ size[k] \in Nat /\ size[k] > 0
                         /\ hb <= addr[k] /\ addr[k] + size[k] <= top
  BY HeapAssumption DEF HeapInvariant, TypeOK, InBounds, Blocked, End
<1>1. \A x \in hb .. top - 1 : \E k \in free : addr[k] <= x /\ x < addr[k] + size[k]
  BY DEF HeapInvariant, NoLeak, Blocked, End
<1>2. \A k, l \in free : k # l => addr[k] + size[k] <= addr[l] \/ addr[l] + size[l] <= addr[k]
  BY DEF HeapInvariant, NoOverlap, Blocked, End
<1>3. \A k, l \in free : addr[k] + size[k] # addr[l]
  BY DEF HeapInvariant, Compacted, End
<1>4. \A k \in free : addr[k] + size[k] = top
  <2> SUFFICES ASSUME NEW k \in free, addr[k] + size[k] < top
               PROVE  FALSE
    BY <1>0
  <2>1. PICK l \in free : addr[l] <= addr[k] + size[k] /\ addr[k] + size[k] < addr[l] + size[l]
    BY <1>0, <1>1
  <2>2. l # k
    BY <1>0, <2>1
  <2> QED
    BY <1>0, <1>2, <1>3, <2>1, <2>2
<1>5. \A b, c \in free : b = c
  BY <1>0, <1>2, <1>4
<1>6. ASSUME NEW n \in Sizes, hb + CynAlign(n) <= lmt
      PROVE  CanAlloc(CynAlign(n))
  <2>0. CynAlign(n) \in Nat /\ lmt + CynAlign(n) < M
    BY AlignUp
  <2>1. CASE free = {}
    <3>1. fresh # {}
      BY <2>1 DEF HeapInvariant, DescriptorsConserved
    <3>2. top = hb
      BY <1>0, <1>1, <2>1 DEF HeapInvariant, InBounds
    <3>3. (top + CynAlign(n)) % M <= lmt
      BY <1>0, <1>6, <2>0, <3>2
    <3> QED
      BY <3>1, <3>3 DEF CanAlloc
  <2>2. ASSUME NEW p \in free
        PROVE  CanAlloc(CynAlign(n))
    <3>1. addr[p] = hb
      <4>1. CASE hb < addr[p]
        <5>1. PICK l \in free : addr[l] <= hb /\ hb < addr[l] + size[l]
          BY <1>0, <1>1, <4>1
        <5> QED
          BY <1>0, <1>5, <4>1, <5>1
      <4> QED
        BY <1>0, <4>1
    <3>2. (addr[p] + size[p]) % M >= top
      BY <1>0, <1>4
    <3>3. (addr[p] + CynAlign(n)) % M <= lmt
      BY <1>0, <1>6, <2>0, <3>1
    <3> QED
      BY <3>2, <3>3 DEF CanAlloc, Fits, IsTop
  <2> QED
    BY <2>1, <2>2
<1> QED
  BY <1>5, <1>6

(* Once everything is freed, VM_alloc serves whatever a new heap would. *)
THEOREM EmptyHeapServes == RequestsFit /\ Blocks # {} => (Spec => []EmptyHeapIsWhole)
<1> SUFFICES ASSUME RequestsFit, Blocks # {} PROVE Spec => []EmptyHeapIsWhole
  OBVIOUS
<1>1. HeapInvariant => EmptyHeapIsWhole
  BY WholeWhenEmpty DEF EmptyHeapIsWhole
<1> QED
  BY <1>1, HeapSafe, PTL

(* A step of VM_alloc that succeeds binds one more block, of at least s bytes,
   and leaves the fields of the used ones alone. *)
Binds(p, s) ==
  /\ p \in Blocks \ used /\ used' = used \cup {p} /\ size'[p] >= s
  /\ \A k \in used : addr'[k] = addr[k] /\ size'[k] = size[k]

(* A step of VM_free takes one block off the used list, likewise. *)
Releases(p) ==
  /\ p \in used /\ used' = used \ {p}
  /\ \A k \in used \ {p} : addr'[k] = addr[k] /\ size'[k] = size[k]

(* Insertion and compaction leave the descriptors off the free list alone. *)
LEMMA InsertAndCompactFrame ==
  ASSUME NEW F, NEW b, NEW A, NEW S, NEW R, InsertAndCompact(F, b, A, S, R),
         NEW k \in Blocks, k \notin F, k # b
  PROVE  addr'[k] = A[k] /\ size'[k] = S[k]
<1> DEFINE G == F \cup {b}
           H == Heads(G, {b}, A, S)
<1>1. H \subseteq G /\ k \notin G
  BY DEF Heads
<1> HIDE DEF H
<1> QED
  BY <1>1 DEF InsertAndCompact, H

(* VM_alloc fails and changes nothing, or binds one block. *)
LEMMA AllocBinds ==
  ASSUME RequestsFit, HeapInvariant, NEW n \in Sizes, VM_alloc(n)
  PROVE  (\E p \in Blocks : Binds(p, n)) \/ UNCHANGED vars
<1> DEFINE s == CynAlign(n)
<1>0. /\ s \in Nat /\ n \in Nat /\ n <= s
      /\ addr \in [Blocks -> Word] /\ size \in [Blocks -> Word]
      /\ free \subseteq Blocks /\ used \subseteq Blocks /\ fresh \subseteq Blocks
      /\ free \cap used = {} /\ fresh \cap used = {} /\ free \cap fresh = {}
      /\ \A k \in Blocks : size[k] \in Nat
  BY HeapAssumption, AlignUp DEF HeapInvariant, TypeOK, DescriptorsConserved
<1>1. AllocTop(s) \/ AllocWhole(s) \/ AllocSplit(s) \/ AllocFresh(s) \/ AllocFails(s)
  BY DEF VM_alloc
<1> HIDE DEF s
<1>2. CASE AllocTop(s)
  <2>1. PICK p \in free : /\ used' = used \cup {p} /\ addr' = addr
                          /\ size' = [size EXCEPT ![p] = s]
    BY <1>2 DEF AllocTop
  <2> QED
    BY <1>0, <2>1 DEF Binds
<1>3. CASE AllocWhole(s)
  <2>1. PICK p \in free : /\ used' = used \cup {p} /\ addr' = addr /\ size' = size
                          /\ FirstFit(p, s) /\ ~ IsTop(p, s)
    BY <1>3 DEF AllocWhole
  <2>2. size[p] >= s
    BY <2>1 DEF FirstFit, Fits
  <2> QED
    BY <1>0, <2>1, <2>2 DEF Binds
<1>4. CASE AllocSplit(s)
  <2>1. PICK p \in free, split \in fresh :
          /\ InsertAndCompact(free \ {p}, split,
                              [addr EXCEPT ![split] = (addr[p] + s) % M],
                              [size EXCEPT ![p] = s, ![split] = size[p] - s],
                              fresh \ {split})
          /\ used' = used \cup {p}
    BY <1>4 DEF AllocSplit
  <2> DEFINE A == [addr EXCEPT ![split] = (addr[p] + s) % M]
             S == [size EXCEPT ![p] = s, ![split] = size[p] - s]
  <2>2. \A k \in used \cup {p} : /\ k \in Blocks /\ k \notin free \ {p} /\ k # split
    BY <1>0
  <2>3. S[p] = s /\ \A k \in used : A[k] = addr[k] /\ S[k] = size[k]
    BY <1>0, <2>2
  <2>4. InsertAndCompact(free \ {p}, split, A, S, fresh \ {split})
    BY <2>1
  <2> HIDE DEF A, S
  <2>5. \A k \in used \cup {p} : addr'[k] = A[k] /\ size'[k] = S[k]
    BY <2>2, <2>4, InsertAndCompactFrame
  <2> QED
    BY <1>0, <2>1, <2>3, <2>5 DEF Binds
<1>5. CASE AllocFresh(s)
  <2>1. PICK b \in fresh : /\ used' = used \cup {b}
                           /\ addr' = [addr EXCEPT ![b] = top]
                           /\ size' = [size EXCEPT ![b] = s]
    BY <1>5 DEF AllocFresh
  <2> QED
    BY <1>0, <2>1 DEF Binds
<1>6. CASE AllocFails(s)
  BY <1>6 DEF AllocFails
<1> QED
  BY <1>1, <1>2, <1>3, <1>4, <1>5, <1>6

(* VM_free of a used block releases one block. *)
LEMMA FreeReleases ==
  ASSUME HeapInvariant, NEW mem, VM_free(mem)
  PROVE  \E p \in used : Releases(p)
<1>1. PICK b \in used : /\ used' = used \ {b}
                        /\ InsertAndCompact(free, b, addr, size, fresh)
  BY DEF VM_free
<1>2. \A k \in used \ {b} : k \in Blocks /\ k \notin free /\ k # b
  BY DEF HeapInvariant, TypeOK, DescriptorsConserved
<1>3. \A k \in used \ {b} : addr'[k] = addr[k] /\ size'[k] = size[k]
  BY <1>1, <1>2, InsertAndCompactFrame
<1> QED
  BY <1>1, <1>3 DEF Releases

(* Every step binds one block, releases one block, or does nothing. *)
LEMMA StepBindsOrReleases ==
  ASSUME RequestsFit, HeapInvariant, [Next]_vars
  PROVE  \/ \E n \in Sizes : \E p \in Blocks : Binds(p, n)
         \/ \E p \in used : Releases(p)
         \/ UNCHANGED vars
<1>1. ASSUME NEW n \in Sizes, VM_alloc(n)
      PROVE  (\E p \in Blocks : Binds(p, n)) \/ UNCHANGED vars
  BY <1>1, AllocBinds
<1>2. ASSUME NEW mem \in Word, VM_free(mem)
      PROVE  \E p \in used : Releases(p)
  BY <1>2, FreeReleases
<1> QED
  BY <1>1, <1>2 DEF Next, VM_freeUnknown

(* No call of VM_alloc or VM_free moves or resizes a block that stays live. *)
THEOREM LiveBlocksAreStable == RequestsFit => (Spec => LiveBlocksStay)
<1> SUFFICES ASSUME RequestsFit PROVE Spec => LiveBlocksStay
  OBVIOUS
<1>1. HeapInvariant /\ [Next]_vars =>
        [\A b \in used \cap used' : addr'[b] = addr[b] /\ size'[b] = size[b]]_vars
  <2> SUFFICES ASSUME HeapInvariant, [Next]_vars, NEW b \in used \cap used'
               PROVE  addr'[b] = addr[b] /\ size'[b] = size[b]
    OBVIOUS
  <2> QED
    BY StepBindsOrReleases DEF Binds, Releases, vars
<1> QED
  BY <1>1, HeapSafe, PTL DEF Spec, LiveBlocksStay

(* A block bound by VM_alloc is an allocation of the abstract heap. *)
LEMMA BindIsAlloc ==
  ASSUME HeapInvariant', NEW n \in Sizes, n \in Nat, NEW p \in Blocks, Binds(p, n)
  PROVE  Abstract!Alloc(n)
<1> DEFINE a == addr'[p]
           s == size'[p]
           live == {[addr |-> addr[b], size |-> size[b]] : b \in used}
           r == [addr |-> a, size |-> s]
<1>0. /\ p \notin used /\ used' = used \cup {p} /\ s >= n
      /\ \A k \in used : addr'[k] = addr[k] /\ size'[k] = size[k]
  BY DEF Binds
<1>1. /\ a \in Nat /\ s \in Nat /\ hb \in Nat /\ lmt \in Nat /\ top' \in Nat
      /\ hb <= a /\ s > 0 /\ a + s <= top' /\ top' <= lmt
  BY <1>0, HeapAssumption DEF HeapInvariant, TypeOK, InBounds, Blocked, End
<1>2. a \in hb .. lmt /\ s \in n .. lmt /\ a + s <= lmt
  BY <1>0, <1>1
<1>3. \A k \in used : addr[k] + size[k] <= a \/ a + s <= addr[k]
  BY <1>0 DEF HeapInvariant, NoOverlap, Blocked, End
<1>4. \A e \in live : Abstract!Apart(e, r)
  BY <1>3 DEF Abstract!Apart
<1>5. {[addr |-> addr'[b], size |-> size'[b]] : b \in used'} = live \cup {r}
  BY <1>0
<1> QED
  BY <1>2, <1>4, <1>5 DEF Abstract!Alloc

(* A block released by VM_free is a release of the abstract heap: no other
   live block has its address. *)
LEMMA ReleaseIsFree ==
  ASSUME HeapInvariant, NEW p \in used, Releases(p)
  PROVE  LET live == {[addr |-> addr[b], size |-> size[b]] : b \in used}
         IN  \E e \in live : Abstract!Free(e)
<1> DEFINE live == {[addr |-> addr[b], size |-> size[b]] : b \in used}
           e == [addr |-> addr[p], size |-> size[p]]
<1>1. \A k \in used \ {p} : addr[k] # addr[p]
  <2> TAKE k \in used \ {p}
  <2>1. addr[k] + size[k] <= addr[p] \/ addr[p] + size[p] <= addr[k]
    BY DEF HeapInvariant, NoOverlap, Blocked, End
  <2>2. size[k] > 0 /\ size[p] > 0
    BY DEF HeapInvariant, InBounds, Blocked, End
  <2>3. addr[k] \in Nat /\ size[k] \in Nat /\ addr[p] \in Nat /\ size[p] \in Nat
    BY HeapAssumption DEF HeapInvariant, TypeOK
  <2> QED
    BY <2>1, <2>2, <2>3
<1>2. \A k \in used \ {p} : [addr |-> addr[k], size |-> size[k]] # e
  BY <1>1
<1>3. {[addr |-> addr'[b], size |-> size'[b]] : b \in used'}
        = {[addr |-> addr[b], size |-> size[b]] : b \in used \ {p}}
  BY DEF Releases
<1>4. {[addr |-> addr[b], size |-> size[b]] : b \in used \ {p}} = live \ {e}
  BY <1>2
<1>5. e \in live
  OBVIOUS
<1> QED
  BY <1>3, <1>4, <1>5 DEF Abstract!Free

(* The linked lists implement the abstract heap, for every value of the
   constants. *)
THEOREM HeapImplementsSpec == RequestsFit => (Spec => ImplementsHeapSpec)
<1> SUFFICES ASSUME RequestsFit PROVE Spec => ImplementsHeapSpec
  OBVIOUS
<1>1. Init => Abstract!Init
  BY DEF Init, Abstract!Init
<1>2. HeapInvariant /\ HeapInvariant' /\ [Next]_vars
        => [Abstract!Next]_{[addr |-> addr[b], size |-> size[b]] : b \in used}
  <2> SUFFICES ASSUME HeapInvariant, HeapInvariant', [Next]_vars
               PROVE  [Abstract!Next]_{[addr |-> addr[b], size |-> size[b]] : b \in used}
    OBVIOUS
  <2>0. \A n \in Sizes : n \in Nat
    BY HeapAssumption
  <2>1. ASSUME NEW n \in Sizes, NEW p \in Blocks, Binds(p, n)
        PROVE  Abstract!Next
    BY <2>0, <2>1, BindIsAlloc DEF Abstract!Next
  <2>2. ASSUME NEW p \in used, Releases(p)
        PROVE  Abstract!Next
    BY <2>2, ReleaseIsFree DEF Abstract!Next
  <2>3. CASE UNCHANGED vars
    BY <2>3 DEF vars
  <2> QED
    BY <2>1, <2>2, <2>3, StepBindsOrReleases
<1> QED
  BY <1>1, <1>2, HeapSafe, PTL DEF Spec, ImplementsHeapSpec, Abstract!Spec
=============================================================================
