---------------------------- MODULE RbTreeProofs ----------------------------
(***************************************************************************)
(* Proofs about the red-black tree (RbTree): links, order and colours.     *)
(*                                                                         *)
(* The shape of the tree is stated for nodes N, a root r and fields ch and *)
(* pa as parameters, so that the fields in the middle of a rotation can be *)
(* spoken of.  A walk along the tree ends since nodes have ranks that fall *)
(* from parent to child; it goes right since each link leads to a set of   *)
(* nodes that are all on its side.  Ranks and sets are not fields of the   *)
(* program: the invariant says that they exist, and every step finds new   *)
(* ones.  Both rotations of RbTree_insert__ are made of one move, which    *)
(* lifts a child above its parent: one time for case 3, two times for case *)
(* 2 and 3.                                                                *)
(***************************************************************************)
EXTENDS RbTree, FiniteSetTheorems, WellFoundedInduction, TLAPS

(* Names in the order of a dictionary, and nodes in that order and, for equal
   names, of insertion. *)
KeyLt(k, l) ==
  \E i \in 1 .. Len(l) :
    /\ i <= Len(k) + 1
    /\ \A j \in 1 .. i - 1 : k[j] = l[j]
    /\ i = Len(k) + 1 \/ k[i] < l[i]
Lt(m, n) == KeyLt(m[1], n[1]) \/ (m[1] = n[1] /\ m[2] < n[2])

(* m belongs on side s of n. *)
Before(s, m, n) == IF s = "left" THEN Lt(m, n) ELSE Lt(n, m)

Labels == Keys \X (Nat \ {0})

Typed(N, r, ch, pa) ==
  /\ NULL \notin N /\ r \in N \cup {NULL}
  /\ ch \in [Sides -> [N -> N \cup {NULL}]]
  /\ pa \in [N -> N \cup {NULL}]

(* Links lead to nodes that name where they hang, and back. *)
Linked(N, r, ch, pa) ==
  /\ \A p \in N, s \in Sides : ch[s][p] # NULL => pa[ch[s][p]] = p
  /\ \A n \in N : pa[n] # NULL => \E s \in Sides : ch[s][pa[n]] = n
  /\ \A p \in N, s, o \in Sides : ch[s][p] # NULL /\ s # o => ch[s][p] # ch[o][p]
  /\ \A n \in N : pa[n] = NULL <=> n = r
  /\ r = NULL => N = {}

(* Ranks fall along the links. *)
Falls(N, ch, rk) ==
  \A p \in N, s \in Sides : ch[s][p] # NULL => rk[ch[s][p]] < rk[p]
Ranked(N, ch) == \E top \in Nat : \E rk \in [N -> 0 .. top] : Falls(N, ch, rk)

(* sub gives the nodes at and below a node: all of them for the root, and below
   each link those that belong on its side. *)
SubOf(N, r, ch, sub) ==
  /\ N \subseteq Labels /\ sub \in [N -> SUBSET N]
  /\ \A n, m \in N : m \in sub[n] <=> (m = n \/ \E q \in Sides : ch[q][n] # NULL /\ m \in sub[ch[q][n]])
  /\ \A n, m \in N, q \in Sides : ch[q][n] # NULL /\ m \in sub[ch[q][n]] => Before(q, m, n)
  /\ r # NULL => sub[r] = N
Sorted(N, r, ch) == \E sub : SubOf(N, r, ch, sub)

Tree(N, r, ch, pa) ==
  Typed(N, r, ch, pa) /\ Linked(N, r, ch, pa) /\ Ranked(N, ch) /\ Sorted(N, r, ch)

(* The nodes with one key are numbered. *)
Same(N, k) == {n \in N : n[1] = k}
Numbered(N) ==
  /\ IsFiniteSet(N) /\ N \subseteq Labels
  /\ \A k \in Keys : Same(N, k) = {<<k, j>> : j \in 1 .. Cardinality(Same(N, k))}

TreeInv ==
  /\ Tree(Nodes, root, child, parent) /\ Numbered(Nodes)
  /\ colour \in [Nodes -> {Red, Black}]
  /\ node \in Nodes \cup {NULL}
  /\ OnlyNodeViolates
-----------------------------------------------------------------------------
(* A walk along links whose ranks fall is defined, and ends. *)
LEMMA NatLeast ==
  ASSUME NEW T, T \subseteq Nat, T # {}
  PROVE  \E x \in T : \A y \in T : x <= y
<1>1. PICK x \in T : \A y \in T : ~ (<<y, x>> \in OpToRel(<, Nat))
  BY NatLessThanWellFounded, WFMin
<1>2. \A y \in T : ~ (<<y, x>> \in {ss \in Nat \X Nat : ss[1] < ss[2]})
  BY <1>1 DEF OpToRel
<1>3. ASSUME NEW y \in T PROVE x <= y
  <2>1. x \in Nat /\ y \in Nat
    OBVIOUS
  <2>2. y < x => <<y, x>> \in {ss \in Nat \X Nat : ss[1] < ss[2]}
    BY <2>1
  <2> QED
    BY <1>2, <2>1, <2>2
<1> QED
  BY <1>3

LEMMA Induction ==
  ASSUME NEW T, T \subseteq Nat, 0 \in T, \A n \in T : n + 1 \in T
  PROVE  T = Nat
<1> DEFINE M == Nat \ T
<1> SUFFICES ASSUME M # {} PROVE FALSE
  OBVIOUS
<1>1. M \subseteq Nat
  OBVIOUS
<1>2. PICK m \in M : \A y \in M : m <= y
  BY <1>1, NatLeast
<1>3. m \in Nat /\ m \notin T
  BY <1>2
<1>4. m # 0
  BY <1>3
<1>5. m - 1 \in Nat /\ m - 1 \notin M
  BY <1>2, <1>3, <1>4
<1>6. m - 1 \in T
  BY <1>5
<1>7. (m - 1) + 1 \in T
  BY <1>6
<1> QED
  BY <1>3, <1>7
-----------------------------------------------------------------------------
(* The order of names, and what the two ways to compare find out. *)
LEMMA KeyIs ==
  ASSUME NEW k \in Keys
  PROVE  k \in Seq(Nat) /\ Len(k) \in Nat /\ DOMAIN k = 1 .. Len(k) /\ \A i \in 1 .. Len(k) : k[i] \in Nat
BY RbTreeAssumption

LEMMA SameKeys ==
  ASSUME NEW k \in Keys, NEW l \in Keys, Len(k) = Len(l), \A i \in 1 .. Len(k) : k[i] = l[i]
  PROVE  k = l
<1>1. k \in Seq(Nat) /\ l \in Seq(Nat)
  BY KeyIs
<1> QED
  BY <1>1

LEMMA DifferIs ==
  ASSUME NEW k \in Keys, NEW l \in Keys
  PROVE  \A i : i \in Differ(k, l) <=> i \in Nat /\ 1 <= i /\ i <= Len(k) /\ i <= Len(l) /\ k[i] # l[i]
<1>1. Len(k) \in Nat /\ DOMAIN k = 1 .. Len(k) /\ Len(l) \in Nat /\ DOMAIN l = 1 .. Len(l)
  BY KeyIs
<1> QED
  BY <1>1 DEF Differ

LEMMA FirstDiffer ==
  ASSUME NEW k \in Keys, NEW l \in Keys, Differ(k, l) # {}, NEW i, i = Min(Differ(k, l))
  PROVE  /\ i \in Nat /\ 1 <= i /\ i <= Len(k) /\ i <= Len(l) /\ k[i] # l[i]
         /\ \A j \in 1 .. i - 1 : k[j] = l[j]
<1>1. PICK D : D = Differ(k, l)
  OBVIOUS
<1>2. D \subseteq Nat /\ D # {}
  BY <1>1, DifferIs
<1>3. \E x \in D : \A y \in D : x <= y
  BY <1>2, NatLeast
<1>4. i \in D /\ \A y \in D : i <= y
  BY <1>1, <1>3, Zenon DEF Min
<1>5. i \in Nat /\ 1 <= i /\ i <= Len(k) /\ i <= Len(l) /\ k[i] # l[i]
  BY <1>1, <1>4, DifferIs
<1>6. Len(k) \in Nat /\ Len(l) \in Nat
  BY KeyIs
<1>7. ASSUME NEW j \in 1 .. i - 1 PROVE k[j] = l[j]
  <2>1. j \in Nat /\ 1 <= j /\ j < i /\ j <= Len(k) /\ j <= Len(l)
    BY <1>5, <1>6
  <2>2. j \notin D
    BY <1>4, <1>5, <2>1
  <2> QED
    BY <1>1, <2>1, <2>2, DifferIs
<1> QED
  BY <1>5, <1>7

LEMMA KeyLtIs ==
  ASSUME NEW k \in Keys, NEW l \in Keys, NEW i \in Nat, 1 <= i, i <= Len(l), i <= Len(k) + 1,
         \A j \in 1 .. i - 1 : k[j] = l[j], i = Len(k) + 1 \/ k[i] < l[i]
  PROVE  KeyLt(k, l)
<1>1. i \in 1 .. Len(l)
  BY KeyIs
<1> QED
  BY <1>1 DEF KeyLt

LEMMA KeyLtWhere ==
  ASSUME NEW k \in Keys, NEW l \in Keys, KeyLt(k, l)
  PROVE  \E i \in Nat : /\ 1 <= i /\ i <= Len(l) /\ i <= Len(k) + 1
                        /\ \A j \in 1 .. i - 1 : k[j] = l[j]
                        /\ i <= Len(k) => k[i] < l[i]
<1>1. Len(k) \in Nat /\ Len(l) \in Nat
  BY KeyIs
<1>2. PICK i \in 1 .. Len(l) : /\ i <= Len(k) + 1
                               /\ \A j \in 1 .. i - 1 : k[j] = l[j]
                               /\ i = Len(k) + 1 \/ k[i] < l[i]
  BY DEF KeyLt
<1> QED
  BY <1>1, <1>2

LEMMA KeyLtIrr ==
  ASSUME NEW k \in Keys
  PROVE  ~ KeyLt(k, k)
<1>1. SUFFICES ASSUME KeyLt(k, k) PROVE FALSE
  OBVIOUS
<1>2. PICK i \in Nat : /\ 1 <= i /\ i <= Len(k) /\ (i <= Len(k) => k[i] < k[i])
  BY <1>1, KeyLtWhere
<1>3. k[i] \in Nat
  BY <1>2, KeyIs
<1> QED
  BY <1>2, <1>3

LEMMA KeyLtTrans ==
  ASSUME NEW k \in Keys, NEW l \in Keys, NEW m \in Keys, KeyLt(k, l), KeyLt(l, m)
  PROVE  KeyLt(k, m)
<1>1. PICK i \in Nat : /\ 1 <= i /\ i <= Len(l) /\ i <= Len(k) + 1
                       /\ \A x \in 1 .. i - 1 : k[x] = l[x]
                       /\ i <= Len(k) => k[i] < l[i]
  BY KeyLtWhere
<1>2. PICK j \in Nat : /\ 1 <= j /\ j <= Len(m) /\ j <= Len(l) + 1
                       /\ \A x \in 1 .. j - 1 : l[x] = m[x]
                       /\ j <= Len(l) => l[j] < m[j]
  BY KeyLtWhere
<1>3. /\ Len(k) \in Nat /\ \A x \in 1 .. Len(k) : k[x] \in Nat
      /\ Len(l) \in Nat /\ \A x \in 1 .. Len(l) : l[x] \in Nat
      /\ Len(m) \in Nat /\ \A x \in 1 .. Len(m) : m[x] \in Nat
  BY KeyIs
<1>4. CASE i < j
  <2>1. i \in 1 .. j - 1 /\ l[i] = m[i] /\ i <= Len(m)
    BY <1>2, <1>3, <1>1, <1>4
  <2>2. \A x \in 1 .. i - 1 : k[x] = m[x]
    BY <1>1, <1>2, <1>4
  <2>3. i = Len(k) + 1 \/ k[i] < m[i]
    BY <1>1, <1>3, <2>1
  <2> QED
    BY <1>1, <2>1, <2>2, <2>3, KeyLtIs
<1>5. CASE ~ (i < j)
  <2>1. j <= i /\ j <= Len(l) /\ l[j] < m[j] /\ j <= Len(k) + 1
    BY <1>1, <1>2, <1>3, <1>5
  <2>2. \A x \in 1 .. j - 1 : k[x] = m[x]
    BY <1>1, <1>2, <2>1
  <2>3. j = Len(k) + 1 \/ k[j] < m[j]
    <3>1. CASE j < i
      <4>1. j \in 1 .. i - 1
        BY <1>1, <1>2, <3>1
      <4> QED
        BY <1>1, <2>1, <4>1
    <3>2. CASE j = i /\ i <= Len(k)
      <4>1. k[j] < l[j] /\ k[j] \in Nat /\ l[j] \in Nat /\ m[j] \in Nat
        BY <1>1, <1>2, <1>3, <3>2
      <4> QED
        BY <2>1, <4>1
    <3> QED
      BY <1>1, <1>3, <2>1, <3>1, <3>2
  <2> QED
    BY <1>2, <2>1, <2>2, <2>3, KeyLtIs
<1> QED
  BY <1>4, <1>5

(* A comparison tells the order of two names. *)
Tells(c, k, l) == c \in Int /\ (c < 0 <=> KeyLt(k, l)) /\ (c > 0 <=> KeyLt(l, k)) /\ (c = 0 <=> k = l)

LEMMA TellsFirst ==
  ASSUME NEW k \in Keys, NEW l \in Keys, Differ(k, l) # {}, NEW i, i = Min(Differ(k, l))
  PROVE  Tells(k[i] - l[i], k, l)
<1>1. /\ i \in Nat /\ 1 <= i /\ i <= Len(k) /\ i <= Len(l) /\ k[i] # l[i]
      /\ \A j \in 1 .. i - 1 : k[j] = l[j]
  BY FirstDiffer
<1>2. Len(k) \in Nat /\ Len(l) \in Nat /\ k[i] \in Nat /\ l[i] \in Nat
  BY <1>1, KeyIs
<1>3. k[i] < l[i] => KeyLt(k, l)
  BY <1>1, <1>2, KeyLtIs
<1>4. l[i] < k[i] => KeyLt(l, k)
  BY <1>1, <1>2, KeyLtIs
<1>5. ~ (KeyLt(k, l) /\ KeyLt(l, k)) /\ k # l
  BY <1>1, KeyLtIrr, KeyLtTrans
<1> QED
  BY <1>2, <1>1, <1>3, <1>4, <1>5 DEF Tells

LEMMA TellsLength ==
  ASSUME NEW k \in Keys, NEW l \in Keys, Differ(k, l) = {}, NEW c \in Int,
         c < 0 <=> Len(k) < Len(l), c > 0 <=> Len(l) < Len(k)
  PROVE  Tells(c, k, l)
<1>1. Len(k) \in Nat /\ Len(l) \in Nat
  BY KeyIs
<1>2. \A i \in Nat : 1 <= i /\ i <= Len(k) /\ i <= Len(l) => k[i] = l[i]
  BY DifferIs
<1>3. Len(k) < Len(l) => KeyLt(k, l)
  <2>1. ASSUME Len(k) < Len(l) PROVE KeyLt(k, l)
    <3>1. PICK i : i = Len(k) + 1
      OBVIOUS
    <3>2. i \in Nat /\ 1 <= i /\ i <= Len(l) /\ i <= Len(k) + 1 /\ \A j \in 1 .. i - 1 : k[j] = l[j]
      BY <1>1, <1>2, <2>1, <3>1
    <3> QED
      BY <3>1, <3>2, KeyLtIs
  <2> QED
    BY <2>1
<1>4. Len(l) < Len(k) => KeyLt(l, k)
  <2>1. ASSUME Len(l) < Len(k) PROVE KeyLt(l, k)
    <3>1. PICK i : i = Len(l) + 1
      OBVIOUS
    <3>2. i \in Nat /\ 1 <= i /\ i <= Len(k) /\ i <= Len(l) + 1 /\ \A j \in 1 .. i - 1 : l[j] = k[j]
      BY <1>1, <1>2, <2>1, <3>1
    <3> QED
      BY <3>1, <3>2, KeyLtIs
  <2> QED
    BY <2>1
<1>5. Len(k) = Len(l) => k = l
  BY <1>1, <1>2, SameKeys
<1>6. ~ (KeyLt(k, l) /\ KeyLt(l, k)) /\ (k = l => ~ KeyLt(k, l) /\ ~ KeyLt(l, k))
  BY KeyLtIrr, KeyLtTrans
<1> QED
  BY <1>1, <1>3, <1>4, <1>5, <1>6 DEF Tells

(* strcmp and RbTree_strncmp agree about the order. *)
LEMMA WholeTells ==
  ASSUME NEW k \in Keys, NEW l \in Keys
  PROVE  Tells(Whole[k][l], k, l)
<1>1. Whole[k][l] = strcmp(k, l)
  BY DEF Whole
<1>2. CASE Differ(k, l) # {}
  <2>1. PICK i : i = Min(Differ(k, l))
    OBVIOUS
  <2>2. strcmp(k, l) = k[i] - l[i]
    BY <1>2, <2>1 DEF strcmp
  <2>3. Tells(k[i] - l[i], k, l)
    BY <1>2, <2>1, TellsFirst
  <2> QED
    BY <1>1, <2>2, <2>3
<1>3. CASE Differ(k, l) = {}
  <2>1. PICK c : c = Len(k) - Len(l)
    OBVIOUS
  <2>2. strcmp(k, l) = c
    BY <1>3, <2>1 DEF strcmp
  <2>3. c \in Int /\ (c < 0 <=> Len(k) < Len(l)) /\ (c > 0 <=> Len(l) < Len(k))
    BY <2>1, KeyIs
  <2>4. Tells(c, k, l)
    BY <1>3, <2>3, TellsLength
  <2> QED
    BY <1>1, <2>2, <2>4
<1> QED
  BY <1>2, <1>3

LEMMA CountedTells ==
  ASSUME NEW k \in Keys, NEW l \in Keys
  PROVE  Tells(Counted[k][l], k, l)
<1>1. Counted[k][l] = RbTree_strncmp(k, l)
  BY DEF Counted
<1>2. CASE Differ(k, l) # {}
  <2>1. PICK i : i = Min(Differ(k, l))
    OBVIOUS
  <2>2. i # 0
    BY <1>2, <2>1, FirstDiffer
  <2>3. RbTree_strncmp(k, l) = k[i] - l[i]
    BY <1>2, <2>1, <2>2, Zenon DEF RbTree_strncmp
  <2>4. Tells(k[i] - l[i], k, l)
    BY <1>2, <2>1, TellsFirst
  <2> QED
    BY <1>1, <2>3, <2>4
<1>3. CASE Differ(k, l) = {}
  <2>1. PICK c : c = IF Len(k) > Len(l) THEN 1 ELSE IF Len(k) = Len(l) THEN 0 ELSE -1
    OBVIOUS
  <2>2. RbTree_strncmp(k, l) = c
    BY <1>3, <2>1 DEF RbTree_strncmp
  <2>3. c \in Int /\ (c < 0 <=> Len(k) < Len(l)) /\ (c > 0 <=> Len(l) < Len(k))
    BY <2>1, KeyIs
  <2>4. Tells(c, k, l)
    BY <1>3, <2>3, TellsLength
  <2> QED
    BY <1>1, <2>2, <2>4
<1> QED
  BY <1>2, <1>3

LEMMA SubSeqsEqual ==
  ASSUME NEW k \in Seq(Nat), NEW l \in Seq(Nat), NEW n \in Nat, n <= Len(k), n <= Len(l)
  PROVE  SubSeq(k, 1, n) = SubSeq(l, 1, n) <=> \A j \in 1 .. n : k[j] = l[j]
<1>1. /\ SubSeq(k, 1, n) = [j \in 1 .. n |-> k[j]]
      /\ SubSeq(l, 1, n) = [j \in 1 .. n |-> l[j]]
  OBVIOUS
<1> QED
  BY <1>1

(* The order of nodes is strict and total. *)
LEMMA LabelIs ==
  ASSUME NEW n \in Labels
  PROVE  n[1] \in Keys /\ n[2] \in Nat /\ n = <<n[1], n[2]>>
BY DEF Labels

LEMMA LtIrr ==
  ASSUME NEW n \in Labels
  PROVE  ~ Lt(n, n)
BY LabelIs, KeyLtIrr DEF Lt

LEMMA LtTrans ==
  ASSUME NEW l \in Labels, NEW m \in Labels, NEW n \in Labels, Lt(l, m), Lt(m, n)
  PROVE  Lt(l, n)
<1>1. /\ l[1] \in Keys /\ m[1] \in Keys /\ n[1] \in Keys
      /\ l[2] \in Nat /\ m[2] \in Nat /\ n[2] \in Nat
  BY LabelIs
<1>2. /\ KeyLt(l[1], m[1]) \/ (l[1] = m[1] /\ l[2] < m[2])
      /\ KeyLt(m[1], n[1]) \/ (m[1] = n[1] /\ m[2] < n[2])
  BY DEF Lt
<1>3. CASE KeyLt(l[1], m[1]) /\ KeyLt(m[1], n[1])
  BY <1>1, <1>3, KeyLtTrans DEF Lt
<1>4. CASE l[1] = m[1] /\ l[2] < m[2]
  BY <1>1, <1>2, <1>4 DEF Lt
<1>5. CASE m[1] = n[1] /\ m[2] < n[2]
  BY <1>1, <1>2, <1>5 DEF Lt
<1> QED
  BY <1>2, <1>3, <1>4, <1>5

LEMMA LtTotal ==
  ASSUME NEW m \in Labels, NEW n \in Labels, m # n
  PROVE  Lt(m, n) \/ Lt(n, m)
<1>1. /\ m[1] \in Keys /\ n[1] \in Keys /\ m[2] \in Nat /\ n[2] \in Nat
      /\ m = <<m[1], m[2]>> /\ n = <<n[1], n[2]>>
  BY LabelIs
<1>2. CASE m[1] = n[1]
  <2>1. m[2] # n[2]
    BY <1>1, <1>2
  <2> QED
    BY <1>1, <1>2, <2>1 DEF Lt
<1>3. CASE m[1] # n[1]
  <2>1. PICK c : c = Whole[m[1]][n[1]]
    OBVIOUS
  <2>2. /\ c \in Int /\ (c < 0 <=> KeyLt(m[1], n[1])) /\ (c > 0 <=> KeyLt(n[1], m[1]))
        /\ (c = 0 <=> m[1] = n[1])
    BY <1>1, <2>1, WholeTells DEF Tells
  <2>3. KeyLt(m[1], n[1]) \/ KeyLt(n[1], m[1])
    BY <1>3, <2>2
  <2> QED
    BY <2>3 DEF Lt
<1> QED
  BY <1>2, <1>3

LEMMA PrecedesIs ==
  ASSUME NEW m \in Labels, NEW n \in Labels
  PROVE  Precedes(m, n) <=> Lt(m, n)
<1>1. PICK k, l : k = m[1] /\ l = n[1]
  OBVIOUS
<1>2. k \in Keys /\ l \in Keys
  BY <1>1, LabelIs
<1>3. Len(k) \in Nat /\ Len(l) \in Nat
  BY <1>2, KeyIs
<1> DEFINE P(i) == /\ SubSeq(k, 1, i - 1) = SubSeq(l, 1, i - 1)
                   /\ Len(k) = i - 1 \/ (Len(k) >= i /\ k[i] < l[i])
           Q(i) == /\ i <= Len(k) + 1 /\ \A j \in 1 .. i - 1 : k[j] = l[j]
                   /\ i = Len(k) + 1 \/ k[i] < l[i]
<1>4. ASSUME NEW i \in 1 .. Len(l), i <= Len(k) + 1
      PROVE  SubSeq(k, 1, i - 1) = SubSeq(l, 1, i - 1) <=> \A j \in 1 .. i - 1 : k[j] = l[j]
  <2>1. i - 1 <= Len(k) /\ i - 1 <= Len(l) /\ i - 1 \in Nat
    BY <1>3, <1>4
  <2>2. k \in Seq(Nat) /\ l \in Seq(Nat)
    BY <1>2, KeyIs
  <2> QED
    BY <2>1, <2>2, SubSeqsEqual
<1>5. ASSUME NEW i \in 1 .. Len(l) PROVE P(i) <=> Q(i)
  <2>1. i \in Nat /\ 1 <= i /\ i <= Len(l)
    BY <1>3
  <2>2. CASE i <= Len(k) + 1
    <3>1. (Len(k) = i - 1 <=> i = Len(k) + 1) /\ (Len(k) # i - 1 => Len(k) >= i)
      BY <1>3, <2>1, <2>2
    <3> QED
      BY <1>4, <2>2, <3>1
  <2>3. CASE ~ (i <= Len(k) + 1)
    <3>1. Len(k) # i - 1 /\ ~ (Len(k) >= i)
      BY <1>3, <2>1, <2>3
    <3> QED
      BY <2>3, <3>1
  <2> QED
    BY <2>2, <2>3
<1>6. Precedes(m, n) <=> (\E i \in 1 .. Len(l) : P(i)) \/ (k = l /\ m[2] < n[2])
  BY <1>1 DEF Precedes
<1>7. Lt(m, n) <=> (\E i \in 1 .. Len(l) : Q(i)) \/ (k = l /\ m[2] < n[2])
  BY <1>1 DEF Lt, KeyLt
<1> HIDE DEF P, Q
<1> QED
  BY <1>5, <1>6, <1>7

(* m is on side s of n. *)
LEMMA BeforeMirror ==
  ASSUME NEW s \in Sides, NEW o \in Sides, s # o, NEW m, NEW n
  PROVE  Before(s, m, n) <=> Before(o, n, m)
BY DEF Before, Sides

LEMMA BeforeIrr ==
  ASSUME NEW s \in Sides, NEW n \in Labels
  PROVE  ~ Before(s, n, n)
BY LtIrr DEF Before

LEMMA BeforeTrans ==
  ASSUME NEW s \in Sides, NEW l \in Labels, NEW m \in Labels, NEW n \in Labels,
         Before(s, l, m), Before(s, m, n)
  PROVE  Before(s, l, n)
BY LtTrans DEF Before

LEMMA BeforeAsym ==
  ASSUME NEW s \in Sides, NEW m \in Labels, NEW n \in Labels, Before(s, m, n)
  PROVE  ~ Before(s, n, m)
BY BeforeIrr, BeforeTrans

LEMMA BeforeOneSide ==
  ASSUME NEW s \in Sides, NEW o \in Sides, NEW m \in Labels, NEW n \in Labels,
         Before(s, m, n), Before(o, m, n)
  PROVE  s = o
BY BeforeAsym, BeforeMirror

LEMMA BeforeTotal ==
  ASSUME NEW s \in Sides, NEW m \in Labels, NEW n \in Labels, m # n
  PROVE  Before(s, m, n) \/ Before(s, n, m)
BY LtTotal DEF Before

(* The side that the walks take. *)
LEMMA SideTells ==
  ASSUME NEW cmp \in {Whole, Counted}, NEW k \in Keys, NEW m \in Labels, NEW n \in Labels,
         n[1] = k, m[1] = k => m[2] < n[2]
  PROVE  Side(cmp, k, m) \in Sides /\ Before(Side(cmp, k, m), n, m)
<1>1. PICK l : l = m[1]
  OBVIOUS
<1>2. PICK c : c = cmp[k][l]
  OBVIOUS
<1>3. l \in Keys
  BY <1>1, LabelIs
<1>4. Tells(c, k, l)
  <2>1. CASE cmp = Whole
    BY <1>2, <1>3, <2>1, WholeTells
  <2>2. CASE cmp = Counted
    BY <1>2, <1>3, <2>2, CountedTells
  <2> QED
    BY <2>1, <2>2
<1>5. c \in Int /\ (c < 0 <=> KeyLt(k, l)) /\ (c > 0 <=> KeyLt(l, k)) /\ (c = 0 <=> k = l)
  BY <1>4 DEF Tells
<1>6. Side(cmp, k, m) = IF c < 0 THEN "left" ELSE "right"
  BY <1>1, <1>2 DEF Side
<1>7. CASE c < 0
  BY <1>1, <1>5, <1>6, <1>7 DEF Before, Lt, Sides
<1>8. CASE ~ (c < 0)
  <2>1. KeyLt(l, k) \/ k = l
    BY <1>5, <1>8
  <2> QED
    BY <1>1, <1>6, <1>8, <2>1 DEF Before, Lt, Sides
<1> QED
  BY <1>7, <1>8
-----------------------------------------------------------------------------
(* Facts about trees: induction from the leaves up and from the root down. *)
LEMMA TreeIs ==
  ASSUME NEW N, NEW r, NEW ch, NEW pa, Tree(N, r, ch, pa)
  PROVE  /\ NULL \notin N /\ r \in N \cup {NULL}
         /\ ch \in [Sides -> [N -> N \cup {NULL}]] /\ pa \in [N -> N \cup {NULL}]
         /\ \A p \in N, s \in Sides : ch[s][p] # NULL => pa[ch[s][p]] = p
         /\ \A n \in N : pa[n] # NULL => \E s \in Sides : ch[s][pa[n]] = n
         /\ \A p \in N, s, o \in Sides : ch[s][p] # NULL /\ s # o => ch[s][p] # ch[o][p]
         /\ \A n \in N : pa[n] = NULL <=> n = r
         /\ r = NULL => N = {}
         /\ \A p \in N, s \in Sides : ch[s][p] # NULL => ch[s][p] \in N
         /\ \A n \in N : pa[n] # NULL => pa[n] \in N
<1>1. /\ NULL \notin N /\ r \in N \cup {NULL}
      /\ ch \in [Sides -> [N -> N \cup {NULL}]] /\ pa \in [N -> N \cup {NULL}]
  BY DEF Tree, Typed
<1>2. Linked(N, r, ch, pa)
  BY DEF Tree
<1>3. /\ \A p \in N, s \in Sides : ch[s][p] # NULL => ch[s][p] \in N
      /\ \A n \in N : pa[n] # NULL => pa[n] \in N
  BY <1>1
<1> QED
  BY <1>1, <1>2, <1>3 DEF Linked

LEMMA ChildRanks ==
  ASSUME NEW N, NEW r, NEW ch, NEW pa, Tree(N, r, ch, pa), NEW top \in Nat,
         NEW rk \in [N -> 0 .. top], Falls(N, ch, rk)
  PROVE  /\ \A n \in N : rk[n] \in Nat
         /\ \A p \in N, q \in Sides :
               ch[q][p] # NULL => ch[q][p] \in N /\ rk[ch[q][p]] < rk[p] /\ ch[q][p] # p
         /\ \A n \in N : pa[n] # NULL => pa[n] \in N /\ rk[n] < rk[pa[n]] /\ pa[n] # n
<1>1. \A n \in N : rk[n] \in Nat
  OBVIOUS
<1>2. ASSUME NEW p \in N, NEW q \in Sides, ch[q][p] # NULL
      PROVE  ch[q][p] \in N /\ rk[ch[q][p]] < rk[p] /\ ch[q][p] # p
  <2>1. ch[q][p] \in N /\ rk[ch[q][p]] < rk[p]
    BY <1>2 DEF Tree, Typed, Falls
  <2> QED
    BY <1>1, <2>1
<1>3. ASSUME NEW n \in N, pa[n] # NULL PROVE pa[n] \in N /\ rk[n] < rk[pa[n]] /\ pa[n] # n
  <2>1. pa[n] \in N
    BY <1>3 DEF Tree, Typed
  <2>2. PICK q \in Sides : ch[q][pa[n]] = n
    BY <1>3 DEF Tree, Linked
  <2>3. n # NULL
    BY DEF Tree, Typed
  <2> QED
    BY <1>2, <2>1, <2>2, <2>3
<1> QED
  BY <1>1, <1>2, <1>3

LEMMA RankInduction ==
  ASSUME NEW M, NEW top \in Nat, NEW rk \in [M -> 0 .. top], NEW T,
         \A n \in M : (\A m \in M : rk[m] < rk[n] => m \in T) => n \in T
  PROVE  M \subseteq T
<1> DEFINE Bad == {n \in M : n \notin T}
           R == {rk[n] : n \in Bad}
<1> SUFFICES ASSUME Bad # {} PROVE FALSE
  OBVIOUS
<1>1. R \subseteq Nat /\ R # {}
  OBVIOUS
<1>2. PICK x \in R : \A y \in R : x <= y
  BY <1>1, NatLeast
<1>3. PICK n \in Bad : x = rk[n]
  OBVIOUS
<1>4. n \in M /\ n \notin T
  OBVIOUS
<1>5. PICK m \in M : rk[m] < rk[n] /\ m \notin T
  BY <1>4
<1>6. rk[m] \in R
  BY <1>5
<1>7. rk[n] <= rk[m]
  BY <1>2, <1>3, <1>6
<1>8. rk[m] \in Nat /\ rk[n] \in Nat
  BY <1>4
<1> QED
  BY <1>5, <1>7, <1>8

LEMMA FromTheLeaves ==
  ASSUME NEW N, NEW r, NEW ch, NEW pa, Tree(N, r, ch, pa), NEW T,
         \A n \in N : (\A q \in Sides : ch[q][n] # NULL => ch[q][n] \in T) => n \in T
  PROVE  N \subseteq T
<1>1. PICK top \in Nat : \E rk \in [N -> 0 .. top] : Falls(N, ch, rk)
  BY DEF Tree, Ranked
<1>2. PICK rk \in [N -> 0 .. top] : Falls(N, ch, rk)
  BY <1>1
<1>3. \A p \in N, q \in Sides : ch[q][p] # NULL => ch[q][p] \in N /\ rk[ch[q][p]] < rk[p]
  BY <1>2, ChildRanks
<1>4. ASSUME NEW n \in N, \A m \in N : rk[m] < rk[n] => m \in T PROVE n \in T
  BY <1>3, <1>4
<1> QED
  BY <1>4, RankInduction

LEMMA FromTheRoot ==
  ASSUME NEW N, NEW r, NEW ch, NEW pa, Tree(N, r, ch, pa), NEW T,
         \A n \in N : (pa[n] # NULL => pa[n] \in T) => n \in T
  PROVE  N \subseteq T
<1>1. PICK top \in Nat : \E rk \in [N -> 0 .. top] : Falls(N, ch, rk)
  BY DEF Tree, Ranked
<1>2. PICK rk \in [N -> 0 .. top] : Falls(N, ch, rk)
  BY <1>1
<1>3. \A n \in N : pa[n] # NULL => pa[n] \in N /\ rk[n] < rk[pa[n]]
  BY <1>2, ChildRanks
<1>4. PICK dp : dp = [n \in N |-> top - rk[n]]
  OBVIOUS
<1>5. dp \in [N -> 0 .. top] /\ \A n \in N : dp[n] = top - rk[n] /\ rk[n] \in 0 .. top
  <2>1. \A n \in N : rk[n] \in 0 .. top
    OBVIOUS
  <2>2. \A n \in N : top - rk[n] \in 0 .. top
    BY <2>1
  <2> QED
    BY <1>4, <2>1, <2>2
<1>6. ASSUME NEW n \in N, \A m \in N : dp[m] < dp[n] => m \in T PROVE n \in T
  <2>1. ASSUME pa[n] # NULL PROVE pa[n] \in T
    <3>1. pa[n] \in N /\ rk[n] < rk[pa[n]]
      BY <1>3, <2>1
    <3>2. dp[pa[n]] < dp[n]
      BY <1>5, <3>1
    <3> QED
      BY <1>6, <3>1, <3>2
  <2> QED
    BY <2>1
<1> QED
  BY <1>5, <1>6, RankInduction
-----------------------------------------------------------------------------
(* A walk is defined when it ends.  A walk stops in S with the result v; the
   search for the first of equal elements also looks at the way back, in E. *)
Result(M, S, E, v, d, f, n) ==
  IF n \in S THEN v[n] ELSE IF n \in E /\ f[d[n]] = {} THEN {n} ELSE f[d[n]]
Runs(M, S, E, v, d, f) == f = [n \in M |-> Result(M, S, E, v, d, f, n)]
RunsBelow(M, S, E, v, d, rk, r, f) ==
  \A n \in M : rk[n] < r => f[n] = Result(M, S, E, v, d, f, n)

LEMMA RunsFurther ==
  ASSUME NEW M, NEW S, NEW E, NEW v, NEW d, NEW top \in Nat, NEW rk \in [M -> 0 .. top],
         \A n \in M \ S : d[n] \in M /\ rk[d[n]] < rk[n],
         NEW r \in Nat, NEW f, RunsBelow(M, S, E, v, d, rk, r, f)
  PROVE  \E g : RunsBelow(M, S, E, v, d, rk, r + 1, g)
<1>1. PICK g : g = [n \in M |-> IF rk[n] < r THEN f[n] ELSE Result(M, S, E, v, d, f, n)]
  OBVIOUS
<1>2. ASSUME NEW n \in M PROVE rk[n] < r => g[n] = f[n]
  BY <1>1
<1>3. ASSUME NEW n \in M, rk[n] < r + 1 PROVE g[n] = Result(M, S, E, v, d, g, n)
  <2>1. g[n] = Result(M, S, E, v, d, f, n)
    <3>1. CASE rk[n] < r
      BY <1>2, <3>1 DEF RunsBelow
    <3>2. CASE ~ (rk[n] < r)
      BY <1>1, <3>2
    <3> QED
      BY <3>1, <3>2
  <2>2. CASE n \in S
    BY <2>1, <2>2 DEF Result
  <2>3. CASE n \notin S
    <3>1. d[n] \in M /\ rk[d[n]] < rk[n]
      BY <2>3
    <3>2. rk[n] \in Nat /\ rk[d[n]] \in Nat
      BY <3>1
    <3>3. rk[d[n]] < r
      BY <1>3, <3>1, <3>2
    <3>4. g[d[n]] = f[d[n]]
      BY <1>2, <3>1, <3>3
    <3> QED
      BY <2>1, <3>4 DEF Result
  <2> QED
    BY <2>2, <2>3
<1> QED
  BY <1>3 DEF RunsBelow

LEMMA RunsExist ==
  ASSUME NEW M, NEW S, NEW E, NEW v, NEW d, NEW top \in Nat, NEW rk \in [M -> 0 .. top],
         \A n \in M \ S : d[n] \in M /\ rk[d[n]] < rk[n]
  PROVE  \E f : Runs(M, S, E, v, d, f)
<1> DEFINE T == {r \in Nat : \E f : RunsBelow(M, S, E, v, d, rk, r, f)}
<1>1. 0 \in T
  <2>1. \A n \in M : ~ (rk[n] < 0)
    OBVIOUS
  <2>2. RunsBelow(M, S, E, v, d, rk, 0, {})
    BY <2>1 DEF RunsBelow
  <2> QED
    BY <2>2
<1>2. ASSUME NEW r \in T PROVE r + 1 \in T
  BY RunsFurther
<1>3. T \subseteq Nat
  OBVIOUS
<1> HIDE DEF T
<1>4. T = Nat
  BY <1>1, <1>2, <1>3, Induction
<1>5. top + 1 \in T
  BY <1>4
<1>6. PICK f : RunsBelow(M, S, E, v, d, rk, top + 1, f)
  BY <1>5 DEF T
<1>7. \A n \in M : rk[n] < top + 1
  OBVIOUS
<1>8. PICK g : g = [n \in M |-> f[n]]
  OBVIOUS
<1>9. \A n \in M : g[n] = f[n]
  BY <1>8
<1>10. \A n \in M : f[n] = Result(M, S, E, v, d, f, n)
  BY <1>6, <1>7 DEF RunsBelow
<1>11. \A n \in M : Result(M, S, E, v, d, f, n) = Result(M, S, E, v, d, g, n)
  BY <1>9 DEF Result
<1>12. g = [n \in M |-> Result(M, S, E, v, d, g, n)]
  BY <1>8, <1>10, <1>11
<1> QED
  BY <1>12 DEF Runs

(* A step of d from a node of M goes down a link, and stays in M. *)
Down(N, ch, M, S, d) ==
  /\ M \subseteq N \cup {NULL}
  /\ \A n \in M \ S : n \in N /\ d[n] \in M /\ \E q \in Sides : d[n] = ch[q][n]

LEMMA RunsDown ==
  ASSUME NEW N, NEW r, NEW ch, NEW pa, Tree(N, r, ch, pa), NEW M, NEW S, NEW E, NEW v, NEW d,
         Down(N, ch, M, S, d)
  PROVE  \E f : Runs(M, S, E, v, d, f)
<1>0. /\ M \subseteq N \cup {NULL}
      /\ \A n \in M \ S : n \in N /\ d[n] \in M /\ \E q \in Sides : d[n] = ch[q][n]
  BY DEF Down
<1>1. PICK top \in Nat : \E rk \in [N -> 0 .. top] : Falls(N, ch, rk)
  BY DEF Tree, Ranked
<1>2. PICK rk \in [N -> 0 .. top] : Falls(N, ch, rk)
  BY <1>1
<1>3. /\ \A n \in N : rk[n] \in 0 .. top
      /\ \A p \in N, q \in Sides : ch[q][p] # NULL => ch[q][p] \in N /\ rk[ch[q][p]] < rk[p]
  BY <1>2, ChildRanks
<1>4. NULL \notin N
  BY DEF Tree, Typed
<1>5. PICK r2 : r2 = [n \in M |-> IF n = NULL THEN 0 ELSE rk[n] + 1]
  OBVIOUS
<1>6. \A n \in M : IF n = NULL THEN r2[n] = 0 ELSE n \in N /\ r2[n] = rk[n] + 1 /\ rk[n] \in 0 .. top
  BY <1>0, <1>3, <1>5
<1>7. r2 \in [M -> 0 .. top + 1]
  <2>1. \A n \in M : r2[n] \in 0 .. top + 1
    BY <1>6
  <2> QED
    BY <1>5, <2>1
<1>8. ASSUME NEW n \in M \ S PROVE d[n] \in M /\ r2[d[n]] < r2[n]
  <2>1. n \in N /\ d[n] \in M
    BY <1>0
  <2>2. PICK q \in Sides : d[n] = ch[q][n]
    BY <1>0
  <2>3. n # NULL
    BY <1>4, <2>1
  <2>4. r2[n] = rk[n] + 1 /\ rk[n] \in 0 .. top
    BY <1>6, <2>3
  <2>5. CASE d[n] = NULL
    <3>1. r2[d[n]] = 0
      BY <1>6, <2>1, <2>5
    <3> QED
      BY <2>1, <2>4, <3>1
  <2>6. CASE d[n] # NULL
    <3>1. rk[d[n]] < rk[n]
      BY <1>3, <2>1, <2>2, <2>6
    <3>2. r2[d[n]] = rk[d[n]] + 1 /\ rk[d[n]] \in 0 .. top
      BY <1>6, <2>1, <2>6
    <3> QED
      BY <2>1, <2>4, <3>1, <3>2
  <2> QED
    BY <2>5, <2>6
<1>9. top + 1 \in Nat
  OBVIOUS
<1> QED
  BY <1>7, <1>8, <1>9, RunsExist

LEMMA RunsUp ==
  ASSUME NEW N, NEW r, NEW ch, NEW pa, Tree(N, r, ch, pa), NEW S, NEW E, NEW v, NEW d,
         \A n \in N \ S : d[n] = pa[n] /\ pa[n] # NULL
  PROVE  \E f : Runs(N, S, E, v, d, f)
<1>1. PICK top \in Nat : \E rk \in [N -> 0 .. top] : Falls(N, ch, rk)
  BY DEF Tree, Ranked
<1>2. PICK rk \in [N -> 0 .. top] : Falls(N, ch, rk)
  BY <1>1
<1>3. \A n \in N : pa[n] # NULL => pa[n] \in N /\ rk[n] < rk[pa[n]]
  BY <1>2, ChildRanks
<1>4. PICK dp : dp = [n \in N |-> top - rk[n]]
  OBVIOUS
<1>5. dp \in [N -> 0 .. top] /\ \A n \in N : dp[n] = top - rk[n] /\ rk[n] \in 0 .. top
  <2>1. \A n \in N : rk[n] \in 0 .. top
    OBVIOUS
  <2>2. \A n \in N : top - rk[n] \in 0 .. top
    BY <2>1
  <2> QED
    BY <1>4, <2>1, <2>2
<1>6. ASSUME NEW n \in N \ S PROVE d[n] \in N /\ dp[d[n]] < dp[n]
  <2>1. pa[n] \in N /\ rk[n] < rk[pa[n]] /\ d[n] = pa[n]
    BY <1>3
  <2>2. dp[pa[n]] < dp[n]
    BY <1>5, <2>1
  <2> QED
    BY <2>1, <2>2
<1> QED
  BY <1>5, <1>6, RunsExist
-----------------------------------------------------------------------------
(* A child x on side s of y takes its place: t, the subtree of x on the other
   side o, changes over to y, and y hangs there instead. *)
Lifted(N, r, ch, pa, s, o, x, y, t, up, r2, ch2, pa2) ==
  /\ s \in Sides /\ o \in Sides /\ s # o
  /\ x \in N /\ y \in N /\ ch[s][y] = x /\ t = ch[o][x] /\ up = pa[y]
  /\ Typed(N, r2, ch2, pa2)
  /\ ch2[s][y] = t /\ ch2[o][y] = ch[o][y] /\ ch2[o][x] = y /\ ch2[s][x] = ch[s][x]
  /\ \A p \in N \ {x, y}, q \in Sides : ch2[q][p] = IF ch[q][p] = y THEN x ELSE ch[q][p]
  /\ pa2[x] = up /\ pa2[y] = x
  /\ \A n \in N \ {x, y} : pa2[n] = IF n = t THEN y ELSE pa[n]
  /\ r2 = IF up = NULL THEN x ELSE r

(* The nodes that a rotation is about are distinct. *)
Around(N, s, o, x, y, t, up) ==
  /\ NULL \notin N /\ s \in Sides /\ o \in Sides /\ s # o /\ \A q \in Sides : q = s \/ q = o
  /\ x \in N /\ y \in N /\ x # y
  /\ t # NULL => t \in N /\ t # x /\ t # y /\ t # up
  /\ up # NULL => up \in N /\ up # x /\ up # y

LEMMA TwoSides ==
  ASSUME NEW s \in Sides, NEW o \in Sides, s # o
  PROVE  \A q \in Sides : q = s \/ q = o
BY DEF Sides

LEMMA LiftedAround ==
  ASSUME NEW N, NEW r, NEW ch, NEW pa, Tree(N, r, ch, pa), NEW s, NEW o, NEW x, NEW y, NEW t,
         NEW up, NEW r2, NEW ch2, NEW pa2, Lifted(N, r, ch, pa, s, o, x, y, t, up, r2, ch2, pa2)
  PROVE  Around(N, s, o, x, y, t, up)
<1>1. PICK top \in Nat : \E rk \in [N -> 0 .. top] : Falls(N, ch, rk)
  BY DEF Tree, Ranked
<1>2. PICK rk \in [N -> 0 .. top] : Falls(N, ch, rk)
  BY <1>1
<1>3. /\ s \in Sides /\ o \in Sides /\ s # o /\ x \in N /\ y \in N
      /\ ch[s][y] = x /\ t = ch[o][x] /\ up = pa[y]
  BY DEF Lifted
<1>4. NULL \notin N
  BY DEF Tree, Typed
<1>5. /\ \A n \in N : rk[n] \in Nat
      /\ rk[x] < rk[y]
      /\ t # NULL => t \in N /\ rk[t] < rk[x]
      /\ up # NULL => up \in N /\ rk[y] < rk[up]
  BY <1>2, <1>3, <1>4, ChildRanks
<1>6. x # y /\ (t # NULL => t # x /\ t # y /\ t # up) /\ (up # NULL => up # x /\ up # y)
  BY <1>3, <1>4, <1>5
<1> QED
  BY <1>3, <1>4, <1>5, <1>6, TwoSides DEF Around

LEMMA LiftedRank ==
  ASSUME NEW N, NEW r, NEW ch, NEW pa, Tree(N, r, ch, pa), NEW s \in Sides, NEW o \in Sides,
         NEW x \in N, NEW y \in N, ch[s][y] = x
  PROVE  ch[o][x] # y
<1>1. PICK top \in Nat : \E rk \in [N -> 0 .. top] : Falls(N, ch, rk)
  BY DEF Tree, Ranked
<1>2. PICK rk \in [N -> 0 .. top] : Falls(N, ch, rk)
  BY <1>1
<1>3. NULL \notin N
  BY DEF Tree, Typed
<1>4. rk[x] \in Nat /\ rk[y] \in Nat /\ rk[x] < rk[y]
  BY <1>2, <1>3, ChildRanks
<1>5. ch[o][x] = y => rk[y] < rk[x]
  BY <1>2, <1>3, ChildRanks
<1> QED
  BY <1>4, <1>5

LEMMA LiftedLinked ==
  ASSUME NEW N, NEW r, NEW ch, NEW pa, Tree(N, r, ch, pa), NEW s, NEW o, NEW x, NEW y, NEW t,
         NEW up, NEW r2, NEW ch2, NEW pa2, Lifted(N, r, ch, pa, s, o, x, y, t, up, r2, ch2, pa2)
  PROVE  Linked(N, r2, ch2, pa2)
<1>1. /\ NULL \notin N /\ s \in Sides /\ o \in Sides /\ s # o /\ \A q \in Sides : q = s \/ q = o
      /\ x \in N /\ y \in N /\ x # y
      /\ t # NULL => t \in N /\ t # x /\ t # y /\ t # up
      /\ up # NULL => up \in N /\ up # x /\ up # y
  BY LiftedAround DEF Around
<1>2. /\ ch[s][y] = x /\ t = ch[o][x] /\ up = pa[y]
      /\ ch2[s][y] = t /\ ch2[o][y] = ch[o][y] /\ ch2[o][x] = y /\ ch2[s][x] = ch[s][x]
      /\ \A p \in N \ {x, y}, q \in Sides : ch2[q][p] = IF ch[q][p] = y THEN x ELSE ch[q][p]
  BY DEF Lifted
<1>3. /\ pa2[x] = up /\ pa2[y] = x
      /\ \A n \in N \ {x, y} : pa2[n] = IF n = t THEN y ELSE pa[n]
      /\ r2 = IF up = NULL THEN x ELSE r
  BY DEF Lifted
<1>4. /\ \A p \in N, q \in Sides : ch[q][p] # NULL => ch[q][p] \in N /\ ch[q][p] # p
      /\ \A n \in N : pa[n] # NULL => pa[n] \in N /\ pa[n] # n
  <2>1. PICK top \in Nat : \E rk \in [N -> 0 .. top] : Falls(N, ch, rk)
    BY DEF Tree, Ranked
  <2>2. PICK rk \in [N -> 0 .. top] : Falls(N, ch, rk)
    BY <2>1
  <2> QED
    BY <2>2, ChildRanks
<1>5. /\ \A p \in N, q \in Sides : ch[q][p] # NULL => pa[ch[q][p]] = p
      /\ \A n \in N : pa[n] # NULL => \E q \in Sides : ch[q][pa[n]] = n
      /\ \A p \in N, q, z \in Sides : ch[q][p] # NULL /\ q # z => ch[q][p] # ch[z][p]
      /\ \A n \in N : pa[n] = NULL <=> n = r
      /\ r = NULL => N = {}
  BY DEF Tree, Linked
<1>6. pa[x] = y /\ (t # NULL => pa[t] = x)
  BY <1>1, <1>2, <1>5
<1>7. ASSUME NEW p \in N, NEW q \in Sides, ch2[q][p] # NULL PROVE pa2[ch2[q][p]] = p
  <2>1. CASE p = y /\ q = s
    BY <1>1, <1>2, <1>3, <1>7, <2>1
  <2>2. CASE p = y /\ q = o
    <3>1. PICK c : c = ch[o][y]
      OBVIOUS
    <3>2. c \in N /\ c # y /\ pa[c] = y /\ c # x /\ c # t /\ ch2[q][p] = c
      BY <1>1, <1>2, <1>4, <1>5, <1>6, <1>7, <2>2, <3>1
    <3> QED
      BY <1>3, <2>2, <3>2
  <2>3. CASE p = x /\ q = o
    BY <1>2, <1>3, <2>3
  <2>4. CASE p = x /\ q = s
    <3>1. PICK c : c = ch[s][x]
      OBVIOUS
    <3>2. c \in N /\ c # x /\ pa[c] = x /\ c # t /\ ch2[q][p] = c
      BY <1>1, <1>2, <1>4, <1>5, <1>7, <2>4, <3>1
    <3>3. c # y
      BY <1>1, <1>2, <3>2, LiftedRank, <3>1
    <3> QED
      BY <1>3, <2>4, <3>2, <3>3
  <2>5. CASE p # x /\ p # y /\ ch[q][p] = y
    BY <1>1, <1>2, <1>3, <1>5, <2>5
  <2>6. CASE p # x /\ p # y /\ ch[q][p] # y
    <3>1. PICK c : c = ch[q][p]
      OBVIOUS
    <3>2. ch2[q][p] = c
      BY <1>2, <2>6, <3>1
    <3>3. c \in N /\ pa[c] = p /\ c # x /\ c # y /\ c # t
      BY <1>1, <1>4, <1>5, <1>6, <1>7, <2>6, <3>1, <3>2
    <3> QED
      BY <1>3, <3>2, <3>3
  <2> QED
    BY <1>1, <2>1, <2>2, <2>3, <2>4, <2>5, <2>6
<1>8. ASSUME NEW n \in N, pa2[n] # NULL PROVE \E q \in Sides : ch2[q][pa2[n]] = n
  <2>1. CASE n = x
    <3>1. PICK q \in Sides : ch[q][up] = y
      BY <1>1, <1>2, <1>3, <1>5, <1>8, <2>1
    <3>2. up \in N \ {x, y}
      BY <1>1, <1>3, <1>8, <2>1
    <3> QED
      BY <1>2, <1>3, <2>1, <3>1, <3>2
  <2>2. CASE n = y
    BY <1>1, <1>2, <1>3, <2>2
  <2>3. CASE n # x /\ n # y /\ n = t
    BY <1>1, <1>2, <1>3, <2>3
  <2>4. CASE n # x /\ n # y /\ n # t
    <3>1. PICK m : m = pa[n]
      OBVIOUS
    <3>2. pa2[n] = m /\ m \in N
      BY <1>3, <1>4, <1>8, <2>4, <3>1
    <3>3. PICK q \in Sides : ch[q][m] = n
      BY <1>1, <1>5, <1>8, <3>1, <3>2
    <3>4. CASE m = y
      BY <1>1, <1>2, <2>4, <3>2, <3>3, <3>4
    <3>5. CASE m = x
      BY <1>1, <1>2, <2>4, <3>2, <3>3, <3>5
    <3>6. CASE m # x /\ m # y
      BY <1>2, <2>4, <3>2, <3>3, <3>6
    <3> QED
      BY <3>4, <3>5, <3>6
  <2> QED
    BY <2>1, <2>2, <2>3, <2>4
<1>9. ASSUME NEW p \in N, NEW q \in Sides, NEW z \in Sides, ch2[q][p] # NULL, q # z
      PROVE  ch2[q][p] # ch2[z][p]
  <2>1. CASE p = y
    <3>1. t # NULL => t # ch[o][y]
      BY <1>1, <1>5, <1>6
    <3>2. ch[o][y] # NULL => t # ch[o][y]
      BY <1>1, <1>5, <1>6
    <3> QED
      BY <1>1, <1>2, <1>9, <2>1, <3>1, <3>2
  <2>2. CASE p = x
    <3>1. ch[s][x] # y
      BY <1>1, <1>2, LiftedRank
    <3> QED
      BY <1>1, <1>2, <1>9, <2>2, <3>1
  <2>3. CASE p # x /\ p # y
    <3>1. ch[q][p] # x /\ ch[z][p] # x
      BY <1>1, <1>5, <1>6, <2>3
    <3>2. p \in N \ {x, y} /\ y # NULL /\ x # NULL
      BY <1>1, <2>3
    <3>3. ch[q][p] # NULL
      BY <1>2, <1>9, <3>2
    <3>4. ch[q][p] # ch[z][p]
      BY <1>5, <1>9, <3>3
    <3> QED
      BY <1>2, <3>1, <3>2, <3>4
  <2> QED
    BY <2>1, <2>2, <2>3
<1>10. ASSUME NEW n \in N PROVE pa2[n] = NULL <=> n = r2
  <2>1. x # r /\ (t # NULL => t # r) /\ (up = NULL <=> y = r)
    BY <1>1, <1>2, <1>5, <1>6
  <2>2. CASE n = x
    BY <1>3, <2>1, <2>2
  <2>3. CASE n = y
    BY <1>1, <1>3, <2>1, <2>3
  <2>4. CASE n # x /\ n # y /\ n = t
    BY <1>1, <1>3, <2>1, <2>4
  <2>5. CASE n # x /\ n # y /\ n # t
    <3>1. pa2[n] = pa[n]
      BY <1>3, <2>5
    <3> QED
      BY <1>3, <1>5, <2>1, <2>5, <3>1
  <2> QED
    BY <2>2, <2>3, <2>4, <2>5
<1>11. r2 # NULL
  BY <1>1, <1>3, <1>5
<1> QED
  BY <1>7, <1>8, <1>9, <1>10, <1>11 DEF Linked

LEMMA LiftedRanked ==
  ASSUME NEW N, NEW r, NEW ch, NEW pa, Tree(N, r, ch, pa), NEW s, NEW o, NEW x, NEW y, NEW t,
         NEW up, NEW r2, NEW ch2, NEW pa2, Lifted(N, r, ch, pa, s, o, x, y, t, up, r2, ch2, pa2)
  PROVE  Ranked(N, ch2)
<1>1. PICK top \in Nat : \E rk \in [N -> 0 .. top] : Falls(N, ch, rk)
  BY DEF Tree, Ranked
<1>2. PICK rk \in [N -> 0 .. top] : Falls(N, ch, rk)
  BY <1>1
<1>3. /\ NULL \notin N /\ s \in Sides /\ o \in Sides /\ s # o /\ \A q \in Sides : q = s \/ q = o
      /\ x \in N /\ y \in N /\ x # y
      /\ t # NULL => t \in N /\ t # x /\ t # y /\ t # up
      /\ up # NULL => up \in N /\ up # x /\ up # y
  BY LiftedAround DEF Around
<1>4. /\ ch[s][y] = x /\ t = ch[o][x]
      /\ ch2[s][y] = t /\ ch2[o][y] = ch[o][y] /\ ch2[o][x] = y /\ ch2[s][x] = ch[s][x]
      /\ \A p \in N \ {x, y}, q \in Sides : ch2[q][p] = IF ch[q][p] = y THEN x ELSE ch[q][p]
  BY DEF Lifted
<1>5. /\ \A n \in N : rk[n] \in Nat /\ rk[n] <= top
      /\ \A p \in N, q \in Sides : ch[q][p] # NULL => ch[q][p] \in N /\ rk[ch[q][p]] < rk[p]
  BY <1>2, ChildRanks
<1>6. \A p \in N, q \in Sides, z \in Sides : ch[q][p] = x => p = y /\ (q # z => ch[z][p] # x)
  <2>1. \A p \in N, q \in Sides : ch[q][p] # NULL => pa[ch[q][p]] = p
    BY DEF Tree, Linked
  <2>2. pa[x] = y
    BY <1>3, <1>4, <2>1
  <2>3. \A p \in N, q, z \in Sides : ch[q][p] # NULL /\ q # z => ch[q][p] # ch[z][p]
    BY DEF Tree, Linked
  <2> QED
    BY <1>3, <2>1, <2>2, <2>3
<1>7. PICK r3 : r3 = [n \in N |-> IF n = x THEN 2 * rk[y] + 1 ELSE 2 * rk[n]]
  OBVIOUS
<1>8. PICK top3 \in Nat : top3 = 2 * top + 1
  OBVIOUS
<1>9. r3 \in [N -> 0 .. top3]
  <2>1. ASSUME NEW n \in N PROVE r3[n] \in 0 .. top3
    <3>1. rk[n] \in Nat /\ rk[n] <= top /\ rk[y] \in Nat /\ rk[y] <= top
      BY <1>3, <1>5
    <3>2. r3[n] = IF n = x THEN 2 * rk[y] + 1 ELSE 2 * rk[n]
      BY <1>7
    <3> QED
      BY <1>8, <3>1, <3>2
  <2> QED
    BY <1>7, <2>1
<1>10. r3[x] = 2 * rk[y] + 1 /\ \A n \in N : n # x => r3[n] = 2 * rk[n]
  BY <1>3, <1>7
<1>11. rk[x] < rk[y] /\ (t # NULL => rk[t] < rk[x])
  BY <1>3, <1>4, <1>5
<1>12. ASSUME NEW p \in N, NEW q \in Sides, ch2[q][p] # NULL PROVE r3[ch2[q][p]] < r3[p]
  <2>1. CASE p = y /\ q = s
    <3>1. rk[t] \in Nat /\ rk[x] \in Nat /\ rk[y] \in Nat /\ rk[t] < rk[x] /\ rk[x] < rk[y]
      BY <1>3, <1>4, <1>5, <1>11, <1>12, <2>1
    <3>2. ch2[q][p] = t /\ r3[t] = 2 * rk[t] /\ r3[y] = 2 * rk[y]
      BY <1>3, <1>4, <1>10, <1>12, <2>1
    <3> QED
      BY <2>1, <3>1, <3>2
  <2>2. CASE p = y /\ q = o
    <3>1. PICK c : c = ch[o][y]
      OBVIOUS
    <3>2. ch2[q][p] = c /\ c \in N /\ rk[c] < rk[y] /\ c # x
      BY <1>3, <1>4, <1>5, <1>6, <1>12, <2>2, <3>1
    <3>3. r3[c] = 2 * rk[c] /\ r3[y] = 2 * rk[y] /\ rk[c] \in Nat /\ rk[y] \in Nat
      BY <1>3, <1>5, <1>10, <3>2
    <3> QED
      BY <2>2, <3>2, <3>3
  <2>3. CASE p = x /\ q = o
    <3>1. ch2[q][p] = y /\ r3[y] = 2 * rk[y] /\ r3[x] = 2 * rk[y] + 1 /\ rk[y] \in Nat
      BY <1>3, <1>4, <1>5, <1>10, <2>3
    <3> QED
      BY <2>3, <3>1
  <2>4. CASE p = x /\ q = s
    <3>1. PICK c : c = ch[s][x]
      OBVIOUS
    <3>2. ch2[q][p] = c /\ c \in N /\ rk[c] < rk[x] /\ c # x
      BY <1>3, <1>4, <1>5, <1>12, <2>4, <3>1
    <3>3. /\ r3[c] = 2 * rk[c] /\ r3[x] = 2 * rk[y] + 1
          /\ rk[c] \in Nat /\ rk[x] \in Nat /\ rk[y] \in Nat
      BY <1>3, <1>5, <1>10, <3>2
    <3> QED
      BY <1>11, <2>4, <3>2, <3>3
  <2>5. CASE p # x /\ p # y /\ ch[q][p] = y
    <3>1. ch2[q][p] = x /\ rk[y] < rk[p] /\ rk[y] \in Nat /\ rk[p] \in Nat
      BY <1>3, <1>4, <1>5, <2>5
    <3>2. r3[x] = 2 * rk[y] + 1 /\ r3[p] = 2 * rk[p]
      BY <1>10, <2>5
    <3> QED
      BY <3>1, <3>2
  <2>6. CASE p # x /\ p # y /\ ch[q][p] # y
    <3>1. PICK c : c = ch[q][p]
      OBVIOUS
    <3>2. ch2[q][p] = c
      BY <1>4, <2>6, <3>1
    <3>3. c \in N /\ rk[c] < rk[p] /\ c # x
      BY <1>5, <1>6, <1>12, <2>6, <3>1, <3>2
    <3>4. r3[c] = 2 * rk[c] /\ r3[p] = 2 * rk[p] /\ rk[c] \in Nat /\ rk[p] \in Nat
      BY <1>5, <1>10, <2>6, <3>3
    <3> QED
      BY <3>2, <3>3, <3>4
  <2> QED
    BY <1>3, <2>1, <2>2, <2>3, <2>4, <2>5, <2>6
<1>13. Falls(N, ch2, r3)
  BY <1>12 DEF Falls
<1> QED
  BY <1>9, <1>13 DEF Ranked

(* The nodes below a link. *)
Under(sub, c) == IF c = NULL THEN {} ELSE sub[c]

LEMMA UnderIs ==
  ASSUME NEW N, NEW r, NEW ch, NEW pa, Tree(N, r, ch, pa), NEW sub, SubOf(N, r, ch, sub)
  PROVE  /\ \A n \in N : sub[n] \subseteq N
         /\ \A n \in N, q \in Sides : Under(sub, ch[q][n]) \subseteq N
         /\ \A n \in N, s, o \in Sides :
               s # o => sub[n] = {n} \cup Under(sub, ch[s][n]) \cup Under(sub, ch[o][n])
         /\ \A n \in N, q \in Sides : \A m \in Under(sub, ch[q][n]) : Before(q, m, n)
<1>1. /\ sub \in [N -> SUBSET N]
      /\ \A n, m \in N : m \in sub[n] <=> (m = n \/ \E q \in Sides : ch[q][n] # NULL /\ m \in sub[ch[q][n]])
      /\ \A n, m \in N, q \in Sides : ch[q][n] # NULL /\ m \in sub[ch[q][n]] => Before(q, m, n)
  BY DEF SubOf
<1>2. \A n \in N, q \in Sides : ch[q][n] # NULL => ch[q][n] \in N
  BY TreeIs
<1>3. \A n \in N : sub[n] \subseteq N
  BY <1>1
<1>4. \A n \in N, q \in Sides : Under(sub, ch[q][n]) \subseteq N
  BY <1>2, <1>3 DEF Under
<1>5. \A n \in N, q \in Sides, m \in N : m \in Under(sub, ch[q][n]) <=> ch[q][n] # NULL /\ m \in sub[ch[q][n]]
  BY DEF Under
<1>6. ASSUME NEW n \in N, NEW s \in Sides, NEW o \in Sides, s # o
      PROVE  sub[n] = {n} \cup Under(sub, ch[s][n]) \cup Under(sub, ch[o][n])
  <2>1. \A q \in Sides : q = s \/ q = o
    BY <1>6, TwoSides
  <2>2. ASSUME NEW m \in N
        PROVE  m \in sub[n] <=> m = n \/ m \in Under(sub, ch[s][n]) \/ m \in Under(sub, ch[o][n])
    <3>1. m \in sub[n] <=> (m = n \/ \E q \in Sides : m \in Under(sub, ch[q][n]))
      BY <1>1, <1>5
    <3> QED
      BY <2>1, <3>1
  <2> QED
    BY <1>3, <1>4, <2>2
<1>7. \A n \in N, q \in Sides : \A m \in Under(sub, ch[q][n]) : Before(q, m, n)
  BY <1>1, <1>4, <1>5
<1> QED
  BY <1>3, <1>4, <1>6, <1>7

LEMMA UnderSub ==
  ASSUME NEW N, N \subseteq Labels, NEW r, NEW ch \in [Sides -> [N -> N \cup {NULL}]],
         NEW sub \in [N -> SUBSET N],
         NEW s \in Sides, NEW o \in Sides, s # o,
         \A n \in N : sub[n] = {n} \cup Under(sub, ch[s][n]) \cup Under(sub, ch[o][n]),
         \A n \in N, q \in Sides : \A m \in Under(sub, ch[q][n]) : Before(q, m, n),
         r # NULL => sub[r] = N
  PROVE  SubOf(N, r, ch, sub)
<1>1. \A n \in N, q \in Sides, m \in N : m \in Under(sub, ch[q][n]) <=> ch[q][n] # NULL /\ m \in sub[ch[q][n]]
  BY DEF Under
<1>2. \A q \in Sides : q = s \/ q = o
  BY TwoSides
<1>3. ASSUME NEW n \in N, NEW m \in N
      PROVE  m \in sub[n] <=> (m = n \/ \E q \in Sides : ch[q][n] # NULL /\ m \in sub[ch[q][n]])
  <2>1. m \in sub[n] <=> (m = n \/ m \in Under(sub, ch[s][n]) \/ m \in Under(sub, ch[o][n]))
    OBVIOUS
  <2>2. m \in sub[n] <=> (m = n \/ \E q \in Sides : m \in Under(sub, ch[q][n]))
    BY <1>2, <2>1
  <2> QED
    BY <1>1, <2>2
<1>4. \A n, m \in N, q \in Sides : ch[q][n] # NULL /\ m \in sub[ch[q][n]] => Before(q, m, n)
  BY <1>1
<1> QED
  BY <1>3, <1>4 DEF SubOf

LEMMA LiftedSorted ==
  ASSUME NEW N, NEW r, NEW ch, NEW pa, Tree(N, r, ch, pa), NEW s, NEW o, NEW x, NEW y, NEW t,
         NEW up, NEW r2, NEW ch2, NEW pa2, Lifted(N, r, ch, pa, s, o, x, y, t, up, r2, ch2, pa2)
  PROVE  Sorted(N, r2, ch2)
<1>1. PICK sub : SubOf(N, r, ch, sub)
  BY DEF Tree, Sorted
<1>2. /\ NULL \notin N /\ s \in Sides /\ o \in Sides /\ s # o /\ \A q \in Sides : q = s \/ q = o
      /\ x \in N /\ y \in N /\ x # y
      /\ t # NULL => t \in N /\ t # x /\ t # y
  BY LiftedAround DEF Around
<1>3. /\ ch[s][y] = x /\ t = ch[o][x] /\ up = pa[y]
      /\ ch2[s][y] = t /\ ch2[o][y] = ch[o][y] /\ ch2[o][x] = y /\ ch2[s][x] = ch[s][x]
      /\ \A p \in N \ {x, y}, q \in Sides : ch2[q][p] = IF ch[q][p] = y THEN x ELSE ch[q][p]
      /\ r2 = IF up = NULL THEN x ELSE r
      /\ ch2 \in [Sides -> [N -> N \cup {NULL}]]
  BY DEF Lifted, Typed
<1>4. /\ \A p \in N, q \in Sides : ch[q][p] # NULL => pa[ch[q][p]] = p /\ ch[q][p] \in N
      /\ \A p \in N, q, z \in Sides : ch[q][p] # NULL /\ q # z => ch[q][p] # ch[z][p]
      /\ \A n \in N : pa[n] = NULL <=> n = r
      /\ r \in N \cup {NULL}
  BY TreeIs
<1>5. /\ N \subseteq Labels /\ (r # NULL => sub[r] = N)
      /\ \A n \in N : sub[n] \subseteq N
      /\ \A n \in N, q \in Sides : Under(sub, ch[q][n]) \subseteq N
      /\ \A n \in N : sub[n] = {n} \cup Under(sub, ch[s][n]) \cup Under(sub, ch[o][n])
      /\ \A n \in N, q \in Sides : \A m \in Under(sub, ch[q][n]) : Before(q, m, n)
  BY <1>1, <1>2, UnderIs DEF SubOf
<1>6. PICK a, b : a = ch[s][x] /\ b = ch[o][y]
  OBVIOUS
<1>7. pa[x] = y /\ (t # NULL => pa[t] = x)
  BY <1>2, <1>3, <1>4
<1>8. a # x /\ a # y /\ b # x /\ b # y
  <2>1. a # y
    BY <1>2, <1>3, <1>6, LiftedRank
  <2>2. a = x => pa[x] = x
    BY <1>2, <1>4, <1>6, ZenonT(40)
  <2>3. b = y => pa[y] = y
    BY <1>2, <1>4, <1>6, ZenonT(40)
  <2>4. b # x
    BY <1>2, <1>3, <1>4, <1>6
  <2>5. pa[y] # y
    <3>1. PICK top \in Nat : \E rk \in [N -> 0 .. top] : Falls(N, ch, rk)
      BY DEF Tree, Ranked
    <3>2. PICK rk \in [N -> 0 .. top] : Falls(N, ch, rk)
      BY <3>1
    <3> QED
      BY <1>2, <3>2, ChildRanks
  <2> QED
    BY <1>2, <1>7, <2>1, <2>2, <2>3, <2>4, <2>5
<1>9. PICK sub2 : sub2 = [n \in N |-> IF n = x THEN sub[y]
                                      ELSE IF n = y THEN {y} \cup Under(sub, t) \cup Under(sub, b)
                                      ELSE sub[n]]
  OBVIOUS
<1>10. /\ sub2[x] = sub[y] /\ sub2[y] = {y} \cup Under(sub, t) \cup Under(sub, b)
       /\ \A n \in N \ {x, y} : sub2[n] = sub[n]
  BY <1>2, <1>9
<1>11. Under(sub, t) \subseteq N /\ Under(sub, b) \subseteq N
  BY <1>2, <1>3, <1>5, <1>6
<1>12. sub2 \in [N -> SUBSET N]
  <2>1. ASSUME NEW n \in N PROVE sub2[n] \in SUBSET N
    <3>1. sub2[x] \subseteq N /\ sub2[y] \subseteq N
      BY <1>2, <1>5, <1>10, <1>11
    <3>2. n # x /\ n # y => sub2[n] \subseteq N
      BY <1>5, <1>10
    <3> QED
      BY <3>1, <3>2
  <2> QED
    BY <1>9, <2>1
<1>13. /\ \A c \in N \cup {NULL} : c # x /\ c # y => Under(sub2, c) = Under(sub, c)
       /\ Under(sub2, x) = sub[y] /\ Under(sub2, y) = sub2[y]
  BY <1>2, <1>10 DEF Under
<1>14. a \in N \cup {NULL} /\ b \in N \cup {NULL} /\ t \in N \cup {NULL}
  BY <1>2, <1>3, <1>4, <1>6
<1>15. Under(sub2, a) = Under(sub, a) /\ Under(sub2, b) = Under(sub, b) /\ Under(sub2, t) = Under(sub, t)
  <2>1. t # x /\ t # y
    BY <1>2
  <2> QED
    BY <1>8, <1>13, <1>14, <2>1
<1>16. sub[x] = {x} \cup Under(sub, a) \cup Under(sub, t) /\ sub[y] = {y} \cup sub[x] \cup Under(sub, b)
  <2>1. Under(sub, x) = sub[x]
    BY <1>2 DEF Under
  <2> QED
    BY <1>2, <1>3, <1>5, <1>6, <2>1
<1>17. \A n \in N \ {x, y}, q \in Sides : Under(sub2, ch2[q][n]) = Under(sub, ch[q][n])
  <2>1. ASSUME NEW n \in N \ {x, y}, NEW q \in Sides PROVE Under(sub2, ch2[q][n]) = Under(sub, ch[q][n])
    <3>1. PICK c : c = ch[q][n]
      OBVIOUS
    <3>2. c \in N \cup {NULL} /\ c # x
      BY <1>2, <1>4, <1>7, <3>1
    <3>3. CASE c = y
      <4>1. ch2[q][n] = x /\ Under(sub, c) = sub[y]
        BY <1>2, <1>3, <3>1, <3>3, ZenonT(40) DEF Under
      <4> QED
        BY <1>13, <3>1, <4>1
    <3>4. CASE c # y
      <4>1. ch2[q][n] = c
        BY <1>3, <3>1, <3>4
      <4> QED
        BY <1>13, <3>1, <3>2, <3>4, <4>1
    <3> QED
      BY <3>3, <3>4
  <2> QED
    BY <2>1
<1>18. ASSUME NEW n \in N
       PROVE  sub2[n] = {n} \cup Under(sub2, ch2[s][n]) \cup Under(sub2, ch2[o][n])
  <2>1. CASE n = x
    BY <1>3, <1>6, <1>10, <1>13, <1>15, <1>16, <2>1
  <2>2. CASE n = y
    BY <1>3, <1>6, <1>10, <1>15, <2>2
  <2>3. CASE n # x /\ n # y
    BY <1>2, <1>5, <1>10, <1>17, <2>3
  <2> QED
    BY <2>1, <2>2, <2>3
<1>19. ASSUME NEW n \in N, NEW q \in Sides, NEW m \in Under(sub2, ch2[q][n]) PROVE Before(q, m, n)
  <2>1. Before(s, x, y)
    <3>1. x \in Under(sub, ch[s][y])
      BY <1>2, <1>3, <1>16 DEF Under
    <3> QED
      BY <1>2, <1>5, <3>1
  <2>2. Before(o, y, x)
    BY <1>2, <2>1, BeforeMirror
  <2>3. CASE n = x /\ q = s
    <3>1. m \in Under(sub, ch[s][x])
      BY <1>3, <1>6, <1>15, <2>3
    <3> QED
      BY <1>2, <1>5, <2>3, <3>1
  <2>4. CASE n = x /\ q = o
    <3>1. m = y \/ m \in Under(sub, t) \/ m \in Under(sub, b)
      BY <1>3, <1>10, <1>13, <2>4
    <3>2. CASE m = y
      BY <2>2, <2>4, <3>2
    <3>3. CASE m \in Under(sub, t)
      BY <1>2, <1>3, <1>5, <2>4, <3>3
    <3>4. CASE m \in Under(sub, b)
      <4>1. Before(o, m, y) /\ m \in Labels /\ x \in Labels /\ y \in Labels
        BY <1>2, <1>5, <1>6, <1>11, <3>4
      <4> QED
        BY <1>2, <2>2, <2>4, <4>1, BeforeTrans
    <3> QED
      BY <3>1, <3>2, <3>3, <3>4
  <2>5. CASE n = y /\ q = s
    <3>1. m \in Under(sub, t)
      BY <1>3, <1>15, <2>5
    <3>2. m \in Under(sub, ch[s][y])
      BY <1>2, <1>3, <1>16, <3>1 DEF Under
    <3> QED
      BY <1>2, <1>5, <2>5, <3>2
  <2>6. CASE n = y /\ q = o
    <3>1. m \in Under(sub, ch[o][y])
      BY <1>3, <1>6, <1>15, <2>6
    <3> QED
      BY <1>2, <1>5, <2>6, <3>1
  <2>7. CASE n # x /\ n # y
    <3>1. m \in Under(sub, ch[q][n])
      BY <1>17, <2>7
    <3> QED
      BY <1>5, <3>1
  <2> QED
    BY <1>2, <2>3, <2>4, <2>5, <2>6, <2>7
<1>20. r2 # NULL => sub2[r2] = N
  <2>1. CASE up = NULL
    <3>1. y = r
      BY <1>2, <1>3, <1>4, <2>1
    <3>2. r2 = x /\ r # NULL
      BY <1>2, <1>3, <2>1, <3>1
    <3> QED
      BY <1>5, <1>10, <3>1, <3>2
  <2>2. CASE up # NULL
    <3>1. y # r /\ x # r /\ r2 = r
      BY <1>2, <1>3, <1>4, <1>7, <2>2
    <3>2. ASSUME r # NULL PROVE sub2[r] = N
      <4>1. r \in N \ {x, y}
        BY <1>4, <3>1, <3>2
      <4> QED
        BY <1>5, <1>10, <3>2, <4>1
    <3> QED
      BY <3>1, <3>2
  <2> QED
    BY <2>1, <2>2
<1>21. SubOf(N, r2, ch2, sub2)
  BY <1>2, <1>3, <1>5, <1>12, <1>18, <1>19, <1>20, UnderSub
<1> QED
  BY <1>21 DEF Sorted

LEMMA LiftedTree ==
  ASSUME NEW N, NEW r, NEW ch, NEW pa, Tree(N, r, ch, pa), NEW s, NEW o, NEW x, NEW y, NEW t,
         NEW up, NEW r2, NEW ch2, NEW pa2, Lifted(N, r, ch, pa, s, o, x, y, t, up, r2, ch2, pa2)
  PROVE  Tree(N, r2, ch2, pa2)
<1>1. Typed(N, r2, ch2, pa2)
  BY DEF Lifted
<1> QED
  BY <1>1, LiftedLinked, LiftedRanked, LiftedSorted DEF Tree
-----------------------------------------------------------------------------
(* A place for a new leaf n, below p on side s: the nodes above it have n on the
   side where it will be. *)
Place(N, r, ch, n, p, s) ==
  /\ n \in Labels
  /\ \E sub : /\ SubOf(N, r, ch, sub)
              /\ \A m \in N, q \in Sides :
                   (m = p /\ q = s) \/ (ch[q][m] # NULL /\ p \in sub[ch[q][m]]) => Before(q, n, m)

(* A walk that takes side sd[m] of each node m, until that link is empty. *)
LEMMA WalkEnds ==
  ASSUME NEW N, NEW r, NEW ch, NEW pa, Tree(N, r, ch, pa), NEW sub, SubOf(N, r, ch, sub), NEW sd, NEW d,
         \A m \in N : sd[m] \in Sides /\ d[m] = ch[sd[m]][m],
         NEW w, \A m \in N : w[m] = IF d[m] = NULL THEN m ELSE w[d[m]]
  PROVE  \A m \in N : w[m] \in sub[m] /\ w[m] \in N /\ d[w[m]] = NULL
<1> DEFINE T == {m \in N : w[m] \in sub[m] /\ w[m] \in N /\ d[w[m]] = NULL}
<1>1. /\ \A n, m \in N : m \in sub[n] <=> (m = n \/ \E q \in Sides : ch[q][n] # NULL /\ m \in sub[ch[q][n]])
  BY DEF SubOf
<1>2. ASSUME NEW n \in N, \A q \in Sides : ch[q][n] # NULL => ch[q][n] \in T PROVE n \in T
  <2>1. CASE d[n] = NULL
    BY <1>1, <2>1
  <2>2. CASE d[n] # NULL
    <3>1. d[n] \in T /\ w[n] = w[d[n]]
      BY <1>2, <2>2
    <3>2. w[n] \in sub[d[n]] /\ w[n] \in N /\ d[w[n]] = NULL
      BY <3>1
    <3>3. w[n] \in sub[n]
      BY <1>1, <2>2, <3>2
    <3> QED
      BY <3>2, <3>3
  <2> QED
    BY <2>1, <2>2
<1> HIDE DEF T
<1>3. N \subseteq T
  BY <1>2, FromTheLeaves
<1> QED
  BY <1>3 DEF T

(* The walk from the root goes by all nodes that have its end below them. *)
LEMMA WalkPasses ==
  ASSUME NEW N, NEW r, NEW ch, NEW pa, Tree(N, r, ch, pa), r # NULL, NEW sub, SubOf(N, r, ch, sub),
         NEW sd, NEW d,
         \A m \in N : sd[m] \in Sides /\ d[m] = ch[sd[m]][m],
         NEW w, \A m \in N : w[m] = IF d[m] = NULL THEN m ELSE w[d[m]], NEW p, p = w[r]
  PROVE  /\ p \in N /\ d[p] = NULL
         /\ \A m \in N, q \in Sides : ch[q][m] # NULL /\ p \in sub[ch[q][m]] => q = sd[m]
<1> DEFINE T == {m \in N : p \in sub[m] => w[m] = p}
<1>1. /\ N \subseteq Labels
      /\ \A n, m \in N : m \in sub[n] <=> (m = n \/ \E q \in Sides : ch[q][n] # NULL /\ m \in sub[ch[q][n]])
      /\ \A n, m \in N, q \in Sides : ch[q][n] # NULL /\ m \in sub[ch[q][n]] => Before(q, m, n)
  BY DEF SubOf
<1>2. /\ r \in N /\ NULL \notin N
      /\ \A n \in N : pa[n] # NULL => pa[n] \in N /\ \E s \in Sides : ch[s][pa[n]] = n
      /\ \A n \in N : pa[n] = NULL <=> n = r
      /\ \A n \in N, s \in Sides : ch[s][n] # NULL => ch[s][n] \in N
  BY TreeIs
<1>3. \A m \in N : w[m] \in sub[m] /\ w[m] \in N /\ d[w[m]] = NULL
  BY WalkEnds
<1>4. p \in N /\ d[p] = NULL
  BY <1>2, <1>3
<1>5. ASSUME NEW m \in N, NEW q \in Sides, ch[q][m] # NULL, p \in sub[ch[q][m]], w[m] = p PROVE q = sd[m]
  <2>1. Before(q, p, m) /\ p \in Labels /\ m \in Labels
    BY <1>1, <1>4, <1>5
  <2>2. CASE d[m] = NULL
    <3>1. p = m
      BY <1>5, <2>2
    <3> QED
      BY <2>1, <3>1, BeforeIrr
  <2>3. CASE d[m] # NULL
    <3>1. d[m] \in N /\ w[d[m]] = p /\ sd[m] \in Sides /\ d[m] = ch[sd[m]][m]
      BY <1>2, <1>5, <2>3
    <3>2. p \in sub[ch[sd[m]][m]] /\ ch[sd[m]][m] # NULL
      BY <1>3, <2>3, <3>1
    <3>3. Before(sd[m], p, m)
      BY <1>1, <1>4, <3>1, <3>2
    <3> QED
      BY <2>1, <3>1, <3>3, BeforeOneSide
  <2> QED
    BY <2>2, <2>3
<1>6. ASSUME NEW m \in N, pa[m] # NULL => pa[m] \in T PROVE m \in T
  <2>1. CASE pa[m] = NULL
    BY <1>2, <2>1
  <2>2. CASE pa[m] # NULL
    <3>1. PICK x \in N : x = pa[m]
      BY <1>2, <2>2
    <3>2. PICK q \in Sides : ch[q][x] = m
      BY <1>2, <2>2, <3>1
    <3>3. ASSUME p \in sub[m] PROVE w[m] = p
      <4>1. p \in sub[x] /\ m # NULL
        BY <1>1, <1>2, <1>4, <3>2, <3>3
      <4>2. w[x] = p
        BY <1>6, <2>2, <3>1, <4>1
      <4>3. q = sd[x]
        BY <1>5, <3>2, <3>3, <4>1, <4>2
      <4>4. d[x] = m
        BY <3>2, <4>3
      <4> QED
        BY <4>1, <4>2, <4>4
    <3> QED
      BY <3>3
  <2> QED
    BY <2>1, <2>2
<1> HIDE DEF T
<1>7. N \subseteq T
  BY <1>6, FromTheRoot
<1>8. ASSUME NEW m \in N, NEW q \in Sides, ch[q][m] # NULL, p \in sub[ch[q][m]] PROVE q = sd[m]
  <2>1. p \in sub[m]
    BY <1>1, <1>4, <1>8
  <2>2. w[m] = p
    BY <1>7, <2>1 DEF T
  <2> QED
    BY <1>5, <1>8, <2>2
<1> QED
  BY <1>4, <1>8

(* The walk of RbTree_add_ and RbTree_find_or_add_ comes to an empty link, and
   to the one where the new element belongs. *)
LEMMA LinkParentIs ==
  ASSUME Tree(Nodes, root, child, parent), NEW cmp \in {Whole, Counted}, NEW k \in Keys, root # NULL,
         NEW n \in Labels, n[1] = k, \A m \in Nodes : m[1] = k => m[2] < n[2],
         NEW p, p = LinkParent(cmp, k), NEW s, s = Side(cmp, k, p)
  PROVE  p \in Nodes /\ child[s][p] = NULL /\ Place(Nodes, root, child, n, p, s)
<1>1. PICK N, r, ch, pa : N = Nodes /\ r = root /\ ch = child /\ pa = parent
  OBVIOUS
<1>2. Tree(N, r, ch, pa) /\ r # NULL
  BY <1>1
<1>3. PICK sub : SubOf(N, r, ch, sub)
  BY <1>2 DEF Tree, Sorted
<1>4. N \subseteq Labels
  BY <1>3 DEF SubOf
<1>5. PICK sd : sd = [m \in N |-> Side(cmp, k, m)]
  OBVIOUS
<1>6. PICK d : d = [m \in N |-> ch[sd[m]][m]]
  OBVIOUS
<1>7. \A m \in N : sd[m] = Side(cmp, k, m) /\ d[m] = ch[Side(cmp, k, m)][m]
  BY <1>5, <1>6
<1>8. \A m \in N : sd[m] \in Sides /\ Before(sd[m], n, m)
  <2>1. ASSUME NEW m \in N PROVE Side(cmp, k, m) \in Sides /\ Before(Side(cmp, k, m), n, m)
    BY <1>1, <1>4, SideTells
  <2> QED
    BY <1>7, <2>1
<1>9. \A m \in N : sd[m] \in Sides /\ d[m] = ch[sd[m]][m]
  BY <1>7, <1>8
<1>10. PICK S : S = {m \in N : d[m] = NULL}
  OBVIOUS
<1>11. PICK v : v = [m \in N |-> m]
  OBVIOUS
<1> DEFINE G(f) == [m \in N |-> IF ch[Side(cmp, k, m)][m] = NULL THEN m
                                ELSE f[ch[Side(cmp, k, m)][m]]]
<1>12. \A f : Runs(N, S, {}, v, d, f) <=> f = G(f)
  <2>1. ASSUME NEW f PROVE [m \in N |-> Result(N, S, {}, v, d, f, m)] = G(f)
    <3>1. ASSUME NEW m \in N
          PROVE  Result(N, S, {}, v, d, f, m) = IF d[m] = NULL THEN m ELSE f[d[m]]
      BY <1>10, <1>11 DEF Result
    <3> QED
      BY <1>7, <3>1
  <2> QED
    BY <2>1 DEF Runs
<1>13. \E f : Runs(N, S, {}, v, d, f)
  <2>1. ASSUME NEW m \in N \ S PROVE m \in N /\ d[m] \in N /\ \E q \in Sides : d[m] = ch[q][m]
    <3>1. d[m] # NULL /\ sd[m] \in Sides /\ d[m] = ch[sd[m]][m]
      BY <1>9, <1>10
    <3> QED
      BY <1>2, <3>1, TreeIs
  <2>2. Down(N, ch, N, S, d)
    BY <2>1 DEF Down
  <2> QED
    BY <1>2, <2>2, RunsDown
<1> HIDE DEF G
<1>14. PICK w : w = CHOOSE f : f = G(f)
  OBVIOUS
<1>15. w = G(w)
  BY <1>12, <1>13, <1>14, Zenon
<1>16. LinkParent(cmp, k) = w[r]
  BY <1>1, <1>2, <1>14 DEF LinkParent, G
<1>17. \A m \in N : w[m] = IF d[m] = NULL THEN m ELSE w[d[m]]
  BY <1>7, <1>15 DEF G
<1>18. /\ p \in N /\ d[p] = NULL
       /\ \A m \in N, q \in Sides : ch[q][m] # NULL /\ p \in sub[ch[q][m]] => q = sd[m]
  BY <1>2, <1>3, <1>9, <1>16, <1>17, WalkPasses
<1>19. s = sd[p] /\ ch[s][p] = NULL
  BY <1>7, <1>18
<1>20. \A m \in N, q \in Sides :
         (m = p /\ q = s) \/ (ch[q][m] # NULL /\ p \in sub[ch[q][m]]) => Before(q, n, m)
  BY <1>8, <1>18, <1>19
<1>21. Place(N, r, ch, n, p, s)
  BY <1>3, <1>20 DEF Place
<1> QED
  BY <1>1, <1>18, <1>19, <1>21
-----------------------------------------------------------------------------
(* A new leaf n below p, on side s. *)
Hung(N, r, ch, pa, n, p, s, r2, ch2, pa2) ==
  /\ n \notin N
  /\ (p = NULL /\ r = NULL) \/ (p \in N /\ s \in Sides /\ ch[s][p] = NULL)
  /\ Typed(N \cup {n}, r2, ch2, pa2)
  /\ \A q \in Sides : /\ ch2[q][n] = NULL
                      /\ \A x \in N : ch2[q][x] = IF x = p /\ q = s THEN n ELSE ch[q][x]
  /\ pa2[n] = p /\ \A x \in N : pa2[x] = pa[x]
  /\ r2 = IF p = NULL THEN n ELSE r
  /\ Place(N, r, ch, n, p, s)

LEMMA HungSorted ==
  ASSUME NEW N, NEW r, NEW ch, NEW pa, Tree(N, r, ch, pa), NEW n, NEW p, NEW s,
         NEW r2, NEW ch2, NEW pa2, Hung(N, r, ch, pa, n, p, s, r2, ch2, pa2)
  PROVE  Sorted(N \cup {n}, r2, ch2)
<1>1. /\ n \notin N /\ n \in Labels
      /\ (p = NULL /\ r = NULL) \/ (p \in N /\ s \in Sides /\ ch[s][p] = NULL)
      /\ \A q \in Sides : /\ ch2[q][n] = NULL
                          /\ \A x \in N : ch2[q][x] = IF x = p /\ q = s THEN n ELSE ch[q][x]
      /\ r2 = IF p = NULL THEN n ELSE r
  BY DEF Hung, Place
<1>2. n # NULL
  BY DEF Hung, Typed
<1>3. PICK sub : /\ SubOf(N, r, ch, sub)
                 /\ \A m \in N, q \in Sides :
                      (m = p /\ q = s) \/ (ch[q][m] # NULL /\ p \in sub[ch[q][m]]) => Before(q, n, m)
  BY DEF Hung, Place
<1>4. /\ N \subseteq Labels /\ sub \in [N -> SUBSET N]
      /\ \A x, m \in N : m \in sub[x] <=> (m = x \/ \E q \in Sides : ch[q][x] # NULL /\ m \in sub[ch[q][x]])
      /\ \A x, m \in N, q \in Sides : ch[q][x] # NULL /\ m \in sub[ch[q][x]] => Before(q, m, x)
      /\ r # NULL => sub[r] = N
  BY <1>3 DEF SubOf
<1>4a. \A x \in N : sub[x] \subseteq N
  BY <1>4
<1>5. /\ NULL \notin N /\ r \in N \cup {NULL} /\ (r = NULL => N = {})
      /\ \A x \in N, q \in Sides : ch[q][x] # NULL => ch[q][x] \in N
  BY TreeIs
<1>6. PICK sub2 : sub2 = [x \in N \cup {n} |->
                           IF x = n THEN {n} ELSE IF p \in sub[x] THEN sub[x] \cup {n} ELSE sub[x]]
  OBVIOUS
<1>7. /\ sub2[n] = {n}
      /\ \A x \in N : sub2[x] = IF p \in sub[x] THEN sub[x] \cup {n} ELSE sub[x]
  BY <1>1, <1>6
<1>8. \A x \in N : /\ n \in sub2[x] <=> p \in sub[x]
                   /\ \A m \in N : m \in sub2[x] <=> m \in sub[x]
  <2>1. ASSUME NEW x \in N
        PROVE  (n \in sub2[x] <=> p \in sub[x]) /\ \A m \in N : m \in sub2[x] <=> m \in sub[x]
    <3>1. CASE p \in sub[x]
      BY <1>1, <1>7, <3>1
    <3>2. CASE p \notin sub[x]
      BY <1>1, <1>4a, <1>7, <3>2
    <3> QED
      BY <3>1, <3>2
  <2> QED
    BY <2>1
<1>9. sub2 \in [N \cup {n} -> SUBSET (N \cup {n})]
  <2>1. ASSUME NEW x \in N \cup {n} PROVE sub2[x] \in SUBSET (N \cup {n})
    <3>1. CASE x = n
      BY <1>7, <3>1
    <3>2. CASE x \in N /\ p \in sub[x]
      BY <1>4a, <1>7, <3>2
    <3>3. CASE x \in N /\ p \notin sub[x]
      BY <1>4a, <1>7, <3>3
    <3> QED
      BY <3>1, <3>2, <3>3
  <2> QED
    BY <1>6, <2>1
<1>10. ASSUME NEW x \in N, NEW q \in Sides, ch2[q][x] # NULL
       PROVE  \/ x = p /\ q = s /\ ch2[q][x] = n /\ ch[q][x] = NULL
              \/ ~ (x = p /\ q = s) /\ ch2[q][x] = ch[q][x] /\ ch[q][x] \in N /\ ch[q][x] # NULL
  BY <1>1, <1>5, <1>10
<1>11. ASSUME NEW x \in N \cup {n}, NEW m \in N \cup {n}
       PROVE  m \in sub2[x] <=> (m = x \/ \E q \in Sides : ch2[q][x] # NULL /\ m \in sub2[ch2[q][x]])
  <2>1. CASE x = n
    BY <1>1, <1>7, <2>1
  <2>2. CASE x \in N /\ m = n
    <3>1. m # x
      BY <1>1, <2>2
    <3>2. ASSUME NEW q \in Sides, ch2[q][x] # NULL, n \in sub2[ch2[q][x]] PROVE p \in sub[x]
      <4>1. CASE x = p
        BY <1>4, <2>2, <4>1
      <4>2. CASE x # p
        <5>1. ch2[q][x] = ch[q][x] /\ ch[q][x] \in N /\ ch[q][x] # NULL
          BY <1>10, <2>2, <3>2, <4>2
        <5>2. p \in sub[ch[q][x]] /\ p \in N
          BY <1>4, <1>8, <3>2, <5>1
        <5> QED
          BY <1>4, <2>2, <5>1, <5>2
      <4> QED
        BY <4>1, <4>2
    <3>3. ASSUME p \in sub[x] PROVE \E q \in Sides : ch2[q][x] # NULL /\ n \in sub2[ch2[q][x]]
      <4>0. p \in N /\ s \in Sides
        BY <1>1, <1>4, <1>5, <2>2, <3>3
      <4>1. CASE x = p
        <5>1. ch2[s][x] = n
          BY <1>1, <2>2, <4>0, <4>1
        <5> QED
          BY <1>2, <1>7, <4>0, <5>1
      <4>2. CASE x # p
        <5>1. PICK q \in Sides : ch[q][x] # NULL /\ p \in sub[ch[q][x]]
          BY <1>4, <2>2, <3>3, <4>0, <4>2
        <5>2. ch2[q][x] = ch[q][x] /\ ch[q][x] \in N
          BY <1>1, <1>5, <2>2, <4>2, <5>1
        <5> QED
          BY <1>8, <5>1, <5>2
      <4> QED
        BY <4>1, <4>2
    <3> QED
      BY <1>8, <2>2, <3>1, <3>2, <3>3
  <2>3. CASE x \in N /\ m \in N
    <3>1. ASSUME NEW q \in Sides
          PROVE  (ch2[q][x] # NULL /\ m \in sub2[ch2[q][x]]) <=> (ch[q][x] # NULL /\ m \in sub[ch[q][x]])
      <4>1. CASE x = p /\ q = s
        <5>1. ch2[q][x] = n /\ ch[q][x] = NULL
          BY <1>1, <1>5, <2>3, <4>1
        <5>2. m \notin sub2[n]
          BY <1>1, <1>7, <2>3
        <5> QED
          BY <5>1, <5>2
      <4>2. CASE ~ (x = p /\ q = s)
        <5>1. ch2[q][x] = ch[q][x]
          BY <1>1, <2>3, <4>2
        <5>2. CASE ch[q][x] = NULL
          BY <5>1, <5>2
        <5>3. CASE ch[q][x] # NULL
          <6>1. ch[q][x] \in N
            BY <1>5, <2>3, <5>3
          <6> QED
            BY <1>8, <2>3, <5>1, <6>1
        <5> QED
          BY <5>2, <5>3
      <4> QED
        BY <4>1, <4>2
    <3>2. m \in sub2[x] <=> m \in sub[x]
      BY <1>8, <2>3
    <3>3. m \in sub[x] <=> (m = x \/ \E q \in Sides : ch[q][x] # NULL /\ m \in sub[ch[q][x]])
      BY <1>4, <2>3
    <3> QED
      BY <3>1, <3>2, <3>3
  <2> QED
    BY <2>1, <2>2, <2>3
<1>12. ASSUME NEW x \in N \cup {n}, NEW m \in N \cup {n}, NEW q \in Sides, ch2[q][x] # NULL,
              m \in sub2[ch2[q][x]]
       PROVE  Before(q, m, x)
  <2>1. x \in N
    BY <1>1, <1>12
  <2>2. CASE x = p /\ q = s
    <3>1. ch2[q][x] = n
      BY <1>1, <2>1, <2>2
    <3>2. m = n
      BY <1>7, <1>12, <3>1
    <3> QED
      BY <1>3, <2>1, <2>2, <3>2
  <2>3. CASE ~ (x = p /\ q = s)
    <3>1. ch2[q][x] = ch[q][x] /\ ch[q][x] \in N /\ ch[q][x] # NULL
      BY <1>10, <1>12, <2>1, <2>3
    <3>2. CASE m = n
      <4>1. p \in sub[ch[q][x]]
        BY <1>8, <1>12, <3>1, <3>2
      <4> QED
        BY <1>3, <2>1, <3>1, <3>2, <4>1
    <3>3. CASE m \in N
      <4>1. m \in sub[ch[q][x]]
        BY <1>8, <1>12, <3>1, <3>3
      <4> QED
        BY <1>4, <2>1, <3>1, <3>3, <4>1
    <3> QED
      BY <3>2, <3>3
  <2> QED
    BY <2>2, <2>3
<1>13. r2 # NULL => sub2[r2] = N \cup {n}
  <2>1. CASE p = NULL
    <3>1. r2 = n /\ N = {}
      BY <1>1, <1>5, <2>1
    <3> QED
      BY <1>7, <3>1
  <2>2. CASE p # NULL
    <3>1. p \in N /\ r2 = r /\ r \in N /\ r # NULL
      BY <1>1, <1>5, <2>2
    <3>2. sub[r] = N
      BY <1>4, <3>1
    <3> QED
      BY <1>7, <3>1, <3>2
  <2> QED
    BY <2>1, <2>2
<1>14. N \cup {n} \subseteq Labels
  BY <1>1, <1>4
<1>15. SubOf(N \cup {n}, r2, ch2, sub2)
  BY <1>9, <1>11, <1>12, <1>13, <1>14 DEF SubOf
<1> QED
  BY <1>15 DEF Sorted

LEMMA HungTree ==
  ASSUME NEW N, NEW r, NEW ch, NEW pa, Tree(N, r, ch, pa), NEW n, NEW p, NEW s,
         NEW r2, NEW ch2, NEW pa2, Hung(N, r, ch, pa, n, p, s, r2, ch2, pa2)
  PROVE  Tree(N \cup {n}, r2, ch2, pa2)
<1>1. /\ n \notin N
      /\ (p = NULL /\ r = NULL) \/ (p \in N /\ s \in Sides /\ ch[s][p] = NULL)
      /\ Typed(N \cup {n}, r2, ch2, pa2)
      /\ \A q \in Sides : /\ ch2[q][n] = NULL
                          /\ \A x \in N : ch2[q][x] = IF x = p /\ q = s THEN n ELSE ch[q][x]
      /\ pa2[n] = p /\ \A x \in N : pa2[x] = pa[x]
      /\ r2 = IF p = NULL THEN n ELSE r
  BY DEF Hung
<1>2. NULL \notin N /\ n # NULL /\ (r # NULL => r \in N)
  BY <1>1 DEF Tree, Typed
<1>3. /\ \A x \in N, q \in Sides : ch[q][x] # NULL => ch[q][x] \in N
      /\ \A x \in N : pa[x] # NULL => pa[x] \in N
  BY DEF Tree, Typed
<1>4. /\ \A x \in N, q \in Sides : ch[q][x] # NULL => pa[ch[q][x]] = x
      /\ \A x \in N : pa[x] # NULL => \E q \in Sides : ch[q][pa[x]] = x
      /\ \A x \in N, q, z \in Sides : ch[q][x] # NULL /\ q # z => ch[q][x] # ch[z][x]
      /\ \A x \in N : pa[x] = NULL <=> x = r
      /\ r = NULL => N = {}
  BY DEF Tree, Linked
<1>5. ASSUME NEW x \in N \cup {n}, NEW q \in Sides, ch2[q][x] # NULL PROVE pa2[ch2[q][x]] = x
  <2>1. CASE x = n
    BY <1>1, <1>5, <2>1
  <2>2. CASE x \in N /\ x = p /\ q = s
    BY <1>1, <2>2
  <2>3. CASE x \in N /\ ~ (x = p /\ q = s)
    BY <1>1, <1>3, <1>4, <1>5, <2>3
  <2> QED
    BY <2>1, <2>2, <2>3
<1>6. ASSUME NEW x \in N \cup {n}, pa2[x] # NULL PROVE \E q \in Sides : ch2[q][pa2[x]] = x
  <2>1. CASE x = n
    BY <1>1, <1>6, <2>1
  <2>2. CASE x \in N
    <3>1. PICK q \in Sides : ch[q][pa[x]] = x
      BY <1>1, <1>4, <1>6, <2>2
    <3>2. pa2[x] = pa[x] /\ pa[x] \in N /\ x # NULL
      BY <1>1, <1>2, <1>3, <1>6, <2>2
    <3>3. ~ (pa[x] = p /\ q = s)
      BY <1>1, <1>2, <3>1, <3>2
    <3>4. ch2[q][pa[x]] = x
      BY <1>1, <3>1, <3>2, <3>3
    <3> QED
      BY <3>2, <3>4
  <2> QED
    BY <2>1, <2>2
<1>7. ASSUME NEW x \in N \cup {n}, NEW q \in Sides, NEW z \in Sides, ch2[q][x] # NULL, q # z
      PROVE  ch2[q][x] # ch2[z][x]
  <2>1. CASE x = n
    BY <1>1, <1>7, <2>1
  <2>2. CASE x \in N
    <3>1. ch[q][x] # n /\ ch[z][x] # n
      BY <1>1, <1>2, <1>3, <2>2
    <3>2. /\ ch2[q][x] = IF x = p /\ q = s THEN n ELSE ch[q][x]
          /\ ch2[z][x] = IF x = p /\ z = s THEN n ELSE ch[z][x]
      BY <1>1, <2>2
    <3>3. ch[q][x] # NULL => ch[q][x] # ch[z][x]
      BY <1>4, <1>7, <2>2
    <3> QED
      BY <1>7, <3>1, <3>2, <3>3
  <2> QED
    BY <2>1, <2>2
<1>8. ASSUME NEW x \in N \cup {n} PROVE pa2[x] = NULL <=> x = r2
  BY <1>1, <1>2, <1>4
<1>9. r2 # NULL
  BY <1>1, <1>2, <1>4
<1>10. Linked(N \cup {n}, r2, ch2, pa2)
  BY <1>5, <1>6, <1>7, <1>8, <1>9 DEF Linked
<1>11. Ranked(N \cup {n}, ch2)
  <2>1. PICK top \in Nat : \E rk \in [N -> 0 .. top] : Falls(N, ch, rk)
    BY DEF Tree, Ranked
  <2>2. PICK rk \in [N -> 0 .. top] : Falls(N, ch, rk)
    BY <2>1
  <2>3. PICK r3 : r3 = [x \in N \cup {n} |-> IF x = n THEN 0 ELSE rk[x] + 1]
    OBVIOUS
  <2>4. \A x \in N : rk[x] \in 0 .. top
    OBVIOUS
  <2>5. r3[n] = 0 /\ \A x \in N : r3[x] = rk[x] + 1
    BY <1>1, <2>3
  <2>6. r3 \in [N \cup {n} -> 0 .. top + 1]
    <3>1. \A x \in N \cup {n} : r3[x] \in 0 .. top + 1
      BY <2>4, <2>5
    <3> QED
      BY <2>3, <3>1
  <2>7. ASSUME NEW x \in N \cup {n}, NEW q \in Sides, ch2[q][x] # NULL
        PROVE  r3[ch2[q][x]] < r3[x]
    <3>1. CASE x = n
      BY <1>1, <2>7, <3>1
    <3>2. CASE x \in N /\ x = p /\ q = s
      <4>1. ch2[q][x] = n /\ r3[x] = rk[x] + 1 /\ rk[x] \in 0 .. top
        BY <1>1, <2>4, <2>5, <3>2
      <4> QED
        BY <2>5, <4>1
    <3>3. CASE x \in N /\ ~ (x = p /\ q = s)
      <4>1. PICK c : c = ch[q][x]
        OBVIOUS
      <4>2. ch2[q][x] = c /\ c \in N /\ rk[c] < rk[x]
        BY <1>1, <1>3, <2>2, <2>7, <3>3, <4>1 DEF Falls
      <4>3. rk[c] \in 0 .. top /\ rk[x] \in 0 .. top /\ r3[c] = rk[c] + 1 /\ r3[x] = rk[x] + 1
        BY <2>4, <2>5, <3>3, <4>2
      <4> QED
        BY <4>2, <4>3
    <3> QED
      BY <3>1, <3>2, <3>3
  <2>8. Falls(N \cup {n}, ch2, r3) /\ top + 1 \in Nat
    BY <2>7 DEF Falls
  <2> QED
    BY <2>6, <2>8 DEF Ranked
<1> QED
  BY <1>1, <1>10, <1>11, HungSorted DEF Tree

(* A new node has a number of its own, the greatest of its key. *)
LEMMA NumberedNew ==
  ASSUME NEW N, Numbered(N), NEW k \in Keys, NEW n, n = <<k, Cardinality(Same(N, k)) + 1>>
  PROVE  /\ n \notin N /\ n # NULL /\ Numbered(N \cup {n}) /\ n[1] = k /\ n \in Labels
         /\ \A x \in N : x[1] = k => x[2] < n[2]
<1>1. IsFiniteSet(N) /\ N \subseteq Labels
  BY DEF Numbered
<1>2. IsFiniteSet(Same(N, k)) /\ Cardinality(Same(N, k)) \in Nat
  <2>1. Same(N, k) \in SUBSET N
    BY DEF Same
  <2> QED
    BY <1>1, <2>1, FS_Subset, FS_CardinalityType
<1>3. PICK c \in Nat : c = Cardinality(Same(N, k))
  BY <1>2
<1>4. n = <<k, c + 1>> /\ n[1] = k /\ n[2] = c + 1 /\ n \in Labels
  BY <1>3 DEF Labels
<1>5. \A x : x \in Same(N, k) <=> \E j \in 1 .. c : x = <<k, j>>
  <2>1. Same(N, k) = {<<k, j>> : j \in 1 .. c}
    BY <1>3 DEF Numbered
  <2> QED
    BY <2>1
<1>6. ASSUME NEW x \in N, x[1] = k PROVE x[2] < n[2]
  <2>1. x \in Same(N, k)
    BY <1>6 DEF Same
  <2>2. PICK j \in 1 .. c : x = <<k, j>>
    BY <1>5, <2>1
  <2> QED
    BY <1>4, <2>2
<1>7. n \notin N
  BY <1>4, <1>6
<1>8. n # NULL
  <2>1. c + 1 # 0
    OBVIOUS
  <2> QED
    BY <1>4, <2>1 DEF NULL
<1>9. IsFiniteSet(N \cup {n})
  BY <1>1, FS_AddElement
<1>10. Same(N \cup {n}, k) = Same(N, k) \cup {n} /\ n \notin Same(N, k)
  BY <1>4, <1>7 DEF Same
<1>11. Cardinality(Same(N \cup {n}, k)) = c + 1
  <2>1. Cardinality(Same(N, k) \cup {n}) = Cardinality(Same(N, k)) + 1
    BY <1>2, <1>10, FS_AddElement
  <2> QED
    BY <1>3, <1>10, <2>1
<1>12. ASSUME NEW l \in Keys
       PROVE  Same(N \cup {n}, l) = {<<l, j>> : j \in 1 .. Cardinality(Same(N \cup {n}, l))}
  <2>1. CASE l = k
    <3>1. ASSUME NEW x \in Same(N, k) \cup {n} PROVE \E j \in 1 .. c + 1 : x = <<k, j>>
      <4>1. CASE x = n
        BY <1>4, <4>1
      <4>2. CASE x # n
        <5>1. PICK j \in 1 .. c : x = <<k, j>>
          BY <1>5, <4>2
        <5>2. j \in 1 .. c + 1
          OBVIOUS
        <5> QED
          BY <5>1, <5>2
      <4> QED
        BY <4>1, <4>2
    <3>2. ASSUME NEW j \in 1 .. c + 1 PROVE <<k, j>> \in Same(N, k) \cup {n}
      <4>1. CASE j = c + 1
        BY <1>4, <4>1
      <4>2. CASE j # c + 1
        <5>1. j \in 1 .. c
          BY <4>2
        <5> QED
          BY <1>5, <5>1
      <4> QED
        BY <4>1, <4>2
    <3>3. Same(N, k) \cup {n} = {<<k, j>> : j \in 1 .. c + 1}
      BY <3>1, <3>2
    <3> QED
      BY <1>10, <1>11, <2>1, <3>3
  <2>2. CASE l # k
    <3>1. Same(N \cup {n}, l) = Same(N, l)
      BY <1>4, <2>2 DEF Same
    <3> QED
      BY <3>1 DEF Numbered
  <2> QED
    BY <2>1, <2>2
<1>13. N \cup {n} \subseteq Labels
  BY <1>1, <1>4
<1>14. Numbered(N \cup {n})
  BY <1>9, <1>12, <1>13 DEF Numbered
<1> QED
  BY <1>4, <1>6, <1>7, <1>8, <1>14
-----------------------------------------------------------------------------
(* The actions. *)
Extends(g, D, f, x, v) ==
  /\ DOMAIN g = D \cup {x} /\ g[x] = v
  /\ \A y \in D : g[y] = f[y]
  /\ g = [y \in D \cup {x} |-> g[y]]

LEMMA PutIs ==
  ASSUME NEW D, NEW f, DOMAIN f = D, NEW x, x \notin D, NEW v, NEW g, g = Put(f, x, v)
  PROVE  Extends(g, D, f, x, v)
BY DEF Put, Extends

LEMMA TreeInvParts ==
  ASSUME TreeInv
  PROVE  /\ NULL \notin Nodes /\ Typed(Nodes, root, child, parent)
         /\ Linked(Nodes, root, child, parent)
         /\ DOMAIN colour = Nodes /\ \A n \in Nodes : colour[n] \in {Red, Black}
         /\ node \in Nodes \cup {NULL}
         /\ node # NULL => colour[node] = Red
         /\ \A n \in Nodes : n # node /\ colour[n] = Red =>
               parent[n] # NULL /\ parent[n] \in Nodes /\ colour[parent[n]] = Black
<1>1. Typed(Nodes, root, child, parent)
  BY DEF TreeInv, Tree
<1>2. \A n \in Nodes : parent[n] # NULL => parent[n] \in Nodes
  BY <1>1 DEF Typed
<1>3. NULL \notin Nodes
  BY <1>1 DEF Typed
<1>4. \A n \in Nodes : n # node /\ colour[n] = Red => parent[n] # NULL /\ colour[parent[n]] = Black
  BY DEF TreeInv, OnlyNodeViolates
<1>5. node # NULL => colour[node] = Red
  BY DEF TreeInv, OnlyNodeViolates
<1> QED
  BY <1>1, <1>2, <1>3, <1>4, <1>5 DEF TreeInv, Tree

LEMMA LinkStep ==
  ASSUME TreeInv, node = NULL, NEW cmp \in {Whole, Counted}, NEW k \in Keys,
         RbTree_link_node(cmp, NewNode(k), LinkParent(cmp, k))
  PROVE  TreeInv'
<1>1. PICK N : N = Nodes
  OBVIOUS
<1>2. PICK n : n = NewNode(k)
  OBVIOUS
<1>3. PICK p : p = LinkParent(cmp, k)
  OBVIOUS
<1>4. PICK s : s = Side(cmp, n[1], p)
  OBVIOUS
<1>5. s \in Sides
  BY <1>4, Zenon DEF Side, Sides
<1>6. n = <<k, Cardinality(Same(N, k)) + 1>> /\ Numbered(N)
  BY <1>1, <1>2 DEF NewNode, Same, TreeInv
<1>7. /\ n \notin N /\ n # NULL /\ Numbered(N \cup {n}) /\ n[1] = k /\ n \in Labels
      /\ \A x \in N : x[1] = k => x[2] < n[2]
  BY <1>6, NumberedNew
<1>8. /\ (p = NULL /\ root = NULL) \/ (p \in N /\ child[s][p] = NULL)
      /\ Place(N, root, child, n, p, s)
  <2>1. CASE root = NULL
    <3>1. N = {}
      BY <1>1, <2>1, TreeIs DEF TreeInv
    <3>2. PICK sub : SubOf(N, root, child, sub)
      BY <1>1 DEF TreeInv, Tree, Sorted
    <3>3. Place(N, root, child, n, p, s)
      BY <1>7, <3>1, <3>2 DEF Place
    <3> QED
      BY <1>3, <2>1, <3>3 DEF LinkParent
  <2>2. CASE root # NULL
    <3>1. s = Side(cmp, k, p) /\ \A x \in Nodes : x[1] = k => x[2] < n[2]
      BY <1>1, <1>4, <1>7
    <3>2. p \in Nodes /\ child[s][p] = NULL /\ Place(Nodes, root, child, n, p, s)
      BY <1>3, <1>7, <2>2, <3>1, LinkParentIs DEF TreeInv
    <3> QED
      BY <1>1, <3>2
  <2> QED
    BY <2>1, <2>2
<1>9. /\ NULL \notin N /\ root \in N \cup {NULL} /\ DOMAIN child = Sides
      /\ \A q \in Sides : child[q] \in [N -> N \cup {NULL}]
      /\ parent \in [N -> N \cup {NULL}] /\ colour \in [N -> {Red, Black}]
      /\ N = DOMAIN parent
  BY <1>1 DEF TreeInv, Tree, Typed, Nodes
<1>10. /\ child' = [q \in Sides |-> Put(IF p # NULL /\ q = s THEN [child[q] EXCEPT ![p] = n]
                                        ELSE child[q], n, NULL)]
       /\ parent' = Put(parent, n, p) /\ colour' = Put(colour, n, Red)
       /\ root' = (IF p = NULL THEN n ELSE root) /\ node' = n
  BY <1>2, <1>3, <1>4 DEF RbTree_link_node
<1>11. /\ DOMAIN parent' = N \cup {n} /\ parent'[n] = p
       /\ \A x \in N : parent'[x] = parent[x]
       /\ parent' = [y \in N \cup {n} |-> parent'[y]]
  <2>1. PICK g : g = parent'
    OBVIOUS
  <2>2. PICK f : f = parent
    OBVIOUS
  <2>3. n \notin N /\ DOMAIN f = N /\ g = Put(f, n, p)
    BY <1>7, <1>9, <1>10, <2>1, <2>2
  <2>4. Extends(g, N, f, n, p)
    BY <2>3, PutIs
  <2> QED
    BY <2>1, <2>2, <2>4 DEF Extends
<1>12. /\ DOMAIN colour' = N \cup {n} /\ colour'[n] = Red
       /\ \A x \in N : colour'[x] = colour[x]
       /\ colour' = [y \in N \cup {n} |-> colour'[y]]
  <2>1. PICK g : g = colour'
    OBVIOUS
  <2>2. PICK f : f = colour
    OBVIOUS
  <2>3. n \notin N /\ DOMAIN f = N /\ g = Put(f, n, Red)
    BY <1>7, <1>9, <1>10, <2>1, <2>2
  <2>4. Extends(g, N, f, n, Red)
    BY <2>3, PutIs
  <2> QED
    BY <2>1, <2>2, <2>4 DEF Extends
<1>13. Nodes' = N \cup {n}
  BY <1>11 DEF Nodes
<1>14. ASSUME NEW q \in Sides
       PROVE  /\ child'[q] \in [N \cup {n} -> N \cup {n} \cup {NULL}] /\ child'[q][n] = NULL
              /\ \A x \in N : child'[q][x] = IF x = p /\ q = s THEN n ELSE child[q][x]
  <2>1. PICK f : f = IF p # NULL /\ q = s THEN [child[q] EXCEPT ![p] = n] ELSE child[q]
    OBVIOUS
  <2>2. child'[q] = Put(f, n, NULL)
    BY <1>10, <2>1
  <2>3. DOMAIN f = N /\ \A x \in N : f[x] = IF x = p /\ q = s THEN n ELSE child[q][x]
    BY <1>8, <1>9, <2>1
  <2>4. /\ DOMAIN child'[q] = N \cup {n} /\ child'[q][n] = NULL
        /\ \A x \in N : child'[q][x] = f[x]
        /\ child'[q] = [y \in N \cup {n} |-> child'[q][y]]
    <3>1. PICK g : g = child'[q]
      OBVIOUS
    <3>2. n \notin N /\ g = Put(f, n, NULL)
      BY <1>7, <2>2, <3>1
    <3>3. Extends(g, N, f, n, NULL)
      BY <2>3, <3>2, PutIs
    <3> QED
      BY <3>1, <3>3 DEF Extends
  <2>5. \A x \in N : child[q][x] \in N \cup {NULL}
    BY <1>9
  <2>6. \A y \in N \cup {n} : child'[q][y] \in N \cup {n} \cup {NULL}
    BY <2>3, <2>4, <2>5
  <2> QED
    BY <2>3, <2>4, <2>6
<1>15. Typed(N \cup {n}, root', child', parent')
  <2>1. child' \in [Sides -> [N \cup {n} -> N \cup {n} \cup {NULL}]]
    BY <1>10, <1>14
  <2>2. \A y \in N \cup {n} : parent'[y] \in N \cup {n} \cup {NULL}
    BY <1>8, <1>9, <1>11
  <2>3. parent' \in [N \cup {n} -> N \cup {n} \cup {NULL}]
    BY <1>11, <2>2
  <2> QED
    BY <1>7, <1>9, <1>10, <2>1, <2>3 DEF Typed
<1>16. Hung(N, root, child, parent, n, p, s, root', child', parent')
  BY <1>5, <1>7, <1>8, <1>10, <1>11, <1>14, <1>15 DEF Hung
<1>17. Tree(N \cup {n}, root', child', parent')
  BY <1>1, <1>16, HungTree DEF TreeInv
<1>18. OnlyNodeViolates'
  <2>1. ASSUME NEW x \in Nodes' \ {node'}, colour'[x] = Red
        PROVE  parent'[x] # NULL /\ colour'[parent'[x]] = Black
    <3>1. x \in N /\ colour[x] = Red
      BY <1>10, <1>12, <1>13, <2>1
    <3>2. parent[x] # NULL /\ parent[x] \in N /\ colour[parent[x]] = Black
      BY <1>1, <1>9, <3>1, TreeInvParts
    <3> QED
      BY <1>11, <1>12, <3>1, <3>2
  <2> QED
    BY <1>10, <1>12, <2>1 DEF OnlyNodeViolates
<1>19. colour' \in [Nodes' -> {Red, Black}]
  <2>1. \A y \in N \cup {n} : colour'[y] \in {Red, Black}
    BY <1>9, <1>12
  <2> QED
    BY <1>12, <1>13, <2>1
<1> QED
  BY <1>7, <1>10, <1>13, <1>17, <1>18, <1>19 DEF TreeInv

LEMMA SetIs ==
  ASSUME NEW N, NEW T, NEW f \in [N -> T], NEW n \in N, NEW v \in T
  PROVE  /\ [f EXCEPT ![n] = v] \in [N -> T]
         /\ \A x \in N : [f EXCEPT ![n] = v][x] = IF x = n THEN v ELSE f[x]
OBVIOUS

LEMMA InsertAtRootStep ==
  ASSUME TreeInv, InsertAtRoot
  PROVE  TreeInv'
<1>1. /\ node # NULL /\ node \in Nodes /\ parent[node] = NULL /\ node' = NULL
      /\ colour' = [colour EXCEPT ![node] = Black] /\ UNCHANGED <<root, child, parent>>
  BY DEF InsertAtRoot, TreeInv
<1>2. Nodes' = Nodes
  BY <1>1 DEF Nodes
<1>3. /\ colour' \in [Nodes -> {Red, Black}]
      /\ \A x \in Nodes : colour'[x] = IF x = node THEN Black ELSE colour[x]
  BY <1>1, SetIs DEF TreeInv
<1>4. Red # Black
  BY DEF Red, Black
<1>5. OnlyNodeViolates'
  <2>1. ASSUME NEW x \in Nodes, colour'[x] = Red
        PROVE  parent[x] # NULL /\ colour'[parent[x]] = Black
    <3>1. x # node /\ colour[x] = Red
      BY <1>3, <1>4, <2>1
    <3>2. parent[x] # NULL /\ parent[x] \in Nodes /\ colour[parent[x]] = Black
      BY <3>1, TreeInvParts
    <3> QED
      BY <1>3, <3>2
  <2> QED
    BY <1>1, <1>2, <2>1 DEF OnlyNodeViolates
<1> QED
  BY <1>1, <1>2, <1>3, <1>5 DEF TreeInv

LEMMA InsertBelowBlackStep ==
  ASSUME TreeInv, InsertBelowBlack
  PROVE  TreeInv'
<1>1. /\ node # NULL /\ parent[node] # NULL /\ colour[parent[node]] = Black /\ node' = NULL
      /\ UNCHANGED <<root, child, parent, colour>>
  BY DEF InsertBelowBlack
<1>2. Nodes' = Nodes
  BY <1>1 DEF Nodes
<1>3. OnlyNodeViolates'
  BY <1>1, <1>2, TreeInvParts DEF OnlyNodeViolates
<1> QED
  BY <1>1, <1>2, <1>3 DEF TreeInv

LEMMA EmptyTree ==
  ASSUME NEW ch
  PROVE  Numbered({}) /\ Sorted({}, NULL, ch)
<1>1. ASSUME NEW k \in Keys PROVE Same({}, k) = {<<k, j>> : j \in 1 .. Cardinality(Same({}, k))}
  <2>1. Same({}, k) = {}
    BY DEF Same
  <2>2. Cardinality(Same({}, k)) = 0
    BY <2>1, FS_EmptySet
  <2>3. 1 .. 0 = {}
    OBVIOUS
  <2>4. {<<k, j>> : j \in {}} = {}
    OBVIOUS
  <2> QED
    BY <2>1, <2>2, <2>3, <2>4
<1>2. Numbered({})
  BY <1>1, FS_EmptySet DEF Numbered
<1>3. PICK sub : sub = [x \in {} |-> {}]
  OBVIOUS
<1>4. SubOf({}, NULL, ch, sub)
  BY <1>3 DEF SubOf
<1> QED
  BY <1>2, <1>4 DEF Sorted

LEMMA DeinitStep ==
  ASSUME root' = NULL, node' = NULL, child' = [s \in Sides |-> Empty], parent' = Empty,
         colour' = Empty
  PROVE  TreeInv'
<1>1. Nodes' = {}
  BY DEF Nodes, Empty
<1>2. Typed({}, NULL, child', parent')
  BY DEF Typed, Empty
<1>3. Linked({}, NULL, child', parent')
  BY DEF Linked
<1>4. Ranked({}, child')
  <2>1. [x \in {} |-> 0] \in [{} -> 0 .. 0] /\ 0 \in Nat
    OBVIOUS
  <2>2. Falls({}, child', [x \in {} |-> 0])
    BY DEF Falls
  <2> QED
    BY <2>1, <2>2 DEF Ranked
<1>5. Numbered({}) /\ Sorted({}, NULL, child')
  BY EmptyTree
<1>6. OnlyNodeViolates'
  BY <1>1 DEF OnlyNodeViolates
<1>7. colour' \in [{} -> {Red, Black}]
  BY DEF Empty
<1> QED
  BY <1>1, <1>2, <1>3, <1>4, <1>5, <1>6, <1>7 DEF TreeInv, Tree

LEMMA InitInv ==
  ASSUME Init
  PROVE  TreeInv
<1>1. /\ root = NULL /\ node = NULL /\ child = [s \in Sides |-> Empty] /\ parent = Empty
      /\ colour = Empty
  BY DEF Init
<1>2. Nodes = {}
  BY <1>1 DEF Nodes, Empty
<1>3. Typed({}, NULL, child, parent)
  BY <1>1 DEF Typed, Empty
<1>4. Linked({}, NULL, child, parent)
  BY DEF Linked
<1>5. Ranked({}, child)
  <2>1. [x \in {} |-> 0] \in [{} -> 0 .. 0] /\ 0 \in Nat
    OBVIOUS
  <2>2. Falls({}, child, [x \in {} |-> 0])
    BY DEF Falls
  <2> QED
    BY <2>1, <2>2 DEF Ranked
<1>6. Numbered({}) /\ Sorted({}, NULL, child)
  BY EmptyTree
<1>7. OnlyNodeViolates
  BY <1>1, <1>2 DEF OnlyNodeViolates
<1>8. colour \in [{} -> {Red, Black}]
  BY <1>1 DEF Empty
<1> QED
  BY <1>1, <1>2, <1>3, <1>4, <1>5, <1>6, <1>7, <1>8 DEF TreeInv, Tree
-----------------------------------------------------------------------------
(* The node of the loop, its red parent and its black grandparent; near is the
   side of the parent below the grandparent, u the node on the other side. *)
Family(N, near, far, n, p0, gp, u) ==
  /\ N = Nodes /\ n = node /\ p0 = parent[n] /\ gp = parent[p0] /\ u = child[far][gp]
  /\ near \in Sides /\ far \in Sides /\ near # far /\ \A q \in Sides : q = near \/ q = far
  /\ NULL \notin N /\ n \in N /\ p0 \in N /\ gp \in N /\ u \in N \cup {NULL}
  /\ n # p0 /\ n # gp /\ p0 # gp /\ u # p0 /\ u # gp
  /\ child[near][gp] = p0
  /\ colour[n] = Red /\ colour[p0] = Red /\ colour[gp] = Black
  /\ \A x \in N : parent[x] = gp => x = p0 \/ x = u

LEMMA FamilyRanks ==
  ASSUME NEW N, NEW r, NEW ch, NEW pa, Tree(N, r, ch, pa), NEW n \in N, pa[n] # NULL
  PROVE  /\ pa[n] \in N /\ pa[n] # n
         /\ pa[pa[n]] # NULL => pa[pa[n]] \in N /\ pa[pa[n]] # n /\ pa[pa[n]] # pa[n]
<1>1. PICK top \in Nat : \E rk \in [N -> 0 .. top] : Falls(N, ch, rk)
  BY DEF Tree, Ranked
<1>2. PICK rk \in [N -> 0 .. top] : Falls(N, ch, rk)
  BY <1>1
<1>3. /\ \A m \in N : rk[m] \in Nat
      /\ \A m \in N : pa[m] # NULL => pa[m] \in N /\ rk[m] < rk[pa[m]] /\ pa[m] # m
  BY <1>2, ChildRanks
<1>4. PICK p : p = pa[n]
  OBVIOUS
<1>5. p \in N /\ rk[n] < rk[p] /\ p # n
  BY <1>3, <1>4
<1>6. ASSUME pa[p] # NULL PROVE pa[p] \in N /\ pa[p] # n /\ pa[p] # p
  <2>1. pa[p] \in N /\ rk[p] < rk[pa[p]] /\ pa[p] # p
    BY <1>3, <1>5, <1>6
  <2>2. rk[n] \in Nat /\ rk[p] \in Nat /\ rk[pa[p]] \in Nat
    BY <1>3, <1>5, <2>1
  <2> QED
    BY <1>5, <2>1, <2>2
<1> QED
  BY <1>4, <1>5, <1>6

LEMMA FamilyIs ==
  ASSUME TreeInv, BelowRed, NEW near, NEW far,
         ParentIsLeft => near = "left" /\ far = "right",
         ~ ParentIsLeft => near = "right" /\ far = "left"
  PROVE  \E N, n, p0, gp, u : Family(N, near, far, n, p0, gp, u) /\ gp = Grandparent /\ u = Uncle
<1>1. PICK N : N = Nodes
  OBVIOUS
<1>2. PICK n : n = node
  OBVIOUS
<1>3. PICK p0 : p0 = parent[n]
  OBVIOUS
<1>4. PICK gp : gp = parent[p0]
  OBVIOUS
<1>5. PICK u : u = child[far][gp]
  OBVIOUS
<1>6. near \in Sides /\ far \in Sides /\ near # far /\ \A q \in Sides : q = near \/ q = far
  BY DEF Sides
<1>7. NULL \notin N /\ n \in N /\ p0 # NULL /\ colour[n] = Red /\ colour[p0] = Red
  BY <1>1, <1>2, <1>3, TreeInvParts DEF BelowRed
<1>8. Tree(N, root, child, parent)
  BY <1>1 DEF TreeInv
<1>9. p0 \in N /\ p0 # n /\ (gp # NULL => gp \in N /\ gp # n /\ gp # p0)
  BY <1>3, <1>4, <1>7, <1>8, FamilyRanks
<1>10. gp # NULL /\ colour[gp] = Black
  BY <1>1, <1>2, <1>4, <1>7, <1>9, TreeInvParts
<1>11. gp = Grandparent /\ (ParentIsLeft <=> p0 # child["right"][gp])
  BY <1>2, <1>3, <1>4 DEF Grandparent, ParentIsLeft
<1>12. u = Uncle
  BY <1>5, <1>11 DEF Uncle
<1>13. /\ \A p \in N, q \in Sides : child[q][p] # NULL => parent[child[q][p]] = p
       /\ \A m \in N : parent[m] # NULL => \E q \in Sides : child[q][parent[m]] = m
       /\ \A p \in N, q, z \in Sides : child[q][p] # NULL /\ q # z => child[q][p] # child[z][p]
       /\ child \in [Sides -> [N -> N \cup {NULL}]]
  BY <1>8 DEF Tree, Linked, Typed
<1>14. child[near][gp] = p0
  <2>1. PICK q \in Sides : child[q][gp] = p0
    BY <1>4, <1>9, <1>10, <1>13
  <2>2. CASE ParentIsLeft
    BY <1>6, <1>11, <2>1, <2>2
  <2>3. CASE ~ ParentIsLeft
    BY <1>6, <1>11, <2>3
  <2> QED
    BY <2>2, <2>3
<1>15. u \in N \cup {NULL} /\ u # p0
  BY <1>5, <1>6, <1>7, <1>9, <1>10, <1>13, <1>14
<1>16. u # gp
  <2>1. SUFFICES ASSUME u = gp PROVE FALSE
    OBVIOUS
  <2>2. child[far][gp] = gp /\ gp # NULL /\ gp \in N
    BY <1>5, <1>9, <1>10, <2>1
  <2>3. child[far][gp] # NULL => parent[child[far][gp]] = gp
    BY <1>6, <1>13, <2>2
  <2>4. parent[gp] = gp
    BY <2>2, <2>3
  <2>5. parent[gp] # gp
    BY <1>8, <2>2, <2>4, FamilyRanks
  <2> QED
    BY <2>4, <2>5
<1>17. \A x \in N : parent[x] = gp => x = p0 \/ x = u
  BY <1>5, <1>6, <1>10, <1>13, <1>14
<1>18. Family(N, near, far, n, p0, gp, u)
  BY <1>1, <1>2, <1>3, <1>4, <1>5, <1>6, <1>7, <1>9, <1>10, <1>14, <1>15, <1>16, <1>17 DEF Family
<1> QED
  BY <1>11, <1>12, <1>18

LEMMA RecolourStep ==
  ASSUME TreeInv, Recolour
  PROVE  TreeInv'
<1>1. BelowRed /\ UncleIsRed
  BY DEF Recolour
<1>2. \E near, far : /\ ParentIsLeft => near = "left" /\ far = "right"
                     /\ ~ ParentIsLeft => near = "right" /\ far = "left"
  <2>1. CASE ParentIsLeft
    BY <2>1
  <2>2. CASE ~ ParentIsLeft
    BY <2>2
  <2> QED
    BY <2>1, <2>2
<1>3. PICK near, far : /\ ParentIsLeft => near = "left" /\ far = "right"
                       /\ ~ ParentIsLeft => near = "right" /\ far = "left"
  BY <1>2
<1>4. PICK N, n, p0, gp, u :
        Family(N, near, far, n, p0, gp, u) /\ gp = Grandparent /\ u = Uncle
  BY <1>1, <1>3, FamilyIs
<1>5. /\ N = Nodes /\ n = node /\ p0 = parent[n] /\ gp = parent[p0]
      /\ NULL \notin N /\ n \in N /\ p0 \in N /\ gp \in N /\ u \in N \cup {NULL}
      /\ n # p0 /\ n # gp /\ p0 # gp /\ u # p0 /\ u # gp
      /\ colour[n] = Red /\ colour[p0] = Red /\ colour[gp] = Black
      /\ \A x \in N : parent[x] = gp => x = p0 \/ x = u
  BY <1>4 DEF Family
<1>6. u \in N
  BY <1>1, <1>4, <1>5 DEF UncleIsRed
<1>7. /\ colour' = [colour EXCEPT ![u] = Black, ![p0] = Black, ![gp] = Red]
      /\ node' = gp /\ UNCHANGED <<root, child, parent>>
  BY <1>4, <1>5 DEF Recolour
<1>8. Nodes' = N
  BY <1>5, <1>7 DEF Nodes
<1>9. Red # Black /\ colour \in [N -> {Red, Black}]
  BY <1>5 DEF Red, Black, TreeInv
<1>10. /\ colour' \in [N -> {Red, Black}]
       /\ \A x \in N : colour'[x] = IF x = gp THEN Red ELSE IF x = p0 \/ x = u THEN Black
                                    ELSE colour[x]
  BY <1>5, <1>6, <1>7, <1>9
<1>11. ASSUME NEW x \in N, x # gp, colour'[x] = Red
       PROVE  parent[x] # NULL /\ colour'[parent[x]] = Black
  <2>1. x # p0 /\ x # u /\ colour[x] = Red
    BY <1>9, <1>10, <1>11
  <2>2. CASE x = n
    BY <1>5, <1>10, <2>2
  <2>3. CASE x # n
    <3>1. parent[x] # NULL /\ parent[x] \in N /\ colour[parent[x]] = Black
      BY <1>5, <2>1, <2>3, TreeInvParts
    <3>2. parent[x] # gp
      BY <1>5, <2>1
    <3> QED
      BY <1>10, <3>1, <3>2
  <2> QED
    BY <2>2, <2>3
<1>12. OnlyNodeViolates'
  <2>1. colour'[node'] = Red
    BY <1>5, <1>7, <1>10
  <2>2. parent' = parent
    BY <1>7
  <2>3. \A x \in Nodes' \ {node'} : colour'[x] = Red => parent'[x] # NULL /\ colour'[parent'[x]] = Black
    BY <1>7, <1>8, <1>11, <2>2
  <2> QED
    BY <2>1, <2>3 DEF OnlyNodeViolates
<1> QED
  BY <1>5, <1>7, <1>8, <1>10, <1>12 DEF TreeInv
-----------------------------------------------------------------------------
(* The rotations.  What the assignments of the code do to the fields. *)
LinkSet(g, N, f, s, n, v) ==
  /\ g \in [Sides -> [N -> N \cup {NULL}]]
  /\ \A q \in Sides, x \in N : g[q][x] = IF q = s /\ x = n THEN v ELSE f[q][x]

FieldSet(g, N, T, f, n, v) ==
  /\ g \in [N -> T]
  /\ \A x \in N : g[x] = IF x = n THEN v ELSE f[x]

LEMMA LinkSetIs ==
  ASSUME NEW N, NEW f \in [Sides -> [N -> N \cup {NULL}]], NEW s \in Sides, NEW n \in N,
         NEW v \in N \cup {NULL}, NEW g, g = [f EXCEPT ![s][n] = v]
  PROVE  LinkSet(g, N, f, s, n, v)
<1>1. PICK h : h = [f[s] EXCEPT ![n] = v]
  OBVIOUS
<1>2. h \in [N -> N \cup {NULL}] /\ \A x \in N : h[x] = IF x = n THEN v ELSE f[s][x]
  BY <1>1
<1>3. g = [f EXCEPT ![s] = h]
  BY <1>1
<1> QED
  BY <1>2, <1>3 DEF LinkSet

LEMMA FieldSetIs ==
  ASSUME NEW N, NEW T, NEW f \in [N -> T], NEW n \in N, NEW v \in T, NEW g, g = [f EXCEPT ![n] = v]
  PROVE  FieldSet(g, N, T, f, n, v)
BY DEF FieldSet

LEMMA SetIfIs ==
  ASSUME NEW N, NULL \notin N, NEW T, NEW f \in [N -> T], NEW n \in N \cup {NULL}, NEW v \in T,
         NEW g, g = SetIf(f, n, v)
  PROVE  FieldSet(g, N, T, f, n, v)
<1>1. CASE n = NULL
  BY <1>1 DEF FieldSet, SetIf
<1>2. CASE n # NULL
  BY <1>2, FieldSetIs DEF SetIf
<1> QED
  BY <1>1, <1>2

(* The links and parents are set one by one; w is the side of y below up. *)
Moved(N, r, ch, pa, s, o, x, y, t, up, w, r2, ch2, pa2) ==
  /\ s \in Sides /\ o \in Sides /\ s # o /\ w \in Sides
  /\ x \in N /\ y \in N /\ ch[s][y] = x /\ t = ch[o][x] /\ up = pa[y]
  /\ up # NULL => ch[w][up] = y
  /\ r2 = IF up = NULL THEN x ELSE r
  /\ ch2 \in [Sides -> [N -> N \cup {NULL}]] /\ pa2 \in [N -> N \cup {NULL}]
  /\ \A q \in Sides, p \in N :
        ch2[q][p] = IF p = up /\ q = w THEN x ELSE IF p = x /\ q = o THEN y
                    ELSE IF p = y /\ q = s THEN t ELSE ch[q][p]
  /\ \A n \in N : pa2[n] = IF n = y THEN x ELSE IF n = x THEN up
                            ELSE IF n = t THEN y ELSE pa[n]

(* So a child is lifted. *)
LEMMA LiftedIs ==
  ASSUME NEW N, NEW r, NEW ch, NEW pa, Tree(N, r, ch, pa), NEW s, NEW o, NEW x, NEW y, NEW t,
         NEW up, NEW w, NEW r2, NEW ch2, NEW pa2,
         Moved(N, r, ch, pa, s, o, x, y, t, up, w, r2, ch2, pa2)
  PROVE  Lifted(N, r, ch, pa, s, o, x, y, t, up, r2, ch2, pa2)
<1>0. /\ s \in Sides /\ o \in Sides /\ s # o /\ w \in Sides
      /\ x \in N /\ y \in N /\ ch[s][y] = x /\ t = ch[o][x] /\ up = pa[y]
      /\ up # NULL => ch[w][up] = y
      /\ r2 = IF up = NULL THEN x ELSE r
      /\ ch2 \in [Sides -> [N -> N \cup {NULL}]] /\ pa2 \in [N -> N \cup {NULL}]
      /\ \A q \in Sides, p \in N :
            ch2[q][p] = IF p = up /\ q = w THEN x ELSE IF p = x /\ q = o THEN y
                        ELSE IF p = y /\ q = s THEN t ELSE ch[q][p]
      /\ \A n \in N : pa2[n] = IF n = y THEN x ELSE IF n = x THEN up
                                ELSE IF n = t THEN y ELSE pa[n]
  BY DEF Moved
<1>1. /\ \A p \in N, q \in Sides : ch[q][p] # NULL => pa[ch[q][p]] = p
      /\ \A p \in N, q, z \in Sides : ch[q][p] # NULL /\ q # z => ch[q][p] # ch[z][p]
      /\ \A n \in N : pa[n] = NULL <=> n = r
      /\ NULL \notin N /\ r \in N \cup {NULL} /\ ch \in [Sides -> [N -> N \cup {NULL}]]
      /\ pa \in [N -> N \cup {NULL}]
  BY DEF Tree, Linked, Typed
<1>2. pa[x] = y /\ x # NULL /\ y # NULL
  BY <1>0, <1>1
<1>3. y # x /\ up # y /\ up # x
  <2>1. pa[x] # x /\ (pa[y] # NULL => pa[y] # x /\ pa[y] # y)
    BY <1>0, <1>2, FamilyRanks
  <2> QED
    BY <1>0, <1>2, <2>1
<1>4. Typed(N, r2, ch2, pa2)
  BY <1>0, <1>1 DEF Typed
<1>5. ch2[s][y] = t /\ ch2[o][y] = ch[o][y] /\ ch2[o][x] = y /\ ch2[s][x] = ch[s][x]
  BY <1>0, <1>3
<1>6. ASSUME NEW p \in N \ {x, y}, NEW q \in Sides
      PROVE  ch2[q][p] = IF ch[q][p] = y THEN x ELSE ch[q][p]
  <2>1. CASE ch[q][p] = y
    <3>1. p = up
      BY <1>0, <1>1, <1>2, <2>1
    <3>2. q = w
      BY <1>0, <1>1, <1>2, <2>1, <3>1
    <3> QED
      BY <1>0, <2>1, <3>1, <3>2
  <2>2. CASE ch[q][p] # y
    <3>1. ~ (p = up /\ q = w)
      BY <1>0, <1>1, <2>2
    <3> QED
      BY <1>0, <2>2, <3>1
  <2> QED
    BY <1>0, <2>1, <2>2
<1>7. pa2[x] = up /\ pa2[y] = x /\ \A n \in N \ {x, y} : pa2[n] = IF n = t THEN y ELSE pa[n]
  BY <1>0, <1>3
<1> QED
  BY <1>0, <1>4, <1>5, <1>6, <1>7 DEF Lifted

(* What the last rotation leaves in the fields, ch1, pa1 and co1 being those
   before it. *)
Turned(N, near, far, ch1, pa1, co1, p, gp, t, up, w) ==
  /\ child' \in [Sides -> [N -> N \cup {NULL}]] /\ parent' \in [N -> N \cup {NULL}]
  /\ colour' \in [N -> {Red, Black}]
  /\ root' = IF up = NULL THEN p ELSE root
  /\ \A q \in Sides, x \in N :
        child'[q][x] = IF x = up /\ q = w THEN p ELSE IF x = p /\ q = far THEN gp
                       ELSE IF x = gp /\ q = near THEN t ELSE ch1[q][x]
  /\ \A x \in N : parent'[x] = IF x = gp THEN p ELSE IF x = p THEN up
                               ELSE IF x = t THEN gp ELSE pa1[x]
  /\ \A x \in N : colour'[x] = IF x = gp THEN Red ELSE IF x = p THEN co1[gp]
                               ELSE IF x = t THEN Black ELSE co1[x]

LEMMA TurnedIs ==
  ASSUME NEW N, NULL \notin N, NEW near \in Sides, NEW far \in Sides, near # far,
         NEW ch1 \in [Sides -> [N -> N \cup {NULL}]], NEW pa1 \in [N -> N \cup {NULL}],
         NEW co1 \in [N -> {Red, Black}], NEW p \in N, NEW gp \in N, p # gp,
         NEW t \in N \cup {NULL}, t # gp, t # p, NEW up, up = pa1[gp], up # gp, up # p,
         NEW w \in Sides, up # NULL => w = IF ch1["left"][up] = gp THEN "left" ELSE "right",
         RbTree_rotate_set_parents([ch1 EXCEPT ![near][gp] = t, ![far][p] = gp],
                                   SetIf(pa1, t, gp), SetIf(co1, t, Black), gp, p, Red)
  PROVE  Turned(N, near, far, ch1, pa1, co1, p, gp, t, up, w)
<1>1. PICK c1 : c1 = [ch1 EXCEPT ![near][gp] = t]
  OBVIOUS
<1>2. PICK c2 : c2 = [c1 EXCEPT ![far][p] = gp]
  OBVIOUS
<1>3. c2 = [ch1 EXCEPT ![near][gp] = t, ![far][p] = gp]
  BY <1>1, <1>2
<1>4. PICK par : par = SetIf(pa1, t, gp)
  OBVIOUS
<1>5. PICK col : col = SetIf(co1, t, Black)
  OBVIOUS
<1>6. RbTree_rotate_set_parents(c2, par, col, gp, p, Red)
  BY <1>3, <1>4, <1>5
<1>7. /\ parent' = [par EXCEPT ![p] = par[gp], ![gp] = p]
      /\ colour' = [col EXCEPT ![p] = col[gp], ![gp] = Red]
      /\ RbTree_change_child(c2, gp, p, par[gp])
  BY <1>6 DEF RbTree_rotate_set_parents
<1>8. LinkSet(c1, N, ch1, near, gp, t)
  BY <1>1, LinkSetIs
<1>9. LinkSet(c2, N, c1, far, p, gp)
  <2>1. c1 \in [Sides -> [N -> N \cup {NULL}]]
    BY <1>8 DEF LinkSet
  <2> QED
    BY <1>2, <2>1, LinkSetIs
<1>10. /\ c2 \in [Sides -> [N -> N \cup {NULL}]]
       /\ \A q \in Sides, x \in N : c2[q][x] = IF x = p /\ q = far THEN gp
                                    ELSE IF x = gp /\ q = near THEN t ELSE ch1[q][x]
  BY <1>8, <1>9 DEF LinkSet
<1>11. /\ par \in [N -> N \cup {NULL}] /\ \A x \in N : par[x] = IF x = t THEN gp ELSE pa1[x]
  <2>1. FieldSet(par, N, N \cup {NULL}, pa1, t, gp)
    BY <1>4, SetIfIs
  <2> QED
    BY <2>1 DEF FieldSet
<1>12. /\ col \in [N -> {Red, Black}] /\ \A x \in N : col[x] = IF x = t THEN Black ELSE co1[x]
  <2>1. Black \in {Red, Black}
    OBVIOUS
  <2>2. FieldSet(col, N, {Red, Black}, co1, t, Black)
    BY <1>5, <2>1, SetIfIs
  <2> QED
    BY <2>2 DEF FieldSet
<1>13. par[gp] = up /\ col[gp] = co1[gp] /\ up \in N \cup {NULL} /\ co1[gp] \in {Red, Black}
  BY <1>11, <1>12
<1>14. /\ parent' \in [N -> N \cup {NULL}]
       /\ \A x \in N : parent'[x] = IF x = gp THEN p ELSE IF x = p THEN up
                               ELSE IF x = t THEN gp ELSE pa1[x]
  BY <1>7, <1>11, <1>13
<1>15. /\ colour' \in [N -> {Red, Black}]
       /\ \A x \in N : colour'[x] = IF x = gp THEN Red ELSE IF x = p THEN co1[gp]
                               ELSE IF x = t THEN Black ELSE co1[x]
  BY <1>7, <1>12, <1>13
<1>16. /\ child' = IF up = NULL THEN c2
                   ELSE [c2 EXCEPT ![IF c2["left"][up] = gp THEN "left" ELSE "right"][up] = p]
       /\ root' = IF up = NULL THEN p ELSE root
  BY <1>7, <1>13 DEF RbTree_change_child
<1>17. /\ child' \in [Sides -> [N -> N \cup {NULL}]]
       /\ \A q \in Sides, x \in N :
            child'[q][x] = IF x = up /\ q = w THEN p ELSE IF x = p /\ q = far THEN gp
                           ELSE IF x = gp /\ q = near THEN t ELSE ch1[q][x]
  <2>1. CASE up = NULL
    BY <1>10, <1>16, <2>1
  <2>2. CASE up # NULL
    <3>1. up \in N
      BY <1>13, <2>2
    <3>2. c2["left"][up] = ch1["left"][up]
      BY <1>10, <3>1 DEF Sides
    <3>3. w = IF c2["left"][up] = gp THEN "left" ELSE "right"
      BY <2>2, <3>2
    <3>4. PICK c3 : c3 = [c2 EXCEPT ![w][up] = p]
      OBVIOUS
    <3>5. child' = c3
      BY <1>16, <2>2, <3>3, <3>4
    <3>6. LinkSet(c3, N, c2, w, up, p)
      BY <1>10, <3>1, <3>4, LinkSetIs
    <3> QED
      BY <1>10, <3>5, <3>6 DEF LinkSet
  <2> QED
    BY <2>1, <2>2
<1> QED
  BY <1>14, <1>15, <1>16, <1>17 DEF Turned

(* The side of a node below its parent, as RbTree_change_child finds it. *)
LEMMA SideBelow ==
  ASSUME NEW N, NEW r, NEW ch, NEW pa, Tree(N, r, ch, pa), NEW y \in N
  PROVE  \E w \in Sides : pa[y] # NULL => /\ ch[w][pa[y]] = y
                                          /\ w = IF ch["left"][pa[y]] = y THEN "left" ELSE "right"
<1>1. "left" \in Sides /\ "right" \in Sides /\ \A q \in Sides : q = "left" \/ q = "right"
  BY DEF Sides
<1>2. pa[y] # NULL => \E q \in Sides : ch[q][pa[y]] = y
  BY DEF Tree, Linked
<1>3. CASE ch["left"][pa[y]] = y
  BY <1>1, <1>3
<1>4. CASE ch["left"][pa[y]] # y
  BY <1>1, <1>2, <1>4
<1> QED
  BY <1>3, <1>4

LEMMA ThreeUp ==
  ASSUME NEW N, NEW r, NEW ch, NEW pa, Tree(N, r, ch, pa), NEW n \in N,
         pa[n] # NULL, pa[pa[n]] # NULL
  PROVE  pa[pa[pa[n]]] # n
<1>1. PICK top \in Nat : \E rk \in [N -> 0 .. top] : Falls(N, ch, rk)
  BY DEF Tree, Ranked
<1>2. PICK rk \in [N -> 0 .. top] : Falls(N, ch, rk)
  BY <1>1
<1>3. /\ \A m \in N : rk[m] \in Nat
      /\ \A m \in N : pa[m] # NULL => pa[m] \in N /\ rk[m] < rk[pa[m]]
  BY <1>2, ChildRanks
<1>4. NULL \notin N
  BY DEF Tree, Typed
<1>5. PICK p : p = pa[n]
  OBVIOUS
<1>6. PICK g : g = pa[p]
  OBVIOUS
<1>7. p \in N /\ rk[n] < rk[p] /\ g \in N /\ rk[p] < rk[g]
  BY <1>3, <1>5, <1>6
<1>8. pa[g] # NULL => rk[g] < rk[pa[g]]
  BY <1>3, <1>7
<1>9. rk[n] \in Nat /\ rk[p] \in Nat /\ rk[g] \in Nat
  BY <1>3, <1>7
<1>10. pa[g] # n
  <2>1. SUFFICES ASSUME pa[g] = n PROVE FALSE
    OBVIOUS
  <2>2. n # NULL
    BY <1>4
  <2> QED
    BY <1>7, <1>8, <1>9, <2>1, <2>2
<1> QED
  BY <1>5, <1>6, <1>10

LEMMA RotateEnds ==
  ASSUME TreeInv, NEW N, N = Nodes, Tree(N, root', child', parent'),
         colour' \in [N -> {Red, Black}], node' = NULL,
         \A x \in N : colour'[x] = Red => parent'[x] # NULL /\ colour'[parent'[x]] = Black
  PROVE  TreeInv'
<1>1. Nodes' = N
  BY DEF Tree, Typed, Nodes
<1>2. OnlyNodeViolates'
  BY <1>1 DEF OnlyNodeViolates
<1>3. Numbered(N)
  BY DEF TreeInv
<1> QED
  BY <1>1, <1>2, <1>3 DEF TreeInv

(* The last rotation lifts p above gp. *)
Turn(near, far, ch1, pa1, co1, p, gp, t) ==
  /\ RbTree_rotate_set_parents([ch1 EXCEPT ![near][gp] = t, ![far][p] = gp],
                               SetIf(pa1, t, gp), SetIf(co1, t, Black), gp, p, Red)
  /\ node' = NULL

(* Case 3 alone: the parent is rotated above the grandparent. *)
LEMMA OuterStep ==
  ASSUME TreeInv, NEW N, NEW near, NEW far, NEW n, NEW p0, NEW gp, NEW u,
         Family(N, near, far, n, p0, gp, u), u # NULL => colour[u] # Red,
         n # child[far][p0], NEW t, t = child[far][p0],
         NEW ch1, ch1 = child, NEW pa1, pa1 = parent, NEW co1, co1 = colour,
         Turn(near, far, ch1, pa1, co1, p0, gp, t)
  PROVE  TreeInv'
<1>1. /\ N = Nodes /\ n = node /\ p0 = parent[n] /\ gp = parent[p0] /\ u = child[far][gp]
      /\ near \in Sides /\ far \in Sides /\ near # far /\ \A q \in Sides : q = near \/ q = far
      /\ NULL \notin N /\ n \in N /\ p0 \in N /\ gp \in N /\ u \in N \cup {NULL}
      /\ n # p0 /\ n # gp /\ p0 # gp /\ u # p0 /\ u # gp
      /\ child[near][gp] = p0
      /\ colour[n] = Red /\ colour[p0] = Red /\ colour[gp] = Black
      /\ \A x \in N : parent[x] = gp => x = p0 \/ x = u
  BY DEF Family
<1>2. Tree(N, root, child, parent) /\ colour \in [N -> {Red, Black}]
  BY <1>1 DEF TreeInv
<1>3. child \in [Sides -> [N -> N \cup {NULL}]] /\ parent \in [N -> N \cup {NULL}]
  BY <1>2 DEF Tree, Typed
<1>4. t \in N \cup {NULL} /\ (t # NULL => parent[t] = p0)
  BY <1>1, <1>2, <1>3 DEF Tree, Linked
<1>5. t # gp
  BY <1>1, <1>2, LiftedRank
<1>6. t # p0
  BY <1>1, <1>4
<1>7. PICK up : up = parent[gp]
  OBVIOUS
<1>8. up # gp /\ up # p0
  <2>1. gp # NULL
    BY <1>1
  <2> QED
    BY <1>1, <1>2, <1>7, <2>1, FamilyRanks
<1>9. PICK w \in Sides : up # NULL => /\ child[w][up] = gp
                                      /\ w = IF child["left"][up] = gp THEN "left" ELSE "right"
  BY <1>1, <1>2, <1>7, SideBelow
<1>10. /\ RbTree_rotate_set_parents([ch1 EXCEPT ![near][gp] = t, ![far][p0] = gp],
                                    SetIf(pa1, t, gp), SetIf(co1, t, Black), gp, p0, Red)
       /\ node' = NULL
  BY DEF Turn
<1>11. Turned(N, near, far, ch1, pa1, co1, p0, gp, t, up, w)
  BY <1>1, <1>2, <1>3, <1>4, <1>5, <1>6, <1>7, <1>8, <1>9, <1>10, TurnedIs, ZenonT(40)
<1>12. /\ child' \in [Sides -> [N -> N \cup {NULL}]] /\ parent' \in [N -> N \cup {NULL}]
       /\ colour' \in [N -> {Red, Black}]
       /\ root' = IF up = NULL THEN p0 ELSE root
       /\ \A q \in Sides, x \in N :
             child'[q][x] = IF x = up /\ q = w THEN p0 ELSE IF x = p0 /\ q = far THEN gp
                            ELSE IF x = gp /\ q = near THEN t ELSE child[q][x]
       /\ \A x \in N : parent'[x] = IF x = gp THEN p0 ELSE IF x = p0 THEN up
                                    ELSE IF x = t THEN gp ELSE parent[x]
       /\ \A x \in N : colour'[x] = IF x = gp THEN Red ELSE IF x = p0 THEN colour[gp]
                                    ELSE IF x = t THEN Black ELSE colour[x]
  BY <1>11 DEF Turned
<1>13. Lifted(N, root, child, parent, near, far, p0, gp, t, up, root', child', parent')
  <2>1. Moved(N, root, child, parent, near, far, p0, gp, t, up, w, root', child', parent')
    BY <1>1, <1>7, <1>9, <1>12 DEF Moved
  <2> QED
    BY <1>2, <2>1, LiftedIs
<1>14. Tree(N, root', child', parent')
  BY <1>2, <1>13, LiftedTree
<1>15. Red # Black
  BY DEF Red, Black
<1>16. ASSUME NEW x \in N, colour'[x] = Red
       PROVE  parent'[x] # NULL /\ colour'[parent'[x]] = Black
  <2>1. CASE x = gp
    BY <1>1, <1>12, <2>1
  <2>2. CASE x = n
    <3>1. n # t
      OBVIOUS
    <3> QED
      BY <1>1, <1>12, <2>2, <3>1
  <2>3. CASE x # gp /\ x # n
    <3>1. x # p0 /\ x # t /\ colour[x] = Red
      BY <1>1, <1>12, <1>15, <1>16, <2>3
    <3>2. parent[x] # NULL /\ parent[x] \in N /\ colour[parent[x]] = Black
      BY <1>1, <2>3, <3>1, TreeInvParts
    <3>3. parent[x] # gp /\ parent[x] # p0
      BY <1>1, <1>15, <2>3, <3>1, <3>2
    <3>4. parent'[x] = parent[x]
      BY <1>12, <2>3, <3>1
    <3> QED
      BY <1>12, <3>2, <3>3, <3>4
  <2> QED
    BY <2>1, <2>2, <2>3
<1> QED
  BY <1>1, <1>10, <1>12, <1>14, <1>16, RotateEnds

(* What the first rotation of case 2 leaves in the fields. *)
Halfway(N, near, far, n, p0, t0, c2, ch1, pa1, co1) ==
  /\ t0 = child[near][n] /\ n = child[far][p0]
  /\ ch1 \in [Sides -> [N -> N \cup {NULL}]] /\ pa1 \in [N -> N \cup {NULL}]
  /\ co1 \in [N -> {Red, Black}]
  /\ \A q \in Sides, x \in N : ch1[q][x] = IF x = n /\ q = near THEN p0
                                ELSE IF x = p0 /\ q = far THEN t0 ELSE child[q][x]
  /\ \A x \in N : pa1[x] = IF x = p0 THEN n ELSE IF x = t0 THEN p0 ELSE parent[x]
  /\ \A x \in N : co1[x] = IF x = p0 THEN c2 ELSE IF x = t0 THEN Black ELSE colour[x]

HalfLinks(g, N, f, near, far, n, p0, t0) ==
  /\ g \in [Sides -> [N -> N \cup {NULL}]]
  /\ \A q \in Sides, x \in N : g[q][x] = IF x = n /\ q = near THEN p0
                               ELSE IF x = p0 /\ q = far THEN t0 ELSE f[q][x]
HalfField(g, N, T, f, t0, v, p0, v2) ==
  /\ g \in [N -> T]
  /\ \A x \in N : g[x] = IF x = p0 THEN v2 ELSE IF x = t0 THEN v ELSE f[x]

LEMMA HalfwayLinks ==
  ASSUME NEW N, NEW f \in [Sides -> [N -> N \cup {NULL}]], NEW far \in Sides, NEW near \in Sides,
         NEW n \in N, NEW p0 \in N, NEW t0 \in N \cup {NULL}, NEW g,
         g = [f EXCEPT ![far][p0] = t0, ![near][n] = p0]
  PROVE  HalfLinks(g, N, f, near, far, n, p0, t0)
<1>1. PICK c : c = [f EXCEPT ![far][p0] = t0]
  OBVIOUS
<1>2. g = [c EXCEPT ![near][n] = p0]
  BY <1>1
<1>3. LinkSet(c, N, f, far, p0, t0)
  BY <1>1, LinkSetIs
<1>4. c \in [Sides -> [N -> N \cup {NULL}]]
  BY <1>3 DEF LinkSet
<1>5. LinkSet(g, N, c, near, n, p0)
  BY <1>2, <1>4, LinkSetIs
<1> QED
  BY <1>3, <1>5 DEF LinkSet, HalfLinks

LEMMA HalfwayField ==
  ASSUME NEW N, NULL \notin N, NEW T, NEW f \in [N -> T], NEW t0 \in N \cup {NULL}, NEW v \in T,
         NEW p0 \in N, NEW v2 \in T, NEW g, g = [SetIf(f, t0, v) EXCEPT ![p0] = v2]
  PROVE  HalfField(g, N, T, f, t0, v, p0, v2)
<1>1. PICK c : c = SetIf(f, t0, v)
  OBVIOUS
<1>2. FieldSet(c, N, T, f, t0, v)
  BY <1>1, SetIfIs
<1>3. g = [c EXCEPT ![p0] = v2]
  BY <1>1
<1>4. c \in [N -> T]
  BY <1>2 DEF FieldSet
<1>5. FieldSet(g, N, T, c, p0, v2)
  BY <1>3, <1>4, FieldSetIs
<1> QED
  BY <1>2, <1>5 DEF FieldSet, HalfField

HalfSet(near, far, n, p0, t0, c2, ch1, pa1, co1) ==
  /\ ch1 = [child EXCEPT ![far][p0] = t0, ![near][n] = p0]
  /\ pa1 = [SetIf(parent, t0, p0) EXCEPT ![p0] = n]
  /\ co1 = [SetIf(colour, t0, Black) EXCEPT ![p0] = c2]

LEMMA HalfwayIs ==
  ASSUME TreeInv, NEW N, NEW near, NEW far, NEW n, NEW p0, NEW gp, NEW u,
         Family(N, near, far, n, p0, gp, u), n = child[far][p0], NEW c2 \in {Red, Black},
         NEW t0, t0 = child[near][n], NEW ch1, NEW pa1, NEW co1,
         HalfSet(near, far, n, p0, t0, c2, ch1, pa1, co1)
  PROVE  Halfway(N, near, far, n, p0, t0, c2, ch1, pa1, co1)
<1>1. /\ N = Nodes /\ near \in Sides /\ far \in Sides
      /\ NULL \notin N /\ n \in N /\ p0 \in N
  BY DEF Family
<1>2. Tree(N, root, child, parent) /\ colour \in [N -> {Red, Black}]
  BY <1>1 DEF TreeInv
<1>3. child \in [Sides -> [N -> N \cup {NULL}]] /\ parent \in [N -> N \cup {NULL}]
  BY <1>2 DEF Tree, Typed
<1>4. t0 \in N \cup {NULL}
  BY <1>1, <1>3
<1>5. PICK f : f = child
  OBVIOUS
<1>6. PICK g : g = parent
  OBVIOUS
<1>7. PICK h : h = colour
  OBVIOUS
<1>8. HalfLinks(ch1, N, f, near, far, n, p0, t0)
  <2>1. ch1 = [f EXCEPT ![far][p0] = t0, ![near][n] = p0]
    BY <1>5 DEF HalfSet
  <2>2. f \in [Sides -> [N -> N \cup {NULL}]]
    BY <1>3, <1>5
  <2> QED
    BY <1>1, <1>4, <2>1, <2>2, HalfwayLinks
<1>9. HalfField(pa1, N, N \cup {NULL}, g, t0, p0, p0, n)
  <2>1. pa1 = [SetIf(g, t0, p0) EXCEPT ![p0] = n]
    BY <1>6 DEF HalfSet
  <2>2. PICK T : T = N \cup {NULL}
    OBVIOUS
  <2>3. g \in [N -> T] /\ n \in T /\ p0 \in T
    BY <1>1, <1>3, <1>6, <2>2
  <2>4. HalfField(pa1, N, T, g, t0, p0, p0, n)
    BY <1>1, <1>4, <2>1, <2>3, HalfwayField
  <2> QED
    BY <2>2, <2>4
<1>10. HalfField(co1, N, {Red, Black}, h, t0, Black, p0, c2)
  <2>1. co1 = [SetIf(h, t0, Black) EXCEPT ![p0] = c2]
    BY <1>7 DEF HalfSet
  <2>2. PICK T : T = {Red, Black}
    OBVIOUS
  <2>3. h \in [N -> T] /\ Black \in T /\ c2 \in T
    BY <1>2, <1>7, <2>2
  <2>4. HalfField(co1, N, T, h, t0, Black, p0, c2)
    BY <1>1, <1>4, <2>1, <2>3, HalfwayField
  <2> QED
    BY <2>2, <2>4
<1> QED
  BY <1>5, <1>6, <1>7, <1>8, <1>9, <1>10 DEF Halfway, HalfLinks, HalfField

(* Cases 2 and 3: the node is rotated above its parent, then above its
   grandparent. *)
LEMMA InnerStep ==
  ASSUME TreeInv, NEW N, NEW near, NEW far, NEW n, NEW p0, NEW gp, NEW u,
         Family(N, near, far, n, p0, gp, u), u # NULL => colour[u] # Red,
         NEW c2 \in {Red, Black}, NEW t0, NEW ch1, NEW pa1, NEW co1,
         Halfway(N, near, far, n, p0, t0, c2, ch1, pa1, co1), NEW t, t = ch1[far][n],
         Turn(near, far, ch1, pa1, co1, n, gp, t)
  PROVE  TreeInv'
<1>1. /\ N = Nodes /\ n = node /\ p0 = parent[n] /\ gp = parent[p0] /\ u = child[far][gp]
      /\ near \in Sides /\ far \in Sides /\ near # far /\ \A q \in Sides : q = near \/ q = far
      /\ NULL \notin N /\ n \in N /\ p0 \in N /\ gp \in N /\ u \in N \cup {NULL}
      /\ n # p0 /\ n # gp /\ p0 # gp /\ u # p0 /\ u # gp
      /\ child[near][gp] = p0
      /\ colour[n] = Red /\ colour[p0] = Red /\ colour[gp] = Black
      /\ \A x \in N : parent[x] = gp => x = p0 \/ x = u
  BY DEF Family
<1>2. Tree(N, root, child, parent) /\ colour \in [N -> {Red, Black}]
  BY <1>1 DEF TreeInv
<1>3. child \in [Sides -> [N -> N \cup {NULL}]] /\ parent \in [N -> N \cup {NULL}]
  BY <1>2 DEF Tree, Typed
<1>4. /\ t0 = child[near][n] /\ n = child[far][p0] /\ t0 \in N \cup {NULL}
      /\ t0 # NULL => parent[t0] = n
  <2>1. t0 = child[near][n] /\ n = child[far][p0]
    BY DEF Halfway
  <2>2. t0 \in N \cup {NULL}
    <3>1. \A q \in Sides, x \in N : child[q][x] \in N \cup {NULL}
      BY <1>3
    <3>2. near \in Sides /\ n \in N
      BY <1>1
    <3> QED
      BY <2>1, <3>1, <3>2
  <2>3. \A p \in N, q \in Sides : child[q][p] # NULL => parent[child[q][p]] = p
    BY <1>2 DEF Tree, Linked
  <2>4. t0 # NULL => parent[t0] = n
    BY <1>1, <2>1, <2>3
  <2> QED
    BY <2>1, <2>2, <2>4
<1>5. PICK up : up = parent[gp]
  OBVIOUS
<1>6. up # gp /\ up # p0 /\ up # n
  <2>1. gp # NULL /\ p0 # NULL
    BY <1>1
  <2>2. up # gp /\ up # p0
    BY <1>1, <1>2, <1>5, <2>1, FamilyRanks
  <2>3. up # n
    BY <1>1, <1>2, <1>5, <2>1, ThreeUp
  <2> QED
    BY <2>2, <2>3
<1>7. t0 # n /\ t0 # gp /\ t0 # p0
  BY <1>1, <1>4, <1>5, <1>6, ZenonT(40)
<1>8. /\ ch1 \in [Sides -> [N -> N \cup {NULL}]] /\ pa1 \in [N -> N \cup {NULL}]
      /\ co1 \in [N -> {Red, Black}]
      /\ \A q \in Sides, x \in N : ch1[q][x] = IF x = n /\ q = near THEN p0
                                    ELSE IF x = p0 /\ q = far THEN t0 ELSE child[q][x]
      /\ \A x \in N : pa1[x] = IF x = p0 THEN n ELSE IF x = t0 THEN p0 ELSE parent[x]
      /\ \A x \in N : co1[x] = IF x = p0 THEN c2 ELSE IF x = t0 THEN Black ELSE colour[x]
  BY DEF Halfway
<1>9. t = child[far][n] /\ t \in N \cup {NULL} /\ (t # NULL => parent[t] = n)
  <2>1. t = child[far][n] /\ t \in N \cup {NULL}
    BY <1>1, <1>3, <1>8
  <2> QED
    BY <1>1, <1>2, <2>1 DEF Tree, Linked
<1>10. t # n /\ t # gp /\ t # p0
  BY <1>1, <1>5, <1>6, <1>9
<1>11. PICK w \in Sides : up # NULL => /\ child[w][up] = gp
                                       /\ w = IF child["left"][up] = gp THEN "left" ELSE "right"
  BY <1>1, <1>2, <1>5, SideBelow
<1>12. up \in N \cup {NULL} /\ (up # NULL => \A q \in Sides : ch1[q][up] = child[q][up])
  <2>1. up \in N \cup {NULL}
    BY <1>1, <1>3, <1>5
  <2> QED
    BY <1>6, <1>8, <2>1
<1>13. Turned(N, near, far, ch1, pa1, co1, n, gp, t, up, w)
  <2>1. up = pa1[gp]
    BY <1>1, <1>5, <1>7, <1>8
  <2>2. "left" \in Sides
    BY DEF Sides
  <2>3. up # NULL => w = IF ch1["left"][up] = gp THEN "left" ELSE "right"
    BY <1>11, <1>12, <2>2
  <2> QED
    BY <1>1, <1>6, <1>8, <1>9, <1>10, <2>1, <2>3, TurnedIs DEF Turn
<1>14. /\ child' \in [Sides -> [N -> N \cup {NULL}]] /\ parent' \in [N -> N \cup {NULL}]
       /\ colour' \in [N -> {Red, Black}]
       /\ root' = IF up = NULL THEN n ELSE root
       /\ \A q \in Sides, x \in N :
             child'[q][x] = IF x = up /\ q = w THEN n ELSE IF x = n /\ q = far THEN gp
                            ELSE IF x = gp /\ q = near THEN t ELSE ch1[q][x]
       /\ \A x \in N : parent'[x] = IF x = gp THEN n ELSE IF x = n THEN up
                                    ELSE IF x = t THEN gp ELSE pa1[x]
       /\ \A x \in N : colour'[x] = IF x = gp THEN Red ELSE IF x = n THEN co1[gp]
                                    ELSE IF x = t THEN Black ELSE co1[x]
  BY <1>13 DEF Turned
<1>15. PICK chm : chm = [q \in Sides |-> [x \in N |-> IF q = near /\ x = gp THEN n ELSE ch1[q][x]]]
  OBVIOUS
<1>16. PICK pam : pam = [x \in N |-> IF x = n THEN gp ELSE pa1[x]]
  OBVIOUS
<1>17. /\ chm \in [Sides -> [N -> N \cup {NULL}]]
       /\ \A q \in Sides, x \in N : chm[q][x] = IF q = near /\ x = gp THEN n ELSE ch1[q][x]
  BY <1>1, <1>8, <1>15
<1>18. pam \in [N -> N \cup {NULL}] /\ \A x \in N : pam[x] = IF x = n THEN gp ELSE pa1[x]
  BY <1>1, <1>8, <1>16
<1>19. Lifted(N, root, child, parent, far, near, n, p0, t0, gp, root, chm, pam)
  <2>1. gp # NULL /\ root = IF gp = NULL THEN n ELSE root
    BY <1>1
  <2>2. \A q \in Sides, x \in N :
          chm[q][x] = IF x = gp /\ q = near THEN n ELSE IF x = n /\ q = near THEN p0
                      ELSE IF x = p0 /\ q = far THEN t0 ELSE child[q][x]
    BY <1>8, <1>17
  <2>3. \A x \in N : pam[x] = IF x = p0 THEN n ELSE IF x = n THEN gp
                              ELSE IF x = t0 THEN p0 ELSE parent[x]
    BY <1>1, <1>8, <1>18
  <2>4. Moved(N, root, child, parent, far, near, n, p0, t0, gp, near, root, chm, pam)
    BY <1>1, <1>4, <1>17, <1>18, <2>1, <2>2, <2>3 DEF Moved
  <2> QED
    BY <1>2, <2>4, LiftedIs
<1>20. Tree(N, root, chm, pam)
  BY <1>2, <1>19, LiftedTree
<1>21. Lifted(N, root, chm, pam, near, far, n, gp, t, up, root', child', parent')
  <2>1. chm[near][gp] = n /\ t = chm[far][n] /\ up = pam[gp]
    BY <1>1, <1>7, <1>8, <1>5, <1>17, <1>18
  <2>2. up # NULL => chm[w][up] = gp
    BY <1>1, <1>6, <1>11, <1>12, <1>17
  <2>3. \A q \in Sides, x \in N :
          child'[q][x] = IF x = up /\ q = w THEN n ELSE IF x = n /\ q = far THEN gp
                         ELSE IF x = gp /\ q = near THEN t ELSE chm[q][x]
    BY <1>14, <1>17
  <2>4. \A x \in N : parent'[x] = IF x = gp THEN n ELSE IF x = n THEN up
                                  ELSE IF x = t THEN gp ELSE pam[x]
    BY <1>14, <1>18
  <2>5. Moved(N, root, chm, pam, near, far, n, gp, t, up, w, root', child', parent')
    BY <1>1, <1>14, <2>1, <2>2, <2>3, <2>4 DEF Moved
  <2> QED
    BY <1>20, <2>5, LiftedIs
<1>22. Tree(N, root', child', parent')
  BY <1>20, <1>21, LiftedTree
<1>23. Red # Black
  BY DEF Red, Black
<1>24. colour'[n] = Black /\ parent'[gp] = n /\ parent'[p0] = n
  BY <1>1, <1>7, <1>8, <1>10, <1>14
<1>25. ASSUME NEW x \in N, colour'[x] = Red
       PROVE  parent'[x] # NULL /\ colour'[parent'[x]] = Black
  <2>1. CASE x = gp \/ x = p0
    BY <1>1, <1>24, <2>1
  <2>2. CASE x # gp /\ x # p0
    <3>1. x # n /\ x # t /\ x # t0 /\ colour[x] = Red
      BY <1>8, <1>14, <1>23, <1>24, <1>25, <2>2
    <3>2. parent[x] # NULL /\ parent[x] \in N /\ colour[parent[x]] = Black
      BY <1>1, <3>1, TreeInvParts
    <3>3. parent[x] # gp /\ parent[x] # p0 /\ parent[x] # n
      BY <1>1, <1>23, <2>2, <3>1, <3>2
    <3>4. parent'[x] = parent[x]
      BY <1>8, <1>14, <2>2, <3>1
    <3> QED
      BY <1>8, <1>14, <3>2, <3>3, <3>4
  <2> QED
    BY <2>1, <2>2
<1> QED
  BY <1>1, <1>14, <1>22, <1>25, RotateEnds DEF Turn

LEMMA RotateStep ==
  ASSUME TreeInv, NEW N, NEW near, NEW far, NEW n, NEW p0, NEW gp, NEW u,
         Family(N, near, far, n, p0, gp, u), gp = Grandparent, u # NULL => colour[u] # Red,
         NEW c2 \in {Red, Black}, Rotate(near, far, c2)
  PROVE  TreeInv'
<1>1. n = node /\ p0 = parent[node]
  BY DEF Family
<1>2. CASE n # child[far][p0]
  <2>1. PICK t : t = child[far][p0]
    OBVIOUS
  <2>2. Turn(near, far, child, parent, colour, p0, gp, t)
    BY <1>1, <1>2, <2>1, Zenon DEF Rotate, Turn
  <2>3. PICK ch1 : ch1 = child
    OBVIOUS
  <2>4. PICK pa1 : pa1 = parent
    OBVIOUS
  <2>5. PICK co1 : co1 = colour
    OBVIOUS
  <2>6. Turn(near, far, ch1, pa1, co1, p0, gp, t)
    BY <2>2, <2>3, <2>4, <2>5
  <2> QED
    BY <1>2, <2>1, <2>3, <2>4, <2>5, <2>6, OuterStep
<1>3. CASE n = child[far][p0]
  <2>1. PICK t0 : t0 = child[near][n]
    OBVIOUS
  <2>2. PICK ch1 : ch1 = [child EXCEPT ![far][p0] = t0, ![near][n] = p0]
    OBVIOUS
  <2>3. PICK pa1 : pa1 = [SetIf(parent, t0, p0) EXCEPT ![p0] = n]
    OBVIOUS
  <2>4. PICK co1 : co1 = [SetIf(colour, t0, Black) EXCEPT ![p0] = c2]
    OBVIOUS
  <2>5. PICK t : t = ch1[far][n]
    OBVIOUS
  <2>6. Turn(near, far, ch1, pa1, co1, n, gp, t)
    BY <1>1, <1>3, <2>1, <2>2, <2>3, <2>4, <2>5, Zenon DEF Rotate, Turn
  <2>7. HalfSet(near, far, n, p0, t0, c2, ch1, pa1, co1)
    BY <2>2, <2>3, <2>4 DEF HalfSet
  <2>8. Halfway(N, near, far, n, p0, t0, c2, ch1, pa1, co1)
    BY <1>3, <2>1, <2>7, HalfwayIs
  <2> QED
    BY <2>5, <2>6, <2>8, InnerStep
<1> QED
  BY <1>2, <1>3

LEMMA RotateRightStep ==
  ASSUME TreeInv, RotateRight
  PROVE  TreeInv'
<1>1. BelowRed /\ ~ UncleIsRed /\ ParentIsLeft /\ Rotate("left", "right", Black)
  BY DEF RotateRight
<1>2. PICK N, n, p0, gp, u :
        Family(N, "left", "right", n, p0, gp, u) /\ gp = Grandparent /\ u = Uncle
  BY <1>1, FamilyIs
<1>3. u # NULL => colour[u] # Red
  BY <1>1, <1>2 DEF UncleIsRed
<1> QED
  BY <1>1, <1>2, <1>3, RotateStep

LEMMA RotateLeftStep ==
  ASSUME TreeInv, RotateLeft
  PROVE  TreeInv'
<1>1. BelowRed /\ ~ UncleIsRed /\ ~ ParentIsLeft /\ Rotate("right", "left", Red)
  BY DEF RotateLeft
<1>2. PICK N, n, p0, gp, u :
        Family(N, "right", "left", n, p0, gp, u) /\ gp = Grandparent /\ u = Uncle
  BY <1>1, FamilyIs
<1>3. u # NULL => colour[u] # Red
  BY <1>1, <1>2 DEF UncleIsRed
<1> QED
  BY <1>1, <1>2, <1>3, RotateStep

LEMMA NextInv ==
  ASSUME TreeInv, [Next]_vars
  PROVE  TreeInv'
<1>1. CASE UNCHANGED vars
  <2>1. /\ root' = root /\ child' = child /\ parent' = parent /\ colour' = colour
        /\ node' = node
    BY <1>1 DEF vars
  <2>2. Nodes' = Nodes
    BY <2>1 DEF Nodes
  <2>3. OnlyNodeViolates'
    BY <2>1, <2>2 DEF TreeInv, OnlyNodeViolates
  <2> QED
    BY <2>1, <2>2, <2>3 DEF TreeInv
<1>2. ASSUME NEW k \in Keys, RbTree_add(k) PROVE TreeInv'
  BY <1>2, LinkStep DEF RbTree_add
<1>3. ASSUME NEW k \in Keys, RbTree_find_or_add(k) PROVE TreeInv'
  <2>1. CASE UNCHANGED vars
    BY <1>1, <2>1
  <2>2. CASE RbTree_link_node(Counted, NewNode(k), LinkParent(Counted, k))
    BY <1>3, <2>2, LinkStep DEF RbTree_find_or_add
  <2> QED
    BY <1>3, <2>1, <2>2 DEF RbTree_find_or_add
<1>4. CASE Insert
  BY <1>4, InsertAtRootStep, InsertBelowBlackStep, RecolourStep, RotateRightStep, RotateLeftStep
     DEF Insert
<1>5. CASE RbTree_deinit
  BY <1>5, DeinitStep DEF RbTree_deinit
<1> QED
  BY <1>1, <1>2, <1>3, <1>4, <1>5 DEF Next
-----------------------------------------------------------------------------
(* Between any two steps of RbTree_add_, RbTree_find_or_add_ and the loop of
   RbTree_insert__, the nodes form one tree: every node hangs from the link its
   parent pointer names, below the root, and links lead to no cycle; what is
   below a link belongs on its side; equal elements are numbered as they came;
   and only the node of the loop may be red below a red node. *)
THEOREM TreeCorrect == Spec => []TreeInv
<1>1. Init => TreeInv
  BY InitInv
<1>2. TreeInv /\ [Next]_vars => TreeInv'
  BY NextInv
<1> QED
  BY <1>1, <1>2, PTL DEF Spec

LEMMA LinksAgreeIs ==
  ASSUME TreeInv
  PROVE  LinksAgree
<1>1. PICK N : N = Nodes
  OBVIOUS
<1>2. /\ NULL \notin N /\ root \in N \cup {NULL}
      /\ child \in [Sides -> [N -> N \cup {NULL}]] /\ parent \in [N -> N \cup {NULL}]
      /\ \A p \in N, s \in Sides : child[s][p] # NULL => parent[child[s][p]] = p
      /\ \A n \in N : parent[n] # NULL => \E s \in Sides : child[s][parent[n]] = n
      /\ \A p \in N, s, o \in Sides : child[s][p] # NULL /\ s # o => child[s][p] # child[o][p]
      /\ \A n \in N : parent[n] = NULL <=> n = root
      /\ root = NULL => N = {}
  BY <1>1 DEF TreeInv, Tree, Typed, Linked
<1>3. root = NULL <=> N = {}
  BY <1>2
<1>4. ASSUME NEW n \in N, NEW l \in LinksTo(n)
      PROVE  l[1] \in Sides /\ l[2] \in N /\ child[l[1]][l[2]] = n /\ l[2] = parent[n]
  <2>1. l \in Sides \X N /\ child[l[1]][l[2]] = n
    BY <1>1, <1>4 DEF LinksTo
  <2>2. l[1] \in Sides /\ l[2] \in N /\ n # NULL
    BY <1>2, <2>1
  <2> QED
    BY <1>2, <2>1, <2>2
<1>5. ASSUME NEW n \in N PROVE Cardinality(LinksTo(n)) = IF n = root THEN 0 ELSE 1
  <2>1. CASE n = root
    <3>1. parent[n] = NULL
      BY <1>2, <2>1
    <3>2. LinksTo(n) = {}
      BY <1>2, <1>4, <3>1
    <3> QED
      BY <2>1, <3>2, FS_EmptySet
  <2>2. CASE n # root
    <3>1. parent[n] # NULL /\ parent[n] \in N
      BY <1>2, <2>2
    <3>2. PICK s \in Sides : child[s][parent[n]] = n
      BY <1>2, <3>1
    <3>3. PICK l : l = <<s, parent[n]>>
      OBVIOUS
    <3>4. l \in LinksTo(n)
      BY <1>1, <3>1, <3>2, <3>3 DEF LinksTo
    <3>5. ASSUME NEW m \in LinksTo(n) PROVE m = l
      <4>1. m[1] \in Sides /\ m[2] = parent[n] /\ child[m[1]][m[2]] = n /\ m \in Sides \X N
        BY <1>1, <1>4 DEF LinksTo
      <4>2. n # NULL
        BY <1>2
      <4>3. m[1] = s
        BY <1>2, <3>1, <3>2, <4>1, <4>2
      <4>4. m = <<m[1], m[2]>>
        BY <4>1
      <4> QED
        BY <3>3, <4>1, <4>3, <4>4
    <3>6. LinksTo(n) = {l}
      BY <3>4, <3>5
    <3> QED
      BY <2>2, <3>6, FS_Singleton
  <2> QED
    BY <2>1, <2>2
<1> QED
  BY <1>1, <1>2, <1>3, <1>4, <1>5 DEF LinksAgree

(* Links agree in both directions at every step: the walks of RbTree_first,
   RbTreeNode_next and RbTreeNode_prev, which go down by links and up by parent
   pointers, are in the same tree, however many rotations RbTree_insert__ has
   made and whatever the keys. *)
THEOREM LinksStayInAgreement == Spec => []LinksAgree
<1>1. TreeInv => LinksAgree
  BY LinksAgreeIs
<1> QED
  BY <1>1, TreeCorrect, PTL

(* The loop invariant of RbTree_insert__, for trees of every size: `node is
   red', the only red node below a red one or at the root is the one the loop
   is at, so the grandparent that the code follows without a test exists, and
   no red node has a red child when a call returns. *)
THEOREM OnlyTheNodeOfTheLoopViolates == Spec => []OnlyNodeViolates
<1>1. TreeInv => OnlyNodeViolates
  BY DEF TreeInv
<1> QED
  BY <1>1, TreeCorrect, PTL
-----------------------------------------------------------------------------
(* The order in which the walks visit the nodes. *)
Opposite(s, o) == s \in Sides /\ o \in Sides /\ s # o

(* m is the last node of M towards side o. *)
Last(M, s, m) == m \in M /\ \A l \in M : l # m => Before(s, l, m)

(* m is next to n on side s; there is none if m is NULL. *)
Nearest(N, s, n, m) ==
  \/ m = NULL /\ \A l \in N : ~ Before(s, l, n)
  \/ m \in N /\ Before(s, m, n) /\ \A l \in N : Before(s, l, n) /\ l # m => Before(s, l, m)

LEMMA SubFacts ==
  ASSUME NEW N, NEW r, NEW ch, NEW pa, Tree(N, r, ch, pa), NEW sub, SubOf(N, r, ch, sub),
         NEW s, NEW o, Opposite(s, o), NEW n \in N
  PROVE  /\ n \in Labels /\ n \in sub[n] /\ sub[n] \subseteq N /\ sub[n] \subseteq Labels
         /\ sub[n] = {n} \cup Under(sub, ch[s][n]) \cup Under(sub, ch[o][n])
         /\ \A l \in Under(sub, ch[s][n]) : Before(s, l, n)
         /\ \A l \in Under(sub, ch[o][n]) : Before(o, l, n)
<1>1. N \subseteq Labels /\ s \in Sides /\ o \in Sides /\ s # o
  BY DEF SubOf, Opposite
<1>2. sub[n] \subseteq N /\ sub[n] = {n} \cup Under(sub, ch[s][n]) \cup Under(sub, ch[o][n])
  BY <1>1, UnderIs
<1>3. /\ \A l \in Under(sub, ch[s][n]) : Before(s, l, n)
      /\ \A l \in Under(sub, ch[o][n]) : Before(o, l, n)
  BY <1>1, UnderIs
<1> QED
  BY <1>1, <1>2, <1>3

(* The walk to the side o, as far as it goes: RbTree_first. *)
LEMMA LastIs ==
  ASSUME NEW N, NEW r, NEW ch, NEW pa, Tree(N, r, ch, pa), NEW sub, SubOf(N, r, ch, sub),
         NEW s, NEW o, Opposite(s, o),
         NEW w, \A m \in N : w[m] = IF ch[o][m] = NULL THEN m ELSE w[ch[o][m]]
  PROVE  \A m \in N : Last(sub[m], s, w[m])
<1> DEFINE T == {m \in N : Last(sub[m], s, w[m])}
<1>1. ASSUME NEW m \in N, \A q \in Sides : ch[q][m] # NULL => ch[q][m] \in T PROVE m \in T
  <2>1. /\ m \in Labels /\ m \in sub[m] /\ sub[m] \subseteq Labels
        /\ sub[m] = {m} \cup Under(sub, ch[s][m]) \cup Under(sub, ch[o][m])
        /\ \A l \in Under(sub, ch[s][m]) : Before(s, l, m)
        /\ \A l \in Under(sub, ch[o][m]) : Before(o, l, m)
    BY SubFacts
  <2>2. s \in Sides /\ o \in Sides /\ s # o
    BY DEF Opposite
  <2>3. CASE ch[o][m] = NULL
    <3>1. Under(sub, ch[o][m]) = {} /\ w[m] = m
      BY <2>3 DEF Under
    <3>2. \A l \in sub[m] : l # m => Before(s, l, m)
      BY <2>1, <3>1
    <3> QED
      BY <2>1, <3>1, <3>2 DEF Last
  <2>4. CASE ch[o][m] # NULL
    <3>1. PICK c : c = ch[o][m]
      OBVIOUS
    <3>2. Under(sub, ch[o][m]) = sub[c] /\ w[m] = w[c] /\ c \in T
      BY <1>1, <2>2, <2>4, <3>1 DEF Under
    <3>3. PICK x : x = w[c]
      OBVIOUS
    <3>4. x \in sub[c] /\ \A l \in sub[c] : l # x => Before(s, l, x)
      BY <3>2, <3>3 DEF Last
    <3>5. Before(s, m, x) /\ x \in Labels
      BY <2>1, <2>2, <3>2, <3>4, BeforeMirror
    <3>6. ASSUME NEW l \in sub[m], l # x PROVE Before(s, l, x)
      <4>1. CASE l \in sub[c]
        BY <3>4, <3>6, <4>1
      <4>2. CASE l = m
        BY <3>5, <4>2
      <4>3. CASE l \in Under(sub, ch[s][m])
        <5>1. Before(s, l, m) /\ l \in Labels
          BY <2>1, <4>3
        <5> QED
          BY <2>1, <2>2, <3>5, <5>1, BeforeTrans
      <4> QED
        BY <2>1, <3>2, <4>1, <4>2, <4>3
    <3>7. x \in sub[m]
      BY <2>1, <3>2, <3>4
    <3> QED
      BY <3>2, <3>3, <3>6, <3>7 DEF Last
  <2> QED
    BY <2>3, <2>4
<1> HIDE DEF T
<1>2. N \subseteq T
  BY <1>1, FromTheLeaves
<1> QED
  BY <1>2 DEF T

(* A node that is not below n is on one side of all that are. *)
Aside(sub, n, q, l) == \A x \in sub[n] : Before(q, l, x)

LEMMA BesideParent ==
  ASSUME NEW N, NEW r, NEW ch, NEW pa, Tree(N, r, ch, pa), NEW sub, SubOf(N, r, ch, sub),
         NEW s, NEW o, Opposite(s, o), NEW n \in N, NEW p \in N, ch[s][p] = n
  PROVE  /\ n \in sub[p] /\ sub[n] \subseteq sub[p]
         /\ Aside(sub, n, o, p)
         /\ \A l \in sub[p] : l \notin sub[n] => Aside(sub, n, o, l)
         /\ \A l \in sub[p] : l \notin sub[n] => l = p \/ Before(o, l, p)
<1>1. /\ p \in Labels /\ sub[p] \subseteq Labels
      /\ sub[p] = {p} \cup Under(sub, ch[s][p]) \cup Under(sub, ch[o][p])
      /\ \A l \in Under(sub, ch[s][p]) : Before(s, l, p)
      /\ \A l \in Under(sub, ch[o][p]) : Before(o, l, p)
  BY SubFacts
<1>2. s \in Sides /\ o \in Sides /\ s # o /\ n # NULL /\ n \in sub[n]
  BY SubFacts, TreeIs DEF Opposite
<1>3. Under(sub, ch[s][p]) = sub[n]
  BY <1>2 DEF Under
<1>4. \A x \in sub[n] : Before(o, p, x) /\ x \in Labels
  BY <1>1, <1>2, <1>3, BeforeMirror
<1>5. ASSUME NEW l \in Under(sub, ch[o][p]), NEW x \in sub[n] PROVE Before(o, l, x)
  <2>1. Before(o, l, p) /\ l \in Labels /\ x \in Labels /\ Before(o, p, x)
    BY <1>1, <1>4
  <2> QED
    BY <1>1, <1>2, <2>1, BeforeTrans
<1>6. \A l \in sub[p] : l \notin sub[n] => l = p \/ l \in Under(sub, ch[o][p])
  BY <1>1, <1>3
<1>7. Aside(sub, n, o, p) /\ \A l \in Under(sub, ch[o][p]) : Aside(sub, n, o, l)
  BY <1>4, <1>5 DEF Aside
<1> QED
  BY <1>1, <1>2, <1>3, <1>6, <1>7

LEMMA AsideIs ==
  ASSUME NEW N, NEW r, NEW ch, NEW pa, Tree(N, r, ch, pa), NEW sub, SubOf(N, r, ch, sub),
         NEW s, NEW o, Opposite(s, o), NEW l \in N
  PROVE  \A n \in N : l \notin sub[n] => Aside(sub, n, s, l) \/ Aside(sub, n, o, l)
<1> DEFINE T == {n \in N : l \notin sub[n] => Aside(sub, n, s, l) \/ Aside(sub, n, o, l)}
<1>1. ASSUME NEW n \in N, pa[n] # NULL => pa[n] \in T PROVE n \in T
  <2>1. CASE pa[n] = NULL
    <3>1. n = r /\ r # NULL
      BY <2>1, TreeIs
    <3>2. sub[n] = N
      BY <3>1 DEF SubOf
    <3> QED
      BY <3>2
  <2>2. CASE pa[n] # NULL
    <3>1. PICK p \in N : p = pa[n]
      BY <2>2, TreeIs
    <3>2. PICK q \in Sides : ch[q][p] = n
      BY <2>2, <3>1, TreeIs
    <3>3. PICK z \in {s, o} : z # q /\ Opposite(q, z) /\ q \in {s, o}
      BY TwoSides DEF Opposite
    <3>4. /\ sub[n] \subseteq sub[p]
          /\ \A m \in sub[p] : m \notin sub[n] => Aside(sub, n, z, m)
      BY <3>2, <3>3, BesideParent
    <3>5. p \in T
      BY <1>1, <2>2, <3>1
    <3>6. CASE l \in sub[p]
      BY <3>3, <3>4, <3>6
    <3>7. CASE l \notin sub[p]
      <4>1. Aside(sub, p, s, l) \/ Aside(sub, p, o, l)
        BY <3>5, <3>7
      <4> QED
        BY <3>4, <4>1 DEF Aside
    <3> QED
      BY <3>6, <3>7
  <2> QED
    BY <2>1, <2>2
<1> HIDE DEF T
<1>2. N \subseteq T
  BY <1>1, FromTheRoot
<1> QED
  BY <1>2 DEF T

(* a is the first node on side s of all that are below m. *)
Above(N, sub, s, o, m, a) ==
  \/ a = NULL /\ \A l \in N : l \notin sub[m] => Aside(sub, m, o, l)
  \/ /\ a \in N /\ Aside(sub, m, s, a)
     /\ \A l \in N : l \notin sub[m] /\ l # a => Before(s, l, a) \/ Aside(sub, m, o, l)

(* The climb out of the side s: RbTreeNode_next and RbTreeNode_prev. *)
LEMMA AboveIs ==
  ASSUME NEW N, NEW r, NEW ch, NEW pa, Tree(N, r, ch, pa), NEW sub, SubOf(N, r, ch, sub),
         NEW s, NEW o, Opposite(s, o),
         NEW g, \A m \in N : g[m] = IF pa[m] # NULL /\ m = ch[s][pa[m]] THEN g[pa[m]] ELSE pa[m]
  PROVE  \A m \in N : Above(N, sub, s, o, m, g[m])
<1> DEFINE T == {m \in N : Above(N, sub, s, o, m, g[m])}
<1>1. ASSUME NEW m \in N, pa[m] # NULL => pa[m] \in T PROVE m \in T
  <2>1. CASE pa[m] = NULL
    <3>1. m = r /\ r # NULL /\ g[m] = NULL
      BY <2>1, TreeIs
    <3>2. sub[m] = N
      BY <3>1 DEF SubOf
    <3> QED
      BY <3>1, <3>2 DEF Above
  <2>2. CASE pa[m] # NULL /\ m = ch[s][pa[m]]
    <3>1. PICK p \in N : p = pa[m]
      BY <2>2, TreeIs
    <3>2. PICK a : a = g[p]
      OBVIOUS
    <3>3. g[m] = a /\ Above(N, sub, s, o, p, a)
      BY <1>1, <2>2, <3>1, <3>2
    <3>4. /\ sub[m] \subseteq sub[p]
          /\ \A l \in sub[p] : l \notin sub[m] => Aside(sub, m, o, l)
      BY <2>2, <3>1, BesideParent
    <3>5. \A q, l : Aside(sub, p, q, l) => Aside(sub, m, q, l)
      BY <3>4 DEF Aside
    <3>6. CASE a = NULL /\ \A l \in N : l \notin sub[p] => Aside(sub, p, o, l)
      <4>1. \A l \in N : l \notin sub[m] => Aside(sub, m, o, l)
        BY <3>4, <3>5, <3>6
      <4> QED
        BY <3>3, <3>6, <4>1 DEF Above
    <3>7. CASE /\ a \in N /\ Aside(sub, p, s, a)
               /\ \A l \in N : l \notin sub[p] /\ l # a => Before(s, l, a) \/ Aside(sub, p, o, l)
      <4>1. \A l \in N : l \notin sub[m] /\ l # a => Before(s, l, a) \/ Aside(sub, m, o, l)
        BY <3>4, <3>5, <3>7
      <4>2. Aside(sub, m, s, a) /\ a \in N
        BY <3>5, <3>7
      <4> QED
        BY <3>3, <4>1, <4>2 DEF Above
    <3> QED
      BY <3>3, <3>6, <3>7 DEF Above
  <2>3. CASE pa[m] # NULL /\ m # ch[s][pa[m]]
    <3>1. PICK p \in N : p = pa[m]
      BY <2>3, TreeIs
    <3>2. s \in Sides /\ o \in Sides /\ s # o /\ Opposite(o, s)
      BY DEF Opposite
    <3>3. ch[o][p] = m /\ g[m] = p
      <4>1. PICK q \in Sides : ch[q][p] = m
        BY <2>3, <3>1, TreeIs
      <4>2. q = o
        BY <2>3, <3>1, <3>2, <4>1, TwoSides
      <4> QED
        BY <2>3, <3>1, <4>1, <4>2
    <3>4. /\ sub[m] \subseteq sub[p] /\ Aside(sub, m, s, p)
          /\ \A l \in sub[p] : l \notin sub[m] => l = p \/ Before(s, l, p)
      BY <3>2, <3>3, BesideParent
    <3>5. p \in sub[p]
      BY SubFacts
    <3>6. ASSUME NEW l \in N, l \notin sub[m], l # p PROVE Before(s, l, p) \/ Aside(sub, m, o, l)
      <4>1. CASE l \in sub[p]
        BY <3>4, <3>6, <4>1
      <4>2. CASE l \notin sub[p]
        <5>1. Aside(sub, p, s, l) \/ Aside(sub, p, o, l)
          BY <4>2, AsideIs
        <5> QED
          BY <3>4, <3>5, <5>1 DEF Aside
      <4> QED
        BY <4>1, <4>2
    <3> QED
      BY <3>3, <3>4, <3>6 DEF Above
  <2> QED
    BY <2>1, <2>2, <2>3
<1> HIDE DEF T
<1>2. N \subseteq T
  BY <1>1, FromTheRoot
<1> QED
  BY <1>2 DEF T

(* A step to the side s: to the last node towards o below that link, or up. *)
LEMMA NearestBelow ==
  ASSUME NEW N, NEW r, NEW ch, NEW pa, Tree(N, r, ch, pa), NEW sub, SubOf(N, r, ch, sub),
         NEW s, NEW o, Opposite(s, o), NEW n \in N, NEW c, c = ch[s][n], c # NULL,
         NEW m, Last(sub[c], s, m)
  PROVE  Nearest(N, s, n, m)
<1>1. /\ n \in Labels /\ n \in sub[n] /\ sub[n] \subseteq N /\ sub[n] \subseteq Labels
      /\ sub[n] = {n} \cup Under(sub, ch[s][n]) \cup Under(sub, ch[o][n])
      /\ \A l \in Under(sub, ch[s][n]) : Before(s, l, n)
      /\ \A l \in Under(sub, ch[o][n]) : Before(o, l, n)
  BY SubFacts
<1>2. Under(sub, ch[s][n]) = sub[c] /\ s \in Sides /\ o \in Sides /\ s # o
  BY DEF Under, Opposite
<1>3. m \in sub[c] /\ \A l \in sub[c] : l # m => Before(s, l, m)
  BY DEF Last
<1>4. m \in N /\ m \in sub[n] /\ Before(s, m, n)
  BY <1>1, <1>2, <1>3
<1>5. ASSUME NEW l \in N, Before(s, l, n), l # m PROVE Before(s, l, m)
  <2>0. l \in Labels
    BY DEF SubOf
  <2>1. CASE l \in sub[n]
    <3>1. l # n
      BY <1>1, <1>2, <1>5, BeforeIrr
    <3>2. l \notin Under(sub, ch[o][n])
      BY <1>1, <1>2, <1>5, <2>0, BeforeOneSide
    <3> QED
      BY <1>1, <1>2, <1>3, <1>5, <2>1, <3>1, <3>2
  <2>2. CASE l \notin sub[n]
    <3>1. Aside(sub, n, s, l) \/ Aside(sub, n, o, l)
      BY <2>2, AsideIs
    <3>2. ~ Before(o, l, n)
      BY <1>1, <1>2, <1>5, <2>0, BeforeOneSide
    <3> QED
      BY <1>1, <1>4, <3>1, <3>2 DEF Aside
  <2> QED
    BY <2>1, <2>2
<1> QED
  BY <1>4, <1>5 DEF Nearest

LEMMA NearestAbove ==
  ASSUME NEW N, NEW r, NEW ch, NEW pa, Tree(N, r, ch, pa), NEW sub, SubOf(N, r, ch, sub),
         NEW s, NEW o, Opposite(s, o), NEW n \in N, ch[s][n] = NULL,
         NEW m, Above(N, sub, s, o, n, m)
  PROVE  Nearest(N, s, n, m)
<1>1. /\ n \in Labels /\ n \in sub[n] /\ sub[n] \subseteq N /\ sub[n] \subseteq Labels
      /\ sub[n] = {n} \cup Under(sub, ch[s][n]) \cup Under(sub, ch[o][n])
      /\ \A l \in Under(sub, ch[o][n]) : Before(o, l, n)
  BY SubFacts
<1>2. Under(sub, ch[s][n]) = {} /\ s \in Sides /\ o \in Sides /\ s # o
  BY DEF Under, Opposite
<1>3. ASSUME NEW l \in N, Before(s, l, n) PROVE l \notin sub[n] /\ ~ Before(o, l, n)
  <2>1. l \in Labels
    BY DEF SubOf
  <2>2. l # n
    BY <1>1, <1>2, <1>3, BeforeIrr
  <2>3. ~ Before(o, l, n)
    BY <1>1, <1>2, <1>3, <2>1, BeforeOneSide
  <2> QED
    BY <1>1, <1>2, <2>2, <2>3
<1>4. \A l : Aside(sub, n, o, l) => Before(o, l, n)
  BY <1>1 DEF Aside
<1>5. CASE m = NULL /\ \A l \in N : l \notin sub[n] => Aside(sub, n, o, l)
  <2>1. \A l \in N : ~ Before(s, l, n)
    BY <1>3, <1>4, <1>5
  <2> QED
    BY <1>5, <2>1 DEF Nearest
<1>6. CASE /\ m \in N /\ Aside(sub, n, s, m)
           /\ \A l \in N : l \notin sub[n] /\ l # m => Before(s, l, m) \/ Aside(sub, n, o, l)
  <2>1. Before(s, m, n)
    BY <1>1, <1>6 DEF Aside
  <2>2. \A l \in N : Before(s, l, n) /\ l # m => Before(s, l, m)
    BY <1>3, <1>4, <1>6
  <2> QED
    BY <1>6, <2>1, <2>2 DEF Nearest
<1> QED
  BY <1>5, <1>6 DEF Above

LEMMA NearestUnique ==
  ASSUME NEW N, N \subseteq Labels, NULL \notin N, NEW s \in Sides, NEW n \in N,
         NEW l, Nearest(N, s, n, l), NEW m, Nearest(N, s, n, m)
  PROVE  l = m
<1>1. CASE l = NULL \/ m = NULL
  BY <1>1 DEF Nearest
<1>2. CASE l # NULL /\ m # NULL
  <2>1. SUFFICES ASSUME l # m PROVE FALSE
    OBVIOUS
  <2>2. l \in N /\ m \in N /\ Before(s, l, m) /\ Before(s, m, l)
    BY <1>2, <2>1 DEF Nearest
  <2> QED
    BY <2>2, BeforeAsym
<1> QED
  BY <1>1, <1>2

LEMMA NearestBack ==
  ASSUME NEW N, N \subseteq Labels, NEW s, NEW o, Opposite(s, o), NEW n \in N,
         NEW m \in N, NULL \notin N, Nearest(N, s, n, m)
  PROVE  Nearest(N, o, m, n)
<1>1. s \in Sides /\ o \in Sides /\ s # o
  BY DEF Opposite
<1>2. Before(s, m, n) /\ \A l \in N : Before(s, l, n) /\ l # m => Before(s, l, m)
  BY DEF Nearest
<1>3. Before(o, n, m)
  BY <1>1, <1>2, BeforeMirror
<1>4. ASSUME NEW l \in N, Before(o, l, m), l # n PROVE Before(o, l, n)
  <2>1. Before(s, m, l)
    BY <1>1, <1>4, BeforeMirror
  <2>2. ~ Before(s, l, m) /\ l # m
    BY <1>1, <2>1, BeforeAsym, BeforeIrr
  <2>3. ~ Before(s, l, n)
    BY <1>2, <2>2
  <2>4. Before(s, n, l)
    BY <1>1, <1>4, <2>3, BeforeTotal
  <2> QED
    BY <1>1, <2>4, BeforeMirror
<1> QED
  BY <1>3, <1>4 DEF Nearest
-----------------------------------------------------------------------------
(* The walks of the iteration, as the code makes them. *)
MostWalk(N, ch, o, f) == f = [m \in N |-> IF ch[o][m] = NULL THEN m ELSE f[ch[o][m]]]
ClimbWalk(N, ch, pa, s, f) ==
  f = [m \in N |-> IF pa[m] # NULL /\ m = ch[s][pa[m]] THEN f[pa[m]] ELSE pa[m]]

LEMMA MostWalkIs ==
  ASSUME NEW N, NEW r, NEW ch, NEW pa, Tree(N, r, ch, pa), NEW o \in Sides,
         NEW w, w = CHOOSE f : MostWalk(N, ch, o, f)
  PROVE  \A m \in N : w[m] = IF ch[o][m] = NULL THEN m ELSE w[ch[o][m]]
<1>1. PICK d : d = [m \in N |-> ch[o][m]]
  OBVIOUS
<1>2. PICK S : S = {m \in N : d[m] = NULL}
  OBVIOUS
<1>3. PICK v : v = [m \in N |-> m]
  OBVIOUS
<1>4. ASSUME NEW m \in N \ S PROVE m \in N /\ d[m] \in N /\ \E q \in Sides : d[m] = ch[q][m]
  <2>1. d[m] # NULL /\ d[m] = ch[o][m]
    BY <1>1, <1>2
  <2> QED
    BY <2>1, TreeIs
<1>5. Down(N, ch, N, S, d)
  BY <1>4 DEF Down
<1>6. PICK f : Runs(N, S, {}, v, d, f)
  BY <1>5, RunsDown
<1>7. ASSUME NEW m \in N
      PROVE  Result(N, S, {}, v, d, f, m) = IF ch[o][m] = NULL THEN m ELSE f[ch[o][m]]
  BY <1>1, <1>2, <1>3 DEF Result
<1>8. MostWalk(N, ch, o, f)
  BY <1>6, <1>7 DEF MostWalk, Runs
<1>9. MostWalk(N, ch, o, w)
  BY <1>8, Zenon
<1> QED
  BY <1>9 DEF MostWalk

LEMMA ClimbWalkIs ==
  ASSUME NEW N, NEW r, NEW ch, NEW pa, Tree(N, r, ch, pa), NEW s \in Sides,
         NEW w, w = CHOOSE f : ClimbWalk(N, ch, pa, s, f)
  PROVE  \A m \in N : w[m] = IF pa[m] # NULL /\ m = ch[s][pa[m]] THEN w[pa[m]] ELSE pa[m]
<1>1. PICK d : d = pa
  OBVIOUS
<1>2. PICK S : S = {m \in N : ~ (pa[m] # NULL /\ m = ch[s][pa[m]])}
  OBVIOUS
<1>3. \A m \in N \ S : d[m] = pa[m] /\ pa[m] # NULL
  BY <1>1, <1>2
<1>4. PICK f : Runs(N, S, {}, pa, d, f)
  BY <1>3, RunsUp
<1>5. ASSUME NEW m \in N
      PROVE  Result(N, S, {}, pa, d, f, m) = IF pa[m] # NULL /\ m = ch[s][pa[m]] THEN f[pa[m]] ELSE pa[m]
  BY <1>1, <1>2 DEF Result
<1>6. ClimbWalk(N, ch, pa, s, f)
  BY <1>4, <1>5 DEF ClimbWalk, Runs
<1>7. ClimbWalk(N, ch, pa, s, w)
  BY <1>6, Zenon
<1> QED
  BY <1>7 DEF ClimbWalk

LEMMA StepNearest ==
  ASSUME NEW N, NEW r, NEW ch, NEW pa, Tree(N, r, ch, pa), NEW s, NEW o, Opposite(s, o), NEW n \in N,
         NEW w, w = CHOOSE f : MostWalk(N, ch, o, f),
         NEW g, g = CHOOSE f : ClimbWalk(N, ch, pa, s, f),
         NEW m, m = IF ch[s][n] # NULL THEN w[ch[s][n]] ELSE g[n]
  PROVE  Nearest(N, s, n, m)
<1>1. PICK sub : SubOf(N, r, ch, sub)
  BY DEF Tree, Sorted
<1>2. s \in Sides /\ o \in Sides
  BY DEF Opposite
<1>3. CASE ch[s][n] # NULL
  <2>1. \A x \in N : w[x] = IF ch[o][x] = NULL THEN x ELSE w[ch[o][x]]
    BY <1>2, MostWalkIs
  <2>2. PICK c : c = ch[s][n]
    OBVIOUS
  <2>3. c \in N /\ c # NULL
    BY <1>2, <1>3, <2>2, TreeIs
  <2>4. Last(sub[c], s, m)
    BY <1>1, <1>3, <2>1, <2>2, <2>3, LastIs
  <2> QED
    BY <1>1, <2>2, <2>3, <2>4, NearestBelow
<1>4. CASE ch[s][n] = NULL
  <2>1. \A x \in N : g[x] = IF pa[x] # NULL /\ x = ch[s][pa[x]] THEN g[pa[x]] ELSE pa[x]
    BY <1>2, ClimbWalkIs
  <2>2. Above(N, sub, s, o, n, m)
    BY <1>1, <1>4, <2>1, AboveIs
  <2> QED
    BY <1>1, <1>4, <2>2, NearestAbove
<1> QED
  BY <1>3, <1>4

LEMMA LeftmostIs ==
  ASSUME NEW w, w = CHOOSE f : MostWalk(Nodes, child, "left", f), NEW n
  PROVE  Leftmost(n) = w[n]
BY Zenon DEF Leftmost, MostWalk

LEMMA FirstIs ==
  ASSUME Tree(Nodes, root, child, parent), root # NULL
  PROVE  Last(Nodes, "right", RbTree_first)
<1>1. PICK N, r, ch, pa : N = Nodes /\ r = root /\ ch = child /\ pa = parent
  OBVIOUS
<1>2. Tree(N, r, ch, pa) /\ r # NULL /\ r \in N
  BY <1>1, TreeIs
<1>3. PICK sub : SubOf(N, r, ch, sub)
  BY <1>2 DEF Tree, Sorted
<1>4. Opposite("right", "left") /\ "left" \in Sides
  BY DEF Opposite, Sides
<1>5. PICK w : w = CHOOSE f : MostWalk(N, ch, "left", f)
  OBVIOUS
<1>6. RbTree_first = w[r]
  BY <1>1, <1>2, <1>5, LeftmostIs DEF RbTree_first
<1>7. \A x \in N : w[x] = IF ch["left"][x] = NULL THEN x ELSE w[ch["left"][x]]
  BY <1>2, <1>4, <1>5, MostWalkIs
<1>8. Last(sub[r], "right", w[r])
  BY <1>2, <1>3, <1>4, <1>7, LastIs
<1>9. sub[r] = N
  BY <1>2, <1>3 DEF SubOf
<1> QED
  BY <1>1, <1>6, <1>8, <1>9

LEMMA NextIs ==
  ASSUME Tree(Nodes, root, child, parent), NEW n \in Nodes
  PROVE  Nearest(Nodes, "right", n, RbTreeNode_next(n))
<1>1. PICK N, r, ch, pa : N = Nodes /\ r = root /\ ch = child /\ pa = parent
  OBVIOUS
<1>2. Tree(N, r, ch, pa) /\ n \in N
  BY <1>1
<1>3. Opposite("right", "left")
  BY DEF Opposite, Sides
<1>4. PICK w : w = CHOOSE f : MostWalk(N, ch, "left", f)
  OBVIOUS
<1>5. PICK g : g = CHOOSE f : ClimbWalk(N, ch, pa, "right", f)
  OBVIOUS
<1>6. PICK g2 : g2 = CHOOSE f : ClimbWalk(Nodes, child, parent, "right", f)
  OBVIOUS
<1>7. g2 = g
  BY <1>1, <1>5, <1>6
<1>8. RbTreeNode_next(n) = IF child["right"][n] # NULL THEN Leftmost(child["right"][n]) ELSE g2[n]
  <2>1. CASE child["right"][n] # NULL
    BY <2>1 DEF RbTreeNode_next
  <2>2. CASE child["right"][n] = NULL
    BY <1>6, <2>2 DEF RbTreeNode_next, ClimbWalk
  <2> QED
    BY <2>1, <2>2
<1>9. PICK m : m = RbTreeNode_next(n)
  OBVIOUS
<1>10. m = IF ch["right"][n] # NULL THEN w[ch["right"][n]] ELSE g[n]
  BY <1>1, <1>4, <1>7, <1>8, <1>9, LeftmostIs
<1>11. Nearest(N, "right", n, m)
  BY <1>2, <1>3, <1>4, <1>5, <1>10, StepNearest
<1> QED
  BY <1>1, <1>9, <1>11

LEMMA PrevIs ==
  ASSUME Tree(Nodes, root, child, parent), NEW n \in Nodes
  PROVE  Nearest(Nodes, "left", n, RbTreeNode_prev(n))
<1>1. PICK N, r, ch, pa : N = Nodes /\ r = root /\ ch = child /\ pa = parent
  OBVIOUS
<1>2. Tree(N, r, ch, pa) /\ n \in N
  BY <1>1
<1>3. Opposite("left", "right")
  BY DEF Opposite, Sides
<1>4. PICK w : w = CHOOSE f : MostWalk(N, ch, "right", f)
  OBVIOUS
<1>5. PICK g : g = CHOOSE f : ClimbWalk(N, ch, pa, "left", f)
  OBVIOUS
<1>6. PICK w2 : w2 = CHOOSE f : MostWalk(Nodes, child, "right", f)
  OBVIOUS
<1>7. PICK g2 : g2 = CHOOSE f : ClimbWalk(Nodes, child, parent, "left", f)
  OBVIOUS
<1>8. w2 = w /\ g2 = g
  BY <1>1, <1>4, <1>5, <1>6, <1>7
<1>9. RbTreeNode_prev(n) = IF child["left"][n] # NULL THEN w2[child["left"][n]] ELSE g2[n]
  <2>1. CASE child["left"][n] # NULL
    BY <1>6, <2>1 DEF RbTreeNode_prev, MostWalk
  <2>2. CASE child["left"][n] = NULL
    BY <1>7, <2>2 DEF RbTreeNode_prev, ClimbWalk
  <2> QED
    BY <2>1, <2>2
<1>10. PICK m : m = RbTreeNode_prev(n)
  OBVIOUS
<1>11. m = IF ch["left"][n] # NULL THEN w[ch["left"][n]] ELSE g[n]
  BY <1>1, <1>8, <1>9, <1>10
<1>12. Nearest(N, "left", n, m)
  BY <1>2, <1>3, <1>4, <1>5, <1>11, StepNearest
<1> QED
  BY <1>1, <1>10, <1>12

LEMMA LeastIs ==
  ASSUME NEW S, S \subseteq Labels, NEW m, Last(S, "right", m)
  PROVE  Least(S) = m
<1> DEFINE P(x) == \A n \in S \ {x} : Precedes(x, n)
<1>1. m \in S /\ \A l \in S : l # m => Lt(m, l)
  BY DEF Last, Before
<1>2. P(m)
  BY <1>1, PrecedesIs
<1>3. ASSUME NEW x \in S, P(x) PROVE x = m
  <2>1. SUFFICES ASSUME x # m PROVE FALSE
    OBVIOUS
  <2>2. Precedes(x, m) /\ x \in Labels /\ m \in Labels
    BY <1>1, <1>3, <2>1
  <2>3. Lt(x, m) /\ Lt(m, x)
    BY <1>1, <2>1, <2>2, PrecedesIs
  <2> QED
    BY <2>2, <2>3, LtTrans, LtIrr
<1>4. S # {} /\ m \in S
  BY <1>1
<1>5. Least(S) = CHOOSE x \in S : P(x)
  BY <1>4 DEF Least
<1> HIDE DEF P
<1>6. PICK y : y = CHOOSE x \in S : P(x)
  OBVIOUS
<1>7. y \in S /\ P(y)
  BY <1>2, <1>4, <1>6, Zenon
<1> QED
  BY <1>3, <1>5, <1>6, <1>7

LEMMA LeastAfter ==
  ASSUME NEW N, N \subseteq Labels, NULL \notin N, NEW n \in N, NEW m, Nearest(N, "right", n, m)
  PROVE  m = Least({l \in N : Precedes(n, l)})
<1>1. PICK S : S = {l \in N : Precedes(n, l)}
  OBVIOUS
<1>2. \A l \in N : l \in S <=> Before("right", l, n)
  BY <1>1, PrecedesIs DEF Before
<1>3. S \subseteq N /\ S \subseteq Labels
  BY <1>1
<1>4. CASE m = NULL
  <2>1. \A l \in N : ~ Before("right", l, n)
    BY <1>4 DEF Nearest
  <2>2. S = {}
    BY <1>2, <1>3, <2>1
  <2> QED
    BY <1>1, <1>4, <2>2 DEF Least
<1>5. CASE m # NULL
  <2>1. /\ m \in N /\ Before("right", m, n)
        /\ \A l \in N : Before("right", l, n) /\ l # m => Before("right", l, m)
    BY <1>5 DEF Nearest
  <2>2. Last(S, "right", m)
    BY <1>2, <1>3, <2>1 DEF Last
  <2>3. Least(S) = m
    BY <1>3, <2>2, LeastIs
  <2> QED
    BY <1>1, <2>3
<1> QED
  BY <1>4, <1>5

LEMMA IterationIs ==
  ASSUME TreeInv
  PROVE  IterationIsSorted
<1>1. PICK N : N = Nodes
  OBVIOUS
<1>2. Tree(Nodes, root, child, parent) /\ N \subseteq Labels
  BY <1>1 DEF TreeInv, Numbered
<1>3. NULL \notin N /\ (root = NULL => N = {}) /\ (root # NULL => root \in N)
  BY <1>1, <1>2, TreeIs
<1>4. "left" \in Sides /\ "right" \in Sides /\ "left" # "right" /\ Opposite("right", "left")
  BY DEF Sides, Opposite
<1>5. RbTree_first = Least(Nodes)
  <2>1. CASE root = NULL
    BY <1>1, <1>3, <2>1 DEF RbTree_first, Least
  <2>2. CASE root # NULL
    <3>1. Last(Nodes, "right", RbTree_first)
      BY <1>2, <2>2, FirstIs
    <3> QED
      BY <1>1, <1>2, <3>1, LeastIs
  <2> QED
    BY <2>1, <2>2
<1>6. ASSUME NEW n \in Nodes, NEW m, m = RbTreeNode_next(n)
      PROVE  m = Least({l \in Nodes : Precedes(n, l)}) /\ (m # NULL => RbTreeNode_prev(m) = n)
  <2>1. Nearest(N, "right", n, m) /\ n \in N
    BY <1>1, <1>2, <1>6, NextIs
  <2>2. m = Least({l \in Nodes : Precedes(n, l)})
    BY <1>1, <1>2, <1>3, <2>1, LeastAfter
  <2>3. ASSUME m # NULL PROVE RbTreeNode_prev(m) = n
    <3>1. m \in N
      BY <2>1, <2>3 DEF Nearest
    <3>2. Nearest(N, "left", m, n)
      BY <1>2, <1>3, <1>4, <2>1, <3>1, NearestBack
    <3>3. Nearest(N, "left", m, RbTreeNode_prev(m))
      BY <1>1, <1>2, <3>1, PrevIs
    <3> QED
      BY <1>2, <1>3, <1>4, <3>1, <3>2, <3>3, NearestUnique
  <2> QED
    BY <2>2, <2>3
<1>7. ASSUME root # NULL PROVE RbTreeNode_prev(RbTree_first) = NULL
  <2>1. PICK m : m = RbTree_first
    OBVIOUS
  <2>2. m \in N /\ \A l \in N : l # m => Before("right", l, m)
    BY <1>1, <1>2, <1>7, <2>1, FirstIs DEF Last
  <2>3. Nearest(N, "left", m, RbTreeNode_prev(m))
    BY <1>1, <1>2, <2>2, PrevIs
  <2>4. ASSUME NEW l \in N PROVE ~ Before("left", l, m)
    <3>1. CASE l = m
      BY <1>2, <1>4, <3>1, BeforeIrr
    <3>2. CASE l # m
      BY <1>2, <1>4, <2>2, <3>2, BeforeOneSide
    <3> QED
      BY <3>1, <3>2
  <2>5. Nearest(N, "left", m, NULL)
    BY <2>4 DEF Nearest
  <2> QED
    BY <1>2, <1>3, <1>4, <2>1, <2>2, <2>3, <2>5, NearestUnique
<1> QED
  BY <1>5, <1>6, <1>7 DEF IterationIsSorted

(* RbTree_for_each visits every element once and in order, for names and trees
   of every size and after any number of rotations: RbTree_first is the least
   element, RbTreeNode_next leads to the next greater one, also when it climbs
   out of a subtree, and RbTreeNode_prev undoes the step. *)
THEOREM IterationStaysSorted == Spec => []IterationIsSorted
<1>1. TreeInv => IterationIsSorted
  BY IterationIs
<1> QED
  BY <1>1, TreeCorrect, PTL
-----------------------------------------------------------------------------
(* The searches. *)
LEMMA CountedIs ==
  ASSUME NEW k \in Keys, NEW n \in Labels, NEW c, c = Counted[k][n[1]]
  PROVE  /\ c \in Int /\ (c = 0 <=> n[1] = k)
         /\ c > 0 => \A l \in Labels : l[1] = k => Before("right", l, n)
         /\ c < 0 => \A l \in Labels : l[1] = k => Before("left", l, n)
<1>1. n[1] \in Keys
  BY LabelIs
<1>2. c \in Int /\ (c < 0 <=> KeyLt(k, n[1])) /\ (c > 0 <=> KeyLt(n[1], k)) /\ (c = 0 <=> k = n[1])
  BY <1>1, CountedTells DEF Tells
<1> QED
  BY <1>2 DEF Before, Lt

(* A search that goes on at c from n loses nothing: what it looks for is below
   c, if it is below n at all. *)
LEMMA SearchGoesOn ==
  ASSUME NEW N, NEW r, NEW ch, NEW pa, Tree(N, r, ch, pa), NEW sub, SubOf(N, r, ch, sub),
         NEW k, NEW n \in N, n[1] # k, NEW s \in Sides,
         \A l \in Labels : l[1] = k => Before(s, l, n)
  PROVE  \A l \in sub[n] : l[1] = k => l \in Under(sub, ch[s][n])
<1>1. PICK o : Opposite(s, o)
  <2>1. "left" \in Sides /\ "right" \in Sides /\ "left" # "right"
    BY DEF Sides
  <2> QED
    BY <2>1 DEF Opposite
<1>2. /\ n \in Labels /\ sub[n] \subseteq Labels
      /\ sub[n] = {n} \cup Under(sub, ch[s][n]) \cup Under(sub, ch[o][n])
      /\ \A l \in Under(sub, ch[o][n]) : Before(o, l, n)
  BY <1>1, SubFacts
<1>3. o \in Sides /\ s # o
  BY <1>1 DEF Opposite
<1>4. ASSUME NEW l \in sub[n], l[1] = k PROVE l \in Under(sub, ch[s][n])
  <2>1. l # n /\ l \in Labels /\ Before(s, l, n)
    BY <1>2, <1>4
  <2>2. ~ Before(o, l, n)
    BY <1>2, <1>3, <2>1, BeforeOneSide
  <2> QED
    BY <1>2, <2>1, <2>2
<1> QED
  BY <1>4

FindWalk(N, ch, k, f) ==
  f = [n \in N \cup {NULL} |-> IF n = NULL \/ Counted[k][n[1]] = 0 THEN n ELSE f[ch[Side(Counted, k, n)][n]]]

LEMMA FindWalkIs ==
  ASSUME NEW N, NEW r, NEW ch, NEW pa, Tree(N, r, ch, pa), NEW k \in Keys,
         NEW w, w = CHOOSE f : FindWalk(N, ch, k, f)
  PROVE  FindWalk(N, ch, k, w)
<1>1. PICK M : M = N \cup {NULL}
  OBVIOUS
<1>2. PICK d : d = [m \in M |-> ch[Side(Counted, k, m)][m]]
  OBVIOUS
<1>3. PICK S : S = {m \in M : m = NULL \/ Counted[k][m[1]] = 0}
  OBVIOUS
<1>4. PICK v : v = [m \in M |-> m]
  OBVIOUS
<1>5. \A m : Side(Counted, k, m) \in Sides
  BY Zenon DEF Side, Sides
<1>6. ASSUME NEW m \in M \ S PROVE m \in N /\ d[m] \in M /\ \E q \in Sides : d[m] = ch[q][m]
  <2>1. m \in N
    BY <1>1, <1>3
  <2>2. PICK q \in Sides : q = Side(Counted, k, m)
    BY <1>5
  <2>3. d[m] = ch[q][m]
    BY <1>2, <2>2
  <2>4. d[m] # NULL => d[m] \in N
    BY <2>1, <2>3, TreeIs
  <2> QED
    BY <1>1, <2>1, <2>3, <2>4
<1>7. Down(N, ch, M, S, d)
  BY <1>1, <1>6 DEF Down
<1>8. PICK f : Runs(M, S, {}, v, d, f)
  BY <1>7, RunsDown
<1>9. ASSUME NEW m \in M
      PROVE  Result(M, S, {}, v, d, f, m) =
               IF m = NULL \/ Counted[k][m[1]] = 0 THEN m ELSE f[ch[Side(Counted, k, m)][m]]
  BY <1>2, <1>3, <1>4 DEF Result
<1>10. FindWalk(N, ch, k, f)
  BY <1>1, <1>8, <1>9 DEF FindWalk, Runs
<1> QED
  BY <1>10, Zenon

LEMMA FindWalkFinds ==
  ASSUME NEW N, NEW r, NEW ch, NEW pa, Tree(N, r, ch, pa), NEW sub, SubOf(N, r, ch, sub),
         NEW k \in Keys, NEW w, FindWalk(N, ch, k, w)
  PROVE  \A n \in N : w[n] # NULL <=> \E l \in sub[n] : l[1] = k
<1> DEFINE T == {n \in N : w[n] # NULL <=> \E l \in sub[n] : l[1] = k}
<1>1. NULL \notin N /\ \A n \in N, s \in Sides : ch[s][n] # NULL => ch[s][n] \in N
  BY TreeIs
<1>2. /\ w[NULL] = NULL
      /\ \A n \in N : w[n] = IF Counted[k][n[1]] = 0 THEN n ELSE w[ch[Side(Counted, k, n)][n]]
  BY <1>1 DEF FindWalk
<1>3. ASSUME NEW n \in N, \A q \in Sides : ch[q][n] # NULL => ch[q][n] \in T PROVE n \in T
  <2>1. n \in Labels /\ n # NULL
    BY <1>1 DEF SubOf
  <2>2. n \in sub[n]
    BY DEF SubOf
  <2>3. Counted[k][n[1]] = 0 <=> n[1] = k
    BY <2>1, CountedIs
  <2>4. CASE n[1] = k
    BY <1>2, <2>1, <2>2, <2>3, <2>4
  <2>5. CASE n[1] # k
    <3>1. PICK s : s = Side(Counted, k, n)
      OBVIOUS
    <3>2. s \in Sides
      BY <3>1, Zenon DEF Side, Sides
    <3>3. \A l \in Labels : l[1] = k => Before(s, l, n)
      BY <2>1, <2>5, <3>1, SideTells
    <3>4. \A l \in sub[n] : l[1] = k => l \in Under(sub, ch[s][n])
      BY <2>5, <3>2, <3>3, SearchGoesOn
    <3>5. Under(sub, ch[s][n]) \subseteq sub[n]
      <4>1. PICK o \in Sides : o # s
        BY DEF Sides
      <4>2. sub[n] = {n} \cup Under(sub, ch[s][n]) \cup Under(sub, ch[o][n])
        BY <3>2, <4>1, UnderIs
      <4> QED
        BY <4>2
    <3>6. w[n] = w[ch[s][n]]
      BY <1>2, <2>3, <2>5, <3>1
    <3>7. CASE ch[s][n] = NULL
      BY <1>2, <3>4, <3>6, <3>7 DEF Under
    <3>8. CASE ch[s][n] # NULL
      <4>1. PICK c : c = ch[s][n]
        OBVIOUS
      <4>2. Under(sub, ch[s][n]) = sub[c] /\ c \in T
        BY <1>3, <3>2, <3>8, <4>1 DEF Under
      <4> QED
        BY <3>4, <3>5, <3>6, <4>1, <4>2
    <3> QED
      BY <3>7, <3>8
  <2> QED
    BY <2>4, <2>5
<1> HIDE DEF T
<1>4. N \subseteq T
  BY <1>3, FromTheLeaves
<1> QED
  BY <1>4 DEF T

LEMMA FindIs ==
  ASSUME TreeInv, NEW k \in Keys
  PROVE  RbTree_find(k) # NULL <=> \E n \in Nodes : n[1] = k
<1>1. PICK N, r, ch, pa : N = Nodes /\ r = root /\ ch = child /\ pa = parent
  OBVIOUS
<1>2. Tree(N, r, ch, pa)
  BY <1>1 DEF TreeInv
<1>3. PICK sub : SubOf(N, r, ch, sub)
  BY <1>2 DEF Tree, Sorted
<1>4. PICK w : w = CHOOSE f : FindWalk(N, ch, k, f)
  OBVIOUS
<1>5. FindWalk(N, ch, k, w)
  BY <1>2, <1>4, FindWalkIs
<1>6. RbTree_find(k) = w[r]
  <2>1. PICK w2 : w2 = CHOOSE f : FindWalk(Nodes, child, k, f)
    OBVIOUS
  <2>2. RbTree_find(k) = w2[root]
    BY <2>1 DEF RbTree_find, FindWalk
  <2> QED
    BY <1>1, <1>4, <2>1, <2>2
<1>7. CASE r = NULL
  <2>1. N = {}
    BY <1>2, <1>7, TreeIs
  <2>2. w[NULL] = NULL
    BY <1>5 DEF FindWalk
  <2> QED
    BY <1>1, <1>6, <1>7, <2>1, <2>2
<1>8. CASE r # NULL
  <2>1. r \in N /\ sub[r] = N
    BY <1>2, <1>3, <1>8, TreeIs DEF SubOf
  <2>2. w[r] # NULL <=> \E l \in sub[r] : l[1] = k
    BY <1>2, <1>3, <1>5, <2>1, FindWalkFinds
  <2> QED
    BY <1>1, <1>6, <2>1, <2>2
<1> QED
  BY <1>7, <1>8

(* F holds the first element of M with key k, if there is one. *)
FirstOf(M, k, F) ==
  \/ F = {} /\ \A l \in M : l[1] # k
  \/ \E l \in M : F = {l} /\ l[1] = k /\ \A m \in M : m[1] = k /\ m # l => Before("right", m, l)

FirstWalk(N, ch, k, f) ==
  f = [n \in N \cup {NULL} |->
         IF n = NULL THEN {}
         ELSE IF Counted[k][n[1]] > 0 THEN f[ch["right"][n]]
         ELSE IF f[ch["left"][n]] = {} /\ Counted[k][n[1]] = 0 THEN {n} ELSE f[ch["left"][n]]]

LEMMA FirstWalkIs ==
  ASSUME NEW N, NEW r, NEW ch, NEW pa, Tree(N, r, ch, pa), N \subseteq Labels, NEW k \in Keys,
         NEW w, w = CHOOSE f : FirstWalk(N, ch, k, f)
  PROVE  FirstWalk(N, ch, k, w)
<1>1. PICK M : M = N \cup {NULL}
  OBVIOUS
<1>2. PICK d : d = [m \in M |-> IF Counted[k][m[1]] > 0 THEN ch["right"][m] ELSE ch["left"][m]]
  OBVIOUS
<1>3. PICK v : v = [m \in M |-> {}]
  OBVIOUS
<1>4. PICK E : E = {m \in N : Counted[k][m[1]] = 0}
  OBVIOUS
<1>5. "left" \in Sides /\ "right" \in Sides /\ NULL \notin N
  BY TreeIs DEF Sides
<1>6. ASSUME NEW m \in M \ {NULL} PROVE m \in N /\ d[m] \in M /\ \E q \in Sides : d[m] = ch[q][m]
  <2>1. m \in N
    BY <1>1
  <2>2. d[m] = ch["right"][m] \/ d[m] = ch["left"][m]
    BY <1>2
  <2>3. PICK q \in Sides : d[m] = ch[q][m]
    BY <1>5, <2>2
  <2>4. d[m] # NULL => d[m] \in N
    BY <2>1, <2>3, TreeIs
  <2> QED
    BY <1>1, <2>1, <2>3, <2>4
<1>7. Down(N, ch, M, {NULL}, d)
  BY <1>1, <1>6 DEF Down
<1>8. PICK f : Runs(M, {NULL}, E, v, d, f)
  BY <1>7, RunsDown
<1> DEFINE R(m) == IF m = NULL THEN {}
                   ELSE IF Counted[k][m[1]] > 0 THEN f[ch["right"][m]]
                   ELSE IF f[ch["left"][m]] = {} /\ Counted[k][m[1]] = 0 THEN {m} ELSE f[ch["left"][m]]
<1>9. ASSUME NEW m \in M PROVE Result(M, {NULL}, E, v, d, f, m) = R(m)
  <2>1. CASE m = NULL
    BY <1>1, <1>3, <2>1 DEF Result
  <2>2. CASE m # NULL
    <3>1. m \in N /\ m \in Labels
      BY <1>1, <2>2
    <3>2. PICK c : c = Counted[k][m[1]]
      OBVIOUS
    <3>3. c > 0 => c # 0
      BY <3>1, <3>2, CountedIs
    <3>4. m \in E <=> c = 0
      BY <1>4, <3>1, <3>2
    <3>5. d[m] = IF c > 0 THEN ch["right"][m] ELSE ch["left"][m]
      BY <1>2, <3>2
    <3>6. Result(M, {NULL}, E, v, d, f, m) = IF c = 0 /\ f[d[m]] = {} THEN {m} ELSE f[d[m]]
      BY <2>2, <3>4 DEF Result
    <3>7. R(m) = IF c > 0 THEN f[ch["right"][m]]
                 ELSE IF f[ch["left"][m]] = {} /\ c = 0 THEN {m} ELSE f[ch["left"][m]]
      BY <2>2, <3>2
    <3> HIDE DEF R
    <3> QED
      BY <3>3, <3>5, <3>6, <3>7
  <2> QED
    BY <2>1, <2>2
<1>10. FirstWalk(N, ch, k, f)
  BY <1>1, <1>8, <1>9 DEF FirstWalk, Runs
<1> QED
  BY <1>10, Zenon

LEMMA FirstOfBelow ==
  ASSUME NEW M, NEW U, U \subseteq M, NEW k, \A l \in M : l[1] = k => l \in U, NEW F, FirstOf(U, k, F)
  PROVE  FirstOf(M, k, F)
<1>1. CASE F = {} /\ \A l \in U : l[1] # k
  BY <1>1 DEF FirstOf
<1>2. CASE \E l \in U : F = {l} /\ l[1] = k /\ \A m \in U : m[1] = k /\ m # l => Before("right", m, l)
  BY <1>2 DEF FirstOf
<1> QED
  BY <1>1, <1>2 DEF FirstOf

LEMMA FirstWalkFinds ==
  ASSUME NEW N, NEW r, NEW ch, NEW pa, Tree(N, r, ch, pa), NEW sub, SubOf(N, r, ch, sub),
         NEW k \in Keys, NEW w, FirstWalk(N, ch, k, w)
  PROVE  \A n \in N : FirstOf(sub[n], k, w[n])
<1> DEFINE T == {n \in N : FirstOf(sub[n], k, w[n])}
<1>1. /\ "left" \in Sides /\ "right" \in Sides /\ "left" # "right"
      /\ Opposite("left", "right") /\ NULL \notin N
  BY TreeIs DEF Sides, Opposite
<1>2. /\ w[NULL] = {}
      /\ \A n \in N : w[n] = IF Counted[k][n[1]] > 0 THEN w[ch["right"][n]]
                             ELSE IF w[ch["left"][n]] = {} /\ Counted[k][n[1]] = 0 THEN {n}
                             ELSE w[ch["left"][n]]
  BY <1>1 DEF FirstWalk
<1>3. ASSUME NEW n \in N, \A q \in Sides : ch[q][n] # NULL => ch[q][n] \in T PROVE n \in T
  <2>1. /\ n \in Labels /\ n \in sub[n] /\ sub[n] \subseteq Labels
        /\ sub[n] = {n} \cup Under(sub, ch["left"][n]) \cup Under(sub, ch["right"][n])
        /\ \A l \in Under(sub, ch["left"][n]) : Before("left", l, n)
        /\ \A l \in Under(sub, ch["right"][n]) : Before("right", l, n)
    BY <1>1, SubFacts
  <2>2. ASSUME NEW q \in Sides PROVE FirstOf(Under(sub, ch[q][n]), k, w[ch[q][n]])
    <3>1. CASE ch[q][n] = NULL
      BY <1>2, <3>1 DEF FirstOf, Under
    <3>2. CASE ch[q][n] # NULL
      BY <1>3, <3>2 DEF Under
    <3> QED
      BY <3>1, <3>2
  <2>3. PICK c : c = Counted[k][n[1]]
    OBVIOUS
  <2>4. /\ c \in Int /\ (c = 0 <=> n[1] = k)
        /\ c > 0 => \A l \in Labels : l[1] = k => Before("right", l, n)
        /\ c < 0 => \A l \in Labels : l[1] = k => Before("left", l, n)
    BY <2>1, <2>3, CountedIs
  <2>5. w[n] = IF c > 0 THEN w[ch["right"][n]]
               ELSE IF w[ch["left"][n]] = {} /\ c = 0 THEN {n} ELSE w[ch["left"][n]]
    BY <1>2, <2>3
  <2>6. CASE c > 0
    <3>1. n[1] # k /\ w[n] = w[ch["right"][n]]
      BY <2>4, <2>5, <2>6
    <3>2. \A l \in sub[n] : l[1] = k => l \in Under(sub, ch["right"][n])
      BY <1>1, <2>4, <2>6, <3>1, SearchGoesOn
    <3>3. Under(sub, ch["right"][n]) \subseteq sub[n] /\ FirstOf(Under(sub, ch["right"][n]), k, w[n])
      BY <1>1, <2>1, <2>2, <3>1
    <3>4. FirstOf(sub[n], k, w[n])
      BY <3>2, <3>3, FirstOfBelow
    <3> QED
      BY <3>4
  <2>7. CASE c < 0
    <3>1. n[1] # k /\ w[n] = w[ch["left"][n]]
      BY <2>4, <2>5, <2>7
    <3>2. \A l \in sub[n] : l[1] = k => l \in Under(sub, ch["left"][n])
      BY <1>1, <2>4, <2>7, <3>1, SearchGoesOn
    <3>3. Under(sub, ch["left"][n]) \subseteq sub[n] /\ FirstOf(Under(sub, ch["left"][n]), k, w[n])
      BY <1>1, <2>1, <2>2, <3>1
    <3>4. FirstOf(sub[n], k, w[n])
      BY <3>2, <3>3, FirstOfBelow
    <3> QED
      BY <3>4
  <2>8. CASE c = 0
    <3>1. n[1] = k /\ w[n] = IF w[ch["left"][n]] = {} THEN {n} ELSE w[ch["left"][n]]
      BY <2>4, <2>5, <2>8
    <3>2. PICK U, F : U = Under(sub, ch["left"][n]) /\ F = w[ch["left"][n]]
      OBVIOUS
    <3>3. FirstOf(U, k, F)
      BY <1>1, <2>2, <3>2
    <3>4. CASE F = {} /\ \A l \in U : l[1] # k
      <4>1. \A m \in sub[n] : m[1] = k /\ m # n => Before("right", m, n)
        BY <2>1, <3>2, <3>4
      <4>2. w[n] = {n}
        BY <3>1, <3>2, <3>4
      <4> QED
        BY <2>1, <3>1, <4>1, <4>2 DEF FirstOf
    <3>5. CASE \E l \in U : F = {l} /\ l[1] = k /\ \A m \in U : m[1] = k /\ m # l => Before("right", m, l)
      <4>1. PICK l \in U : F = {l} /\ l[1] = k /\ \A m \in U : m[1] = k /\ m # l => Before("right", m, l)
        BY <3>5
      <4>2. Before("left", l, n) /\ l \in Labels /\ l \in sub[n]
        BY <2>1, <3>2
      <4>3. Before("right", n, l)
        BY <1>1, <4>2, BeforeMirror
      <4>4. ASSUME NEW m \in sub[n], m[1] = k, m # l PROVE Before("right", m, l)
        <5>1. CASE m = n
          BY <4>3, <5>1
        <5>2. CASE m \in U
          BY <4>1, <4>4, <5>2
        <5>3. CASE m \in Under(sub, ch["right"][n])
          <6>1. Before("right", m, n) /\ m \in Labels
            BY <2>1, <5>3
          <6> QED
            BY <1>1, <2>1, <4>2, <4>3, <6>1, BeforeTrans
        <5> QED
          BY <2>1, <3>2, <5>1, <5>2, <5>3
      <4>5. w[n] = {l}
        <5>1. {l} # {}
          OBVIOUS
        <5> QED
          BY <3>1, <3>2, <4>1, <5>1
      <4>6. FirstOf(sub[n], k, w[n])
        BY <4>1, <4>2, <4>4, <4>5 DEF FirstOf
      <4> QED
        BY <4>6
    <3> QED
      BY <3>3, <3>4, <3>5 DEF FirstOf
  <2> QED
    BY <2>4, <2>6, <2>7, <2>8
<1> HIDE DEF T
<1>4. N \subseteq T
  BY <1>3, FromTheLeaves
<1> QED
  BY <1>4 DEF T

LEMMA FirstFoundIs ==
  ASSUME TreeInv, root # NULL, NEW k \in Keys
  PROVE  FirstOf(Nodes, k, RbTree_find_first(k))
<1>1. PICK N, r, ch, pa : N = Nodes /\ r = root /\ ch = child /\ pa = parent
  OBVIOUS
<1>2. Tree(N, r, ch, pa) /\ r # NULL
  BY <1>1 DEF TreeInv
<1>3. PICK sub : SubOf(N, r, ch, sub)
  BY <1>2 DEF Tree, Sorted
<1>4. N \subseteq Labels
  BY <1>3 DEF SubOf
<1>5. PICK w : w = CHOOSE f : FirstWalk(N, ch, k, f)
  OBVIOUS
<1>6. FirstWalk(N, ch, k, w)
  BY <1>2, <1>4, <1>5, FirstWalkIs
<1>7. RbTree_find_first(k) = w[r]
  <2>1. PICK w2 : w2 = CHOOSE f : FirstWalk(Nodes, child, k, f)
    OBVIOUS
  <2>2. RbTree_find_first(k) = w2[root]
    BY <2>1 DEF RbTree_find_first, FirstWalk
  <2> QED
    BY <1>1, <1>5, <2>1, <2>2
<1>8. r \in N /\ sub[r] = N
  BY <1>2, <1>3, TreeIs DEF SubOf
<1>9. FirstOf(sub[r], k, w[r])
  BY <1>2, <1>3, <1>6, <1>8, FirstWalkFinds
<1> QED
  BY <1>1, <1>7, <1>8, <1>9

(* The elements with one key, as they are numbered. *)
LEMMA SameIs ==
  ASSUME NEW N, Numbered(N), NEW k \in Keys, NEW c, c = Cardinality(Same(N, k))
  PROVE  /\ c \in Nat /\ Same(N, k) \subseteq Labels
         /\ \A x : x \in N /\ x[1] = k <=> x \in Same(N, k)
         /\ \A x : x \in Same(N, k) <=> \E j \in 1 .. c : x = <<k, j>>
<1>1. Same(N, k) \in SUBSET N /\ \A x : x \in N /\ x[1] = k <=> x \in Same(N, k)
  BY DEF Same
<1>2. c \in Nat
  BY <1>1, FS_Subset, FS_CardinalityType DEF Numbered
<1>3. Same(N, k) = {<<k, j>> : j \in 1 .. c}
  BY DEF Numbered
<1>4. N \subseteq Labels
  BY DEF Numbered
<1> QED
  BY <1>1, <1>2, <1>3, <1>4

LEMMA FirstIsNumberOne ==
  ASSUME NEW N, Numbered(N), NEW k \in Keys, Same(N, k) # {}, NEW F, FirstOf(N, k, F)
  PROVE  F = {<<k, 1>>}
<1>1. PICK c : c = Cardinality(Same(N, k))
  OBVIOUS
<1>2. /\ c \in Nat /\ Same(N, k) \subseteq Labels
      /\ \A x : x \in N /\ x[1] = k <=> x \in Same(N, k)
      /\ \A x : x \in Same(N, k) <=> \E j \in 1 .. c : x = <<k, j>>
  BY <1>1, SameIs
<1>3. PICK x, i : x \in Same(N, k) /\ i \in 1 .. c /\ x = <<k, i>>
  BY <1>2
<1>4. PICK one : one = <<k, 1>>
  OBVIOUS
<1>5. 1 \in 1 .. c
  BY <1>2, <1>3
<1>6. one \in Same(N, k) /\ one \in N /\ one[1] = k /\ one[2] = 1 /\ one \in Labels
  BY <1>2, <1>4, <1>5
<1>7. PICK l \in N : F = {l} /\ l[1] = k /\ \A m \in N : m[1] = k /\ m # l => Before("right", m, l)
  BY <1>6 DEF FirstOf
<1>8. l \in Same(N, k)
  BY <1>2, <1>7
<1>9. PICK j \in 1 .. c : l = <<k, j>>
  BY <1>2, <1>8
<1>10. ASSUME l # one PROVE FALSE
  <2>1. Before("right", one, l)
    BY <1>6, <1>7, <1>10
  <2>2. Lt(l, one)
    BY <2>1 DEF Before
  <2>3. KeyLt(k, k) \/ j < 1
    BY <1>4, <1>9, <2>2 DEF Lt
  <2> QED
    BY <1>2, <1>9, <2>3, KeyLtIrr
<1> QED
  BY <1>4, <1>7, <1>10

LEMMA NextOfEqual ==
  ASSUME NEW N, Numbered(N), NULL \notin N, NEW k \in Keys, NEW n \in Same(N, k),
         NEW c, c = Cardinality(Same(N, k)), NEW m, Nearest(N, "right", n, m)
  PROVE  /\ n[2] = c => m = NULL \/ (m \in N /\ m[1] # k)
         /\ n[2] # c => m \in N /\ m = <<k, n[2] + 1>>
<1>1. /\ c \in Nat /\ Same(N, k) \subseteq Labels
      /\ \A x : x \in N /\ x[1] = k <=> x \in Same(N, k)
      /\ \A x : x \in Same(N, k) <=> \E j \in 1 .. c : x = <<k, j>>
  BY SameIs
<1>2. N \subseteq Labels
  BY DEF Numbered
<1>3. PICK i \in 1 .. c : n = <<k, i>>
  BY <1>1
<1>4. i \in Nat /\ 1 <= i /\ i <= c /\ n[1] = k /\ n[2] = i /\ n \in N /\ n \in Labels
  BY <1>1, <1>2, <1>3
<1>5. ASSUME m \in N, m[1] = k PROVE \E j \in 1 .. c : m = <<k, j>> /\ i < j
  <2>1. PICK j \in 1 .. c : m = <<k, j>>
    BY <1>1, <1>5
  <2>2. m # NULL
    BY <1>5
  <2>3. Before("right", m, n)
    BY <2>2 DEF Nearest
  <2>4. Lt(n, m)
    BY <2>3 DEF Before
  <2>5. KeyLt(k, k) \/ i < j
    BY <1>3, <2>1, <2>4 DEF Lt
  <2> QED
    BY <2>1, <2>5, KeyLtIrr
<1>6. ASSUME n[2] = c PROVE m = NULL \/ (m \in N /\ m[1] # k)
  <2>1. m = NULL \/ m \in N
    BY DEF Nearest
  <2>2. ~ (m \in N /\ m[1] = k)
    <3>1. SUFFICES ASSUME m \in N, m[1] = k PROVE FALSE
      OBVIOUS
    <3>2. PICK j \in 1 .. c : i < j
      BY <1>5, <3>1
    <3> QED
      BY <1>1, <1>4, <1>6, <3>2
  <2> QED
    BY <2>1, <2>2
<1>7. ASSUME n[2] # c PROVE m \in N /\ m = <<k, n[2] + 1>>
  <2>1. PICK x : x = <<k, i + 1>>
    OBVIOUS
  <2>2. i + 1 \in 1 .. c
    BY <1>1, <1>4, <1>7
  <2>3. x \in Same(N, k) /\ x \in N /\ x \in Labels /\ x[1] = k /\ x[2] = i + 1
    BY <1>1, <2>1, <2>2
  <2>4. i < i + 1
    BY <1>4
  <2>5. Lt(n, x)
    BY <1>4, <2>3, <2>4 DEF Lt
  <2>6. Before("right", x, n)
    BY <2>5 DEF Before
  <2>7. m \in N /\ Before("right", m, n) /\ (x # m => Before("right", x, m))
    BY <2>3, <2>6 DEF Nearest
  <2>8. ASSUME x # m PROVE FALSE
    <3>1. Lt(n, m) /\ Lt(m, x) /\ m \in Labels
      BY <1>2, <2>7, <2>8 DEF Before
    <3>2. m[1] \in Keys /\ m[2] \in Nat
      BY <3>1, LabelIs
    <3>3. KeyLt(k, m[1]) \/ (k = m[1] /\ i < m[2])
      BY <1>4, <3>1 DEF Lt
    <3>4. KeyLt(m[1], k) \/ (m[1] = k /\ m[2] < i + 1)
      BY <2>3, <3>1 DEF Lt
    <3>5. ~ (KeyLt(k, m[1]) /\ KeyLt(m[1], k)) /\ ~ KeyLt(k, k)
      BY <3>2, KeyLtTrans, KeyLtIrr
    <3>6. m[1] = k /\ i < m[2] /\ m[2] < i + 1
      BY <3>3, <3>4, <3>5
    <3> QED
      BY <1>4, <3>2, <3>6
  <2> QED
    BY <1>4, <2>1, <2>7, <2>8
<1> QED
  BY <1>6, <1>7

LEMMA FindsIs ==
  ASSUME TreeInv
  PROVE  FindsWhatWasAdded
<1>1. Tree(Nodes, root, child, parent) /\ Numbered(Nodes)
  BY DEF TreeInv
<1>2. NULL \notin Nodes /\ (root = NULL => Nodes = {}) /\ Nodes \subseteq Labels
  BY <1>1, TreeIs DEF Numbered
<1>3. ASSUME NEW k \in Keys, NEW found, found = {n \in Nodes : n[1] = k}
      PROVE  /\ RbTree_find(k) # NULL <=> found # {}
             /\ found # {} => RbTree_find_first(k) = {<<k, 1>>}
             /\ \A n \in found :
                  RbTreeNode_next_match(n, k) =
                    IF n[2] = Cardinality(found) THEN NULL ELSE <<k, n[2] + 1>>
  <2>1. found = Same(Nodes, k)
    BY <1>3 DEF Same
  <2>2. RbTree_find(k) # NULL <=> found # {}
    BY <1>3, FindIs
  <2>3. ASSUME found # {} PROVE RbTree_find_first(k) = {<<k, 1>>}
    <3>1. root # NULL
      BY <1>2, <1>3, <2>3
    <3>2. FirstOf(Nodes, k, RbTree_find_first(k))
      BY <3>1, FirstFoundIs
    <3> QED
      BY <1>1, <2>1, <2>3, <3>2, FirstIsNumberOne
  <2>4. ASSUME NEW n \in found
        PROVE  RbTreeNode_next_match(n, k) = IF n[2] = Cardinality(found) THEN NULL ELSE <<k, n[2] + 1>>
    <3>1. PICK m : m = RbTreeNode_next(n)
      OBVIOUS
    <3>2. n \in Nodes /\ n \in Same(Nodes, k)
      BY <1>3, <2>1
    <3>3. Nearest(Nodes, "right", n, m)
      BY <1>1, <3>1, <3>2, NextIs
    <3>4. PICK c : c = Cardinality(found)
      OBVIOUS
    <3>5. /\ n[2] = c => m = NULL \/ (m \in Nodes /\ m[1] # k)
          /\ n[2] # c => m \in Nodes /\ m = <<k, n[2] + 1>>
      BY <1>1, <1>2, <2>1, <3>2, <3>3, <3>4, NextOfEqual
    <3>6. RbTreeNode_next_match(n, k) = IF m # NULL /\ Counted[k][m[1]] = 0 THEN m ELSE NULL
      BY <3>1 DEF RbTreeNode_next_match
    <3>7. m \in Nodes => (Counted[k][m[1]] = 0 <=> m[1] = k)
      BY <1>2, CountedIs
    <3>8. CASE n[2] = c
      BY <3>4, <3>5, <3>6, <3>7, <3>8
    <3>9. CASE n[2] # c
      <4>1. m \in Nodes /\ m = <<k, n[2] + 1>> /\ m # NULL
        BY <1>2, <3>5, <3>9
      <4>2. m[1] = k
        BY <4>1
      <4> QED
        BY <3>4, <3>6, <3>7, <3>9, <4>1, <4>2
    <3> QED
      BY <3>8, <3>9
  <2> QED
    BY <2>2, <2>3, <2>4
<1> QED
  BY <1>3 DEF FindsWhatWasAdded

(* RbTree_find_ finds an element exactly when one with that key was added, for
   names and trees of every size: strcmp and RbTree_strncmp order names in the
   same way, so an element is where the search goes though the one placed it
   and the other looks for it, and no rotation moves it to another side.
   RbTree_find_first_ and RbTreeNode_next_match_ go through all equal elements
   in the order in which they were added. *)
THEOREM SearchFindsWhatWasAdded == Spec => []FindsWhatWasAdded
<1>1. TreeInv => FindsWhatWasAdded
  BY FindsIs
<1> QED
  BY <1>1, TreeCorrect, PTL
=============================================================================
