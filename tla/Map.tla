-------------------------------- MODULE Map --------------------------------
(***************************************************************************)
(* The hash map of map.c: chains of nodes in buckets, doubled when there   *)
(* are as many nodes as buckets, searched by hash and key, walked by an    *)
(* iterator.  A key is compared over the length of the key looked for, so  *)
(* a stored key matches every key it begins with, if the hashes agree.     *)
(*                                                                         *)
(* dict is the function from keys to values that the map stands for.       *)
(* Every allocation may fail.                                              *)
(***************************************************************************)
EXTENDS Integers, Sequences, FiniteSets

CONSTANTS Keys, Values,
          Hash,                     \* the hash of every key
          Begins,                   \* <<k, s>>: key s begins with key k
          MAP_DEFAULT_BUCKET_SIZE,
          InitSizes,                \* sizes the map may be created with
          MaxBuckets                \* bound: no growth beyond this size

(* Sizes are powers of 2, which Map_bucket_idx_ relies on.  Different keys *)
(* may have the same hash, but not when one begins with the other: then    *)
(* the map takes them for the same key.                                    *)
ASSUME MapAssumption ==
    /\ Hash \in [Keys -> Nat]
    /\ Begins \subseteq Keys \X Keys
    /\ InitSizes \subseteq Nat /\ MAP_DEFAULT_BUCKET_SIZE \in Nat \ {0}
    /\ \A s \in InitSizes \cup {MAP_DEFAULT_BUCKET_SIZE} :
          s = 0 \/ \E e \in 0..8 : s = 2^e
    /\ \A k, s \in Keys : k /= s /\ <<k, s>> \in Begins => Hash[k] /= Hash[s]

VARIABLES buckets,      \* the chains, by index; bucketCount is their number
          nodeCount,
          live,         \* is the map initialised?
          dict,         \* what was set and not removed
          ite,          \* the iterator: bucketIndex, chain left, keys seen
          mapStatus     \* "ok", or "wild" after memory was overwritten

mapVars == <<buckets, nodeCount, live, dict, ite, mapStatus>>

Node(k, v) == [key |-> k, hash |-> Hash[k], value |-> v]
bucketCount == Cardinality(DOMAIN buckets)

(* hash & (bucketCount - 1), for a power of 2                              *)
Map_bucket_idx(hash, count) == hash % count

Closed == [on |-> FALSE, index |-> 0, chain |-> <<>>, seen |-> <<>>]

MapInit ==
    /\ buckets = [i \in {} |-> <<>>] /\ nodeCount = 0
    /\ live = FALSE /\ dict = [k \in {} |-> 0] /\ ite = Closed
    /\ mapStatus = "ok"

(* All nodes, the chains of the highest bucket first                       *)
Chained[i \in 0..bucketCount] ==
    IF i = 0 THEN <<>> ELSE buckets[i - 1] \o Chained[i - 1]
AllNodes == Chained[bucketCount]

(* Map_add_node_                                                           *)
Added(b, node) ==
    [b EXCEPT ![Map_bucket_idx(node.hash, Cardinality(DOMAIN b))] = <<node>> \o @]

(* Map_resize_ chains all nodes, which turns their order round, and adds   *)
(* them to the new buckets one by one, the last of AllNodes first          *)
Map_resized(count) ==
    LET nodes == AllNodes
        n == Len(nodes)
        filled[i \in 0..n] == IF i = 0 THEN [j \in 0..count - 1 |-> <<>>]
                              ELSE Added(filled[i - 1], nodes[n + 1 - i])
    IN  filled[n]

(* Map_get_ref_: the position of the first node that matches, 0 for none   *)
Matches(node, k) == node.hash = Hash[k] /\ (node.key = k \/ <<k, node.key>> \in Begins)
Chain(k) == IF bucketCount = 0 THEN <<>>
            ELSE buckets[Map_bucket_idx(Hash[k], bucketCount)]

Map_get_ref(k) ==
    LET hits == {i \in DOMAIN Chain(k) : Matches(Chain(k)[i], k)}
    IN  IF hits = {} THEN 0 ELSE CHOOSE i \in hits : \A j \in hits : i <= j

MapReady == mapStatus = "ok" /\ live

(* Map_init2, Map_init0: buckets at once, or none yet (Map_initWith)       *)
Map_init ==
    /\ mapStatus = "ok" /\ ~live
    /\ \E size \in InitSizes :
         /\ live' = TRUE
         /\ \/ buckets' = [i \in 0..size - 1 |-> <<>>]
            \/ buckets' = [i \in {} |-> <<>>]   \* no memory: Map_init_ says -1
    /\ UNCHANGED <<nodeCount, dict, ite, mapStatus>>

Map_deinit ==
    /\ MapReady
    /\ live' = FALSE /\ nodeCount' = 0 /\ ite' = Closed
    /\ buckets' = [i \in {} |-> <<>>] /\ dict' = [k \in {} |-> 0]
    /\ UNCHANGED mapStatus

WithValue(k, v) == [x \in DOMAIN dict \cup {k} |-> IF x = k THEN v ELSE dict[x]]

(* The value of a node that exists is replaced in place                    *)
SetInPlace(k, v) ==
    /\ MapReady /\ Map_get_ref(k) > 0
    /\ buckets' = [buckets EXCEPT ![Map_bucket_idx(Hash[k], bucketCount)]
                                    [Map_get_ref(k)].value = v]
    /\ dict' = WithValue(k, v)
    /\ UNCHANGED <<nodeCount, live, ite, mapStatus>>

NextSize == IF bucketCount < MAP_DEFAULT_BUCKET_SIZE THEN MAP_DEFAULT_BUCKET_SIZE
                                                     ELSE 2 * bucketCount

(* An iteration does not go on over a map that grew                        *)
SetNew(k, v) ==
    /\ MapReady /\ Map_get_ref(k) = 0
    /\ LET grows == nodeCount >= bucketCount
       IN  /\ grows => NextSize <= MaxBuckets
           /\ buckets' = Added(IF grows THEN Map_resized(NextSize) ELSE buckets,
                               Node(k, v))
    /\ nodeCount' = nodeCount + 1
    /\ dict' = WithValue(k, v) /\ ite' = Closed
    /\ UNCHANGED <<live, mapStatus>>

(* No memory for the node: Map_set_ returns NULL and changes nothing.  No  *)
(* memory for the buckets: what memory the old ones have, if any (a map    *)
(* made with size 0 has an empty block), is cleared in the length of the   *)
(* new ones.                                                               *)
SetFails(k) ==
    /\ MapReady /\ Map_get_ref(k) = 0
    /\ \/ mapStatus' = "ok" /\ ite' = ite
       \/ nodeCount >= bucketCount /\ mapStatus' = "wild" /\ ite' = Closed
    /\ UNCHANGED <<buckets, nodeCount, live, dict>>

(* Fault: the whole chain behind the node goes                             *)
Map_removeRest(k) ==
    /\ MapReady
    /\ IF Map_get_ref(k) = 0 THEN UNCHANGED <<buckets, nodeCount, dict, ite>>
       ELSE /\ buckets' = [buckets EXCEPT
                 ![Map_bucket_idx(Hash[k], bucketCount)] =
                     SubSeq(@, 1, Map_get_ref(k) - 1)]
            /\ nodeCount' = nodeCount - 1
            /\ dict' = [x \in DOMAIN dict \ {k} |-> dict[x]]
            /\ ite' = Closed
    /\ UNCHANGED <<live, mapStatus>>

Map_remove(k) ==
    /\ MapReady
    /\ IF Map_get_ref(k) = 0 THEN UNCHANGED <<buckets, nodeCount, dict, ite>>
       ELSE /\ buckets' = [buckets EXCEPT
                 ![Map_bucket_idx(Hash[k], bucketCount)] =
                     SubSeq(@, 1, Map_get_ref(k) - 1)
                     \o SubSeq(@, Map_get_ref(k) + 1, Len(@))]
            /\ nodeCount' = nodeCount - 1
            /\ dict' = [x \in DOMAIN dict \ {k} |-> dict[x]]
            /\ ite' = Closed
    /\ UNCHANGED <<live, mapStatus>>

Map_get(k) == LET i == Map_get_ref(k)
              IN  IF i = 0 THEN <<>> ELSE <<Chain(k)[i].value>>

(* Fault: the index is advanced by two                                     *)
Map_iter_nextSkips(it) ==
    IF Len(it.chain) > 1
    THEN [it EXCEPT !.chain = Tail(@), !.seen = Append(@, it.chain[2].key)]
    ELSE LET full == {i \in it.index + 2 .. bucketCount - 1 : buckets[i] /= <<>>}
             i == CHOOSE i \in full : \A j \in full : i <= j
         IN  IF full = {} THEN [it EXCEPT !.on = FALSE, !.index = bucketCount,
                                          !.chain = <<>>]
             ELSE [it EXCEPT !.index = i, !.chain = buckets[i],
                             !.seen = Append(@, buckets[i][1].key)]

(* The iterator goes on in the chain, or to the next bucket that is not    *)
(* empty: the index is advanced before a bucket is looked at               *)
Map_iter_next(it) ==
    IF Len(it.chain) > 1
    THEN [it EXCEPT !.chain = Tail(@), !.seen = Append(@, it.chain[2].key)]
    ELSE LET full == {i \in it.index + 1 .. bucketCount - 1 : buckets[i] /= <<>>}
             i == CHOOSE i \in full : \A j \in full : i <= j
         IN  IF full = {} THEN [it EXCEPT !.on = FALSE, !.index = bucketCount,
                                          !.chain = <<>>]
             ELSE [it EXCEPT !.index = i, !.chain = buckets[i],
                             !.seen = Append(@, buckets[i][1].key)]

(* Map_begin_ starts before bucket 1, without a node, and goes on once     *)
Map_begin ==
    /\ MapReady /\ bucketCount > 0 /\ ~ite.on
    /\ ite' = Map_iter_next([Closed EXCEPT !.on = TRUE])
    /\ UNCHANGED <<buckets, nodeCount, live, dict, mapStatus>>

(* Map_foreach calls Map_iter_next_ until it returns NULL                  *)
Walk ==
    /\ MapReady /\ ite.on
    /\ ite' = Map_iter_next(ite)
    /\ UNCHANGED <<buckets, nodeCount, live, dict, mapStatus>>

Map_set == \E k \in Keys : \/ \E v \in Values : SetInPlace(k, v) \/ SetNew(k, v)
                           \/ SetFails(k)

MapNext == \/ Map_init \/ Map_deinit \/ Map_set
           \/ \E k \in Keys : Map_remove(k)
           \/ Map_begin \/ Walk

(* A loop over the map asks its iterator for the next key until it ends    *)
MapSpec == MapInit /\ [][MapNext]_mapVars /\ WF_mapVars(Walk)

(* The map is the function it should be after every history of setting,    *)
(* replacing, removing, growing and failing: each key is found with the    *)
(* value set last and no other key is, and the count is right.             *)
MapIsFunction ==
    mapStatus = "ok" =>
        /\ \A k \in Keys : Map_get(k) = IF k \in DOMAIN dict THEN <<dict[k]>>
                                                             ELSE <<>>
        /\ nodeCount = Cardinality(DOMAIN dict)
        /\ nodeCount = Len(AllNodes)

(* Every walk comes to its end, and has then seen each key outside of      *)
(* bucket 0 once; those of bucket 0 it never visits.                       *)
Visited ==
    /\ \A k \in DOMAIN dict :
          LET n == Cardinality({i \in DOMAIN ite.seen : ite.seen[i] = k})
          IN  n = IF Map_bucket_idx(Hash[k], bucketCount) = 0 THEN 0 ELSE 1
    /\ \A i \in DOMAIN ite.seen : ite.seen[i] \in DOMAIN dict
Walked == ~ite'.on /\ ite'.index > 0 /\ ite /= ite'
EachVisitedOnce == [][Walked => Visited']_mapVars
WalksVisitOnce == EachVisitedOnce /\ (ite.on ~> ~ite.on)
=============================================================================
