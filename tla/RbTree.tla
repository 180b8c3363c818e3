------------------------------ MODULE RbTree ------------------------------
(***************************************************************************)
(* The red-black tree behind the symbol table, the patch list and the      *)
(* reference lists of the assembler: src/src/tree.c.  Elements are added   *)
(* by RbTree_add_ (equal ones allowed) and RbTree_find_or_add_, found by   *)
(* RbTree_find_ and RbTree_find_first_ and visited by RbTree_first,        *)
(* RbTreeNode_next and RbTreeNode_prev.  Nothing in the program erases an  *)
(* element.                                                                *)
(*                                                                         *)
(* Keys are names, sequences of characters.  An element may be added as a  *)
(* string, which strcmp compares, or with a length, which RbTree_strncmp   *)
(* compares; the table of op codes is filled the first way and searched    *)
(* the second.  A node is <<k, j>>: the j-th one with key k.  Linking a    *)
(* node and each round of the loop of RbTree_insert__ is a step.           *)
(***************************************************************************)
EXTENDS Integers, Sequences, FiniteSets, FiniteSetsExt

CONSTANTS Keys,      \* what elements are compared by, without the empty name
          MaxNodes   \* bound on the size of the tree

ASSUME RbTreeAssumption == Keys \subseteq Seq(Nat) \ {<<>>} /\ MaxNodes \in Nat

NULL == <<<<>>, 0>>

Red == "red"

Black == "black"

Sides == {"left", "right"}

VARIABLES root,
          child, parent, colour,  \* fields of the nodes; child[s] for each side
          node                    \* node in RbTree_insert__; NULL between calls

vars == <<root, child, parent, colour, node>>

Nodes == DOMAIN parent

Empty == [x \in {} |-> NULL]

Init ==
  /\ root = NULL /\ node = NULL
  /\ child = [s \in Sides |-> Empty] /\ parent = Empty /\ colour = Empty

Put(f, x, v) == [y \in DOMAIN f \cup {x} |-> IF y = x THEN v ELSE f[y]]

-----------------------------------------------------------------------------
(* The places where two names differ, as far as both reach. *)
Differ(s, t) == {i \in DOMAIN s \cap DOMAIN t : s[i] # t[i]}

(* strcmp: names in the order of a dictionary. *)
strcmp(s, t) ==
  IF Differ(s, t) # {} THEN LET i == Min(Differ(s, t)) IN s[i] - t[i]
  ELSE Len(s) - Len(t)

(* RbTree_strncmp: s1 has a length, s2 ends with a 0.  It compares plain chars
   and strcmp unsigned ones; names are ASCII, where the two agree. *)
RbTree_strncmp(s1, s2) ==
  LET i == IF Differ(s1, s2) = {} THEN 0 ELSE Min(Differ(s1, s2)) IN
  IF i # 0 THEN s1[i] - s2[i]
  ELSE IF Len(s1) > Len(s2) THEN 1 ELSE IF Len(s1) = Len(s2) THEN 0 ELSE -1

Whole == [k \in Keys |-> [l \in Keys |-> strcmp(k, l)]]

Counted == [k \in Keys |-> [l \in Keys |-> RbTree_strncmp(k, l)]]

(* Fault: an equal element goes to the left. *)
SideEqualLeft(cmp, k, n) == IF cmp[k][n[1]] <= 0 THEN "left" ELSE "right"

(* The side of n on which an element with key k is looked for. *)
Side(cmp, k, n) == IF cmp[k][n[1]] < 0 THEN "left" ELSE "right"

(* The walk of RbTree_add_ and RbTree_find_or_add_: the node whose empty link
   is reached, NULL in an empty tree. *)
LinkParent(cmp, k) ==
  LET below(n) == child[Side(cmp, k, n)][n]
      walk[n \in Nodes] == IF below(n) = NULL THEN n ELSE walk[below(n)]
  IN  IF root = NULL THEN NULL ELSE walk[root]

(* Fault: the search takes the other side. *)
RbTree_findMirrored(k) ==
  LET walk[n \in Nodes \cup {NULL}] ==
        IF n = NULL \/ n[1] = k THEN n
        ELSE walk[child[IF Side(Counted, k, n) = "left" THEN "right" ELSE "left"][n]]
  IN  walk[root]

(* RbTree_find_: a node with key k, or NULL. *)
RbTree_find(k) ==
  LET walk[n \in Nodes \cup {NULL}] ==
        IF n = NULL \/ Counted[k][n[1]] = 0 THEN n ELSE walk[child[Side(Counted, k, n)][n]]
  IN  walk[root]

(* RbTree_find_first_: the search goes on to the left of a match.  Without one
   the code returns a pointer that was never set. *)
RbTree_find_first(k) ==
  LET walk[n \in Nodes \cup {NULL}] ==
        IF n = NULL THEN {}
        ELSE IF Counted[k][n[1]] > 0 THEN walk[child["right"][n]]
        ELSE LET further == walk[child["left"][n]]
             IN  IF further = {} /\ Counted[k][n[1]] = 0 THEN {n} ELSE further
  IN  walk[root]

(* RbTree_link_node: a red leaf below p. *)
RbTree_link_node(cmp, n, p) ==
  /\ child' = [s \in Sides |->
                 Put(IF p # NULL /\ s = Side(cmp, n[1], p) THEN [child[s] EXCEPT ![p] = n]
                                                      ELSE child[s], n, NULL)]
  /\ parent' = Put(parent, n, p)
  /\ colour' = Put(colour, n, Red)
  /\ root' = IF p = NULL THEN n ELSE root
  /\ node' = n

NewNode(k) == <<k, Cardinality({n \in Nodes : n[1] = k}) + 1>>

HasRoom == Cardinality(Nodes) < MaxNodes

(* RbTree_add_ up to the call of RbTree_insert_color. *)
RbTree_add(k) ==
  /\ node = NULL /\ HasRoom
  /\ RbTree_link_node(Whole, NewNode(k), LinkParent(Whole, k))

(* RbTree_find_or_add_: an equal element is returned, and nothing changes. *)
RbTree_find_or_add(k) ==
  /\ node = NULL
  /\ \/ /\ RbTree_find(k) # NULL
        /\ UNCHANGED vars
     \/ /\ RbTree_find(k) = NULL /\ HasRoom
        /\ RbTree_link_node(Counted, NewNode(k), LinkParent(Counted, k))

-----------------------------------------------------------------------------
(* Fault: the loop is not left. *)
InsertAtRootAgain ==
  /\ node # NULL /\ parent[node] = NULL
  /\ colour' = [colour EXCEPT ![node] = Black]
  /\ UNCHANGED <<root, child, parent, node>>

(* RbTree_insert__.  The node has become the root. *)
InsertAtRoot ==
  /\ node # NULL /\ parent[node] = NULL
  /\ colour' = [colour EXCEPT ![node] = Black]
  /\ node' = NULL
  /\ UNCHANGED <<root, child, parent>>

InsertBelowBlack ==
  /\ node # NULL /\ parent[node] # NULL /\ colour[parent[node]] = Black
  /\ node' = NULL
  /\ UNCHANGED <<root, child, parent, colour>>

BelowRed == node # NULL /\ parent[node] # NULL /\ colour[parent[node]] = Red

Grandparent == parent[parent[node]]

(* parent == gp->left, as the code finds it out. *)
ParentIsLeft == parent[node] # child["right"][Grandparent]

Uncle == child[IF ParentIsLeft THEN "right" ELSE "left"][Grandparent]

UncleIsRed == Uncle # NULL /\ colour[Uncle] = Red

(* Fault: the loop ends where it should go on at the grandparent. *)
RecolourAndStop ==
  /\ BelowRed /\ UncleIsRed
  /\ colour' = [colour EXCEPT ![Uncle] = Black, ![parent[node]] = Black, ![Grandparent] = Red]
  /\ node' = NULL
  /\ UNCHANGED <<root, child, parent>>

(* Case 1: the colours of the two generations above flip, and the loop goes on
   at the grandparent. *)
Recolour ==
  /\ BelowRed /\ UncleIsRed
  /\ colour' = [colour EXCEPT ![Uncle] = Black, ![parent[node]] = Black, ![Grandparent] = Red]
  /\ node' = Grandparent
  /\ UNCHANGED <<root, child, parent>>

(* Fault: a subtree that changes sides keeps its parent. *)
SetIfNot(f, n, v) == f

(* A field of a node that may be missing. *)
SetIf(f, n, v) == IF n = NULL THEN f ELSE [f EXCEPT ![n] = v]

(* RbTree_change_child: the link to old below up, or the root, is set to new. *)
RbTree_change_child(c, old, new, up) ==
  /\ child' = IF up = NULL THEN c
              ELSE [c EXCEPT ![IF c["left"][up] = old THEN "left" ELSE "right"][up] = new]
  /\ root' = IF up = NULL THEN new ELSE root

(* new takes the place of old, and old hangs below it. *)
RbTree_rotate_set_parents(links, par, col, old, new, color) ==
  /\ parent' = [par EXCEPT ![new] = par[old], ![old] = new]
  /\ colour' = [col EXCEPT ![new] = col[old], ![old] = color]
  /\ RbTree_change_child(links, old, new, par[old])

(* Cases 2 and 3; near is the side of the parent below the grandparent and far
   the other one.  A node on the far side of its parent is first rotated above
   it, which colours the old parent c2; then the upper of the two is rotated
   above the grandparent, takes its colour and leaves it red
   (RbTree_rotate_set_parents). *)
Rotate(near, far, c2) ==
  LET p0 == parent[node]
      gp == Grandparent
      inner == node = child[far][p0]
      t0 == child[near][node]
      child1 == IF inner THEN [child EXCEPT ![far][p0] = t0, ![near][node] = p0] ELSE child
      parent1 == IF inner THEN [SetIf(parent, t0, p0) EXCEPT ![p0] = node] ELSE parent
      colour1 == IF inner THEN [SetIf(colour, t0, Black) EXCEPT ![p0] = c2] ELSE colour
      p == IF inner THEN node ELSE p0
      t == child1[far][p]
  IN  /\ RbTree_rotate_set_parents([child1 EXCEPT ![near][gp] = t, ![far][p] = gp],
                                   SetIf(parent1, t, gp), SetIf(colour1, t, Black), gp, p, Red)
      /\ node' = NULL

(* The parent is a left child.  Case 2 leaves the old parent black. *)
RotateRight ==
  /\ BelowRed /\ ~ UncleIsRed /\ ParentIsLeft
  /\ Rotate("left", "right", Black)

(* The parent is a right child.  Case 2 leaves the old parent red. *)
RotateLeft ==
  /\ BelowRed /\ ~ UncleIsRed /\ ~ ParentIsLeft
  /\ Rotate("right", "left", Red)

(* RbTree_deinit_: every node is given back. *)
RbTree_deinit ==
  /\ node = NULL /\ root # NULL
  /\ root' = NULL /\ node' = NULL
  /\ child' = [s \in Sides |-> Empty] /\ parent' = Empty /\ colour' = Empty

Insert == InsertAtRoot \/ InsertBelowBlack \/ Recolour \/ RotateRight \/ RotateLeft

Next ==
  \/ \E k \in Keys : RbTree_add(k) \/ RbTree_find_or_add(k)
  \/ Insert
  \/ RbTree_deinit

Spec == Init /\ [][Next]_vars /\ WF_vars(Insert)

-----------------------------------------------------------------------------
(* Iteration: RbTree_first, and RbTreeNode_next. *)
Leftmost(n) ==
  LET walk[m \in Nodes] == IF child["left"][m] = NULL THEN m ELSE walk[child["left"][m]]
  IN  walk[n]

RbTree_first == IF root = NULL THEN NULL ELSE Leftmost(root)

RbTreeNode_next(n) ==
  LET climb[m \in Nodes] ==
        IF parent[m] # NULL /\ m = child["right"][parent[m]] THEN climb[parent[m]] ELSE parent[m]
  IN  IF child["right"][n] # NULL THEN Leftmost(child["right"][n]) ELSE climb[n]

RbTreeNode_prev(n) ==
  LET right[m \in Nodes] == IF child["right"][m] = NULL THEN m ELSE right[child["right"][m]]
      climb[m \in Nodes] ==
        IF parent[m] # NULL /\ m = child["left"][parent[m]] THEN climb[parent[m]] ELSE parent[m]
  IN  IF child["left"][n] # NULL THEN right[child["left"][n]] ELSE climb[n]

(* RbTreeNode_next_match_: the next node, if it has key k as well. *)
RbTreeNode_next_match(n, k) ==
  LET m == RbTreeNode_next(n) IN IF m # NULL /\ Counted[k][m[1]] = 0 THEN m ELSE NULL

-----------------------------------------------------------------------------
(* The order of names and, for equal ones, of insertion. *)
Precedes(m, n) ==
  \/ \E i \in 1 .. Len(n[1]) :
       /\ SubSeq(m[1], 1, i - 1) = SubSeq(n[1], 1, i - 1)
       /\ Len(m[1]) = i - 1 \/ (Len(m[1]) >= i /\ m[1][i] < n[1][i])
  \/ m[1] = n[1] /\ m[2] < n[2]

(* The least of a set of nodes in the order of keys and then of insertion. *)
Least(S) == IF S = {} THEN NULL ELSE CHOOSE m \in S : \A n \in S \ {m} : Precedes(m, n)

(* The links that lead to a node. *)
LinksTo(n) == {l \in Sides \X Nodes : child[l[1]][l[2]] = n}

(* Links agree in both directions, also between two rounds of RbTree_insert__:
   a node hangs from exactly one link, that of its parent, and the root from
   none. *)
LinksAgree ==
  /\ root = NULL <=> Nodes = {}
  /\ \A n \in Nodes : \A l \in LinksTo(n) : l[2] = parent[n]
  /\ \A n \in Nodes : Cardinality(LinksTo(n)) = IF n = root THEN 0 ELSE 1
  /\ \A n \in Nodes : parent[n] = NULL <=> n = root

(* RbTree_for_each visits every element, in the order of the keys, and equal
   ones in the order in which RbTree_add_ inserted them, whatever rotations
   the insertions made; backwards RbTreeNode_prev undoes each step. *)
IterationIsSorted ==
  LinksAgree =>
    /\ RbTree_first = Least(Nodes)
    /\ \A n \in Nodes :
         LET m == RbTreeNode_next(n) IN
         /\ m = Least({l \in Nodes : Precedes(n, l)})
         /\ m # NULL => RbTreeNode_prev(m) = n
    /\ root # NULL => RbTreeNode_prev(RbTree_first) = NULL

(* RbTree_find_ finds an element exactly when one with that key was added: an
   insertion never moves an element to a side where the search does not go,
   though the two may compare in different ways.  RbTree_find_first_ and
   RbTreeNode_next_match_ go through all equal ones, from the first. *)
FindsWhatWasAdded ==
  LinksAgree =>
    \A k \in Keys :
      LET found == {n \in Nodes : n[1] = k} IN
      /\ RbTree_find(k) # NULL <=> found # {}
      /\ found # {} => RbTree_find_first(k) = {<<k, 1>>}
      /\ \A n \in found :
           RbTreeNode_next_match(n, k) =
             IF n[2] = Cardinality(found) THEN NULL ELSE <<k, n[2] + 1>>

(* The loop invariant of RbTree_insert__, `node is red', and what it is for:
   the only red node below a red one, and the only red root, is the node the
   loop is at.  So gp is never NULL where the code follows it, and no red node
   has a red child when a call returns. *)
OnlyNodeViolates ==
  /\ node # NULL => colour[node] = Red
  /\ \A n \in Nodes \ {node} :
       colour[n] = Red => parent[n] # NULL /\ colour[parent[n]] = Black

(* The loop of RbTree_insert__ ends. *)
InsertEnds == node # NULL ~> node = NULL
=============================================================================
