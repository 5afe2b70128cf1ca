------------------------------- MODULE AvlMap -------------------------------
(***************************************************************************)
(* A tree of lib/adt/avltree.c used as a set of keys: avltree_insert and   *)
(* avltree_delete in any order, as tests/avltree.c uses it (the nodes are  *)
(* their own keys, and no update callback is given).                       *)
(***************************************************************************)
EXTENDS Integers, FiniteSets

CONSTANTS
  Node,         \* the keys: integers
  Nil           \* NULL, none of them

VARIABLES
  tree,
  keys          \* what was inserted and not deleted again

vars == <<tree, keys>>

NoUpdate(t, n) == t
compare(t, n, m) == n - m

INSTANCE AvlTree WITH Update <- NoUpdate, Compare <- compare

\* The links of a node outside the tree mean nothing.
Scrub(t, n) == [t EXCEPT !.at[n] = Empty.at[n]]

Init == tree = Empty /\ keys = {}

MutInsertMirrored(n) ==
  LET place == FindPlace(tree, n)
  IN /\ place.here = Nil
     /\ tree' = insert_at_loc(tree, n, place.parent, IF place.side = "left" THEN "right" ELSE "left")
     /\ keys' = keys \cup {n}

\* A key that is in the tree is refused.
avltree_insert(n) ==
  LET place == FindPlace(tree, n)
  IN /\ place.here = Nil
     /\ tree' = insert_at_loc(tree, n, place.parent, place.side)
     /\ keys' = keys \cup {n}

\* A key that is not in the tree is ignored.
avltree_delete(n) ==
  LET place == FindPlace(tree, n)
  IN /\ place.here = n
     /\ tree' = Scrub(avltree_delete_node(tree, n), n)
     /\ keys' = keys \ {n}

Next == \E n \in Node : avltree_insert(n) \/ avltree_delete(n)

Spec == Init /\ [][Next]_vars
-----------------------------------------------------------------------------
\* Links lead to nodes or nowhere, and every node of the tree has a height that
\* node_height can tell from that of NULL.
TypeOK ==
  /\ tree.root \in Node \cup {Nil}
  /\ \A n \in Node : {tree.at[n].parent, tree.at[n].left, tree.at[n].right} \subseteq Node \cup {Nil}
  /\ \A n \in Members(tree) : tree.at[n].height \in 1 .. Cardinality(Node)
  /\ keys \subseteq Node

\* The parent of every child is the node it hangs from, no node hangs twice, and the
\* root has no parent: what avlnode_verify asserts after every rotation.  All links
\* lead to nodes or nowhere.
LinksAgree ==
  /\ TypeOK
  /\ tree.root # Nil => tree.at[tree.root].parent = Nil
  /\ \A n \in Members(tree) :
       /\ tree.at[n].left # tree.at[n].right \/ tree.at[n].left = Nil
       /\ \A c \in {tree.at[n].left, tree.at[n].right} \ {Nil} : tree.at[c].parent = n

\* Exactly the inserted keys are in the tree, in search order: rotations and
\* deletions lose and misplace nothing, so that every later search succeeds.
HoldsKeysInOrder ==
  /\ Members(tree) = keys
  /\ \A n \in keys : /\ \A m \in Below(tree, tree.at[n].left) : m < n
                     /\ \A m \in Below(tree, tree.at[n].right) : m > n
=============================================================================
