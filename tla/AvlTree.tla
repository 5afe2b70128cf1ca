------------------------------ MODULE AvlTree -------------------------------
(***************************************************************************)
(* The balanced trees of lib/adt/avltree.c, as operations on a tree        *)
(* [root, at], where at[n] holds the links and the height stored in node   *)
(* n.  A user of the tree instantiates the module with its callbacks.      *)
(* avltree_fixup walks from a node to the root; since a rotation leaves    *)
(* the parent of the rotated subtree where it was, the walk visits the     *)
(* ancestors the node had at the beginning.                                *)
(***************************************************************************)
EXTENDS Integers, FiniteSets, Sequences

LOCAL INSTANCE SequencesExt

CONSTANTS
  Node,         \* the nodes
  Nil,          \* NULL
  Update(_, _), \* (t, n): stores what n's owner keeps about the subtree of n
  Compare(_, _, _)  \* (t, n, m): negative, zero or positive

Empty == [root |-> Nil, at |-> [n \in Node |-> [parent |-> Nil, left |-> Nil, right |-> Nil, height |-> 0]]]

node_height(t, n) == IF n = Nil THEN 0 ELSE t.at[n].height
node_balance(t, n) == node_height(t, t.at[n].right) - node_height(t, t.at[n].left)
larger(x, y) == IF x > y THEN x ELSE y

reset_node_height(t, n) ==
  [t EXCEPT !.at[n].height = 1 + larger(node_height(t, t.at[n].left), node_height(t, t.at[n].right))]

\* *link = v, for the link get_node_link finds: the one in n's parent, or the root.
SetLink(t, parent, n, v) ==
  IF parent = Nil THEN [t EXCEPT !.root = v]
  ELSE IF t.at[parent].left = n THEN [t EXCEPT !.at[parent].left = v]
  ELSE [t EXCEPT !.at[parent].right = v]

SetParent(t, n, p) == IF n = Nil THEN t ELSE [t EXCEPT !.at[n].parent = p]

MutRotateKeepsParent(t, n) ==
  LET top == t.at[n].right
      moved == t.at[top].left
      t1 == [t EXCEPT !.at[n].right = moved, !.at[n].parent = top,
                      !.at[top].left = n, !.at[top].parent = t.at[n].parent]
  IN SetLink(t1, t.at[n].parent, n, top)

\* The rotations, with the store of the new top into the link of the old one.
rotate_left(t, n) ==
  LET top == t.at[n].right
      moved == t.at[top].left
      t1 == [t EXCEPT !.at[n].right = moved, !.at[n].parent = top,
                      !.at[top].left = n, !.at[top].parent = t.at[n].parent]
  IN SetLink(SetParent(t1, moved, n), t.at[n].parent, n, top)

rotate_right(t, n) ==
  LET top == t.at[n].left
      moved == t.at[top].right
      t1 == [t EXCEPT !.at[n].left = moved, !.at[n].parent = top,
                      !.at[top].right = n, !.at[top].parent = t.at[n].parent]
  IN SetLink(SetParent(t1, moved, n), t.at[n].parent, n, top)

\* One turn of the loop of avltree_fixup.  The height of the node that a
\* rotation moves up is only computed in a double rotation, and there before
\* the second rotation; the callback is not called for it in the left-heavy case.
FixNode(t, n) ==
  LET child == IF node_balance(t, n) > 1 THEN t.at[n].right ELSE t.at[n].left
      inner == node_height(t, t.at[child].left)
      outer == node_height(t, t.at[child].right)
  IN IF node_balance(t, n) > 1
     THEN LET t1 == rotate_right(t, child)
              top == t1.at[n].right
              t2 == IF inner > outer THEN Update(reset_node_height(t1, top), top) ELSE t
              t3 == reset_node_height(rotate_left(t2, n), n)
          IN Update(Update(t3, n), t2.at[n].right)
     ELSE IF node_balance(t, n) < -1
     THEN LET t1 == rotate_left(t, child)
              top == t1.at[n].left
              t2 == IF inner < outer THEN reset_node_height(t1, top) ELSE t
              t3 == reset_node_height(rotate_right(t2, n), n)
          IN Update(Update(t3, n), t2.at[n].left)
     ELSE Update(reset_node_height(t, n), n)

\* A loop: N turns of Step from x on, or fewer when Step leaves its argument alone.
Iterate(Step(_), x, N) ==
  LET turn[k \in 0 .. N] == IF k = 0 THEN x ELSE Step(turn[k - 1])
  IN turn[N]

\* n, its parent, its parent's parent, ... up to the root.
Ancestors(t, n) ==
  LET Up(path) == IF path = <<>> THEN path
                  ELSE LET p == t.at[path[Len(path)]].parent IN IF p = Nil THEN path ELSE Append(path, p)
  IN Iterate(Up, IF n = Nil THEN <<>> ELSE <<n>>, Cardinality(Node))

avltree_fixup(t, n) == FoldLeft(FixNode, t, Ancestors(t, n))

\* The new node becomes the given child of parent.
LinkNode(t, n, parent, side) ==
  LET t1 == [t EXCEPT !.at[n] = [@ EXCEPT !.parent = parent, !.left = Nil, !.right = Nil, !.height = 1]]
  IN IF parent = Nil THEN [t1 EXCEPT !.root = n]
     ELSE IF side = "left" THEN [t1 EXCEPT !.at[parent].left = n]
     ELSE [t1 EXCEPT !.at[parent].right = n]

\* The rest of insert_at_loc, after the caller's added_node callback.
FinishInsert(t, n) == avltree_fixup(Update(t, n), t.at[n].parent)

\* Without an added_node callback.
insert_at_loc(t, n, parent, side) == FinishInsert(LinkNode(t, n, parent, side), n)

\* The search of avltree_insert: where n belongs below the root, or which node it
\* is equal to.
FindPlace(t, n) ==
  LET Down(d) == IF d.here = Nil THEN d
                 ELSE IF Compare(t, n, d.here) = 0 THEN d
                 ELSE IF Compare(t, n, d.here) < 0
                 THEN [parent |-> d.here, side |-> "left", here |-> t.at[d.here].left]
                 ELSE [parent |-> d.here, side |-> "right", here |-> t.at[d.here].right]
  IN Iterate(Down, [parent |-> Nil, side |-> "root", here |-> t.root], Cardinality(Node))

\* The leftmost node of the subtree of n.
Leftmost(t, n) ==
  LET Down(m) == IF t.at[m].left = Nil THEN m ELSE t.at[m].left
  IN Iterate(Down, n, Cardinality(Node))

\* A node with two children first trades places with its successor, which is deeper
\* in the right subtree or its root; then its only child takes its place.
TradePlaces(t, n) ==
  LET me == t.at[n]
      s == Leftmost(t, me.right)
      direct == s = me.right
      t1 == [t EXCEPT !.at[s] = [@ EXCEPT !.left = me.left, !.height = me.height, !.parent = me.parent,
                                          !.right = IF direct THEN n ELSE me.right],
                      !.at[n] = [@ EXCEPT !.left = Nil, !.right = t.at[s].right, !.height = t.at[s].height,
                                          !.parent = IF direct THEN s ELSE t.at[s].parent]]
      t2 == IF direct THEN t1 ELSE [t1 EXCEPT !.at[t.at[s].parent].left = n, !.at[me.right].parent = s]
  IN SetLink(SetParent([t2 EXCEPT !.at[me.left].parent = s], t.at[s].right, n), me.parent, n, s)

avltree_delete_node(t, n) ==
  LET t1 == IF t.at[n].left # Nil /\ t.at[n].right # Nil THEN TradePlaces(t, n) ELSE t
      me == t1.at[n]
      child == IF me.left # Nil THEN me.left ELSE me.right
  IN avltree_fixup(SetParent(SetLink(t1, me.parent, n, child), child, me.parent), me.parent)
-----------------------------------------------------------------------------
(* What a tree looks like.                                                 *)

\* The nodes reachable from n through left and right.
Below(t, n) ==
  LET Widen(S) == S \cup (UNION {{t.at[m].left, t.at[m].right} : m \in S} \ {Nil})
  IN Iterate(Widen, {n} \ {Nil}, Cardinality(Node))

Members(t) == Below(t, t.root)
=============================================================================
