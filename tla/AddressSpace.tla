---------------------------- MODULE AddressSpace ----------------------------
(***************************************************************************)
(* Address spaces (lib/adt/addrspace.c): a tree of disjoint ranges, ordered *)
(* by address and augmented with the largest hole below each node, and a   *)
(* circular list of the same nodes.  A space s is a tree of AvlTree with   *)
(* the list links prev and next; s.stop says how a call ended that does    *)
(* not return: "assert" (a failed assertion, which panics), "fault" (NULL  *)
(* is dereferenced) or "hang".  A call reads and writes the memory of a    *)
(* node that was freed as it does any other.  Addresses are in pages, to   *)
(* which every caller aligns, so aligning up does nothing.                 *)
(***************************************************************************)
EXTENDS Integers, FiniteSets, Sequences, SequencesExt

CONSTANTS
  Node, Nil,    \* the nodes, and NULL, which is none of them
  Anchor,       \* the list head inside struct address_space
  Word          \* the number of addresses: uint64_t arithmetic is modulo Word

\* What is left of a node that was freed: slab_free clears it.
Cleared == [parent |-> Nil, left |-> Nil, right |-> Nil, height |-> 0, front |-> 0, size |-> 0, largest |-> 0]

ADDRSPACE_INIT == [root |-> Nil, at |-> [n \in Node |-> Cleared], stop |-> "no",
                   prev |-> [n \in Node \cup {Anchor} |-> IF n = Anchor THEN Anchor ELSE Nil],
                   next |-> [n \in Node \cup {Anchor} |-> IF n = Anchor THEN Anchor ELSE Nil]]

ADDRSPACE_NODE_INIT(s, n, front, size) ==
  [s EXCEPT !.at[n] = [Cleared EXCEPT !.front = front, !.size = size], !.prev[n] = n, !.next[n] = n]

Stop(s, how) == IF s.stop = "no" THEN [s EXCEPT !.stop = how] ELSE s

RangeEnd(s, n) == s.at[n].front + s.at[n].size
range_is_loc_above(front, size, loc) == loc >= front /\ loc - front >= size
range_has(front, size, ofront, osize) == ofront >= front /\ ofront - front < size /\ size - (ofront - front) >= osize
MutOverlapsOneWay(s, n, m) == s.at[m].front \in s.at[n].front .. (RangeEnd(s, n) - 1)

Overlaps(s, n, m) == \/ s.at[m].front \in s.at[n].front .. (RangeEnd(s, n) - 1)
                     \/ s.at[n].front \in s.at[m].front .. (RangeEnd(s, m) - 1)

MutAddBefore(s, h, n) ==
  LET before == s.prev[h]
  IN [s EXCEPT !.prev[n] = before, !.next[n] = h, !.prev[h] = n, !.next[before] = n]

\* What follows h may be memory of no node, when h was freed and is in other hands.
list_add(s, h, n) ==
  LET after == s.next[h]
      linked == [s EXCEPT !.prev[n] = h, !.next[n] = after, !.next[h] = n]
  IN IF after = Nil THEN Stop(s, "fault")
     ELSE IF after \notin Node \cup {Anchor} THEN linked
     ELSE [linked EXCEPT !.prev[after] = n]

\* The end of the node before n on the list, the address 0 before the first one.
PrevEnd(s, n) == IF s.prev[n] = Anchor THEN 0 ELSE RangeEnd(s, s.prev[n])

\* The assertions of addrspace_node_prev and range_get_end_assert.
PrevAsserts(s, n) == IF s.prev[n] = Nil THEN FALSE ELSE PrevEnd(s, n) < Word

MutUpdateIgnoresRight(s, n) ==
  LET left == s.at[n].left
      gap == (s.at[n].front - PrevEnd(s, n)) % Word
  IN [s EXCEPT !.at[n].largest = Max({gap, IF left = Nil THEN 0 ELSE s.at[left].largest})]

avltree_update(s, n) ==
  LET gap == (s.at[n].front - PrevEnd(s, n)) % Word
      below == {s.at[c].largest : c \in {s.at[n].left, s.at[n].right} \ {Nil}}
  IN IF ~PrevAsserts(s, n) THEN Stop(s, "assert")
     ELSE [s EXCEPT !.at[n].largest = Max({gap} \cup below)]

avltree_compare(s, n, m) ==
  IF Overlaps(s, n, m) THEN 0
  ELSE IF range_is_loc_above(s.at[n].front, s.at[n].size, s.at[m].front) THEN -1 ELSE 1

INSTANCE AvlTree WITH Update <- avltree_update, Compare <- avltree_compare

\* A parent chain that comes back to itself keeps avltree_fixup going for ever.
Cyclic(s, n) == Len(Ancestors(s, n)) > Cardinality(Node)
-----------------------------------------------------------------------------
(* find_from_start and travserse_tree: at "outer" the search may go left,  *)
(* at "inner" it looks at the hole below the node and may go right, at     *)
(* "up" it looks for the parent of a left child; from the root it takes    *)
(* what follows the last node of the list, whatever in_range ends at.      *)

Found(addr, prev) == [pc |-> "done", node |-> Nil, addr |-> addr, prev |-> prev]
NotFound == [pc |-> "none", node |-> Nil, addr |-> 0, prev |-> Nil]
Broken(how) == [pc |-> how, node |-> Nil, addr |-> 0, prev |-> Nil]
At(pc, n) == [pc |-> pc, node |-> n, addr |-> 0, prev |-> Nil]

Outer(s, n, in, size) ==
  LET left == s.at[n].left
      goLeft == IF left = Nil THEN FALSE
                ELSE range_is_loc_above(in.front, in.size, s.at[n].front) /\ s.at[left].largest >= size
  IN IF goLeft THEN At("outer", left) ELSE At("inner", n)

Inner(s, n, in, size) ==
  LET front == PrevEnd(s, n)
      right == s.at[n].right
      goRight == IF right = Nil THEN FALSE ELSE s.at[right].largest >= size
  IN IF ~PrevAsserts(s, n) THEN Broken("assert")
     ELSE IF range_is_loc_above(in.front, in.size, front) THEN NotFound
     ELSE IF front > s.at[n].front THEN Broken("assert")
     ELSE IF /\ range_has(front, s.at[n].front - front, front, size)
             /\ range_has(in.front, in.size, front, size)
     THEN Found(front, IF s.prev[n] = Anchor THEN Nil ELSE s.prev[n])
     ELSE IF goRight THEN At("outer", right) ELSE At("up", n)

Up(s, n, in, size) ==
  LET parent == s.at[n].parent
      last == s.prev[Anchor]
  IN IF parent = Nil
     THEN IF RangeEnd(s, last) >= Word THEN Broken("assert")
          ELSE IF RangeEnd(s, last) >= in.front + in.size \/ RangeEnd(s, last) + size >= Word
          THEN NotFound
          ELSE Found(RangeEnd(s, last), last)
     ELSE At(IF s.at[parent].left = n THEN "inner" ELSE "up", parent)

find_from_start(s, in, size) ==
  LET Turn(f) == CASE f.pc = "outer" -> Outer(s, f.node, in, size)
                   [] f.pc = "inner" -> Inner(s, f.node, in, size)
                   [] f.pc = "up" -> Up(s, f.node, in, size)
                   [] OTHER -> f
      end == Iterate(Turn, At("outer", s.root), 4 * Cardinality(Node) + 4)
  IN IF s.root = Nil
     THEN IF range_has(in.front, in.size, in.front, size) THEN Found(in.front, Nil) ELSE NotFound
     ELSE IF end.pc \in {"outer", "inner", "up"} THEN Broken("hang") ELSE end
-----------------------------------------------------------------------------
(* The operations.                                                         *)

\* The new node becomes the right child of the one before the hole, whether or not
\* that one has a right child; without one before, it is on the list last.
AddFound(s, n, found) ==
  LET s1 == [s EXCEPT !.at[n].front = found.addr]
      s2 == list_add(s1, found.prev, n)
      linked == [s2 EXCEPT !.at[n].parent = found.prev, !.at[found.prev].right = n]
      place == FindPlace(s1, n)
  IN IF found.prev # Nil
     THEN IF s2.stop # "no" THEN s2
          ELSE IF Cyclic(linked, n) THEN Stop(linked, "hang")
          ELSE insert_at_loc(s2, n, found.prev, "right")
     ELSE IF place.here # Nil THEN Stop(s1, "assert")
     ELSE list_add(insert_at_loc(s1, n, place.parent, place.side), Anchor, n)

add_node_cb(s, n) ==
  LET parent == s.at[n].parent
  IN IF parent = Nil THEN list_add(s, Anchor, n)
     ELSE IF s.at[parent].right = n THEN list_add(s, parent, n)
     ELSE IF s.prev[parent] = Anchor THEN Stop(s, "fault")
     ELSE list_add(s, s.prev[parent], n)

\* Refused, with s as the result, when the range overlaps one it meets on its way down.
addrspace_add_node(s, n) ==
  LET place == FindPlace(s, n)
  IN IF place.here # Nil THEN s
     ELSE FinishInsert(add_node_cb(LinkNode(s, n, place.parent, place.side), n), n)

\* The node leaves the tree; it stays on the list.
addrspace_remove_node(s, n) == avltree_delete_node(s, n)
-----------------------------------------------------------------------------
\* The list from its head on.
ListOf(s) ==
  LET Follow(path) == LET m == s.next[IF path = <<>> THEN Anchor ELSE path[Len(path)]]
                      IN IF m \in Node THEN Append(path, m) ELSE path
  IN Iterate(Follow, <<>>, Cardinality(Node))

\* The hole below n: from the end of the closest node of the tree under it.
HoleBelow(s, n) ==
  s.at[n].front - Max({0} \cup {RangeEnd(s, m) : m \in {m \in Members(s) : s.at[m].front < s.at[n].front}})
=============================================================================
