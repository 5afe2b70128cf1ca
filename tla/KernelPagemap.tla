--------------------------- MODULE KernelPagemap ----------------------------
(***************************************************************************)
(* fill_kernel_pagemap_struct (kernel/arch/*/mm/init.c): the areas of the  *)
(* kernel's address space are added with addrspace_add_node, the page at 0 *)
(* first, then the vmap area, the kernel image and the HHDM.  The kernel   *)
(* is linked above the vmap area on every architecture; where the HHDM is  *)
(* and how large the kernel is, the boot loader decides.                   *)
(***************************************************************************)
EXTENDS AddressSpace

CONSTANTS
  MaxFront,     \* bound on the addresses of the areas
  MaxSize       \* bound on their sizes

VARIABLES
  space,        \* kernel_pagemap.addrspace
  range,        \* the ranges of the areas
  added         \* how many areas were added; -1 when one was refused (a panic)

vars == <<space, range, added>>

\* The order of the calls.
Areas == <<"null_area", "mmio", "kernel", "hhdm">>

Layouts ==
  LET Place == (1 .. MaxFront) \X (1 .. MaxSize)
  IN {[null_area |-> <<0, 1>>, mmio |-> p[1], kernel |-> p[2], hhdm |-> p[3]] :
        p \in {q \in Place \X Place \X Place : q[2][1] >= q[1][1] + q[1][2]}}

InitWith(layout) == space = ADDRSPACE_INIT /\ added = 0 /\ range = layout

Init == \E layout \in Layouts : InitWith(layout)

\* vma_alloc had no memory for the area: its NULL is dereferenced.
NoArea == space' = Stop(space, "null") /\ UNCHANGED <<range, added>>

AddArea(area) ==
  LET s == ADDRSPACE_NODE_INIT(space, area, range[area][1], range[area][2])
      after == addrspace_add_node(s, area)
  IN /\ space' = after
     /\ added' = IF area \in Members(after) THEN added + 1 ELSE -1
     /\ UNCHANGED range

fill_kernel_pagemap_struct ==
  /\ added \in 0 .. 3 /\ space.stop = "no"
  /\ AddArea(Areas[added + 1]) \/ NoArea

Next == fill_kernel_pagemap_struct

Spec == Init /\ [][Next]_vars
-----------------------------------------------------------------------------
Added == {Areas[i] : i \in 1 .. (IF added = -1 THEN 0 ELSE added)}
Pages(a) == space.at[a].front .. (RangeEnd(space, a) - 1)

\* An area is refused exactly when it overlaps one that was added, although
\* avltree_insert only compares it with those on one path of the tree.
RefusedIffOverlap ==
  /\ \A a, b \in Added : a # b => Pages(a) \cap Pages(b) = {}
  /\ added = -1 => \E a \in Node \ Members(space), b \in Members(space) : Pages(a) \cap Pages(b) # {}

\* add_node_cb puts every area behind the one below it in the address space, so that
\* addrspace_node_prev finds its neighbour; the list has the areas of the tree, and no
\* layout of areas that were allocated makes addrspace_add_node dereference NULL or fail
\* an assertion.
ListInOrder ==
  LET list == ListOf(space)
  IN /\ added \in -1 .. 4 /\ space.stop \in {"no", "null"}
     /\ ToSet(list) = Members(space)
     /\ \A i \in 1 .. Len(list) - 1 : RangeEnd(space, list[i]) <= space.at[list[i + 1]].front

\* Once all areas were added, largest_free_to_prev of every node is what addrspace.h
\* defines it to be: the largest hole under an area of its subtree.
HintsExact ==
  added = 4 => \A n \in Node :
                 space.at[n].largest = Max({HoleBelow(space, m) : m \in Below(space, n)})
=============================================================================
