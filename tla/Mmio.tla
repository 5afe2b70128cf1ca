-------------------------------- MODULE Mmio --------------------------------
(***************************************************************************)
(* The mmio address space (kernel/mm/mmio.c).  A slot is a piece of memory *)
(* that kmalloc hands out for a struct mmio_region.  Everything between    *)
(* the acquire and the release of mmio_space_lock is one step; kfree runs  *)
(* after the release and is a step of its own.  A region that was given    *)
(* back stays on the list, and one that failed to map also in the tree:    *)
(* later calls read and write its memory, as slab_free left it or as the   *)
(* next user of its size class made it.                                    *)
(***************************************************************************)
EXTENDS AddressSpace

CONSTANTS
  Sizes,        \* sizes that are asked for, positive, without the guard page
  VmapFront,    \* in_range: behind the first guard page of the vmap area ...
  VmapSize,     \* ... up to its end
  Churn,        \* bound: a behaviour that gives a region back stays in these slots
  MaxRemoved,   \* bound: regions given back or not mapped
  Foreign       \* what other users of kmalloc leave where a node has its numbers:
                \* a sample of <<front, size, largest>>

VARIABLES
  space,        \* mmio_space and the memory of the regions
  pages,        \* what is mapped for a region: mmio->size
  slot,         \* free, mapped (the caller has it), dying (to be freed), leaked,
                \* or other (it is no region any more)
  removed,      \* how many nodes were freed after they had been added
  reused        \* a region failed to map, or was asked for after one was given back

vars == <<space, pages, slot, removed, reused>>

GUARD_PAGE_SIZE == 1
MutInRangeNoGuard == [front |-> VmapFront - GUARD_PAGE_SIZE, size |-> VmapSize + GUARD_PAGE_SIZE]

InRange == [front |-> VmapFront, size |-> VmapSize]

Init ==
  /\ space = ADDRSPACE_INIT /\ pages = [n \in Node |-> 0] /\ slot = [n \in Node |-> "free"]
  /\ removed = 0 /\ reused = FALSE

Running == space.stop = "no"

MutNoGuard(n, size, mapped) ==
  LET s == ADDRSPACE_NODE_INIT(space, n, 0, size)
      found == find_from_start(s, InRange, size)
  IN /\ Running /\ slot[n] = "free"
     /\ found.pc = "done"
     /\ space' = AddFound(s, n, found)
     /\ pages' = [pages EXCEPT ![n] = IF mapped THEN size ELSE 0]
     /\ slot' = [slot EXCEPT ![n] = IF mapped THEN "mapped" ELSE "dying"]
     /\ removed' = removed + (IF mapped THEN 0 ELSE 1)
     /\ reused' = (reused \/ removed' # 0)

\* kmalloc gave slot n; arch_make_mapping succeeds or not.
map_mmio_region(n, size, mapped) ==
  LET s == ADDRSPACE_NODE_INIT(space, n, 0, size + GUARD_PAGE_SIZE)
      found == find_from_start(s, InRange, size + GUARD_PAGE_SIZE)
  IN /\ Running /\ slot[n] = "free"
     /\ found.pc = "done"
     /\ space' = AddFound(s, n, found)
     /\ pages' = [pages EXCEPT ![n] = IF mapped THEN size ELSE 0]
     /\ slot' = [slot EXCEPT ![n] = IF mapped THEN "mapped" ELSE "dying"]
     /\ removed' = removed + (IF mapped THEN 0 ELSE 1)
     /\ reused' = (reused \/ removed' # 0)

\* No hole is found: the region that kmalloc returned is forgotten.
NoSpace(n, size) ==
  LET s == ADDRSPACE_NODE_INIT(space, n, 0, size + GUARD_PAGE_SIZE)
  IN /\ Running /\ slot[n] = "free"
     /\ find_from_start(s, InRange, size + GUARD_PAGE_SIZE).pc = "none"
     /\ space' = s
     /\ slot' = [slot EXCEPT ![n] = "leaked"]
     /\ UNCHANGED <<pages, removed, reused>>

\* The search fails an assertion or does not end.
SearchBreaks(n, size) ==
  LET s == ADDRSPACE_NODE_INIT(space, n, 0, size + GUARD_PAGE_SIZE)
      found == find_from_start(s, InRange, size + GUARD_PAGE_SIZE)
  IN /\ Running /\ slot[n] = "free"
     /\ found.pc \in {"assert", "hang"}
     /\ space' = Stop(s, found.pc)
     /\ UNCHANGED <<pages, slot, removed, reused>>

vunmap_mmio(n) ==
  /\ Running /\ slot[n] = "mapped"
  /\ space' = addrspace_remove_node(space, n)
  /\ pages' = [pages EXCEPT ![n] = 0]
  /\ slot' = [slot EXCEPT ![n] = "dying"]
  /\ removed' = removed + 1
  /\ UNCHANGED reused

\* slab_free clears the object before it is put on the free list.
kfree(n) ==
  /\ Running /\ slot[n] = "dying"
  /\ space' = [space EXCEPT !.at[n] = Cleared, !.prev[n] = Nil, !.next[n] = Nil]
  /\ slot' = [slot EXCEPT ![n] = "free"]
  /\ UNCHANGED <<pages, removed, reused>>

\* Another user of kmalloc gets the memory: its links lead nowhere or somewhere else.
kmalloc(n) ==
  /\ Running /\ slot[n] = "free"
  /\ \E f \in Foreign, next \in {Nil, "elsewhere"} :
       space' = [space EXCEPT !.next[n] = next,
                              !.at[n].front = f[1], !.at[n].size = f[2], !.at[n].largest = f[3]]
  /\ slot' = [slot EXCEPT ![n] = "other"]
  /\ UNCHANGED <<pages, removed, reused>>

\* Bounds: a region is given back only while the slots outside Churn are free, and they
\* stay so afterwards; one slot at most goes into other hands then.  Before, all free
\* slots are alike: one of Churn is taken first.
Churning == removed < MaxRemoved /\ \A n \in Node \ Churn : slot[n] = "free"
Abandoned == removed # 0 /\ \A n \in Node : slot[n] # "other"
FreeIn(set) == {n \in set : slot[n] = "free"}
OneOf(set) == IF set = {} THEN {} ELSE {CHOOSE n \in set : TRUE}
Usable ==
  IF removed # 0 THEN Churn
  ELSE IF FreeIn(Churn) # {} THEN OneOf(FreeIn(Churn))
  ELSE OneOf(FreeIn(Node))

Next ==
  \/ \E n \in Usable, size \in Sizes :
       map_mmio_region(n, size, TRUE) \/ NoSpace(n, size) \/ SearchBreaks(n, size)
  \/ \E n \in Churn : /\ Churning
                      /\ vunmap_mmio(n) \/ \E size \in Sizes : map_mmio_region(n, size, FALSE)
  \/ \E n \in Churn : kfree(n)
  \/ Abandoned /\ \E n \in Churn : kmalloc(n)

Spec == Init /\ [][Next]_vars
-----------------------------------------------------------------------------
Mapped == {n \in Node : slot[n] = "mapped"}

Slots == {"free", "mapped", "dying", "leaked", "other"}

\* Slots have a state, the tree has a root or none, and a call returns or not.
TypeOK ==
  /\ space.stop \in {"no", "assert", "fault", "hang"}
  /\ space.root \in Node \cup {Nil}
  /\ slot \in [Node -> Slots]

\* Giving regions back, in any order and whatever becomes of their memory, leaves the
\* tree with exactly the regions that are still mapped, in address order and apart:
\* vunmap_mmio reads the memory of freed neighbours on the list, but only for the hints.
TreeHoldsMapped ==
  Running /\ ~reused =>
    /\ Members(space) = Mapped
    /\ \A n \in Mapped : \A m \in Below(space, n) \ {n} :
         IF m \in Below(space, space.at[n].left) THEN RangeEnd(space, m) <= space.at[n].front
                                                 ELSE RangeEnd(space, n) <= space.at[m].front

\* As long as no region was given back or failed to map, every search returns, the tree
\* and the list hold exactly the mapped regions, and the list is in address order with
\* no two regions overlapping: addrspace_find_space_and_add_node keeps the two
\* structures in step through every rotation.
TreeListAgree ==
  removed = 0 =>
    LET list == ListOf(space)
    IN /\ Running
       /\ Members(space) = Mapped /\ ToSet(list) = Mapped /\ Len(list) = Cardinality(Mapped)
       /\ \A i \in 1 .. Len(list) - 1 : RangeEnd(space, list[i]) <= space.at[list[i + 1]].front

\* An access that runs over the end of one region's pages meets a page that map_mmio_region
\* maps for no other region, and none is mapped over the first page of the vmap area, which
\* it leaves out of in_range: as long as no region was given back or failed to map.
GuardBetween ==
  removed = 0 => \A n \in Mapped :
    /\ VmapFront <= space.at[n].front
    /\ \A m \in Mapped : space.at[n].front < space.at[m].front =>
                           space.at[n].front + pages[n] + GUARD_PAGE_SIZE <= space.at[m].front

\* No hint hides a hole: as long as no region was given back, largest_free_to_prev of a
\* node is at least the largest hole in its subtree, although the hint of the first
\* region is computed before it is on the list (addrspace.c:259-267) and is too large.
HintsHideNoHole ==
  removed = 0 => \A n \in Members(space) : \A m \in Below(space, n) :
                   space.at[n].largest >= HoleBelow(space, m)

\* addrspace.c:13 and range.c:17 assert that a node of the tree is on the list and that
\* the node before it ends before it begins.
AssertsHold == space.stop # "assert"
=============================================================================
