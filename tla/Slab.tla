-------------------------------- MODULE Slab --------------------------------
(***************************************************************************)
(* The slab allocators of kernel/mm/slab.c.  A slab is a block of pages    *)
(* cut into objects; its free objects are chained through their first      *)
(* word, and the slabs that have a free object are on their allocator's    *)
(* list.  slab_alloc and slab_free change this state under the allocator's *)
(* lock, so each is one step; which slab of the list serves an allocation  *)
(* is left open.  The page allocator is seen as the set of blocks it will  *)
(* still return: free_pages may put a block back or lose it (PageAlloc).   *)
(***************************************************************************)
EXTENDS Integers, FiniteSets, FiniteSetsExt

CONSTANTS
  Slab,         \* blocks of pages that can become slabs
  Allocator,    \* the slab allocators
  NoOwner,      \* the allocator of a block that never was a slab
  Objects       \* object_count_per_slab of each allocator

ASSUME ObjectsAssumption == Objects \in [Allocator -> Nat] /\ \A a \in Allocator : Objects[a] >= 2

ASSUME NoOwnerAssumption == NoOwner \notin Allocator

Null == -1      \* UINT32_MAX in first_free_index and in a free object's next
Of(a) == 0 .. (Objects[a] - 1)
Index == UNION {Of(a) : a \in Allocator}

VARIABLES
  owner,        \* slab.allocator of each slab's head page
  count,        \* slab.head.free_obj_count
  first,        \* slab.head.first_free_index
  next,         \* the next index stored in each free object
  listed,       \* slabs linked into their allocator's slab_head_list
  corrupt,      \* slabs that were linked twice, or unlinked while not linked
  free_obj_count, slab_count,     \* the allocator's own statistics
  live,         \* objects <<slab, index>> in the hands of callers
  pool          \* blocks that alloc_pages may return

slabVars == <<owner, count, first, next, listed, corrupt, free_obj_count, slab_count, live, pool>>

Init ==
  /\ owner = [s \in Slab |-> NoOwner]
  /\ count = [s \in Slab |-> 0]
  /\ first = [s \in Slab |-> Null]
  /\ next = [s \in Slab |-> [i \in Index |-> Null]]
  /\ listed = {}
  /\ corrupt = {}
  /\ free_obj_count = [a \in Allocator |-> 0]
  /\ slab_count = [a \in Allocator |-> 0]
  /\ live = {}
  /\ pool = Slab
-----------------------------------------------------------------------------
MutUnlinkLate(a, s) ==
  /\ s \in listed /\ owner[s] = a
  /\ free_obj_count' = [free_obj_count EXCEPT ![a] = @ - 1]
  /\ count' = [count EXCEPT ![s] = @ - 1]
  /\ listed' = IF count[s] = 0 THEN listed \ {s} ELSE listed
  /\ first' = [first EXCEPT ![s] = IF @ = Null THEN Null ELSE next[s][@]]
  /\ live' = IF first[s] = Null THEN live ELSE live \cup {<<s, first[s]>>}
  /\ UNCHANGED <<owner, next, corrupt, slab_count, pool>>

\* slab_alloc when a slab of the allocator has a free object.
AllocFromListed(a, s) ==
  /\ s \in listed /\ owner[s] = a
  /\ free_obj_count' = [free_obj_count EXCEPT ![a] = @ - 1]
  /\ count' = [count EXCEPT ![s] = @ - 1]
  /\ listed' = IF count[s] = 1 THEN listed \ {s} ELSE listed
  /\ first' = [first EXCEPT ![s] = IF @ = Null THEN Null ELSE next[s][@]]
  /\ live' = IF first[s] = Null THEN live ELSE live \cup {<<s, first[s]>>}
  /\ UNCHANGED <<owner, next, corrupt, slab_count, pool>>

\* slab_alloc when the list is empty: alloc_slab_page links the new block, chains
\* its objects in order, and the first of them is returned.
AllocFromNew(a, s) ==
  /\ \A t \in listed : owner[t] # a
  /\ s \in pool
  /\ pool' = pool \ {s}
  /\ owner' = [owner EXCEPT ![s] = a]
  /\ next' = [next EXCEPT ![s] =
       [i \in Index |-> IF i \in Of(a) /\ i # Objects[a] - 1 THEN i + 1
                        ELSE IF i = Objects[a] - 1 THEN Null ELSE @[i]]]
  /\ first' = [first EXCEPT ![s] = 1]
  /\ count' = [count EXCEPT ![s] = Objects[a] - 1]
  /\ listed' = listed \cup {s}
  /\ corrupt' = corrupt \cup (listed \cap {s})
  /\ free_obj_count' = [free_obj_count EXCEPT ![a] = @ + Objects[a] - 1]
  /\ slab_count' = [slab_count EXCEPT ![a] = @ + 1]
  /\ live' = live \cup {<<s, 0>>}

\* alloc_pages has no block, or found the locks of its sections busy: NULL.
AllocFails(a) == (\A t \in listed : owner[t] # a) /\ UNCHANGED slabVars

slab_alloc(a) == \E s \in Slab : AllocFromListed(a, s) \/ AllocFromNew(a, s)

MutFreeKeepsFirst(s, i) ==
  LET a == owner[s]
  IN /\ <<s, i>> \in live
     /\ count[s] + 1 = 1 \/ count[s] + 1 # Objects[a]
     /\ free_obj_count' = [free_obj_count EXCEPT ![a] = @ + 1]
     /\ count' = [count EXCEPT ![s] = @ + 1]
     /\ listed' = IF count[s] = 0 THEN listed \cup {s} ELSE listed
     /\ corrupt' = IF count[s] = 0 THEN corrupt \cup (listed \cap {s}) ELSE corrupt
     /\ next' = [next EXCEPT ![s] = [@ EXCEPT ![i] = first[s]]]
     /\ live' = live \ {<<s, i>>}
     /\ UNCHANGED <<owner, slab_count, pool, first>>

\* slab_free of an object whose slab keeps other objects: a slab that was full
\* goes back on the list, and the object becomes the head of the chain.
FreeToSlab(s, i) ==
  LET a == owner[s]
  IN /\ <<s, i>> \in live
     /\ count[s] + 1 = 1 \/ count[s] + 1 # Objects[a]
     /\ free_obj_count' = [free_obj_count EXCEPT ![a] = @ + 1]
     /\ count' = [count EXCEPT ![s] = @ + 1]
     /\ listed' = IF count[s] = 0 THEN listed \cup {s} ELSE listed
     /\ corrupt' = IF count[s] = 0 THEN corrupt \cup (listed \cap {s}) ELSE corrupt
     /\ next' = [next EXCEPT ![s] = [@ EXCEPT ![i] = first[s]]]
     /\ first' = [first EXCEPT ![s] = i]
     /\ live' = live \ {<<s, i>>}
     /\ UNCHANGED <<owner, slab_count, pool>>

MutFreeWholeKeepsStats(s, i) ==
  LET a == owner[s]
  IN /\ <<s, i>> \in live
     /\ count[s] + 1 # 1 /\ count[s] + 1 = Objects[a]
     /\ free_obj_count' = [free_obj_count EXCEPT ![a] = @ + 1]
     /\ slab_count' = [slab_count EXCEPT ![a] = @ - 1]
     /\ count' = [count EXCEPT ![s] = @ + 1]
     /\ listed' = listed \ {s}
     /\ corrupt' = corrupt \cup ({s} \ listed)
     /\ live' = live \ {<<s, i>>}
     /\ pool' \in {pool, pool \cup {s}}
     /\ UNCHANGED <<owner, first, next>>

\* slab_free of the last object of a slab: the block goes to free_pages, which puts it
\* back or loses it.  A behaviour ends before the third outcome: free_pages of order 0
\* beside no free page (slab.c:191, page_alloc.c:751) indexes freelist -1, after which
\* nothing is defined (PageAlloc's fault "order").
FreeWholeSlab(s, i) ==
  LET a == owner[s]
  IN /\ <<s, i>> \in live
     /\ count[s] + 1 # 1 /\ count[s] + 1 = Objects[a]
     /\ free_obj_count' = [free_obj_count EXCEPT ![a] = @ + 1 - Objects[a]]
     /\ slab_count' = [slab_count EXCEPT ![a] = @ - 1]
     /\ count' = [count EXCEPT ![s] = @ + 1]
     /\ listed' = listed \ {s}
     /\ corrupt' = corrupt \cup ({s} \ listed)
     /\ live' = live \ {<<s, i>>}
     /\ pool' \in {pool, pool \cup {s}}
     /\ UNCHANGED <<owner, first, next>>

slab_free(s, i) == FreeToSlab(s, i) \/ FreeWholeSlab(s, i)

Next ==
  \/ \E a \in Allocator : slab_alloc(a) \/ AllocFails(a)
  \/ \E o \in live : slab_free(o[1], o[2])

Spec == Init /\ [][Next]_slabVars
-----------------------------------------------------------------------------
InUse == {s \in Slab : \E i \in Index : <<s, i>> \in live}
FreeIn(s) == {i \in Of(owner[s]) : <<s, i>> \notin live}

\* The counters and links keep the ranges of their C types; a slab in use has an owner.
TypeOK ==
  /\ owner \in [Slab -> Allocator \cup {NoOwner}]
  /\ count \in [Slab -> Nat]
  /\ first \in [Slab -> Index \cup {Null}]
  /\ next \in [Slab -> [Index -> Index \cup {Null}]]
  /\ listed \subseteq Slab
  /\ corrupt \subseteq Slab
  /\ live \subseteq Slab \X Index
  /\ pool \subseteq Slab
  /\ \A s \in InUse : owner[s] \in Allocator

\* Depth d gives each free object of s its distance from the end of the chain:
\* the chain starts at first_free_index, passes every free object once, never an
\* object in use, and has free_obj_count links.
ChainDepth(s, d) ==
  /\ \A i \in FreeIn(s) : d[i] \in 1 .. count[s]
  /\ \A i, j \in FreeIn(s) : d[i] = d[j] => i = j
  /\ \A n \in 1 .. count[s] : \E i \in FreeIn(s) : d[i] = n
  /\ IF count[s] = 0 THEN first[s] = Null
     ELSE first[s] \in FreeIn(s) /\ d[first[s]] = count[s]
  /\ \A i \in FreeIn(s) : IF d[i] = 1 THEN next[s][i] = Null
                          ELSE next[s][i] \in FreeIn(s) /\ d[next[s][i]] = d[i] - 1

\* The free objects of every slab in use are exactly those on its chain, so that
\* slab_alloc returns an object nobody holds whenever the slab is on the list.
FreeChain ==
  \A s \in InUse : \E d \in [Of(owner[s]) -> 0 .. Objects[owner[s]]] : ChainDepth(s, d)

\* A slab is on its allocator's list exactly while it has both free objects and
\* objects in use; no slab is linked twice or unlinked twice (slab_free,
\* line 184, guards both ends of the count).
ListedIffPartial ==
  /\ corrupt = {}
  /\ listed = {s \in InUse : count[s] > 0}

\* free_obj_count and slab_count of an allocator sum up its slabs, although
\* slab_alloc and slab_free update the two levels separately.
StatsAgree ==
  \A a \in Allocator :
    LET mine == {s \in InUse : owner[s] = a}
    IN /\ slab_count[a] = Cardinality(mine)
       /\ free_obj_count[a] = MapThenSumSet(LAMBDA s : count[s], mine)
=============================================================================
