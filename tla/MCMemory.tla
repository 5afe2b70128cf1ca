------------------------------ MODULE MCMemory ------------------------------
(***************************************************************************)
(* Memory management around the page allocator, for TLC.  `part` is the    *)
(* one that runs in a behaviour, and the others rest:                      *)
(*  - kmalloc: three of the sixteen classes with their real sizes, 2048    *)
(*    bytes (four objects on two pages, the third and fourth of them on    *)
(*    the last page), 4096 bytes (four objects on four pages) and the last *)
(*    one of 8192 bytes, compete for two blocks of pages; requests lie on  *)
(*    and beside the ends of the classes, and two objects are resized at   *)
(*    the same time;                                                       *)
(*  - slab: the same allocators, for callers that ask for a byte: one      *)
(*    block fills up and empties in every order while at most one object   *)
(*    of the other is in use;                                              *)
(*  - early: every table of at most three memmaps in ten frames, touching  *)
(*    ones and ones across the zones' boundary included;                   *)
(*  - tables: page tables with two entries each and three levels, eight    *)
(*    pages, of which the upper four may hold the page structures;         *)
(*  - mmio: up to three regions are mapped, fail to map, and are given     *)
(*    back, three times at most, and their memory is reused in every       *)
(*    order, once by another user of kmalloc; when none is given back,     *)
(*    five are mapped, through several rotations, until the vmap area is   *)
(*    full;                                                                *)
(*  - areas: every layout of the kernel's areas in nine pages above the    *)
(*    first: the HHDM lies below, between or above the others, touches     *)
(*    them, or overlaps them;                                              *)
(*  - avl: seven keys, enough for double rotations on both sides and for   *)
(*    deleting a node whose successor lies two levels below it.            *)
(***************************************************************************)
EXTENDS Kmalloc

CONSTANTS
  Crowded,                                                            \* slab
  LastFrame, ZoneEnd, Amounts, MAX_ORDER,                             \* early
  PGT_PTE_COUNT, Top, Table, Root, Device, MaxEarly, PAGE_OFFSET,      \* tables
  StructSize, MaxLarge, MaxUp,
  Node, NoNode, Anchor, Word, Sizes, VmapFront, VmapSize, Churn,         \* mmio
  MaxRemoved, Foreign,
  MaxFront, MaxSize                                                   \* areas

VARIABLES
  part,
  phase, memmaps, section, info, list, asc, remaining, taken, crucial, label, blocks,
  pt, boot, regions, ops, clear, structs,
  space, pages, slot, removed, reused,
  areas, range, added,
  tree, keys

earlyVars == <<phase, memmaps, section, info, list, asc, remaining, taken, crucial, label, blocks>>
tableVars == <<pt, boot, regions, ops, clear, structs>>
mmioVars == <<space, pages, slot, removed, reused>>
areaVars == <<areas, range, added>>
avlVars == <<tree, keys>>
memoryVars == <<part, kmallocVars, earlyVars, tableVars, mmioVars, areaVars, avlVars>>

MCObjects == [a \in Allocator |-> 4]
MCForeign == {<<8, 2, 63>>, <<60, 30, 0>>}

Memmap == {m \in [front : 0 .. 9, count : 1 .. 7] : m.front + m.count <= 10}
Follows(m, n) == m.front + m.count <= n.front
Tables ==
  {<<m>> : m \in Memmap}
    \cup {t \in Memmap \X Memmap : Follows(t[1], t[2])}
    \cup {t \in Memmap \X Memmap \X Memmap : Follows(t[1], t[2]) /\ Follows(t[2], t[3])}

AreaNames == {"null_area", "mmio", "kernel", "hhdm"}

Early == INSTANCE EarlyAlloc
Paging == INSTANCE PageTable WITH Frame <- Device, phase <- boot
Regions == INSTANCE Mmio WITH Nil <- NoNode
Layout == INSTANCE KernelPagemap WITH Node <- AreaNames, Nil <- NoNode, space <- areas
Keys == INSTANCE AvlMap WITH Node <- 1 .. 7, Nil <- 0

ASSUME InputsAssumption == Early!TablesOrdered /\ RealClasses /\ RequestsServed

MCInit ==
  /\ part \in {"kmalloc", "slab", "early", "tables", "mmio", "areas", "avl"}
  /\ KInit /\ Paging!Init /\ Regions!Init /\ Keys!Init
  /\ \E t \in IF part = "early" THEN Tables ELSE {<<>>} : Early!InitWith(t)
  /\ \E l \in IF part = "areas" THEN Layout!Layouts ELSE {<<>>} : Layout!InitWith(l)

SlabStep ==
  /\ part = "slab" /\ Next /\ asked' = [o \in live' |-> 1]
  /\ \A s \in Slab \ {Crowded} : Cardinality({o \in live' : o[1] = s}) <= 1
  /\ UNCHANGED <<part, moving, earlyVars, tableVars, mmioVars, areaVars, avlVars>>
KmallocStep ==
  part = "kmalloc" /\ KNext /\ UNCHANGED <<part, earlyVars, tableVars, mmioVars, areaVars, avlVars>>
EarlyStep == part = "early" /\ Early!Next /\ UNCHANGED <<part, kmallocVars, tableVars, mmioVars, areaVars, avlVars>>
TablesStep == part = "tables" /\ Paging!Next /\ UNCHANGED <<part, kmallocVars, earlyVars, mmioVars, areaVars, avlVars>>
MmioStep == part = "mmio" /\ Regions!Next /\ UNCHANGED <<part, kmallocVars, earlyVars, tableVars, areaVars, avlVars>>
AreasStep == part = "areas" /\ Layout!Next /\ UNCHANGED <<part, kmallocVars, earlyVars, tableVars, mmioVars, avlVars>>
AvlStep == part = "avl" /\ Keys!Next /\ UNCHANGED <<part, kmallocVars, earlyVars, tableVars, mmioVars, areaVars>>

MCNext == SlabStep \/ KmallocStep \/ EarlyStep \/ TablesStep \/ MmioStep \/ AreasStep \/ AvlStep

MCSpec == MCInit /\ [][MCNext]_memoryVars

\* The behaviours of boot alone.
EarlySpec == part = "early" /\ MCInit /\ [][EarlyStep]_memoryVars
-----------------------------------------------------------------------------
\* From the claim of the memmaps to the hand-over, every usable frame is in one place:
\* free in one area, handed out, or in one block of the page allocator.  The two lists
\* of early.c hold the same areas in their orders, exactly the frames handed out are
\* crucial, and where no memmaps touch and none crosses the zones boot comes to its end
\* with every block in a section that contains it and has its zone.
EarlyFramesInOnePlace ==
  part = "early" =>
    /\ Early!FramesAccounted /\ Early!ListsAgree /\ Early!AscendingWhenSeparate
    /\ Early!CrucialExact /\ Early!HandedOver /\ Early!SoundWhenSeparate

\* Every block lies in one zone, the one of its section (free_range_of_pages,
\* early.c:554-555: "The range of pages belong to the same zone").
BlocksInTheirZone == Early!BlocksInTheirZone

\* A Clear range is mapped page for page to its frames, and no other page's translation
\* changes: pgmap_at neither skips, overshoots nor replaces a table that is in use.
MapExact == Paging!MapExact


\* An address space's tree and list hold the same nodes, disjoint and in address order.
\* For mmio_space this is so, with a guard page between any two regions and no hole hidden
\* by a hint, as long as no region was given back or failed to map; while regions are only
\* given back, the tree keeps exactly the others; the kernel's areas are refused exactly
\* when they overlap, and largest_free_to_prev of each is the largest hole in its subtree.
AddressSpacesSound ==
  /\ part = "mmio" => /\ Regions!TypeOK /\ Regions!TreeListAgree /\ Regions!GuardBetween
                      /\ Regions!HintsHideNoHole /\ Regions!TreeHoldsMapped
  /\ part = "areas" => Layout!RefusedIffOverlap /\ Layout!ListInOrder /\ Layout!HintsExact

\* The tree holds exactly the keys inserted and not deleted, in search order, and the
\* parent of every child is the node it hangs from: what avlnode_verify asserts, kept by
\* every rotation and deletion.
AvlHoldsKeys == part = "avl" => Keys!LinksAgree /\ Keys!HoldsKeysInOrder
=============================================================================
