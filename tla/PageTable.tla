------------------------------ MODULE PageTable -----------------------------
(***************************************************************************)
(* Mapping and unmapping ranges (kernel/mm/pgmap.c) on the walker, for the *)
(* three-level RISC-V tables, where every level above the first may hold   *)
(* large pages.  While the kernel boots, the memory map is mapped and the  *)
(* references of its tables are counted afterwards; then regions come and  *)
(* go.  No caller asks pgmap_at to overwrite mappings or pgunmap_at to     *)
(* split large pages, and these paths are left out.                        *)
(***************************************************************************)
EXTENDS PageWalk

CONSTANTS
  Frame,        \* first frames of regions
  MaxEarly,     \* bound: ranges of the memory map
  PAGE_OFFSET,  \* where the page structures start
  StructSize,   \* how much of their table lies in the addresses modelled
  MaxLarge,     \* bound: large pages the boot allocator has
  MaxUp         \* bound: calls after boot

VARIABLES
  pt,           \* the tables and the walker (see PageWalk)
  phase,        \* early, counting or up
  regions,      \* what callers have mapped, in the order of mapping
  ops,          \* calls after boot
  clear,        \* whether every range mapped so far was Clear
  structs       \* the size of the page structures, the large pages boot had for them

StructFrame == 2 * PAGE_SIZE_AT_LEVEL(Top + 1)  \* frames no region has

vars == <<pt, phase, regions, ops, clear, structs>>

Virt == 0 .. PAGE_SIZE_AT_LEVEL(Top + 1) - 1
LARGEPAGE_LEVELS == 2 .. Top

\* A mapping in progress: the walk, the offset mapped so far and what map_* returned.
Made(s, off, ret) == [s |-> s, off |-> off, ret |-> ret]

\* Callers panic where the walker does not succeed.
Failed(s) == Stopped(s) \/ s.res # "ok"
Fail(s) == IF Stopped(s) THEN s ELSE Panic(s)

\* Moves to the next table at a level; MAP_RESTART when a larger page may fit there.
NextTable(s, level, off) ==
  LET Moved(n, above) ==
        IF Failed(n) THEN Made(Fail(n), off, "done")
        ELSE Made(n, off, IF above > Top \/ n.w.idx[above] = 0 THEN "restart" ELSE "more")
      Move(n) == Moved(n, IF level = 1 THEN 2 ELSE n.w.level + 1)
  IN Move(ptwalker_next_with_options(s, level, FALSE, FALSE, TRUE))

RECURSIVE map_large_at_level_no_overwrite(_, _, _, _, _, _)
map_large_at_level_no_overwrite(s, phys, off, size, level, should_ref) ==
  LET RECURSIVE Fill(_, _)
      Moved(m, p) == IF p + PAGE_SIZE_AT_LEVEL(level) > size THEN Made(m, p, "continue") ELSE Fill(m, p)
      Written(r, p) ==
        IF Stopped(r) \/ p = size THEN Made(r, p, "done")
        ELSE IF r.w.idx[level] = PGT_PTE_COUNT - 1 THEN NextTable(r, level, p)
        ELSE Moved([r EXCEPT !.w.idx[level] = @ + 1], p)
      Fill(u, o) == Written(pte_write(u, level, ToPage(phys + o)), o + PAGE_SIZE_AT_LEVEL(level))
      Onward(m) ==
        IF m.ret = "more" THEN map_large_at_level_no_overwrite(m.s, phys, m.off, size, level, should_ref) ELSE m
      Filled(f) == IF Failed(f) THEN Made(Fail(f), off, "done") ELSE Onward(Fill(f, off))
  IN Filled(ptwalker_fill_in_to(s, level, should_ref))

RECURSIVE map_large_at_top_level_no_overwrite(_, _, _, _)
map_large_at_top_level_no_overwrite(s, phys, off, size) ==
  LET Moved(m, p) ==
        IF p + PAGE_SIZE_AT_LEVEL(Top) > size THEN Made(m, p, "continue")
        ELSE map_large_at_top_level_no_overwrite(m, phys, p, size)
      Written(r, p) ==
        IF Stopped(r) \/ p = size THEN Made(r, p, "continue") ELSE Moved([r EXCEPT !.w.idx[Top] = @ + 1], p)
  IN Written(pte_write(s, Top, ToPage(phys + off)), off + PAGE_SIZE_AT_LEVEL(Top))

map_large_at_level(s, phys, off, size, level, should_ref) ==
  IF level # Top THEN map_large_at_level_no_overwrite(s, phys, off, size, level, should_ref)
  ELSE map_large_at_top_level_no_overwrite(s, phys, off, size)

\* Whether the range is complete is only asked behind entries that are not the last of
\* their table.
RECURSIVE MapPages(_, _, _, _, _)
MapPages(s, phys, off, size, should_ref) ==
  LET RECURSIVE Fill(_, _)
      Moved(m, o) == IF o = size THEN Made(m, o, "done") ELSE Fill(m, o)
      Written(r, o) ==
        IF Stopped(r) THEN Made(r, o, "done")
        ELSE IF r.w.idx[1] = PGT_PTE_COUNT - 1 THEN NextTable(r, 1, o)
        ELSE Moved([r EXCEPT !.w.idx[1] = @ + 1], o)
      Fill(u, o) == Written(pte_write(u, 1, ToPage(phys + o)), o + 1)
      Onward(m) == IF m.ret = "more" THEN MapPages(m.s, phys, m.off, size, should_ref) ELSE m
      Filled(f) == IF Failed(f) THEN Made(Fail(f), off, "done") ELSE Onward(Fill(f, off))
  IN Filled(ptwalker_fill_in_to(s, 1, should_ref))

map_normal(s, phys, off, size, should_ref) ==
  IF off >= size THEN Made(s, off, "done") ELSE MapPages(s, phys, off, size, should_ref)

MutHighestAny(s) == Top
\* The level whose index is the first that is not zero: larger pages would start earlier.
HighestLargepageLevel(s) ==
  LET set == {l \in Level : s.w.idx[l] # 0} IN IF set = {} THEN 0 ELSE Min(set)

RECURSIVE pgmap_with_ptwalker(_, _, _, _, _)
pgmap_with_ptwalker(s, phys, off, size, should_ref) ==
  LET highest == HighestLargepageLevel(s)
      Fits(o, level) ==
        /\ level <= highest
        /\ (phys + o) % PAGE_SIZE_AT_LEVEL(level) = 0
        /\ o + PAGE_SIZE_AT_LEVEL(level) <= size
      RECURSIVE Try(_, _)
      Tried(r, level) == IF Stopped(r.s) \/ r.ret \in {"done", "restart"} THEN r ELSE Try(r, level - 1)
      Try(m, level) ==
        IF level = 1 THEN [map_normal(m.s, phys, m.off, size, should_ref) EXCEPT !.ret = IF @ = "done" THEN @ ELSE "restart"]
        ELSE Tried(IF highest > 1 /\ Fits(m.off, level)
                   THEN map_large_at_level(m.s, phys, m.off, size, level, should_ref) ELSE m, level)
      Again(m) ==
        IF Stopped(m.s) \/ m.ret = "done" \/ m.off >= size THEN m.s
        ELSE pgmap_with_ptwalker(m.s, phys, m.off, size, should_ref)
  IN Again(Try(Made(s, off, "continue"), Max(LARGEPAGE_LEVELS)))

pgmap_at(s, phys, virt, size, is_in_early) ==
  pgmap_with_ptwalker(ptwalker_create_for_pagemap(s, virt), phys, 0, size, ~is_in_early)

\* Entries are cleared at the highest level the size of the range allows, whether the
\* range is aligned to it or not.
UnmapLevel(s, size) ==
  LET short == {l \in s.w.level + 1 .. Top : size < PAGE_SIZE_AT_LEVEL(l)}
  IN IF short = {} THEN s.w.level ELSE Min(short) - 1
LevelFor(level, left) == Max({l \in 1 .. level : left >= PAGE_SIZE_AT_LEVEL(l)})

RECURSIVE UnmapFrom(_, _, _, _)
UnmapFrom(s, off, size, level) ==
  IF level < s.w.level THEN [s EXCEPT !.res = "refused"]
  ELSE LET Moved(n, done) ==
             IF Stopped(n) THEN n
             ELSE IF n.res # "ok" THEN [n EXCEPT !.res = "refused"]
             ELSE UnmapFrom(n, done, size, LevelFor(level, size - done))
           Dropped(d, done) ==
             IF Stopped(d) THEN d
             ELSE IF done = size THEN [d EXCEPT !.res = "ok"]
             ELSE Moved(ptwalker_next([d EXCEPT !.w.level = level]), done)
           Cleared(c) ==
             IF Stopped(c) THEN c
             ELSE Dropped(ptwalker_deref_from_level(c, s.w.level), off + PAGE_SIZE_AT_LEVEL(level))
       IN Cleared(pte_write(s, level, Absent))

pgunmap_at(s, virt, size) ==
  LET From(w) == UnmapFrom(w, 0, size, UnmapLevel(w, size)) IN From(ptwalker_create_for_pagemap(s, virt))
-----------------------------------------------------------------------------
init_table_page(s, t) == [s EXCEPT !.ref[t] = 1]

MutInitNone(s, levels) == s
InitTables(s, levels) == [s EXCEPT !.ref = [t \in Table |-> IF \E l \in levels : s.w.tables[l] = t THEN 1 ELSE @[t]]]
CountTables(s, levels) ==
  [s EXCEPT !.ref = [t \in Table |-> IF \E l \in levels : s.w.tables[l] = t THEN @[t] + 1 ELSE @[t]]]

AtEnd(s) == s.w.idx[s.w.level] = PGT_PTE_COUNT - 1

\* Moves on one entry, initialises the tables that are new on the way and counts them
\* and the entry.
RECURSIVE CountEntries(_, _, _)
CountEntries(s, i, length) ==
  IF i >= length THEN s
  ELSE LET Zeros(n) == {l \in n.w.level .. Top : \A k \in n.w.level .. l : n.w.idx[k] = 0}
           End(n, last) == IF last = Top THEN n.w.level ELSE last + 1
           New(n, zeros) ==
             CountTables(InitTables(n, zeros), n.w.level + 1 .. End(n, Max(zeros \cup {n.w.level - 1})))
           Count(n, zeros) ==
             IF \E l \in zeros \cup {n.w.level} : n.w.tables[l] = Nil THEN Wild(n)
             ELSE CountEntries(CountTables(IF AtEnd(s) \/ s.w.level > n.w.level THEN New(n, zeros) ELSE n, {n.w.level}),
                               i + PAGE_SIZE_AT_LEVEL(n.w.level), length)
           Moved(n) == IF Failed(n) THEN Fail(n) ELSE Count(n, Zeros(n))
       IN Moved(ptwalker_next_with_options(s, s.w.level, FALSE, FALSE, FALSE))

mm_early_refcount_alloced_map(s, virt, length) ==
  LET From(w) == CountEntries(InitTables(w, {l \in w.w.level .. Top : w.ref[w.w.tables[l]] = 0}), 0, length)
  IN From(ptwalker_create_for_pagemap(init_table_page(s, Root), virt))
-----------------------------------------------------------------------------
\* alloc_region maps fresh frames, the largest pages first: m holds the walk, the size left,
\* the address, the frames used and the large pages of each level still to be had.
\* TryLarge stands for its 1 GiB and 2 MiB parts, TryNormal for its 4 KiB part.
MutStaysInTable(s, level) == [s EXCEPT !.w.idx[level] = 0, !.res = "ok"]
NextStruct(s, level) == ptwalker_next_with_options([s EXCEPT !.w.idx[level] = PGT_PTE_COUNT - 1], level, TRUE, TRUE, FALSE)
WriteStruct(m, level, i) ==
  [m EXCEPT !.s = pte_write([m.s EXCEPT !.w.idx[level] = i], level, ToPage(StructFrame + m.used)),
            !.used = @ + PAGE_SIZE_AT_LEVEL(level)]
EndStruct(m, s) == [m EXCEPT !.s = Fail(s)]

RECURSIVE TryLarge(_, _)
RECURSIVE TryNormal(_)
TryLarge(m, level) ==
  LET size == PAGE_SIZE_AT_LEVEL(level)
      RECURSIVE Fill(_, _)
      Lower(x) == IF level = 2 THEN TryNormal(x) ELSE TryLarge(x, level - 1)
      Used(x, s) == [x EXCEPT !.s = s, !.large[level] = @ - 1]
      Onward(x, i) ==
        IF x.left - size < size THEN Lower([x EXCEPT !.s.w.idx[level] = i, !.left = @ - size])
        ELSE Fill([x EXCEPT !.left = @ - size, !.virt = @ + size], i)
      NextOne(x, n) ==
        IF Failed(n) THEN EndStruct(x, n)
        ELSE IF n.w.idx[level + 1] = 0 THEN TryLarge(Used(x, n), level + 1)
        ELSE Onward(Used(x, n), 0)
      Written(x, i, idx) ==
        IF i + 1 = PGT_PTE_COUNT THEN NextOne(x, NextStruct(x.s, level))
        ELSE Onward(Used(x, [x.s EXCEPT !.w.idx[level] = idx]), i + 1)
      Fill(x, i) == IF x.large[level] = 0 THEN Lower(x) ELSE Written(WriteStruct(x, level, i), i, x.s.w.idx[level])
      Filled(f) == IF Failed(f) THEN EndStruct(m, f) ELSE Fill([m EXCEPT !.s = f], f.w.idx[level])
  IN IF m.left < size \/ m.virt % size # 0 THEN Lower(m) ELSE Filled(ptwalker_fill_in_to(m.s, level, FALSE))

TryNormal(m) ==
  LET RECURSIVE Fill(_, _)
      NextOne(x, n) ==
        IF Failed(n) THEN EndStruct(x, n)
        ELSE IF n.w.idx[2] = 0 THEN TryLarge([x EXCEPT !.s = n], IF n.w.idx[3] = 0 THEN 3 ELSE 2)
        ELSE Fill([x EXCEPT !.s = n, !.virt = @ + 1], 0)
      Written(x, i) ==
        IF Stopped(x.s) \/ x.left = 0 THEN x
        ELSE IF i + 1 = PGT_PTE_COUNT THEN NextOne(x, NextStruct(x.s, 1))
        ELSE Fill([x EXCEPT !.virt = @ + 1], i + 1)
      Fill(x, i) == Written([WriteStruct(x, 1, i) EXCEPT !.left = @ - 1], i)
      Filled(f) == IF Failed(f) THEN EndStruct(m, f) ELSE Fill([m EXCEPT !.s = f], f.w.idx[1])
  IN IF m.left = 0 THEN m ELSE Filled(ptwalker_fill_in_to(m.s, 1, FALSE))

alloc_region(s, virt, size, large) ==
  TryLarge([s |-> ptwalker_create_for_pagemap(s, virt), left |-> size, virt |-> virt, used |-> 0, large |-> large], 3)
-----------------------------------------------------------------------------
Running == pt.stop = "no"
Pages(r) == r.virt .. r.virt + r.size - 1
StructRegion == [virt |-> PAGE_OFFSET, size |-> structs.size]
Translation(s) == [v \in Virt |-> ptwalker_virt_get_phys(s, v)]
Mapped(s) == {v \in Virt : Translation(s)[v] # -1}
NoWalk == [tables |-> [l \in Level |-> Nil], idx |-> [l \in Level |-> 0], level |-> Top]
\* The walker is a local variable of its caller.
Return(s) == [s EXCEPT !.w = NoWalk]

\* A range that does not end with its last-level table and whose end shares no table with
\* a page already mapped that its start does not share: what pgmap_at can map exactly.
SameTable(a, b, level) == a \div PAGE_SIZE_AT_LEVEL(level + 1) = b \div PAGE_SIZE_AT_LEVEL(level + 1)
Clear(s, r) ==
  LET end == Max(Pages(r))
  IN /\ (end + 1) % PGT_PTE_COUNT # 0
     /\ \A v \in Mapped(s), l \in 1 .. Top - 1 : SameTable(v, end, l) => SameTable(v, r.virt, l)

Init ==
  /\ pt = [mem |-> [t \in Table |-> ZeroPage], ref |-> [t \in Table |-> 0], free |-> Table \ {Root},
           w |-> NoWalk, res |-> "ok", stop |-> "no"]
  /\ phase = "early" /\ regions = {} /\ ops = 0 /\ clear = TRUE
  /\ structs = [size |-> 0, large |-> [l \in 2 .. Top |-> 0]]

\* The memory map is mapped range by range, at a fixed distance from its frames; early
\* numbers its ranges.
map_into_kernel_pagemap(virt, size) ==
  LET r == [virt |-> virt, phys |-> virt, size |-> size, early |-> Cardinality(regions) + 1]
  IN /\ phase = "early" /\ Running /\ Cardinality(regions) < MaxEarly
     /\ \A q \in regions : Pages(q) \cap Pages(r) = {}
     /\ pt' = Return(pgmap_at(pt, virt, virt, size, TRUE))
     /\ regions' = regions \cup {r}
     /\ clear' = (clear /\ Clear(pt, r))
     /\ UNCHANGED <<phase, ops, structs>>

\* The table of page structures is mapped behind the memory map.
setup_pagestructs_table(size, large) ==
  /\ phase = "early" /\ Running /\ regions # {}
  /\ \A q \in regions : q.virt + q.size <= PAGE_OFFSET \/ size = 0
  /\ pt' = Return(alloc_region(pt, PAGE_OFFSET, size, large).s)
  /\ structs' = [size |-> size, large |-> large]
  /\ phase' = "structs"
  /\ UNCHANGED <<regions, ops, clear>>

\* The tables of every range are counted, in the order of the memory map.
CountEarly ==
  /\ phase = "structs" /\ Running
  /\ LET RECURSIVE Each(_, _)
         Each(s, left) ==
           IF left = {} \/ Stopped(s) THEN s
           ELSE LET r == CHOOSE x \in left : \A y \in left : x.early <= y.early
                IN Each(mm_early_refcount_alloced_map(s, r.virt, r.size), left \ {r})
     IN pt' = Return(Each(pt, regions))
  /\ phase' = "up" /\ structs' = [structs EXCEPT !.large = [l \in 2 .. Top |-> 0]]
  /\ UNCHANGED <<regions, ops, clear>>

\* A region is mapped where no other region is.
arch_make_mapping(virt, phys, size) ==
  LET r == [virt |-> virt, phys |-> phys, size |-> size, early |-> 0]
  IN /\ phase = "up" /\ Running /\ ops < MaxUp
     /\ \A q \in regions \cup {StructRegion} : Pages(q) \cap Pages(r) = {}
     /\ pt' = Return(pgmap_at(pt, phys, virt, size, FALSE))
     /\ regions' = regions \cup {r}
     /\ clear' = (clear /\ Clear(pt, r))
     /\ ops' = ops + 1
     /\ UNCHANGED <<phase, structs>>

vunmap_mmio(r) ==
  /\ phase = "up" /\ Running /\ ops < MaxUp /\ r.early = 0
  /\ pt' = Return(pgunmap_at(pt, r.virt, r.size))
  /\ regions' = IF pt'.stop = "no" /\ pt'.res = "ok" THEN regions \ {r} ELSE regions
  /\ ops' = ops + 1
  /\ UNCHANGED <<phase, clear, structs>>

Next ==
  \/ \E virt \in Virt, size \in 1 .. Cardinality(Virt) :
       /\ virt + size <= Cardinality(Virt)
       /\ map_into_kernel_pagemap(virt, size) \/ \E phys \in Frame : arch_make_mapping(virt, phys, size)
  \/ \E size \in StructSize, large \in [2 .. Top -> 0 .. MaxLarge] : setup_pagestructs_table(size, large)
  \/ CountEarly
  \/ \E r \in regions : vunmap_mmio(r)

Spec == Init /\ [][Next]_vars
-----------------------------------------------------------------------------
\* MapExact: a Clear range is mapped page for page to its frames, and no other page's
\* translation changes: pgmap_at (large pages, small pages and the moves of the walker
\* between tables) neither skips, overshoots nor replaces a table that is in use.
MapExact ==
  [][\A r \in regions' \ regions :
       clear /\ clear' =>
         /\ pt'.stop = "no"
         /\ \A v \in Virt : ptwalker_virt_get_phys(pt', v) =
              IF v \in Pages(r) THEN r.phys + (v - r.virt) ELSE ptwalker_virt_get_phys(pt, v)]_vars

Children(s, t) == {s.mem[t][i][2] : i \in {j \in DOMAIN s.mem[t] : IsTable(s.mem[t][j])}}

\* NoDanglingTable: no table in use leads to a table that was given back: alloc_table_at_pte
\* and ptwalker_deref_from_level keep the tree and the allocator apart.
NoDanglingTable == Running => \A t \in Table \ pt.free : Children(pt, t) \cap pt.free = {}

\* BootTablesCounted: once mm_early_refcount_alloced_map has run over the memory map, every
\* table on the way to one of its pages has a reference, whatever tables, large pages and
\* ranges it passed.
BootTablesCounted ==
  Running /\ phase = "up" /\ ops = 0 =>
    \A r \in regions : \A v \in Pages(r) :
      LET w == ptwalker_create_for_pagemap(pt, v).w IN \A l \in w.level .. Top : pt.ref[w.tables[l]] >= 1

\* StructsMapped: the table of page structures is mapped without a gap and to frames of its
\* own, whichever of the large pages the boot allocator has, unless it runs out of those of
\* a size after handing some out (alloc_region then forgets how far it came).
RunsOut == \E l \in 2 .. Top : structs.large[l] # 0 /\ (structs.large[l] + 1) * PAGE_SIZE_AT_LEVEL(l) <= structs.size
StructsMapped ==
  phase = "structs" /\ Running /\ ~RunsOut =>
    LET frames == {ptwalker_virt_get_phys(pt, v) : v \in Pages(StructRegion)}
    IN frames = StructFrame .. StructFrame + structs.size - 1

\* RegionsStayMapped: what was mapped as a Clear range stays mapped to its frames until it
\* is unmapped.
RegionsStayMapped ==
  Running /\ clear => \A r \in regions, i \in Virt : i < r.size => ptwalker_virt_get_phys(pt, r.virt + i) = r.phys + i
=============================================================================
