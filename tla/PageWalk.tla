------------------------------ MODULE PageWalk ------------------------------
(***************************************************************************)
(* The page-table walker (kernel/mm/walker.c) over a tree of tables.       *)
(* Addresses and frames are counted in pages.  A state of the walk is a    *)
(* record s: mem (the contents of the tables), ref (table.refcount of      *)
(* their pages), free (tables the allocator has), w (struct pt_walker),    *)
(* res (the pt_walker_result of the last call) and stop: "no", "panic", or *)
(* "wild" for an access through a null or freed table, or past its end.    *)
(***************************************************************************)
EXTENDS Integers, FiniteSets, FiniteSetsExt, Sequences

CONSTANTS
  PGT_PTE_COUNT,  \* entries of a table
  Top,            \* pgt_get_top_level(), two at least
  Table,          \* pages that may hold tables: numbers from 1
  Root            \* pagemap->root, one of them

Nil == 0
Level == 1 .. Top
Absent == <<>>
ToTable(t) == <<"table", t>>
ToPage(phys) == <<"page", phys>>

pte_is_present(e) == e # Absent
pte_is_large(e) == e # Absent /\ e[1] = "page"
IsTable(e) == e # Absent /\ e[1] = "table"

PAGE_SIZE_AT_LEVEL(level) == PGT_PTE_COUNT ^ (level - 1)
virt_to_pt_index(virt, level) == (virt \div PAGE_SIZE_AT_LEVEL(level)) % PGT_PTE_COUNT

Stopped(s) == s.stop # "no"
Panic(s) == [s EXCEPT !.stop = "panic"]
Wild(s) == [s EXCEPT !.stop = "wild"]

\* The entry the walker stands on at a level, if there is one.
HasEntry(s, level) == s.w.tables[level] \notin {Nil} \cup s.free /\ s.w.idx[level] < PGT_PTE_COUNT
Entry(s, level) == s.mem[s.w.tables[level]][s.w.idx[level]]
pte_write(s, level, e) ==
  IF HasEntry(s, level) THEN [s EXCEPT !.mem[s.w.tables[level]][s.w.idx[level]] = e] ELSE Wild(s)

\* Follows a path of indices down from a table until an entry leads to no further table.
Down(mem, from, level, Index) ==
  LET table[l \in 1 .. level] ==
        IF l = level THEN from
        ELSE IF table[l + 1] = Nil THEN Nil
        ELSE LET e == mem[table[l + 1]][Index[l + 1]] IN IF IsTable(e) THEN e[2] ELSE Nil
  IN table
Lowest(tables) == Min({l \in DOMAIN tables : tables[l] # Nil})

Indices(virt) == [l \in Level |-> virt_to_pt_index(virt, l)]
Walker(tables, idx) == [tables |-> tables, idx |-> idx, level |-> Lowest(tables)]
ptwalker_create_for_pagemap(s, virt) ==
  [s EXCEPT !.w = Walker(Down(s.mem, Root, Top, Indices(virt)), Indices(virt)), !.res = "ok"]

reset_levels_lower_than(s, level) ==
  [s EXCEPT !.w.tables = [l \in Level |-> IF l < level THEN Nil ELSE @[l]],
            !.w.idx = [l \in Level |-> IF l < level THEN 0 ELSE @[l]]]

\* Levels below the one where the descent ends keep their old tables and indices.
SetLevels(s, down, levels) ==
  [s EXCEPT !.w = [tables |-> [l \in Level |-> IF l \in levels THEN down[l] ELSE @.tables[l]],
                   idx |-> [l \in Level |-> IF l \in levels THEN 0 ELSE @.idx[l]],
                   level |-> Min(levels)]]
setup_levels_lower_than(s, parent, entry) ==
  LET Set(down) == SetLevels(s, down, Lowest(down) .. parent - 1)
  IN Set(Down(s.mem, entry[2], parent - 1, [l \in Level |-> 0]))
-----------------------------------------------------------------------------
ref_up(s, t) == IF s.ref[t] < 0 THEN Panic(s) ELSE [s EXCEPT !.ref[t] = @ + 1]

\* The count is lowered before it is compared: refcount_decrement panics on a count
\* that was zero.
ref_down(s, t) == IF s.ref[t] < 1 THEN Panic(s) ELSE [s EXCEPT !.ref[t] = @ - 1]

\* Drops the reference of a table and, while tables become unused, unlinks and frees them.
RECURSIVE DerefUp(_, _, _)
DerefUp(s, level, t) ==
  IF level > Top THEN [s EXCEPT !.w.level = level]
  ELSE LET Unlinked(p) == IF Stopped(p) THEN p ELSE DerefUp(p, level + 1, s.w.tables[level + 1])
           Freed(u) == IF level = Top THEN [u EXCEPT !.w.level = level + 1]
                       ELSE Unlinked(pte_write(u, level + 1, Absent))
           Dropped(r) == IF Stopped(r) THEN r
                         ELSE IF r.ref[t] # 0 THEN [r EXCEPT !.w.level = level]
                         ELSE Freed([r EXCEPT !.free = @ \cup {t}])
       IN Dropped(ref_down(s, t))

ptwalker_deref_from_level(s, level) ==
  IF level < s.w.level \/ level > Top THEN s
  ELSE IF s.w.tables[level] = Nil THEN Wild(s)
  ELSE DerefUp(s, level, s.w.tables[level])

ptwalker_drop_lowest(s) ==
  ptwalker_deref_from_level([s EXCEPT !.w.tables[s.w.level] = Nil, !.w.idx[s.w.level] = 0], s.w.level + 1)

ZeroPage == [i \in 0 .. PGT_PTE_COUNT - 1 |-> Absent]

\* A zeroed table, whose page starts without references.
alloc_table_at_pte(s, level) ==
  LET Link(t) == pte_write([s EXCEPT !.free = @ \ {t}, !.ref[t] = 0, !.mem[t] = ZeroPage, !.w.tables[level] = t],
                           level + 1, ToTable(t))
  IN Link(Min(s.free))

RECURSIVE alloc_levels_down_to(_, _, _, _, _)
alloc_levels_down_to(s, parent, last, alloc_last, should_ref) ==
  LET level == parent - 1
  IN IF level < last \/ (level = last /\ ~alloc_last)
     THEN [s EXCEPT !.w.level = parent, !.res = "ok"]
     ELSE IF s.free = {}
     THEN [ptwalker_drop_lowest([s EXCEPT !.w.level = parent]) EXCEPT !.res = "alloc_fail"]
     ELSE LET Lower(r) == IF Stopped(r) THEN r ELSE alloc_levels_down_to(r, level, last, alloc_last, should_ref)
              Count(a) == IF should_ref /\ ~Stopped(a) THEN ref_up(a, s.w.tables[parent]) ELSE a
          IN Lower(Count(alloc_table_at_pte(s, level)))

ptwalker_fill_in_to(s, level, should_ref) ==
  IF s.w.level <= level THEN [s EXCEPT !.res = "ok"]
  ELSE alloc_levels_down_to(s, s.w.level, level, TRUE, should_ref)

\* The walker has moved to a new entry at a level: sets up what is below it.
Land(s, level) ==
  LET e == Entry(s, level)
  IN IF ~HasEntry(s, level) THEN Wild(s)
     ELSE IF ~pte_is_present(e) THEN reset_levels_lower_than(s, level)
     ELSE IF pte_is_large(e) THEN [reset_levels_lower_than(s, level) EXCEPT !.w.level = level]
     ELSE setup_levels_lower_than(s, level, e)

\* The first level above one whose last entry was passed that has a next entry; the
\* levels passed on the way are left at PGT_PTE_COUNT.
RECURSIVE Carry(_, _)
Carry(s, level) ==
  IF level > Top THEN [reset_levels_lower_than(s, level) EXCEPT !.w.level = -1, !.res = "end"]
  ELSE LET Moved(u) ==
             IF u.w.idx[level] = PGT_PTE_COUNT THEN Carry(u, level + 1)
             ELSE IF HasEntry(u, level) /\ ~pte_is_present(Entry(u, level))
             THEN [reset_levels_lower_than(u, level) EXCEPT !.w.level = level, !.res = "absent"]
             ELSE Land(u, level)
       IN Moved([s EXCEPT !.w.idx[level] = @ + 1])

ptwalker_next_with_options(s, level, alloc_parents, alloc_level, should_ref) ==
  IF s.w.level > level \/ level > Top THEN [s EXCEPT !.res = "bad_incr"]
  ELSE LET Carried(c) ==
             IF Stopped(c) \/ c.res # "absent" THEN c
             ELSE IF ~alloc_parents THEN [c EXCEPT !.res = "ok"]
             ELSE alloc_levels_down_to(c, c.w.level, level, alloc_level, should_ref)
           Moved(u) ==
             IF u.w.idx[level] >= PGT_PTE_COUNT THEN Carried(Carry(u, level + 1))
             ELSE IF level = 1 THEN u ELSE Land(u, level)
       IN Moved([s EXCEPT !.w.idx[level] = @ + 1, !.res = "ok"])

ptwalker_next(s) == ptwalker_next_with_options(s, s.w.level, TRUE, TRUE, TRUE)

\* The frame an address is mapped to, or -1: what the processor's walk gives.
ptwalker_virt_get_phys(s, virt) ==
  LET Phys(e, level) == IF ~pte_is_present(e) THEN -1 ELSE e[2] + (virt % PAGE_SIZE_AT_LEVEL(level))
      At(w) == Phys(Entry(w, w.w.level), w.w.level)
  IN At(ptwalker_create_for_pagemap(s, virt))
=============================================================================
