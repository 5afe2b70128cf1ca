----------------------------- MODULE EarlyAlloc -----------------------------
(***************************************************************************)
(* Physical memory before the page allocator exists: kernel/mm/early.c     *)
(* with the section table of kernel/boot.c.  The usable memmaps become     *)
(* areas of free pages kept on two lists, pages are cut off the areas to   *)
(* build the kernel's page tables, and mm_early_post_arch_init marks what  *)
(* was used, labels the rest with its section and hands it to the page     *)
(* allocator.  All of it runs on the boot processor with nothing else      *)
(* running; memory is counted in frames.                                   *)
(* boot_init assumes that the bootloader sorts the memmaps, which makes    *)
(* the branch of claim_pages for a memmap below the tail unreachable.      *)
(* Sections are moved in their array as memmove does it on AArch64 and     *)
(* RISC-V (Stdlib says where x86-64 differs).  The empty freelists of a    *)
(* section are heads linked to themselves, which memmove copies: `heads`   *)
(* is the place in the array that they still point to.                     *)
(***************************************************************************)
EXTENDS Integers, FiniteSets, Sequences, SequencesExt

CONSTANTS
  Tables,       \* the tables of usable memmaps that may be met at boot
  LastFrame,    \* the last frame of memory
  ZoneEnd,      \* phys_to_zone: the first frame of the default zone
  Amounts,      \* the amounts of pages that early_alloc_large_page is asked for
  MAX_ORDER     \* number of orders of the page allocator

Frame == 0 .. LastFrame

Usable(m) == m.front .. (m.front + m.count - 1)

\* The memmaps of a table are in order and do not overlap.
TablesOrdered ==
  \A t \in Tables : /\ \A i \in DOMAIN t : t[i].count > 0 /\ Usable(t[i]) \subseteq Frame
                    /\ \A i \in 2 .. Len(t) : t[i - 1].front + t[i - 1].count <= t[i].front

VARIABLES
  phase,        \* how far boot has come
  memmaps,      \* the usable memmaps, in ascending order
  section,      \* mm_page_section_list, with what is left behind its end:
                \* [front, count, zone, heads]
  info,         \* the freepages_info of each frame that starts an area
  list, asc,    \* g_freepage_list and g_asc_freelist, as sequences of frames
  remaining,    \* g_total_free_pages_remaining
  taken,        \* frames handed out
  crucial,      \* frames in PAGE_STATE_SYSTEM_CRUCIAL
  label,        \* page->section
  blocks        \* what free_all_pages gave to the page allocator, <<frame, order, section>>

vars == <<phase, memmaps, section, info, list, asc, remaining, taken, crucial, label, blocks>>

NoArea == [avail |-> 0, total |-> 0]
Free(f) == f .. (f + info[f].avail - 1)
FreeFrames == UNION {Free(f) : f \in ToSet(list)}
phys_to_zone(f) == IF f < ZoneEnd THEN "low4g" ELSE "default"

InitWith(table) ==
  /\ phase = <<"claim", 1>>
  /\ memmaps = table
  /\ section = [i \in DOMAIN memmaps |-> [front |-> memmaps[i].front, count |-> memmaps[i].count,
                                          zone |-> "none", heads |-> i]]
  /\ info = [f \in Frame |-> NoArea]
  /\ list = <<>> /\ asc = <<>>
  /\ remaining = 0
  /\ taken = {} /\ crucial = {}
  /\ label = [f \in Frame |-> 1]
  /\ blocks = {}

Init == \E table \in Tables : InitWith(table)
-----------------------------------------------------------------------------
(* Claiming the memmaps and allocating from them.                          *)

MutAddBehindEqual(s, inf, f) ==
  InsertAt(s, Min({i \in DOMAIN s : inf[s[i]].avail < inf[f].avail} \cup {Len(s) + 1}), f)

\* Before the first area with more free pages.
add_to_asc_list(s, inf, f) ==
  InsertAt(s, Min({i \in DOMAIN s : inf[f].avail < inf[s[i]].avail} \cup {Len(s) + 1}), f)

\* An area that shrank is moved when the one before it is now the larger.
Resort(s, inf, f) ==
  LET i == CHOOSE i \in DOMAIN s : s[i] = f
  IN IF i > 1 /\ inf[s[i - 1]].avail > inf[f].avail
     THEN add_to_asc_list(Remove(s, f), inf, f)
     ELSE s

\* A memmap directly behind the last area extends it, in its place on both lists.
claim_pages ==
  /\ phase[1] = "claim" /\ phase[2] <= Len(memmaps)
  /\ LET m == memmaps[phase[2]]
         fresh == [info EXCEPT ![m.front] = [avail |-> m.count, total |-> m.count]]
         joins == list # <<>> /\ Last(list) + info[Last(list)].avail = m.front
     IN /\ remaining' = remaining + m.count
        /\ IF joins
           THEN /\ info' = [info EXCEPT ![Last(list)] = [avail |-> @.avail + m.count,
                                                          total |-> @.total + m.count]]
                /\ UNCHANGED <<list, asc>>
           ELSE /\ info' = fresh
                /\ list' = Append(list, m.front)
                /\ asc' = add_to_asc_list(asc, fresh, m.front)
  /\ phase' = <<"claim", phase[2] + 1>>
  /\ UNCHANGED <<memmaps, section, taken, crucial, label, blocks>>

Allocating == phase = <<"claim", Len(memmaps) + 1>>

MutTakeFirst ==
  /\ Allocating
  /\ asc # <<>>
  /\ LET f == Head(asc)
         left == info[f].avail - 1
     IN /\ info' = [info EXCEPT ![f] = IF left = 0 THEN NoArea ELSE [@ EXCEPT !.avail = left]]
        /\ list' = IF left = 0 THEN Remove(list, f) ELSE list
        /\ asc' = IF left = 0 THEN Tail(asc) ELSE asc
        /\ taken' = taken \cup {f}
  /\ remaining' = remaining - 1
  /\ UNCHANGED <<phase, memmaps, section, crucial, label, blocks>>

\* The last page of the area with the fewest: the first one holds its info.
early_alloc_page ==
  /\ Allocating
  /\ asc # <<>>
  /\ LET f == Head(asc)
         left == info[f].avail - 1
     IN /\ info' = [info EXCEPT ![f] = IF left = 0 THEN NoArea ELSE [@ EXCEPT !.avail = left]]
        /\ list' = IF left = 0 THEN Remove(list, f) ELSE list
        /\ asc' = IF left = 0 THEN Tail(asc) ELSE asc
        /\ taken' = taken \cup {f + left}
  /\ remaining' = remaining - 1
  /\ UNCHANGED <<phase, memmaps, section, crucial, label, blocks>>

\* The last aligned run of n pages in the area of f, if it is not below the area.
LastAligned(f, n) == LET last == f + info[f].avail - n IN last - (last % n)

Fits(f, n) == info[f].avail >= n /\ LastAligned(f, n) >= f

MutCutListBefore(f, p, n, total) ==
  LET before == p - f
      behind == info[f].avail - before - n
      shrunk == [info EXCEPT ![f] = IF before = 0 THEN NoArea ELSE [avail |-> before, total |-> total]]
      split == IF behind = 0 THEN shrunk
               ELSE [shrunk EXCEPT ![p + n] = [avail |-> behind, total |-> behind]]
      at == CHOOSE i \in DOMAIN list : list[i] = f
      list1 == IF before = 0 THEN Remove(list, f) ELSE list
      asc1 == IF before = 0 THEN Remove(asc, f) ELSE Resort(asc, shrunk, f)
  IN /\ info' = split
     /\ list' = IF behind = 0 THEN list1 ELSE InsertAt(list1, at, p + n)
     /\ asc' = IF behind = 0 THEN asc1 ELSE add_to_asc_list(asc1, split, p + n)

\* Cut n pages out of area f at frame p: what is before p stays the area, and
\* what is behind becomes an area of its own.
Cut(f, p, n, total) ==
  LET before == p - f
      behind == info[f].avail - before - n
      shrunk == [info EXCEPT ![f] = IF before = 0 THEN NoArea ELSE [avail |-> before, total |-> total]]
      split == IF behind = 0 THEN shrunk
               ELSE [shrunk EXCEPT ![p + n] = [avail |-> behind, total |-> behind]]
      at == CHOOSE i \in DOMAIN list : list[i] = f
      list1 == IF before = 0 THEN Remove(list, f) ELSE list
      asc1 == IF before = 0 THEN Remove(asc, f) ELSE Resort(asc, shrunk, f)
  IN /\ info' = split
     /\ list' = IF behind = 0 THEN list1 ELSE InsertAt(list1, IF before = 0 THEN at ELSE at + 1, p + n)
     /\ asc' = IF behind = 0 THEN asc1 ELSE add_to_asc_list(asc1, split, p + n)

\* The first area, in the order of their sizes, that has n aligned pages.  An area
\* cut in the middle keeps only its free pages in total_page_count, where
\* PAGE_COUNT is applied to a number of pages and gives 0.
early_alloc_large_page(n) ==
  /\ Allocating
  /\ \E i \in DOMAIN asc :
       LET f == asc[i]
           p == LastAligned(f, n)
           middle == p # f + info[f].avail - n
       IN /\ Fits(f, n) /\ \A j \in 1 .. (i - 1) : ~Fits(asc[j], n)
          /\ Cut(f, p, n, IF middle THEN p - f ELSE info[f].total)
          /\ taken' = taken \cup (p .. (p + n - 1))
  /\ remaining' = remaining - n
  /\ UNCHANGED <<phase, memmaps, section, crucial, label, blocks>>
-----------------------------------------------------------------------------
(* mm_early_post_arch_init: from areas to sections of the page allocator.  *)

Areas(sec) == {f \in ToSet(list) : f \in Usable(sec)}

\* The marking loops count up from the end of an area to the start of the next one,
\* or to the end of the section, and miss it when the area reaches beyond.
RunsPast(sec) ==
  \E f \in Areas(sec) :
    \E end \in {sec.front + sec.count} \cup {g \in Areas(sec) : g > f} : f + info[f].total > end

MutMarkAreasOnly(i) ==
  /\ \/ Allocating /\ i = 1
     \/ phase = <<"mark", i>>
  /\ i \in DOMAIN section
  /\ phase' = IF RunsPast(section[i]) THEN <<"fault", "mark">> ELSE <<"mark", i + 1>>
  /\ crucial' = crucial \cup UNION {(f + info[f].avail) .. (f + info[f].total - 1) : f \in Areas(section[i])}
  /\ UNCHANGED <<memmaps, section, info, list, asc, remaining, taken, label, blocks>>

\* Every page of the section outside its areas, all of it when it has none.
mark_crucial_pages(i) ==
  /\ \/ Allocating /\ i = 1
     \/ phase = <<"mark", i>>
  /\ i \in DOMAIN section
  /\ phase' = IF RunsPast(section[i]) THEN <<"fault", "mark">> ELSE <<"mark", i + 1>>
  /\ crucial' = crucial \cup (Usable(section[i]) \ UNION {Free(f) : f \in Areas(section[i])})
  /\ UNCHANGED <<memmaps, section, info, list, asc, remaining, taken, label, blocks>>

Merge(secs, sec) ==
  IF secs # <<>> /\ Last(secs).front + Last(secs).count = sec.front
  THEN Append(Front(secs), [Last(secs) EXCEPT !.count = @ + sec.count])
  ELSE Append(secs, sec)

boot_merge_usable_memmaps(secs) == FoldLeft(Merge, <<>>, secs)

\* The new section is set up in the place of the old one, which moves up by one with
\* the links of its freelists.
boot_add_section_at(secs, new, old) ==
  secs \o <<[front |-> new.front, count |-> new.count, zone |-> new.zone,
             heads |-> Len(secs) + 1], old>>

\* A section across the zones' boundary is split there; the zone of its front was
\* stored before the split and stays with both parts.
SplitForZones(secs, sec) ==
  LET zone == phys_to_zone(sec.front)
      end == sec.front + sec.count
  IN IF zone = phys_to_zone(end - 1)
     THEN Append(secs, [sec EXCEPT !.zone = zone])
     ELSE boot_add_section_at(secs,
            [front |-> sec.front, count |-> ZoneEnd - sec.front, zone |-> zone],
            [front |-> ZoneEnd, count |-> end - ZoneEnd, zone |-> zone, heads |-> sec.heads])

split_sections_for_zones(secs) == FoldLeft(SplitForZones, <<>>, secs)

\* Removing sections leaves copies of the last memmap behind the end of the list,
\* which have no zone.
MergeAndSplit ==
  /\ phase = <<"mark", Len(section) + 1>>
  /\ LET used == split_sections_for_zones(boot_merge_usable_memmaps(section))
     IN section' = [i \in 1 .. Max({Len(used), Len(section)}) |->
                      IF i <= Len(used) THEN used[i] ELSE Last(section)]
  /\ phase' = <<"label", 1>>
  /\ UNCHANGED <<memmaps, info, list, asc, remaining, taken, crucial, label, blocks>>

MutLabelFirstArea(i) ==
  /\ phase = <<"label", i>> /\ i \in DOMAIN memmaps
  /\ label' = [g \in Frame |-> IF section[i].front \in ToSet(list) /\ g \in Free(section[i].front) THEN i ELSE label[g]]
  /\ phase' = <<"label", i + 1>>
  /\ UNCHANGED <<memmaps, section, info, list, asc, remaining, taken, crucial, blocks>>

\* The pages of an area that begins in the section; those of an area that only
\* ends in it are labelled from the area's own first page on.  The loop over the
\* sections still ends where they ended before they were merged and split.
set_section_for_pages(i) ==
  /\ phase = <<"label", i>> /\ i \in DOMAIN memmaps
  /\ LET sec == section[i]
         limit == sec.front + sec.count
         begins == {f \in ToSet(list) : f \in Usable(sec)}
         ends == {f \in ToSet(list) \ begins : f + info[f].avail - 1 \in Usable(sec)}
         until(f) == IF f \in begins THEN f + info[f].avail ELSE sec.front + info[f].avail
     IN label' = [g \in Frame |->
          IF \E f \in begins \cup ends : f <= g /\ g < until(f) /\ g < limit THEN i ELSE label[g]]
  /\ phase' = <<"label", i + 1>>
  /\ UNCHANGED <<memmaps, section, info, list, asc, remaining, taken, crucial, blocks>>

MutChunkAnyOrder(f) ==
  LET n == info[f].avail
      cut[left \in 0 .. n] ==
        IF left <= 0 THEN {}
        ELSE LET o == Max({o \in 0 .. (MAX_ORDER - 1) : 2^o <= left + 1})
             IN {<<f + (n - left), o, label[f]>>} \cup cut[IF 2^o > left THEN 0 ELSE left - 2^o]
  IN cut[n]

\* The blocks an area is freed in, each as large as fits and ends in the section of
\* the area's first page.  Where none does the order is negative.
Chunks(f) ==
  LET n == info[f].avail
      cut[left \in 0 .. n] ==
        LET g == f + (n - left)
            fits == {o \in 0 .. (MAX_ORDER - 1) : 2^o <= left /\ label[g + 2^o - 1] = label[f]}
        IN IF left = 0 THEN {}
           ELSE IF fits = {} THEN {<<g, -1, label[f]>>}
           ELSE {<<g, Max(fits), label[f]>>} \cup cut[left - 2^Max(fits)]
  IN cut[n]

\* Freeing an area fails in early_free_pages_from_section when its section has no
\* zone, and at the shift by a negative order.
Fault(f) ==
  IF section[label[f]].zone = "none" THEN "zone"
  ELSE IF \E b \in Chunks(f) : b[2] = -1 THEN "order" ELSE "none"

\* From the largest area down.
free_all_pages ==
  /\ phase = <<"label", Len(memmaps) + 1>>
  /\ LET faulty == {i \in DOMAIN asc : Fault(asc[i]) # "none"}
     IN IF faulty # {}
        THEN phase' = <<"fault", Fault(asc[Max(faulty)])>> /\ UNCHANGED <<list, blocks>>
        ELSE /\ phase' = <<"done">>
             /\ blocks' = UNION {Chunks(f) : f \in ToSet(asc)}
             /\ list' = SelectSeq(list, LAMBDA f : f \notin ToSet(asc))
  /\ UNCHANGED <<memmaps, section, info, asc, remaining, taken, crucial, label>>

Booted == phase[1] \in {"done", "fault"} /\ UNCHANGED vars

Next ==
  \/ claim_pages
  \/ early_alloc_page
  \/ \E n \in Amounts : early_alloc_large_page(n)
  \/ \E i \in DOMAIN memmaps : mark_crucial_pages(i) \/ set_section_for_pages(i)
  \/ MergeAndSplit
  \/ free_all_pages
  \/ Booted

Spec == Init /\ [][Next]_vars
-----------------------------------------------------------------------------
Claimed == UNION {Usable(memmaps[i]) : i \in 1 .. (IF phase[1] = "claim" THEN phase[2] - 1 ELSE Len(memmaps))}
Extent(b) == b[1] .. (b[1] + 2^b[2] - 1)
Separate == \A i \in 2 .. Len(memmaps) : memmaps[i - 1].front + memmaps[i - 1].count < memmaps[i].front
InOneZone(m) == phys_to_zone(m.front) = phys_to_zone(m.front + m.count - 1)

\* Frames, counts and list members stay within memory.
TypeOK ==
  /\ info \in [Frame -> [avail : Nat, total : Nat]]
  /\ ToSet(list) \cup ToSet(asc) \subseteq Frame
  /\ taken \cup crucial \subseteq Frame
  /\ memmaps # <<>> => label \in [Frame -> DOMAIN memmaps]
  /\ \A b \in blocks : Extent(b) \subseteq Frame /\ b[3] \in DOMAIN section

\* Every claimed frame is free in exactly one area or was handed out, never both, and
\* g_total_free_pages_remaining counts the free ones: no page table page is
\* handed out twice, however single and large allocations cut the areas.
FramesAccounted ==
  /\ TypeOK
  /\ phase[1] \in {"claim", "mark", "label"} =>
       /\ FreeFrames \cup taken = Claimed
       /\ FreeFrames \cap taken = {}
       /\ \A f, g \in ToSet(list) : f # g => Free(f) \cap Free(g) = {}
       /\ remaining = Cardinality(FreeFrames)

\* Both lists hold the same areas, none of them empty or twice, and g_freepage_list
\* is in ascending order of address (comment of claim_pages, line 80).
ListsAgree ==
  phase[1] \in {"claim", "mark", "label"} =>
    /\ ToSet(list) = ToSet(asc) /\ Len(list) = Len(asc)
    /\ \A f \in ToSet(list) : 0 < info[f].avail /\ info[f].avail <= info[f].total
    /\ \A i \in 2 .. Len(list) : list[i - 1] < list[i]

\* g_asc_freelist is in ascending order of free pages (comment of line 33) as long
\* as no two memmaps touch: allocations keep it sorted.
AscendingWhenSeparate ==
  Separate /\ phase[1] = "claim" =>
    \A i \in 2 .. Len(asc) : info[asc[i - 1]].avail <= info[asc[i]].avail

\* When all sections are marked, exactly the frames handed out are crucial.
CrucialExact == phase[1] \in {"label", "done"} => crucial = taken

\* When boot is done the page allocator has every free frame in exactly one block,
\* none that was handed out, and no area is left.  free_all_pages shifts by a negative
\* order only where a memmap crosses the zones, and meets a section without a zone
\* only where memmaps touch: labelling ends where the sections ended before.
HandedOver ==
  /\ phase = <<"fault", "order">> => \E i \in DOMAIN memmaps : ~InOneZone(memmaps[i])
  /\ phase = <<"fault", "zone">> => ~Separate
  /\ phase[1] = "done" =>
       /\ UNION {Extent(b) : b \in blocks} = Claimed \ taken
       /\ \A b, c \in blocks : b # c => Extent(b) \cap Extent(c) = {}
       /\ list = <<>>

\* As long as no two memmaps touch and none crosses the zones, the marking loops end
\* (line 469), and every block is freed to a section that contains it and has its
\* zone, so that page_to_phys (section.c, line 32) finds the page behind its start;
\* and the freelists of every section are linked to the section itself.
SoundWhenSeparate ==
  Separate /\ (\A i \in DOMAIN memmaps : InOneZone(memmaps[i])) =>
    /\ phase[1] # "fault"
    /\ \A i \in DOMAIN section : section[i].heads = i
    /\ \A b \in blocks : /\ Extent(b) \subseteq Usable(section[b[3]])
                         /\ \A f \in Extent(b) : phys_to_zone(f) = section[b[3]].zone

\* What free_all_pages says it ensures (line 554): a block lies in one zone, the
\* zone of the section that it is freed to.
BlocksInTheirZone ==
  \A b \in blocks : \A f \in Extent(b) : phys_to_zone(f) = section[b[3]].zone
=============================================================================
