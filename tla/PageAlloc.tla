----------------------------- MODULE PageAlloc ------------------------------
(***************************************************************************)
(* The physical page allocator of kernel/mm/page_alloc.c: per section, one *)
(* freelist of power-of-two blocks for every order, bounds on the orders   *)
(* in use, a running total, and a lock that allocations try and large-page *)
(* frees take, but that free_pages does not take.                          *)
(*                                                                         *)
(* Pages are numbered as in the vmemmap, so that the first page of a       *)
(* section follows the last page of the section before it.  A freelist is  *)
(* the set of its blocks: which block of the list is taken is left open.   *)
(* A merge over the end of a section unlinks a block of another section    *)
(* and counts it off its own, so that a freelist's count is the number of  *)
(* its blocks plus a skew (an integer for the unsigned counter, of which   *)
(* the code only asks whether it is 0).                                    *)
(* Undefined behaviour (a list operation on a page that is on no list, the *)
(* head of an empty list taken for a page, a freelist index out of bounds, *)
(* two unlocked writers) sets `fault` and ends the behaviour.              *)
(***************************************************************************)
EXTENDS Integers, Sequences, FiniteSets, FiniteSetsExt

CONSTANTS
  CPU,          \* processors (or interrupted contexts) that use the allocator
  NoCPU,        \* the holder of a free lock
  MAX_ORDER,    \* number of freelists of a section
  Sections,     \* sequence of [first, last, zone], in the order a scan visits them:
                \* zones as they fall back and, of one zone, the last section of the
                \* memory first, setup_zone_section_list adding each at the front
  Frame,        \* physical frame number of each page
  Boot,         \* the pages that boot hands to free_all_pages
  Requests,     \* the [state, order, from] that callers ask for
  MaxRef,       \* bound on the references of a page of a large page
  MaxTotal      \* bound on total_free, which merging overcounts

ASSUME MaxOrderAssumption == MAX_ORDER \in Nat \ {0}

Section == DOMAIN Sections
Page == UNION {Sections[s].first .. Sections[s].last : s \in Section}
Order == 0 .. (MAX_ORDER - 1)

\* Sections are runs of struct pages with consecutive frames that do not overlap.
ASSUME SectionsAssumption ==
  /\ Sections \in Seq([first : Nat, last : Nat, zone : Nat])
  /\ \A s, t \in Section : s # t =>
       (Sections[s].first .. Sections[s].last) \cap (Sections[t].first .. Sections[t].last) = {}
  /\ \A s \in Section : \A p \in Sections[s].first .. Sections[s].last :
       Frame[p] \in Nat /\ Frame[p] = Frame[Sections[s].first] + (p - Sections[s].first)

ASSUME BootAssumption == Boot \subseteq Page

ASSUME BoundsAssumption == MaxRef \in Nat \ {0} /\ NoCPU \notin CPU

\* What the kernel asks for: a table is one page (alloc_table), the rings of a
\* virtio queue one or two (split.c, lines 40 and 75), a slab a block of any order
\* (slab.c, line 60), a large page the order of its level.
ASSUME RequestsAssumption ==
  \A r \in Requests : /\ r.order \in Nat /\ r.from \in Nat \ {0}
                      /\ r.state \in {"TABLE", "USED", "SLAB_HEAD", "LARGE_HEAD"}
                      /\ r.state = "TABLE" => r.order = 0
                      /\ r.state = "USED" => r.order <= 1

\* Arithmetic of the block sizes, which the provers do not know.
ASSUME PowersOfTwo ==
  2^0 = 1 /\ \A o \in 0 .. MAX_ORDER : 2^o \in Nat \ {0} /\ 2^(o + 1) = 2 * 2^o
SectionOf(p) == CHOOSE s \in Section : p \in Sections[s].first .. Sections[s].last

NoPage == -1        \* freelist_tail.head of a page that is no free tail

Extent(b) == b[1] .. (b[1] + 2^b[2] - 1)      \* the pages of a block <<page, order>>

VARIABLES
  mem,      \* [section, page, fault, crossed]: the sections' lists, the struct pages,
            \* and whether a merge has reached over the end of a section
  owned,    \* blocks in the hands of callers, [page, order, state]
  lock,     \* holder of each section's lock
  pc        \* what each processor is doing

vars == <<mem, owned, lock, pc>>
-----------------------------------------------------------------------------
(* The list operations, as functions of the memory.                        *)

LargestOrder(n) == Max({o \in Order : 2^o <= n})

\* free_range_of_pages cuts n pages into blocks, always the largest that fits.
Chunks(page, n) ==
  LET cut[left \in 0 .. n] ==
        IF left = 0 THEN {}
        ELSE LET o == LargestOrder(left)
             IN {<<page + (n - left), o>>} \cup cut[left - 2^o]
  IN cut[n]

MarkFree(pages, blocks) ==
  [p \in DOMAIN pages |->
     LET own == {b \in blocks : p \in Extent(b)}
     IN IF own = {} THEN pages[p]
        ELSE LET b == CHOOSE b \in own : TRUE
             IN IF p = b[1]
                THEN [pages[p] EXCEPT !.state = "FREE_LIST_HEAD", !.head = NoPage]
                ELSE [pages[p] EXCEPT !.state = "FREE_LIST_TAIL", !.head = b[1]]]

MutRaiseMaxOnly(sec, o) == [sec EXCEPT !.max_order = IF @ <= o THEN o + 1 ELSE @]

MutRaiseTooFar(sec, o) == [sec EXCEPT !.min_order = IF @ > o THEN o ELSE @,
                                      !.max_order = IF @ <= o THEN o + 2 ELSE @]

Raise(sec, o) == [sec EXCEPT !.min_order = IF @ > o THEN o ELSE @,
                             !.max_order = IF @ <= o THEN o + 1 ELSE @]

\* The bounds are adjusted for the last block only.
free_range_of_pages(m, s, page, n) ==
  LET blocks == Chunks(page, n)
      sec == m.section[s]
  IN [m EXCEPT !.section[s] =
                 Raise([sec EXCEPT !.freelist = @ \cup blocks, !.total_free = @ + n],
                       Min({b[2] : b \in blocks})),
               !.page = MarkFree(@, blocks)]

OfOrder(sec, o) == {b \in sec.freelist : b[2] = o}

\* freelist->count
Count(sec, o) == Cardinality(OfOrder(sec, o)) + sec.skew[o]

\* The bounds after the count of order o went down.
Lower(sec, o) ==
  LET used == {x \in Order : Count(sec, x) # 0}
      low == IF sec.total_free = 0 THEN 0 ELSE sec.min_order
      high == IF sec.total_free = 0 THEN 0 ELSE sec.max_order
      above == {x \in used : x > o} \cup {MAX_ORDER}
      below == {x + 1 : x \in {y \in used : y < o}} \cup {0}
  IN [sec EXCEPT !.min_order = IF o \notin used /\ low = o THEN Min(above) ELSE low,
                 !.max_order = IF o \notin used /\ high = o THEN Max(below) ELSE high]

take_off_freelist_to_add_later(sec, b) ==
  Lower([sec EXCEPT !.freelist = @ \ {b}], b[2])

MutSubtractWholeBlock(sec, b, remove_page_order) ==
  take_off_freelist_to_add_later([sec EXCEPT !.total_free = @ - 2^b[2]], b)

take_off_freelist_order(sec, b, remove_page_order) ==
  take_off_freelist_to_add_later([sec EXCEPT !.total_free = @ - 2^remove_page_order], b)

MutSplitKeepsNothing(m, s, b, order) ==
  [m EXCEPT !.section[s] = Raise(take_off_freelist_order(@, b, order), order)]

\* The block is taken from a list of order b[2]; what is above `order` goes back.
get_from_freelist_order(m, s, b, order) ==
  LET sec == take_off_freelist_order(m.section[s], b, order)
      buddies == {<<b[1] + 2^o, o>> : o \in order .. (b[2] - 1)}
  IN [m EXCEPT !.section[s] = Raise([sec EXCEPT !.freelist = @ \cup buddies], order),
               !.page = MarkFree(@, buddies)]

SetState(pages, block, headState, tailState) ==
  [p \in DOMAIN pages |->
     IF p = block[1] THEN [pages[p] EXCEPT !.state = headState, !.head = NoPage]
     ELSE IF p \in Extent(block)
     THEN [pages[p] EXCEPT !.state = tailState, !.head = NoPage,
                                    !.refs = IF tailState = "LARGE_TAIL" THEN 1 ELSE @]
     ELSE pages[p]]

\* Only the first page of a PAGE_STATE_USED block leaves its free state.
setup_pages_off_freelist(pages, page, order, state) ==
  CASE state = "SLAB_HEAD"  -> SetState(pages, <<page, order>>, state, "SLAB_TAIL")
    [] state = "LARGE_HEAD" -> SetState(pages, <<page, order>>, state, "LARGE_TAIL")
    [] OTHER                -> SetState(pages, <<page, 0>>, state, state)

\* The step to the next boundary is taken in physical addresses.
AlignUp(p, order) == p + ((-Frame[p]) % 2^order)

get_large_from_freelist_order(m, s, b, order) ==
  LET page == AlignUp(b[1], order)
      after == page + 2^order
      end == b[1] + 2^b[2]
      m1 == [m EXCEPT !.section[s] = take_off_freelist_order(@, b, b[2])]
      m2 == IF page = b[1] THEN m1 ELSE free_range_of_pages(m1, s, b[1], page - b[1])
      m3 == [m2 EXCEPT !.page = setup_pages_off_freelist(@, page, order, "LARGE_HEAD")]
  IN IF after = end THEN m3 ELSE free_range_of_pages(m3, s, after, end - after)
-----------------------------------------------------------------------------
(* Freeing.                                                                *)

Fault(m, kind) == [m EXCEPT !.fault = kind]

Listed(sec, p) == {b \in sec.freelist : b[1] = p}

ListedBlocks(m, p) == UNION {Listed(m.section[s], p) : s \in Section}

MutLeftHead(m, s, page) ==
  IF page = Sections[s].first \/ m.page[page - 1].state \notin {"FREE_LIST_TAIL", "FREE_LIST_HEAD"}
  THEN {} ELSE {page - 1}

\* The free block that ends just before `page`, as the struct pages tell it:
\* the page before is a tail that names its head, or a head itself.
LeftHead(m, s, page) ==
  IF page = Sections[s].first THEN {}
  ELSE CASE m.page[page - 1].state = "FREE_LIST_TAIL" -> {m.page[page - 1].head}
         [] m.page[page - 1].state = "FREE_LIST_HEAD" -> {page - 1}
         [] OTHER -> {}

\* Block b leaves the list of section w and the count of section s.
CrossTakeOff(m, s, w, b) ==
  [m EXCEPT !.section = [@ EXCEPT ![w] = [@ EXCEPT !.freelist = @ \ {b}, !.skew[b[2]] = @ + 1],
                                  ![s] = Lower([@ EXCEPT !.skew[b[2]] = @ - 1], b[2])],
            !.crossed = TRUE]

\* list_delete asks for no section: the block leaves whichever list it is on.
TakeOffNeighbour(m, s, p) ==
  LET on == {w \in Section : Listed(m.section[w], p) # {}}
      w == CHOOSE w \in on : TRUE
      b == CHOOSE b \in Listed(m.section[w], p) : TRUE
  IN IF on = {} THEN Fault(m, "stale")
     ELSE IF s \in on
     THEN [m EXCEPT !.section[s] =
             take_off_freelist_to_add_later(@, CHOOSE x \in Listed(@, p) : TRUE)]
     ELSE CrossTakeOff(m, s, w, b)

MutMergeNoTakeOff(m, s, page, n) ==
  LET left == LeftHead(m, s, page)
      from == IF left = {} THEN page ELSE CHOOSE p \in left : TRUE
  IN IF n + page - from = 0 THEN Fault(m, "order")
     ELSE free_range_of_pages(m, s, from, n + page - from)

\* The end is looked up after the left neighbour was merged, up to the end of
\* the vmemmap.  Nothing left to free makes the order -1: "order".
free_amount_of_pages(m, s, page, n) ==
  LET left == LeftHead(m, s, page)
      from == IF left = {} THEN page ELSE CHOOSE p \in left : TRUE
      m1 == IF left = {} THEN m ELSE TakeOffNeighbour(m, s, from)
      end == page + n
      right == end \in Page /\ m1.page[end].state = "FREE_LIST_HEAD"
      m2 == IF right THEN TakeOffNeighbour(m1, s, end) ELSE m1
      amount == (end - from) +
        (IF right THEN 2^(CHOOSE b \in ListedBlocks(m1, end) : TRUE)[2] ELSE 0)
  IN IF m1.fault # "none" THEN m1
     ELSE IF right /\ m2.fault # "none" THEN m2
     ELSE IF amount = 0 THEN Fault(m, "order")
     ELSE free_range_of_pages(m2, s, from, amount)

\* The runs of pages whose last reference free_large_page drops.
LastRefRuns(m, block) ==
  LET last == {p \in Extent(block) : m.page[p].refs = 1}
  IN {r \in {<<p, q>> : p, q \in last} :
        /\ r[1] <= r[2]
        /\ r[1] .. r[2] \subseteq last
        /\ r[1] - 1 \notin last
        /\ r[2] + 1 \notin last}

\* Every run is freed into the section of its first page, under the one lock taken.
free_large_page(m, block) ==
  LET runs == LastRefRuns(m, block)
      down == [m EXCEPT !.page = [p \in Page |->
                 IF p \in Extent(block) THEN [m.page[p] EXCEPT !.refs = @ - 1] ELSE m.page[p]]]
      done[todo \in SUBSET runs] ==
        IF todo = {} THEN down
        ELSE LET r == CHOOSE r \in todo : \A x \in todo : x[1] <= r[1]
                 before == done[todo \ {r}]
             IN IF before.fault # "none" THEN before
                ELSE free_amount_of_pages(before, SectionOf(r[1]), r[1], r[2] - r[1] + 1)
  IN done[runs]

free_pages(m, s, block, order) ==
  IF m.page[block[1]].state = "LARGE_HEAD"
  THEN free_large_page(m, block)
  ELSE free_amount_of_pages(m, s, block[1], order)
-----------------------------------------------------------------------------
(* The calls.  A processor scans the sections of a zone and of the zones   *)
(* it falls back to, skipping a section whose lock is busy.                *)

Idle == [at |-> "idle"]

\* The memory as the free under way will leave it.
Freed(c) ==
  LET b == pc[c].block IN free_pages(mem, pc[c].s, <<b.page, b.order>>, b.order)

\* The sections whose lists a processor is about to change.
Editing(c) ==
  CASE pc[c].at = "locked"  -> {pc[c].s}
    [] pc[c].at = "freeing" -> {s \in Section : s = pc[c].s
                                              \/ Freed(c).section[s] # mem.section[s]}
    [] OTHER -> {}

\* Two processors inside the lists of one section: a data race.
Races(c) == \E d \in CPU \ {c} : Editing(c) \cap Editing(d) # {}

Running == mem.fault = "none"

ZoneFree(s) == LET same == {t \in Section : Sections[t].zone = Sections[s].zone}
               IN MapThenSumSet(LAMBDA t : mem.section[t].total_free, same)

Init ==
  /\ mem = LET runs == {r \in Boot \X Boot :
                           /\ r[1] <= r[2] /\ r[1] .. r[2] \subseteq Boot
                           /\ SectionOf(r[1]) = SectionOf(r[2])
                           /\ r[1] - 1 \in Boot => SectionOf(r[1] - 1) # SectionOf(r[1])
                           /\ r[2] + 1 \in Boot => SectionOf(r[2] + 1) # SectionOf(r[2])}
               blocks == UNION {Chunks(r[1], r[2] - r[1] + 1) : r \in runs}
               of(s) == {b \in blocks : SectionOf(b[1]) = s}
               crucial == [state |-> "SYSTEM_CRUCIAL", head |-> NoPage, refs |-> 0]
           IN [section |-> [s \in Section |->
                 [freelist |-> of(s),
                  skew |-> [o \in Order |-> 0],
                  min_order |-> 0,
                  max_order |-> IF of(s) = {} THEN 0 ELSE Max({b[2] : b \in of(s)}) + 1,
                  total_free |-> Cardinality(UNION {Extent(b) : b \in of(s)})]],
               page |-> MarkFree([p \in Page |-> crucial], blocks),
               fault |-> "none",
               crossed |-> FALSE]
  /\ owned = {}
  /\ lock = [s \in Section |-> NoCPU]
  /\ pc = [c \in CPU |-> Idle]

\* alloc_pages, alloc_pages_from_zone, alloc_large_page: the zone to start with.
AllocCall(c, r) ==
  /\ pc[c].at = "idle"
  /\ r.order < MAX_ORDER
  /\ pc' = [pc EXCEPT ![c] = [at |-> "scan", req |-> r, s |-> r.from]]
  /\ UNCHANGED <<mem, owned, lock>>

FirstOfZone(s) == \A t \in Section : t < s => Sections[t].zone # Sections[s].zone

NextZone(s) == Min({t \in Section : t > s /\ FirstOfZone(t)} \cup {Cardinality(Section) + 1})

ZoneTooSmall(c) == FirstOfZone(pc[c].s) /\ ZoneFree(pc[c].s) < 2^pc[c].req.order

\* Too few pages in the zone, a section whose lock is busy, or no zone left.
ScanSkip(c) ==
  /\ pc[c].at = "scan"
  /\ \/ /\ pc[c].s \notin Section
        /\ pc' = [pc EXCEPT ![c] = Idle]
     \/ /\ pc[c].s \in Section /\ ZoneTooSmall(c)
        /\ pc' = [pc EXCEPT ![c].s = NextZone(@)]
     \/ /\ pc[c].s \in Section /\ ~ZoneTooSmall(c) /\ lock[pc[c].s] # NoCPU
        /\ pc' = [pc EXCEPT ![c].s = @ + 1]
  /\ UNCHANGED <<mem, owned, lock>>

MutLockUntested(c) ==
  /\ pc[c].at = "scan" /\ pc[c].s \in Section
  /\ ~ZoneTooSmall(c)
  /\ lock' = [lock EXCEPT ![pc[c].s] = c]
  /\ pc' = [pc EXCEPT ![c].at = "locked"]
  /\ UNCHANGED <<mem, owned>>

ScanLock(c) ==
  /\ pc[c].at = "scan" /\ pc[c].s \in Section
  /\ ~ZoneTooSmall(c)
  /\ lock[pc[c].s] = NoCPU
  /\ lock' = [lock EXCEPT ![pc[c].s] = c]
  /\ pc' = [pc EXCEPT ![c].at = "locked"]
  /\ UNCHANGED <<mem, owned>>

\* A block of exactly the order of a large page serves only if it is aligned.
Fits(b, r) == r.state # "LARGE_HEAD" \/ b[2] > r.order \/ Frame[b[1]] % 2^r.order = 0

\* The orders within the section's bounds whose count makes a scan stop there: for a
\* block that serves r, or for the head of an empty list.
StopsAt(sec, r) ==
  {o \in Order : /\ o >= r.order /\ o >= sec.min_order /\ o < sec.max_order
                 /\ Count(sec, o) # 0
                 /\ OfOrder(sec, o) = {} \/ \E b \in OfOrder(sec, o) : Fits(b, r)}

\* The blocks that serve r of the first order the scan stops at.
Candidates(sec, r) ==
  {b \in sec.freelist : /\ b[2] \in StopsAt(sec, r) /\ Fits(b, r)
                        /\ \A o \in StopsAt(sec, r) : b[2] <= o}

MutNoBlockKeepsLock(c) ==
  /\ pc[c].at = "locked" /\ ~Races(c)
  /\ StopsAt(mem.section[pc[c].s], pc[c].req) = {}
  /\ pc' = [pc EXCEPT ![c].at = "scan", ![c].s = @ + 1]
  /\ UNCHANGED <<mem, owned, lock>>

\* The section has no block to offer: release its lock and go to the next.
NoBlock(c) ==
  /\ pc[c].at = "locked" /\ ~Races(c)
  /\ StopsAt(mem.section[pc[c].s], pc[c].req) = {}
  /\ lock' = [lock EXCEPT ![pc[c].s] = NoCPU]
  /\ pc' = [pc EXCEPT ![c].at = "scan", ![c].s = @ + 1]
  /\ UNCHANGED <<mem, owned>>

\* A count above the number of blocks: list_head of an empty list is no page.
Phantom(c) ==
  /\ pc[c].at = "locked" /\ ~Races(c)
  /\ StopsAt(mem.section[pc[c].s], pc[c].req) # {}
  /\ Candidates(mem.section[pc[c].s], pc[c].req) = {}
  /\ mem' = Fault(mem, "phantom")
  /\ UNCHANGED <<owned, lock, pc>>

\* The rest of the critical section: unlink, split, adjust the bounds, release.
TakeBlock(c) ==
  LET s == pc[c].s
      r == pc[c].req
      large == r.state = "LARGE_HEAD"
  IN /\ pc[c].at = "locked" /\ ~Races(c)
     /\ \E b \in Candidates(mem.section[s], r) :
          /\ mem' = IF large THEN get_large_from_freelist_order(mem, s, b, r.order)
                             ELSE get_from_freelist_order(mem, s, b, r.order)
          /\ pc' = [pc EXCEPT ![c] = [at |-> "setup", req |-> r,
                      page |-> IF large THEN AlignUp(b[1], r.order) ELSE b[1]]]
     /\ lock' = [lock EXCEPT ![s] = NoCPU]
     /\ UNCHANGED owned

\* After the lock is released: setup_pages_off_freelist (which a large page had
\* under the lock) and setup_alloced_page, then the block is the caller's.
SetUp(c) ==
  LET r == pc[c].req
      p == pc[c].page
  IN /\ pc[c].at = "setup"
     /\ mem' = [mem EXCEPT !.page =
          IF r.state = "LARGE_HEAD" THEN [@ EXCEPT ![p].refs = 1]
          ELSE setup_pages_off_freelist(@, p, r.order, r.state)]
     /\ owned' = owned \cup {[page |-> p, order |-> r.order, state |-> r.state]}
     /\ pc' = [pc EXCEPT ![c] = Idle]
     /\ UNCHANGED lock

\* free_pages: only a large page takes the section's lock.
FreeCall(c, b) ==
  LET s == SectionOf(b.page)
      large == b.state = "LARGE_HEAD"
  IN /\ pc[c].at = "idle"
     /\ b \in owned
     /\ mem.section[s].total_free <= MaxTotal
     /\ large => lock[s] = NoCPU
     /\ lock' = IF large THEN [lock EXCEPT ![s] = c] ELSE lock
     /\ owned' = owned \ {b}
     /\ pc' = [pc EXCEPT ![c] = [at |-> "freeing", s |-> s, block |-> b]]
     /\ UNCHANGED mem

FreeBlock(c) ==
  LET s == pc[c].s
  IN /\ pc[c].at = "freeing"
     /\ ~Races(c)
     /\ mem' = Freed(c)
     /\ lock' = IF lock[s] = c THEN [lock EXCEPT ![s] = NoCPU] ELSE lock
     /\ pc' = [pc EXCEPT ![c] = Idle]
     /\ UNCHANGED owned

\* Both processors are inside the lists: what they make of them is undefined.
Race(c) ==
  /\ pc[c].at \in {"locked", "freeing"} /\ Races(c)
  /\ mem' = Fault(mem, "race")
  /\ UNCHANGED <<owned, lock, pc>>

\* Splitting the mapping of a large page adds a reference to one of its pages.
RefTail(p) ==
  /\ \E b \in owned : b.state = "LARGE_HEAD" /\ p \in Extent(<<b.page, b.order>>)
  /\ mem.page[p].refs < MaxRef
  /\ mem' = [mem EXCEPT !.page[p].refs = @ + 1]
  /\ UNCHANGED <<owned, lock, pc>>

Halted == ~Running /\ UNCHANGED vars

Next ==
  \/ Running /\ \E c \in CPU :
       \/ \E r \in Requests : AllocCall(c, r)
       \/ ScanSkip(c) \/ ScanLock(c) \/ NoBlock(c) \/ Phantom(c) \/ TakeBlock(c) \/ SetUp(c)
       \/ \E b \in owned : FreeCall(c, b)
       \/ FreeBlock(c) \/ Race(c)
  \/ Running /\ \E p \in Page : RefTail(p)
  \/ Halted

Spec == Init /\ [][Next]_vars
-----------------------------------------------------------------------------
(* Properties.                                                             *)

Blocks == UNION {mem.section[s].freelist : s \in Section}
Window == {<<pc[c].page, pc[c].req.order>> : c \in {d \in CPU : pc[d].at = "setup"}}
Held == {<<b.page, b.order>> : b \in owned}
Returning == {<<pc[c].block.page, pc[c].block.order>> : c \in {d \in CPU : pc[d].at = "freeing"}}
FreePages == UNION {Extent(b) : b \in Blocks}

PageState == {"FREE_LIST_TAIL", "FREE_LIST_HEAD", "SYSTEM_CRUCIAL", "SLAB_HEAD", "SLAB_TAIL",
              "TABLE", "LARGE_HEAD", "LARGE_TAIL", "USED"}

\* The struct pages, bounds and blocks stay in their ranges; min_order may be
\* MAX_ORDER after the last block of a section went (take_off_freelist_to_add_later).
TypeOK ==
  /\ DOMAIN mem.page = Page
  /\ \A p \in Page : /\ mem.page[p].state \in PageState
                     /\ mem.page[p].head \in Page \cup {NoPage}
                     /\ mem.page[p].refs \in 0 .. MaxRef
  /\ \A s \in Section : /\ mem.section[s].freelist \subseteq Page \X Order
                        /\ mem.section[s].skew \in [Order -> Int]
                        /\ mem.section[s].min_order \in 0 .. MAX_ORDER
                        /\ mem.section[s].max_order \in 0 .. MAX_ORDER
                        /\ mem.section[s].total_free \in Nat
  /\ mem.fault \in {"none", "order", "stale", "phantom", "race"}
  /\ lock \in [Section -> CPU \cup {NoCPU}]

\* Merging adds pages to total_free again but nothing is ever left out: the early
\* return of try_alloc_pages_from_zone never hides pages that are on a list.
TotalFreeCoversLists ==
  Running => \A s \in Section :
    mem.section[s].total_free >= Cardinality(UNION {Extent(b) : b \in mem.section[s].freelist})

\* Until a merge reaches over the end of a section, every listed block lies in its
\* section, the counts are those of the lists, and a scan that starts at min_order
\* misses no block (the max_order end is another matter).  Such a merge
\* (free_amount_of_pages, lines 690-697) breaks all three.
SectionsApart ==
  Running /\ ~mem.crossed => \A s \in Section :
    /\ mem.section[s].skew = [o \in Order |-> 0]
    /\ \A b \in mem.section[s].freelist :
         /\ Extent(b) \subseteq Sections[s].first .. Sections[s].last
         /\ mem.section[s].min_order <= b[2]

\* Until undefined behaviour is met, and also after a merge over the end of a
\* section, no listed block overlaps another of any section, its first page is a
\* head and its other pages are tails that name it, and a head that is on no list
\* is one whose setup is still to come after the lock was released
\* (add_to_freelist_order, free_amount_of_pages); the totals hide no listed page.
FreeListsIntact ==
  /\ TypeOK /\ TotalFreeCoversLists /\ SectionsApart
  /\ Running =>
       /\ \A s \in Section : \A b \in mem.section[s].freelist :
            /\ mem.page[b[1]].state = "FREE_LIST_HEAD"
            /\ \A p \in Extent(b) \ {b[1]} : /\ p \in Page
                                            /\ mem.page[p].state = "FREE_LIST_TAIL"
                                            /\ mem.page[p].head = b[1]
       /\ \A s, t \in Section : \A b \in mem.section[s].freelist, x \in mem.section[t].freelist :
            s # t \/ b # x => Extent(b) \cap Extent(x) = {}
       /\ \A p \in Page : mem.page[p].state = "FREE_LIST_HEAD" =>
            \E b \in Blocks \cup Window : b[1] = p

\* A page that looks free and is on no list.
Stray(p) == /\ p \in Page \ FreePages
            /\ mem.page[p].state \in {"FREE_LIST_TAIL", "FREE_LIST_HEAD"}

\* The pages just before and just after those that a free gives back.
Beside(c) ==
  LET b == pc[c].block
      runs == IF mem.page[b.page].state = "LARGE_HEAD" THEN LastRefRuns(mem, <<b.page, b.order>>)
              ELSE {<<b.page, b.page + b.order - 1>>}
  IN {r[1] - 1 : r \in runs} \cup {r[2] + 1 : r \in runs}

\* A free trips over a page that is on no list only if such a page lies directly
\* beside the pages it gives back: the second page of a PAGE_STATE_USED block,
\* whose state setup_pages_off_freelist never sets, a page that an earlier
\* free_pages left behind, or one between take-off and setup on another processor.
StaleOnlyBesideStrayTails ==
  [][mem'.fault = "stale" /\ Running =>
       \E c \in CPU : pc[c].at = "freeing" /\ \E p \in Beside(c) : Stray(p)]_vars

\* Every way out of the critical sections releases the lock: a section's lock is
\* held only by a processor that is inside that section's lists (the scan that
\* finds no block, try_alloc_pages_from_zone line 372, included).
LockHeldOnlyInside ==
  Running => \A s \in Section, c \in CPU : lock[s] = c => s \in Editing(c)

\* A free that changes lists whose lock it has not taken: free_pages with a block
\* that is no large page, or a merge over the end of the section that is locked.
UnlockedFree(c) == pc[c].at = "freeing" /\ \E s \in Editing(c) : lock[s] # c

\* A section's lock is held only by a processor inside its lists, and two processors
\* meet there only through a free into lists whose lock it has not taken.
LocksGuardLists ==
  /\ []LockHeldOnlyInside
  /\ [][mem'.fault = "race" /\ Running => \E c \in CPU : UnlockedFree(c)]_vars

\* The allocator implements the page pool: no page has two owners, and neither
\* splitting nor merging touches a page of another owner.
Pool == INSTANCE PagePool WITH
          Usable <- Boot,
          free <- FreePages,
          owned <- {Extent(b) : b \in Held \cup Window \cup Returning},
          crashed <- ~Running
ImplementsPool == Pool!PoolSpec

\* page_alloc.h: free_pages takes the order the block was allocated with.  Once
\* no call is under way, every page given to the allocator is owned or free.
NoPageLost ==
  Running /\ (\A c \in CPU : pc[c].at = "idle") =>
    Boot \subseteq FreePages \cup UNION {Extent(b) : b \in Held}
=============================================================================
