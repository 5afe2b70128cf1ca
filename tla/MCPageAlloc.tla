---------------------------- MODULE MCPageAlloc -----------------------------
(***************************************************************************)
(* The page allocator on two small memories.                               *)
(*  - MC: two sections of one zone whose struct pages are adjacent, the    *)
(*    first with a reserved page in it; a scan visits the second before    *)
(*    the first; its frames are not contiguous with those of the first,    *)
(*    and neither starts on a large-page boundary.                         *)
(*  - Smp: two processors (or a thread and an interrupt handler) on two    *)
(*    zones of one section each; the second zone is the fallback of the    *)
(*    first.                                                               *)
(***************************************************************************)
EXTENDS PageAlloc, TLC

MCSections == <<[first |-> 5, last |-> 6, zone |-> 1], [first |-> 0, last |-> 4, zone |-> 1]>>
MCFrame == [p \in 0 .. 6 |-> IF p < 5 THEN 1 + p ELSE 14 + p]
MCBoot == (0 .. 6) \ {0}
MCRequests == {[state |-> "TABLE", order |-> 0, from |-> 1],
               [state |-> "SLAB_HEAD", order |-> 1, from |-> 1],
               [state |-> "USED", order |-> 1, from |-> 1],
               [state |-> "LARGE_HEAD", order |-> 1, from |-> 1]}

SmpSections == <<[first |-> 0, last |-> 3, zone |-> 1], [first |-> 4, last |-> 5, zone |-> 2]>>
SmpFrame == [p \in 0 .. 5 |-> IF p < 4 THEN p ELSE 16 + p]
SmpBoot == 0 .. 5
SmpRequests == {[state |-> "TABLE", order |-> 0, from |-> 1],
                [state |-> "USED", order |-> 1, from |-> 2],
                [state |-> "LARGE_HEAD", order |-> 1, from |-> 1]}
Symmetry == Permutations(CPU)
=============================================================================
