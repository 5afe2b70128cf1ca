------------------------------ MODULE PagePool ------------------------------
(***************************************************************************)
(* What the page allocator promises its callers, whatever its freelists    *)
(* look like: a page has at most one owner, an allocation is a run of      *)
(* pages that nobody owns, and giving a block back disturbs no other       *)
(* owner.  Pages may be lost (neither free nor owned) and found again.     *)
(***************************************************************************)
EXTENDS Naturals

CONSTANTS Usable    \* the pages handed to the allocator at boot

VARIABLES free,     \* pages that an allocation may return
          owned,    \* blocks (sets of pages) held by callers
          crashed   \* the kernel has run into undefined behaviour

poolVars == <<free, owned, crashed>>

Lost == Usable \ (free \cup UNION owned)

PoolInit == free = Usable /\ owned = {} /\ crashed = FALSE

Take == \E first, last \in free :
          LET block == first .. last
          IN /\ first <= last /\ block \subseteq free
             /\ free' = free \ block
             /\ owned' = owned \cup {block}
             /\ UNCHANGED crashed

Give == \E block \in owned : \E back \in SUBSET (block \cup Lost) :
          /\ owned' = owned \ {block}
          /\ free' = free \cup back
          /\ UNCHANGED crashed

\* Whatever is on the lists then, nothing of the owners that remain is.
Crash == /\ crashed' = TRUE /\ owned' \in SUBSET owned
         /\ free' \in SUBSET (Usable \ UNION owned')

PoolNext == ~crashed /\ (Take \/ Give \/ Crash)

PoolSpec == PoolInit /\ [][PoolNext]_poolVars
=============================================================================
