------------------------------ MODULE Kmalloc -------------------------------
(***************************************************************************)
(* kmalloc, krealloc and kfree of kernel/mm/kmalloc.c over the slab        *)
(* allocators.  A request goes to the first of sixteen allocators whose    *)
(* objects are large enough; krealloc asks slab_object_size how large the  *)
(* object it was given is, and moves it in three steps (allocate, copy,    *)
(* free) between which other calls run.                                    *)
(* alloc_slab_page stores the allocator in the pages of a new slab but not *)
(* in the last of several, so that slab_object_size of an object that      *)
(* starts there goes through whatever the page held before.                *)
(***************************************************************************)
EXTENDS Slab, Sequences

CONSTANTS
  PAGE_SIZE,
  Requests,     \* sizes that callers ask for
  Stale,        \* what slab_object_size may read through a stale page
  MaxLive,      \* bound: objects in use when kmalloc is called
  MaxMoving     \* bound: krealloc calls under way

SizeArgs == <<16, 32, 64, 96, 128, 192, 256, 384, 512, 768, 1024, 1536, 2048, 4096, 6102, 8192>>
KMALLOC_MAX == 8192
MIN_OBJ_PER_SLAB == 4

VARIABLES
  asked,        \* the size each object in use was last asked to have
  moving        \* krealloc calls between their kmalloc and their kfree

kmallocVars == <<slabVars, asked, moving>>

\* slab_allocator_init
object_size(a) == ((SizeArgs[a] + 15) \div 16) * 16
slab_order(a) ==
  CHOOSE n \in 0 .. 15 : /\ PAGE_SIZE * 2^n >= object_size(a) * MIN_OBJ_PER_SLAB
                         /\ \A k \in 0 .. (n - 1) : PAGE_SIZE * 2^k < object_size(a) * MIN_OBJ_PER_SLAB
object_count_per_slab(a) == (PAGE_SIZE * 2^slab_order(a)) \div object_size(a)

\* What the constants have to be.
RealClasses ==
  /\ Allocator \subseteq DOMAIN SizeArgs
  /\ \A a \in Allocator : Objects[a] = object_count_per_slab(a)

MutClassBelow(size) ==
  CHOOSE a \in DOMAIN SizeArgs : /\ object_size(a) + 16 >= size
                                 /\ \A b \in 1 .. (a - 1) : object_size(b) + 16 < size

\* The loop of kmalloc: the first allocator whose objects hold size bytes.
ClassOf(size) ==
  CHOOSE a \in DOMAIN SizeArgs : /\ object_size(a) >= size
                                 /\ \A b \in 1 .. (a - 1) : object_size(b) < size

\* ... and every request has its allocator.
RequestsServed ==
  /\ Requests \subseteq Nat /\ Stale \subseteq Nat
  /\ \A size \in Requests : size \in 1 .. KMALLOC_MAX => ClassOf(size) \in Allocator

SizeOf(o) == object_size(owner[o[1]])

\* The object starts on the last page of a slab of several pages.
OnLastPage(o) ==
  LET a == owner[o[1]]
  IN /\ slab_order(a) > 0
     /\ (o[2] * object_size(a)) \div PAGE_SIZE = 2^slab_order(a) - 1

slab_object_size(o) == IF OnLastPage(o) THEN Stale ELSE {SizeOf(o)}

Idle == live \ ({m.old : m \in moving} \cup {m.new : m \in moving})
-----------------------------------------------------------------------------
KInit == Init /\ asked = <<>> /\ moving = {}

\* A successful slab_alloc for size; a size of 0 or above KMALLOC_MAX is refused.
Allocate(size) ==
  /\ size \in 1 .. KMALLOC_MAX
  /\ slab_alloc(ClassOf(size))
  /\ asked' = [o \in live' |-> IF o \in live THEN asked[o] ELSE size]

kmalloc(size) == Cardinality(live) < MaxLive /\ Allocate(size) /\ UNCHANGED moving

\* kmalloc refuses the size, or the page allocator has no block: NULL.
Refused(size) ==
  /\ \/ size \notin 1 .. KMALLOC_MAX
     \/ size \in 1 .. KMALLOC_MAX /\ AllocFails(ClassOf(size))
  /\ UNCHANGED kmallocVars

kfree(o) ==
  /\ slab_free(o[1], o[2])
  /\ asked' = [p \in live' |-> asked[p]]

MutInPlaceZero(o, size) ==
  /\ \E buffer_size \in slab_object_size(o) : size <= buffer_size
  /\ asked' = [asked EXCEPT ![o] = size]
  /\ UNCHANGED <<slabVars, moving>>

\* krealloc that finds the object large enough.
KreallocInPlace(o, size) ==
  /\ size > 0
  /\ \E buffer_size \in slab_object_size(o) : size <= buffer_size
  /\ asked' = [asked EXCEPT ![o] = size]
  /\ UNCHANGED <<slabVars, moving>>

MutCopyNewSize(o, size) ==
  /\ size > 0 /\ Cardinality(moving) < MaxMoving
  /\ \E buffer_size \in slab_object_size(o) :
       /\ size > buffer_size
       /\ Allocate(size)
       /\ moving' = moving \cup {[old |-> o, new |-> n, copied |-> size] : n \in live' \ live}

\* krealloc that does not: it allocates and copies buffer_size bytes.
KreallocMove(o, size) ==
  /\ size > 0 /\ Cardinality(moving) < MaxMoving
  /\ \E buffer_size \in slab_object_size(o) :
       /\ size > buffer_size
       /\ Allocate(size)
       /\ moving' = moving \cup {[old |-> o, new |-> n, copied |-> buffer_size] : n \in live' \ live}

MutFinishFreesNew(m) == kfree(m.new) /\ moving' = moving \ {m}

\* ... and frees the old object.
KreallocFinish(m) == kfree(m.old) /\ moving' = moving \ {m}

\* krealloc of size 0 frees its object, krealloc of NULL is kmalloc.
KNext ==
  \/ \E size \in Requests : kmalloc(size) \/ Refused(size)
  \/ \E o \in Idle : kfree(o) /\ UNCHANGED moving
  \/ \E o \in Idle, size \in Requests : KreallocInPlace(o, size) \/ KreallocMove(o, size)
  \/ \E m \in moving : KreallocFinish(m)

KSpec == KInit /\ [][KNext]_kmallocVars
-----------------------------------------------------------------------------
\* Every object in use has a size it was asked for, and a krealloc under way
\* holds two different objects in use, shared with no other call.
KTypeOK ==
  /\ DOMAIN asked = live /\ \A o \in live : asked[o] \in Nat \ {0}
  /\ \A m \in moving : m.old \in live /\ m.new \in live /\ m.old # m.new
  /\ \A m, n \in moving : m # n => {m.old, m.new} \cap {n.old, n.new} = {}

\* An object that does not start on the last page of its slab holds what its
\* owner asked for, however often krealloc has resized or moved it.
HoldsWhatWasAsked == \A o \in live : OnLastPage(o) \/ asked[o] <= SizeOf(o)

\* krealloc copies within both objects and everything the owner had stored,
\* again for objects that do not start on a last page.
CopyCoversBuffer ==
  \A m \in moving : \/ OnLastPage(m.old)
                    \/ /\ asked[m.old] <= m.copied /\ m.copied <= SizeOf(m.old)
                       /\ m.copied < SizeOf(m.new)

\* The buffers are where their owners think they are.
ObjectsHoldBuffers == KTypeOK /\ HoldsWhatWasAsked /\ CopyCoversBuffer

\* krealloc gives up the old object only when the new one is at least as large
\* as what was asked (memcpy before kfree): no step leaves the owner without both.
MoveKeepsBuffer ==
  [][\A m \in moving : m \notin moving' =>
       /\ m.old \notin live' /\ m.new \in live' /\ asked'[m.new] <= SizeOf(m.new)]_kmallocVars
=============================================================================
