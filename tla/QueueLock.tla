----------------------------- MODULE QueueLock -----------------------------
(***************************************************************************)
(* What kernel/cpu/spinlock.c promises: callers queue for the lock, only   *)
(* the head of the queue gets it, and a try succeeds only on an empty      *)
(* queue.  Spinlock.tla implements this specification.                     *)
(***************************************************************************)
EXTENDS Naturals, Sequences

CONSTANT Context            \* whoever may call the lock

VARIABLES queue,            \* callers in the order they asked
          held              \* {} or the singleton of the holder

Init == queue = <<>> /\ held = {}

Enter(c) == /\ \A i \in DOMAIN queue : queue[i] # c
            /\ queue' = Append(queue, c)
            /\ UNCHANGED held

Get(c) == /\ queue # <<>>
          /\ Head(queue) = c
          /\ held = {}
          /\ held' = {c}
          /\ UNCHANGED queue

TryGet(c) == /\ queue = <<>>
             /\ queue' = <<c>>
             /\ held' = {c}

Leave(c) == /\ held = {c}
            /\ held' = {}
            /\ queue' = Tail(queue)

Next == \E c \in Context : Enter(c) \/ Get(c) \/ TryGet(c) \/ Leave(c)

Spec == Init /\ [][Next]_<<queue, held>>
=============================================================================
