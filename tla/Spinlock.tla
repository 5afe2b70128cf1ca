------------------------------ MODULE Spinlock ------------------------------
(***************************************************************************)
(* kernel/cpu/spinlock.c: the ticket spinlock, through the three calls the *)
(* kernel uses (spin_acquire_with_irq, spin_try_acquire_with_irq and       *)
(* spin_release_with_irq), one step per atomic operation.  Every cpu runs  *)
(* a thread that an interrupt handler may suspend while the cpu's          *)
(* interrupts are enabled; both may use the lock.                          *)
(***************************************************************************)
EXTENDS Naturals, FiniteSets

CONSTANTS CPU,              \* the processors
          TicketMod         \* number of ticket values: 2^32 for uint32_t

ASSUME CPUAssumption == IsFiniteSet(CPU)

\* No more processors than tickets: a full ring would look like a free lock.
ASSUME TicketModAssumption == TicketMod \in Nat /\ Cardinality(CPU) < TicketMod

VARIABLES front, back,      \* struct spinlock
          irqs,             \* the cpus whose interrupts are enabled
          bootIrqs,         \* irqs before the first call (never changes)
          inHandler,        \* the cpus whose thread a handler suspends
          pc,               \* the next atomic step of each context
          ticket,           \* its local "ticket"
          flag              \* the contexts whose saved irq flag is set

vars == <<front, back, irqs, bootIrqs, inHandler, pc, ticket, flag>>
lock == <<front, back>>
cpus == <<irqs, bootIrqs, inHandler>>

Context == CPU \X {"thread", "handler"}
Thread(p) == <<p, "thread">>
Handler(p) == <<p, "handler">>

Ticket == 0 .. TicketMod - 1
Trying == {"load_front", "cas"}
PC == {"idle", "disable", "fetch_add", "spin", "held", "enable",
       "try_disable", "load_back"} \cup Trying

\* uint32_t addition of 1.
Succ(t) == IF t = TicketMod - 1 THEN 0 ELSE t + 1

\* Tickets from a up to b, on the ring.
Dist(a, b) == IF a <= b THEN b - a ELSE (b + TicketMod) - a

Running(c) == (c[2] = "handler") <=> (c[1] \in inHandler)

Goto(c, to) == pc' = [pc EXCEPT ![c] = to]

Init == /\ front = 0 /\ back = 0
        /\ irqs \in SUBSET CPU
        /\ bootIrqs = irqs
        /\ inHandler = {}
        /\ pc = [c \in Context |-> "idle"]
        /\ ticket = [c \in Context |-> 0]
        /\ flag = {}

-----------------------------------------------------------------------------
(* The calls. *)

\* Both acquiring calls begin by saving are_interrupts_enabled().
SaveFlag(c) == /\ pc[c] = "idle" /\ Running(c)
               /\ flag' = IF c[1] \in irqs THEN flag \cup {c} ELSE flag
               /\ \E to \in {"disable", "try_disable"} : Goto(c, to)
               /\ UNCHANGED <<lock, cpus, ticket>>

MutDisableNothing(c) ==
    /\ Running(c)
    /\ \/ pc[c] = "disable" /\ Goto(c, "fetch_add")
       \/ pc[c] = "try_disable" /\ Goto(c, "load_back")
    /\ UNCHANGED <<lock, cpus, ticket, flag>>

DisableAllInterrupts(c) ==
    /\ Running(c)
    /\ \/ pc[c] = "disable" /\ Goto(c, "fetch_add")
       \/ pc[c] = "try_disable" /\ Goto(c, "load_back")
    /\ irqs' = irqs \ {c[1]}
    /\ UNCHANGED <<lock, bootIrqs, inHandler, ticket, flag>>

\* A try that has read back is over before back comes round to the value it
\* read: the compare-exchange tells values apart, not laps of the ring.
NoLap(b) == \A d \in Context : pc[d] \in Trying => ticket[d] # b

\* spin_acquire: the fetch-and-add of back.
TakeTicket(c) == /\ pc[c] = "fetch_add" /\ Running(c)
                 /\ NoLap(Succ(back))
                 /\ ticket' = [ticket EXCEPT ![c] = back]
                 /\ back' = Succ(back)
                 /\ Goto(c, "spin")
                 /\ UNCHANGED <<front, cpus, flag>>

MutSpinWhileNoTry(c) == /\ pc[c] = "spin" /\ Running(c)
                        /\ front = ticket[c]
                        /\ \A d \in Context : pc[d] \notin Trying
                        /\ Goto(c, "held")
                        /\ UNCHANGED <<lock, cpus, ticket, flag>>

MutSpinAnyOrder(c) == /\ pc[c] = "spin" /\ Running(c)
                      /\ \A d \in Context : pc[d] # "held"
                      /\ Goto(c, "held")
                      /\ UNCHANGED <<lock, cpus, ticket, flag>>

\* spin_acquire: the iteration of the loop that reads front == ticket.
Spin(c) == /\ pc[c] = "spin" /\ Running(c)
           /\ front = ticket[c]
           /\ Goto(c, "held")
           /\ UNCHANGED <<lock, cpus, ticket, flag>>

\* spin_try_acquire: back first, then front, then the exchange.
TryLoadBack(c) == /\ pc[c] = "load_back" /\ Running(c)
                  /\ ticket' = [ticket EXCEPT ![c] = back]
                  /\ Goto(c, "load_front")
                  /\ UNCHANGED <<lock, cpus, flag>>

TryLoadFront(c) == /\ pc[c] = "load_front" /\ Running(c)
                   /\ Goto(c, IF front = ticket[c] THEN "cas" ELSE "enable")
                   /\ UNCHANGED <<lock, cpus, ticket, flag>>

MutTryPlainStore(c) == /\ pc[c] = "cas" /\ Running(c)
                       /\ back' = Succ(ticket[c])
                       /\ Goto(c, "held")
                       /\ UNCHANGED <<front, cpus, ticket, flag>>

TryCompareExchange(c) ==
    /\ pc[c] = "cas" /\ Running(c)
    /\ \/ /\ back = ticket[c]
          /\ NoLap(Succ(back))
          /\ back' = Succ(back)
          /\ Goto(c, "held")
       \/ /\ back # ticket[c]
          /\ Goto(c, "enable")
          /\ UNCHANGED back
    /\ UNCHANGED <<front, cpus, ticket, flag>>

\* spin_release, and after it the rest of spin_release_with_irq.
Release(c) == /\ pc[c] = "held" /\ Running(c)
              /\ front' = Succ(front)
              /\ Goto(c, "enable")
              /\ UNCHANGED <<back, cpus, ticket, flag>>

\* The end of a release and of a failed try; the call's locals die with it.
MutEnableAlways(c) == /\ pc[c] = "enable" /\ Running(c)
                      /\ irqs' = irqs \cup {c[1]}
                      /\ Goto(c, "idle")
                      /\ ticket' = [ticket EXCEPT ![c] = 0]
                      /\ flag' = flag \ {c}
                      /\ UNCHANGED <<lock, bootIrqs, inHandler>>

EnableIfFlag(c) == /\ pc[c] = "enable" /\ Running(c)
                   /\ irqs' = IF c \in flag THEN irqs \cup {c[1]} ELSE irqs
                   /\ Goto(c, "idle")
                   /\ ticket' = [ticket EXCEPT ![c] = 0]
                   /\ flag' = flag \ {c}
                   /\ UNCHANGED <<lock, bootIrqs, inHandler>>

-----------------------------------------------------------------------------
(* The processor: an interrupt gate clears the enable bit, the return sets *)
(* it again.                                                               *)

TakeInterrupt(p) == /\ p \in irqs /\ p \notin inHandler
                    /\ inHandler' = inHandler \cup {p}
                    /\ irqs' = irqs \ {p}
                    /\ UNCHANGED <<lock, bootIrqs, pc, ticket, flag>>

ReturnFromInterrupt(p) == /\ p \in inHandler /\ pc[Handler(p)] = "idle"
                          /\ inHandler' = inHandler \ {p}
                          /\ irqs' = irqs \cup {p}
                          /\ UNCHANGED <<lock, bootIrqs, pc, ticket, flag>>

\* A context inside a call goes on with it.
Step(c) == \/ DisableAllInterrupts(c)
           \/ TakeTicket(c) \/ Spin(c)
           \/ TryLoadBack(c) \/ TryLoadFront(c) \/ TryCompareExchange(c)
           \/ Release(c) \/ EnableIfFlag(c)

Next == \/ \E c \in Context : SaveFlag(c) \/ Step(c)
        \/ \E p \in CPU : TakeInterrupt(p) \/ ReturnFromInterrupt(p)

Spec == Init /\ [][Next]_vars

\* A cpu keeps executing the call it is in, and handlers return.
Fairness == /\ \A c \in Context : WF_vars(Step(c))
            /\ \A p \in CPU : WF_vars(ReturnFromInterrupt(p))

FairSpec == Spec /\ Fairness
-----------------------------------------------------------------------------
(* Properties. *)

\* The contexts that took a ticket and have not released it.
Waiting == {c \in Context : pc[c] \in {"spin", "held"}}

\* The contexts between disable_all_interrupts() and the end of the call.
Unmasked == {"idle", "disable", "try_disable"}
Masked == {c \in Context : pc[c] \notin Unmasked}

\* Every variable has the type of the C object it stands for.
TypeOK == /\ front \in Ticket /\ back \in Ticket
          /\ irqs \subseteq CPU
          /\ bootIrqs \subseteq CPU
          /\ inHandler \subseteq CPU
          /\ pc \in [Context -> PC]
          /\ ticket \in [Context -> Ticket]
          /\ flag \subseteq Context

\* spin_acquire and spin_try_acquire never let two callers in at a time, over
\* wrap-around of the counters and with tries racing acquisitions.
MutualExclusion ==
    \A c, d \in Context : pc[c] = "held" /\ pc[d] = "held" => c = d

\* While a handler runs, the thread it interrupted is not inside the masked
\* part of a call: a handler never spins for a lock its own cpu holds.
HandlerNeverWaitsForItsThread ==
    \A p \in inHandler : Thread(p) \notin Masked

\* Out of a call, a cpu has the interrupt state it had before its first call:
\* spin_release_with_irq and a failing try restore what was saved, and a
\* handler never turns interrupts on early.
IrqsRestored ==
    /\ inHandler \cap irqs = {}
    /\ \A p \in CPU \ inHandler :
          Thread(p) \notin Masked => (p \in irqs <=> p \in bootIrqs)

\* spin_acquire returns: every ticket is eventually served.
AcquireReturns == \A c \in Context : pc[c] = "spin" ~> pc[c] = "held"

\* The ticket lock is a first-come first-served queue: position i is whoever
\* holds the ticket i - 1 after front.
Queue == [i \in 1 .. Dist(front, back) |->
            CHOOSE c \in Waiting : Dist(front, ticket[c]) = i - 1]

Abstract == INSTANCE QueueLock
              WITH queue <- Queue, held <- {c \in Context : pc[c] = "held"}

\* Each step of the calls is a step of QueueLock or changes nothing there:
\* callers get the lock in the order of their fetch-and-add.
FirstComeFirstServed == Abstract!Spec
=============================================================================
