--------------------------- MODULE SpinlockProofs ---------------------------
(***************************************************************************)
(* Proofs about Spinlock for every set of processors and every ticket      *)
(* width that exceeds their number.                                        *)
(***************************************************************************)
EXTENDS Spinlock, Sequences, SequenceTheorems, FiniteSetTheorems, TLAPS

(* What the interrupt flags say about the contexts of a cpu. *)
IrqInv ==
    \A p \in CPU :
       /\ p \in inHandler => p \notin irqs /\ p \in bootIrqs
       /\ p \notin inHandler => pc[Handler(p)] = "idle"
       /\ pc[Thread(p)] \notin Unmasked => p \notin irqs /\ p \notin inHandler
       /\ p \notin inHandler /\ pc[Thread(p)] \in Unmasked
             => (p \in irqs <=> p \in bootIrqs)
       /\ pc[Thread(p)] # "idle" => (Thread(p) \in flag <=> p \in bootIrqs)
       /\ pc[Thread(p)] = "idle" => Thread(p) \notin flag
       /\ Handler(p) \notin flag

(* Outstanding tickets are distinct and fill the ring from front to back.  *)
TicketInv ==
    /\ \A c \in Waiting : Dist(front, ticket[c]) < Dist(front, back)
    /\ \A c, d \in Waiting : ticket[c] = ticket[d] => c = d
    /\ \A c \in Context : pc[c] = "held" => ticket[c] = front
    /\ \A c \in Context : pc[c] = "cas" /\ ticket[c] = back => ticket[c] = front
    /\ Cardinality(Waiting) = Dist(front, back)

IInv == TypeOK /\ IrqInv /\ TicketInv

-----------------------------------------------------------------------------
(* The ring. *)

(* SPINLOCK_INIT's 0 is a ticket.                                          *)
LEMMA ZeroTicket == 0 \in Ticket
  <1>1. Cardinality(CPU) \in Nat
    BY CPUAssumption, FS_CardinalityType
  <1> QED
    BY <1>1, TicketModAssumption DEF Ticket

(* Succ stays on the ring, the uint32_t addition of spin_acquire and       *)
(* spin_release.                                                           *)
LEMMA SuccType == \A t \in Ticket : Succ(t) \in Ticket
  BY TicketModAssumption DEF Ticket, Succ

(* Distances from front are below the number of tickets.                   *)
LEMMA DistType == \A a, b \in Ticket : Dist(a, b) \in Nat /\ Dist(a, b) < TicketMod
  BY TicketModAssumption DEF Ticket, Dist

(* Two tickets as far from front are the same ticket.                      *)
LEMMA DistInjective == \A a, t, u \in Ticket : Dist(a, t) = Dist(a, u) => t = u
  BY TicketModAssumption DEF Ticket, Dist

(* Front and back agree exactly when no ticket is outstanding.             *)
LEMMA DistZero == \A a, b \in Ticket : Dist(a, b) = 0 <=> a = b
  BY TicketModAssumption DEF Ticket, Dist

(* Advancing back lengthens the queue while the ring has room for it.      *)
LEMMA DistSuccBack ==
  \A a, b \in Ticket : Dist(a, b) + 1 < TicketMod => Dist(a, Succ(b)) = Dist(a, b) + 1
  BY TicketModAssumption DEF Ticket, Dist, Succ

(* Advancing front brings every other ticket one place nearer.             *)
LEMMA DistSuccFront ==
  \A a, b \in Ticket : a # b => Dist(Succ(a), b) = Dist(a, b) - 1
  BY TicketModAssumption DEF Ticket, Dist, Succ

-----------------------------------------------------------------------------
(* A cpu has at most one context inside the masked part of a call. *)

(* The contexts of a cpu are its thread and its handler.                   *)
LEMMA Contexts ==
  /\ \A p \in CPU : /\ Thread(p) \in Context /\ Handler(p) \in Context
                    /\ Thread(p)[1] = p /\ Handler(p)[1] = p
                    /\ Running(Thread(p)) <=> p \notin inHandler
                    /\ Running(Handler(p)) <=> p \in inHandler
  /\ \A p, q \in CPU : /\ Thread(p) # Handler(q)
                       /\ Thread(p) = Thread(q) => p = q
                       /\ Handler(p) = Handler(q) => p = q
  /\ \A c \in Context : \E p \in CPU : c = Thread(p) \/ c = Handler(p)
  BY DEF Context, Thread, Handler, Running

(* The masked contexts of one cpu are one context, so that a cpu never     *)
(* holds two tickets of the lock.                                          *)
LEMMA OneMaskedPerCPU ==
  ASSUME TypeOK, IrqInv, NEW c \in Masked, NEW d \in Masked, c[1] = d[1]
  PROVE  c = d
  <1>1. c \in Context /\ d \in Context
    BY DEF Masked
  <1>2. PICK p \in CPU : /\ c = Thread(p) \/ c = Handler(p)
                         /\ d = Thread(p) \/ d = Handler(p)
    BY <1>1 DEF Context, Thread, Handler
  <1>3. ~(Thread(p) \in Masked /\ Handler(p) \in Masked)
    BY DEF IrqInv, Masked, Unmasked
  <1> QED
    BY <1>2, <1>3

(* The callers with a ticket, together with one more that is about to      *)
(* take one, are no more than the processors: the ring never fills.        *)
LEMMA RingHasRoom ==
  ASSUME TypeOK, IrqInv, NEW S, S \subseteq Masked
  PROVE  IsFiniteSet(S) /\ Cardinality(S) < TicketMod
  <1> DEFINE f == [c \in S |-> c[1]]
  <1>1. f \in Injection(S, CPU)
    <2>1. \A c \in S : c \in Context
      BY DEF Masked
    <2>2. f \in [S -> CPU]
      BY <2>1 DEF Context
    <2>3. \A c, d \in S : f[c] = f[d] => c = d
      BY OneMaskedPerCPU
    <2> QED
      BY <2>2, <2>3 DEF Injection, IsInjective
  <1>2. IsFiniteSet(S) /\ Cardinality(S) <= Cardinality(CPU)
    BY <1>1, CPUAssumption, FS_Injection
  <1>3. Cardinality(S) \in Nat /\ Cardinality(CPU) \in Nat
    BY <1>2, CPUAssumption, FS_CardinalityType
  <1> QED
    BY <1>2, <1>3, TicketModAssumption
-----------------------------------------------------------------------------
(* Type correctness. *)

(* Every step of the calls, of an interrupt and of its return keeps every  *)
(* variable in its C type, the counters through their wrap-around too.     *)
LEMMA TypeStep == TypeOK /\ [Next]_vars => TypeOK'
  <1> SUFFICES ASSUME TypeOK, [Next]_vars PROVE TypeOK'
    OBVIOUS
  <1> USE DEF TypeOK, Goto, lock, cpus, PC, Trying
  <1>1. ASSUME NEW c \in Context, SaveFlag(c) PROVE TypeOK'
    BY <1>1 DEF SaveFlag, Context
  <1>2. ASSUME NEW c \in Context, DisableAllInterrupts(c) PROVE TypeOK'
    BY <1>2 DEF DisableAllInterrupts, Context
  <1>3. ASSUME NEW c \in Context, TakeTicket(c) PROVE TypeOK'
    BY <1>3, SuccType DEF TakeTicket
  <1>4. ASSUME NEW c \in Context, Spin(c) PROVE TypeOK'
    BY <1>4 DEF Spin
  <1>5. ASSUME NEW c \in Context, TryLoadBack(c) PROVE TypeOK'
    BY <1>5 DEF TryLoadBack
  <1>6. ASSUME NEW c \in Context, TryLoadFront(c) PROVE TypeOK'
    BY <1>6 DEF TryLoadFront
  <1>7. ASSUME NEW c \in Context, TryCompareExchange(c) PROVE TypeOK'
    BY <1>7, SuccType DEF TryCompareExchange
  <1>8. ASSUME NEW c \in Context, Release(c) PROVE TypeOK'
    BY <1>8, SuccType DEF Release
  <1>9. ASSUME NEW c \in Context, EnableIfFlag(c) PROVE TypeOK'
    BY <1>9, ZeroTicket DEF EnableIfFlag, Context
  <1>10. ASSUME NEW p \in CPU, TakeInterrupt(p) \/ ReturnFromInterrupt(p)
         PROVE  TypeOK'
    BY <1>10 DEF TakeInterrupt, ReturnFromInterrupt
  <1>11. CASE UNCHANGED vars
    BY <1>11 DEF vars
  <1> QED
    BY <1>1, <1>2, <1>3, <1>4, <1>5, <1>6, <1>7, <1>8, <1>9, <1>10, <1>11
       DEF Next, Step

(* The counters, locals and interrupt flags always hold values of their C  *)
(* types, for every ticket width and any number of processors.             *)
THEOREM TypeCorrect == Spec => []TypeOK
  <1>1. Init => TypeOK
    BY ZeroTicket DEF Init, TypeOK, PC, Context
  <1> QED
    BY <1>1, TypeStep, PTL DEF Spec
-----------------------------------------------------------------------------
(* Interrupt flags. *)

(* Every step keeps the correspondence between a cpu's interrupt flag, the *)
(* flag its callers saved and where its two contexts stand.                *)
LEMMA IrqStep == TypeOK /\ IrqInv /\ [Next]_vars => IrqInv'
  <1> SUFFICES ASSUME TypeOK, IrqInv, [Next]_vars PROVE IrqInv'
    OBVIOUS
  <1> USE Contexts DEF TypeOK, IrqInv, Unmasked, Goto, cpus
  <1>1. ASSUME NEW c \in Context, SaveFlag(c) PROVE IrqInv'
    BY <1>1 DEF SaveFlag
  <1>2. ASSUME NEW c \in Context, DisableAllInterrupts(c) PROVE IrqInv'
    BY <1>2 DEF DisableAllInterrupts
  <1>3. ASSUME NEW c \in Context, TakeTicket(c) PROVE IrqInv'
    BY <1>3 DEF TakeTicket
  <1>4. ASSUME NEW c \in Context, Spin(c) PROVE IrqInv'
    BY <1>4 DEF Spin
  <1>5. ASSUME NEW c \in Context, TryLoadBack(c) PROVE IrqInv'
    BY <1>5 DEF TryLoadBack
  <1>6. ASSUME NEW c \in Context, TryLoadFront(c) PROVE IrqInv'
    BY <1>6 DEF TryLoadFront
  <1>7. ASSUME NEW c \in Context, TryCompareExchange(c) PROVE IrqInv'
    BY <1>7 DEF TryCompareExchange
  <1>8. ASSUME NEW c \in Context, Release(c) PROVE IrqInv'
    BY <1>8 DEF Release
  <1>9. ASSUME NEW c \in Context, EnableIfFlag(c) PROVE IrqInv'
    BY <1>9 DEF EnableIfFlag
  <1>10. ASSUME NEW p \in CPU, TakeInterrupt(p) \/ ReturnFromInterrupt(p)
         PROVE  IrqInv'
    BY <1>10 DEF TakeInterrupt, ReturnFromInterrupt
  <1>11. CASE UNCHANGED vars
    BY <1>11 DEF vars
  <1> QED
    BY Zenon, <1>1, <1>2, <1>3, <1>4, <1>5, <1>6, <1>7, <1>8, <1>9, <1>10, <1>11
       DEF Next, Step
-----------------------------------------------------------------------------
(* Tickets. *)

(* A caller that takes the next ticket extends the window of outstanding   *)
(* tickets by one, whether it then spins (spin_acquire) or already has the *)
(* lock (the exchange of spin_try_acquire).                                *)
LEMMA TicketTaken ==
  ASSUME TypeOK, IrqInv, TicketInv, TypeOK',
         NEW c \in Context, c \in Masked, c \notin Waiting,
         NEW at \in {"spin", "held"}, pc' = [pc EXCEPT ![c] = at],
         ticket' = [ticket EXCEPT ![c] = back],
         back' = Succ(back), front' = front, NoLap(Succ(back)),
         at = "held" => front = back
  PROVE  TicketInv'
  <1> USE DEF TypeOK
  <1>1. Waiting' = Waiting \cup {c}
    BY DEF Waiting
  <1>2. /\ IsFiniteSet(Waiting) /\ IsFiniteSet(Waiting \cup {c})
        /\ Cardinality(Waiting \cup {c}) < TicketMod
    <2>1. Waiting \subseteq Masked
      BY DEF Waiting, Masked, Unmasked
    <2> QED
      BY <2>1, RingHasRoom
  <1>3. Cardinality(Waiting \cup {c}) = Cardinality(Waiting) + 1
    BY <1>2, FS_AddElement
  <1>4. /\ Dist(front, back)' = Dist(front, back) + 1
        /\ Cardinality(Waiting)' = Dist(front, back)'
    <2>1. Dist(front, back) + 1 < TicketMod
      BY <1>2, <1>3 DEF TicketInv
    <2> QED
      BY <1>1, <1>3, <2>1, DistSuccBack DEF TicketInv
  <1>5. \A d \in Waiting : d # c /\ ticket'[d] = ticket[d] /\ ticket[d] # back
    BY DistType DEF TicketInv, Waiting
  <1>6. \A d \in Waiting' : Dist(front, ticket[d])' < Dist(front, back)'
    <2> SUFFICES ASSUME NEW d \in Waiting'
                 PROVE  Dist(front, ticket'[d]) < Dist(front, back)'
      OBVIOUS
    <2>1. CASE d = c
      BY <2>1, <1>4, DistType
    <2>2. CASE d \in Waiting
      <3>1. ticket[d] \in Ticket
        BY <2>2 DEF Waiting
      <3> QED
        BY <2>2, <3>1, <1>4, <1>5, DistType DEF TicketInv
    <2> QED
      BY <1>1, <2>1, <2>2
  <1>7. \A d, e \in Waiting' : ticket'[d] = ticket'[e] => d = e
    BY <1>1, <1>5 DEF TicketInv
  <1>8. \A d \in Context : pc'[d] = "held" => ticket'[d] = front'
    BY DEF TicketInv
  <1>9. \A d \in Context : pc'[d] = "cas" /\ ticket'[d] = back' => ticket'[d] = front'
    BY DEF NoLap, Trying
  <1> QED
    BY <1>4, <1>6, <1>7, <1>8, <1>9 DEF TicketInv

(* spin_release by the holder moves the window past its ticket.            *)
LEMMA TicketReleased ==
  ASSUME TypeOK, IrqInv, TicketInv, TypeOK',
         NEW c \in Context, Release(c)
  PROVE  TicketInv'
  <1> USE DEF TypeOK, Goto, cpus, Release
  <1>1. c \in Waiting /\ Waiting' = Waiting \ {c}
    BY DEF Waiting
  <1>2. ticket[c] = front /\ front # back
    BY <1>1, DistZero, DistType DEF TicketInv
  <1>3. IsFiniteSet(Waiting)
    <2>1. Waiting \subseteq Masked
      BY DEF Waiting, Masked, Unmasked
    <2> QED
      BY <2>1, RingHasRoom
  <1>4. /\ Dist(front, back)' = Dist(front, back) - 1
        /\ Cardinality(Waiting)' = Dist(front, back)'
    <2>1. Cardinality(Waiting \ {c}) = Cardinality(Waiting) - 1
      BY <1>1, <1>3, FS_RemoveElement, Zenon
    <2>2. Dist(Succ(front), back) = Dist(front, back) - 1
      BY <1>2, DistSuccFront
    <2>3. Dist(front, back)' = Dist(Succ(front), back)
      OBVIOUS
    <2> QED
      BY <1>1, <2>1, <2>2, <2>3 DEF TicketInv
  <1>5. \A d \in Waiting' : ticket[d] # front
    BY <1>1, <1>2 DEF TicketInv
  <1>6. \A d \in Waiting' : Dist(front, ticket[d])' < Dist(front, back)'
    <2> SUFFICES ASSUME NEW d \in Waiting'
                 PROVE  Dist(front', ticket[d]) < Dist(front', back)
      OBVIOUS
    <2>1. d \in Waiting /\ d \in Context
      BY <1>1 DEF Waiting
    <2>2. Dist(front', ticket[d]) = Dist(front, ticket[d]) - 1
      BY <1>5, <2>1, DistSuccFront
    <2> QED
      BY <1>4, <2>1, <2>2, DistType DEF TicketInv
  <1>7. \A d, e \in Waiting' : ticket'[d] = ticket'[e] => d = e
    BY <1>1 DEF TicketInv
  <1>8. \A d \in Context : pc'[d] = "held" => ticket'[d] = front'
    <2>1. \A d \in Context : pc'[d] # "held"
      BY <1>2, <1>5 DEF TicketInv, Waiting
    <2> QED
      BY <2>1
  <1>9. \A d \in Context : pc'[d] = "cas" /\ ticket'[d] = back' => ticket'[d] = front'
    BY <1>2 DEF TicketInv
  <1> QED
    BY <1>4, <1>6, <1>7, <1>8, <1>9 DEF TicketInv
(* Every step keeps the outstanding tickets distinct and contiguous.       *)
LEMMA TicketStep ==
  TypeOK /\ TypeOK' /\ IrqInv /\ TicketInv /\ [Next]_vars => TicketInv'
  <1> SUFFICES ASSUME TypeOK, TypeOK', IrqInv, TicketInv, [Next]_vars
               PROVE  TicketInv'
    OBVIOUS
  <1> USE DEF TypeOK, Goto, lock, cpus
  <1> DEFINE Quiet == /\ front' = front /\ back' = back
                      /\ Waiting' = Waiting
                      /\ \A d \in Waiting : ticket'[d] = ticket[d]
  <1>1. ASSUME Quiet,
               \A d \in Context : pc'[d] = "held" => ticket'[d] = front,
               \A d \in Context : pc'[d] = "cas" /\ ticket'[d] = back => ticket'[d] = front
        PROVE  TicketInv'
    BY <1>1 DEF TicketInv
  <1>2. ASSUME NEW c \in Context, SaveFlag(c) PROVE TicketInv'
    BY <1>1, <1>2, Zenon DEF SaveFlag, TicketInv, Waiting
  <1>3. ASSUME NEW c \in Context, DisableAllInterrupts(c) PROVE TicketInv'
    BY <1>1, <1>3 DEF DisableAllInterrupts, TicketInv, Waiting
  <1>4. ASSUME NEW c \in Context, TakeTicket(c) PROVE TicketInv'
    <2>1. c \in Masked /\ c \notin Waiting
      BY <1>4 DEF TakeTicket, Masked, Waiting, Unmasked
    <2> QED
      BY <1>4, <2>1, TicketTaken, Zenon DEF TakeTicket
  <1>5. ASSUME NEW c \in Context, Spin(c) PROVE TicketInv'
    BY <1>1, <1>5 DEF Spin, TicketInv, Waiting
  <1>6. ASSUME NEW c \in Context, TryLoadBack(c) PROVE TicketInv'
    BY <1>1, <1>6, Zenon DEF TryLoadBack, TicketInv, Waiting
  <1>7. ASSUME NEW c \in Context, TryLoadFront(c) PROVE TicketInv'
    BY <1>1, <1>7, Zenon DEF TryLoadFront, TicketInv, Waiting
  <1>8. ASSUME NEW c \in Context, TryCompareExchange(c) PROVE TicketInv'
    <2>1. CASE back = ticket[c]
      <3>1. /\ c \in Masked /\ c \notin Waiting
            /\ ticket' = [ticket EXCEPT ![c] = back]
            /\ front = back
        BY <1>8, <2>1 DEF TryCompareExchange, Masked, Waiting, Unmasked, TicketInv
      <3> QED
        BY <1>8, <2>1, <3>1, TicketTaken, Zenon DEF TryCompareExchange
    <2>2. CASE back # ticket[c]
      BY <1>1, <1>8, <2>2 DEF TryCompareExchange, TicketInv, Waiting
    <2> QED
      BY <2>1, <2>2
  <1>9. ASSUME NEW c \in Context, Release(c) PROVE TicketInv'
    BY <1>9, TicketReleased
  <1>10. ASSUME NEW c \in Context, EnableIfFlag(c) PROVE TicketInv'
    BY <1>1, <1>10, Zenon DEF EnableIfFlag, TicketInv, Waiting
  <1>11. ASSUME NEW p \in CPU, TakeInterrupt(p) \/ ReturnFromInterrupt(p)
         PROVE  TicketInv'
    BY <1>1, <1>11 DEF TakeInterrupt, ReturnFromInterrupt, TicketInv, Waiting
  <1>12. CASE UNCHANGED vars
    BY <1>1, <1>12 DEF vars, TicketInv, Waiting
  <1> QED
    BY <1>2, <1>3, <1>4, <1>5, <1>6, <1>7, <1>8, <1>9, <1>10, <1>11, <1>12
       DEF Next, Step

-----------------------------------------------------------------------------
(* The theorems. *)

(* The strengthened invariant holds of the initial lock.                   *)
LEMMA InitIInv == Init => IInv
  <1> SUFFICES ASSUME Init PROVE IInv
    OBVIOUS
  <1>1. TypeOK
    BY ZeroTicket DEF Init, TypeOK, PC, Context
  <1>2. IrqInv
    BY Contexts DEF Init, IrqInv, Unmasked
  <1>3. Waiting = {}
    BY DEF Init, Waiting
  <1>4. TicketInv
    <2>1. Cardinality(Waiting) = Dist(front, back)
      BY <1>1, <1>3, FS_EmptySet, DistZero DEF Init, TypeOK
    <2> QED
      BY <1>3, <2>1 DEF Init, TicketInv, Waiting
  <1> QED
    BY <1>1, <1>2, <1>4 DEF IInv

(* The invariant is inductive.                                             *)
THEOREM Invariant == Spec => []IInv
  <1>1. IInv /\ [Next]_vars => IInv'
    BY TypeStep, IrqStep, TicketStep DEF IInv
  <1> QED
    BY <1>1, InitIInv, PTL DEF Spec

(* spin_acquire and spin_try_acquire never let two callers in together,    *)
(* for any number of processors below the number of ticket values.         *)
THEOREM Exclusion == Spec => []MutualExclusion
  <1>1. IInv => MutualExclusion
    BY DEF IInv, TicketInv, MutualExclusion, Waiting
  <1> QED
    BY <1>1, Invariant, PTL

(* A handler never finds the thread it interrupted inside a call that has  *)
(* disabled interrupts, so it cannot spin for its own cpu.                 *)
THEOREM NoSelfDeadlock == Spec => []HandlerNeverWaitsForItsThread
  <1>1. IInv => HandlerNeverWaitsForItsThread
    BY DEF IInv, TypeOK, IrqInv, HandlerNeverWaitsForItsThread, Masked
  <1> QED
    BY <1>1, Invariant, PTL

(* Outside of the masked part of a call every cpu has the interrupt state  *)
(* it started with: release and the failing try restore what was saved.    *)
THEOREM InterruptsRestored == Spec => []IrqsRestored
  <1>1. IInv => IrqsRestored
    BY Contexts DEF IInv, TypeOK, IrqInv, IrqsRestored, Masked
  <1> QED
    BY <1>1, Invariant, PTL
-----------------------------------------------------------------------------
(* The ticket lock implements the queue lock.  The queue is a function of  *)
(* the counters, the set of waiting contexts and their tickets; written as *)
(* an operator of these values it can be compared before and after a step. *)

QueueOf(f, b, W, t) ==
    [i \in 1 .. Dist(f, b) |-> CHOOSE c \in W : Dist(f, t[c]) = i - 1]

Holders == {c \in Context : pc[c] = "held"}

(* q lists the contexts of W, whose tickets t are distinct, in the order   *)
(* of the tickets from f up to b.                                          *)
IsQueue(q, f, b, W, t) ==
    /\ f \in Ticket /\ b \in Ticket
    /\ \A c \in W : t[c] \in Ticket
    /\ \A c, d \in W : t[c] = t[d] => c = d
    /\ q \in [1 .. Dist(f, b) -> W]
    /\ \A i \in 1 .. Dist(f, b) : Dist(f, t[q[i]]) = i - 1

(* Distinct tickets make the choices of the queue the only possible ones.  *)
LEMMA QueueUnique ==
  ASSUME NEW q, NEW f, NEW b, NEW W, NEW t, IsQueue(q, f, b, W, t)
  PROVE  QueueOf(f, b, W, t) = q
  <1> USE DEF IsQueue
  <1>1. ASSUME NEW i \in 1 .. Dist(f, b)
        PROVE  (CHOOSE c \in W : Dist(f, t[c]) = i - 1) = q[i]
    <2> DEFINE c == CHOOSE d \in W : Dist(f, t[d]) = i - 1
    <2>1. c \in W /\ Dist(f, t[c]) = i - 1
      OBVIOUS
    <2> HIDE DEF c
    <2>2. t[c] = t[q[i]]
      BY <2>1, DistInjective
    <2> QED
      BY <2>1, <2>2 DEF c
  <1> QED
    BY <1>1 DEF QueueOf

(* Every place of the queue is taken by a waiting context: there are as    *)
(* many of them as tickets between front and back, and their tickets are   *)
(* distinct.                                                               *)
LEMMA QueueFilled ==
  ASSUME IInv
  PROVE  /\ Queue = QueueOf(front, back, Waiting, ticket)
         /\ Dist(front, back) \in Nat
         /\ \A i \in 1 .. Dist(front, back) :
               Queue[i] \in Waiting /\ Dist(front, ticket[Queue[i]]) = i - 1
         /\ Queue \in Seq(Context) /\ Len(Queue) = Dist(front, back)
  <1> DEFINE D == Dist(front, back)
             f == [c \in Waiting |-> Dist(front, ticket[c])]
  <1>1. /\ D \in Nat /\ front \in Ticket /\ back \in Ticket
        /\ \A c \in Waiting : c \in Context /\ ticket[c] \in Ticket
    BY DistType DEF IInv, TypeOK, Waiting
  <1>2. f \in Injection(Waiting, 0 .. (D - 1))
    <2>1. \A c \in Waiting : f[c] \in 0 .. (D - 1)
      BY <1>1, DistType DEF IInv, TicketInv
    <2>2. \A c, d \in Waiting : f[c] = f[d] => c = d
      BY <1>1, DistInjective DEF IInv, TicketInv
    <2> QED
      BY <2>1, <2>2 DEF Injection, IsInjective
  <1>3. IsFiniteSet(0 .. (D - 1)) /\ Cardinality(0 .. (D - 1)) = D
    <2>1. D - 1 \in Int /\ 0 \in Int
      BY <1>1
    <2>2. /\ IsFiniteSet(0 .. (D - 1))
          /\ Cardinality(0 .. (D - 1)) = IF 0 > D - 1 THEN 0 ELSE (D - 1) - 0 + 1
      BY <2>1, FS_Interval
    <2> QED
      BY <1>1, <2>2
  <1>4. f \in Surjection(Waiting, 0 .. (D - 1))
    <2> HIDE DEF f
    <2>1. Cardinality(Waiting) = D
      BY DEF IInv, TicketInv
    <2> QED
      BY <1>2, <1>3, <2>1, FS_Injection
  <1>5. \A i \in 1 .. D : \E c \in Waiting : Dist(front, ticket[c]) = i - 1
    <2> TAKE i \in 1 .. D
    <2>1. i - 1 \in 0 .. (D - 1)
      BY <1>1
    <2>2. PICK c \in Waiting : f[c] = i - 1
      <3> HIDE DEF f
      <3> QED BY <1>4, <2>1 DEF Surjection
    <2> QED
      BY <2>2
  <1>6. \A i \in 1 .. D : Queue[i] \in Waiting /\ Dist(front, ticket[Queue[i]]) = i - 1
    <2> TAKE i \in 1 .. D
    <2>1. Queue[i] = CHOOSE c \in Waiting : Dist(front, ticket[c]) = i - 1
      BY DEF Queue
    <2> QED
      BY <1>5, <2>1
  <1>7. Queue \in [1 .. D -> Context]
    BY <1>1, <1>6 DEF Queue
  <1>8. Queue \in Seq(Context) /\ Len(Queue) = D
    BY <1>1, <1>7
  <1> QED
    BY <1>1, <1>6, <1>8 DEF Queue, QueueOf

(* A step that moves neither counter nor any waiting caller's ticket       *)
(* leaves the queue as it is.                                              *)
LEMMA QueueKept ==
  ASSUME IInv, IInv', front' = front, back' = back, Waiting' = Waiting,
         \A c \in Waiting : ticket'[c] = ticket[c]
  PROVE  Queue' = Queue
  <1>1. IsQueue(Queue, front', back', Waiting', ticket')
    <2>1. /\ front' \in Ticket /\ back' \in Ticket
          /\ \A c \in Waiting' : ticket'[c] \in Ticket
          /\ \A c, d \in Waiting' : ticket'[c] = ticket'[d] => c = d
      BY DEF IInv, TypeOK, TicketInv, Waiting
    <2>2. /\ Queue \in [1 .. Dist(front', back') -> Waiting']
          /\ \A i \in 1 .. Dist(front', back') : Dist(front', ticket'[Queue[i]]) = i - 1
      BY QueueFilled DEF Queue
    <2> QED
      BY <2>1, <2>2 DEF IsQueue
  <1>2. Queue' = QueueOf(front', back', Waiting', ticket')
    BY DEF Queue, QueueOf
  <1> QED
    BY <1>1, <1>2, QueueUnique

(* The fetch-and-add of back, and the exchange of a try, put the caller at *)
(* the end of the queue.                                                   *)
LEMMA QueueExtended ==
  ASSUME IInv, IInv', NEW c \in Context, c \in Masked, c \notin Waiting,
         front' = front, back' = Succ(back), Waiting' = Waiting \cup {c},
         ticket'[c] = back, \A d \in Waiting : ticket'[d] = ticket[d]
  PROVE  Queue' = Append(Queue, c)
  <1> DEFINE D == Dist(front, back)
             q == Append(Queue, c)
  <1>1. /\ front \in Ticket /\ back \in Ticket /\ back' \in Ticket
        /\ \A d \in Waiting' : ticket'[d] \in Ticket
        /\ \A d, e \in Waiting' : ticket'[d] = ticket'[e] => d = e
    BY DEF IInv, TypeOK, TicketInv, Waiting
  <1>2. D \in Nat /\ Dist(front, back') = D + 1
    <2>1. IsFiniteSet(Waiting \cup {c}) /\ Cardinality(Waiting \cup {c}) < TicketMod
      <3>1. Waiting \cup {c} \subseteq Masked
        BY DEF Waiting, Masked, Unmasked
      <3> QED
        BY <3>1, RingHasRoom DEF IInv
    <2>2. Cardinality(Waiting \cup {c}) = Cardinality(Waiting) + 1
      <3>1. IsFiniteSet(Waiting)
        BY <2>1, FS_Subset
      <3> QED
        BY <3>1, FS_AddElement, Zenon
    <2>3. D + 1 < TicketMod
      BY <2>1, <2>2 DEF IInv, TicketInv
    <2> QED
      BY <1>1, <2>3, DistSuccBack, DistType
  <1>3. /\ Queue \in Seq(Context) /\ Len(Queue) = D
        /\ \A i \in 1 .. D : Queue[i] \in Waiting /\ Dist(front, ticket[Queue[i]]) = i - 1
    BY QueueFilled
  <1>4. /\ q \in Seq(Context) /\ Len(q) = D + 1 /\ q[D + 1] = c
        /\ \A i \in 1 .. D : q[i] = Queue[i]
    BY <1>3, AppendProperties
  <1> HIDE DEF q
  <1>5. \A i \in 1 .. (D + 1) : q[i] \in Waiting' /\ Dist(front, ticket'[q[i]]) = i - 1
    <2> TAKE i \in 1 .. (D + 1)
    <2>1. CASE i = D + 1
      BY <1>2, <1>4, <2>1
    <2>2. CASE i \in 1 .. D
      BY <1>3, <1>4, <2>2
    <2> QED
      BY <1>2, <2>1, <2>2
  <1>6. q \in [1 .. (D + 1) -> Waiting']
    BY <1>2, <1>4, <1>5
  <1>7. IsQueue(q, front', back', Waiting', ticket')
    BY <1>1, <1>2, <1>5, <1>6 DEF IsQueue
  <1>8. Queue' = QueueOf(front', back', Waiting', ticket')
    BY DEF Queue, QueueOf
  <1> QED
    BY <1>7, <1>8, QueueUnique, ZenonT(40) DEF q

(* spin_release takes its caller, the head, out of the queue.              *)
LEMMA QueueShortened ==
  ASSUME IInv, IInv', NEW c \in Context, Release(c)
  PROVE  Queue # <<>> /\ Queue' = Tail(Queue)
  <1> DEFINE D == Dist(front, back)
             q == Tail(Queue)
  <1>1. /\ c \in Waiting /\ Waiting' = Waiting \ {c} /\ ticket[c] = front
        /\ front' = Succ(front) /\ back' = back /\ ticket' = ticket
    BY Zenon DEF IInv, TypeOK, TicketInv, Waiting, Release, Goto
  <1>2. /\ front \in Ticket /\ back \in Ticket /\ front' \in Ticket
        /\ \A d \in Waiting : ticket[d] \in Ticket
        /\ \A d, e \in Waiting : ticket[d] = ticket[e] => d = e
    BY DEF IInv, TypeOK, TicketInv, Waiting
  <1>3. D \in Nat /\ D > 0 /\ Dist(front', back) = D - 1
    <2>1. front # back /\ D \in Nat /\ D > 0
      BY <1>1, <1>2, DistType, DistZero DEF IInv, TicketInv
    <2> QED
      BY <1>1, <1>2, <2>1, DistSuccFront
  <1>4. /\ Queue \in Seq(Context) /\ Len(Queue) = D /\ Queue # <<>>
        /\ \A i \in 1 .. D : Queue[i] \in Waiting /\ Dist(front, ticket[Queue[i]]) = i - 1
    BY <1>3, QueueFilled
  <1>5. /\ q \in Seq(Context) /\ Len(q) = D - 1
        /\ \A i \in 1 .. (D - 1) : q[i] = Queue[i + 1]
    BY <1>4, HeadTailProperties
  <1> HIDE DEF q
  <1>6. \A i \in 1 .. (D - 1) : q[i] \in Waiting' /\ Dist(front', ticket[q[i]]) = i - 1
    <2> TAKE i \in 1 .. (D - 1)
    <2>1. i + 1 \in 1 .. D /\ (i + 1) - 1 = i /\ i # 0
      BY <1>3
    <2>2. q[i] \in Waiting /\ Dist(front, ticket[q[i]]) = i
      BY <1>4, <1>5, <2>1
    <2>3. ticket[q[i]] # front
      BY <1>2, <2>1, <2>2, DistZero
    <2> QED
      BY <1>1, <1>2, <2>2, <2>3, DistSuccFront
  <1>7. q \in [1 .. (D - 1) -> Waiting']
    BY <1>3, <1>5, <1>6
  <1>8. IsQueue(q, front', back', Waiting', ticket')
    BY <1>1, <1>2, <1>3, <1>6, <1>7 DEF IsQueue
  <1>9. Queue' = QueueOf(front', back', Waiting', ticket')
    BY DEF Queue, QueueOf
  <1> QED
    BY <1>4, <1>8, <1>9, QueueUnique, Zenon DEF q

(* No context is waiting and none holds the lock at the start.             *)
LEMMA AbstractInit == Init => Abstract!Init
  <1> SUFFICES ASSUME Init PROVE Queue = <<>> /\ Holders = {}
    BY DEF Abstract!Init, Holders
  <1>1. Holders = {}
    BY DEF Init, Holders
  <1>2. IInv
    BY InitIInv
  <1>3. Dist(front, back) = 0
    BY <1>2, DistZero DEF Init, IInv, TypeOK
  <1> QED
    BY <1>1, <1>2, <1>3, QueueFilled

(* A step of the ticket lock is a step of the queue lock or leaves the     *)
(* queue and the holder alone.                                             *)
LEMMA AbstractStep ==
  ASSUME IInv, IInv', [Next]_vars
  PROVE  [Abstract!Next]_<<Queue, Holders>>
  <1> USE DEF Goto, lock, cpus
  <1>1. \A c \in Waiting : c \in Context /\ ticket[c] \in Ticket
    BY DEF IInv, TypeOK, Waiting
  <1>2. ASSUME front' = front, back' = back, Waiting' = Waiting, Holders' = Holders,
               \A c \in Waiting : ticket'[c] = ticket[c]
        PROVE  UNCHANGED <<Queue, Holders>>
    BY <1>2, QueueKept
  <1>3. ASSUME NEW c \in Context, TakeTicket(c) PROVE Abstract!Enter(c)
    <2>1. /\ c \in Masked /\ c \notin Waiting /\ Waiting' = Waiting \cup {c}
          /\ front' = front /\ back' = Succ(back) /\ Holders' = Holders
          /\ ticket'[c] = back /\ \A d \in Waiting : ticket'[d] = ticket[d]
      BY <1>3 DEF TakeTicket, IInv, TypeOK, Waiting, Masked, Unmasked, Holders
    <2>2. Queue' = Append(Queue, c)
      BY <2>1, QueueExtended
    <2>3. \A i \in DOMAIN Queue : Queue[i] # c
      BY <2>1, QueueFilled DEF Queue
    <2> QED
      BY <2>1, <2>2, <2>3 DEF Abstract!Enter, Holders
  <1>4. ASSUME NEW c \in Context, Spin(c) PROVE Abstract!Get(c)
    <2>1. /\ c \in Waiting /\ Waiting' = Waiting /\ ticket[c] = front
          /\ front' = front /\ back' = back /\ ticket' = ticket
          /\ Holders' = Holders \cup {c}
      BY <1>4 DEF Spin, IInv, TypeOK, Waiting, Holders
    <2>2. Holders = {}
      BY <1>4, <2>1 DEF Spin, IInv, TicketInv, Waiting, Holders
    <2>3. Queue' = Queue
      BY <2>1, QueueKept
    <2>4. /\ Dist(front, back) \in Nat /\ Dist(front, back) > 0
          /\ Dist(front, front) = 0
      BY <1>1, <2>1, DistType, DistZero DEF IInv, TypeOK, TicketInv
    <2>5. 1 \in 1 .. Dist(front, back) /\ 1 - 1 = 0
      BY <2>4
    <2>6. Queue[1] \in Waiting /\ Dist(front, ticket[Queue[1]]) = 0
      BY <2>5, QueueFilled
    <2>7. Queue[1] = c
      BY <1>1, <2>1, <2>4, <2>6, DistInjective DEF IInv, TypeOK, TicketInv
    <2>8. Queue # <<>> /\ Head(Queue) = c
      BY <2>4, <2>7, QueueFilled
    <2> QED
      BY <2>1, <2>2, <2>3, <2>8 DEF Abstract!Get, Holders
  <1>5. ASSUME NEW c \in Context, TryCompareExchange(c), back = ticket[c]
        PROVE  Abstract!TryGet(c)
    <2>1. /\ c \in Masked /\ c \notin Waiting /\ Waiting' = Waiting \cup {c}
          /\ front' = front /\ back' = Succ(back) /\ front = back
          /\ Holders' = Holders \cup {c}
          /\ ticket'[c] = back /\ \A d \in Waiting : ticket'[d] = ticket[d]
      BY <1>5 DEF TryCompareExchange, IInv, TypeOK, TicketInv, Waiting, Masked, Unmasked, Holders
    <2>2. Queue' = Append(Queue, c)
      BY <2>1, QueueExtended
    <2>3. Dist(front, back) = 0
      BY <2>1, DistZero DEF IInv, TypeOK
    <2>4. Queue = <<>>
      BY <2>3, QueueFilled
    <2>5. Waiting = {}
      BY <1>1, <2>3, DistType DEF IInv, TypeOK, TicketInv
    <2>6. Holders = {}
      BY <2>5 DEF Holders, Waiting
    <2> QED
      BY <2>1, <2>2, <2>4, <2>6 DEF Abstract!TryGet, Holders
  <1>6. ASSUME NEW c \in Context, Release(c) PROVE Abstract!Leave(c)
    <2>1. Queue' = Tail(Queue)
      BY <1>6, QueueShortened
    <2>2. Holders = {c}
      BY <1>6 DEF Release, IInv, TicketInv, Waiting, Holders
    <2>3. Holders' = {}
      BY <1>6, <2>2 DEF Release, IInv, TypeOK, Holders
    <2> QED
      BY <2>1, <2>2, <2>3 DEF Abstract!Leave, Holders
  <1>7. ASSUME NEW c \in Context,
               \/ SaveFlag(c) \/ DisableAllInterrupts(c) \/ TryLoadBack(c)
               \/ TryLoadFront(c) \/ EnableIfFlag(c)
               \/ TryCompareExchange(c) /\ back # ticket[c]
        PROVE  UNCHANGED <<Queue, Holders>>
    <2> USE DEF IInv, TypeOK, Waiting, Holders
    <2>1. CASE SaveFlag(c)
      BY <1>2, <2>1 DEF SaveFlag
    <2>2. CASE DisableAllInterrupts(c)
      BY <1>2, <2>2 DEF DisableAllInterrupts
    <2>3. CASE TryLoadBack(c)
      BY <1>2, <2>3 DEF TryLoadBack
    <2>4. CASE TryLoadFront(c)
      BY <1>2, <2>4 DEF TryLoadFront
    <2>5. CASE EnableIfFlag(c)
      BY <1>2, <2>5 DEF EnableIfFlag
    <2>6. CASE TryCompareExchange(c) /\ back # ticket[c]
      BY <1>2, <2>6 DEF TryCompareExchange
    <2> QED
      BY <1>7, <2>1, <2>2, <2>3, <2>4, <2>5, <2>6
  <1>8. ASSUME NEW p \in CPU, TakeInterrupt(p) \/ ReturnFromInterrupt(p)
        PROVE  UNCHANGED <<Queue, Holders>>
    BY <1>2, <1>8 DEF TakeInterrupt, ReturnFromInterrupt, Waiting, Holders
  <1>9. CASE UNCHANGED vars
    BY <1>2, <1>9 DEF vars, Waiting, Holders
  <1>10. ASSUME NEW c \in Context, Abstract!Enter(c) \/ Abstract!Get(c)
                     \/ Abstract!TryGet(c) \/ Abstract!Leave(c)
         PROVE  Abstract!Next
    BY <1>10 DEF Abstract!Next
  <1> QED
    BY <1>3, <1>4, <1>5, <1>6, <1>7, <1>8, <1>9, <1>10 DEF Next, Step

(* The ticket lock of spin_acquire, spin_try_acquire and spin_release      *)
(* implements a first-come first-served queue, for any number of           *)
(* processors below the number of ticket values, over any wrap-around.     *)
THEOREM ServedInOrder == Spec => FirstComeFirstServed
  <1>1. IInv /\ IInv' /\ [Next]_vars => [Abstract!Next]_<<Queue, Holders>>
    BY AbstractStep
  <1>2. Spec => Abstract!Init /\ [][Abstract!Next]_<<Queue, Holders>>
    BY <1>1, AbstractInit, Invariant, PTL DEF Spec
  <1> QED
    BY <1>2, PTL DEF FirstComeFirstServed, Abstract!Spec, Holders
=============================================================================
