-------------------------- MODULE InterruptProofs ---------------------------
(***************************************************************************)
(* Proofs about interrupts: how the controllers of both architectures are  *)
(* programmed, what the keyboard's handler makes of the bytes it is        *)
(* interrupted for, and how the PS/2 driver finds the keyboard at boot.    *)
(* Each section has the inductive invariant, the lemmas that every step    *)
(* keeps it, and the theorem.                                              *)
(***************************************************************************)
EXTENDS Gic, Apic, Ps2, Ps2Keyboard, SequenceTheorems, TLAPS

-----------------------------------------------------------------------------
(***************************************************************************)
(* The interrupt controller of AArch64.                                    *)
(***************************************************************************)
GicSpec == GicInit /\ [][GicNext]_gic

\* A bank in which every shared line and no private one has been written.
SharedLines(b) == SPI_START .. (gic.lines - 1) \subseteq b /\ b \cap 0 .. (SPI_START - 1) = {}

\* What each stage of the set-up has established.
GicInv ==
    /\ DOMAIN gic = {"pc", "table", "at", "lines", "version", "cpus", "interface", "frames", "dist", "regs",
                     "control", "targets", "mask", "config", "group", "urgent", "enabled", "pending",
                     "active", "intr"}
    /\ gic.lines \in Nat /\ gic.regs \in BOOLEAN /\ gic.interface \in BOOLEAN
    /\ gic.pc \in {"madt", "targets", "config", "disable", "cpu", "done", "stopped", "fault"}
    /\ gic.pc = "madt" => gic.regs = FALSE
    /\ gic.intr = TRUE <=> gic.pc = "done"
    /\ gic.intr \in BOOLEAN
    /\ gic.pc \in {"madt", "targets", "config", "disable"} => gic.pending = {} /\ gic.active = {}
    /\ gic.pc \in {"config", "disable"} => SPI_START .. (gic.lines - 1) \subseteq gic.urgent
    /\ gic.pc \in {"config", "disable"} \/ (gic.pc = "cpu" /\ gic.regs = TRUE) =>
          SharedLines(gic.targets) /\ gic.mask = {m \in gic.cpus : m < 8}
    /\ gic.pc = "disable" \/ (gic.pc = "cpu" /\ gic.regs = TRUE) => SharedLines(gic.config)
    /\ gic.pc = "cpu" /\ gic.regs = TRUE =>
          /\ gic.control = TRUE
          /\ gic.lines <= 256 => /\ gic.pending = {} /\ gic.active = {}
                                 /\ SPI_START .. (gic.lines - 1) \subseteq gic.urgent
    /\ GicProgrammed

\* Words of four lines, from the first shared one on, hold every shared line and no private one.
LEMMA FourALine ==
  ASSUME gic.lines \in Nat
  PROVE  SharedLines(UNION {LinesOf(TargetIndex(i), 4) : i \in Stepped(4)})
<1> DEFINE U == UNION {LinesOf(TargetIndex(i), 4) : i \in Stepped(4)}
<1>1. ASSUME NEW l \in SPI_START .. (gic.lines - 1) PROVE l \in U
  <2> DEFINE i == 32 + 4 * ((l - 32) \div 4)
  <2>1. i \in Int /\ 32 <= i /\ i <= l /\ l <= i + 3 /\ (i - 32) % 4 = 0 /\ (i \div 4) * 4 = i
    BY DEF SPI_START
  <2> HIDE DEF i
  <2>2. i \in Stepped(4)
    BY <2>1 DEF Stepped, SPI_START
  <2>3. l \in LinesOf(TargetIndex(i), 4)
    BY <2>1 DEF LinesOf, TargetIndex, SPI_START
  <2> QED BY <2>2, <2>3
<1>2. ASSUME NEW i \in Stepped(4), NEW l \in LinesOf(TargetIndex(i), 4) PROVE l \notin 0 .. (SPI_START - 1)
  <2>1. i \in Int /\ 32 <= i
    BY DEF Stepped, SPI_START
  <2>2. i \div 4 \in Int /\ i \div 4 >= 8
    BY <2>1
  <2>3. l \in (TargetIndex(i) * 4) .. ((TargetIndex(i) * 4) + 3)
    BY DEF LinesOf
  <2> QED BY <2>2, <2>3 DEF TargetIndex, SPI_START
<1> QED BY <1>1, <1>2 DEF SharedLines

\* And so do words of sixteen lines.
LEMMA SixteenALine ==
  ASSUME gic.lines \in Nat
  PROVE  SharedLines(UNION {LinesOf(i \div 16, 16) : i \in Stepped(16)})
<1> DEFINE U == UNION {LinesOf(i \div 16, 16) : i \in Stepped(16)}
<1>1. ASSUME NEW l \in SPI_START .. (gic.lines - 1) PROVE l \in U
  <2> DEFINE i == 32 + 16 * ((l - 32) \div 16)
  <2>1. i \in Int /\ 32 <= i /\ i <= l /\ l <= i + 15 /\ (i - 32) % 16 = 0 /\ (i \div 16) * 16 = i
    BY DEF SPI_START
  <2> HIDE DEF i
  <2>2. i \in Stepped(16)
    BY <2>1 DEF Stepped, SPI_START
  <2>3. l \in LinesOf(i \div 16, 16)
    BY <2>1 DEF LinesOf, SPI_START
  <2> QED BY <2>2, <2>3
<1>2. ASSUME NEW i \in Stepped(16), NEW l \in LinesOf(i \div 16, 16) PROVE l \notin 0 .. (SPI_START - 1)
  <2>1. i \in Int /\ 32 <= i
    BY DEF Stepped, SPI_START
  <2>2. i \div 16 \in Int /\ i \div 16 >= 2
    BY <2>1
  <2>3. l \in ((i \div 16) * 16) .. (((i \div 16) * 16) + 15)
    BY DEF LinesOf
  <2> QED BY <2>2, <2>3 DEF SPI_START
<1> QED BY <1>1, <1>2 DEF SharedLines

\* With 256 lines or fewer no word that is written to disable lines lies behind its bank.
LEMMA InItsBank ==
  ASSUME gic.lines \in Nat, gic.lines <= 256
  PROVE  /\ Behind(1, 32) = {} /\ Behind(2, 32) = {} /\ Behind(3, 32) = {}
         /\ {j \in Stepped(32) : ClearIndex(j) >= BankWords} = {}
<1>1. ASSUME NEW j \in Stepped(32)
      PROVE  ClearIndex(j) \in Int /\ ClearIndex(j) < BankWords /\ ClearIndex(j) \div BankWords = 0
  <2>1. j \in Int /\ 32 <= j /\ j < 256
    BY DEF Stepped, SPI_START
  <2>2. j \div 8 \in Int /\ 0 <= j \div 8 /\ j \div 8 < 32
    BY <2>1
  <2>3. (j \div 8) \div 32 = 0
    BY <2>2
  <2> QED BY <2>2, <2>3 DEF ClearIndex, BankWords
<1>2. ASSUME NEW k \in {1, 2, 3} PROVE Behind(k, 32) = {}
  <2>1. {j \in Stepped(32) : ClearIndex(j) \div BankWords = k} = {}
    BY <1>1
  <2> QED BY <2>1, Zenon DEF Behind
<1> QED BY <1>1, <1>2 DEF BankWords

\* The entries of the table only fill the fields of processors, frames and distributor.
LEMMA GicEntryInv == ASSUME GicInv, GicEntry PROVE GicInv'
<1>1. gic.pc = "madt" /\ DOMAIN gic' = DOMAIN gic
  BY Zenon DEF GicEntry, cpu_add_gic_interface, gic_dist_add_msi, GicInv
<1>2. /\ gic'.pc \in {"madt", "stopped"} /\ gic'.interface \in BOOLEAN
      /\ gic'.lines = gic.lines /\ gic'.regs = gic.regs /\ gic'.intr = gic.intr
      /\ gic'.pending = gic.pending /\ gic'.active = gic.active
  BY ZenonT(40) DEF GicEntry, cpu_add_gic_interface, gic_dist_add_msi, GicInv
<1> QED BY <1>1, <1>2, Zenon DEF GicInv, GicProgrammed

\* The distributor's registers are set only on the way to its programming.
LEMMA DistInv == ASSUME GicInv, gic_dist_init PROVE GicInv'
<1>1. gic.pc = "madt" /\ DOMAIN gic' = DOMAIN gic /\ gic.regs = FALSE
  BY Zenon DEF gic_dist_init, GicInv
<1>2. /\ gic'.pc \in {"stopped", "cpu", "targets"} /\ gic'.interface \in BOOLEAN
      /\ gic'.pc = "cpu" => gic'.regs = FALSE
      /\ gic'.lines = gic.lines /\ gic'.regs \in BOOLEAN /\ gic'.intr = gic.intr
      /\ gic'.pending = gic.pending /\ gic'.active = gic.active
  BY <1>1, ZenonT(40) DEF gic_dist_init, GicInv
<1> QED BY <1>1, <1>2, Zenon DEF GicInv, GicProgrammed

\* The targets and priorities of the shared lines.
LEMMA TargetsInv == ASSUME GicInv, SetTargets PROVE GicInv'
<1> DEFINE U == UNION {LinesOf(TargetIndex(i), 4) : i \in Stepped(4)}
<1>1. gic.pc = "targets" /\ DOMAIN gic' = DOMAIN gic
  BY DEF SetTargets, GicInv
<1>2. /\ gic'.pc = "config" /\ gic'.interface = gic.interface /\ gic'.lines = gic.lines
      /\ gic'.regs = gic.regs /\ gic'.intr = gic.intr /\ gic'.cpus = gic.cpus
      /\ gic'.pending = gic.pending /\ gic'.active = gic.active
      /\ gic'.targets = U /\ gic'.urgent = U /\ gic'.mask = TargetMask
  BY DEF SetTargets, GicInv
<1>3. SharedLines(U)
  BY FourALine, Zenon DEF GicInv
<1> HIDE DEF U
<1>4. SharedLines(gic.targets)' /\ (SPI_START .. (gic.lines - 1) \subseteq gic.urgent)'
  BY <1>2, <1>3, Zenon DEF SharedLines
<1> QED BY <1>1, <1>2, <1>4, Zenon DEF GicInv, GicProgrammed, TargetMask

\* The configuration of the shared lines.
LEMMA ConfigInv == ASSUME GicInv, SetConfig PROVE GicInv'
<1> DEFINE U == UNION {LinesOf(i \div 16, 16) : i \in Stepped(16)}
<1>1. gic.pc = "config" /\ DOMAIN gic' = DOMAIN gic
  BY DEF SetConfig, GicInv
<1>2. /\ gic'.pc = "disable" /\ gic'.interface = gic.interface /\ gic'.lines = gic.lines
      /\ gic'.regs = gic.regs /\ gic'.intr = gic.intr /\ gic'.cpus = gic.cpus
      /\ gic'.pending = gic.pending /\ gic'.active = gic.active
      /\ gic'.targets = gic.targets /\ gic'.urgent = gic.urgent /\ gic'.mask = gic.mask /\ gic'.config = U
  BY DEF SetConfig, GicInv
<1>3. SharedLines(U)
  BY SixteenALine, Zenon DEF GicInv
<1> HIDE DEF U
<1>4. SharedLines(gic.targets)' /\ SharedLines(gic.config)'
  BY <1>1, <1>2, <1>3, Zenon DEF SharedLines, GicInv
<1> QED BY <1>1, <1>2, <1>4, Zenon DEF GicInv, GicProgrammed

\* The words that disable lines stay in their bank when there are at most 256 lines.
LEMMA DisableInv == ASSUME GicInv, DisableLines PROVE GicInv'
<1> DEFINE past == {j \in Stepped(32) : ClearIndex(j) >= BankWords}
           P == UNION {LinesOf(ClearIndex(i) - BankWords, 4) : i \in past}
<1>1. gic.pc = "disable" /\ DOMAIN gic' = DOMAIN gic /\ gic.pending = {} /\ gic.active = {}
  BY DEF DisableLines, GicInv
<1>2. /\ gic'.pc = "cpu" /\ gic'.interface = gic.interface /\ gic'.lines = gic.lines
      /\ gic'.regs = gic.regs /\ gic'.intr = gic.intr /\ gic'.cpus = gic.cpus /\ gic'.control = TRUE
      /\ gic'.targets = gic.targets /\ gic'.mask = gic.mask /\ gic'.config = gic.config
      /\ \/ gic'.urgent = gic.urgent \ P /\ gic'.pending = gic.pending /\ gic'.active = gic.active
         \/ /\ gic'.urgent = gic.urgent /\ gic'.pending = (gic.pending \cup Behind(1, 32)) \ Behind(2, 32)
            /\ gic'.active = gic.active \cup Behind(3, 32)
  BY DEF DisableLines, GicInv
<1>3. ASSUME gic.lines <= 256 PROVE gic'.urgent = gic.urgent /\ gic'.pending = {} /\ gic'.active = {}
  <2>1. Behind(1, 32) = {} /\ Behind(2, 32) = {} /\ Behind(3, 32) = {} /\ past = {}
    BY <1>3, InItsBank DEF GicInv
  <2>2. P = {}
    BY <2>1
  <2> HIDE DEF P
  <2> QED BY <1>1, <1>2, <2>1, <2>2
<1> HIDE DEF P, past
<1>4. SharedLines(gic.targets)' /\ SharedLines(gic.config)'
  BY <1>1, <1>2 DEF SharedLines, GicInv
<1>5. gic.mask = {m \in gic.cpus : m < 8} /\ SPI_START .. (gic.lines - 1) \subseteq gic.urgent
  BY <1>1 DEF GicInv
<1> QED BY <1>1, <1>2, <1>3, <1>4, <1>5, Zenon DEF GicInv, GicProgrammed

\* The interface is opened on a programmed distributor.
LEMMA CpuInv == ASSUME GicInv, gic_cpu_init PROVE GicInv'
<1>1. gic.pc = "cpu" /\ DOMAIN gic' = DOMAIN gic /\ gic.intr = FALSE
  BY DEF gic_cpu_init, GicInv
<1>2. CASE gic.regs = FALSE \/ gic.interface = FALSE
  <2>1. gic' = [gic EXCEPT !.pc = "fault"]
    BY <1>2 DEF gic_cpu_init
  <2> QED BY <1>1, <2>1 DEF GicInv, GicProgrammed
<1>3. CASE gic.regs = TRUE /\ gic.interface = TRUE
  <2>1. gic' = [gic EXCEPT !.enabled = (@ \ (16..31)) \cup 0..15, !.intr = TRUE, !.pc = "done"]
    BY <1>3 DEF gic_cpu_init
  <2>2. /\ gic'.pc = "done" /\ gic'.interface = TRUE /\ gic'.lines = gic.lines
        /\ gic'.regs = gic.regs /\ gic'.intr = TRUE /\ gic'.cpus = gic.cpus /\ gic'.control = gic.control
        /\ gic'.targets = gic.targets /\ gic'.mask = gic.mask /\ gic'.config = gic.config
        /\ gic'.urgent = gic.urgent /\ gic'.pending = gic.pending /\ gic'.active = gic.active
        /\ gic'.enabled = (gic.enabled \ (16..31)) \cup 0..15
    BY <1>3, <2>1 DEF GicInv
  <2>3. gic'.enabled \cap 0..31 = 0..15
    BY <2>2
  <2>4. /\ SharedLines(gic.targets) /\ SharedLines(gic.config) /\ gic.mask = {m \in gic.cpus : m < 8}
        /\ gic.control = TRUE
        /\ gic.lines <= 256 => /\ gic.pending = {} /\ gic.active = {}
                               /\ SPI_START .. (gic.lines - 1) \subseteq gic.urgent
    BY <1>1, <1>3, Zenon DEF GicInv
  <2>5. GicProgrammed'
    BY <2>2, <2>3, <2>4 DEF GicProgrammed, SharedLines
  <2> QED BY <1>1, <2>2, <2>5, Zenon DEF GicInv
<1> QED BY <1>2, <1>3, Zenon DEF GicInv

\* Whatever the table of a machine holds and however many lines its distributor has, an
\* interface that is opened stands before a programmed distributor.
THEOREM DistributorProgrammed == GicSpec => []GicProgrammed
<1>1. GicInit => GicInv
  <2> SUFFICES ASSUME GicInit PROVE GicInv
    OBVIOUS
  <2>1. PICK table \in [1..GicTable -> GicEntries] : \E lines \in LineCounts, version \in {1, 2},
             on \in {{}, {16, SPI_START}} : gic =
         [pc |-> "madt", table |-> table, at |-> 1, lines |-> lines,
          version |-> version, cpus |-> {}, interface |-> FALSE, frames |-> <<>>,
          dist |-> FALSE, regs |-> FALSE, control |-> FALSE,
          targets |-> {}, mask |-> {}, config |-> {}, group |-> {}, urgent |-> {},
          enabled |-> on, pending |-> {}, active |-> {}, intr |-> FALSE]
    BY DEF GicInit, GicStart
  <2>2. gic.lines \in Nat
    BY <2>1, LinesAssumption
  <2>3. /\ DOMAIN gic = {"pc", "table", "at", "lines", "version", "cpus", "interface", "frames", "dist",
                         "regs", "control", "targets", "mask", "config", "group", "urgent", "enabled",
                         "pending", "active", "intr"}
        /\ gic.pc = "madt" /\ gic.regs = FALSE /\ gic.interface = FALSE /\ gic.intr = FALSE
        /\ gic.pending = {} /\ gic.active = {}
    BY <2>1
  <2>4. GicProgrammed
    BY <2>3 DEF GicProgrammed
  <2> QED BY <2>2, <2>3, <2>4, Zenon DEF GicInv
<1>2. GicInv /\ [GicNext]_gic => GicInv'
  <2> SUFFICES ASSUME GicInv, [GicNext]_gic PROVE GicInv'
    OBVIOUS
  <2>1. CASE UNCHANGED gic
    <3>1. GicProgrammed' <=> GicProgrammed
      BY <2>1, Zenon DEF GicProgrammed
    <3>2. \A b : SharedLines(b)' <=> SharedLines(b)
      BY <2>1 DEF SharedLines
    <3> QED BY <2>1, <3>1, <3>2, Zenon DEF GicInv, SharedLines
  <2> QED BY <2>1, GicEntryInv, DistInv, TargetsInv, ConfigInv, DisableInv, CpuInv DEF GicNext
<1>3. GicInv => GicProgrammed
  BY Zenon DEF GicInv
<1> QED BY <1>1, <1>2, <1>3, PTL DEF GicSpec

-----------------------------------------------------------------------------
(***************************************************************************)
(* The interrupt controllers of x86_64.  The overrides that were collected *)
(* name for each line the interrupt that the table names; what the vectors *)
(* and redirection entries hold follows from where the set-up is.          *)
(***************************************************************************)
ApicSpec == ApicInit /\ [][ApicNext]_apic

\* An override of a line, at a place of the table.
Overrides(j, irq) == apic.madt[j].kind = "iso" /\ apic.madt[j].src = irq

\* The first override of a line among those collected is the first one in the
\* part of the table that was read.
SameOverride(irq) ==
  \/ /\ \A i \in 1 .. Len(apic.isos) : apic.isos[i].src # irq
     /\ \A j \in 1 .. (apic.at - 1) : ~Overrides(j, irq)
  \/ \E i \in 1 .. Len(apic.isos) : \E j \in 1 .. (apic.at - 1) :
       /\ apic.isos[i] = apic.madt[j] /\ apic.isos[i].src = irq /\ Overrides(j, irq)
       /\ \A m \in 1 .. (i - 1) : apic.isos[m].src # irq
       /\ \A m \in 1 .. (j - 1) : ~Overrides(m, irq)

ApicTypeOK ==
  /\ DOMAIN apic = {"pc", "madt", "at", "bsp", "lapics", "ioapics", "isos", "nmi", "base", "lint", "free",
                    "timer", "funcs", "redir", "irq", "vector", "astray"}
  /\ apic.pc \in {"isr", "madt", "assign", "half", "idle", "stopped"}
  /\ apic.madt \in Seq(Entries) /\ apic.at \in 1 .. (Len(apic.madt) + 1) /\ apic.bsp \in Cpus
  /\ apic.ioapics \in Seq(Nat) /\ apic.isos \in Seq(Entries) /\ apic.irq \in Irqs
  /\ apic.astray \in BOOLEAN

\* What is left out of the second half of the property: overrides that name the vector.
LineTaken(irq) == Wired(irq) # irq /\ Wired(irq) \in DOMAIN apic.funcs

\* The redirection entry of a line enters the vector, on the boot processor.
Redirected(irq, vector) ==
  /\ Wired(irq) \in DOMAIN apic.redir /\ apic.redir[Wired(irq)].masked = FALSE
  /\ apic.redir[Wired(irq)].cpu = apic.bsp /\ apic.redir[Wired(irq)].vector = vector

VectorOf(irq) == IF irq = IRQ_TIMER THEN FirstVector ELSE FirstVector + 2

\* The vectors that have a handler.
HandlersOK ==
  /\ apic.pc = "isr" => apic.free = FirstVector /\ apic.funcs = <<>>
  /\ apic.pc = "madt" => apic.free = FirstVector + 2 /\ apic.timer = FirstVector
  /\ apic.pc \in {"assign", "half", "idle"} =>
       /\ apic.at = Len(apic.madt) + 1
       /\ FirstVector \in DOMAIN apic.funcs /\ apic.funcs[FirstVector] = "timer"
       /\ apic.vector = VectorOf(apic.irq) /\ apic.vector \in DOMAIN apic.funcs
       /\ apic.irq = IRQ_TIMER => apic.free = FirstVector + 2
       /\ apic.irq = IRQ_KEYBOARD => apic.funcs[FirstVector + 2] = "keyboard"

\* The redirection entries written so far.
EntriesOK ==
  /\ \A g \in DOMAIN apic.redir : /\ DOMAIN apic.redir[g] = {"vector", "masked", "cpu"}
                                  /\ apic.redir[g].cpu \in {0, apic.bsp}
  /\ apic.pc = "half" => /\ Wired(apic.irq) \in DOMAIN apic.redir
                         /\ apic.redir[Wired(apic.irq)].masked = FALSE
                         /\ apic.redir[Wired(apic.irq)].vector = apic.vector
  /\ apic.pc = "idle" \/ (apic.pc \in {"assign", "half"} /\ apic.irq = IRQ_KEYBOARD) =>
       (Wired(IRQ_TIMER) # Wired(IRQ_KEYBOARD) /\ ~LineTaken(IRQ_TIMER) => Redirected(IRQ_TIMER, FirstVector))
  /\ apic.pc = "idle" /\ apic.irq = IRQ_KEYBOARD =>
       (~LineTaken(IRQ_KEYBOARD) => Redirected(IRQ_KEYBOARD, FirstVector + 2))
  /\ apic.astray = TRUE => apic.bsp # 0

\* The set-up stops for a reason.
StopsForAReason ==
  apic.pc = "stopped" =>
    \/ apic.base = 0 \/ apic.free = LastVector
    \/ \E i \in DOMAIN apic.madt : apic.madt[i].kind = "ioapic" /\ apic.madt[i].known = FALSE
    \/ \A i \in DOMAIN apic.ioapics :
         Wired(apic.irq) \notin (apic.ioapics[i] + 1) .. (apic.ioapics[i] + RedirectCount - 1)

ApicInv ==
  /\ ApicTypeOK /\ HandlersOK /\ EntriesOK /\ StopsForAReason
  /\ \A irq \in Irqs : SameOverride(irq)

\* Once the table has been read, a line's interrupt is the one it is wired to.
LEMMA GsiIsWired ==
  ASSUME ApicTypeOK, NEW irq \in Irqs, SameOverride(irq), apic.at = Len(apic.madt) + 1
  PROVE  /\ Gsi(apic, irq) = Wired(irq) /\ Gsi(apic, irq) \in Nat
         /\ ~Overridden(apic, irq) => Wired(irq) = irq
<1> DEFINE mine == {i \in DOMAIN apic.isos : apic.isos[i].src = irq}
           told == {i \in DOMAIN apic.madt : apic.madt[i].kind = "iso" /\ apic.madt[i].src = irq}
<1>1. /\ DOMAIN apic.isos = 1 .. Len(apic.isos) /\ Len(apic.isos) \in Nat
      /\ DOMAIN apic.madt = 1 .. Len(apic.madt) /\ Len(apic.madt) \in Nat
      /\ apic.at - 1 = Len(apic.madt)
      /\ \A i \in 1 .. Len(apic.madt) : apic.madt[i] \in Entries
  BY DEF ApicTypeOK
<1>2. irq \in Nat
  BY DEF Irqs, IRQ_TIMER, IRQ_KEYBOARD
<1>3. CASE /\ \A i \in 1 .. Len(apic.isos) : apic.isos[i].src # irq
           /\ \A j \in 1 .. (apic.at - 1) : ~Overrides(j, irq)
  <2>1. mine = {} /\ told = {}
    BY <1>1, <1>3, Zenon DEF Overrides
  <2> QED BY <1>2, <2>1, Zenon DEF Gsi, Wired
<1>4. CASE \E i \in 1 .. Len(apic.isos) : \E j \in 1 .. (apic.at - 1) :
             /\ apic.isos[i] = apic.madt[j] /\ apic.isos[i].src = irq /\ Overrides(j, irq)
             /\ \A m \in 1 .. (i - 1) : apic.isos[m].src # irq
             /\ \A m \in 1 .. (j - 1) : ~Overrides(m, irq)
  <2>1. PICK i \in 1 .. Len(apic.isos) : \E j \in 1 .. (apic.at - 1) :
             /\ apic.isos[i] = apic.madt[j] /\ apic.isos[i].src = irq /\ Overrides(j, irq)
             /\ \A m \in 1 .. (i - 1) : apic.isos[m].src # irq
             /\ \A m \in 1 .. (j - 1) : ~Overrides(m, irq)
    BY <1>4
  <2>2. PICK j \in 1 .. (apic.at - 1) :
             /\ apic.isos[i] = apic.madt[j] /\ apic.isos[i].src = irq /\ Overrides(j, irq)
             /\ \A m \in 1 .. (i - 1) : apic.isos[m].src # irq
             /\ \A m \in 1 .. (j - 1) : ~Overrides(m, irq)
    BY <2>1, Zenon
  <2>3. i \in mine /\ \A m \in mine : i <= m
    BY <1>1, <2>2
  <2>4. j \in told /\ \A m \in told : j <= m
    BY <1>1, <2>2 DEF Overrides
  <2>5. mine \subseteq Int /\ told \subseteq Int
    BY <1>1
  <2>6. (CHOOSE k \in mine : \A m \in mine : k <= m) = i
    BY <2>3, <2>5
  <2>7. (CHOOSE k \in told : \A m \in told : k <= m) = j
    BY <2>4, <2>5
  <2>8. Gsi(apic, irq) = apic.isos[i].gsi
    BY <2>3, <2>6 DEF Gsi
  <2>9. Wired(irq) = apic.madt[j].gsi
    BY <2>4, <2>7, Zenon DEF Wired
  <2>10. apic.madt[j] \in Entries /\ apic.madt[j].kind = "iso"
    BY <1>1, <2>2, Zenon DEF Overrides
  <2>11. apic.madt[j].gsi \in Nat
    BY <2>10, EntriesAssumption
  <2>12. Overridden(apic, irq)
    BY <2>3, Zenon DEF Overridden
  <2> QED BY <2>2, <2>8, <2>9, <2>11, <2>12, Zenon
<1> QED BY <1>3, <1>4, Zenon DEF SameOverride

\* A line stays wired to its interrupt.
LEMMA WiredKept ==
  ASSUME apic'.madt = apic.madt, NEW irq
  PROVE  Wired(irq)' = Wired(irq)
BY DEF Wired

\* The overrides of a line, while neither table nor collection changes.
LEMMA SameKept ==
  ASSUME apic'.madt = apic.madt, apic'.isos = apic.isos, apic'.at = apic.at, NEW irq, SameOverride(irq)
  PROVE  SameOverride(irq)'
<1>1. \A j : Overrides(j, irq)' <=> Overrides(j, irq)
  BY Zenon DEF Overrides
<1> QED BY <1>1, Zenon DEF SameOverride

\* A step that only stops, for a reason, keeps the invariant.
LEMMA StopInv ==
  ASSUME ApicInv, NEW s, apic' = s, DOMAIN s = DOMAIN apic, s.pc = "stopped",
         \A f \in DOMAIN apic \ {"pc"} : s[f] = apic[f], StopsForAReason'
  PROVE  ApicInv'
<1>1. /\ apic'.madt = apic.madt /\ apic'.at = apic.at /\ apic'.bsp = apic.bsp /\ apic'.ioapics = apic.ioapics
      /\ apic'.isos = apic.isos /\ apic'.irq = apic.irq /\ apic'.astray = apic.astray
      /\ apic'.redir = apic.redir
  BY DEF ApicInv, ApicTypeOK
<1>2. ApicTypeOK'
  BY <1>1 DEF ApicInv, ApicTypeOK
<1>3. HandlersOK' /\ EntriesOK'
  BY <1>1, Zenon DEF ApicInv, HandlersOK, EntriesOK
<1>4. \A irq \in Irqs : SameOverride(irq)'
  BY <1>1, SameKept, Zenon DEF ApicInv
<1> QED BY <1>2, <1>3, <1>4, Zenon DEF ApicInv

\* The first two vectors: the timer's, which has no handler yet, and the spurious one.
LEMMA IsrInv == ASSUME ApicInv, isr_init PROVE ApicInv'
<1>1. apic.pc = "isr" /\ apic.free = FirstVector /\ FirstVector \in Nat
  BY VectorsAssumption DEF isr_init, ApicInv, HandlersOK
<1>2. /\ DOMAIN apic' = DOMAIN apic /\ apic'.pc = "madt" /\ apic'.free = FirstVector + 2
      /\ apic'.timer = FirstVector
      /\ apic'.madt = apic.madt /\ apic'.at = apic.at /\ apic'.bsp = apic.bsp /\ apic'.ioapics = apic.ioapics
      /\ apic'.isos = apic.isos /\ apic'.irq = apic.irq /\ apic'.astray = apic.astray
      /\ apic'.redir = apic.redir
  BY <1>1 DEF isr_init, isr_alloc_vector, isr_set_vector, ApicInv, ApicTypeOK
<1>3. ApicTypeOK'
  BY <1>2 DEF ApicInv, ApicTypeOK
<1>4. HandlersOK' /\ EntriesOK' /\ StopsForAReason'
  BY <1>2, Zenon DEF ApicInv, HandlersOK, EntriesOK, StopsForAReason
<1>5. \A irq \in Irqs : SameOverride(irq)'
  BY <1>2, SameKept, Zenon DEF ApicInv
<1> QED BY <1>3, <1>4, <1>5, Zenon DEF ApicInv

\* The collection grows with the table.
LEMMA OverrideRead ==
  ASSUME ApicTypeOK, NEW irq, SameOverride(irq), apic.at <= Len(apic.madt),
         apic'.madt = apic.madt, apic'.at = apic.at + 1,
         apic'.isos = IF apic.madt[apic.at].kind = "iso" THEN Append(apic.isos, apic.madt[apic.at])
                      ELSE apic.isos
  PROVE  SameOverride(irq)'
<1> DEFINE n == Len(apic.isos)
<1>0. PICK a : a = apic.at
  OBVIOUS
<1> DEFINE e == apic.madt[a]
<1>1. n \in Nat /\ a \in Nat \ {0} /\ apic'.at - 1 = a /\ e \in Entries /\ apic.isos \in Seq(Entries)
      /\ \A j : Overrides(j, irq)' <=> Overrides(j, irq)
  BY <1>0 DEF ApicTypeOK, Overrides
<1>2. /\ a = apic.at /\ n' \in Nat /\ n <= n' /\ \A i \in 1 .. n : apic'.isos[i] = apic.isos[i]
  BY <1>0, <1>1
<1> USE <1>1, <1>2
<1>3. CASE \E i \in 1 .. n : \E j \in 1 .. (a - 1) :
             /\ apic.isos[i] = apic.madt[j] /\ apic.isos[i].src = irq /\ Overrides(j, irq)
             /\ \A m \in 1 .. (i - 1) : apic.isos[m].src # irq
             /\ \A m \in 1 .. (j - 1) : ~Overrides(m, irq)
  <2>1. PICK i \in 1 .. n : \E j \in 1 .. (a - 1) :
             /\ apic.isos[i] = apic.madt[j] /\ apic.isos[i].src = irq /\ Overrides(j, irq)
             /\ \A m \in 1 .. (i - 1) : apic.isos[m].src # irq
             /\ \A m \in 1 .. (j - 1) : ~Overrides(m, irq)
    BY <1>3, Zenon
  <2>2. PICK j \in 1 .. (a - 1) :
             /\ apic.isos[i] = apic.madt[j] /\ apic.isos[i].src = irq /\ Overrides(j, irq)
             /\ \A m \in 1 .. (i - 1) : apic.isos[m].src # irq
             /\ \A m \in 1 .. (j - 1) : ~Overrides(m, irq)
    BY <2>1, Zenon
  <2>3. i \in 1 .. n' /\ j \in 1 .. (apic'.at - 1) /\ 1 .. (i - 1) \subseteq 1 .. n
    OBVIOUS
  <2>4. /\ apic'.isos[i] = apic'.madt[j] /\ apic'.isos[i].src = irq /\ Overrides(j, irq)'
        /\ \A m \in 1 .. (i - 1) : apic'.isos[m].src # irq
        /\ \A m \in 1 .. (j - 1) : ~Overrides(m, irq)'
    BY <2>2, <2>3, Zenon
  <2> QED BY <2>3, <2>4, Zenon DEF SameOverride
<1>4. CASE /\ \A i \in 1 .. n : apic.isos[i].src # irq
           /\ \A j \in 1 .. (a - 1) : ~Overrides(j, irq)
  <2>1. CASE e.kind = "iso" /\ e.src = irq
    <3>1. n' = n + 1 /\ apic'.isos[n + 1] = e
      BY <2>1
    <3>2. /\ apic'.isos[n + 1] = apic'.madt[a] /\ apic'.isos[n + 1].src = irq /\ Overrides(a, irq)'
          /\ \A m \in 1 .. n : apic'.isos[m].src # irq
          /\ \A m \in 1 .. (a - 1) : ~Overrides(m, irq)'
      BY <1>4, <2>1, <3>1, Zenon DEF Overrides
    <3>3. n + 1 \in 1 .. n' /\ a \in 1 .. (apic'.at - 1) /\ n = (n + 1) - 1
      BY <3>1
    <3>4. \E i \in 1 .. n' : \E j \in 1 .. (apic'.at - 1) :
             /\ apic'.isos[i] = apic'.madt[j] /\ apic'.isos[i].src = irq /\ Overrides(j, irq)'
             /\ \A m \in 1 .. (i - 1) : apic'.isos[m].src # irq
             /\ \A m \in 1 .. (j - 1) : ~Overrides(m, irq)'
      BY <3>2, <3>3, Zenon
    <3> QED BY <3>4, Zenon DEF SameOverride
  <2>2. CASE ~(e.kind = "iso" /\ e.src = irq)
    <3>1. \A i \in 1 .. n' : apic'.isos[i].src # irq
      <4>1. CASE e.kind = "iso"
        BY <1>4, <2>2, <4>1
      <4>2. CASE e.kind # "iso"
        BY <1>4, <4>2, Zenon
      <4> QED BY <4>1, <4>2, Zenon
    <3>2. \A j \in 1 .. (apic'.at - 1) : ~Overrides(j, irq)'
      BY <1>4, <2>2 DEF Overrides
    <3> QED BY <3>1, <3>2, Zenon DEF SameOverride
  <2> QED BY <2>1, <2>2, Zenon
<1> QED BY <1>3, <1>4, Zenon DEF SameOverride

\* An entry of the table.
LEMMA MadtInv == ASSUME ApicInv, madt_init PROVE ApicInv'
<1> DEFINE e == apic.madt[apic.at]
           s == [apic EXCEPT !.at = @ + 1]
<1>1. apic.pc = "madt" /\ apic.at <= Len(apic.madt) /\ ApicTypeOK
  BY Zenon DEF madt_init, ApicInv
<1>2. /\ e \in Entries /\ Len(apic.madt) \in Nat /\ apic.at \in Nat /\ apic.ioapics \in Seq(Nat)
      /\ apic.isos \in Seq(Entries) /\ DOMAIN apic.madt = 1 .. Len(apic.madt)
      /\ apic.at \in 1 .. Len(apic.madt) /\ apic.at + 1 \in 1 .. (Len(apic.madt) + 1)
  BY <1>1 DEF ApicTypeOK
<1>3. /\ DOMAIN s = DOMAIN apic /\ s.at = apic.at + 1
      /\ \A f \in DOMAIN apic \ {"at"} : s[f] = apic[f]
  BY <1>1 DEF ApicTypeOK
<1> HIDE DEF e, s
<1> DEFINE KeptSoFar == /\ DOMAIN apic' = DOMAIN apic /\ apic'.madt = apic.madt /\ apic'.at = apic.at + 1
                   /\ apic'.bsp = apic.bsp /\ apic'.irq = apic.irq /\ apic'.astray = apic.astray
                   /\ apic'.redir = apic.redir /\ apic'.free = apic.free /\ apic'.timer = apic.timer
           NoIso == apic'.isos = apic.isos
           NoIo == apic'.ioapics = apic.ioapics /\ apic'.pc = "madt"
<1>4. /\ KeptSoFar /\ apic'.isos = (IF e.kind = "iso" THEN Append(apic.isos, e) ELSE apic.isos)
      /\ apic'.ioapics \in Seq(Nat)
      /\ apic'.pc = "madt" \/ (apic'.pc = "stopped" /\ e.kind = "ioapic" /\ e.known = FALSE)
  <2>1. apic' = CASE e.kind = "lapic"    -> lapic_add(s)
                  [] e.kind = "ioapic"   -> ioapic_add(s, e)
                  [] e.kind = "iso"      -> IsoEntry(s, e)
                  [] e.kind = "nmi"      -> NmiEntry(s, e)
                  [] e.kind = "override" -> BaseEntry(s, e)
                  [] e.kind = "invalid"  -> s
    BY Zenon DEF madt_init, e, s
  <2>2. CASE e.kind = "lapic"
    <3>1. apic' = lapic_add(s)
      BY <2>1, <2>2
    <3> QED BY <1>1, <1>2, <1>3, <2>2, <3>1, Zenon DEF lapic_add, ApicTypeOK
  <2>3. CASE e.kind = "iso"
    <3>1. apic' = IsoEntry(s, e)
      BY <2>1, <2>3
    <3> QED BY <1>1, <1>2, <1>3, <2>3, <3>1, Zenon DEF IsoEntry, ApicTypeOK
  <2>4. CASE e.kind = "nmi"
    <3>1. apic' = NmiEntry(s, e)
      BY <2>1, <2>4
    <3> QED BY <1>1, <1>2, <1>3, <2>4, <3>1, Zenon DEF NmiEntry, ApicTypeOK
  <2>5. CASE e.kind = "override"
    <3>1. apic' = BaseEntry(s, e)
      BY <2>1, <2>5
    <3> QED BY <1>1, <1>2, <1>3, <2>5, <3>1, Zenon DEF BaseEntry, ApicTypeOK
  <2>6. CASE e.kind = "invalid"
    <3>1. apic' = s
      BY <2>1, <2>6
    <3> QED BY <1>1, <1>2, <1>3, <2>6, <3>1, Zenon DEF ApicTypeOK
  <2>7. CASE e.kind = "ioapic"
    <3>1. apic' = ioapic_add(s, e) /\ e.gsi \in Nat /\ e.aligned \in BOOLEAN /\ e.known \in BOOLEAN
      BY <1>2, <2>1, <2>7, EntriesAssumption, Zenon
    <3>2. CASE e.aligned = FALSE
      <4>1. apic' = s
        BY <3>1, <3>2 DEF ioapic_add
      <4> QED BY <1>1, <1>2, <1>3, <2>7, <4>1, Zenon DEF ApicTypeOK
    <3>3. CASE e.aligned = TRUE /\ e.known = FALSE
      <4>1. apic' = [s EXCEPT !.pc = "stopped"]
        BY <3>1, <3>3 DEF ioapic_add
      <4> QED BY <1>1, <1>2, <1>3, <2>7, <3>3, <4>1, Zenon DEF ApicTypeOK
    <3>4. CASE e.aligned = TRUE /\ e.known = TRUE
      <4>1. apic' = [s EXCEPT !.ioapics = Append(@, e.gsi)]
        BY <3>1, <3>4 DEF ioapic_add
      <4>2. Append(apic.ioapics, e.gsi) \in Seq(Nat)
        BY <1>2, <3>1
      <4> QED BY <1>1, <1>2, <1>3, <2>7, <4>1, <4>2, Zenon DEF ApicTypeOK
    <3> QED BY <3>1, <3>2, <3>3, <3>4, Zenon
  <2>8. e.kind \in {"lapic", "ioapic", "iso", "nmi", "override", "invalid"}
    BY <1>2, EntriesAssumption, Zenon
  <2> QED BY <2>2, <2>3, <2>4, <2>5, <2>6, <2>7, <2>8, Zenon
<1>5. ApicTypeOK'
  <2>1. apic'.isos \in Seq(Entries)
    BY <1>2, <1>4
  <2> QED BY <1>1, <1>2, <1>4, <2>1, Zenon DEF ApicTypeOK
<1>6. HandlersOK' /\ EntriesOK'
  BY <1>1, <1>4, Zenon DEF ApicInv, HandlersOK, EntriesOK
<1>7. StopsForAReason'
  BY <1>2, <1>4, Zenon DEF StopsForAReason, e
<1>8. ASSUME NEW irq \in Irqs PROVE SameOverride(irq)'
  BY <1>1, <1>4, OverrideRead, Zenon DEF ApicInv, e
<1> QED BY <1>5, <1>6, <1>7, <1>8, Zenon DEF ApicInv

\* The local APICs are set up and the timer's line is next.
LEMMA ApicInitInv == ASSUME ApicInv, apic_init PROVE ApicInv'
<1>1. /\ apic.pc = "madt" /\ apic.at > Len(apic.madt) /\ ApicTypeOK /\ apic.timer = FirstVector
      /\ apic.free = FirstVector + 2
  BY DEF apic_init, ApicInv, HandlersOK
<1>2. CASE apic.base = 0
  <2>1. apic' = [apic EXCEPT !.pc = "stopped"]
    BY <1>2 DEF apic_init, Stop
  <2>2. /\ DOMAIN apic' = DOMAIN apic /\ apic'.pc = "stopped" /\ apic'.base = 0
        /\ \A f \in DOMAIN apic \ {"pc"} : apic'[f] = apic[f]
    BY <1>1, <1>2, <2>1 DEF ApicTypeOK
  <2>3. StopsForAReason'
    BY <2>2, Zenon DEF StopsForAReason
  <2> QED BY <2>2, <2>3, StopInv, Zenon
<1>3. CASE apic.base # 0
  <2>1. /\ DOMAIN apic' = DOMAIN apic /\ apic'.madt = apic.madt /\ apic'.at = apic.at /\ apic'.bsp = apic.bsp
        /\ apic'.astray = apic.astray /\ apic'.redir = apic.redir /\ apic'.free = apic.free
        /\ apic'.isos = apic.isos /\ apic'.ioapics = apic.ioapics /\ apic'.pc = "assign"
        /\ apic'.irq = IRQ_TIMER /\ apic'.vector = FirstVector
        /\ apic'.funcs = Put(apic.funcs, FirstVector, "timer")
    <3>1. PICK s : s = lapic_enable(apic)
      OBVIOUS
    <3>2. DOMAIN s = DOMAIN apic /\ \A f \in DOMAIN apic \ {"lint"} : s[f] = apic[f]
      BY <1>1, <3>1 DEF lapic_enable, ApicTypeOK
    <3>3. s.funcs = apic.funcs /\ s.timer = FirstVector
      BY <1>1, <3>2, Zenon DEF ApicTypeOK
    <3>4. PICK h : h = Put(apic.funcs, FirstVector, "timer")
      OBVIOUS
    <3>5. apic' = [[s EXCEPT !.funcs = h] EXCEPT !.pc = "assign", !.irq = IRQ_TIMER, !.vector = s.timer]
      BY <1>3, <3>1, <3>3, <3>4 DEF apic_init, isr_set_vector
    <3>6. apic' = [s EXCEPT !.funcs = h, !.pc = "assign", !.irq = IRQ_TIMER, !.vector = FirstVector]
      BY <3>3, <3>5
    <3> QED BY <1>1, <3>2, <3>4, <3>6 DEF ApicTypeOK
  <2>2. ApicTypeOK'
    BY <1>1, <2>1, Zenon DEF ApicTypeOK, Irqs
  <2>3. apic.at = Len(apic.madt) + 1
    BY <1>1 DEF ApicTypeOK
  <2>4. FirstVector \in DOMAIN apic'.funcs /\ apic'.funcs[FirstVector] = "timer"
    BY <2>1, Zenon DEF Put
  <2>5. HandlersOK'
    BY <1>1, <2>1, <2>3, <2>4 DEF HandlersOK, VectorOf, IRQ_TIMER, IRQ_KEYBOARD
  <2>6. EntriesOK' /\ StopsForAReason'
    BY <2>1, Zenon DEF EntriesOK, StopsForAReason, ApicInv, IRQ_TIMER, IRQ_KEYBOARD
  <2>7. ASSUME NEW irq \in Irqs PROVE SameOverride(irq)'
    BY <2>1, SameKept, Zenon DEF ApicInv
  <2> QED BY <2>2, <2>5, <2>6, <2>7, Zenon DEF ApicInv
<1> QED BY <1>2, <1>3

\* The keyboard takes the third vector; the timer's line keeps its entry.
LEMMA KeyboardInv == ASSUME ApicInv, Keyboard PROVE ApicInv'
<1>1. /\ apic.pc = "idle" /\ apic.irq = IRQ_TIMER /\ ApicTypeOK /\ apic.free = FirstVector + 2
      /\ FirstVector \in DOMAIN apic.funcs /\ apic.funcs[FirstVector] = "timer"
      /\ apic.at = Len(apic.madt) + 1
  BY DEF Keyboard, ApicInv, HandlersOK
<1>2. CASE apic.free = LastVector
  <2>1. apic' = [apic EXCEPT !.pc = "stopped"]
    BY <1>2 DEF Keyboard, Stop
  <2>2. /\ DOMAIN apic' = DOMAIN apic /\ apic'.pc = "stopped" /\ apic'.free = LastVector
        /\ \A f \in DOMAIN apic \ {"pc"} : apic'[f] = apic[f]
    BY <1>1, <1>2, <2>1 DEF ApicTypeOK
  <2>3. StopsForAReason'
    BY <2>2, Zenon DEF StopsForAReason
  <2> QED BY <2>2, <2>3, StopInv, Zenon
<1>3. CASE apic.free # LastVector
  <2>1. /\ DOMAIN apic' = DOMAIN apic /\ apic'.madt = apic.madt /\ apic'.at = apic.at /\ apic'.bsp = apic.bsp
        /\ apic'.astray = apic.astray /\ apic'.redir = apic.redir
        /\ apic'.isos = apic.isos /\ apic'.ioapics = apic.ioapics /\ apic'.pc = "assign"
        /\ apic'.irq = IRQ_KEYBOARD /\ apic'.vector = FirstVector + 2
        /\ apic'.funcs = Put(apic.funcs, FirstVector + 2, "keyboard")
    <3>1. PICK s : s = isr_alloc_vector(apic)
      OBVIOUS
    <3>2. /\ DOMAIN s = DOMAIN apic /\ \A f \in DOMAIN apic \ {"free", "vector"} : s[f] = apic[f]
          /\ s.vector = FirstVector + 2
      BY <1>1, <3>1, Zenon DEF isr_alloc_vector, ApicTypeOK
    <3>3. s.funcs = apic.funcs
      BY <1>1, <3>2, Zenon DEF ApicTypeOK
    <3>4. PICK h : h = Put(apic.funcs, FirstVector + 2, "keyboard")
      BY Zenon
    <3>5. apic' = [[s EXCEPT !.funcs = h] EXCEPT !.pc = "assign", !.irq = IRQ_KEYBOARD]
      BY <1>3, <3>1, <3>2, <3>3, <3>4 DEF Keyboard, isr_set_vector
    <3> QED BY <1>1, <3>2, <3>4, <3>5, Zenon DEF ApicTypeOK
  <2>2. ApicTypeOK'
    BY <1>1, <2>1, Zenon DEF ApicTypeOK, Irqs
  <2>3. FirstVector # FirstVector + 2
    BY VectorsAssumption
  <2>4. /\ DOMAIN apic'.funcs = {FirstVector + 2} \cup DOMAIN apic.funcs
        /\ apic'.funcs[FirstVector] = "timer" /\ apic'.funcs[FirstVector + 2] = "keyboard"
    BY <1>1, <2>1, <2>3, Zenon DEF Put
  <2>5. HandlersOK'
    BY <1>1, <2>1, <2>4 DEF HandlersOK, VectorOf, IRQ_TIMER, IRQ_KEYBOARD
  <2>6. \A irq : Wired(irq)' = Wired(irq)
    BY <2>1, WiredKept, Zenon
  <2>7. LineTaken(IRQ_TIMER) => LineTaken(IRQ_TIMER)'
    BY <2>4, <2>6, Zenon DEF LineTaken
  <2>8. EntriesOK
    BY DEF ApicInv
  <2>9. Redirected(IRQ_TIMER, FirstVector) => Redirected(IRQ_TIMER, FirstVector)'
    BY <2>1, <2>6, Zenon DEF Redirected
  <2>10. EntriesOK' /\ StopsForAReason'
    BY <1>1, <2>1, <2>6, <2>7, <2>8, <2>9, Zenon DEF EntriesOK, StopsForAReason
  <2>11. ASSUME NEW irq \in Irqs PROVE SameOverride(irq)'
    BY <2>1, SameKept, Zenon DEF ApicInv
  <2> QED BY <2>2, <2>5, <2>10, <2>11 DEF ApicInv
<1> QED BY <1>2, <1>3

\* The first half of a redirection entry, the reasons to write none included.
LEMMA RedirectInv == ASSUME ApicInv, ioapic_redirect_irq PROVE ApicInv'
<1>1. /\ apic.pc = "assign" /\ ApicTypeOK /\ apic.irq \in Irqs /\ HandlersOK /\ EntriesOK
      /\ apic.at = Len(apic.madt) + 1 /\ SameOverride(apic.irq)
      /\ apic.vector = VectorOf(apic.irq) /\ apic.vector \in DOMAIN apic.funcs
  BY DEF ioapic_redirect_irq, ApicInv, HandlersOK, ApicTypeOK
<1>2. PICK w \in Nat : w = Wired(apic.irq) /\ w = Gsi(apic, apic.irq)
  BY <1>1, GsiIsWired, Zenon
<1> DEFINE e == [vector |-> apic.vector, masked |-> FALSE, cpu |-> Entry(apic, w).cpu]
<1>3. \/ w = apic.vector /\ apic' = [apic EXCEPT !.pc = "idle"]
      \/ ioapic_info_for_gsi(apic, w) = {} /\ apic' = [apic EXCEPT !.pc = "stopped"]
      \/ apic' = [apic EXCEPT !.pc = "half", !.redir = Put(@, w, e)]
  BY <1>2 DEF ioapic_redirect_irq, Stop
<1>4. CASE w = apic.vector /\ apic' = [apic EXCEPT !.pc = "idle"]
  <2>1. /\ DOMAIN apic' = DOMAIN apic /\ apic'.madt = apic.madt /\ apic'.at = apic.at /\ apic'.bsp = apic.bsp
        /\ apic'.astray = apic.astray /\ apic'.redir = apic.redir /\ apic'.funcs = apic.funcs
        /\ apic'.isos = apic.isos /\ apic'.ioapics = apic.ioapics /\ apic'.pc = "idle"
        /\ apic'.irq = apic.irq /\ apic'.vector = apic.vector /\ apic'.free = apic.free
    BY <1>1, <1>4 DEF ApicTypeOK
  <2>2. ApicTypeOK'
    BY <1>1, <2>1, Zenon DEF ApicTypeOK
  <2>3. HandlersOK' /\ StopsForAReason'
    BY <1>1, <2>1, Zenon DEF HandlersOK, StopsForAReason, VectorOf
  <2>4. \A irq : Wired(irq)' = Wired(irq)
    BY <2>1, WiredKept, Zenon
  <2>5. LineTaken(apic.irq)
    BY <1>1, <1>2, <1>4, VectorsAssumption DEF LineTaken, VectorOf, Irqs, IRQ_TIMER, IRQ_KEYBOARD
  <2>6. LineTaken(IRQ_TIMER)' <=> LineTaken(IRQ_TIMER)
    BY <2>1, <2>4, Zenon DEF LineTaken
  <2>7. LineTaken(IRQ_KEYBOARD)' <=> LineTaken(IRQ_KEYBOARD)
    BY <2>1, <2>4 DEF LineTaken
  <2>8. Redirected(IRQ_TIMER, FirstVector)' <=> Redirected(IRQ_TIMER, FirstVector)
    BY <2>1, <2>4, Zenon DEF Redirected
  <2>9. EntriesOK'
    BY <1>1, <2>1, <2>4, <2>5, <2>6, <2>7, <2>8, Zenon DEF EntriesOK, Irqs
  <2>10. ASSUME NEW irq \in Irqs PROVE SameOverride(irq)'
    BY <2>1, SameKept, Zenon DEF ApicInv
  <2> QED BY <2>2, <2>3, <2>9, <2>10, Zenon DEF ApicInv
<1>5. CASE ioapic_info_for_gsi(apic, w) = {} /\ apic' = [apic EXCEPT !.pc = "stopped"]
  <2>1. /\ DOMAIN apic' = DOMAIN apic /\ apic'.pc = "stopped"
        /\ \A f \in DOMAIN apic \ {"pc"} : apic'[f] = apic[f]
    BY <1>1, <1>5 DEF ApicTypeOK
  <2>2. apic'.ioapics = apic.ioapics /\ apic'.madt = apic.madt /\ apic'.irq = apic.irq
    BY <1>1, <2>1, Zenon DEF ApicTypeOK
  <2>3. Wired(apic.irq)' = w
    BY <1>2, <2>2 DEF Wired
  <2>4. ASSUME NEW i \in DOMAIN apic.ioapics
        PROVE  w \notin (apic.ioapics[i] + 1) .. (apic.ioapics[i] + RedirectCount - 1)
    <3>1. apic.ioapics[i] \in Nat /\ RedirectCount \in Nat
      BY <1>1, VectorsAssumption DEF ApicTypeOK
    <3>2. ~(w > apic.ioapics[i] /\ w < apic.ioapics[i] + RedirectCount)
      BY <1>5 DEF ioapic_info_for_gsi
    <3> QED BY <3>1, <3>2
  <2>5. StopsForAReason'
    BY <2>2, <2>3, <2>4, Zenon DEF StopsForAReason
  <2> QED BY <2>1, <2>5, StopInv, Zenon
<1>6. CASE apic' = [apic EXCEPT !.pc = "half", !.redir = Put(@, w, e)]
  <2>0. PICK h : h = Put(apic.redir, w, e)
    BY Zenon
  <2>1. /\ DOMAIN apic' = DOMAIN apic /\ apic'.madt = apic.madt /\ apic'.at = apic.at /\ apic'.bsp = apic.bsp
        /\ apic'.astray = apic.astray /\ apic'.redir = h /\ apic'.funcs = apic.funcs
        /\ apic'.isos = apic.isos /\ apic'.ioapics = apic.ioapics /\ apic'.pc = "half"
        /\ apic'.irq = apic.irq /\ apic'.vector = apic.vector /\ apic'.free = apic.free
    <3>1. apic' = [apic EXCEPT !.pc = "half", !.redir = h]
      BY <1>6, <2>0
    <3> QED BY <1>1, <3>1 DEF ApicTypeOK
  <2>2. ApicTypeOK'
    BY <1>1, <2>1, Zenon DEF ApicTypeOK
  <2>3. HandlersOK' /\ StopsForAReason'
    BY <1>1, <2>1, Zenon DEF HandlersOK, StopsForAReason, VectorOf
  <2>4. \A irq : Wired(irq)' = Wired(irq)
    BY <2>1, WiredKept, Zenon
  <2>5. /\ DOMAIN h = {w} \cup DOMAIN apic.redir /\ h[w] = e
        /\ \A g \in DOMAIN apic.redir \ {w} : h[g] = apic.redir[g]
    BY <2>0, Zenon DEF Put
  <2>6. /\ DOMAIN e = {"vector", "masked", "cpu"} /\ e.vector = apic.vector /\ e.masked = FALSE
        /\ e.cpu \in {0, apic.bsp}
    BY <1>1, Zenon DEF Entry, Masked, EntriesOK
  <2> HIDE DEF e
  <2>7. \A g \in DOMAIN h : DOMAIN h[g] = {"vector", "masked", "cpu"} /\ h[g].cpu \in {0, apic.bsp}
    BY <1>1, <2>5, <2>6, Zenon DEF EntriesOK
  <2>8. LineTaken(IRQ_TIMER)' <=> LineTaken(IRQ_TIMER)
    BY <2>1, <2>4, Zenon DEF LineTaken
  <2>9. ASSUME Wired(IRQ_TIMER) # w, Redirected(IRQ_TIMER, FirstVector)
        PROVE  Redirected(IRQ_TIMER, FirstVector)'
    BY <2>1, <2>4, <2>5, <2>9, Zenon DEF Redirected
  <2>10. EntriesOK'
    <3>1. ASSUME apic.irq = IRQ_KEYBOARD, Wired(IRQ_TIMER) # Wired(IRQ_KEYBOARD), ~LineTaken(IRQ_TIMER)
          PROVE  Redirected(IRQ_TIMER, FirstVector)'
      BY <1>1, <1>2, <2>9, <3>1, Zenon DEF EntriesOK
    <3>2. w \in DOMAIN h /\ h[w].masked = FALSE /\ h[w].vector = apic.vector
      BY <2>5, <2>6, Zenon
    <3>3. Wired(apic.irq)' = w
      BY <1>2, <2>1 DEF Wired
    <3> QED BY <1>1, <2>1, <2>4, <2>7, <2>8, <3>1, <3>2, <3>3, Zenon DEF EntriesOK
  <2>11. ASSUME NEW irq \in Irqs PROVE SameOverride(irq)'
    BY <2>1, SameKept, Zenon DEF ApicInv
  <2> QED BY <2>2, <2>3, <2>10, <2>11 DEF ApicInv
<1> QED BY <1>3, <1>4, <1>5, <1>6

\* The second half: the line goes to the boot processor.
LEMMA SecondHalfInv == ASSUME ApicInv, redirect_irq PROVE ApicInv'
<1>1. /\ apic.pc = "half" /\ ApicTypeOK /\ apic.irq \in Irqs /\ HandlersOK /\ EntriesOK
      /\ apic.at = Len(apic.madt) + 1 /\ SameOverride(apic.irq)
      /\ apic.vector = VectorOf(apic.irq) /\ apic.vector \in DOMAIN apic.funcs
  BY Zenon DEF redirect_irq, ApicInv, HandlersOK, ApicTypeOK
<1>2. PICK w \in Nat : w = Wired(apic.irq) /\ w = Gsi(apic, apic.irq)
  BY <1>1, GsiIsWired, Zenon
<1>3. PICK h : h = [apic.redir EXCEPT ![w].cpu = apic.bsp]
  BY Zenon
<1>4. /\ DOMAIN apic' = DOMAIN apic /\ apic'.madt = apic.madt /\ apic'.at = apic.at /\ apic'.bsp = apic.bsp
      /\ apic'.astray = apic.astray /\ apic'.redir = h /\ apic'.funcs = apic.funcs
      /\ apic'.isos = apic.isos /\ apic'.ioapics = apic.ioapics /\ apic'.pc = "idle"
      /\ apic'.irq = apic.irq /\ apic'.vector = apic.vector /\ apic'.free = apic.free
  <2>1. apic' = [apic EXCEPT !.pc = "idle", !.redir = h]
    BY <1>1, <1>2, <1>3, Zenon DEF redirect_irq, ApicTypeOK
  <2> QED BY <1>1, <2>1 DEF ApicTypeOK
<1>5. ApicTypeOK'
  BY <1>1, <1>4, Zenon DEF ApicTypeOK
<1>6. HandlersOK' /\ StopsForAReason'
  BY <1>1, <1>4, Zenon DEF HandlersOK, StopsForAReason, VectorOf
<1>7. \A irq : Wired(irq)' = Wired(irq)
  BY <1>4, WiredKept, Zenon
<1>8. w \in DOMAIN apic.redir /\ apic.redir[w].masked = FALSE /\ apic.redir[w].vector = apic.vector
      /\ DOMAIN apic.redir[w] = {"vector", "masked", "cpu"}
  BY <1>1, <1>2, Zenon DEF EntriesOK
<1>9. /\ DOMAIN h = DOMAIN apic.redir /\ h[w].masked = FALSE /\ h[w].vector = apic.vector
      /\ h[w].cpu = apic.bsp /\ DOMAIN h[w] = {"vector", "masked", "cpu"}
      /\ \A g \in DOMAIN apic.redir \ {w} : h[g] = apic.redir[g]
  BY <1>3, <1>8, Zenon
<1>10. \A g \in DOMAIN h : DOMAIN h[g] = {"vector", "masked", "cpu"} /\ h[g].cpu \in {0, apic.bsp}
  BY <1>1, <1>9, Zenon DEF EntriesOK
<1>11. LineTaken(IRQ_TIMER)' <=> LineTaken(IRQ_TIMER)
  BY <1>4, <1>7, Zenon DEF LineTaken
<1>12. ASSUME Wired(IRQ_TIMER) # w, Redirected(IRQ_TIMER, FirstVector)
       PROVE  Redirected(IRQ_TIMER, FirstVector)'
  BY <1>4, <1>7, <1>9, <1>12, Zenon DEF Redirected
<1>13. apic.irq = IRQ_TIMER => Redirected(IRQ_TIMER, FirstVector)'
  BY <1>1, <1>2, <1>4, <1>7, <1>8, <1>9, Zenon DEF Redirected, VectorOf
<1>14. apic.irq = IRQ_KEYBOARD => Redirected(IRQ_KEYBOARD, FirstVector + 2)'
  <2>1. VectorOf(IRQ_KEYBOARD) = FirstVector + 2
    BY DEF VectorOf, IRQ_TIMER, IRQ_KEYBOARD
  <2> QED BY <1>1, <1>2, <1>4, <1>7, <1>8, <1>9, <2>1, ZenonT(40) DEF Redirected
<1>15. EntriesOK'
  <2>1. ASSUME apic.irq = IRQ_KEYBOARD, Wired(IRQ_TIMER) # Wired(IRQ_KEYBOARD), ~LineTaken(IRQ_TIMER)
        PROVE  Redirected(IRQ_TIMER, FirstVector)'
    BY <1>1, <1>2, <1>12, <2>1, Zenon DEF EntriesOK
  <2> QED BY <1>1, <1>4, <1>7, <1>10, <1>11, <1>13, <1>14, <2>1, Zenon DEF EntriesOK, Irqs
<1>16. ASSUME NEW irq \in Irqs PROVE SameOverride(irq)'
  BY <1>4, SameKept, Zenon DEF ApicInv
<1> QED BY <1>5, <1>6, <1>15, <1>16 DEF ApicInv

\* A line that is raised goes astray only to processor 0.
LEMMA RaiseInv == ASSUME ApicInv, NEW line \in Irqs, Raise(line) PROVE ApicInv'
<1>1. /\ ApicTypeOK /\ HandlersOK /\ EntriesOK /\ StopsForAReason /\ apic.pc \in {"half", "idle"}
      /\ apic' = [apic EXCEPT !.astray = TRUE]
  BY DEF Raise, ApicInv
<1>2. /\ DOMAIN apic' = DOMAIN apic /\ apic'.madt = apic.madt /\ apic'.at = apic.at /\ apic'.bsp = apic.bsp
      /\ apic'.astray = TRUE /\ apic'.redir = apic.redir /\ apic'.funcs = apic.funcs
      /\ apic'.isos = apic.isos /\ apic'.ioapics = apic.ioapics /\ apic'.pc = apic.pc
      /\ apic'.irq = apic.irq /\ apic'.vector = apic.vector /\ apic'.free = apic.free
  BY <1>1 DEF ApicTypeOK
<1>3. apic.bsp # 0
  BY <1>1, Zenon DEF Raise, Entry, Masked, EntriesOK
<1>4. ApicTypeOK'
  BY <1>1, <1>2 DEF ApicTypeOK
<1>5. HandlersOK' /\ StopsForAReason'
  BY <1>1, <1>2 DEF HandlersOK, StopsForAReason, VectorOf
<1>6. \A irq : Wired(irq)' = Wired(irq)
  BY <1>2, WiredKept, Zenon
<1>7. \A irq : LineTaken(irq)' <=> LineTaken(irq)
  BY <1>2, <1>6, Zenon DEF LineTaken
<1>8. \A irq, v : Redirected(irq, v)' <=> Redirected(irq, v)
  BY <1>2, <1>6, Zenon DEF Redirected
<1>9. Wired(apic.irq)' = Wired(apic.irq)
  BY <1>2 DEF Wired
<1>10. EntriesOK'
  BY <1>1, <1>2, <1>3, <1>6, <1>7, <1>8, <1>9 DEF EntriesOK
<1>11. ASSUME NEW irq \in Irqs PROVE SameOverride(irq)'
  BY <1>2, SameKept, Zenon DEF ApicInv
<1> QED BY <1>4, <1>5, <1>10, <1>11, Zenon DEF ApicInv

\* Whatever the table of a machine holds, in whatever order, and whenever devices raise
\* their lines: an assigned line enters its own handler on the boot processor, and the
\* set-up stops only for the reasons the property names.
THEOREM LinesRouted == ApicSpec => []RoutedToHandler
<1>1. ApicInit => ApicInv
  <2> SUFFICES ASSUME ApicInit PROVE ApicInv
    OBVIOUS
  <2>1. PICK madt \in UNION {[1..n -> Entries] : n \in 0..MaxEntries} : \E bsp \in Cpus : apic =
         [pc |-> "isr", madt |-> madt, at |-> 1, bsp |-> bsp,
          lapics |-> 0, ioapics |-> <<>>, isos |-> <<>>, nmi |-> <<>>, base |-> 1,
          lint |-> <<"off", "off">>, free |-> FirstVector, timer |-> 0,
          funcs |-> <<>>, redir |-> <<>>, irq |-> IRQ_TIMER, vector |-> 0, astray |-> FALSE]
    BY DEF ApicInit, ApicStart
  <2>2. PICK n \in 0 .. MaxEntries : madt \in [1 .. n -> Entries]
    BY Zenon
  <2>3. madt \in Seq(Entries) /\ Len(madt) = n /\ n \in Nat
    BY <2>2, VectorsAssumption
  <2>4. ApicTypeOK
    BY <2>1, <2>3 DEF ApicTypeOK, Irqs
  <2>5. /\ apic.pc = "isr" /\ apic.free = FirstVector /\ apic.funcs = <<>> /\ apic.at = 1
        /\ apic.redir = <<>> /\ apic.isos = <<>> /\ apic.irq = IRQ_TIMER /\ apic.astray = FALSE
    BY <2>1
  <2>6. HandlersOK /\ EntriesOK /\ StopsForAReason
    BY <2>5 DEF HandlersOK, EntriesOK, StopsForAReason
  <2>7. \A irq \in Irqs : SameOverride(irq)
    BY <2>5 DEF SameOverride
  <2> QED BY <2>4, <2>6, <2>7, Zenon DEF ApicInv
<1>2. ApicInv /\ [ApicNext]_apic => ApicInv'
  <2> SUFFICES ASSUME ApicInv, [ApicNext]_apic PROVE ApicInv'
    OBVIOUS
  <2>1. CASE UNCHANGED apic
    <3>1. ApicTypeOK' /\ HandlersOK'
      BY <2>1, Zenon DEF ApicInv, ApicTypeOK, HandlersOK, VectorOf
    <3>2. \A irq : Wired(irq)' = Wired(irq)
      BY <2>1, WiredKept, Zenon
    <3>3. Wired(apic.irq)' = Wired(apic.irq)
      BY <2>1, <3>2, Zenon
    <3>4. \A irq, v : (LineTaken(irq)' <=> LineTaken(irq)) /\ (Redirected(irq, v)' <=> Redirected(irq, v))
      BY <2>1, <3>2, Zenon DEF LineTaken, Redirected
    <3>5. EntriesOK' /\ StopsForAReason'
      BY <2>1, <3>2, <3>3, <3>4, Zenon DEF ApicInv, EntriesOK, StopsForAReason
    <3>6. \A irq \in Irqs : SameOverride(irq)'
      BY <2>1, SameKept, Zenon DEF ApicInv
    <3> QED BY <3>1, <3>5, <3>6, Zenon DEF ApicInv
  <2> QED BY Zenon, <2>1, IsrInv, MadtInv, ApicInitInv, KeyboardInv, RedirectInv, SecondHalfInv, RaiseInv
             DEF ApicNext
<1>3. ApicInv => RoutedToHandler
  <2> SUFFICES ASSUME ApicInv PROVE RoutedToHandler
    BY Zenon
  <2>1. ASSUME NEW irq, NEW v, Redirected(irq, v)
        PROVE  /\ Entry(apic, Wired(irq)).masked = FALSE /\ Entry(apic, Wired(irq)).cpu = apic.bsp
               /\ Entry(apic, Wired(irq)).vector = v
    BY <2>1, Zenon DEF Redirected, Entry
  <2>2. ApicTypeOK /\ HandlersOK /\ EntriesOK /\ StopsForAReason
    BY Zenon DEF ApicInv
  <2>3. /\ apic.pc = "idle" => apic.funcs[FirstVector] = "timer"
        /\ apic.pc = "idle" /\ apic.irq = IRQ_KEYBOARD => apic.funcs[FirstVector + 2] = "keyboard"
    BY <2>2, Zenon DEF HandlersOK
  <2>4. ASSUME apic.pc = "idle", Wired(IRQ_TIMER) # Wired(IRQ_KEYBOARD), ~LineTaken(IRQ_TIMER)
        PROVE  Redirected(IRQ_TIMER, FirstVector)
    BY <2>2, <2>4, Zenon DEF EntriesOK
  <2>5. ASSUME apic.pc = "idle", apic.irq = IRQ_KEYBOARD, ~LineTaken(IRQ_KEYBOARD)
        PROVE  Redirected(IRQ_KEYBOARD, FirstVector + 2)
    BY <2>2, <2>5, Zenon DEF EntriesOK
  <2>6. apic.astray => apic.bsp # 0
    <3>1. apic.astray \in BOOLEAN /\ (apic.astray = TRUE => apic.bsp # 0)
      BY <2>2, Zenon DEF EntriesOK, ApicTypeOK
    <3> QED BY <3>1, Zenon
  <2> QED BY <2>1, <2>2, <2>3, <2>4, <2>5, <2>6, Zenon DEF RoutedToHandler, StopsForAReason, LineTaken
<1> QED BY <1>1, <1>2, <1>3, PTL DEF ApicSpec
-----------------------------------------------------------------------------
(***************************************************************************)
(* The keyboard.  The counters of the handler lag behind the keys that are *)
(* held by the bytes not yet taken.  The invariant says that between them  *)
(* lies a path: a state of the keys for each byte, each led to the next by *)
(* its byte, the first what the counters say and the last the keys now.    *)
(***************************************************************************)
KbdSpec == KbdInit /\ [][KbdNext]_kbd

Lead == [e0 |-> TRUE, key |-> "", up |-> FALSE, want |-> {}]
Codes == {Lead} \cup [e0 : {FALSE}, key : Keys, up : BOOLEAN, want : SUBSET Modifiers]

KeyStates == [held : SUBSET Keys, locked : BOOLEAN, e0 : BOOLEAN]

KbdTypeOK(s) ==
  /\ DOMAIN s = {"held", "locked", "bytes", "events", "repeated", "shift", "ctrl", "cmd",
                 "alt", "caps", "in_e0", "got", "want"}
  /\ s.held \subseteq Keys /\ s.locked \in BOOLEAN /\ s.bytes \in Seq(Codes)
  /\ s.repeated \in BOOLEAN /\ s.in_e0 \in BOOLEAN /\ s.alt \in BOOLEAN /\ s.caps \in BOOLEAN
  /\ s.shift \in 0 .. 3 /\ s.ctrl \in 0 .. 3 /\ s.cmd \in 0 .. 3

\* The modifiers that held keys and caps lock mean.
MeantBy(held, locked) ==
  {m \in Modifiers \ {"caps"} : \E k \in held : KeyKind[k] = m}
    \cup (IF locked THEN {"caps"} ELSE {})

Two(held, left, right) == (IF left \in held THEN 1 ELSE 0) + (IF right \in held THEN 1 ELSE 0)

\* The handler has seen the keys h.
Agree(h, s) ==
  /\ s.in_e0 = h.e0 /\ s.caps = h.locked /\ (s.alt = TRUE <=> "alt_left" \in h.held)
  /\ s.shift = Two(h.held, "shift_left", "shift_right")
  /\ s.ctrl = Two(h.held, "ctrl_left", "ctrl_right")
  /\ s.cmd = Two(h.held, "cmd_left", "cmd_right")

\* A key is struck, let go, or sends its character again.
KeyPasses(h, b, g) ==
  \/ b.up = TRUE /\ b.key \in h.held /\ g.held = h.held \ {b.key} /\ g.locked = h.locked
  \/ /\ b.up = FALSE /\ b.key \notin h.held /\ g.held = h.held \cup {b.key}
     /\ g.locked = IF KeyKind[b.key] = "caps" THEN ~h.locked ELSE h.locked
  \/ /\ b.up = FALSE /\ b.key \in h.held /\ KeyKind[b.key] = "char"
     /\ g.held = h.held /\ g.locked = h.locked

\* The byte b leads from the keys h to the keys g.
Passes(h, b, g) ==
  \/ /\ b.e0 = TRUE /\ b.key = "" /\ h.e0 = FALSE
     /\ g.e0 = TRUE /\ g.held = h.held /\ g.locked = h.locked
  \/ /\ b.e0 = FALSE /\ b.key \in Keys /\ (h.e0 = TRUE <=> b.key \in Extended) /\ g.e0 = FALSE
     /\ b.want = MeantBy(h.held, h.locked) /\ KeyPasses(h, b, g)

\* The path from what the handler has seen to the keys as they are.
Path(H, s) ==
  /\ H \in [1 .. (Len(s.bytes) + 1) -> KeyStates]
  /\ \A i \in 1 .. Len(s.bytes) : Passes(H[i], s.bytes[i], H[i + 1])
  /\ H[Len(s.bytes) + 1] = [held |-> s.held, locked |-> s.locked, e0 |-> FALSE]
  /\ Agree(H[1], s)

KbdInv ==
  /\ KbdTypeOK(kbd)
  /\ kbd.repeated = FALSE => kbd.got = kbd.want /\ \E H : Path(H, kbd)

\* The keys there are.
LEMMA KeyNames ==
  ASSUME NEW k \in Keys
  PROVE  /\ k \in {"shift_left", "shift_right", "ctrl_left", "ctrl_right", "cmd_left", "cmd_right",
                   "alt_left", "caps_lock", "letter", "up_arrow"}
         /\ KeyKind[k] = "caps" <=> k = "caps_lock"
         /\ KeyKind[k] = "char" <=> k = "letter"
         /\ KeyKind[k] = "shift" <=> k \in {"shift_left", "shift_right"}
         /\ KeyKind[k] = "ctrl" <=> k \in {"ctrl_left", "ctrl_right"}
         /\ KeyKind[k] = "cmd" <=> k \in {"cmd_left", "cmd_right"}
         /\ KeyKind[k] = "alt" <=> k = "alt_left"
<1>1. k \in {"shift_left", "shift_right", "ctrl_left", "ctrl_right", "cmd_left", "cmd_right",
             "alt_left", "caps_lock", "letter", "up_arrow"}
  BY KeysAssumption DEF KeyKind
<1> QED BY <1>1 DEF KeyKind

\* What is printed with a character is what the keys mean.
LEMMA PrintedIs ==
  ASSUME NEW h \in KeyStates, NEW s, KbdTypeOK(s), Agree(h, s)
  PROVE  Printed(s) = MeantBy(h.held, h.locked)
<1>1. h.held \subseteq Keys
  BY DEF KeyStates
<1>2. /\ "shift" \in Printed(s) <=> \E k \in h.held : KeyKind[k] = "shift"
      /\ "ctrl" \in Printed(s) <=> \E k \in h.held : KeyKind[k] = "ctrl"
      /\ "cmd" \in Printed(s) <=> \E k \in h.held : KeyKind[k] = "cmd"
  BY <1>1, KeyNames DEF Printed, Agree, Two
<1>3. /\ "alt" \in Printed(s) <=> \E k \in h.held : KeyKind[k] = "alt"
      /\ "caps" \in Printed(s) <=> h.locked = TRUE
  BY <1>1, KeyNames DEF Printed, Agree, KeyStates, KbdTypeOK
<1>4. Printed(s) \subseteq Modifiers
  BY DEF Printed, Modifiers
<1> QED BY <1>2, <1>3, <1>4 DEF MeantBy, Modifiers, KeyStates

\* What the handler makes of the next byte.
Handled(s, b) == IF s.in_e0 THEN ExtendedKey(s, b) ELSE PlainKey(s, b)

\* What the handler never touches.
Untouched(s, t) ==
  /\ KbdTypeOK(t) /\ t.held = s.held /\ t.locked = s.locked /\ t.bytes = s.bytes /\ t.repeated = s.repeated

\* Taking a byte leads the handler along the path.
LEMMA HandlerFollows ==
  ASSUME NEW s, KbdTypeOK(s), NEW b \in Codes,
         NEW h \in KeyStates, NEW g \in KeyStates, Agree(h, s), Passes(h, b, g), s.got = s.want
  PROVE  Agree(g, Handled(s, b)) /\ Handled(s, b).got = Handled(s, b).want
<1> DEFINE t == Handled(s, b)
<1>1. /\ DOMAIN s = {"held", "locked", "bytes", "events", "repeated", "shift", "ctrl", "cmd",
                     "alt", "caps", "in_e0", "got", "want"}
      /\ s.shift \in 0 .. 3 /\ s.ctrl \in 0 .. 3 /\ s.cmd \in 0 .. 3
      /\ s.in_e0 \in BOOLEAN /\ s.alt \in BOOLEAN /\ s.caps \in BOOLEAN
      /\ b.e0 \in BOOLEAN /\ b.up \in BOOLEAN /\ h.e0 \in BOOLEAN /\ h.locked \in BOOLEAN
      /\ h.held \subseteq Keys /\ g.held \subseteq Keys /\ g.locked \in BOOLEAN
  <2>1. b.e0 \in BOOLEAN /\ b.up \in BOOLEAN
    <3>1. CASE b = Lead
      BY <3>1, Zenon DEF Lead
    <3>2. CASE b \in [e0 : {FALSE}, key : Keys, up : BOOLEAN, want : SUBSET Modifiers]
      BY <3>2, Zenon
    <3> QED BY <3>1, <3>2, Zenon DEF Codes
  <2> QED BY <2>1 DEF KbdTypeOK, KeyStates
<1>2. CASE b.e0 = TRUE
  <2>1. b.key = "" /\ h.e0 = FALSE /\ g.e0 = TRUE /\ g.held = h.held /\ g.locked = h.locked /\ s.in_e0 = FALSE
    BY <1>2, Zenon DEF Passes, Agree
  <2>2. t = [s EXCEPT !.in_e0 = TRUE]
    <3>1. t = PlainKey(s, b)
      BY <2>1, Zenon DEF Handled
    <3> QED BY <1>2, <2>1, <3>1, Zenon DEF PlainKey
  <2>3. /\ t.in_e0 = TRUE /\ t.got = s.got /\ t.want = s.want
        /\ t.caps = s.caps /\ t.alt = s.alt /\ t.shift = s.shift /\ t.ctrl = s.ctrl /\ t.cmd = s.cmd
    BY <1>1, <2>2
  <2> QED BY <2>1, <2>3, Zenon DEF Agree
<1>3. CASE b.e0 = FALSE
  <2>1. /\ b.key \in Keys /\ (h.e0 = TRUE <=> b.key \in Extended) /\ g.e0 = FALSE
        /\ b.want = MeantBy(h.held, h.locked) /\ KeyPasses(h, b, g)
    BY <1>3, Zenon DEF Passes
  <2>2. s.in_e0 = TRUE <=> b.key \in Extended
    BY <2>1 DEF Agree
  <2>3. CASE b.key \in Extended
    <3>1. s.in_e0 = TRUE
      BY <2>2, <2>3
    <3> DEFINE u == [s EXCEPT !.in_e0 = FALSE]
    <3>2. t = ExtendedKey(s, b)
      BY <3>1 DEF Handled
    <3>3. CASE b.key \in {"cmd_left", "cmd_right"}
      <4>1. t = [u EXCEPT !.cmd = Bump(@, b.up)]
        BY <3>2, <3>3 DEF ExtendedKey
      <4>2. /\ t.in_e0 = FALSE /\ t.got = s.got /\ t.want = s.want /\ t.cmd = Bump(s.cmd, b.up)
            /\ t.caps = s.caps /\ t.alt = s.alt /\ t.shift = s.shift /\ t.ctrl = s.ctrl
        BY <1>1, <4>1
      <4>3. KeyKind[b.key] # "caps" /\ KeyKind[b.key] # "char"
        BY <2>1, <3>3, KeyNames
      <4>4. Bump(s.cmd, b.up) = Two(g.held, "cmd_left", "cmd_right")
        BY <1>1, <2>1, <3>3, <4>3 DEF KeyPasses, Bump, Two, Agree
      <4>5. /\ g.locked = h.locked
            /\ \A k : k # b.key => (k \in g.held <=> k \in h.held)
        BY <2>1, <4>3, Zenon DEF KeyPasses
      <4> QED BY <2>1, <3>3, <4>2, <4>4, <4>5, Zenon DEF Agree, Two
    <3>4. CASE b.key = "ctrl_right"
      <4>1. t = [u EXCEPT !.ctrl = Bump(@, b.up)]
        BY <3>2, <3>4 DEF ExtendedKey
      <4>2. /\ t.in_e0 = FALSE /\ t.got = s.got /\ t.want = s.want /\ t.ctrl = Bump(s.ctrl, b.up)
            /\ t.caps = s.caps /\ t.alt = s.alt /\ t.shift = s.shift /\ t.cmd = s.cmd
        BY <1>1, <4>1
      <4>3. KeyKind[b.key] # "caps" /\ KeyKind[b.key] # "char"
        BY <2>1, <3>4, KeyNames
      <4>4. Bump(s.ctrl, b.up) = Two(g.held, "ctrl_left", "ctrl_right")
        BY <1>1, <2>1, <3>4, <4>3 DEF KeyPasses, Bump, Two, Agree
      <4>5. /\ g.locked = h.locked
            /\ \A k : k # b.key => (k \in g.held <=> k \in h.held)
        BY <2>1, <4>3 DEF KeyPasses
      <4> QED BY <2>1, <3>4, <4>2, <4>4, <4>5, Zenon DEF Agree, Two
    <3>5. CASE b.key = "up_arrow"
      <4>1. t = u
        BY <3>2, <3>5 DEF ExtendedKey
      <4>2. /\ t.in_e0 = FALSE /\ t.got = s.got /\ t.want = s.want
            /\ t.caps = s.caps /\ t.alt = s.alt /\ t.shift = s.shift /\ t.ctrl = s.ctrl /\ t.cmd = s.cmd
        BY <1>1, <4>1
      <4>3. KeyKind[b.key] # "caps" /\ KeyKind[b.key] # "char"
        BY <2>1, <3>5, KeyNames
      <4>4. /\ g.locked = h.locked
            /\ \A k : k # b.key => (k \in g.held <=> k \in h.held)
        BY <2>1, <4>3 DEF KeyPasses
      <4> QED BY <2>1, <3>5, <4>2, <4>4, Zenon DEF Agree, Two
    <3> QED BY <2>3, <3>3, <3>4, <3>5 DEF Extended
  <2>4. CASE b.key \notin Extended
    <3>1. t = PlainKey(s, b) /\ s.in_e0 = FALSE
      BY <1>1, <2>2, <2>4 DEF Handled
    <3>2. ASSUME b.key # "caps_lock", b.key # "letter"
          PROVE  /\ g.locked = h.locked
                 /\ \A k : k # b.key => (k \in g.held <=> k \in h.held)
                 /\ b.up = TRUE => b.key \in h.held /\ b.key \notin g.held
                 /\ b.up = FALSE => b.key \notin h.held /\ b.key \in g.held
      <4>1. KeyKind[b.key] # "caps" /\ KeyKind[b.key] # "char"
        BY <2>1, <3>2, KeyNames
      <4> QED BY <2>1, <4>1 DEF KeyPasses
    <3>3. CASE b.key = "ctrl_left"
      <4>1. t = [s EXCEPT !.ctrl = Bump(@, b.up)]
        BY <1>3, <3>1, <3>3 DEF PlainKey
      <4>2. /\ t.in_e0 = FALSE /\ t.got = s.got /\ t.want = s.want /\ t.ctrl = Bump(s.ctrl, b.up)
            /\ t.caps = s.caps /\ t.alt = s.alt /\ t.shift = s.shift /\ t.cmd = s.cmd
        BY <1>1, <3>1, <4>1
      <4>3. Bump(s.ctrl, b.up) = Two(g.held, "ctrl_left", "ctrl_right")
        <5>1. /\ b.up = TRUE => b.key \in h.held /\ b.key \notin g.held
              /\ b.up = FALSE => b.key \notin h.held /\ b.key \in g.held
              /\ \A k : k # b.key => (k \in g.held <=> k \in h.held)
          BY <3>2, <3>3, Zenon
        <5>2. s.ctrl = Two(h.held, "ctrl_left", "ctrl_right")
          BY DEF Agree
        <5> QED BY <1>1, <3>3, <5>1, <5>2 DEF Bump, Two
      <4> QED BY <2>1, <3>2, <3>3, <4>2, <4>3, Zenon DEF Agree, Two
    <3>4. CASE b.key \in {"shift_left", "shift_right"}
      <4>1. t = [s EXCEPT !.shift = Bump(@, b.up)]
        BY <1>3, <3>1, <3>4 DEF PlainKey
      <4>2. /\ t.in_e0 = FALSE /\ t.got = s.got /\ t.want = s.want /\ t.shift = Bump(s.shift, b.up)
            /\ t.caps = s.caps /\ t.alt = s.alt /\ t.ctrl = s.ctrl /\ t.cmd = s.cmd
        BY <1>1, <3>1, <4>1
      <4>3. Bump(s.shift, b.up) = Two(g.held, "shift_left", "shift_right")
        <5>1. /\ b.up = TRUE => b.key \in h.held /\ b.key \notin g.held
              /\ b.up = FALSE => b.key \notin h.held /\ b.key \in g.held
              /\ \A k : k # b.key => (k \in g.held <=> k \in h.held)
          BY <3>2, <3>4, Zenon
        <5>2. s.shift = Two(h.held, "shift_left", "shift_right")
          BY DEF Agree
        <5> QED BY <1>1, <3>4, <5>1, <5>2 DEF Bump, Two
      <4> QED BY <2>1, <3>2, <3>4, <4>2, <4>3, Zenon DEF Agree, Two
    <3>5. CASE b.key = "alt_left"
      <4>1. t = [s EXCEPT !.alt = ~b.up]
        BY <1>3, <3>1, <3>5 DEF PlainKey
      <4>2. /\ t.in_e0 = FALSE /\ t.got = s.got /\ t.want = s.want /\ (t.alt = TRUE <=> b.up = FALSE)
            /\ t.caps = s.caps /\ t.shift = s.shift /\ t.ctrl = s.ctrl /\ t.cmd = s.cmd
        BY <1>1, <3>1, <4>1, Zenon
      <4> QED BY <1>1, <2>1, <3>2, <3>5, <4>2, Zenon DEF Agree, Two
    <3>6. CASE b.key = "caps_lock"
      <4>1. KeyKind[b.key] = "caps" /\ KeyKind[b.key] # "char"
        BY <2>1, <3>6, KeyNames
      <4>2. \A k : k # b.key => (k \in g.held <=> k \in h.held)
        BY <2>1, <4>1 DEF KeyPasses
      <4>3. g.locked = IF b.up THEN h.locked ELSE ~h.locked
        BY <1>1, <2>1, <4>1 DEF KeyPasses
      <4>4. t = IF b.up THEN s ELSE [s EXCEPT !.caps = ~@]
        <5>1. CASE b.up = TRUE
          BY <1>3, <3>1, <3>6, <5>1 DEF PlainKey
        <5>2. CASE b.up = FALSE
          BY <1>3, <3>1, <3>6, <5>2 DEF PlainKey
        <5> QED BY <1>1, <5>1, <5>2, Zenon
      <4>5. /\ t.in_e0 = FALSE /\ t.got = s.got /\ t.want = s.want
            /\ t.caps = (IF b.up THEN s.caps ELSE ~s.caps)
            /\ t.alt = s.alt /\ t.shift = s.shift /\ t.ctrl = s.ctrl /\ t.cmd = s.cmd
        BY <1>1, <3>1, <4>4
      <4> QED BY <1>1, <2>1, <3>6, <4>2, <4>3, <4>5, Zenon DEF Agree, Two
    <3>7. CASE b.key = "letter"
      <4>1. \A k : k # b.key => (k \in g.held <=> k \in h.held)
        BY <2>1 DEF KeyPasses
      <4>2. g.locked = h.locked
        BY <2>1, <3>7, KeyNames DEF KeyPasses
      <4>3. t = IF b.up THEN s ELSE [s EXCEPT !.got = Printed(s), !.want = b.want]
        <5>1. CASE b.up = TRUE
          BY <1>3, <3>1, <3>7, <5>1 DEF PlainKey
        <5>2. CASE b.up = FALSE
          BY <1>3, <3>1, <3>7, <5>2 DEF PlainKey
        <5> QED BY <1>1, <5>1, <5>2, Zenon
      <4>4. Printed(s) = b.want
        BY <2>1, PrintedIs
      <4>5. /\ t.in_e0 = FALSE /\ t.got = t.want /\ t.caps = s.caps
            /\ t.alt = s.alt /\ t.shift = s.shift /\ t.ctrl = s.ctrl /\ t.cmd = s.cmd
        BY <1>1, <3>1, <4>3, <4>4
      <4> QED BY <2>1, <3>7, <4>1, <4>2, <4>5, Zenon DEF Agree, Two
    <3> QED BY <2>1, <2>4, <3>3, <3>4, <3>5, <3>6, <3>7, KeyNames, Zenon DEF Extended
  <2> QED BY <2>3, <2>4
<1> QED BY <1>1, <1>2, <1>3, Zenon

\* The handler changes its counters and what was printed, nothing else.
LEMMA HandlerTypes ==
  ASSUME NEW s, KbdTypeOK(s), NEW b \in Codes
  PROVE  Untouched(s, Handled(s, b))
<1> DEFINE t == Handled(s, b)
<1>1. \A n \in 0 .. 3 : Bump(n, b.up) \in 0 .. 3
  BY DEF Bump
<1>2. CASE s.in_e0 = TRUE
  <2>1. t = ExtendedKey(s, b)
    BY <1>2 DEF Handled
  <2>2. CASE b.key \in {"cmd_left", "cmd_right"}
    BY <1>1, <2>1, <2>2 DEF ExtendedKey, Untouched, KbdTypeOK
  <2>3. CASE b.key = "ctrl_right"
    BY <1>1, <2>1, <2>3, Zenon DEF ExtendedKey, Untouched, KbdTypeOK
  <2>4. CASE b.key \notin {"cmd_left", "cmd_right", "ctrl_right"}
    BY <2>1, <2>4 DEF ExtendedKey, Untouched, KbdTypeOK
  <2> QED BY <2>2, <2>3, <2>4
<1>3. CASE s.in_e0 = FALSE
  <2>1. t = PlainKey(s, b)
    BY <1>3 DEF Handled
  <2>2. CASE b = Lead
    <3>1. b.e0 = TRUE /\ b.key = ""
      BY <2>2, Zenon DEF Lead
    <3>2. t = [s EXCEPT !.in_e0 = TRUE]
      BY <2>1, <3>1, Zenon DEF PlainKey
    <3> QED BY <3>2 DEF Untouched, KbdTypeOK
  <2>3. CASE b # Lead
    <3>1. b.e0 = FALSE /\ b.up \in BOOLEAN
      BY <2>3, Zenon DEF Codes
    <3>2. CASE b.key = "ctrl_left"
      BY <1>1, <2>1, <3>1, <3>2 DEF PlainKey, Untouched, KbdTypeOK
    <3>3. CASE b.key \in {"shift_left", "shift_right"}
      BY <1>1, <2>1, <3>1, <3>3 DEF PlainKey, Untouched, KbdTypeOK
    <3>4. CASE b.key = "alt_left"
      <4>1. t = [s EXCEPT !.alt = ~b.up]
        BY <2>1, <3>1, <3>4 DEF PlainKey
      <4>2. t.alt \in BOOLEAN
        BY <3>1, <4>1 DEF KbdTypeOK
      <4> QED BY <4>1, <4>2 DEF Untouched, KbdTypeOK
    <3>5. CASE b.key = "caps_lock" /\ b.up = FALSE
      <4>1. t = [s EXCEPT !.caps = ~@]
        BY <2>1, <3>1, <3>5 DEF PlainKey
      <4>2. t.caps \in BOOLEAN
        BY <4>1 DEF KbdTypeOK
      <4> QED BY <4>1, <4>2 DEF Untouched, KbdTypeOK
    <3>6. CASE b.key = "letter" /\ b.up = FALSE
      <4>1. t = [s EXCEPT !.got = Printed(s), !.want = b.want]
        BY <2>1, <3>1, <3>6 DEF PlainKey
      <4> QED BY <4>1 DEF Untouched, KbdTypeOK
    <3>7. CASE /\ b.key \notin {"ctrl_left", "shift_left", "shift_right", "alt_left"}
               /\ ~(b.key = "caps_lock" /\ b.up = FALSE) /\ ~(b.key = "letter" /\ b.up = FALSE)
      <4>1. t = s
        BY <2>1, <3>1, <3>7 DEF PlainKey
      <4> QED BY <4>1 DEF Untouched
    <3> QED BY <3>2, <3>3, <3>4, <3>5, <3>6, <3>7, Zenon
  <2> QED BY <2>2, <2>3
<1> QED BY <1>2, <1>3, Zenon DEF KbdTypeOK

\* An interrupt keeps the invariant: the path loses its first state.
LEMMA InterruptInv ==
  ASSUME KbdInv, ps2_keyboard_interrupt
  PROVE  KbdInv'
<1> DEFINE b == kbd.bytes[1]
           s == [kbd EXCEPT !.bytes = Tail(@)]
<1>1. kbd.bytes \in Seq(Codes) /\ kbd.bytes # <<>>
  BY DEF KbdInv, KbdTypeOK, ps2_keyboard_interrupt
<1>2. /\ b \in Codes /\ Tail(kbd.bytes) \in Seq(Codes) /\ Len(kbd.bytes) \in Nat /\ Len(kbd.bytes) >= 1
      /\ Len(Tail(kbd.bytes)) = Len(kbd.bytes) - 1
      /\ \A i \in 1 .. Len(Tail(kbd.bytes)) : Tail(kbd.bytes)[i] = kbd.bytes[i + 1]
  <2>1. Len(kbd.bytes) \in Nat /\ Len(kbd.bytes) >= 1 /\ b \in Codes
    BY <1>1
  <2> QED BY <1>1, <2>1, HeadTailProperties
<1>3. kbd' = Handled(s, b)
  BY DEF ps2_keyboard_interrupt, Handled
<1>4. /\ KbdTypeOK(s) /\ s.bytes = Tail(kbd.bytes) /\ s.held = kbd.held /\ s.locked = kbd.locked
      /\ s.repeated = kbd.repeated /\ s.got = kbd.got /\ s.want = kbd.want
      /\ s.in_e0 = kbd.in_e0 /\ s.caps = kbd.caps /\ s.alt = kbd.alt
      /\ s.shift = kbd.shift /\ s.ctrl = kbd.ctrl /\ s.cmd = kbd.cmd
  BY <1>2 DEF KbdInv, KbdTypeOK
<1> HIDE DEF s
<1>5. Untouched(s, kbd')
  BY <1>2, <1>3, <1>4, HandlerTypes
<1>6. KbdTypeOK(kbd)' /\ kbd'.repeated = kbd.repeated
  BY <1>4, <1>5 DEF Untouched
<1>7. ASSUME kbd.repeated = FALSE PROVE kbd'.got = kbd'.want /\ \E H : Path(H, kbd')
  <2>1. PICK H : Path(H, kbd)
    BY <1>7 DEF KbdInv
  <2>2. kbd.got = kbd.want
    BY <1>7 DEF KbdInv
  <2> DEFINE n == Len(kbd.bytes)
             G == [i \in 1 .. n |-> H[i + 1]]
  <2>3. /\ H[1] \in KeyStates /\ H[2] \in KeyStates /\ Agree(H[1], kbd) /\ Passes(H[1], b, H[2])
        /\ H \in [1 .. (n + 1) -> KeyStates]
        /\ \A i \in 1 .. n : Passes(H[i], kbd.bytes[i], H[i + 1])
        /\ H[n + 1] = [held |-> kbd.held, locked |-> kbd.locked, e0 |-> FALSE]
    BY <1>2, <2>1 DEF Path
  <2>4. Agree(H[1], s)
    BY <1>4, <2>3, Zenon DEF Agree
  <2>5. Agree(H[2], kbd') /\ kbd'.got = kbd'.want
    BY <1>2, <1>3, <1>4, <2>2, <2>3, <2>4, HandlerFollows, Zenon
  <2>6. Path(G, kbd')
    <3>1. /\ kbd'.bytes = Tail(kbd.bytes) /\ kbd'.held = kbd.held /\ kbd'.locked = kbd.locked
          /\ Len(kbd'.bytes) = n - 1
      BY <1>2, <1>4, <1>5 DEF Untouched
    <3>2. G \in [1 .. n -> KeyStates] /\ n - 1 + 1 = n /\ G[1] = H[2] /\ G[n] = H[n + 1]
      BY <1>2, <2>3
    <3>3. ASSUME NEW i \in 1 .. (n - 1) PROVE Passes(G[i], kbd'.bytes[i], G[i + 1])
      <4>1. /\ i + 1 \in 1 .. n /\ G[i] = H[i + 1] /\ G[i + 1] = H[i + 1 + 1]
            /\ kbd'.bytes[i] = kbd.bytes[i + 1]
        BY <1>2, <3>1
      <4> QED BY <2>3, <4>1, Zenon
    <3> HIDE DEF G
    <3> QED BY <2>3, <2>5, <3>1, <3>2, <3>3, Zenon DEF Path
  <2> QED BY <2>5, <2>6, Zenon
<1> QED BY <1>6, <1>7, Zenon DEF KbdInv

\* One or two bytes more.
LEMMA BytesAfter ==
  ASSUME NEW q \in Seq(Codes), NEW c \in Codes
  PROVE  /\ q \o <<c>> \in Seq(Codes) /\ Len(q \o <<c>>) = Len(q) + 1 /\ (q \o <<c>>)[Len(q) + 1] = c
         /\ \A i \in 1 .. Len(q) : (q \o <<c>>)[i] = q[i]
         /\ q \o <<Lead, c>> \in Seq(Codes) /\ Len(q \o <<Lead, c>>) = Len(q) + 2
         /\ (q \o <<Lead, c>>)[Len(q) + 1] = Lead /\ (q \o <<Lead, c>>)[Len(q) + 2] = c
         /\ \A i \in 1 .. Len(q) : (q \o <<Lead, c>>)[i] = q[i]
<1>1. Lead \in Codes
  BY DEF Codes
<1>2. /\ <<c>> \in Seq(Codes) /\ Len(<<c>>) = 1 /\ <<c>>[1] = c
      /\ <<Lead, c>> \in Seq(Codes) /\ Len(<<Lead, c>>) = 2 /\ <<Lead, c>>[1] = Lead /\ <<Lead, c>>[2] = c
  BY <1>1
<1>3. Len(q) \in Nat
  OBVIOUS
<1>4. /\ q \o <<c>> \in Seq(Codes) /\ Len(q \o <<c>>) = Len(q) + 1
      /\ \A i \in 1 .. (Len(q) + 1) : (q \o <<c>>)[i] = IF i <= Len(q) THEN q[i] ELSE <<c>>[i - Len(q)]
  BY <1>2, ConcatProperties
<1>5. /\ q \o <<Lead, c>> \in Seq(Codes) /\ Len(q \o <<Lead, c>>) = Len(q) + 2
      /\ \A i \in 1 .. (Len(q) + 2) :
           (q \o <<Lead, c>>)[i] = IF i <= Len(q) THEN q[i] ELSE <<Lead, c>>[i - Len(q)]
  BY <1>2, ConcatProperties
<1> HIDE DEF Lead
<1>6. /\ (q \o <<c>>)[Len(q) + 1] = c /\ \A i \in 1 .. Len(q) : (q \o <<c>>)[i] = q[i]
  BY <1>2, <1>3, <1>4
<1>7. /\ (q \o <<Lead, c>>)[Len(q) + 1] = Lead /\ (q \o <<Lead, c>>)[Len(q) + 2] = c
  BY <1>2, <1>3, <1>5
<1>8. \A i \in 1 .. Len(q) : (q \o <<Lead, c>>)[i] = q[i]
  BY <1>3, <1>5
<1> QED BY <1>4, <1>5, <1>6, <1>7, <1>8

\* The code of a key, with what the keys mean now.
CodeOf(k, up) == [e0 |-> FALSE, key |-> k, up |-> up, want |-> MeantBy(kbd.held, kbd.locked)]

\* The keys as they are.
KeysNow(s) == [held |-> s.held, locked |-> s.locked, e0 |-> FALSE]

\* What a key sends.
LEMMA SendIs ==
  ASSUME NEW k \in Keys, NEW up \in BOOLEAN, KbdTypeOK(kbd)
  PROVE  /\ CodeOf(k, up) \in Codes
         /\ Send(k, up) = kbd.bytes \o (IF k \in Extended THEN <<Lead, CodeOf(k, up)>> ELSE <<CodeOf(k, up)>>)
         /\ Send(k, up) \in Seq(Codes)
<1>1. MeantBy(kbd.held, kbd.locked) \in SUBSET Modifiers
  BY DEF MeantBy, Modifiers
<1>2. CodeOf(k, up) \in Codes
  BY <1>1 DEF CodeOf, Codes
<1>3. Send(k, up) = kbd.bytes \o (IF k \in Extended THEN <<Lead, CodeOf(k, up)>> ELSE <<CodeOf(k, up)>>)
  BY DEF Send, Lead, CodeOf, MeantBy, Meant
<1> QED BY <1>2, <1>3, BytesAfter DEF KbdTypeOK

\* Two states after a path, and one.
TwoAfter(H, n, a, b) == [i \in 1 .. (n + 3) |-> IF i <= n + 1 THEN H[i] ELSE IF i = n + 2 THEN a ELSE b]
OneAfter(H, n, b) == [i \in 1 .. (n + 2) |-> IF i <= n + 1 THEN H[i] ELSE b]

LongerBy2(G, H, n, a, b) ==
    /\ G \in [1 .. (n + 3) -> KeyStates] /\ \A i \in 1 .. (n + 1) : G[i] = H[i]
    /\ G[n + 2] = a /\ G[n + 3] = b
LongerBy1(G, H, n, b) ==
    /\ G \in [1 .. (n + 2) -> KeyStates] /\ \A i \in 1 .. (n + 1) : G[i] = H[i]
    /\ G[n + 2] = b

\* The states of the path stay at their places, and the two new ones follow.
LEMMA TwoAfterIs ==
  ASSUME NEW n \in Nat, NEW H \in [1 .. (n + 1) -> KeyStates], NEW a \in KeyStates, NEW b \in KeyStates
  PROVE  LongerBy2(TwoAfter(H, n, a, b), H, n, a, b)
  BY DEF TwoAfter, LongerBy2

\* The states of the path stay at their places, and the new one follows.
LEMMA OneAfterIs ==
  ASSUME NEW n \in Nat, NEW H \in [1 .. (n + 1) -> KeyStates], NEW b \in KeyStates
  PROVE  LongerBy1(OneAfter(H, n, b), H, n, b)
  BY DEF OneAfter, LongerBy1

\* The places of a path, and the steps between them.
LEMMA Places ==
  ASSUME NEW n \in Nat
  PROVE  /\ n + 2 + 1 = n + 3 /\ n + 1 + 1 = n + 2 /\ 1 \in 1 .. (n + 1) /\ n + 1 \in 1 .. (n + 1)
         /\ \A i \in 1 .. n : i \in 1 .. (n + 1) /\ i + 1 \in 1 .. (n + 1)
         /\ \A i \in 1 .. (n + 1) : i \in 1 .. n \/ i = n + 1
         /\ \A i \in 1 .. (n + 2) : i \in 1 .. n \/ i = n + 1 \/ i = n + 2
  OBVIOUS

\* Bytes that a key sends lengthen the path.
LEMMA PathGrows ==
  ASSUME KbdTypeOK(kbd), NEW H, Path(H, kbd), NEW k \in Keys, NEW up \in BOOLEAN, NEW s, KbdTypeOK(s),
         s.bytes = Send(k, up), KeyPasses(KeysNow(kbd), CodeOf(k, up), KeysNow(s)),
         s.in_e0 = kbd.in_e0, s.caps = kbd.caps, s.alt = kbd.alt,
         s.shift = kbd.shift, s.ctrl = kbd.ctrl, s.cmd = kbd.cmd
  PROVE  \E G : Path(G, s)
<1> DEFINE q == kbd.bytes
           n == Len(q)
           c == CodeOf(k, up)
           now == KeysNow(kbd)
           then == KeysNow(s)
           mid == [held |-> kbd.held, locked |-> kbd.locked, e0 |-> TRUE]
<1>1. /\ q \in Seq(Codes) /\ n \in Nat /\ c \in Codes
      /\ now \in KeyStates /\ then \in KeyStates /\ mid \in KeyStates
  <2>1. c \in Codes
    BY SendIs, Zenon
  <2>2. /\ kbd.held \in SUBSET Keys /\ kbd.locked \in BOOLEAN /\ q \in Seq(Codes)
        /\ s.held \in SUBSET Keys /\ s.locked \in BOOLEAN
    BY Zenon DEF KbdTypeOK
  <2>3. now \in KeyStates /\ then \in KeyStates /\ mid \in KeyStates
    BY <2>2 DEF KeysNow, KeyStates
  <2>4. n \in Nat
    BY <2>2
  <2> QED BY <2>1, <2>2, <2>3, <2>4, Zenon
<1>2. /\ H \in [1 .. (n + 1) -> KeyStates] /\ H[n + 1] = now /\ Agree(H[1], kbd)
      /\ \A i \in 1 .. n : Passes(H[i], q[i], H[i + 1])
  BY DEF Path, KeysNow
<1>3. /\ now.e0 = FALSE /\ mid.e0 = TRUE /\ then.e0 = FALSE
      /\ mid.held = now.held /\ mid.locked = now.locked
      /\ now.held = kbd.held /\ now.locked = kbd.locked
      /\ c.e0 = FALSE /\ c.key = k /\ c.want = MeantBy(kbd.held, kbd.locked)
      /\ Lead.e0 = TRUE /\ Lead.key = ""
      /\ KeyPasses(now, c, then)
  BY DEF KeysNow, CodeOf, Lead
<1> HIDE DEF c, now, then, mid
<1>4. KeyPasses(mid, c, then)
  BY <1>3, Zenon DEF KeyPasses
<1>5. Agree(H[1], s)
  BY <1>2, Zenon DEF Agree
<1>6. CASE k \in Extended
  <2> DEFINE z == q \o <<Lead, c>>
  <2>1. /\ s.bytes = z /\ Len(z) = n + 2 /\ z[n + 1] = Lead /\ z[n + 2] = c
        /\ \A i \in 1 .. n : z[i] = q[i]
    BY <1>1, <1>6, SendIs, BytesAfter, Zenon DEF c
  <2> DEFINE G == TwoAfter(H, n, mid, then)
  <2>g. /\ G \in [1 .. (n + 3) -> KeyStates] /\ \A i \in 1 .. (n + 1) : G[i] = H[i]
        /\ G[n + 2] = mid /\ G[n + 3] = then
    <3>1. n \in Nat /\ H \in [1 .. (n + 1) -> KeyStates] /\ mid \in KeyStates /\ then \in KeyStates
      BY <1>1, <1>2, Zenon
    <3> HIDE DEF n
    <3>2. LongerBy2(G, H, n, mid, then)
      BY <3>1, TwoAfterIs, Zenon
    <3> QED BY <3>2, Zenon DEF LongerBy2
  <2> HIDE DEF G, z
  <2>2. /\ G \in [1 .. (n + 3) -> KeyStates] /\ G[n + 2] = mid /\ G[n + 3] = then
        /\ n + 2 + 1 = n + 3 /\ n + 1 + 1 = n + 2 /\ G[1] = H[1] /\ G[n + 1] = now
    BY <1>1, <1>2, <2>g, Places, Zenon
  <2>3. ASSUME NEW i \in 1 .. (n + 2) PROVE Passes(G[i], z[i], G[i + 1])
    <3>1. CASE i \in 1 .. n
      <4>1. G[i] = H[i] /\ G[i + 1] = H[i + 1] /\ z[i] = q[i]
        BY <1>1, <2>1, <2>g, <3>1, Places, Zenon
      <4> QED BY <1>2, <3>1, <4>1, Zenon
    <3>2. CASE i = n + 1
      BY <1>3, <2>1, <2>2, <3>2, Zenon DEF Passes
    <3>3. CASE i = n + 2
      <4>1. G[i] = mid /\ G[i + 1] = then /\ z[i] = c
        BY <2>1, <2>2, <3>3, Zenon
      <4>2. Passes(mid, c, then)
        BY <1>3, <1>4, <1>6, Zenon DEF Passes
      <4> QED BY <4>1, <4>2
    <3> QED BY <1>1, <3>1, <3>2, <3>3, Places, Zenon
  <2>4. Path(G, s)
    <3>1. Len(s.bytes) + 1 = n + 3
      BY <1>1, <2>1
    <3> QED BY <1>5, <2>1, <2>2, <2>3, <3>1, Zenon DEF Path, then, KeysNow
  <2> QED BY <2>4
<1>7. CASE k \notin Extended
  <2> DEFINE z == q \o <<c>>
  <2>1. /\ s.bytes = z /\ Len(z) = n + 1 /\ z[n + 1] = c /\ \A i \in 1 .. n : z[i] = q[i]
    BY <1>1, <1>7, SendIs, BytesAfter, ZenonT(40) DEF c
  <2> DEFINE G == OneAfter(H, n, then)
  <2>g. /\ G \in [1 .. (n + 2) -> KeyStates] /\ \A i \in 1 .. (n + 1) : G[i] = H[i]
        /\ G[n + 2] = then
    <3>1. n \in Nat /\ H \in [1 .. (n + 1) -> KeyStates] /\ then \in KeyStates
      BY <1>1, <1>2, Zenon
    <3> HIDE DEF n
    <3>2. LongerBy1(G, H, n, then)
      BY <3>1, OneAfterIs, Zenon
    <3> QED BY <3>2, Zenon DEF LongerBy1
  <2> HIDE DEF G, z
  <2>2. /\ G \in [1 .. (n + 2) -> KeyStates] /\ G[n + 2] = then
        /\ n + 1 + 1 = n + 2 /\ G[1] = H[1] /\ G[n + 1] = now
    BY <1>1, <1>2, <2>g, Places, Zenon
  <2>3. ASSUME NEW i \in 1 .. (n + 1) PROVE Passes(G[i], z[i], G[i + 1])
    <3>1. CASE i \in 1 .. n
      <4>1. G[i] = H[i] /\ G[i + 1] = H[i + 1] /\ z[i] = q[i]
        BY <1>1, <2>1, <2>g, <3>1, Places, Zenon
      <4> QED BY <1>2, <3>1, <4>1, Zenon
    <3>2. CASE i = n + 1
      BY <1>3, <1>7, <2>1, <2>2, <3>2, Zenon DEF Passes
    <3> QED BY <1>1, <3>1, <3>2, Places, Zenon
  <2>4. Path(G, s)
    <3>1. Len(s.bytes) + 1 = n + 2
      BY <1>1, <2>1
    <3> QED BY <1>5, <2>1, <2>2, <2>3, <3>1, Zenon DEF Path, then, KeysNow
  <2> QED BY <2>4
<1> QED BY <1>6, <1>7

\* Striking, releasing and repeating keep the invariant.
LEMMA KeyInv ==
  ASSUME KbdInv, NEW k \in Keys, Strike(k) \/ LetGo(k) \/ Repeats(k)
  PROVE  KbdInv'
<1>1. KbdTypeOK(kbd)
  BY DEF KbdInv
<1>2. PICK up \in BOOLEAN : up = (LetGo(k) /\ ~Strike(k) /\ ~Repeats(k))
  BY Zenon
<1> DEFINE S(held, locked, repeated, v) ==
      /\ DOMAIN kbd' = DOMAIN kbd /\ kbd'.held = held /\ kbd'.locked = locked
      /\ kbd'.repeated = repeated /\ kbd'.bytes = Send(k, v)
      /\ kbd'.got = kbd.got /\ kbd'.want = kbd.want
      /\ kbd'.in_e0 = kbd.in_e0 /\ kbd'.caps = kbd.caps /\ kbd'.alt = kbd.alt
      /\ kbd'.shift = kbd.shift /\ kbd'.ctrl = kbd.ctrl /\ kbd'.cmd = kbd.cmd
<1>3. ASSUME NEW held \in SUBSET Keys, NEW locked \in BOOLEAN, NEW repeated \in BOOLEAN, NEW v \in BOOLEAN,
             S(held, locked, repeated, v), kbd.repeated = TRUE => repeated = TRUE,
             repeated = FALSE => KeyPasses(KeysNow(kbd), CodeOf(k, v), KeysNow(kbd'))
      PROVE  KbdInv'
  <2>1. KbdTypeOK(kbd)'
    BY <1>1, <1>3, SendIs, Zenon DEF KbdTypeOK
  <2>2. ASSUME repeated = FALSE PROVE kbd'.got = kbd'.want /\ \E G : Path(G, kbd')
    <3>1. kbd.repeated = FALSE
      BY <1>1, <1>3, <2>2, Zenon DEF KbdTypeOK
    <3>2. PICK H : Path(H, kbd)
      BY <3>1 DEF KbdInv
    <3>3. \E G : Path(G, kbd')
      BY <1>1, <1>3, <2>1, <2>2, <3>2, PathGrows, Zenon
    <3> QED BY <1>3, <3>1, <3>3, Zenon DEF KbdInv
  <2> QED BY <1>3, <2>1, <2>2, Zenon DEF KbdInv
<1>4. CASE Strike(k)
  <2> DEFINE locked == IF KeyKind[k] = "caps" THEN ~kbd.locked ELSE kbd.locked
             held == kbd.held \cup {k}
  <2>1. S(held, locked, kbd.repeated, FALSE) /\ k \notin kbd.held
    BY <1>1, <1>4 DEF Strike, KbdTypeOK
  <2>2. held \in SUBSET Keys /\ locked \in BOOLEAN /\ kbd.repeated \in BOOLEAN
    BY <1>1, Zenon DEF KbdTypeOK
  <2>3. KeyPasses(KeysNow(kbd), CodeOf(k, FALSE), KeysNow(kbd'))
    BY <2>1, Zenon DEF KeyPasses, KeysNow, CodeOf
  <2> QED BY <1>3, <2>1, <2>2, <2>3, Zenon
<1>5. CASE LetGo(k)
  <2>1. S(kbd.held \ {k}, kbd.locked, kbd.repeated, TRUE) /\ k \in kbd.held
    BY <1>1, <1>5 DEF LetGo, KbdTypeOK
  <2>2. kbd.held \ {k} \in SUBSET Keys /\ kbd.locked \in BOOLEAN /\ kbd.repeated \in BOOLEAN
    BY <1>1 DEF KbdTypeOK
  <2>3. KeyPasses(KeysNow(kbd), CodeOf(k, TRUE), KeysNow(kbd'))
    BY <2>1, Zenon DEF KeyPasses, KeysNow, CodeOf
  <2> QED BY <1>3, <2>1, <2>2, <2>3, Zenon
<1>6. CASE Repeats(k)
  <2> DEFINE repeated == kbd.repeated \/ KeyKind[k] # "char"
  <2>1. S(kbd.held, kbd.locked, repeated, FALSE) /\ k \in kbd.held
    BY <1>1, <1>6 DEF Repeats, KbdTypeOK
  <2>2. kbd.held \in SUBSET Keys /\ kbd.locked \in BOOLEAN /\ repeated \in BOOLEAN
    BY <1>1 DEF KbdTypeOK
  <2>3. repeated = FALSE => KeyPasses(KeysNow(kbd), CodeOf(k, FALSE), KeysNow(kbd'))
    BY <2>1, Zenon DEF KeyPasses, KeysNow, CodeOf
  <2>4. kbd.repeated = TRUE => repeated = TRUE
    OBVIOUS
  <2> QED BY <1>3, <2>1, <2>2, <2>3, <2>4, Zenon
<1> QED BY <1>4, <1>5, <1>6

\* Whatever keys are struck, let go and repeated while the interrupts come late, a
\* character carries the modifiers that were held when it was struck, unless a
\* modifier has repeated.
THEOREM ModifiersCarried == KbdSpec => []CarriesModifiers
<1>1. KbdInit => KbdInv
  <2> SUFFICES ASSUME KbdInit PROVE KbdInv
    OBVIOUS
  <2>1. KbdTypeOK(kbd) /\ kbd.got = kbd.want /\ kbd.bytes = <<>>
    BY DEF KbdInit, KbdTypeOK
  <2> DEFINE h == [held |-> {}, locked |-> FALSE, e0 |-> FALSE]
             H == [i \in 1 .. 1 |-> h]
  <2>2. H[1] = h /\ H \in [1 .. 1 -> KeyStates]
    BY DEF KeyStates
  <2>3. Agree(h, kbd)
    BY DEF KbdInit, Agree, Two
  <2>4. kbd.held = {} /\ kbd.locked = FALSE /\ Len(kbd.bytes) = 0
    BY DEF KbdInit
  <2>5. Path(H, kbd)
    <3> HIDE DEF H
    <3>1. Len(kbd.bytes) + 1 = 1 /\ 1 .. Len(kbd.bytes) = {}
      BY <2>4
    <3> QED BY <2>2, <2>3, <2>4, <3>1, Zenon DEF Path
  <2> QED BY <2>1, <2>5 DEF KbdInv
<1>2. KbdInv /\ [KbdNext]_kbd => KbdInv'
  <2> SUFFICES ASSUME KbdInv, [KbdNext]_kbd PROVE KbdInv'
    OBVIOUS
  <2>1. CASE UNCHANGED kbd
    BY <2>1 DEF KbdInv
  <2> QED BY <2>1, InterruptInv, KeyInv DEF KbdNext
<1>3. KbdInv => CarriesModifiers
  BY DEF KbdInv, KbdTypeOK, CarriesModifiers
<1> QED BY <1>1, <1>2, <1>3, PTL DEF KbdSpec

-----------------------------------------------------------------------------
(***************************************************************************)
(* The PS/2 driver.  As long as everything was written and answered in     *)
(* time, the place of the driver tells what the buffer holds and which     *)
(* ports have their handler; and where no port holds a keyboard with       *)
(* translation, no byte that names one is ever in the buffer.              *)
(***************************************************************************)
Ps2Spec == Ps2Init /\ [][Ps2Next]_ps2

Early == {"dis1", "dis2", "config", "rconfig", "wconfig", "wvalue", "test1", "rtest1", "test2", "rtest2"}
Keyboards == {"kbd1", "kbd2"}
Found(s) == {p \in Ports : s.kind[p] \in Keyboards}

Ps2TypeOK(s) ==
  /\ DOMAIN s = {"pc", "port", "sent", "ans", "kind", "two", "second", "first", "snd", "handlers",
                 "keys", "quiet"}
  /\ s.pc \in Pcs /\ s.port \in {0, 1, 2} /\ s.kind \in [Ports -> Kinds]
  /\ s.two \in BOOLEAN /\ s.second \in BOOLEAN /\ s.quiet \in BOOLEAN /\ s.handlers \subseteq Ports
  /\ s.pc \in Early => s.port = 0
  /\ s.pc \notin Early \cup {"done"} => s.port \in Ports

\* The bytes of a machine without a translating keyboard.
PlainBytes == {0, 1, 3, 30, 32, 131, 170, 171, 250, 254}
Plain(s) ==
  /\ s.ans \in Seq(PlainBytes) /\ s.first \in PlainBytes \cup {-1} /\ s.snd \in PlainBytes \cup {-1}
  /\ s.pc \notin {"scs", "get", "code", "last"} /\ s.handlers = {}

\* The buffer, by the place of the driver.
Buffer(s) ==
  /\ s.pc \notin {"rconfig", "rtest1", "rtest2", "success", "first", "second", "code"} => s.ans = <<>>
  /\ s.pc = "rconfig" => s.ans \in {<<0>>, <<32>>}
  /\ s.pc \in {"rtest1", "rtest2"} => s.ans \in {<<0>>, <<1>>}
  /\ s.pc = "success" => s.ans = <<SUCCESS>>
  /\ s.pc = "first" => s.ans = Identity[s.kind[s.port]]
  /\ s.pc = "second" => s.ans = Tail(Identity[s.kind[s.port]]) /\ s.first = Identity[s.kind[s.port]][1]
  /\ s.pc = "code" => s.ans = <<65>>

\* The device that is asked, and the handlers there are.
Progress(s) ==
  /\ s.pc \in {"success", "disable", "extra", "identify", "first", "second", "enscan"} =>
       s.kind[s.port] # "none"
  /\ s.pc = "enscan" => (DeviceKind(s) \in Translated <=> s.kind[s.port] \in Keyboards)
  /\ s.pc \in {"scs", "get", "code", "last"} => s.kind[s.port] \in Keyboards
  /\ s.pc \in Early => s.handlers = {}
  /\ s.pc \notin Early \cup {"done", "last"} => s.handlers = {p \in Found(s) : p < s.port}
  /\ s.pc = "last" => s.handlers = {p \in Found(s) : p <= s.port}
  /\ s.port = 2 => s.second = TRUE
  /\ s.pc = "done" => s.handlers = {p \in Found(s) : p = 2 => s.second = TRUE}

\* The invariant of a state.
SInv(s) ==
  /\ Ps2TypeOK(s) /\ (Found(s) = {} => Plain(s))
  /\ s.quiet = TRUE => Buffer(s) /\ Progress(s)

\* Where the driver goes from each place.
Turns(s, b) ==
  /\ s.pc = "rconfig" => ps2_init(s, b) = IF b = -1 THEN [s EXCEPT !.pc = "done"]
                           ELSE [s EXCEPT !.pc = "wconfig", !.two = (b \div 32) % 2 = 1]
  /\ s.pc = "rtest1" => ps2_init(s, b) = Tested(s)
  /\ s.pc = "rtest2" => ps2_init(s, b) = [s EXCEPT !.pc = "enable", !.port = 1, !.second = b = 0]
  /\ s.pc = "flush" => ps2_init(s, b) = [s EXCEPT !.pc = "reset"]
  /\ s.pc = "reset" => ps2_init(s, b) = IF b % 256 = ACKNOWLEDGE THEN [s EXCEPT !.pc = "success"]
                                        ELSE NextPort(s)
  /\ s.pc = "success" => ps2_init(s, b) = IF b % 256 = SUCCESS THEN [s EXCEPT !.pc = "disable"]
                                          ELSE NextPort(s)
  /\ s.pc = "disable" => ps2_init(s, b) = [s EXCEPT !.pc = "extra"]
  /\ s.pc = "extra" => ps2_init(s, b) = [s EXCEPT !.pc = "identify"]
  /\ s.pc = "identify" => ps2_init(s, b) = IF b = ACKNOWLEDGE THEN [s EXCEPT !.pc = "first"]
                                           ELSE NextPort(s)
  /\ s.pc = "first" => ps2_init(s, b) = [s EXCEPT !.pc = "second", !.first = b]
  /\ s.pc = "second" => ps2_init(s, b) = [s EXCEPT !.pc = "enscan", !.snd = b]
  /\ s.pc = "enscan" => ps2_init(s, b) = IF DeviceKind(s) \in Translated
                                         THEN [s EXCEPT !.pc = "scs"] ELSE NextPort(s)
  /\ s.pc = "scs" => ps2_init(s, b) = [s EXCEPT !.pc = "get"]
  /\ s.pc = "get" => ps2_init(s, b) = IF b = ACKNOWLEDGE THEN [s EXCEPT !.pc = "code"] ELSE NextPort(s)
  /\ s.pc = "code" => ps2_init(s, b) = IF b = 65
                         THEN [s EXCEPT !.pc = "last", !.handlers = @ \cup {s.port}] ELSE NextPort(s)
  /\ s.pc = "last" => ps2_init(s, b) = NextPort(s)
  
\* It goes there.
LEMMA Goes ==
  ASSUME NEW s, NEW b
  PROVE  Turns(s, b)
<1> DEFINE R == ps2_init(s, b)
<1>1. /\ s.pc = "rconfig" => R = IF b = -1 THEN [s EXCEPT !.pc = "done"]
                                  ELSE [s EXCEPT !.pc = "wconfig", !.two = (b \div 32) % 2 = 1]
      /\ s.pc = "rtest1" => R = Tested(s)
      /\ s.pc = "rtest2" => R = [s EXCEPT !.pc = "enable", !.port = 1, !.second = b = 0]
      /\ s.pc \notin {"rconfig", "rtest1", "rtest2"} => R = ps2_init_port(s, b)
  BY DEF ps2_init
<1> HIDE DEF R
<1>2. /\ s.pc = "flush" => ps2_init_port(s, b) = [s EXCEPT !.pc = "reset"]
      /\ s.pc = "reset" => ps2_init_port(s, b) = IF b % 256 = ACKNOWLEDGE THEN [s EXCEPT !.pc = "success"]
                                               ELSE NextPort(s)
      /\ s.pc = "success" => ps2_init_port(s, b) = IF b % 256 = SUCCESS THEN [s EXCEPT !.pc = "disable"]
                                                 ELSE NextPort(s)
      /\ s.pc \in {"scs", "get", "code", "last"} => ps2_init_port(s, b) = ps2_keyboard_init(s, b)
      /\ s.pc \in {"disable", "extra", "identify", "first", "second", "enscan"} =>
           ps2_init_port(s, b) = ps2_get_device_kind(s, b)
  BY DEF ps2_init_port
<1>3. /\ s.pc = "disable" => ps2_get_device_kind(s, b) = [s EXCEPT !.pc = "extra"]
      /\ s.pc = "extra" => ps2_get_device_kind(s, b) = [s EXCEPT !.pc = "identify"]
      /\ s.pc = "identify" => ps2_get_device_kind(s, b) = IF b = ACKNOWLEDGE THEN [s EXCEPT !.pc = "first"]
                                                  ELSE NextPort(s)
      /\ s.pc = "first" => ps2_get_device_kind(s, b) = [s EXCEPT !.pc = "second", !.first = b]
      /\ s.pc = "second" => ps2_get_device_kind(s, b) = [s EXCEPT !.pc = "enscan", !.snd = b]
      /\ s.pc = "enscan" => ps2_get_device_kind(s, b) = IF DeviceKind(s) \in Translated
                                                THEN [s EXCEPT !.pc = "scs"] ELSE NextPort(s)
  BY DEF ps2_get_device_kind
<1>4. /\ s.pc = "scs" => ps2_keyboard_init(s, b) = [s EXCEPT !.pc = "get"]
      /\ s.pc = "get" => ps2_keyboard_init(s, b) =
                           IF b = ACKNOWLEDGE THEN [s EXCEPT !.pc = "code"] ELSE NextPort(s)
      /\ s.pc = "code" => ps2_keyboard_init(s, b) = IF b = 65
                                THEN [s EXCEPT !.pc = "last", !.handlers = @ \cup {s.port}] ELSE NextPort(s)
      /\ s.pc = "last" => ps2_keyboard_init(s, b) = NextPort(s)
  BY DEF ps2_keyboard_init
<1>5. /\ s.pc \in {"flush", "reset", "success"} => R = ps2_init_port(s, b)
      /\ s.pc \in {"scs", "get", "code", "last"} => R = ps2_keyboard_init(s, b)
      /\ s.pc \in {"disable", "extra", "identify", "first", "second", "enscan"} => R = ps2_get_device_kind(s, b)
  BY <1>1, <1>2
<1> QED BY <1>1, <1>2, <1>3, <1>4, <1>5 DEF R, Turns

\* The places that read a byte or wait for the answer of a device.
Answered == Reads \cup DOMAIN Byte

\* Those places by name.
LEMMA AnsweredIs ==
  Answered = {"rconfig", "rtest1", "rtest2", "flush", "success", "extra", "first", "second", "code", "last",
              "reset", "disable", "identify", "enscan", "scs", "get"}
BY Zenon DEF Answered, Reads, Byte

\* All places by name.
LEMMA PcsAre ==
  Pcs = {"dis1", "dis2", "config", "wconfig", "wvalue", "test1", "test2", "enable", "done",
         "rconfig", "rtest1", "rtest2", "flush", "success", "extra", "first", "second", "code", "last",
         "reset", "disable", "identify", "enscan", "scs", "get"}
BY DEF Pcs, Commands, Reads, Byte

\* The driver goes to the second port or ends.
LEMMA NextPortIs ==
  ASSUME NEW s, Ps2TypeOK(s), s.port \in Ports
  PROVE  /\ Ps2TypeOK(NextPort(s))
         /\ \A f \in DOMAIN s \ {"pc", "port"} : NextPort(s)[f] = s[f]
         /\ \/ s.port = 1 /\ s.second = TRUE /\ NextPort(s).pc = "enable" /\ NextPort(s).port = 2
            \/ ~(s.port = 1 /\ s.second = TRUE) /\ NextPort(s).pc = "done" /\ NextPort(s).port = s.port
<1>1. CASE s.port = 1 /\ s.second = TRUE
  <2>1. NextPort(s) = [s EXCEPT !.pc = "enable", !.port = 2]
    BY <1>1 DEF NextPort
  <2> QED BY <1>1, <2>1, PcsAre, Zenon DEF Ps2TypeOK, Ports, Early
<1>2. CASE ~(s.port = 1 /\ s.second = TRUE)
  <2>1. NextPort(s) = [s EXCEPT !.pc = "done"]
    BY <1>2 DEF NextPort, Ps2TypeOK
  <2> QED BY <1>2, <2>1, PcsAre DEF Ps2TypeOK, Ports, Early
<1> QED BY <1>1, <1>2, Zenon

\* What the byte decides is the place, and a few fields.
LEMMA TypeAfter ==
  ASSUME NEW s, Ps2TypeOK(s), s.pc \in Answered, NEW b
  PROVE  /\ Ps2TypeOK(ps2_init(s, b))
         /\ ps2_init(s, b).kind = s.kind /\ ps2_init(s, b).quiet = s.quiet /\ ps2_init(s, b).ans = s.ans
<1> DEFINE r == ps2_init(s, b)
           OK(x) == Ps2TypeOK(x) /\ x.kind = s.kind /\ x.quiet = s.quiet /\ x.ans = s.ans
<1>0. Turns(s, b)
  BY Goes
<1>1. s.pc \notin Early => OK(NextPort(s))
  <2>1. s.pc \notin Early => s.port \in Ports
    BY AnsweredIs DEF Ps2TypeOK
  <2>2. s.pc \notin Early => Ps2TypeOK(NextPort(s))
    BY <2>1, NextPortIs, Zenon
  <2>3. s.pc \notin Early => \A f \in DOMAIN s \ {"pc", "port"} : NextPort(s)[f] = s[f]
    BY <2>1, NextPortIs, Zenon
  <2> QED BY <2>2, <2>3, Zenon DEF Ps2TypeOK
<1>2. CASE s.pc \in {"rconfig", "rtest1", "rtest2"}
  <2>1. s.port = 0
    BY <1>2 DEF Ps2TypeOK, Early
  <2>2. \/ r = [s EXCEPT !.pc = "done"]
        \/ r = [s EXCEPT !.pc = "wconfig", !.two = (b \div 32) % 2 = 1]
        \/ r = [s EXCEPT !.pc = "test2"]
        \/ r = [s EXCEPT !.pc = "enable", !.port = 1]
        \/ r = [s EXCEPT !.pc = "enable", !.port = 1, !.second = b = 0]
    BY <1>0, <1>2 DEF Tested, Turns
  <2>3. /\ {"done", "wconfig", "test2", "enable"} \subseteq Pcs
        /\ {"wconfig", "test2"} \subseteq Early /\ "enable" \notin Early /\ 1 \in Ports
    BY PcsAre DEF Early, Ports
  <2> HIDE DEF r
  <2>4. CASE r = [s EXCEPT !.pc = "done"]
    BY <2>1, <2>3, <2>4 DEF Ps2TypeOK, r
  <2>5. CASE r = [s EXCEPT !.pc = "wconfig", !.two = (b \div 32) % 2 = 1]
    BY <2>1, <2>3, <2>5 DEF Ps2TypeOK, r
  <2>6. CASE r = [s EXCEPT !.pc = "test2"]
    BY <2>1, <2>3, <2>6 DEF Ps2TypeOK, r
  <2>7. CASE r = [s EXCEPT !.pc = "enable", !.port = 1]
    BY <2>1, <2>3, <2>7 DEF Ps2TypeOK, r
  <2>8. CASE r = [s EXCEPT !.pc = "enable", !.port = 1, !.second = b = 0]
    BY <2>1, <2>3, <2>8 DEF Ps2TypeOK, r
  <2> QED BY <2>2, <2>4, <2>5, <2>6, <2>7, <2>8
<1>3. CASE s.pc \in {"flush", "success", "extra", "first", "second", "code", "last",
                     "reset", "disable", "identify", "enscan", "scs", "get"}
  <2>1. s.port \in Ports
    BY <1>3 DEF Ps2TypeOK, Early
  <2>2. \/ r = NextPort(s)
        \/ \E p \in Pcs \ (Early \cup {"done"}) :
             \/ r = [s EXCEPT !.pc = p] \/ r = [s EXCEPT !.pc = p, !.first = b]
             \/ r = [s EXCEPT !.pc = p, !.snd = b] \/ r = [s EXCEPT !.pc = p, !.handlers = @ \cup {s.port}]
    <3>1. {"reset", "success", "disable", "extra", "identify", "first", "second", "enscan", "scs", "get",
           "code", "last"} \subseteq Pcs \ (Early \cup {"done"})
      BY PcsAre DEF Early
    <3>2. CASE s.pc \in {"flush", "disable", "extra"}
      BY <1>0, <3>1, <3>2, ZenonT(40) DEF Turns
    <3>6. CASE s.pc \in {"reset", "success", "identify"}
      <4>1. \/ r = [s EXCEPT !.pc = "success"] \/ r = [s EXCEPT !.pc = "disable"]
            \/ r = [s EXCEPT !.pc = "first"] \/ r = NextPort(s)
        BY <1>0, <3>6 DEF Turns
      <4> QED BY <3>1, <4>1, Zenon
    <3>3. CASE s.pc \in {"first", "second"}
      BY <1>0, <3>1, <3>3, Zenon DEF Turns
    <3>5. CASE s.pc \in {"enscan", "scs"}
      BY <1>0, <3>1, <3>5, ZenonT(40) DEF Turns
    <3>4. CASE s.pc = "get" \/ s.pc = "last"
      <4>1. r = [s EXCEPT !.pc = "code"] \/ r = NextPort(s)
        BY <1>0, <3>4 DEF Turns
      <4> QED BY <3>1, <4>1, Zenon
    <3>7. CASE s.pc = "code"
      <4>1. r = [s EXCEPT !.pc = "last", !.handlers = @ \cup {s.port}] \/ r = NextPort(s)
        BY <1>0, <3>7 DEF Turns
      <4> QED BY <3>1, <4>1, Zenon
    <3> QED BY <1>3, <3>2, <3>3, <3>4, <3>5, <3>6, <3>7, Zenon
  <2> HIDE DEF r
  <2>3. CASE r = NextPort(s)
    BY <1>1, <1>3, <2>3 DEF r, Early
  <2>4. CASE \E p \in Pcs \ (Early \cup {"done"}) :
             \/ r = [s EXCEPT !.pc = p] \/ r = [s EXCEPT !.pc = p, !.first = b]
             \/ r = [s EXCEPT !.pc = p, !.snd = b] \/ r = [s EXCEPT !.pc = p, !.handlers = @ \cup {s.port}]
    <3>1. PICK p \in Pcs \ (Early \cup {"done"}) :
             \/ r = [s EXCEPT !.pc = p] \/ r = [s EXCEPT !.pc = p, !.first = b]
             \/ r = [s EXCEPT !.pc = p, !.snd = b] \/ r = [s EXCEPT !.pc = p, !.handlers = @ \cup {s.port}]
      BY <2>4, Zenon
    <3>2. /\ DOMAIN r = DOMAIN s /\ r.pc = p /\ r.port = s.port /\ r.kind = s.kind /\ r.two = s.two
          /\ r.second = s.second /\ r.quiet = s.quiet /\ r.ans = s.ans
          /\ r.handlers \subseteq s.handlers \cup {s.port}
      BY <3>1, Zenon DEF Ps2TypeOK
    <3>3. Ps2TypeOK(r)
      BY <2>1, <3>2 DEF Ps2TypeOK
    <3> QED BY <3>2, <3>3 DEF r
  <2> QED BY <2>2, <2>3, <2>4, Zenon
<1> QED BY <1>2, <1>3, AnsweredIs

\* Two plain bytes name no keyboard with translation.
LEMMA PlainKind ==
  ASSUME NEW s, s.first \in PlainBytes \cup {-1}, s.snd \in PlainBytes \cup {-1}
  PROVE  DeviceKind(s) \notin Translated
<1>1. /\ s.first \in Int /\ s.first <= 254 /\ s.snd \in Int /\ s.snd # 65 /\ s.snd # 193
      /\ s.snd # -1 => 0 <= s.snd /\ s.snd <= 254
  BY DEF PlainBytes
<1>2. ASSUME NEW a \in Int, NEW c \in Int, 0 <= c, c <= 254, c # 65, c # 193
      PROVE  a * 256 + c # 171 * 256 + 65 /\ a * 256 + c # 171 * 256 + 193
  BY <1>2
<1>3. ASSUME s.snd # -1 PROVE DeviceKind(s) \notin Translated
  <2>1. s.first * 256 + s.snd # 171 * 256 + 65 /\ s.first * 256 + s.snd # 171 * 256 + 193
    BY <1>1, <1>2, <1>3
  <2> QED BY <1>3, <2>1 DEF DeviceKind, Translated
<1>4. ASSUME s.snd = -1 PROVE DeviceKind(s) \notin Translated
  BY <1>1, <1>4 DEF DeviceKind, Translated
<1> QED BY <1>3, <1>4

\* Plain bytes lead to plain states.
LEMMA PlainAfter ==
  ASSUME NEW s, Ps2TypeOK(s), Plain(s), s.pc \in Answered, NEW b,
         s.pc \in {"first", "second"} => b \in PlainBytes \cup {-1}
  PROVE  Plain(ps2_init(s, b))
<1> DEFINE r == ps2_init(s, b)
<1>1. s.pc \notin Early => Plain(NextPort(s))
  <2>1. ASSUME s.pc \notin Early PROVE Plain(NextPort(s))
    <3>1. s.port \in Ports
      BY <2>1, AnsweredIs DEF Ps2TypeOK
    <3>2. /\ NextPort(s).pc \in {"enable", "done"} /\ NextPort(s).ans = s.ans /\ NextPort(s).first = s.first
          /\ NextPort(s).snd = s.snd /\ NextPort(s).handlers = s.handlers
      <4>1. NextPort(s).pc \in {"enable", "done"}
        BY <3>1, NextPortIs, Zenon
      <4>2. \A f \in DOMAIN s \ {"pc", "port"} : NextPort(s)[f] = s[f]
        BY <3>1, NextPortIs, Zenon
      <4> QED BY <4>1, <4>2 DEF Ps2TypeOK
    <3> QED BY <3>2 DEF Plain
  <2> QED BY <2>1
<1>2. s.pc \notin {"scs", "get", "code", "last"} /\ DeviceKind(s) \notin Translated
  BY PlainKind DEF Plain
<1>3. \/ r = NextPort(s) /\ s.pc \notin Early
      \/ \E p \in Pcs \ {"scs", "get", "code", "last"} :
           \/ r = [s EXCEPT !.pc = p] \/ r = [s EXCEPT !.pc = p, !.port = 1]
           \/ r = [s EXCEPT !.pc = p, !.two = (b \div 32) % 2 = 1]
           \/ r = [s EXCEPT !.pc = p, !.port = 1, !.second = b = 0]
           \/ s.pc = "first" /\ r = [s EXCEPT !.pc = p, !.first = b]
           \/ s.pc = "second" /\ r = [s EXCEPT !.pc = p, !.snd = b]
  <2>1. {"done", "wconfig", "test2", "enable", "reset", "success", "disable", "extra", "identify", "first",
         "second", "enscan"} \subseteq Pcs \ {"scs", "get", "code", "last"}
    BY PcsAre
  <2>2. Turns(s, b)
    BY Goes
  <2>3. CASE s.pc \in {"rconfig", "rtest1", "rtest2"}
    BY <2>1, <2>2, <2>3, ZenonT(40) DEF Turns, Tested
  <2>4. CASE s.pc \in {"flush", "reset", "success", "disable", "extra", "identify", "first", "second", "enscan"}
    <3>1. s.pc \notin Early
      BY <2>4 DEF Early
    <3> QED BY <1>2, <2>1, <2>2, <2>4, <3>1, ZenonT(40) DEF Turns
  <2> QED BY <1>2, <2>3, <2>4, AnsweredIs, Zenon
<1> HIDE DEF r
<1>4. CASE \E p \in Pcs \ {"scs", "get", "code", "last"} :
           \/ r = [s EXCEPT !.pc = p] \/ r = [s EXCEPT !.pc = p, !.port = 1]
           \/ r = [s EXCEPT !.pc = p, !.two = (b \div 32) % 2 = 1]
           \/ r = [s EXCEPT !.pc = p, !.port = 1, !.second = b = 0]
           \/ s.pc = "first" /\ r = [s EXCEPT !.pc = p, !.first = b]
           \/ s.pc = "second" /\ r = [s EXCEPT !.pc = p, !.snd = b]
  <2>1. /\ r.pc \notin {"scs", "get", "code", "last"} /\ r.ans = s.ans /\ r.handlers = s.handlers
        /\ r.first = s.first \/ (r.first = b /\ s.pc = "first")
        /\ r.snd = s.snd \/ (r.snd = b /\ s.pc = "second")
    BY <1>4, ZenonT(40) DEF Ps2TypeOK
  <2> QED BY <2>1, Zenon DEF Plain, r
<1> QED BY <1>1, <1>3, <1>4, Zenon DEF r

\* A port is left with its handler in place.
LEMMA QuietNext ==
  ASSUME NEW s, Ps2TypeOK(s), s.port \in Ports, s.ans = <<>>, s.handlers = {p \in Found(s) : p <= s.port},
         s.port = 2 => s.second = TRUE
  PROVE  Buffer(NextPort(s)) /\ Progress(NextPort(s))
<1> DEFINE r == NextPort(s)
<1>1. /\ r.ans = <<>> /\ r.kind = s.kind /\ r.handlers = s.handlers /\ r.second = s.second
      /\ Found(r) = Found(s)
  <2>1. \A f \in DOMAIN s \ {"pc", "port"} : r[f] = s[f]
    BY NextPortIs, Zenon
  <2> QED BY <2>1 DEF Ps2TypeOK, Found
<1>2. \/ s.port = 1 /\ s.second = TRUE /\ r.pc = "enable" /\ r.port = 2
      \/ ~(s.port = 1 /\ s.second = TRUE) /\ r.pc = "done" /\ r.port = s.port
  BY NextPortIs, Zenon
<1>3. Found(s) \subseteq {1, 2} /\ s.port \in {1, 2} /\ s.second \in BOOLEAN
  BY DEF Found, Ports, Ps2TypeOK
<1> HIDE DEF r
<1>4. Buffer(r)
  BY <1>1, <1>2, Zenon DEF Buffer
<1>5. CASE s.port = 1 /\ s.second = TRUE
  <2>1. {p \in Found(s) : p <= 1} = {p \in Found(s) : p < 2}
    BY <1>3
  <2> QED BY <1>1, <1>2, <1>4, <1>5, <2>1, Zenon DEF Progress, Early, r
<1>6. CASE ~(s.port = 1 /\ s.second = TRUE)
  <2>1. {p \in Found(s) : p <= s.port} = {p \in Found(s) : p = 2 => s.second = TRUE}
    BY <1>3, <1>6
  <2> QED BY <1>1, <1>2, <1>3, <1>4, <1>6, <2>1, Zenon DEF Progress, Early, r
<1> QED BY <1>5, <1>6, Zenon

\* What a read in time returns and leaves.
InTime(q) == IF q = <<>> THEN TIMEOUT ELSE q[1]
Rest(q) == IF q = <<>> THEN <<>> ELSE Tail(q)

\* The identities.
LEMMA IdentityIs ==
  /\ DOMAIN Identity = {"none", "mouse", "wheel", "kbd", "kbd1", "kbd2"}
  /\ Identity["none"] = <<>> /\ Identity["mouse"] = <<0>> /\ Identity["wheel"] = <<3>>
  /\ Identity["kbd"] = <<171, 131>> /\ Identity["kbd1"] = <<171, 65>> /\ Identity["kbd2"] = <<171, 193>>
BY DEF Identity

\* The kind of a device that has told its identity in time.
LEMMA KindTold ==
  ASSUME NEW k \in DOMAIN Identity \ {"none"}, NEW s, s.first = Identity[k][1],
         s.snd = InTime(Tail(Identity[k]))
  PROVE  (DeviceKind(s) \in Translated <=> k \in Keyboards) /\ Rest(Tail(Identity[k])) = <<>>
<1>1. CASE k = "mouse"
  <2>1. s.first = 0 /\ s.snd = -1 /\ Rest(Tail(Identity[k])) = <<>>
    BY <1>1, IdentityIs DEF InTime, Rest, TIMEOUT
  <2> QED BY <1>1, <2>1 DEF DeviceKind, Translated, Keyboards
<1>2. CASE k = "wheel"
  <2>1. s.first = 3 /\ s.snd = -1 /\ Rest(Tail(Identity[k])) = <<>>
    BY <1>2, IdentityIs DEF InTime, Rest, TIMEOUT
  <2> QED BY <1>2, <2>1 DEF DeviceKind, Translated, Keyboards
<1>3. CASE k = "kbd"
  <2>1. s.first = 171 /\ s.snd = 131 /\ Rest(Tail(Identity[k])) = <<>>
    BY <1>3, IdentityIs DEF InTime, Rest
  <2> QED BY <1>3, <2>1 DEF DeviceKind, Translated, Keyboards
<1>4. CASE k = "kbd1"
  <2>1. s.first = 171 /\ s.snd = 65 /\ Rest(Tail(Identity[k])) = <<>>
    BY <1>4, IdentityIs DEF InTime, Rest
  <2> QED BY <1>4, <2>1 DEF DeviceKind, Translated, Keyboards
<1>5. CASE k = "kbd2"
  <2>1. s.first = 171 /\ s.snd = 193 /\ Rest(Tail(Identity[k])) = <<>>
    BY <1>5, IdentityIs DEF InTime, Rest
  <2> QED BY <1>5, <2>1 DEF DeviceKind, Translated, Keyboards
<1> QED BY <1>1, <1>2, <1>3, <1>4, <1>5, IdentityIs

\* Sequences of one and two bytes that are read in time.
LEMMA InTimeOne ==
  ASSUME NEW c, NEW d
  PROVE  /\ InTime(<<>>) = -1 /\ Rest(<<>>) = <<>> /\ InTime(<<c>>) = c /\ Rest(<<c>>) = <<>>
         /\ InTime(<<c, d>>) = c /\ Rest(<<c, d>>) = <<d>>
<1>1. Tail(<<c>>) = <<>> /\ Tail(<<c, d>>) = <<d>> /\ <<c>> # <<>> /\ <<c, d>> # <<>>
  OBVIOUS
<1> QED BY <1>1 DEF InTime, Rest, TIMEOUT

\* s is o but for the buffer and the count of sends.
SameBut(s, o) == DOMAIN s = DOMAIN o /\ \A f \in DOMAIN o \ {"ans", "sent"} : s[f] = o[f]

\* The fields by name.
LEMMA SameFields ==
  ASSUME NEW o, Ps2TypeOK(o), NEW s, SameBut(s, o)
  PROVE  /\ s.pc = o.pc /\ s.port = o.port /\ s.kind = o.kind /\ s.second = o.second
         /\ s.two = o.two /\ s.handlers = o.handlers /\ s.first = o.first /\ s.snd = o.snd
         /\ s.quiet = o.quiet /\ Found(s) = Found(o) /\ Ps2TypeOK(s)
<1>1. /\ s.pc = o.pc /\ s.port = o.port /\ s.kind = o.kind /\ s.second = o.second
      /\ s.two = o.two /\ s.handlers = o.handlers /\ s.first = o.first /\ s.snd = o.snd
      /\ s.quiet = o.quiet /\ DOMAIN s = DOMAIN o
  BY DEF SameBut, Ps2TypeOK
<1> QED BY <1>1, Zenon DEF Found, Ps2TypeOK

\* What the driver expects in the buffer before it reads the next byte.
BufferShape(r) ==
  \/ r.ans = <<>> /\ r.pc \in {"wconfig", "test2", "enable", "extra", "scs", "get"}
  \/ r.ans = <<SUCCESS>> /\ r.pc = "success"
  \/ r.ans = Identity[r.kind[r.port]] /\ r.pc = "first"
  \/ r.ans = <<65>> /\ r.pc = "code"

\* States in which the buffer is what the driver expects.
LEMMA BufferIs ==
  ASSUME NEW r, BufferShape(r)
  PROVE  Buffer(r)
  BY DEF Buffer, BufferShape

\* States in which the handlers are in step: before the first port, and at one.
LEMMA ProgressEarly ==
  ASSUME NEW r, r.pc \in {"wconfig", "test2"}, r.handlers = {}, r.port = 0
  PROVE  Progress(r)
  BY DEF Progress, Early

\* A state inside the driver's loop over the ports, the handlers those found so far.
FoundBefore(r) == r.handlers = {p \in Found(r) : p < r.port}
AtPort(r) ==
    /\ r.pc \in {"enable", "success", "extra", "first", "scs", "get", "code"}
    /\ FoundBefore(r)
    /\ r.port = 2 => r.second = TRUE
    /\ r.pc # "enable" => r.kind[r.port] # "none"
    /\ r.pc \in {"scs", "get", "code"} => r.kind[r.port] \in Keyboards

\* The driver inside its loop over the ports has its handlers in step.
LEMMA ProgressAt ==
  ASSUME NEW r, AtPort(r)
  PROVE  Progress(r)
  BY DEF Progress, Early, AtPort, FoundBefore

\* A read in time keeps the buffer and the handlers in step with the driver.
LEMMA QuietRead ==
  ASSUME NEW o, Ps2TypeOK(o), Buffer(o), Progress(o), o.pc \in Reads,
         NEW s, SameBut(s, o), s.ans = Rest(o.ans)
  PROVE  Buffer(ps2_init(s, InTime(o.ans))) /\ Progress(ps2_init(s, InTime(o.ans)))
<1> DEFINE b == InTime(o.ans)
           r == ps2_init(s, b)
           K == o.kind[o.port]
<1>1. /\ DOMAIN s = DOMAIN o /\ s.pc = o.pc /\ s.port = o.port /\ s.kind = o.kind /\ s.second = o.second
      /\ s.two = o.two /\ s.handlers = o.handlers /\ s.first = o.first /\ s.snd = o.snd
      /\ s.ans = Rest(o.ans) /\ Found(s) = Found(o)
  BY SameFields DEF SameBut
<1>2. Ps2TypeOK(s)
  BY SameFields
<1>3. Turns(s, b)
  BY Goes
<1>4. o.pc \notin Early => o.port \in Ports /\ K \in Kinds /\ K \in DOMAIN Identity /\ s.kind[s.port] = K
  BY <1>1, KindsAssumption, Zenon DEF Ps2TypeOK, Reads
<1>5. Found(s) \subseteq {1, 2} /\ o.port \in {0, 1, 2} /\ o.second \in BOOLEAN /\ o.two \in BOOLEAN
  BY DEF Found, Ports, Ps2TypeOK
<1> HIDE DEF b, r, K
<1>6. CASE o.pc = "rconfig"
  <2>1. b \in {0, 32} /\ s.ans = <<>>
    <3>1. o.ans \in {<<0>>, <<32>>}
      BY <1>6, Zenon DEF Buffer
    <3>2. InTime(<<0>>) = 0 /\ InTime(<<32>>) = 32 /\ Rest(<<0>>) = <<>> /\ Rest(<<32>>) = <<>>
      BY InTimeOne, Zenon
    <3> QED BY <1>1, <3>1, <3>2, Zenon DEF b
  <2>2. r = [s EXCEPT !.pc = "wconfig", !.two = (b \div 32) % 2 = 1]
    BY <1>1, <1>3, <1>6, <2>1 DEF Turns, r
  <2>3. r.pc = "wconfig" /\ r.ans = <<>> /\ r.handlers = o.handlers /\ r.port = o.port
    BY <1>1, <2>1, <2>2 DEF Ps2TypeOK
  <2>4. o.handlers = {} /\ o.port = 0
    BY <1>6, Zenon DEF Progress, Ps2TypeOK, Early
  <2>5. Buffer(r)
    BY <2>3, BufferIs, Zenon DEF BufferShape
  <2>6. Progress(r)
    BY <2>3, <2>4, ProgressEarly
  <2> QED BY <2>5, <2>6, Zenon DEF r, b
<1>7. CASE o.pc \in {"rtest1", "rtest2"}
  <2>1. s.ans = <<>>
    <3>1. o.ans \in {<<0>>, <<1>>}
      BY <1>7, Zenon DEF Buffer
    <3>2. Rest(<<0>>) = <<>> /\ Rest(<<1>>) = <<>>
      BY InTimeOne, Zenon
    <3> QED BY <1>1, <3>1, <3>2, Zenon
  <2>2. \/ r = [s EXCEPT !.pc = "test2"] \/ r = [s EXCEPT !.pc = "enable", !.port = 1]
        \/ r = [s EXCEPT !.pc = "enable", !.port = 1, !.second = b = 0]
    BY <1>1, <1>3, <1>7 DEF Turns, Tested, r
  <2>3. o.handlers = {} /\ o.port = 0
    BY <1>7, Zenon DEF Progress, Ps2TypeOK, Early
  <2>4. /\ r.ans = <<>> /\ r.handlers = {} /\ Found(r) = Found(s)
        /\ (r.pc = "test2" /\ r.port = 0) \/ (r.pc = "enable" /\ r.port = 1)
    BY <1>1, <2>1, <2>2, <2>3, ZenonT(40) DEF Ps2TypeOK, Found
  <2>5. {p \in Found(s) : p < 1} = {}
    BY <1>5
  <2>6. Buffer(r)
    BY <2>4, Zenon DEF Buffer
  <2>7. CASE r.pc = "test2" /\ r.port = 0
    <3>1. Progress(r)
      BY <2>4, <2>7, ProgressEarly
    <3> QED BY <2>6, <3>1 DEF r, b
  <2>8. CASE r.pc = "enable" /\ r.port = 1
    <3>1. FoundBefore(r)
      BY <2>4, <2>5, <2>8, Zenon DEF FoundBefore
    <3>2. Progress(r)
      <4>1. AtPort(r)
        BY <2>8, <3>1 DEF AtPort
      <4> QED BY <4>1, ProgressAt, Zenon
    <3> QED BY <2>6, <3>2 DEF r, b
  <2> QED BY <2>4, <2>7, <2>8, Zenon
<1>8. CASE o.pc \in {"flush", "success", "extra"}
  <2>1. s.ans = <<>> /\ (o.pc = "success" => b = SUCCESS)
    <3>1. IF o.pc = "success" THEN o.ans = <<SUCCESS>> ELSE o.ans = <<>>
      BY <1>8, Zenon DEF Buffer
    <3>2. InTime(<<SUCCESS>>) = SUCCESS /\ Rest(<<SUCCESS>>) = <<>> /\ Rest(<<>>) = <<>>
      BY InTimeOne, Zenon
    <3> QED BY <1>1, <3>1, <3>2, Zenon DEF b
  <2>2. SUCCESS % 256 = SUCCESS
    BY DEF SUCCESS
  <2>3. \/ o.pc = "flush" /\ r = [s EXCEPT !.pc = "reset"]
        \/ o.pc = "success" /\ r = [s EXCEPT !.pc = "disable"]
        \/ o.pc = "extra" /\ r = [s EXCEPT !.pc = "identify"]
    BY <1>1, <1>3, <1>8, <2>1, <2>2 DEF Turns, r
  <2>4. /\ r.ans = <<>> /\ r.handlers = o.handlers /\ Found(r) = Found(o) /\ r.port = o.port
        /\ r.kind = o.kind /\ r.second = o.second
        /\ r.pc = "reset" \/ (r.pc \in {"disable", "identify"} /\ o.pc \in {"success", "extra"})
    BY <1>1, <2>1, <2>3 DEF Ps2TypeOK, Found
  <2> QED BY <1>8, <2>4, Zenon DEF Buffer, Progress, Early, r, b
<1>9. CASE o.pc = "first"
  <2>1. o.ans = Identity[K] /\ K # "none"
    BY <1>9, Zenon DEF Buffer, Progress, K
  <2>2. Identity[K] # <<>>
    BY <1>4, <1>9, <2>1, IdentityIs DEF Early
  <2>3. b = Identity[K][1] /\ s.ans = Tail(Identity[K])
    BY <1>1, <2>1, <2>2 DEF InTime, Rest, b
  <2>4. r = [s EXCEPT !.pc = "second", !.first = b]
    BY <1>1, <1>3, <1>9 DEF Turns, r
  <2>5. /\ r.ans = Tail(Identity[K]) /\ r.first = Identity[K][1] /\ r.handlers = o.handlers
        /\ Found(r) = Found(o) /\ r.port = o.port
        /\ r.kind = o.kind /\ r.second = o.second /\ r.pc = "second"
    BY <1>1, <2>3, <2>4 DEF Ps2TypeOK, Found
  <2>6. r.kind[r.port] = K
    BY <2>5, Zenon DEF K
  <2> QED BY <1>9, <2>1, <2>5, <2>6, Zenon DEF Buffer, Progress, Early, r, b
<1>10. CASE o.pc = "second"
  <2>1. o.ans = Tail(Identity[K]) /\ o.first = Identity[K][1] /\ K # "none"
    BY <1>10, Zenon DEF Buffer, Progress, K
  <2>2. r = [s EXCEPT !.pc = "enscan", !.snd = b]
    BY <1>1, <1>3, <1>10 DEF Turns, r
  <2>3. /\ r.ans = Rest(o.ans) /\ r.first = o.first /\ r.snd = b /\ r.handlers = o.handlers
        /\ Found(r) = Found(o) /\ r.port = o.port
        /\ r.kind = o.kind /\ r.second = o.second /\ r.pc = "enscan"
    BY <1>1, <2>2 DEF Ps2TypeOK, Found
  <2>4. r.snd = InTime(Tail(Identity[K])) /\ r.first = Identity[K][1]
    BY <2>1, <2>3, Zenon DEF b
  <2>5. (DeviceKind(r) \in Translated <=> K \in Keyboards) /\ Rest(Tail(Identity[K])) = <<>>
    BY <1>4, <1>10, <2>1, <2>4, KindTold, Zenon DEF Early
  <2>6. r.kind[r.port] = K /\ r.ans = <<>>
    BY <2>1, <2>3, <2>5, Zenon DEF K
  <2> QED BY <1>10, <2>1, <2>3, <2>5, <2>6, Zenon DEF Buffer, Progress, Early, r, b
<1>11. CASE o.pc = "code"
  <2>1. s.ans = <<>> /\ b = 65 /\ K \in Keyboards /\ o.port \in Ports
    <3>1. o.ans = <<65>>
      BY <1>11, Zenon DEF Buffer
    <3>2. InTime(<<65>>) = 65 /\ Rest(<<65>>) = <<>>
      BY InTimeOne, Zenon
    <3>3. K \in Keyboards /\ o.port \in Ports
      BY <1>4, <1>11, Zenon DEF Progress, K, Early
    <3> QED BY <1>1, <3>1, <3>2, <3>3, Zenon DEF b
  <2>2. r = [s EXCEPT !.pc = "last", !.handlers = @ \cup {s.port}]
    BY <1>1, <1>3, <1>11, <2>1 DEF Turns, r
  <2>3. /\ r.ans = <<>> /\ r.handlers = o.handlers \cup {o.port} /\ Found(r) = Found(o) /\ r.port = o.port
        /\ r.kind = o.kind /\ r.second = o.second /\ r.pc = "last"
    BY <1>1, <2>1, <2>2 DEF Ps2TypeOK, Found
  <2>4. o.port \in Found(o) /\ o.handlers = {p \in Found(o) : p < o.port}
    BY <1>11, <2>1, Zenon DEF Found, Progress, Early, K
  <2>5. r.handlers = {p \in Found(r) : p <= r.port}
    BY <1>1, <1>5, <2>3, <2>4
  <2> QED BY <1>11, <2>1, <2>3, <2>5, Zenon DEF Buffer, Progress, Early, r, b, K
<1>12. CASE o.pc = "last"
  <2>1. s.ans = <<>>
    <3>1. o.ans = <<>>
      BY <1>12 DEF Buffer
    <3> QED BY <1>1, <3>1, InTimeOne, Zenon
  <2>2. r = NextPort(s)
    BY <1>1, <1>3, <1>12 DEF Turns, r
  <2>3. s.handlers = {p \in Found(s) : p <= s.port} /\ (s.port = 2 => s.second = TRUE) /\ s.port \in Ports
    BY <1>1, <1>4, <1>12, Zenon DEF Progress, Early
  <2>4. Buffer(NextPort(s)) /\ Progress(NextPort(s))
    BY <1>2, <2>1, <2>3, QuietNext, Zenon
  <2> QED BY <2>2, <2>4 DEF r, b
<1> QED BY <1>6, <1>7, <1>8, <1>9, <1>10, <1>11, <1>12, Zenon DEF Reads

\* What is read in time from a device after a byte that it does not ask for again.
Told(o, b, a) ==
  IF o.kind[o.port] = "none" THEN b = -1 /\ a = <<>>
  ELSE /\ b = ACKNOWLEDGE
       /\ a = CASE o.pc = "reset" -> <<SUCCESS>> [] o.pc = "identify" -> Identity[o.kind[o.port]]
                [] o.pc = "get" -> <<65>> [] OTHER -> <<>>

\* An answer in time keeps the buffer and the handlers in step with the driver.
LEMMA QuietSend ==
  ASSUME NEW o, Ps2TypeOK(o), Buffer(o), Progress(o), o.pc \in DOMAIN Byte,
         NEW s, SameBut(s, o), NEW b, Told(o, b, s.ans)
  PROVE  Buffer(ps2_init(s, b)) /\ Progress(ps2_init(s, b))
<1> DEFINE r == ps2_init(s, b)
           K == o.kind[o.port]
<1>1. /\ DOMAIN s = DOMAIN o /\ s.pc = o.pc /\ s.port = o.port /\ s.kind = o.kind /\ s.second = o.second
      /\ s.handlers = o.handlers /\ s.first = o.first /\ s.snd = o.snd /\ Found(s) = Found(o)
  BY SameFields, Zenon DEF SameBut
<1>2. Ps2TypeOK(s)
  BY SameFields, Zenon
<1>3. Turns(s, b)
  BY Goes, Zenon
<1>4. o.pc \in {"reset", "disable", "identify", "enscan", "scs", "get"}
  BY Zenon DEF Byte
<1>5. o.pc \notin Early \cup {"done", "last"}
  BY <1>4 DEF Early
<1>6. /\ o.port \in Ports /\ o.port \in {1, 2} /\ Found(o) \subseteq {1, 2} /\ o.second \in BOOLEAN
      /\ (o.port = 2 => o.second = TRUE) /\ o.handlers = {p \in Found(o) : p < o.port}
      /\ (o.port \in Found(o) <=> K \in Keyboards)
  BY <1>5, Zenon DEF Ps2TypeOK, Ports, Found, Progress
<1>7. ASSUME K \notin Keyboards, s.ans = <<>> PROVE Buffer(NextPort(s)) /\ Progress(NextPort(s))
  <2>1. {p \in Found(o) : p < o.port} = {p \in Found(o) : p <= o.port}
    BY <1>6, <1>7
  <2> QED BY <1>1, <1>2, <1>6, <1>7, <2>1, QuietNext, Zenon
<1>8. ASSUME NEW p, r = [s EXCEPT !.pc = p]
      PROVE  /\ r.pc = p /\ r.ans = s.ans /\ r.handlers = o.handlers /\ Found(r) = Found(o)
             /\ r.port = o.port /\ r.kind = o.kind /\ r.second = o.second /\ r.kind[r.port] = K
             /\ r.first = o.first /\ r.snd = o.snd
  BY <1>1, <1>8 DEF Ps2TypeOK, Found
<1> HIDE DEF r, K
<1>9. ASSUME NEW p \in {"success", "extra", "first", "scs", "get", "code"}, r = [s EXCEPT !.pc = p],
              K # "none", p \in {"scs", "get", "code"} => K \in Keyboards
       PROVE  Progress(r)
  <2>1. r.pc = p /\ FoundBefore(r) /\ (r.port = 2 => r.second = TRUE)
    BY <1>6, <1>8, <1>9, Zenon DEF FoundBefore
  <2>2. r.kind[r.port] = K
    BY <1>8, <1>9, Zenon
  <2>3. AtPort(r)
    BY <1>9, <2>1, <2>2, Zenon DEF AtPort
  <2> QED BY <2>3, ProgressAt, Zenon
<1>10. CASE o.pc = "reset" /\ K = "none"
  <2>1. b = -1 /\ s.ans = <<>> /\ K \notin Keyboards
    BY <1>10 DEF Told, K, Keyboards
  <2>2. (-1) % 256 # ACKNOWLEDGE
    BY DEF ACKNOWLEDGE
  <2>3. r = NextPort(s)
    BY <1>1, <1>3, <1>10, <2>1, <2>2 DEF Turns, r
  <2> QED BY <1>7, <2>1, <2>3, Zenon DEF r
<1>11. CASE o.pc = "reset" /\ K # "none"
  <2>1. b = ACKNOWLEDGE /\ s.ans = <<SUCCESS>>
    BY <1>11 DEF Told, K
  <2>2. ACKNOWLEDGE % 256 = ACKNOWLEDGE
    BY DEF ACKNOWLEDGE
  <2>3. r = [s EXCEPT !.pc = "success"]
    BY <1>1, <1>3, <1>11, <2>1, <2>2 DEF Turns, r
  <2>4. Buffer(r)
    BY <1>8, <2>1, <2>3, BufferIs, Zenon DEF BufferShape
  <2> QED BY <1>11, <1>9, <2>3, <2>4, Zenon DEF r
<1>12. CASE o.pc = "disable"
  <2>1. b = ACKNOWLEDGE /\ s.ans = <<>> /\ K # "none"
    BY <1>12 DEF Told, K, Progress
  <2>2. r = [s EXCEPT !.pc = "extra"]
    BY <1>1, <1>3, <1>12 DEF Turns, r
  <2>3. Buffer(r)
    BY <1>8, <2>1, <2>2, BufferIs, Zenon DEF BufferShape
  <2>4. K # "none"
    BY <2>1, <2>2 DEF Keyboards
  <2> QED BY <1>9, <2>1, <2>2, <2>3, <2>4, Zenon DEF r
<1>13. CASE o.pc = "identify"
  <2>1. b = ACKNOWLEDGE /\ s.ans = Identity[K] /\ K # "none"
    BY <1>13 DEF Told, K, Progress
  <2>2. r = [s EXCEPT !.pc = "first"]
    BY <1>1, <1>3, <1>13, <2>1 DEF Turns, r
  <2>3. Buffer(r)
    BY <1>8, <2>1, <2>2, BufferIs, ZenonT(40) DEF BufferShape
  <2>4. K # "none"
    BY <2>1, <2>2 DEF Keyboards
  <2> QED BY <1>9, <2>1, <2>2, <2>3, <2>4, Zenon DEF r
<1>14. CASE o.pc = "enscan"
  <2>1. s.ans = <<>> /\ (DeviceKind(o) \in Translated <=> K \in Keyboards) /\ DeviceKind(s) = DeviceKind(o)
    BY <1>1, <1>14 DEF Told, K, Progress, DeviceKind
  <2>2. CASE K \in Keyboards
    <3>1. r = [s EXCEPT !.pc = "scs"]
      BY <1>1, <1>3, <1>14, <2>1, <2>2 DEF Turns, r
    <3>3. Buffer(r)
      BY <1>8, <2>1, <2>2, <3>1, BufferIs, Zenon DEF BufferShape
    <3>4. K # "none"
      BY <2>1, <2>2, <3>1 DEF Keyboards
    <3> QED BY <1>9, <2>1, <2>2, <3>1, <3>3, <3>4, Zenon DEF r
  <2>3. CASE K \notin Keyboards
    <3>1. r = NextPort(s)
      BY <1>1, <1>3, <1>14, <2>1, <2>3 DEF Turns, r
    <3> QED BY <1>7, <2>1, <2>3, <3>1, Zenon DEF r
  <2> QED BY <2>2, <2>3, Zenon
<1>15. CASE o.pc = "scs"
  <2>1. s.ans = <<>> /\ K \in Keyboards
    BY <1>15 DEF Told, K, Progress
  <2>2. r = [s EXCEPT !.pc = "get"]
    BY <1>1, <1>3, <1>15 DEF Turns, r
  <2>3. Buffer(r)
    BY <1>8, <2>1, <2>2, BufferIs, Zenon DEF BufferShape
  <2>4. K # "none"
    BY <2>1, <2>2 DEF Keyboards
  <2> QED BY <1>9, <2>1, <2>2, <2>3, <2>4, Zenon DEF r
<1>16. CASE o.pc = "get"
  <2>1. b = ACKNOWLEDGE /\ s.ans = <<65>> /\ K \in Keyboards
    BY <1>16 DEF Told, K, Progress, Keyboards
  <2>2. r = [s EXCEPT !.pc = "code"]
    BY <1>1, <1>3, <1>16, <2>1 DEF Turns, r
  <2>3. Buffer(r)
    BY <1>8, <2>1, <2>2, BufferIs, Zenon DEF BufferShape
  <2>4. K # "none"
    BY <2>1, <2>2 DEF Keyboards
  <2> QED BY <1>9, <2>1, <2>2, <2>3, <2>4, Zenon DEF r
<1> QED BY <1>4, <1>10, <1>11, <1>12, <1>13, <1>14, <1>15, <1>16, Zenon

\* A read returns a byte in time, or nothing.
LEMMA ReadsInTime ==
  ASSUME NEW q, NEW x \in ps2_read_input_byte(q)
  PROVE  /\ \/ x.byte = TIMEOUT /\ x.ans = q
            \/ q # <<>> /\ x.byte = q[1] /\ x.ans = Tail(q)
         /\ ~Late(x) => x.byte = InTime(q) /\ x.ans = Rest(q)
<1>1. \/ x.byte = TIMEOUT /\ x.ans = q
      \/ q # <<>> /\ x.byte = q[1] /\ x.ans = Tail(q)
  BY DEF ps2_read_input_byte
<1>2. ASSUME ~Late(x) PROVE x.byte = InTime(q) /\ x.ans = Rest(q)
  BY <1>1, <1>2, Zenon DEF Late, InTime, Rest
<1> QED BY <1>1, <1>2

\* What is read of plain bytes is plain.
LEMMA ReadsPlain ==
  ASSUME NEW q \in Seq(PlainBytes), NEW x \in ps2_read_input_byte(q)
  PROVE  x.byte \in PlainBytes \cup {-1} /\ x.ans \in Seq(PlainBytes)
<1>1. \/ x.byte = TIMEOUT /\ x.ans = q
      \/ q # <<>> /\ x.byte = q[1] /\ x.ans = Tail(q)
  BY ReadsInTime
<1>2. q # <<>> => q[1] \in PlainBytes /\ Tail(q) \in Seq(PlainBytes)
  OBVIOUS
<1> QED BY <1>1, <1>2, Zenon DEF TIMEOUT

\* The driver goes on with the byte it read into x.
LEMMA StepAfter ==
  ASSUME NEW x, Ps2TypeOK(x), x.pc \in Answered, NEW b,
         Found(x) = {} => Plain(x) /\ b \in PlainBytes \cup {-1, FAIL},
         Found(x) = {} /\ x.pc \in {"first", "second"} => b # FAIL,
         x.quiet = TRUE => Buffer(ps2_init(x, b)) /\ Progress(ps2_init(x, b))
  PROVE  SInv(ps2_init(x, b))
<1>1. Ps2TypeOK(ps2_init(x, b)) /\ ps2_init(x, b).kind = x.kind /\ ps2_init(x, b).quiet = x.quiet
  BY TypeAfter
<1>2. Found(ps2_init(x, b)) = Found(x)
  BY <1>1 DEF Found
<1>3. ASSUME Found(x) = {} PROVE Plain(ps2_init(x, b))
  BY <1>3, PlainAfter
<1> QED BY <1>1, <1>2, <1>3 DEF SInv

\* A read keeps the invariant.
LEMMA ReadInv == ASSUME SInv(ps2), ReadByte PROVE SInv(ps2')
<1>1. PICK y \in ps2_read_input_byte(ps2.ans) :
        ps2' = ps2_init([ps2 EXCEPT !.ans = y.ans, !.quiet = @ /\ ~Late(y)], y.byte)
  BY Zenon DEF ReadByte
<1>2. PICK x : x = [ps2 EXCEPT !.ans = y.ans, !.quiet = @ /\ ~Late(y)]
  OBVIOUS
<1>3. ps2' = ps2_init(x, y.byte)
  BY <1>1, <1>2
<1>4. PICK o : o = ps2
  OBVIOUS
<1>5. SInv(o) /\ Ps2TypeOK(o) /\ o.pc \in Reads /\ y \in ps2_read_input_byte(o.ans)
  BY <1>4 DEF SInv, ReadByte
<1>6. /\ DOMAIN x = DOMAIN o /\ x.ans = y.ans /\ x.quiet = (o.quiet /\ ~Late(y))
      /\ \A f \in DOMAIN o \ {"ans", "quiet"} : x[f] = o[f]
  BY <1>2, <1>4, <1>5, Zenon DEF Ps2TypeOK
<1> HIDE <1>4
<1>7. /\ x.pc = o.pc /\ x.port = o.port /\ x.kind = o.kind /\ x.second = o.second
      /\ x.two = o.two /\ x.handlers = o.handlers /\ x.first = o.first /\ x.snd = o.snd
      /\ Found(x) = Found(o)
  BY <1>5, <1>6, Zenon DEF Ps2TypeOK, Found
<1>8. Ps2TypeOK(x) /\ x.pc \in Answered
  BY <1>5, <1>6, <1>7, Zenon DEF Ps2TypeOK, Answered
<1>9. ASSUME Found(x) = {} PROVE Plain(x) /\ y.byte \in PlainBytes \cup {-1}
  <2>1. Plain(o)
    BY <1>5, <1>7, <1>9 DEF SInv
  <2>2. y.byte \in PlainBytes \cup {-1} /\ y.ans \in Seq(PlainBytes)
    BY <1>5, <2>1, ReadsPlain DEF Plain
  <2> QED BY <1>6, <1>7, <2>1, <2>2, Zenon DEF Plain
<1>10. -1 # FAIL /\ FAIL \notin PlainBytes
  BY DEF FAIL, PlainBytes
<1>11. ASSUME x.quiet = TRUE PROVE Buffer(ps2_init(x, y.byte)) /\ Progress(ps2_init(x, y.byte))
  <2>1. o.quiet = TRUE /\ ~Late(y)
    BY <1>5, <1>6, <1>11, Zenon DEF Ps2TypeOK
  <2>2. Buffer(o) /\ Progress(o)
    BY <1>5, <2>1 DEF SInv
  <2>3. y.byte = InTime(o.ans) /\ y.ans = Rest(o.ans)
    BY <1>5, <2>1, ReadsInTime, Zenon
  <2>4. SameBut(x, o)
    BY <1>6, <1>11, <2>1, Zenon DEF SameBut
  <2> QED BY <1>5, <1>6, <2>2, <2>3, <2>4, QuietRead, Zenon
<1>12. SInv(ps2_init(x, y.byte))
  BY <1>8, <1>9, <1>10, <1>11, StepAfter, Zenon
<1> QED BY <1>3, <1>12

\* An acknowledgement before other bytes.
LEMMA AfterAck ==
  ASSUME NEW c \in Nat, NEW t \in Seq(Nat)
  PROVE  InTime(<<c>> \o t) = c /\ Rest(<<c>> \o t) = t
<1>1. <<c>> \in Seq(Nat) /\ Len(<<c>>) = 1
  OBVIOUS
<1>2. PICK u : u = <<c>> \o t
  BY Zenon
<1>3. u \in Seq(Nat) /\ Len(u) = Len(t) + 1 /\ Len(t) \in Nat
  BY <1>1, <1>2
<1>4. u[1] = c /\ \A i \in 1 .. Len(t) : u[i + 1] = t[i]
  BY <1>1, <1>2
<1>5. u # <<>>
  BY <1>3
<1>6. Tail(u) \in Seq(Nat) /\ Len(Tail(u)) = Len(t) /\ \A i \in 1 .. Len(t) : Tail(u)[i] = t[i]
  BY <1>3, <1>4, <1>5
<1>7. Tail(u) = t
  BY <1>6, SeqEqual, Zenon
<1> QED BY <1>2, <1>4, <1>5, <1>7, Zenon DEF InTime, Rest

\* Identities are bytes; those of devices other than translating keyboards are plain.
LEMMA IdentityBytes ==
  ASSUME NEW k \in DOMAIN Identity
  PROVE  Identity[k] \in Seq(Nat) /\ (k \notin Keyboards => Identity[k] \in Seq(PlainBytes))
<1>1. 0 \in PlainBytes /\ 3 \in PlainBytes /\ 171 \in PlainBytes /\ 131 \in PlainBytes
  BY DEF PlainBytes
<1>2. /\ <<>> \in Seq(Nat) /\ <<0>> \in Seq(Nat) /\ <<3>> \in Seq(Nat)
      /\ <<171, 131>> \in Seq(Nat) /\ <<171, 65>> \in Seq(Nat) /\ <<171, 193>> \in Seq(Nat)
  OBVIOUS
<1>3. /\ <<>> \in Seq(PlainBytes) /\ <<0>> \in Seq(PlainBytes) /\ <<3>> \in Seq(PlainBytes)
      /\ <<171, 131>> \in Seq(PlainBytes)
  BY <1>1
<1>4. CASE k = "none"
  BY <1>2, <1>3, <1>4, IdentityIs DEF Keyboards
<1>5. CASE k = "mouse"
  BY <1>2, <1>3, <1>5, IdentityIs DEF Keyboards
<1>6. CASE k = "wheel"
  BY <1>2, <1>3, <1>6, IdentityIs DEF Keyboards
<1>7. CASE k = "kbd"
  BY <1>2, <1>3, <1>7, IdentityIs DEF Keyboards
<1>8. CASE k = "kbd1"
  BY <1>2, <1>3, <1>8, IdentityIs DEF Keyboards
<1>9. CASE k = "kbd2"
  BY <1>2, <1>3, <1>9, IdentityIs DEF Keyboards
<1> QED BY <1>4, <1>5, <1>6, <1>7, <1>8, <1>9, IdentityIs, Zenon

\* What a device says when it does not ask again.
Says(o) ==
  CASE o.pc = "reset"    -> <<ACKNOWLEDGE, SUCCESS>>
    [] o.pc = "identify" -> <<ACKNOWLEDGE>> \o Identity[o.kind[o.port]]
    [] o.pc = "get"      -> <<ACKNOWLEDGE, 65>>
    [] OTHER             -> <<ACKNOWLEDGE>>

\* The answers of a device.
LEMMA DeviceSays ==
  ASSUME NEW o, ps2 = o, NEW q \in Device(ps2.pc)
  PROVE  \/ o.kind[o.port] = "none" /\ q = <<>>
         \/ o.kind[o.port] # "none" /\ (q = <<RESEND>> \/ q = Says(o))
BY Zenon DEF Device, Says

\* Read in time, an answer is what Told says of it.
LEMMA SaysTold ==
  ASSUME NEW o, Ps2TypeOK(o), o.pc \in DOMAIN Byte
  PROVE  /\ o.kind[o.port] = "none" => Told(o, InTime(<<>>), Rest(<<>>))
         /\ o.kind[o.port] # "none" => Told(o, InTime(Says(o)), Rest(Says(o)))
<1>1. o.pc \in {"reset", "disable", "identify", "enscan", "scs", "get"}
  BY DEF Byte
<1>2. o.port \in Ports /\ o.kind[o.port] \in DOMAIN Identity
  BY <1>1, KindsAssumption DEF Ps2TypeOK, Early
<1>3. InTime(<<>>) = -1 /\ Rest(<<>>) = <<>>
  BY InTimeOne, Zenon
<1>4. /\ InTime(<<ACKNOWLEDGE, SUCCESS>>) = ACKNOWLEDGE /\ Rest(<<ACKNOWLEDGE, SUCCESS>>) = <<SUCCESS>>
      /\ InTime(<<ACKNOWLEDGE, 65>>) = ACKNOWLEDGE /\ Rest(<<ACKNOWLEDGE, 65>>) = <<65>>
      /\ InTime(<<ACKNOWLEDGE>>) = ACKNOWLEDGE /\ Rest(<<ACKNOWLEDGE>>) = <<>>
  BY InTimeOne, Zenon
<1>5. PICK t : t = Identity[o.kind[o.port]]
  BY Zenon
<1>6. t \in Seq(Nat) /\ ACKNOWLEDGE \in Nat
  BY <1>2, <1>5, IdentityBytes DEF ACKNOWLEDGE
<1>7. InTime(<<ACKNOWLEDGE>> \o t) = ACKNOWLEDGE /\ Rest(<<ACKNOWLEDGE>> \o t) = t
  BY <1>6, AfterAck, Zenon
<1>8. /\ o.pc = "reset" => Says(o) = <<ACKNOWLEDGE, SUCCESS>>
      /\ o.pc = "identify" => Says(o) = <<ACKNOWLEDGE>> \o t
      /\ o.pc = "get" => Says(o) = <<ACKNOWLEDGE, 65>>
      /\ o.pc \in {"disable", "enscan", "scs"} => Says(o) = <<ACKNOWLEDGE>>
  BY <1>5, Zenon DEF Says
<1>9. CASE o.kind[o.port] = "none"
  BY <1>3, <1>9 DEF Told
<1>10. ASSUME o.kind[o.port] # "none" PROVE Told(o, InTime(Says(o)), Rest(Says(o)))
  <2>1. CASE o.pc = "reset"
    BY <1>4, <1>8, <1>10, <2>1 DEF Told
  <2>2. CASE o.pc = "identify"
    BY <1>5, <1>7, <1>8, <1>10, <2>2, Zenon DEF Told
  <2>3. CASE o.pc = "get"
    BY <1>4, <1>8, <1>10, <2>3 DEF Told
  <2>4. CASE o.pc \in {"disable", "enscan", "scs"}
    BY <1>4, <1>8, <1>10, <2>4 DEF Told
  <2> QED BY <1>1, <2>1, <2>2, <2>3, <2>4
<1> QED BY <1>9, <1>10, Zenon

\* What a device says that is no translating keyboard.
LEMMA SaysPlain ==
  ASSUME NEW o, Ps2TypeOK(o), o.pc \in DOMAIN Byte, Found(o) = {}, Plain(o)
  PROVE  Says(o) \in Seq(PlainBytes) /\ <<RESEND>> \in Seq(PlainBytes) /\ <<>> \in Seq(PlainBytes)
<1>1. o.pc \in {"reset", "disable", "identify", "enscan"}
  BY Zenon DEF Byte, Plain
<1>2. o.port \in Ports /\ o.kind[o.port] \in DOMAIN Identity
  BY <1>1, KindsAssumption, Zenon DEF Ps2TypeOK, Early
<1>3. o.kind[o.port] \notin Keyboards
  BY <1>2, Zenon DEF Found
<1>4. ACKNOWLEDGE \in PlainBytes /\ SUCCESS \in PlainBytes /\ RESEND \in PlainBytes
  BY DEF ACKNOWLEDGE, SUCCESS, RESEND, PlainBytes
<1>5. Identity[o.kind[o.port]] \in Seq(PlainBytes)
  BY <1>2, <1>3, IdentityBytes
<1>6. <<ACKNOWLEDGE>> \o Identity[o.kind[o.port]] \in Seq(PlainBytes)
  BY <1>4, <1>5
<1>7. \/ Says(o) = <<ACKNOWLEDGE, SUCCESS>> \/ Says(o) = <<ACKNOWLEDGE>>
      \/ Says(o) = <<ACKNOWLEDGE>> \o Identity[o.kind[o.port]]
  BY <1>1, Zenon DEF Says
<1>8. /\ <<ACKNOWLEDGE, SUCCESS>> \in Seq(PlainBytes) /\ <<ACKNOWLEDGE>> \in Seq(PlainBytes)
      /\ <<RESEND>> \in Seq(PlainBytes) /\ <<>> \in Seq(PlainBytes)
  BY <1>4
<1> QED BY <1>6, <1>7, <1>8, Zenon

\* What the driver does with the answer to a byte it sent.
AfterAnswer(s, b, sent) ==
    IF SendsAgain(b, sent) THEN [s EXCEPT !.sent = (@ + 1) % RETRY_LIMIT]
    ELSE IF b = RESEND THEN ps2_init([[s EXCEPT !.quiet = FALSE] EXCEPT !.sent = 0], FAIL)
    ELSE ps2_init([s EXCEPT !.sent = 0], b)

\* A send, an answer and what the driver does with it keep the invariant.
LEMMA SendInv == ASSUME SInv(ps2), ps2_send_to_port PROVE SInv(ps2')
<1>1. PICK o : o = ps2
  OBVIOUS
<1>2. SInv(o) /\ Ps2TypeOK(o) /\ o.pc \in DOMAIN Byte /\ o.pc \in Answered
  BY <1>1, Zenon DEF SInv, ps2_send_to_port, Answered
<1>3. o.pc \in {"reset", "disable", "identify", "enscan", "scs", "get"}
  BY <1>2, Zenon DEF Byte
<1>4. -1 # FAIL /\ FAIL \notin PlainBytes /\ TIMEOUT = -1
  BY DEF FAIL, PlainBytes, TIMEOUT
<1>5. CASE ps2' = ps2_init([[ps2 EXCEPT !.quiet = FALSE] EXCEPT !.sent = 0], TIMEOUT)
  <2>1. PICK x : x = [[o EXCEPT !.quiet = FALSE] EXCEPT !.sent = 0]
    OBVIOUS
  <2>2. /\ DOMAIN x = DOMAIN o /\ x.quiet = FALSE /\ \A f \in DOMAIN o \ {"sent", "quiet"} : x[f] = o[f]
    BY <1>2, <2>1, Zenon DEF Ps2TypeOK
  <2>3. Ps2TypeOK(x) /\ x.pc \in Answered /\ Found(x) = Found(o) /\ (Plain(o) => Plain(x)) /\ x.quiet # TRUE
    BY <1>2, <2>2, Zenon DEF Ps2TypeOK, Found, Plain
  <2>4. SInv(ps2_init(x, TIMEOUT))
    BY <1>2, <1>4, <2>3, StepAfter, Zenon DEF SInv
  <2> QED BY <1>1, <1>5, <2>1, <2>4
<1>6. ASSUME NEW q \in Device(ps2.pc), NEW y \in ps2_read_input_byte(ps2.ans \o q),
             NEW s, s = [ps2 EXCEPT !.ans = y.ans, !.quiet = @ /\ ~Late(y)],
             ps2' = AfterAnswer(s, y.byte, ps2.sent)
      PROVE  SInv(ps2')
  <2>1. /\ DOMAIN s = DOMAIN o /\ s.ans = y.ans /\ s.quiet = (o.quiet /\ ~Late(y))
        /\ \A f \in DOMAIN o \ {"ans", "quiet"} : s[f] = o[f]
    BY <1>1, <1>2, <1>6, Zenon DEF Ps2TypeOK
  <2>2. \/ o.kind[o.port] = "none" /\ q = <<>>
        \/ o.kind[o.port] # "none" /\ (q = <<RESEND>> \/ q = Says(o))
    BY <1>1, <1>6, DeviceSays
  <2>3. y \in ps2_read_input_byte(o.ans \o q)
    BY <1>1, <1>6
  <2>4. ASSUME Found(o) = {} PROVE Plain(o) /\ y.byte \in PlainBytes \cup {-1} /\ y.ans \in Seq(PlainBytes)
    <3>1. Plain(o)
      BY <1>2, <2>4, Zenon DEF SInv
    <3>2. q \in Seq(PlainBytes)
      BY <1>2, <2>2, <2>4, <3>1, SaysPlain, Zenon
    <3>3. o.ans \o q \in Seq(PlainBytes)
      BY <3>1, <3>2 DEF Plain
    <3> QED BY <2>3, <3>1, <3>3, ReadsPlain, Zenon
  <2>5. ASSUME s.quiet = TRUE
        PROVE  /\ o.quiet = TRUE /\ Buffer(o) /\ Progress(o) /\ y.byte = InTime(q) /\ y.ans = Rest(q)
    <3>1. o.quiet = TRUE /\ ~Late(y)
      BY <1>2, <2>1, <2>5, Zenon DEF Ps2TypeOK
    <3>2. Buffer(o) /\ Progress(o)
      BY <1>2, <3>1, Zenon DEF SInv
    <3>3. o.ans = <<>>
      BY <1>3, <3>2, Zenon DEF Buffer
    <3>4. <<>> \o q = q
      <4>1. /\ Says(o) \in Seq(Nat) /\ <<RESEND>> \in Seq(Nat) /\ <<>> \in Seq(Nat)
        <5>1. o.port \in Ports /\ o.kind[o.port] \in DOMAIN Identity
          BY <1>2, <1>3, KindsAssumption, Zenon DEF Ps2TypeOK, Early
        <5>2. Identity[o.kind[o.port]] \in Seq(Nat)
          BY <5>1, IdentityBytes
        <5>3. ACKNOWLEDGE \in Nat /\ SUCCESS \in Nat /\ RESEND \in Nat
          BY DEF ACKNOWLEDGE, SUCCESS, RESEND
        <5>4. /\ <<ACKNOWLEDGE, SUCCESS>> \in Seq(Nat) /\ <<ACKNOWLEDGE, 65>> \in Seq(Nat)
              /\ <<ACKNOWLEDGE>> \in Seq(Nat) /\ <<RESEND>> \in Seq(Nat)
          BY <5>3
        <5>5. <<ACKNOWLEDGE>> \o Identity[o.kind[o.port]] \in Seq(Nat)
          BY <5>2, <5>4
        <5> QED BY <5>4, <5>5 DEF Says
      <4>2. q \in Seq(Nat)
        BY <2>2, <4>1, Zenon
      <4> QED BY <4>2
    <3>5. y.byte = InTime(o.ans \o q) /\ y.ans = Rest(o.ans \o q)
      BY <2>3, <3>1, ReadsInTime, Zenon
    <3> QED BY <3>1, <3>2, <3>3, <3>4, <3>5, Zenon
  <2>6. CASE SendsAgain(y.byte, ps2.sent)
    <3>1. PICK x : x = [s EXCEPT !.sent = (@ + 1) % RETRY_LIMIT]
      BY Zenon
    <3>2. /\ DOMAIN x = DOMAIN o /\ x.ans = y.ans /\ x.quiet = s.quiet
          /\ \A f \in DOMAIN o \ {"sent", "ans", "quiet"} : x[f] = o[f]
      BY <1>2, <2>1, <3>1 DEF Ps2TypeOK
    <3>3. /\ x.pc = o.pc /\ x.port = o.port /\ x.kind = o.kind /\ x.two = o.two /\ x.second = o.second
          /\ x.first = o.first /\ x.snd = o.snd /\ x.handlers = o.handlers
          /\ x.quiet \in BOOLEAN /\ Found(x) = Found(o)
      BY <1>2, <2>1, <3>2, Zenon DEF Ps2TypeOK, Found
    <3>4. Ps2TypeOK(x)
      BY <1>2, <3>2, <3>3, Zenon DEF Ps2TypeOK
    <3>5. Found(x) = {} => Plain(x)
      BY <2>4, <3>2, <3>3, Zenon DEF Plain
    <3>6. ASSUME x.quiet = TRUE PROVE Buffer(x) /\ Progress(x)
      <4>1. Buffer(o) /\ Progress(o) /\ y.byte = InTime(q) /\ y.ans = Rest(q)
        BY <2>5, <3>2, <3>6, Zenon
      <4>2. y.byte = RESEND
        BY <2>6 DEF SendsAgain
      <4>3. RESEND # -1 /\ RESEND # ACKNOWLEDGE
        BY DEF RESEND, ACKNOWLEDGE
      <4>4. /\ o.kind[o.port] = "none" => InTime(<<>>) = -1
            /\ o.kind[o.port] # "none" => InTime(Says(o)) = ACKNOWLEDGE
        BY <1>2, SaysTold DEF Told
      <4>5. q = <<RESEND>>
        BY <2>2, <4>1, <4>2, <4>3, <4>4, Zenon
      <4>6. x.ans = <<>>
        BY <3>2, <4>1, <4>5, InTimeOne, Zenon
      <4>7. Buffer(x)
        BY <1>3, <3>3, <4>6, Zenon DEF Buffer
      <4>8. DeviceKind(x) = DeviceKind(o)
        BY <3>3 DEF DeviceKind
      <4> QED BY <3>3, <4>1, <4>7, <4>8, Zenon DEF Progress
    <3> QED BY <1>6, <2>6, <3>1, <3>4, <3>5, <3>6, Zenon DEF SInv, AfterAnswer
  <2>7. CASE ~SendsAgain(y.byte, ps2.sent) /\ y.byte = RESEND
    <3>1. PICK x : x = [[s EXCEPT !.quiet = FALSE] EXCEPT !.sent = 0]
      OBVIOUS
    <3>2. /\ DOMAIN x = DOMAIN o /\ x.ans = y.ans /\ x.quiet = FALSE
          /\ \A f \in DOMAIN o \ {"sent", "ans", "quiet"} : x[f] = o[f]
      BY <1>2, <2>1, <3>1, Zenon DEF Ps2TypeOK
    <3>3. Ps2TypeOK(x) /\ x.pc \in Answered /\ x.pc = o.pc /\ Found(x) = Found(o) /\ x.quiet # TRUE
      BY <1>2, <3>2, Zenon DEF Ps2TypeOK, Found
    <3>4. ASSUME Found(x) = {} PROVE Plain(x)
      BY <1>2, <2>4, <3>2, <3>3, <3>4, Zenon DEF Plain, Ps2TypeOK
    <3>5. SInv(ps2_init(x, FAIL))
      BY <1>3, <3>3, <3>4, StepAfter, Zenon
    <3> QED BY <1>6, <2>7, <3>1, <3>5, Zenon DEF AfterAnswer
  <2>8. CASE ~SendsAgain(y.byte, ps2.sent) /\ y.byte # RESEND
    <3>1. PICK x : x = [s EXCEPT !.sent = 0]
      BY Zenon
    <3>2. /\ DOMAIN x = DOMAIN o /\ x.ans = y.ans /\ x.quiet = s.quiet
          /\ \A f \in DOMAIN o \ {"sent", "ans", "quiet"} : x[f] = o[f]
      BY <1>2, <2>1, <3>1 DEF Ps2TypeOK
    <3>3. Ps2TypeOK(x) /\ x.pc \in Answered /\ x.pc = o.pc /\ Found(x) = Found(o)
      BY <1>2, <2>1, <3>2, Zenon DEF Ps2TypeOK, Found
    <3>4. ASSUME Found(x) = {} PROVE Plain(x) /\ y.byte \in PlainBytes \cup {-1}
      BY <1>2, <2>4, <3>2, <3>3, <3>4, Zenon DEF Plain, Ps2TypeOK
    <3>5. ASSUME x.quiet = TRUE PROVE Buffer(ps2_init(x, y.byte)) /\ Progress(ps2_init(x, y.byte))
      <4>1. o.quiet = TRUE /\ Buffer(o) /\ Progress(o) /\ y.byte = InTime(q) /\ y.ans = Rest(q)
        BY <2>5, <3>2, <3>5, Zenon
      <4>2. q # <<RESEND>>
        BY <2>8, <4>1, InTimeOne, Zenon
      <4>3. Told(o, InTime(q), Rest(q))
        BY <1>2, <2>2, <4>2, SaysTold, Zenon
      <4>4. SameBut(x, o)
        BY <3>2, <3>5, <4>1, Zenon DEF SameBut
      <4> QED BY <1>2, <3>2, <4>1, <4>3, <4>4, QuietSend, Zenon
    <3>6. SInv(ps2_init(x, y.byte))
      BY <1>4, <3>3, <3>4, <3>5, StepAfter, Zenon
    <3> QED BY <1>6, <2>8, <3>1, <3>6, Zenon DEF AfterAnswer
  <2> QED BY <2>6, <2>7, <2>8
<1> QED BY <1>5, <1>6, Zenon DEF ps2_send_to_port, AfterAnswer

\* What the controller puts into the buffer.
LEMMA ControllerSays ==
  ASSUME NEW o, ps2 = o, NEW q \in Controller(ps2.pc)
  PROVE  /\ o.pc = "config" => q \in {<<0>>, <<32>>}
         /\ o.pc \in {"test1", "test2"} => q \in {<<0>>, <<1>>}
         /\ o.pc \notin {"config", "test1", "test2"} => q = <<>>
BY DEF Controller

\* Where the driver goes on after the command of `at` was written.
AfterCommand(at) ==
  CASE at = "dis1"   -> "dis2"    [] at = "dis2"    -> "config" [] at = "config" -> "rconfig"
    [] at = "wconfig" -> "wvalue" [] at = "wvalue" -> "test1"   [] at = "test1"  -> "rtest1"
    [] at = "test2"  -> "rtest2"  [] at = "enable" -> "flush"

\* The command given at `at` is followed by p and answered with q.
Follows(at, p, q) ==
  \/ p = "rconfig" /\ at = "config" /\ q \in {<<0>>, <<32>>}
  \/ p = "rtest1" /\ at = "test1" /\ q \in {<<0>>, <<1>>}
  \/ p = "rtest2" /\ at = "test2" /\ q \in {<<0>>, <<1>>}
  \/ p \in {"dis2", "config", "wvalue", "test1"} /\ at \in Early /\ q = <<>>
  \/ p = "flush" /\ at = "enable" /\ q = <<>>

\* A state that differs from o in its place alone, and whose buffer holds q more.
LEMMA CommandAnswered ==
  ASSUME NEW o, SInv(o), o.pc \in Commands, NEW q, NEW p, Follows(o.pc, p, q)
  PROVE  SInv([o EXCEPT !.ans = @ \o q, !.pc = p])
<1>1. PICK x : x = [o EXCEPT !.ans = @ \o q, !.pc = p]
  OBVIOUS
<1>2. Ps2TypeOK(o) /\ (Found(o) = {} => Plain(o)) /\ (o.quiet = TRUE => Buffer(o) /\ Progress(o))
  BY DEF SInv
<1>3. /\ DOMAIN x = DOMAIN o /\ x.ans = o.ans \o q /\ x.pc = p /\ x.port = o.port /\ x.kind = o.kind
      /\ x.two = o.two /\ x.second = o.second /\ x.first = o.first /\ x.snd = o.snd
      /\ x.handlers = o.handlers /\ x.quiet = o.quiet
  BY <1>1, <1>2 DEF Ps2TypeOK
<1>4. Found(x) = Found(o)
  BY <1>3, Zenon DEF Found
<1>5. (p \in Early /\ o.pc \in Early) \/ (p = "flush" /\ o.pc = "enable")
  BY DEF Early, Follows
<1>6. p \in Pcs
  BY PcsAre DEF Follows
<1>7. Ps2TypeOK(x)
  BY <1>2, <1>3, <1>5, <1>6, Zenon DEF Ps2TypeOK, Early
<1>8. q \in Seq(PlainBytes)
  <2>1. 0 \in PlainBytes /\ 1 \in PlainBytes /\ 32 \in PlainBytes
    BY DEF PlainBytes
  <2>2. <<0>> \in Seq(PlainBytes) /\ <<1>> \in Seq(PlainBytes) /\ <<32>> \in Seq(PlainBytes)
        /\ <<>> \in Seq(PlainBytes)
    BY <2>1
  <2>3. q = <<>> \/ q = <<0>> \/ q = <<1>> \/ q = <<32>>
    BY Zenon DEF Follows
  <2> QED BY <2>2, <2>3, Zenon
<1>9. ASSUME Found(x) = {} PROVE Plain(x)
  <2>1. Plain(o)
    BY <1>2, <1>4, <1>9
  <2>2. o.ans \o q \in Seq(PlainBytes)
    BY <1>8, <2>1 DEF Plain
  <2> QED BY <1>3, <1>5, <2>1, <2>2, Zenon DEF Plain, Early
<1>10. ASSUME x.quiet = TRUE PROVE Buffer(x) /\ Progress(x)
  <2>1. Buffer(o) /\ Progress(o)
    BY <1>2, <1>3, <1>10, Zenon
  <2>2. o.ans = <<>>
    BY <2>1, Zenon DEF Buffer, Commands
  <2>3. x.ans = q
    BY <1>3, <1>8, <2>2
  <2>4. Buffer(x)
    BY <1>3, <2>3, Zenon DEF Buffer, Follows
  <2>5. CASE p \in Early /\ o.pc \in Early
    <3>1. x.handlers = {} /\ (x.port = 2 => x.second = TRUE)
      BY <1>3, <2>1, <2>5, Zenon DEF Progress
    <3>2. p \notin {"success", "disable", "extra", "identify", "first", "second", "enscan", "scs", "get",
                    "code", "last", "done"}
      BY <2>5 DEF Early
    <3> QED BY <1>3, <2>4, <2>5, <3>1, <3>2, Zenon DEF Progress
  <2>6. CASE p = "flush" /\ o.pc = "enable"
    <3>1. x.handlers = {r \in Found(x) : r < x.port} /\ (x.port = 2 => x.second = TRUE)
      BY <1>3, <1>4, <2>1, <2>6, Zenon DEF Progress, Early
    <3> QED BY <1>3, <2>4, <2>6, <3>1, Zenon DEF Progress, Early
  <2> QED BY <1>5, <2>5, <2>6
<1> QED BY <1>1, <1>4, <1>7, <1>9, <1>10, Zenon DEF SInv

\* A command whose write is given up.
LEMMA WriteFailed ==
  ASSUME NEW x, Ps2TypeOK(x), Found(x) = {} => Plain(x), x.pc \in Commands, x.quiet = FALSE
  PROVE  SInv(WriteFails(x))
<1> DEFINE r == WriteFails(x)
<1>1. x.pc \in Early \/ x.pc = "enable"
  BY DEF Commands, Early
<1>2. CASE x.pc = "enable"
  <2>1. x.port \in Ports
    BY <1>2, Zenon DEF Ps2TypeOK, Early
  <2>2. r = NextPort(x)
    BY <1>2 DEF WriteFails
  <2>3. Ps2TypeOK(NextPort(x)) /\ NextPort(x).pc \in {"enable", "done"}
    BY <2>1, NextPortIs, Zenon
  <2>4. \A f \in DOMAIN x \ {"pc", "port"} : NextPort(x)[f] = x[f]
    BY <2>1, NextPortIs, Zenon
  <2>5. /\ r.kind = x.kind /\ r.quiet = FALSE /\ r.ans = x.ans /\ r.first = x.first /\ r.snd = x.snd
        /\ r.handlers = x.handlers /\ Found(r) = Found(x) /\ r.pc \in {"enable", "done"}
    BY <2>2, <2>3, <2>4, Zenon DEF Ps2TypeOK, Found
  <2>6. Found(r) = {} => Plain(r)
    BY <2>5, Zenon DEF Plain
  <2> QED BY <2>2, <2>3, <2>5, <2>6, Zenon DEF SInv
<1>3. CASE x.pc \in Early
  <2>1. x.port = 0
    BY <1>3, Zenon DEF Ps2TypeOK
  <2>2. \/ r = [x EXCEPT !.pc = "test2"] \/ r = [x EXCEPT !.pc = "enable", !.port = 1]
        \/ r = [x EXCEPT !.pc = "done"]
    BY <1>3 DEF WriteFails, Tested, Early
  <2> HIDE DEF r
  <2>3. /\ DOMAIN r = DOMAIN x /\ r.kind = x.kind /\ r.quiet = FALSE /\ r.ans = x.ans /\ r.first = x.first
        /\ r.snd = x.snd /\ r.handlers = x.handlers /\ Found(r) = Found(x) /\ r.two = x.two
        /\ r.second = x.second
        /\ (r.pc \in {"test2", "done"} /\ r.port = 0) \/ (r.pc = "enable" /\ r.port = 1)
    BY <2>1, <2>2, Zenon DEF Ps2TypeOK, Found
  <2>4. Ps2TypeOK(r)
    BY <2>3, PcsAre, Zenon DEF Ps2TypeOK, Early, Ports
  <2>5. Found(r) = {} => Plain(r)
    BY <2>3, Zenon DEF Plain
  <2> QED BY <2>3, <2>4, <2>5, Zenon DEF SInv, r
<1> QED BY <1>1, <1>2, <1>3

\* A command keeps the invariant.
LEMMA CommandInv == ASSUME SInv(ps2), ps2_send_command PROVE SInv(ps2')
<1>1. PICK o : o = ps2
  OBVIOUS
<1>2. SInv(o) /\ Ps2TypeOK(o) /\ o.pc \in Commands
  BY <1>1, Zenon DEF SInv, ps2_send_command
<1>3. CASE ps2' = WriteFails([ps2 EXCEPT !.quiet = FALSE])
  <2>1. PICK x : x = [o EXCEPT !.quiet = FALSE]
    BY Zenon
  <2>2. DOMAIN x = DOMAIN o /\ x.quiet = FALSE /\ \A f \in DOMAIN o \ {"quiet"} : x[f] = o[f]
    BY <1>2, <2>1 DEF Ps2TypeOK
  <2>3. Ps2TypeOK(x) /\ x.pc \in Commands /\ Found(x) = Found(o) /\ (Plain(o) => Plain(x))
    BY <1>2, <2>2, Zenon DEF Ps2TypeOK, Found, Plain
  <2>4. SInv(WriteFails(x))
    BY <1>2, <2>2, <2>3, WriteFailed, Zenon DEF SInv
  <2> QED BY <1>1, <1>3, <2>1, <2>4
<1>4. ASSUME NEW q \in Controller(ps2.pc),
             ps2' = [ps2 EXCEPT !.ans = @ \o q, !.pc = AfterCommand(@)]
      PROVE  SInv(ps2')
  <2>1. PICK p : p = AfterCommand(o.pc)
    OBVIOUS
  <2>2. ps2' = [o EXCEPT !.ans = @ \o q, !.pc = p]
    BY <1>1, <1>2, <1>4, <2>1 DEF Ps2TypeOK
  <2>3. /\ o.pc = "config" => q \in {<<0>>, <<32>>}
        /\ o.pc \in {"test1", "test2"} => q \in {<<0>>, <<1>>}
        /\ o.pc \notin {"config", "test1", "test2"} => q = <<>>
    BY <1>1, <1>4, ControllerSays
  <2>4. \/ p = "rconfig" /\ o.pc = "config"
        \/ p = "rtest1" /\ o.pc = "test1"
        \/ p = "rtest2" /\ o.pc = "test2"
        \/ p \in {"dis2", "config", "wvalue", "test1"} /\ o.pc \in {"dis1", "dis2", "wconfig", "wvalue"}
        \/ p = "flush" /\ o.pc = "enable"
    BY <1>2, <2>1 DEF Commands, AfterCommand
  <2>5. {"dis1", "dis2", "wconfig", "wvalue"} \subseteq Early
    BY DEF Early
  <2>6. SInv([o EXCEPT !.ans = @ \o q, !.pc = p])
    <3>1. Follows(o.pc, p, q)
      BY <2>3, <2>4, <2>5 DEF Follows
    <3> QED BY <1>2, <3>1, CommandAnswered, Zenon
  <2> QED BY <2>2, <2>6
<1> QED BY <1>3, <1>4, Zenon DEF ps2_send_command, AfterCommand

\* A key that is struck keeps the invariant.
LEMMA StrikeInv == ASSUME SInv(ps2), StrikesKey PROVE SInv(ps2')
<1>1. PICK o : o = ps2
  OBVIOUS
<1>2. SInv(o) /\ Ps2TypeOK(o) /\ ps2' = [o EXCEPT !.ans = Append(@, KEY), !.keys = @ + 1, !.quiet = FALSE]
  BY <1>1 DEF SInv, StrikesKey
<1>3. PICK x : x = [o EXCEPT !.ans = Append(@, KEY), !.keys = @ + 1, !.quiet = FALSE]
  OBVIOUS
<1>4. /\ DOMAIN x = DOMAIN o /\ x.ans = Append(o.ans, KEY) /\ x.quiet = FALSE
      /\ \A f \in DOMAIN o \ {"ans", "keys", "quiet"} : x[f] = o[f]
  BY <1>2, <1>3, Zenon DEF Ps2TypeOK
<1>5. /\ Ps2TypeOK(x) /\ Found(x) = Found(o) /\ x.first = o.first /\ x.snd = o.snd /\ x.pc = o.pc
      /\ x.handlers = o.handlers
  BY <1>2, <1>4, Zenon DEF Ps2TypeOK, Found
<1>6. ASSUME Found(x) = {} PROVE Plain(x)
  <2>1. Plain(o) /\ KEY \in PlainBytes
    BY <1>2, <1>5, <1>6 DEF SInv, KEY, PlainBytes
  <2>2. Append(o.ans, KEY) \in Seq(PlainBytes)
    BY <2>1 DEF Plain
  <2> QED BY <1>4, <1>5, <2>1, <2>2, Zenon DEF Plain
<1> QED BY <1>2, <1>3, <1>4, <1>5, <1>6 DEF SInv

\* The driver starts with a buffer that is empty or holds a key that was struck before.
LEMMA StartInv == ASSUME Ps2Init PROVE SInv(ps2)
<1>1. PICK kind \in [Ports -> Kinds], ans \in {<<>>, <<KEY>>} :
        ps2 = [pc |-> "dis1", port |-> 0, sent |-> 0, ans |-> ans, kind |-> kind,
               two |-> FALSE, second |-> FALSE, first |-> TIMEOUT, snd |-> TIMEOUT,
               handlers |-> {}, keys |-> 0, quiet |-> ans = <<>>]
  BY DEF Ps2Init, Ps2Start
<1>2. PICK o : o = ps2
  OBVIOUS
<1>3. /\ DOMAIN o = {"pc", "port", "sent", "ans", "kind", "two", "second", "first", "snd", "handlers",
                     "keys", "quiet"}
      /\ o.pc = "dis1" /\ o.port = 0 /\ o.ans = ans /\ o.kind = kind /\ o.two = FALSE /\ o.second = FALSE
      /\ o.first = TIMEOUT /\ o.snd = TIMEOUT /\ o.handlers = {} /\ o.quiet = (ans = <<>>)
  BY <1>1, <1>2, Zenon
<1>4. Ps2TypeOK(o)
  BY <1>3, PcsAre, Zenon DEF Ps2TypeOK, Early
<1>5. Plain(o)
  <2>1. KEY \in PlainBytes /\ TIMEOUT = -1
    BY DEF KEY, PlainBytes, TIMEOUT
  <2>2. <<>> \in Seq(PlainBytes) /\ <<KEY>> \in Seq(PlainBytes)
    BY <2>1
  <2>3. ans \in Seq(PlainBytes)
    BY <1>1, <2>2, Zenon
  <2> QED BY <1>3, <2>1, <2>3 DEF Plain
<1>6. ASSUME o.quiet = TRUE PROVE Buffer(o) /\ Progress(o)
  <2>1. o.ans = <<>>
    BY <1>3, <1>6, Zenon
  <2> QED BY <1>3, <2>1 DEF Buffer, Progress, Early
<1> QED BY <1>2, <1>4, <1>5, <1>6, Zenon DEF SInv

\* Whatever the ports hold, however late they answer and whatever keys are struck: the keyboard
\* interrupt is installed for no machine without a translating keyboard, and when every byte was
\* written and answered in time, for exactly the tested ports that hold one.
THEOREM KeyboardsAlwaysFound == Ps2Spec => []KeyboardsFound
<1>1. Ps2Init => SInv(ps2)
  BY StartInv
<1>2. SInv(ps2) /\ [Ps2Next]_ps2 => SInv(ps2)'
  <2> SUFFICES ASSUME SInv(ps2), [Ps2Next]_ps2 PROVE SInv(ps2')
    OBVIOUS
  <2>1. CASE UNCHANGED ps2
    BY <2>1
  <2> QED BY <2>1, ReadInv, CommandInv, SendInv, StrikeInv DEF Ps2Next, Ps2Driver
<1>3. SInv(ps2) => KeyboardsFound
  <2> SUFFICES ASSUME SInv(ps2) PROVE KeyboardsFound
    OBVIOUS
  <2>1. {p \in Ports : ps2.kind[p] \in {"kbd1", "kbd2"}} = Found(ps2)
    BY DEF Found, Keyboards
  <2>2. ps2.handlers # {} => Found(ps2) # {}
    BY Zenon DEF SInv, Plain
  <2>3. ps2.quiet \in BOOLEAN /\ ps2.second \in BOOLEAN
    BY Zenon DEF SInv, Ps2TypeOK
  <2>4. ASSUME ps2.pc = "done", ps2.quiet = TRUE
        PROVE  ps2.handlers = {p \in Found(ps2) : p = 2 => ps2.second}
    <3>1. ps2.handlers = {p \in Found(ps2) : p = 2 => ps2.second = TRUE}
      BY <2>4, Zenon DEF SInv, Progress
    <3>2. ps2.second = TRUE <=> ps2.second
      BY <2>3
    <3> QED BY <3>1, <3>2
  <2> QED BY <2>1, <2>2, <2>3, <2>4, Zenon DEF KeyboardsFound
<1> QED BY <1>1, <1>2, <1>3, PTL DEF Ps2Spec
=============================================================================
