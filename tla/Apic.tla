-------------------------------- MODULE Apic --------------------------------
(* Interrupt routing on x86_64: the ACPI interrupt table is read             *)
(* (kernel/acpi/madt.c), the local and I/O APICs are set up (apic/init.c,    *)
(* apic/lapic.c, apic/ioapic.c), vectors and handlers are given out          *)
(* (sys/isr.c), and devices raise their lines.                               *)
(*                                                                           *)
(* A redirection entry is written in two halves, the vector and the mask     *)
(* before the processor, and a device may raise its line in between.         *)
EXTENDS Integers, Sequences, FiniteSets

CONSTANTS Entries,      \* entries an ACPI table may hold
          MaxEntries,   \* entries of one table
          RedirectCount,\* redirection entries of an I/O APIC
          FirstVector,  \* g_free_vector at boot
          LastVector    \* the vector isr_alloc_vector does not give out

\* The entries madt_init tells apart, with the fields it reads.
ASSUME EntriesAssumption ==
  \A e \in Entries :
    \/ e.kind \in {"lapic", "nmi", "override", "invalid"}
    \/ e.kind = "ioapic" /\ e.gsi \in Nat /\ e.aligned \in BOOLEAN /\ e.known \in BOOLEAN
    \/ e.kind = "iso" /\ e.gsi \in Nat

\* 0x20 and 0xff: isr_init has room for its two vectors, and none is a line's number.
ASSUME VectorsAssumption ==
  /\ MaxEntries \in Nat /\ RedirectCount \in Nat
  /\ FirstVector \in Nat /\ FirstVector > 1 /\ LastVector \in Nat /\ FirstVector + 2 <= LastVector

VARIABLE apic

IRQ_TIMER == 0
IRQ_KEYBOARD == 1
Irqs == {IRQ_TIMER, IRQ_KEYBOARD}
Cpus == {0, 1}        \* local APIC ids; the boot processor may have either

Masked == [vector |-> 0, masked |-> TRUE, cpu |-> 0]

ApicStart ==
  {[pc |-> "isr", madt |-> madt, at |-> 1, bsp |-> bsp,
    lapics |-> 0, ioapics |-> <<>>, isos |-> <<>>, nmi |-> <<>>, base |-> 1,
    lint |-> <<"off", "off">>, free |-> FirstVector, timer |-> 0,
    funcs |-> <<>>, redir |-> <<>>, irq |-> IRQ_TIMER, vector |-> 0, astray |-> FALSE] :
      madt \in UNION {[1..n -> Entries] : n \in 0..MaxEntries}, bsp \in Cpus}

ApicInit == apic \in ApicStart

Stop == apic' = [apic EXCEPT !.pc = "stopped"]

\* An element of a table set.
Put(f, d, v) == [x \in {d} \cup DOMAIN f |-> IF x = d THEN v ELSE f[x]]

\* assert(g_free_vector != 0xff): the vector given out, if there is one.
isr_alloc_vector(s) == [s EXCEPT !.free = @ + 1, !.vector = s.free]
isr_set_vector(s, vector, handler) ==
  [s EXCEPT !.funcs = Put(@, vector, handler)]

isr_init ==
  /\ apic.pc = "isr"
  /\ LET t == isr_alloc_vector(apic)
         u == isr_alloc_vector([t EXCEPT !.timer = t.vector])
     IN apic' = [isr_set_vector(u, u.vector, "spur_tick") EXCEPT !.pc = "madt"]

-----------------------------------------------------------------------------
(* madt_init: one entry of the table per step.                               *)

ioapic_add(s, e) ==
  CASE ~e.aligned -> s
    [] e.aligned /\ ~e.known -> [s EXCEPT !.pc = "stopped"]
    [] e.aligned /\ e.known  -> [s EXCEPT !.ioapics = Append(@, e.gsi)]

\* The list of local APICs is only counted: nothing but printing reads it.
lapic_add(s) == [s EXCEPT !.lapics = @ + 1]

IsoEntry(s, e) == [s EXCEPT !.isos = Append(@, e)]

\* The first entry names the pin; later ones are ignored.
NmiEntry(s, e) == [s EXCEPT !.nmi = IF @ = <<>> THEN <<e.lint>> ELSE @]

BaseEntry(s, e) == [s EXCEPT !.base = e.base]

madt_init ==
  /\ apic.pc = "madt" /\ apic.at <= Len(apic.madt)
  /\ LET e == apic.madt[apic.at]
         s == [apic EXCEPT !.at = @ + 1] IN
     apic' = CASE e.kind = "lapic"    -> lapic_add(s)
               [] e.kind = "ioapic"   -> ioapic_add(s, e)
               [] e.kind = "iso"      -> IsoEntry(s, e)
               [] e.kind = "nmi"      -> NmiEntry(s, e)
               [] e.kind = "override" -> BaseEntry(s, e)
               [] e.kind = "invalid"  -> s

\* lapic_enable: the pin of the non-maskable interrupt, the other one for the
\* 8259, whose own lines apic_init has masked.
lapic_enable(s) ==
  [s EXCEPT !.lint = IF s.nmi = <<1>> THEN <<"extint", "nmi">> ELSE <<"nmi", "extint">>]

apic_init ==
  /\ apic.pc = "madt" /\ apic.at > Len(apic.madt)
  /\ IF apic.base = 0 THEN Stop
     ELSE LET s == lapic_enable(apic) IN
          apic' = [isr_set_vector(s, s.timer, "timer") EXCEPT
                     !.pc = "assign", !.irq = IRQ_TIMER, !.vector = s.timer]

\* ps2_keyboard_init, when the driver has found a keyboard.
Keyboard ==
  /\ apic.pc = "idle" /\ apic.irq = IRQ_TIMER
  /\ IF apic.free = LastVector THEN Stop
     ELSE LET s == isr_alloc_vector(apic) IN
          apic' = [isr_set_vector(s, s.vector, "keyboard") EXCEPT
                     !.pc = "assign", !.irq = IRQ_KEYBOARD]

-----------------------------------------------------------------------------
(* isr_assign_irq_to_cpu.                                                    *)

\* The mutant takes the line for the interrupt whatever the overrides say.
MutIgnoreIso(s, irq) == irq

\* The global interrupt of a line: its first override, or itself.
Gsi(s, irq) ==
  LET mine == {i \in DOMAIN s.isos : s.isos[i].src = irq} IN
  IF mine = {} THEN irq ELSE s.isos[CHOOSE i \in mine : \A j \in mine : i <= j].gsi

ioapic_info_for_gsi(s, gsi) ==
  {i \in DOMAIN s.ioapics : gsi > s.ioapics[i] /\ gsi < s.ioapics[i] + RedirectCount}

Overridden(s, irq) == \E i \in DOMAIN s.isos : s.isos[i].src = irq

Entry(s, gsi) == IF gsi \in DOMAIN s.redir THEN s.redir[gsi] ELSE Masked

ioapic_redirect_irq ==
  /\ apic.pc = "assign"
  /\ LET gsi == Gsi(apic, apic.irq) IN
     IF Overridden(apic, apic.irq) /\ gsi = apic.vector
     THEN apic' = [apic EXCEPT !.pc = "idle"]
     ELSE IF ioapic_info_for_gsi(apic, gsi) = {} THEN Stop
     ELSE apic' = [apic EXCEPT !.pc = "half",
                     !.redir = Put(@, gsi, [vector |-> apic.vector, masked |-> FALSE,
                                            cpu |-> Entry(apic, gsi).cpu])]

\* The second ioapic_write of redirect_irq.
redirect_irq ==
  /\ apic.pc = "half"
  /\ LET gsi == Gsi(apic, apic.irq) IN
     apic' = [apic EXCEPT !.pc = "idle", !.redir[gsi].cpu = apic.bsp]

\* The global interrupt a line is wired to, which the table tells.
Wired(irq) ==
  LET mine == {i \in DOMAIN apic.madt : apic.madt[i].kind = "iso" /\ apic.madt[i].src = irq} IN
  IF mine = {} THEN irq ELSE apic.madt[CHOOSE i \in mine : \A j \in mine : i <= j].gsi

\* A device raises its line; the I/O APIC passes it on as its entry says.
Raise(irq) ==
  /\ apic.pc \in {"half", "idle"} /\ ~Entry(apic, Wired(irq)).masked
  /\ Entry(apic, Wired(irq)).cpu # apic.bsp
  /\ apic' = [apic EXCEPT !.astray = TRUE]

ApicNext ==
  \/ isr_init \/ madt_init \/ apic_init \/ Keyboard
  \/ ioapic_redirect_irq \/ redirect_irq
  \/ \E irq \in Irqs : Raise(irq)

-----------------------------------------------------------------------------

\* Setting up interrupts ends with every assigned line entering, on the boot
\* processor, the vector whose handler is its own, unless an override names a
\* global interrupt equal to that vector.  It stops only when the local APICs
\* have no address, an I/O APIC has another id than its
\* entry says, the vectors run out, or the line is not covered by an I/O
\* APIC - or is the first one of it, which ioapic_info_for_gsi leaves out.
\* A line goes to another processor only in the moment between the halves of
\* its entry, and not when the boot processor has id 0.
RoutedToHandler ==
  LET right(irq, handler) ==
        LET e == Entry(apic, Wired(irq)) IN
        ~e.masked /\ e.cpu = apic.bsp /\ apic.funcs[e.vector] = handler
      skipped(irq) == Wired(irq) # irq /\ Wired(irq) \in DOMAIN apic.funcs
      unknown == \E i \in DOMAIN apic.madt :
                   apic.madt[i].kind = "ioapic" /\ ~apic.madt[i].known
      shared == Wired(IRQ_TIMER) = Wired(IRQ_KEYBOARD)
      open(irq) == \A i \in DOMAIN apic.ioapics :
                     LET b == apic.ioapics[i] IN
                     Wired(irq) \notin (b + 1)..(b + RedirectCount - 1) IN
  /\ apic.pc = "idle" =>
       /\ ~shared /\ ~skipped(IRQ_TIMER) => right(IRQ_TIMER, "timer")
       /\ apic.irq = IRQ_KEYBOARD /\ ~skipped(IRQ_KEYBOARD) => right(IRQ_KEYBOARD, "keyboard")
  /\ apic.pc = "stopped" => apic.base = 0 \/ apic.free = LastVector
                               \/ unknown \/ open(apic.irq)
  /\ apic.astray => apic.bsp # 0
=============================================================================
