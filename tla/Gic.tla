--------------------------------- MODULE Gic ---------------------------------
(***************************************************************************)
(* Interrupt set-up on AArch64: the GIC entries of the ACPI interrupt      *)
(* table (kernel/acpi/madt.c) register processors (cpu.c) and MSI frames,  *)
(* then the distributor and the boot processor's interface are programmed  *)
(* (sys/gic.c).  Mapping of registers and allocations may fail.            *)
(*                                                                         *)
(* A register bank is the set of the interrupt lines whose bit or field    *)
(* has been written; the words of a bank hold 32, 16 or 4 lines.           *)
(***************************************************************************)
EXTENDS Integers, Sequences, FiniteSets

CONSTANTS GicEntries,   \* entries a table may hold
          GicTable,     \* number of entries of one table
          LineCounts,   \* interrupt lines the distributor may have
          BaseMpidr     \* the boot processor's

\* interrupt_lines_count, min((TYPER.lines + 1) * 32, 1020).
ASSUME LinesAssumption == LineCounts \subseteq Nat

VARIABLE gic

SPI_START == 32
BankWords == 32         \* words of a bank of one bit per line

\* The lines of word `index` of a bank with `n` lines a word.
LinesOf(index, n) == (index * n)..((index * n) + (n - 1))

GicStart ==
    {[pc |-> "madt", table |-> table, at |-> 1, lines |-> lines,
      version |-> version, cpus |-> {}, interface |-> FALSE, frames |-> <<>>,
      dist |-> FALSE, regs |-> FALSE, control |-> FALSE,
      targets |-> {}, mask |-> {}, config |-> {}, group |-> {}, urgent |-> {},
      enabled |-> on, pending |-> {}, active |-> {}, intr |-> FALSE] :
        table \in [1..GicTable -> GicEntries], lines \in LineCounts,
        version \in {1, 2}, on \in {{}, {16, SPI_START}}}

GicInit == gic \in GicStart

(***************************************************************************)
(* madt_init, one entry a step.  Entries of a wrong length are skipped.    *)
(***************************************************************************)
\* A processor other than the boot processor gets a new cpu_info, and only
\* such a processor is added to g_cpu_list.
cpu_add_gic_interface(e) ==
    \/ /\ e.mpidr # BaseMpidr
       /\ gic' = [gic EXCEPT !.at = @ + 1]               \* no memory
    \/ gic' = [gic EXCEPT !.at = @ + 1, !.cpus = @ \cup ({e.mpidr} \ {BaseMpidr}),
                          !.interface = @ \/ e.mpidr = BaseMpidr]
    \/ gic' = [gic EXCEPT !.pc = "stopped"]              \* mapping failed: assert

gic_dist_add_msi(e) ==
    \/ /\ gic' = [gic EXCEPT !.at = @ + 1]               \* unaligned or not mapped
    \/ /\ e.aligned
       /\ gic' = [gic EXCEPT !.at = @ + 1, !.frames = Append(@, e.id)]

GicEntry ==
    /\ gic.pc = "madt" /\ gic.at <= GicTable
    /\ LET e == gic.table[gic.at] IN
       \/ e.kind = "gicc" /\ cpu_add_gic_interface(e)
       \/ e.kind = "gicd" /\ gic' = [gic EXCEPT !.at = @ + 1, !.dist = TRUE]
       \/ e.kind = "msi" /\ gic_dist_add_msi(e)
       \/ e.kind = "invalid" /\ gic' = [gic EXCEPT !.at = @ + 1]

\* The assertion at the end of madt_init, and the mapping in gic_dist_init: when
\* it fails the distributor stays unset, and gic_cpu_init is called all the same.
gic_dist_init ==
    /\ gic.pc = "madt" /\ gic.at > GicTable
    /\ \/ ~gic.dist /\ gic' = [gic EXCEPT !.pc = "stopped"]
       \/ gic.dist /\ gic' = [gic EXCEPT !.pc = "cpu"]
       \/ gic.dist /\ gic' = [gic EXCEPT !.pc = "targets", !.regs = TRUE]

(***************************************************************************)
(* init_with_regs.                                                         *)
(***************************************************************************)
Stepped(n) == {i \in SPI_START..(gic.lines - 1) : (i - SPI_START) % n = 0}

\* uint8_t mask: processors with a larger number fall out of it.
TargetMask == {m \in gic.cpus : m < 8}

MutTargetIndex(i) == i \div 8

TargetIndex(i) == i \div 4

SetTargets ==
    /\ gic.pc = "targets"
    /\ LET written == UNION {LinesOf(TargetIndex(i), 4) : i \in Stepped(4)} IN
       gic' = [gic EXCEPT !.control = FALSE, !.mask = TargetMask, !.targets = written,
                          !.urgent = written, !.pc = "config"]

SetConfig ==
    /\ gic.pc = "config"
    /\ gic' = [gic EXCEPT !.config = UNION {LinesOf(i \div 16, 16) : i \in Stepped(16)},
                          !.group = UNION {LinesOf(i \div 32, 32) : i \in Stepped(32)},
                          !.pc = "disable"]

\* The word is computed as i / 8, not i / 32: every fourth word is written,
\* and words past the bank are words of the banks behind it.
ClearIndex(i) == i \div 8

\* The lines of the words that fall in the k-th bank behind the one meant.
Behind(k, n) ==
    UNION {LinesOf(w - (BankWords * k), n) :
              w \in {ClearIndex(i) : i \in {j \in Stepped(32) : ClearIndex(j) \div BankWords = k}}}

\* Behind clear_enable lie set_pending, clear_pending and set_active; behind the
\* clear_active of a GICv1 the priorities, four lines a word.
DisableLines ==
    /\ gic.pc = "disable"
    /\ gic' = IF gic.version = 1
              THEN [gic EXCEPT !.urgent = @ \ UNION {LinesOf(ClearIndex(i) - BankWords, 4) :
                                                i \in {j \in Stepped(32) : ClearIndex(j) >= BankWords}},
                               !.control = TRUE, !.pc = "cpu"]
              ELSE [gic EXCEPT !.enabled = @ \ Behind(0, 32),
                               !.pending = (@ \cup Behind(1, 32)) \ Behind(2, 32),
                               !.active = @ \cup Behind(3, 32),
                               !.control = TRUE, !.pc = "cpu"]

\* The registers are those of a distributor and interface that must exist.
gic_cpu_init ==
    /\ gic.pc = "cpu"
    /\ gic' = IF ~gic.regs \/ ~gic.interface THEN [gic EXCEPT !.pc = "fault"]
              ELSE [gic EXCEPT !.enabled = (@ \ (16..31)) \cup 0..15,
                               !.intr = TRUE, !.pc = "done"]

GicNext ==
    \/ GicEntry \/ gic_dist_init \/ SetTargets \/ SetConfig \/ DisableLines \/ gic_cpu_init

(***************************************************************************)
(* Properties.                                                             *)
(***************************************************************************)
\* When the boot processor's interface is opened, the distributor is on and
\* every shared interrupt has been given the mask of the processors of
\* g_cpu_list below 8 (the mask's width) and made level triggered; of the private
\* interrupts the software-generated are on and the peripheral ones off.  With
\* at most 256 lines the words written to disable lines stay in their bank
\* (gic.c:195): nothing has become pending or active, and every shared interrupt
\* keeps priority 0.
GicProgrammed ==
    gic.intr =>
        /\ gic.control /\ gic.interface /\ gic.mask = {m \in gic.cpus : m < 8}
        /\ \A b \in {gic.targets, gic.config} :
              SPI_START..(gic.lines - 1) \subseteq b /\ b \cap 0..(SPI_START - 1) = {}
        /\ gic.enabled \cap 0..31 = 0..15
        /\ gic.lines <= 256 => /\ gic.pending = {} /\ gic.active = {}
                               /\ SPI_START..(gic.lines - 1) \subseteq gic.urgent
============================================================================
