----------------------------- MODULE MCDevices -----------------------------
(***************************************************************************)
(* The device drivers, for TLC.  They do not share state: `part` is the    *)
(* one that runs in a behaviour, and the others are at rest.               *)
(***************************************************************************)
EXTENDS TLC, Ps2, Ps2Keyboard, Rtc, Apic, Pci, Virtio, Gic

VARIABLE part

(* The ACPI interrupt table of a PC. *)
MCEntries ==
    {[kind |-> "lapic"], [kind |-> "invalid"], [kind |-> "override", base |-> 0]}
    \cup {[kind |-> "nmi", lint |-> l] : l \in {0, 1}}
    \cup {[kind |-> "ioapic", gsi |-> g, aligned |-> a, known |-> k] :
             <<g, a, k>> \in {<<0, TRUE, TRUE>>, <<4, TRUE, TRUE>>, <<4, TRUE, FALSE>>, <<0, FALSE, TRUE>>}}
    \cup {[kind |-> "iso", src |-> s, gsi |-> g] : <<s, g>> \in {<<0, 2>>, <<0, 6>>, <<1, 4>>}}

(* The one of an AArch64 machine. *)
MCGicEntries ==
    {[kind |-> "gicd"], [kind |-> "invalid"]}
    \cup {[kind |-> "gicc", mpidr |-> m] : m \in {0, 1, 9}}
    \cup {[kind |-> "msi", aligned |-> TRUE, id |-> 1], [kind |-> "msi", aligned |-> FALSE, id |-> 2]}

(* Functions on the PCI bus. *)
BarOf(kind, pref, base, size) == [kind |-> kind, pref |-> pref, base |-> base, size |-> size]
none == BarOf("none", FALSE, 0, 0)
io == BarOf("io", FALSE, 8, 4)
m32 == BarOf("mem32", FALSE, 32, 16)
m32p == BarOf("mem32", TRUE, 32, 32)
m64 == BarOf("mem64", TRUE, 512, 128)
m64s == BarOf("mem64", FALSE, 160, 16)
rsvd == BarOf("rsvd", FALSE, 16, 16)
up(b) == [b EXCEPT !.kind = "upper", !.pref = FALSE]
Dev(h, v, bars, first, caps) ==
    [header |-> h, vendor |-> v, bars |-> bars, first |-> first, caps |-> caps, command |-> {"mem"}]
Cap(id, n) == [id |-> id, next |-> n]
MCLayouts ==
    {Dev(h, "x", <<none, none, none>>, 0, 64 :> Cap("msi", 0)) : h \in {"absent", "bridge", "cardbus"}}
    \cup {Dev("general", "x", <<m64, up(m64), m32p>>, 64, 64 :> Cap("msi", 72) @@ 72 :> Cap("msix", 64)),
          Dev("general", "virtio", <<io, m64s, up(m64s)>>, 64,
              64 :> Cap("vendor", 80) @@ 80 :> Cap("vendor", 72) @@ 72 :> Cap("msix", 65)),
          Dev("general", "virtio", <<m32, none, m64>>, 68,
              64 :> Cap("vendor", 64) @@ 68 :> Cap("pcie", 72) @@ 72 :> Cap("msix", 64)),
          Dev("general", "x", <<io, rsvd, m32>>, 16, 64 :> Cap("vendor", 255)),
          Dev("general", "x", <<none, m32, io>>, 72,
              64 :> Cap("vendor", 255) @@ 72 :> Cap("msix", 80) @@ 80 :> Cap("msi", 64))}

(* Vendor capabilities of a virtio device. *)
VCap(t, l, b, i, g) == [type |-> t, len |-> l, bar |-> b, inside |-> i, long |-> g]
Good(t) == VCap(t, "full", "mmio", TRUE, TRUE)
MCCapLists ==
    {<<>>, <<Good("common"), Good("notify"), Good("device")>>,
     <<VCap("isr", "short", "mmio", TRUE, TRUE), Good("common"), VCap("device", "full", "beyond", TRUE, TRUE),
       Good("device")>>,
     <<VCap("common", "cap", "mmio", TRUE, FALSE), VCap("notify", "cap", "mmio", TRUE, TRUE), Good("shmem"),
       Good("vendor")>>,
     <<Good("common"), Good("isr")>>, <<VCap("common", "cap", "port", TRUE, TRUE)>>,
     <<VCap("isr", "cap", "port", TRUE, TRUE), VCap("common", "cap", "absent", TRUE, TRUE),
       VCap("common", "cap", "mmio", FALSE, TRUE)>>}

vars == <<part, ps2, kbd, rtc, apic, pci, vio, gic>>

(* Each component at rest. *)
Ps2Rest == [(CHOOSE s \in Ps2Start : \A p \in Ports : s.kind[p] = "none") EXCEPT !.pc = "done"]
RtcRest == CHOOSE s \in RtcStart : TRUE
ApicRest == CHOOSE s \in ApicStart : s.madt = <<>>
PciRest == [(CHOOSE s \in PciStart : TRUE) EXCEPT !.pc = "done"]
VioRest == CHOOSE s \in VioStart : TRUE
GicRest == CHOOSE s \in GicStart : TRUE

Init ==
    /\ part \in {"ps2", "kbd", "rtc", "apic", "pci", "vio", "gic"}
    /\ KbdInit
    /\ IF part = "ps2" THEN Ps2Init ELSE ps2 = Ps2Rest
    /\ IF part = "rtc" THEN RtcInit ELSE rtc = RtcRest
    /\ IF part = "apic" THEN ApicInit ELSE apic = ApicRest
    /\ IF part = "pci" THEN PciInit ELSE pci = PciRest
    /\ IF part = "vio" THEN VioInit ELSE vio = VioRest
    /\ IF part = "gic" THEN GicInit ELSE gic = GicRest

Next ==
    \/ part = "ps2" /\ Ps2Next /\ UNCHANGED <<part, kbd, rtc, apic, pci, vio, gic>>
    \/ part = "kbd" /\ KbdNext /\ UNCHANGED <<part, ps2, rtc, apic, pci, vio, gic>>
    \/ part = "rtc" /\ RtcNext /\ UNCHANGED <<part, ps2, kbd, apic, pci, vio, gic>>
    \/ part = "apic" /\ ApicNext /\ UNCHANGED <<part, ps2, kbd, rtc, pci, vio, gic>>
    \/ part = "pci" /\ PciNext /\ UNCHANGED <<part, ps2, kbd, rtc, apic, vio, gic>>
    \/ part = "vio" /\ VioNext /\ UNCHANGED <<part, ps2, kbd, rtc, apic, pci, gic>>
    \/ part = "gic" /\ GicNext /\ UNCHANGED <<part, ps2, kbd, rtc, apic, pci, vio>>

Spec ==
    /\ Init /\ [][Next]_vars
    /\ WF_vars(part = "ps2" /\ Ps2Driver /\ UNCHANGED <<part, kbd, rtc, apic, pci, vio, gic>>)
    /\ WF_vars(part = "pci" /\ PciScan /\ UNCHANGED <<part, ps2, kbd, rtc, apic, vio, gic>>)

\* The initialisation of the PS/2 controller and the enumeration of the PCI bus return,
\* whatever the devices answer and however capabilities are chained.
InitReturns == Ps2InitReturns /\ PciInitReturns
============================================================================
