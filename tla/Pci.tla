-------------------------------- MODULE Pci --------------------------------
(***************************************************************************)
(* Enumeration of the PCI functions of a domain (kernel/dev/pci): the walk *)
(* of the capability chain, the sizing of the base address registers with  *)
(* decoding switched off, the choice between MSI and MSI-X, the list of    *)
(* devices and the drivers' initialisation.  Every memory allocation may   *)
(* fail.                                                                   *)
(*                                                                         *)
(* A register is REG wide, its low four (memory) or two (port) bits are    *)
(* flags, as in the hardware; addresses and sizes are numbers below REG,   *)
(* or REG * REG for a 64-bit pair.  Configuration space lies below 64.     *)
(***************************************************************************)
EXTENDS Integers, Sequences, FiniteSets

CONSTANTS Functions,   \* number of functions scanned: 256 * 32 * 8 in the code
          BarCount,    \* PCI_BAR_COUNT_FOR_GENERAL
          MaxCaps,     \* 128: bound of the capability walk
          Layouts      \* what a function may look like

VARIABLE pci

REG == 64
UINT32_MAX == REG - 1
Below(v, unit) == v - (v % unit)

(***************************************************************************)
(* The hardware.  A BAR has a kind ("io", "mem32", "mem64", "upper",       *)
(* "rsvd" or "none"), a prefetchable bit, a base and a size.               *)
(***************************************************************************)
Flags(bar) ==
    (CASE bar.kind = "io" -> 1 [] bar.kind = "mem64" -> 4
       [] bar.kind = "rsvd" -> 2 [] OTHER -> 0)
    + (IF bar.pref THEN 8 ELSE 0)

\* Half `n` of an address: what the address bits of register i hold.
AddressBits(bar, n) ==
    CASE bar.kind = "none" -> 0
      [] bar.kind = "upper" -> n \div REG
      [] OTHER -> (n % REG) + Flags(bar)

\* write_bar(i, v): the bits below the size of the region are wired to zero.
Kept(bar, v) ==
    IF v = UINT32_MAX THEN AddressBits(bar, (REG * REG) - bar.size) ELSE v

\* The bus has a function to scan, and a register that is given back the address
\* it held keeps it.
ASSUME PciAssumption ==
    /\ Functions \in Nat \ {0} /\ BarCount \in Nat /\ MaxCaps \in Nat
    /\ \A hw \in Layouts : \A i \in 1..BarCount :
           LET bits == AddressBits(hw.bars[i], hw.bars[i].base)
           IN  Kept(hw.bars[i], bits) = bits

\* The BARs of a function as PCI lays them out: aligned, smaller than the space
\* they are decoded in, and the second register of a 64-bit one behind its first.
BarsLaidOut(bars) ==
    /\ bars \in [1..BarCount -> [kind : {"io", "mem32", "mem64", "upper", "rsvd", "none"},
                                 pref : BOOLEAN, base : Nat, size : Nat]]
    /\ \A i \in 1..BarCount :
         LET bar == bars[i] IN
         /\ bar.kind = "io" => bar.pref = FALSE /\ bar.base % 4 = 0 /\ bar.size % 4 = 0
         /\ bar.kind \in {"mem32", "mem64", "rsvd"} => bar.base % 16 = 0 /\ bar.size % 16 = 0
         /\ bar.kind \in {"io", "mem32"} => bar.base < REG /\ bar.size \in 1..(REG - 1)
         /\ bar.kind = "mem64" => bar.size \in 1..((REG * REG) - 1)
         /\ bar.kind = "mem64" /\ i < BarCount =>
              bars[i + 1].kind = "upper" /\ bars[i + 1].base = bar.base /\ bars[i + 1].size = bar.size
         /\ bar.kind = "upper" => i > 1 /\ bars[i - 1].kind = "mem64"

ASSUME LayoutsAssumption == \A hw \in Layouts : BarsLaidOut(hw.bars)

NoBar == [is_present |-> FALSE, is_mmio |-> FALSE, is_64_bit |-> FALSE,
          front |-> 0, size |-> 0]

NoInfo == [bars |-> [i \in 1..BarCount |-> NoBar], msi |-> "none", offset |-> 0,
           vendor_caps |-> <<>>, pcie |-> FALSE, command |-> {}]

PciStart ==
    {[hw |-> hw, f |-> 1, pc |-> "function", info |-> NoInfo,
      command |-> [f \in 1..Functions |-> hw[f].command],
      reg |-> [f \in 1..Functions |->
                  [i \in 1..BarCount |-> AddressBits(hw[f].bars[i], hw[f].bars[i].base)]],
      cap |-> 0, i |-> 0, index |-> 1, low |-> 0, high |-> 0, orig |-> 0,
      starved |-> FALSE, devices |-> <<>>, bound |-> <<>>, supports_msi |-> msi] :
        hw \in [1..Functions -> Layouts], msi \in BOOLEAN}

PciInit == pci \in PciStart

Here == pci.hw[pci.f]
ReadBar(i) == pci.reg[pci.f][i]
WriteBar(i, v) == [pci.reg EXCEPT ![pci.f][i] = Kept(Here.bars[i], v)]

\* The state in which the scan goes on with the next function, or ends.
NextFunction(s) ==
    IF s.f = Functions THEN [s EXCEPT !.pc = "drivers"]
    ELSE [s EXCEPT !.f = @ + 1, !.pc = "function", !.info = NoInfo,
                   !.cap = 0, !.i = 0, !.index = 1, !.starved = FALSE]

(***************************************************************************)
(* parse_function up to the BARs.  class_is_pci_bridge tests class 4,      *)
(* subclass 6, which no bridge has, so every function with a bridge header *)
(* is refused as a mismatch; the devices behind it are found by the scan   *)
(* of all buses.  A cardbus header is listed without BARs.                 *)
(***************************************************************************)
MutStaysEnabled(command) == command

Disabled(command) == command \ {"io", "mem"}

parse_function ==
    /\ pci.pc = "function"
    /\ LET start == [pci EXCEPT !.info.command = pci.command[pci.f],
                                !.command[pci.f] = Disabled(@)]
       IN  \/ /\ Here.header \in {"absent", "bridge"}
              /\ pci' = NextFunction(pci)
           \/ /\ Here.header = "cardbus"
              /\ pci' = [start EXCEPT !.pc = "enable"]
           \/ /\ Here.header = "general"
              /\ pci' = NextFunction(start)         \* no memory for bar_list
           \/ /\ Here.header = "general"
              /\ pci' = [start EXCEPT !.pc = "caps", !.cap = Here.first]

(***************************************************************************)
(* pci_parse_capabilities.  An offset that fails validate_cap_offset is    *)
(* tried again until the bound of the walk is met: only the counter moves. *)
(***************************************************************************)
validate_cap_offset(vendor_caps, offset) ==
    /\ offset >= REG
    /\ \A k \in DOMAIN vendor_caps :
           offset \notin {vendor_caps[k], vendor_caps[k] + 1}

MutUnboundedWalk == pci.cap \in {0, 255}

WalkEnds == pci.cap \in {0, 255} \/ pci.i = MaxCaps

\* The counter of the walk; it never passes MaxCaps.
Count(i) == (i + 1) % (MaxCaps + 1)

\* The MSI-X capability: its offset is stored, over that of an MSI capability
\* (the two fields share a union), before its table of vectors is allocated.
msix(allocated) ==
    IF pci.info.msi = "msix" THEN pci.info
    ELSE [pci.info EXCEPT !.offset = pci.cap,
                          !.msi = IF allocated THEN "msix" ELSE @]

\* What the capability adds to the device's description; the firmware's FADT
\* may rule message-signalled interrupts out (supports_msi).
Capability(id, allocated) ==
    CASE id \in {"msi", "msix"} /\ ~pci.supports_msi -> pci.info
      [] id = "msi" /\ pci.supports_msi ->
                       IF pci.info.msi = "msix" THEN pci.info
                       ELSE [pci.info EXCEPT !.msi = "msi", !.offset = pci.cap]
      [] id = "msix" /\ pci.supports_msi -> msix(allocated)
      [] id = "vendor" -> [pci.info EXCEPT !.vendor_caps = Append(@, pci.cap)]
      [] id = "pcie" -> [pci.info EXCEPT !.pcie = TRUE]
      [] OTHER -> pci.info

pci_parse_capabilities ==
    /\ pci.pc = "caps"
    /\ \/ /\ WalkEnds
          /\ pci' = [pci EXCEPT !.pc = "bar"]
       \/ /\ ~WalkEnds
          /\ ~validate_cap_offset(pci.info.vendor_caps, pci.cap)
          /\ pci' = [pci EXCEPT !.i = Count(@)]
       \/ /\ ~WalkEnds
          /\ validate_cap_offset(pci.info.vendor_caps, pci.cap)
          /\ \E allocated \in BOOLEAN :
                 LET id == Here.caps[pci.cap].id IN
                 pci' = IF id = "vendor" /\ ~allocated
                        THEN [pci EXCEPT !.pc = "bar"]
                        ELSE [pci EXCEPT !.info = Capability(id, allocated),
                                         !.starved = @ \/ (id = "msix" /\ ~allocated),
                                         !.cap = Here.caps[@].next,
                                         !.i = Count(@)]

(***************************************************************************)
(* pci_parse_bar and pci_bar_parse_size, one register access a step: all   *)
(* ones are written, what the device kept is read, the address is put      *)
(* back.  is_mmio is still unset when the size is computed, so the flags   *)
(* of a 32-bit memory BAR are masked as those of a port BAR.               *)
(***************************************************************************)
KindOf(v) == IF v % 2 = 1 THEN "io" ELSE
             CASE (v \div 2) % 4 = 0 -> "mem32" [] (v \div 2) % 4 = 2 -> "mem64"
               [] OTHER -> "rsvd"

MutOneRegister(kind) == 1

\* Registers the BAR occupies: the loop's index is moved past both of a pair.
Registers(kind) == IF kind = "mem64" THEN 2 ELSE 1

pci_parse_bar ==
    /\ pci.pc = "bar" /\ pci.index <= BarCount
    /\ LET v == ReadBar(pci.index)
       IN  IF KindOf(v) = "rsvd" \/ (KindOf(v) = "mem64" /\ pci.index = BarCount)
           THEN pci' = [pci EXCEPT !.pc = "enable"]
           ELSE pci' = [pci EXCEPT !.reg = WriteBar(pci.index, UINT32_MAX),
                                   !.orig = v, !.pc = "low"]

ReadLow ==
    /\ pci.pc = "low"
    /\ pci' = [pci EXCEPT !.low = ReadBar(pci.index),
                          !.reg = WriteBar(pci.index, pci.orig),
                          !.pc = IF KindOf(pci.orig) = "mem64" THEN "high" ELSE "size"]

\* The parsed BAR is entered at its first register; the loop skips the second.
Bar(front, size) ==
    [is_present |-> TRUE, is_mmio |-> KindOf(pci.orig) # "io",
     is_64_bit |-> KindOf(pci.orig) = "mem64", front |-> front, size |-> size]

Size32 ==
    /\ pci.pc = "size"
    /\ LET io == KindOf(pci.orig) = "io"
           size == (REG - Below(pci.low, 4)) % REG
           front == Below(pci.orig, IF io THEN 4 ELSE 16)
       IN  pci' = [pci EXCEPT !.info.bars[pci.index] =
                                  IF size = 0 THEN NoBar ELSE Bar(front, size),
                              !.index = @ + Registers(KindOf(pci.orig)), !.pc = "bar"]

SizeUpper ==
    /\ pci.pc = "high"
    /\ pci' = [pci EXCEPT !.reg = WriteBar(pci.index + 1, UINT32_MAX),
                          !.high = ReadBar(pci.index + 1), !.pc = "upper"]

Size64 ==
    /\ pci.pc = "upper"
    /\ LET high == ReadBar(pci.index + 1)
           size == ((REG * REG) - ((high * REG) + Below(pci.low, 16))) % (REG * REG)
       IN  pci' = [pci EXCEPT !.info.bars[pci.index] =
                                  IF size = 0 THEN NoBar
                                  ELSE Bar((pci.high * REG) + Below(pci.orig, 16), size),
                              !.reg = WriteBar(pci.index + 1, pci.high),
                              !.index = @ + Registers(KindOf(pci.orig)), !.pc = "bar"]

BarsDone ==
    /\ pci.pc = "bar" /\ pci.index > BarCount
    /\ pci' = [pci EXCEPT !.pc = "enable"]

(***************************************************************************)
(* The end of parse_function: decoding is enabled again, for the kinds of  *)
(* BARs found too, and the description is listed at the head.              *)
(***************************************************************************)
Enabled(info) ==
    info.command
    \cup {"mem" : i \in {j \in 1..BarCount : info.bars[j].is_present /\ info.bars[j].is_mmio}}
    \cup {"io" : i \in {j \in 1..BarCount : info.bars[j].is_present /\ ~info.bars[j].is_mmio}}

AddDevice ==
    /\ pci.pc = "enable"
    /\ LET on == [pci EXCEPT !.command[pci.f] = Enabled(pci.info)]
       IN  \/ pci' = NextFunction(on)                \* no memory for info_out
           \/ pci' = NextFunction([on EXCEPT !.devices =
                  <<[f |-> pci.f, info |-> pci.info, starved |-> pci.starved]>> \o @])

\* pci_init_drivers: the only PCI driver (virtio) matches by vendor.
pci_init_drivers ==
    /\ pci.pc = "drivers"
    /\ LET Virtio(d) == pci.hw[d.f].vendor = "virtio"
       IN  pci' = [pci EXCEPT !.bound = SelectSeq(pci.devices, Virtio), !.pc = "done"]

PciScan ==
    \/ parse_function \/ pci_parse_capabilities \/ pci_parse_bar \/ ReadLow
    \/ Size32 \/ SizeUpper \/ Size64 \/ BarsDone \/ AddDevice \/ pci_init_drivers

PciNext == PciScan

(***************************************************************************)
(* Properties.                                                             *)
(***************************************************************************)
\* A function answers on the bus only while its BARs hold the addresses the
\* firmware gave them: never with the all-ones pattern of the sizing, whichever
\* way parse_function leaves (comment at pci.c:604).
DecodesOnlyItsAddresses ==
    \A f \in 1..Functions :
        pci.command[f] \cap {"io", "mem"} # {} =>
            \A i \in 1..BarCount :
                pci.reg[f][i] = AddressBits(pci.hw[f].bars[i], pci.hw[f].bars[i].base)

\* The first register that ends the loop over the BARs of a function.
Bad(hw) ==
    LET bad == {i \in 1..BarCount :
                   hw.bars[i].kind \in IF i = BarCount THEN {"rsvd", "mem64"}
                                       ELSE {"rsvd"}}
    IN  IF bad = {} THEN BarCount + 1 ELSE CHOOSE i \in bad : \A j \in bad : i <= j

DescribedAsIs(d) ==
    LET hw == pci.hw[d.f] info == d.info IN
    /\ hw.header = "general" =>
         \A i \in 1..BarCount :
            LET bar == hw.bars[i] IN
            info.bars[i] =
                IF i >= Bad(hw) \/ bar.kind \in {"none", "upper", "rsvd"} THEN NoBar
                ELSE [is_present |-> TRUE, is_mmio |-> bar.kind # "io",
                      is_64_bit |-> bar.kind = "mem64", front |-> bar.base,
                      size |-> bar.size - (IF bar.kind = "mem32" /\ bar.pref THEN 8 ELSE 0)]
    /\ info.msi # "none" /\ ~d.starved => hw.caps[info.offset].id = info.msi
    /\ ~pci.supports_msi => info.msi = "none"
    /\ \A j, k \in DOMAIN info.vendor_caps :
           /\ hw.caps[info.vendor_caps[j]].id = "vendor"
           /\ info.vendor_caps[j] = info.vendor_caps[k] => j = k
    /\ \A i \in 1..BarCount :
           info.bars[i].is_present =>
               (IF info.bars[i].is_mmio THEN "mem" ELSE "io") \in pci.command[d.f]

\* A listed device is described as it is: each BAR before the first malformed
\* one has its own range, also behind a 64-bit pair (a prefetchable 32-bit BAR
\* is 8 bytes short: is_mmio is not set yet at pci.c:86); the offset kept for
\* MSI or MSI-X is that of such a capability, unless the table of MSI-X vectors
\* could not be allocated, and none is kept when the firmware rules MSI out;
\* vendor capabilities are listed once, whatever the shape of the chain; memory
\* or ports are decoded when a BAR of theirs exists.
ListedFaithfully == \A k \in DOMAIN pci.devices : DescribedAsIs(pci.devices[k])

\* The enumeration returns, however the capabilities of the functions are
\* chained (pci.c:368): also when one points back to itself or to another.
PciInitReturns == <>(pci.pc = "done")
============================================================================
