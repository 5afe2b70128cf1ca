------------------------------- MODULE Virtio -------------------------------
(***************************************************************************)
(* Initialisation of a virtio device found on PCI (kernel/dev/virtio): the *)
(* scan of its vendor capabilities, the status handshake of its driver and *)
(* the construction of its split queues, whose pages the device uses from  *)
(* the moment a queue is enabled.  Every allocation may fail, and so may   *)
(* the mapping of a BAR.                                                   *)
(*                                                                         *)
(* A vendor capability is a record: its type, its own length ("short" of   *)
(* struct virtio_pci_cap, "cap" or "full"), its BAR ("beyond", "absent",   *)
(* "port" or "mmio"), whether offset and length are inside the BAR and     *)
(* whether the length holds the structure.                                 *)
(***************************************************************************)
EXTENDS Naturals, Sequences, FiniteSets

CONSTANTS DeviceKinds,    \* of "block", "scsi", "console" and "modern"
          CapLists,       \* sequences of vendor capabilities
          QueueSizes,     \* what queue_size may read
          MaxQueues,      \* VIRTIO_SCSI_QUEUE_MAX_COUNT
          MaxDesc,        \* VIRTQ_MAX_DESC_COUNT
          DescPerPage,    \* descriptors that fit in a page
          UsedPerPage     \* entries of the used ring that fit in a page

CapTypes == {"common", "notify", "isr", "device", "pci", "shmem", "vendor"}

ASSUME CapsAssumption ==
    /\ CapLists \subseteq
         Seq([type : CapTypes, len : {"short", "cap", "full"}, inside : BOOLEAN, long : BOOLEAN,
              bar : {"beyond", "absent", "port", "mmio"}])
    /\ MaxQueues \in Nat

VARIABLE vio

Features == {"required", "version_1", "other"}

Devices ==
    {d \in [kind : DeviceKinds, offered : SUBSET Features, refuses : BOOLEAN,
            caps : CapLists, size : QueueSizes, num_queues : 0..(MaxQueues + 1)] :
        d.refuses => "version_1" \in d.offered}

VioStart ==
    {[dev |-> d, pc |-> "caps", k |-> 1, cfg |-> {}, shmem |-> 0, vendor |-> 0,
      status |-> {}, reg |-> {}, accepted |-> {},
      queue |-> 0, count |-> 0, owned |-> {}, given |-> {}, listed |-> 0] : d \in Devices}

VioInit == vio \in VioStart

(***************************************************************************)
(* init_from_pci.  A capability that is refused is skipped; the register   *)
(* blocks are addressed through bar->mmio even for a port BAR, and a BAR   *)
(* whose mapping failed is used all the same: pci_map_bar answers          *)
(* E_PARSE_BAR_MMIO_MAP_FAIL, which is true.  Both end in a fault.         *)
(***************************************************************************)
Skipped(cap) ==
    \/ cap.len = "short"
    \/ cap.bar \in {"beyond", "absent"}
    \/ ~cap.inside
    \/ cap.type = "common" /\ ~cap.long
    \/ cap.type = "notify" /\ cap.len # "full"

Through(cap) == cap.type \in {"common", "notify", "device"}

\* What a capability that is not skipped is recorded as.
Recorded(cap, allocated) ==
    CASE cap.type = "shmem" -> [vio EXCEPT !.shmem = @ + (IF allocated THEN 1 ELSE 0)]
      [] cap.type = "vendor" -> [vio EXCEPT !.vendor = @ + (IF allocated THEN 1 ELSE 0)]
      [] OTHER -> [vio EXCEPT !.cfg = @ \cup {cap.type}]

ScanCapability ==
    /\ vio.pc = "caps" /\ vio.k <= Len(vio.dev.caps)
    /\ LET cap == vio.dev.caps[vio.k] IN
       \/ /\ Skipped(cap)
          /\ vio' = [vio EXCEPT !.k = @ + 1]
       \/ /\ cap.len # "short" /\ cap.bar = "mmio"   \* the BAR cannot be mapped
          /\ vio' = [vio EXCEPT !.pc = "fault"]
       \/ /\ ~Skipped(cap) /\ cap.bar = "port" /\ Through(cap)
          /\ vio' = [vio EXCEPT !.pc = "fault"]
       \/ /\ ~Skipped(cap) /\ ~(cap.bar = "port" /\ Through(cap))
          /\ \E allocated \in BOOLEAN :
                 vio' = [Recorded(cap, allocated) EXCEPT !.k = @ + 1]

\* The notify offset read from the common configuration may be out of range.
EndScan ==
    /\ vio.pc = "caps" /\ vio.k > Len(vio.dev.caps)
    /\ \/ /\ "common" \notin vio.cfg \/ Len(vio.dev.caps) = 0
          /\ vio' = [vio EXCEPT !.pc = "done"]
       \/ /\ {"common", "notify"} \subseteq vio.cfg
          /\ vio' = [vio EXCEPT !.pc = "done"]
       \/ /\ "common" \in vio.cfg
          /\ vio' = [vio EXCEPT !.pc = "reset"]

(***************************************************************************)
(* virtio_pci_init.  `reg` is the device's status register, `status` the   *)
(* driver's copy of it.  drivers[] ends at the SCSI host: for a device of  *)
(* a later kind, the entry read past it is anything.                       *)
(***************************************************************************)
required_features == {"required"}
HasDriver == vio.dev.kind \in {"block", "scsi"}
virtqueue_count == IF vio.dev.kind = "block" THEN 2 ELSE 0

FindDriver ==
    /\ vio.pc = "reset"
    /\ \/ /\ ~HasDriver
          /\ vio' = [vio EXCEPT !.pc = "done", !.listed = @ + 1]
       \/ /\ vio.dev.kind = "modern"
          /\ vio' = [vio EXCEPT !.pc = "fault"]
       \/ /\ HasDriver
          /\ vio' = [vio EXCEPT !.reg = {"ACKNOWLEDGE", "DRIVER"},
                                !.status = {"ACKNOWLEDGE"}, !.pc = "features"]

\* init_from_pci lists the device whatever virtio_pci_init returned.
Return(s) == [s EXCEPT !.pc = "done", !.listed = @ + 1]

NegotiateFeatures ==
    /\ vio.pc = "features"
    /\ vio' = IF required_features \subseteq vio.dev.offered
              THEN [vio EXCEPT !.accepted = vio.dev.offered,
                               !.pc = IF "version_1" \in vio.dev.offered
                                      THEN "features_ok" ELSE "driver_ok"]
              ELSE Return(vio)

MutSkipReread(reg) == TRUE

\* The device clears FEATURES_OK when it does not accept the subset.
StillSet(reg) == "FEATURES_OK" \in reg

FeaturesOk ==
    /\ vio.pc = "features_ok"
    /\ LET reg == vio.reg \cup (IF vio.dev.refuses THEN {} ELSE {"FEATURES_OK"})
           s == [vio EXCEPT !.reg = reg, !.status = reg]
       IN  vio' = IF StillSet(reg) THEN [s EXCEPT !.pc = "driver_ok"] ELSE Return(s)

\* DRIVER_OK is set before any queue exists; `status` is the copy read before.
DriverOk ==
    /\ vio.pc = "driver_ok"
    /\ vio' = [vio EXCEPT !.status = vio.reg, !.reg = @ \cup {"DRIVER_OK"},
                          !.count = virtqueue_count,
                          !.pc = IF virtqueue_count = 0 THEN "init" ELSE "queues"]

Fail(s) == Return([s EXCEPT !.reg = vio.status \cup {"FAILED"}])

\* virtio_block_driver_init and virtio_scsi_driver_init: both read the device
\* configuration, which must exist, and both return NULL in the end.
DriverInit ==
    /\ vio.pc = "init"
    /\ vio' = IF "device" \notin vio.cfg THEN [vio EXCEPT !.pc = "fault"]
              ELSE IF vio.dev.kind = "block" THEN Fail(vio)
              ELSE [vio EXCEPT !.count = IF vio.dev.num_queues > MaxQueues
                                         THEN MaxQueues ELSE vio.dev.num_queues,
                               !.pc = "queues"]

(***************************************************************************)
(* virtio_device_init_queues and virtio_split_queue_init.  A page is named *)
(* by its queue, its part and its order; `given` are the pages the device  *)
(* was told of.                                                            *)
(***************************************************************************)
desc_count == IF vio.dev.size > MaxDesc THEN MaxDesc ELSE vio.dev.size
DescPages == <<vio.queue, "desc", IF desc_count > DescPerPage THEN 1 ELSE 0>>
AvailPage == <<vio.queue, "avail", 0>>
UsedPages == <<vio.queue, "used", IF desc_count > UsedPerPage THEN 1 ELSE 0>>


AllocQueues ==
    /\ vio.pc = "queues"
    /\ \/ vio' = Fail(vio)                          \* no memory for queue_list
       \/ vio' = [vio EXCEPT !.pc = "queue"]

AllocDesc ==
    /\ vio.pc = "queue" /\ vio.queue < vio.count
    /\ \/ vio' = Fail(vio)
       \/ vio' = [vio EXCEPT !.owned = @ \cup {DescPages}, !.pc = "avail"]

AllocAvail ==
    /\ vio.pc = "avail"
    /\ \/ vio' = Fail([vio EXCEPT !.owned = @ \ {DescPages}])
       \/ vio' = [vio EXCEPT !.owned = @ \cup {AvailPage}, !.pc = "used"]

MutKeepAvail == {DescPages}

\* What is freed when the used ring cannot be allocated.
Unwound == {AvailPage, DescPages}

AllocUsed ==
    /\ vio.pc = "used"
    /\ \/ vio' = Fail([vio EXCEPT !.owned = @ \ Unwound])
       \/ vio' = [vio EXCEPT !.owned = @ \cup {UsedPages}, !.pc = "enable"]

\* The queue is enabled before its descriptors are linked; a queue without
\* descriptors sends the linking loop past the end of the page.
EnableQueue ==
    /\ vio.pc = "enable"
    /\ vio' = [vio EXCEPT !.given = @ \cup {DescPages, AvailPage, UsedPages},
                          !.pc = IF desc_count = 0 THEN "fault" ELSE "link"]

LinkDescriptors ==
    /\ vio.pc = "link"
    /\ vio' = [vio EXCEPT !.queue = @ + 1, !.pc = "queue"]

QueuesDone ==
    /\ vio.pc = "queue" /\ vio.queue = vio.count
    /\ vio' = IF vio.dev.kind = "block" THEN [vio EXCEPT !.pc = "init"]
              ELSE Fail(vio)

VioNext ==
    \/ ScanCapability \/ EndScan \/ FindDriver \/ NegotiateFeatures \/ FeaturesOk
    \/ DriverOk \/ DriverInit \/ AllocQueues \/ AllocDesc \/ AllocAvail \/ AllocUsed
    \/ EnableQueue \/ LinkDescriptors \/ QueuesDone

(***************************************************************************)
(* Properties.                                                             *)
(***************************************************************************)
\* A page the device was given with a queue stays allocated, whatever fails
\* afterwards, and a queue that could not be built leaves no page behind:
\* between two queues the pages held are exactly those the device was given
\* (virtio_split_queue_init's unwinding, split.c:55-95).
QueuePagesHeld ==
    /\ vio.given \subseteq vio.owned
    /\ vio.pc \notin {"avail", "used", "enable"} => vio.owned = vio.given

\* The driver runs (DRIVER_OK) only on a device that has the features the
\* driver requires and has accepted the subset written to it, and no device is
\* left running when its initialisation is over: every return after DRIVER_OK
\* writes back a status without it (init.c:160-193).
RunsOnlyAccepted ==
    /\ "DRIVER_OK" \in vio.reg =>
           /\ required_features \subseteq vio.accepted
           /\ "version_1" \in vio.accepted => ~vio.dev.refuses
    /\ vio.pc = "done" => "DRIVER_OK" \notin vio.reg

\* Whatever fails on the way, the device keeps the pages it was given and runs only
\* on the features it accepted, until its initialisation is over.
VirtioSound == QueuePagesHeld /\ RunsOnlyAccepted
============================================================================
