---------------------------- MODULE DeviceProofs ----------------------------
(***************************************************************************)
(* Proofs about PCI devices: virtio's set-up, and the scan that finds      *)
(* them.  Each section has the inductive invariant, the lemmas that every  *)
(* step keeps it, and the theorems.                                        *)
(***************************************************************************)
EXTENDS Virtio, Pci, TLAPS

-----------------------------------------------------------------------------
(***************************************************************************)
(* virtio.  VirtioSound says nothing of the pages of a queue under         *)
(* construction, nor of the handshake before DRIVER_OK; the invariant      *)
(* does: which pages of the queue exist at each step, that they are not    *)
(* among those given with an earlier queue (else unwinding would free a    *)
(* page the device uses), and what each step of the handshake has read.    *)
(***************************************************************************)
VioSpec == VioInit /\ [][VioNext]_vio

VioPages == Nat \X {"desc", "avail", "used"} \X {0, 1}

Before == {"caps", "reset"}
Negotiating == {"features", "features_ok"}
Building == {"avail", "used", "enable"}
Running == {"init", "queues", "queue", "link", "fault"} \cup Building

VioSteps == Before \cup Negotiating \cup Running \cup {"driver_ok", "done"}

StatusBits == {"ACKNOWLEDGE", "DRIVER", "FEATURES_OK", "DRIVER_OK", "FAILED"}

VioTypeOK ==
    /\ DOMAIN vio = {"dev", "pc", "k", "cfg", "shmem", "vendor", "status", "reg", "accepted",
                     "queue", "count", "owned", "given", "listed"}
    /\ vio.dev \in Devices /\ vio.pc \in VioSteps /\ vio.k \in Nat \ {0}
    /\ vio.cfg \subseteq CapTypes /\ vio.shmem \in Nat /\ vio.vendor \in Nat
    /\ vio.status \subseteq StatusBits /\ vio.reg \subseteq StatusBits /\ vio.accepted \subseteq Features
    /\ vio.queue \in Nat /\ vio.count \in Nat
    /\ vio.owned \subseteq VioPages /\ vio.given \subseteq VioPages /\ vio.listed \in Nat

\* The pages of the queue under construction.
Partial ==
    CASE vio.pc = "avail" -> {DescPages}
      [] vio.pc = "used" -> {DescPages, AvailPage}
      [] vio.pc = "enable" -> {DescPages, AvailPage, UsedPages}
      [] OTHER -> {}

PagesByStep ==
    /\ vio.owned = vio.given \cup Partial
    /\ \A p \in vio.given : IF vio.pc \in {"link", "fault"} THEN p[1] <= vio.queue ELSE p[1] < vio.queue

Handshake ==
    /\ "DRIVER_OK" \notin vio.status
    /\ vio.pc \in Before => vio.reg = {}
    /\ vio.pc \in Negotiating => vio.reg = {"ACKNOWLEDGE", "DRIVER"}
    /\ vio.pc \in {"driver_ok", "done"} => "DRIVER_OK" \notin vio.reg
    /\ vio.pc \in {"features_ok", "driver_ok"} => required_features \subseteq vio.accepted
    /\ vio.pc = "driver_ok" /\ "version_1" \in vio.accepted => ~vio.dev.refuses
    /\ "DRIVER_OK" \in vio.reg =>
           /\ required_features \subseteq vio.accepted
           /\ "version_1" \in vio.accepted => ~vio.dev.refuses

VioInv == VioTypeOK /\ PagesByStep /\ Handshake

\* The states a driver may be in before its first step satisfy the invariant.
LEMMA VioInitInv == VioInit => VioInv
  BY DEF VioInit, VioStart, VioInv, VioTypeOK, PagesByStep, Handshake, Partial, VioSteps, Before, Negotiating,
         Running, Building, required_features

\* The pages a step may allocate are pages, and belong to the queue under construction.
LEMMA PagesOfQueue ==
  ASSUME VioTypeOK
  PROVE  /\ DescPages \in VioPages /\ AvailPage \in VioPages /\ UsedPages \in VioPages
         /\ DescPages[1] = vio.queue /\ AvailPage[1] = vio.queue /\ UsedPages[1] = vio.queue
         /\ DescPages # AvailPage /\ DescPages # UsedPages /\ AvailPage # UsedPages
  BY DEF VioTypeOK, VioPages, DescPages, AvailPage, UsedPages

\* What `Fail` does to the fields, whether or not it gives back pages first.
Failed(owned) ==
  /\ DOMAIN vio' = DOMAIN vio
  /\ vio'.pc = "done" /\ vio'.reg = vio.status \cup {"FAILED"} /\ vio'.listed = vio.listed + 1
  /\ vio'.owned = owned
  /\ vio'.dev = vio.dev /\ vio'.k = vio.k /\ vio'.cfg = vio.cfg /\ vio'.shmem = vio.shmem
  /\ vio'.vendor = vio.vendor /\ vio'.status = vio.status /\ vio'.accepted = vio.accepted
  /\ vio'.queue = vio.queue /\ vio'.count = vio.count /\ vio'.given = vio.given

\* A device that failed keeps its other fields.
LEMMA FailFields ==
  ASSUME VioTypeOK
  PROVE  /\ vio' = Fail(vio) => Failed(vio.owned)
         /\ \A p : vio' = Fail([vio EXCEPT !.owned = @ \ p]) => Failed(vio.owned \ p)
  BY Zenon DEF VioTypeOK, Fail, Return, Failed

\* A failing driver keeps the types of its state, and its device does not run.
LEMMA FailKeeps ==
  ASSUME VioTypeOK, NEW o, o \subseteq VioPages, Failed(o)
  PROVE  VioTypeOK' /\ (Handshake => Handshake')
  <1>1. VioTypeOK'
    BY DEF VioTypeOK, Failed, VioSteps, StatusBits
  <1>2. Handshake => Handshake'
    BY DEF Failed, Handshake, Before, Negotiating
  <1> QED BY <1>1, <1>2

\* The capabilities of a device.
LEMMA CapsOf == \A d \in Devices : d.caps \in CapLists
  BY DEF Devices

\* A device has a number of capabilities.
LEMMA CapLengths == \A s \in CapLists : Len(s) \in Nat
  <1>1. \A T : \A s \in Seq(T) : Len(s) \in Nat
    OBVIOUS
  <1> QED BY <1>1, CapsAssumption, Zenon

\* Every step of the initialisation keeps the types of the driver's state.
LEMMA VioTypeStep == VioTypeOK /\ VioNext => VioTypeOK'
  <1> SUFFICES ASSUME VioTypeOK, VioNext PROVE VioTypeOK'
    OBVIOUS
  <1> USE DEF VioSteps, Before, Negotiating, Running, Building
  <1>0. /\ vio' = Fail(vio) => VioTypeOK'
        /\ \A p : vio' = Fail([vio EXCEPT !.owned = @ \ p]) => VioTypeOK'
    <2>1. vio.owned \subseteq VioPages /\ \A p : vio.owned \ p \subseteq VioPages
      BY DEF VioTypeOK
    <2> QED BY <2>1, FailFields, FailKeeps, Zenon
  <1>1. CASE ScanCapability
    <2>1. vio.dev.caps \in CapLists /\ vio.k \in 1 .. Len(vio.dev.caps)
      <3>1. vio.k <= Len(vio.dev.caps)
        BY <1>1, Zenon DEF ScanCapability
      <3>2. vio.dev \in Devices /\ vio.k \in Nat \ {0}
        BY Zenon DEF VioTypeOK
      <3>3. vio.dev.caps \in CapLists
        BY <3>2, CapsOf, Zenon
      <3>4. Len(vio.dev.caps) \in Nat
        BY <3>3, CapLengths, Zenon
      <3>5. \A k \in Nat \ {0}, n \in Nat : k <= n => k \in 1 .. n
        OBVIOUS
      <3> QED BY <3>1, <3>2, <3>3, <3>4, <3>5, Zenon
    <2>2. vio.dev.caps[vio.k].type \in CapTypes
      <3> DEFINE Caps == [type : CapTypes, len : {"short", "cap", "full"}, inside : BOOLEAN,
                          long : BOOLEAN, bar : {"beyond", "absent", "port", "mmio"}]
      <3>1. vio.dev.caps \in Seq(Caps)
        BY <2>1, CapsAssumption, Zenon
      <3>2. \A c \in Caps : c.type \in CapTypes
        OBVIOUS
      <3> HIDE DEF Caps
      <3>3. vio.dev.caps[vio.k] \in Caps
        BY <2>1, <3>1
      <3> QED BY <3>2, <3>3
    <2>3. CASE vio' = [vio EXCEPT !.k = @ + 1]
      BY <2>3 DEF VioTypeOK
    <2>4. CASE vio' = [vio EXCEPT !.pc = "fault"]
      BY <2>4 DEF VioTypeOK
    <2>5. ASSUME NEW allocated \in BOOLEAN,
                 vio' = [Recorded(vio.dev.caps[vio.k], allocated) EXCEPT !.k = @ + 1]
          PROVE  VioTypeOK'
      <3> DEFINE type == vio.dev.caps[vio.k].type
                 more == IF allocated THEN 1 ELSE 0
      <3>1. more \in Nat
        OBVIOUS
      <3>2. \/ vio' = [[vio EXCEPT !.shmem = @ + more] EXCEPT !.k = @ + 1]
            \/ vio' = [[vio EXCEPT !.vendor = @ + more] EXCEPT !.k = @ + 1]
            \/ vio' = [[vio EXCEPT !.cfg = @ \cup {type}] EXCEPT !.k = @ + 1]
        BY <2>5, Zenon DEF Recorded
      <3> HIDE DEF type, more
      <3>3. CASE vio' = [[vio EXCEPT !.shmem = @ + more] EXCEPT !.k = @ + 1]
        BY <3>1, <3>3 DEF VioTypeOK
      <3>4. CASE vio' = [[vio EXCEPT !.vendor = @ + more] EXCEPT !.k = @ + 1]
        BY <3>1, <3>4 DEF VioTypeOK
      <3>5. CASE vio' = [[vio EXCEPT !.cfg = @ \cup {type}] EXCEPT !.k = @ + 1]
        <4>1. type \in CapTypes
          BY <2>2, Zenon DEF type
        <4> QED BY <3>5, <4>1 DEF VioTypeOK
      <3> QED BY <3>2, <3>3, <3>4, <3>5, Zenon
    <2> QED BY <1>1, <2>3, <2>4, <2>5, Zenon DEF ScanCapability
  <1>2. CASE EndScan
    BY <1>2 DEF EndScan, VioTypeOK
  <1>3. CASE FindDriver
    <2>1. CASE vio' = [vio EXCEPT !.pc = "done", !.listed = @ + 1]
      BY <2>1 DEF VioTypeOK
    <2>2. CASE vio' = [vio EXCEPT !.pc = "fault"]
      BY <2>2 DEF VioTypeOK
    <2>3. CASE vio' = [vio EXCEPT !.reg = {"ACKNOWLEDGE", "DRIVER"},
                                  !.status = {"ACKNOWLEDGE"}, !.pc = "features"]
      BY <2>3 DEF VioTypeOK, StatusBits
    <2> QED BY <1>3, <2>1, <2>2, <2>3 DEF FindDriver
  <1>4. CASE NegotiateFeatures
    BY <1>4 DEF NegotiateFeatures, Return, Devices, VioTypeOK
  <1>5. CASE FeaturesOk
    BY <1>5 DEF FeaturesOk, Return, VioTypeOK, StatusBits
  <1>6. CASE DriverOk
    BY <1>6 DEF DriverOk, virtqueue_count, VioTypeOK, StatusBits
  <1>7. CASE DriverInit
    <2>1. vio.dev.num_queues \in Nat /\ MaxQueues \in Nat
      BY CapsAssumption DEF Devices, VioTypeOK
    <2>2. ASSUME NEW n \in Nat, vio' = [vio EXCEPT !.count = n, !.pc = "queues"]
          PROVE  VioTypeOK'
      BY <2>2 DEF VioTypeOK
    <2>3. CASE vio' = [vio EXCEPT !.pc = "fault"]
      BY <2>3 DEF VioTypeOK
    <2> QED BY <1>0, <1>7, <2>1, <2>2, <2>3, Zenon DEF DriverInit
  <1>8. CASE AllocQueues
    BY <1>0, <1>8 DEF AllocQueues, VioTypeOK
  <1>9. CASE AllocDesc
    <2>1. CASE vio' = [vio EXCEPT !.owned = @ \cup {DescPages}, !.pc = "avail"]
      BY <2>1, PagesOfQueue DEF VioTypeOK
    <2> QED BY <1>0, <1>9, <2>1 DEF AllocDesc
  <1>10. CASE AllocAvail
    <2>1. CASE vio' = [vio EXCEPT !.owned = @ \cup {AvailPage}, !.pc = "used"]
      BY <2>1, PagesOfQueue DEF VioTypeOK
    <2> QED BY <1>0, <1>10, <2>1, Zenon DEF AllocAvail
  <1>11. CASE AllocUsed
    <2>1. CASE vio' = [vio EXCEPT !.owned = @ \cup {UsedPages}, !.pc = "enable"]
      BY <2>1, PagesOfQueue DEF VioTypeOK
    <2> QED BY <1>0, <1>11, <2>1 DEF AllocUsed
  <1>12. CASE EnableQueue
    BY <1>12, PagesOfQueue DEF EnableQueue, VioTypeOK
  <1>13. CASE LinkDescriptors
    BY <1>13 DEF LinkDescriptors, VioTypeOK
  <1>14. CASE QueuesDone
    BY <1>0, <1>14 DEF QueuesDone, VioTypeOK
  <1> QED BY <1>1, <1>2, <1>3, <1>4, <1>5, <1>6, <1>7, <1>8, <1>9, <1>10, <1>11, <1>12, <1>13, <1>14
          DEF VioNext

\* Every step of the handshake leaves what was read from the device in agreement with
\* what the driver goes on to do.
LEMMA HandshakeStep == VioTypeOK /\ Handshake /\ VioNext => Handshake'
  <1> SUFFICES ASSUME VioTypeOK, Handshake, VioNext PROVE Handshake'
    OBVIOUS
  <1> USE DEF Handshake, Before, Negotiating, Running, Building, required_features
  <1>0. /\ vio' = Fail(vio) => Handshake'
        /\ \A p : vio' = Fail([vio EXCEPT !.owned = @ \ p]) => Handshake'
    <2>1. vio.owned \subseteq VioPages /\ \A p : vio.owned \ p \subseteq VioPages
      BY DEF VioTypeOK
    <2> QED BY <2>1, FailFields, FailKeeps, Zenon
  <1>1. CASE ScanCapability
    <2>1. CASE vio' = [vio EXCEPT !.k = @ + 1]
      BY <2>1 DEF VioTypeOK
    <2>2. CASE vio' = [vio EXCEPT !.pc = "fault"]
      BY <1>1, <2>2, Zenon DEF VioTypeOK, ScanCapability
    <2>3. ASSUME NEW allocated \in BOOLEAN,
                 vio' = [Recorded(vio.dev.caps[vio.k], allocated) EXCEPT !.k = @ + 1]
          PROVE  Handshake'
      BY <2>3, Zenon DEF Recorded, VioTypeOK
    <2> QED BY <1>1, <2>1, <2>2, <2>3, Zenon DEF ScanCapability
  <1>2. CASE EndScan
    BY <1>2 DEF EndScan, VioTypeOK
  <1>3. CASE FindDriver
    <2>1. CASE vio' = [vio EXCEPT !.pc = "done", !.listed = @ + 1]
      BY <1>3, <2>1 DEF VioTypeOK, FindDriver
    <2>2. CASE vio' = [vio EXCEPT !.pc = "fault"]
      BY <1>3, <2>2 DEF VioTypeOK, FindDriver
    <2>3. CASE vio' = [vio EXCEPT !.reg = {"ACKNOWLEDGE", "DRIVER"},
                                  !.status = {"ACKNOWLEDGE"}, !.pc = "features"]
      BY <2>3 DEF VioTypeOK
    <2> QED BY <1>3, <2>1, <2>2, <2>3 DEF FindDriver
  <1>4. CASE NegotiateFeatures
    BY <1>4 DEF NegotiateFeatures, Return, VioTypeOK
  <1>5. CASE FeaturesOk
    BY <1>5 DEF FeaturesOk, Return, StillSet, VioTypeOK
  <1>6. CASE DriverOk
    BY <1>6 DEF DriverOk, VioTypeOK
  <1>7. CASE DriverInit
    BY <1>0, <1>7 DEF DriverInit, VioTypeOK
  <1>8. CASE AllocQueues
    BY <1>0, <1>8 DEF AllocQueues, VioTypeOK
  <1>9. CASE AllocDesc
    BY <1>0, <1>9, Zenon DEF AllocDesc, VioTypeOK
  <1>10. CASE AllocAvail
    BY <1>0, <1>10, ZenonT(40) DEF AllocAvail, VioTypeOK
  <1>11. CASE AllocUsed
    BY <1>0, <1>11, Zenon DEF AllocUsed, VioTypeOK
  <1>12. CASE EnableQueue
    BY <1>12 DEF EnableQueue, VioTypeOK
  <1>13. CASE LinkDescriptors
    BY <1>13 DEF LinkDescriptors, VioTypeOK
  <1>14. CASE QueuesDone
    BY <1>0, <1>14 DEF QueuesDone, VioTypeOK
  <1> QED BY Zenon, <1>1, <1>2, <1>3, <1>4, <1>5, <1>6, <1>7, <1>8, <1>9, <1>10, <1>11, <1>12, <1>13, <1>14
          DEF VioNext

\* Every step allocates, frees and gives exactly the pages of the queue it builds:
\* what is freed after a failure is never a page the device was given.
LEMMA PagesStep == VioTypeOK /\ PagesByStep /\ VioNext => PagesByStep'
  <1> SUFFICES ASSUME VioTypeOK, PagesByStep, VioNext PROVE PagesByStep'
    OBVIOUS
  <1>0. /\ vio.given \cap {DescPages, AvailPage, UsedPages} = {} \/ vio.pc \in {"link", "fault"}
        /\ vio.queue \in Nat /\ \A p \in vio.given : p[1] \in Nat
    <2>1. vio.queue \in Nat /\ \A p \in vio.given : p[1] \in Nat
      BY DEF VioTypeOK, VioPages
    <2> QED BY <2>1, PagesOfQueue DEF PagesByStep
  <1>a. ASSUME vio.pc \notin {"link", "fault"}, Failed(vio.given)
        PROVE  PagesByStep'
    BY <1>a DEF Failed, PagesByStep, Partial
  <1>b. ASSUME vio'.pc \notin Building, vio.pc \notin Building \cup {"link"}, vio.pc # "fault",
               vio'.owned = vio.owned, vio'.given = vio.given, vio'.queue = vio.queue
        PROVE  PagesByStep'
    BY <1>0, <1>b DEF PagesByStep, Partial, Building
  <1>1. CASE ScanCapability
    <2>1. CASE vio' = [vio EXCEPT !.k = @ + 1]
      BY <1>b, <1>1, <2>1, Zenon DEF VioTypeOK, ScanCapability, Building
    <2>2. CASE vio' = [vio EXCEPT !.pc = "fault"]
      BY <1>b, <1>1, <2>2, Zenon DEF VioTypeOK, ScanCapability, Building
    <2>3. ASSUME NEW allocated \in BOOLEAN,
                 vio' = [Recorded(vio.dev.caps[vio.k], allocated) EXCEPT !.k = @ + 1]
          PROVE  PagesByStep'
      BY <1>b, <1>1, <2>3, Zenon DEF Recorded, VioTypeOK, ScanCapability, Building
    <2> QED BY <1>1, <2>1, <2>2, <2>3, Zenon DEF ScanCapability
  <1>2. CASE EndScan
    BY <1>b, <1>2 DEF EndScan, VioTypeOK, Building
  <1>3. CASE FindDriver
    BY <1>b, <1>3, Zenon DEF FindDriver, VioTypeOK, Building
  <1>4. CASE NegotiateFeatures
    BY <1>b, <1>4 DEF NegotiateFeatures, Return, VioTypeOK, Building
  <1>5. CASE FeaturesOk
    BY <1>b, <1>5 DEF FeaturesOk, Return, VioTypeOK, Building
  <1>6. CASE DriverOk
    BY <1>b, <1>6 DEF DriverOk, VioTypeOK, Building
  <1>7. CASE DriverInit
    <2>1. vio.owned = vio.given
      BY <1>7 DEF PagesByStep, Partial, DriverInit
    <2>2. CASE vio' = Fail(vio)
      BY <1>7, <1>a, <2>1, <2>2, FailFields DEF DriverInit
    <2>3. CASE vio' # Fail(vio)
      BY <1>7, <1>b, <2>3 DEF DriverInit, VioTypeOK, Building
    <2> QED BY <2>2, <2>3
  <1>8. CASE AllocQueues
    <2>1. vio.owned = vio.given
      BY <1>8 DEF PagesByStep, Partial, AllocQueues
    <2>2. CASE vio' = Fail(vio)
      BY <1>8, <1>a, <2>1, <2>2, FailFields DEF AllocQueues
    <2>3. CASE vio' # Fail(vio)
      BY <1>8, <1>b, <2>3 DEF AllocQueues, VioTypeOK, Building
    <2> QED BY <2>2, <2>3
  <1>9. CASE AllocDesc
    <2>1. vio.owned = vio.given
      BY <1>9 DEF PagesByStep, Partial, AllocDesc
    <2>2. CASE vio' = Fail(vio)
      BY <1>9, <1>a, <2>1, <2>2, FailFields DEF AllocDesc
    <2>3. CASE vio' = [vio EXCEPT !.owned = @ \cup {DescPages}, !.pc = "avail"]
      BY <1>9, <2>1, <2>3 DEF AllocDesc, VioTypeOK, PagesByStep, Partial, DescPages, desc_count
    <2> QED BY <1>9, <2>2, <2>3 DEF AllocDesc
  <1>10. CASE AllocAvail
    <2>1. vio.owned = vio.given \cup {DescPages}
      BY <1>10 DEF PagesByStep, Partial, AllocAvail
    <2>2. CASE vio' = Fail([vio EXCEPT !.owned = @ \ {DescPages}])
      <3>1. vio.owned \ {DescPages} = vio.given
        BY <1>0, <1>10, <2>1 DEF AllocAvail
      <3> QED BY <1>10, <1>a, <2>2, <3>1, FailFields, Zenon DEF AllocAvail
    <2>3. CASE vio' = [vio EXCEPT !.owned = @ \cup {AvailPage}, !.pc = "used"]
      BY <1>10, <2>1, <2>3 DEF AllocAvail, VioTypeOK, PagesByStep, Partial, DescPages, AvailPage, desc_count
    <2> QED BY <1>10, <2>2, <2>3 DEF AllocAvail
  <1>11. CASE AllocUsed
    <2>1. vio.owned = vio.given \cup {DescPages, AvailPage}
      BY <1>11 DEF PagesByStep, Partial, AllocUsed
    <2>2. CASE vio' = Fail([vio EXCEPT !.owned = @ \ Unwound])
      <3>1. vio.owned \ Unwound = vio.given
        BY <1>0, <1>11, <2>1 DEF AllocUsed, Unwound
      <3> QED BY <1>11, <1>a, <2>2, <3>1, FailFields DEF AllocUsed
    <2>3. CASE vio' = [vio EXCEPT !.owned = @ \cup {UsedPages}, !.pc = "enable"]
      BY <1>11, <2>1, <2>3
      DEF AllocUsed, VioTypeOK, PagesByStep, Partial, DescPages, AvailPage, UsedPages, desc_count
    <2> QED BY <1>11, <2>2, <2>3 DEF AllocUsed
  <1>12. CASE EnableQueue
    <2>1. vio.owned = vio.given \cup {DescPages, AvailPage, UsedPages}
      BY <1>12 DEF PagesByStep, Partial, EnableQueue
    <2>2. /\ vio'.owned = vio.owned /\ vio'.queue = vio.queue /\ vio'.pc \in {"link", "fault"}
          /\ vio'.given = vio.given \cup {DescPages, AvailPage, UsedPages}
      BY <1>12 DEF EnableQueue, VioTypeOK
    <2>3. \A p \in vio'.given : p[1] <= vio'.queue
      BY <1>0, <1>12, <2>2, PagesOfQueue DEF PagesByStep, EnableQueue
    <2>4. Partial' = {}
      BY <2>2 DEF Partial
    <2> QED BY <2>1, <2>2, <2>3, <2>4 DEF PagesByStep
  <1>13. CASE LinkDescriptors
    <2>1. /\ vio'.owned = vio.owned /\ vio'.given = vio.given
          /\ vio'.queue = vio.queue + 1 /\ vio'.pc = "queue"
      BY <1>13 DEF LinkDescriptors, VioTypeOK
    <2>2. vio.owned = vio.given /\ \A p \in vio.given : p[1] <= vio.queue
      BY <1>13 DEF LinkDescriptors, PagesByStep, Partial
    <2>3. Partial' = {}
      BY <2>1 DEF Partial
    <2> QED BY <1>0, <2>1, <2>2, <2>3 DEF PagesByStep
  <1>14. CASE QueuesDone
    <2>1. vio.owned = vio.given
      BY <1>14 DEF PagesByStep, Partial, QueuesDone
    <2>2. CASE vio' = Fail(vio)
      BY <1>14, <1>a, <2>1, <2>2, FailFields DEF QueuesDone
    <2>3. CASE vio' # Fail(vio)
      BY <1>14, <1>b, <2>3 DEF QueuesDone, VioTypeOK, Building
    <2> QED BY <2>2, <2>3
  <1> QED BY <1>1, <1>2, <1>3, <1>4, <1>5, <1>6, <1>7, <1>8, <1>9, <1>10, <1>11, <1>12, <1>13, <1>14
          DEF VioNext

\* The inductive invariant of virtio_pci_init and virtio_split_queue_init.
THEOREM VirtioInvariant == VioSpec => []VioInv
  <1>1. VioInit => VioInv
    BY VioInitInv
  <1>2. VioInv /\ [VioNext]_vio => VioInv'
    <2> SUFFICES ASSUME VioInv, [VioNext]_vio PROVE VioInv'
      OBVIOUS
    <2>1. CASE VioNext
      BY <2>1, VioTypeStep, HandshakeStep, PagesStep DEF VioInv
    <2>2. CASE UNCHANGED vio
      BY <2>2 DEF VioInv, VioTypeOK, PagesByStep, Partial, Handshake, DescPages, AvailPage, UsedPages, desc_count
    <2> QED BY <2>1, <2>2
  <1> QED BY <1>1, <1>2, PTL DEF VioSpec

\* For every device, list of capabilities, queue size and place of a failure: a page
\* the device was given with a queue stays allocated and no other page of a queue does,
\* and the device runs only on features it accepted (virtio_split_queue_init's
\* unwinding and virtio_pci_init's handshake).
THEOREM VirtioAlwaysSound == VioSpec => []VirtioSound
  <1>1. VioInv => VirtioSound
    BY DEF VioInv, VirtioSound, QueuePagesHeld, RunsOnlyAccepted, PagesByStep, Partial, Handshake
  <1> QED BY <1>1, VirtioInvariant, PTL
-----------------------------------------------------------------------------
(***************************************************************************)
(* PCI.  A function's registers hold something else than the firmware's    *)
(* addresses only between the two writes of the sizing: the invariant says *)
(* which register that is at each step, that the driver holds the address  *)
(* it will put back, and that decoding is off all along.                   *)
(***************************************************************************)
PciSpec == PciInit /\ [][PciNext]_pci

Sizing == {"low", "size", "high", "upper"}
PciSteps == {"function", "caps", "bar", "enable", "drivers", "done"} \cup Sizing

PciShape ==
    /\ DOMAIN pci = {"hw", "f", "pc", "info", "command", "reg", "cap", "i", "index", "low", "high",
                     "orig", "starved", "devices", "bound", "supports_msi"}
    /\ pci.pc \in PciSteps /\ pci.f \in 1..Functions /\ pci.index \in Nat \ {0}
    /\ pci.hw \in [1..Functions -> Layouts]
    /\ DOMAIN pci.command = 1..Functions /\ DOMAIN pci.reg = 1..Functions
    /\ \A f \in 1..Functions : DOMAIN pci.reg[f] = 1..BarCount

Firmware(f, i) == AddressBits(pci.hw[f].bars[i], pci.hw[f].bars[i].base)

\* The registers of function f that hold all ones.
Probed(f) ==
    IF f # pci.f THEN {}
    ELSE {i \in 1..BarCount : (pci.pc = "low" /\ i = pci.index) \/ (pci.pc = "upper" /\ i = pci.index + 1)}

ProbedAddressKept ==
    /\ pci.pc \in Sizing => pci.index \in 1..BarCount
    /\ pci.pc = "low" => /\ pci.orig = Firmware(pci.f, pci.index)
                         /\ KindOf(pci.orig) = "mem64" => pci.index + 1 \in 1..BarCount
    /\ pci.pc \in {"high", "upper"} => pci.index + 1 \in 1..BarCount
    /\ pci.pc = "upper" => pci.high = Firmware(pci.f, pci.index + 1)

OthersKept ==
    \A f \in 1..Functions : \A i \in (1..BarCount) \ Probed(f) : pci.reg[f][i] = Firmware(f, i)

DecodingOff ==
    pci.pc \in {"caps", "bar"} \cup Sizing => pci.command[pci.f] \cap {"io", "mem"} = {}

PciInv == PciShape /\ ProbedAddressKept /\ OthersKept /\ DecodingOff

\* Before the scan, every register holds the address the firmware gave it.
LEMMA PciInitInv == PciInit => PciInv
  <1> SUFFICES ASSUME NEW hw \in [1..Functions -> Layouts], NEW msi \in BOOLEAN,
                      pci = [hw |-> hw, f |-> 1, pc |-> "function", info |-> NoInfo,
                             command |-> [f \in 1..Functions |-> hw[f].command],
                             reg |-> [f \in 1..Functions |->
                                 [i \in 1..BarCount |-> AddressBits(hw[f].bars[i], hw[f].bars[i].base)]],
                             cap |-> 0, i |-> 0, index |-> 1, low |-> 0, high |-> 0, orig |-> 0,
                             starved |-> FALSE, devices |-> <<>>, bound |-> <<>>, supports_msi |-> msi]
               PROVE  PciInv
    BY DEF PciInit, PciStart
  <1>1. PciShape
    BY PciAssumption DEF PciShape, PciSteps
  <1>2. ProbedAddressKept /\ DecodingOff
    BY DEF ProbedAddressKept, DecodingOff, Sizing
  <1>3. OthersKept
    BY DEF OthersKept, Firmware
  <1> QED BY <1>1, <1>2, <1>3 DEF PciInv

\* A step that leaves the registers alone, outside the sizing or from one of its steps
\* where no register holds all ones to another.
LEMMA PciQuiet ==
  ASSUME PciInv, DOMAIN pci' = DOMAIN pci,
         pci'.hw = pci.hw, pci'.reg = pci.reg, DOMAIN pci'.command = 1..Functions,
         pci'.f \in 1..Functions, pci'.index \in Nat \ {0}, pci'.pc \in PciSteps \ Sizing,
         pci.pc \notin {"low", "upper"},
         pci'.pc \in {"caps", "bar"} => pci'.command[pci'.f] \cap {"io", "mem"} = {}
  PROVE  PciInv'
  <1>1. PciShape'
    BY DEF PciInv, PciShape
  <1>2. ProbedAddressKept' /\ DecodingOff'
    BY DEF ProbedAddressKept, DecodingOff, Sizing
  <1>3. \A f : Probed(f) = {} /\ Probed(f)' = {}
    BY DEF Probed, Sizing
  <1>4. OthersKept'
    BY <1>3 DEF PciInv, OthersKept, Firmware
  <1> QED BY <1>1, <1>2, <1>4 DEF PciInv

\* What write_bar does to the registers.
LEMMA WriteBarFields ==
  ASSUME PciShape, NEW i \in 1..BarCount, NEW v
  PROVE  /\ DOMAIN WriteBar(i, v) = 1..Functions
         /\ \A f \in 1..Functions : DOMAIN WriteBar(i, v)[f] = 1..BarCount
         /\ WriteBar(i, v)[pci.f][i] = Kept(pci.hw[pci.f].bars[i], v)
         /\ \A f \in 1..Functions : \A j \in 1..BarCount :
                f # pci.f \/ j # i => WriteBar(i, v)[f][j] = pci.reg[f][j]
  BY Zenon DEF PciShape, WriteBar, Here

\* The scan goes on with the next function, or ends, without touching the registers.
LEMMA NextFunctionQuiet ==
  ASSUME PciInv, NEW s, DOMAIN s = DOMAIN pci, pci' = NextFunction(s),
         s.hw = pci.hw, s.reg = pci.reg, s.f = pci.f, DOMAIN s.command = 1..Functions,
         s.index = pci.index, pci.pc \notin {"low", "upper"}
  PROVE  PciInv'
  <1>1. s.f \in 1..Functions /\ Functions \in Nat
    BY PciAssumption DEF PciInv, PciShape
  <1>2. /\ DOMAIN pci' = DOMAIN pci /\ pci'.hw = pci.hw /\ pci'.reg = pci.reg
        /\ DOMAIN pci'.command = 1..Functions /\ pci'.pc \in {"drivers", "function"}
        /\ pci'.f \in 1..Functions /\ pci'.index \in Nat \ {0}
    <2>1. CASE s.f = Functions
      BY <1>1, <2>1 DEF NextFunction, PciInv, PciShape
    <2>2. CASE s.f # Functions
      BY <1>1, <2>2 DEF NextFunction, PciInv, PciShape
    <2> QED BY <2>1, <2>2
  <1> QED BY <1>2, PciQuiet DEF PciSteps, Sizing

\* Every step of the scan keeps the invariant.
LEMMA PciStep == PciInv /\ PciNext => PciInv'
  <1> SUFFICES ASSUME PciInv, PciNext PROVE PciInv'
    OBVIOUS
  <1>0. PciShape /\ ProbedAddressKept /\ OthersKept /\ DecodingOff
    BY DEF PciInv
  <1>1. CASE parse_function
    <2> DEFINE start == [pci EXCEPT !.info.command = pci.command[pci.f], !.command[pci.f] = Disabled(@)]
    <2>1. /\ DOMAIN start = DOMAIN pci /\ start.hw = pci.hw /\ start.reg = pci.reg /\ start.f = pci.f
          /\ start.index = pci.index /\ DOMAIN start.command = 1..Functions
          /\ start.command[pci.f] \cap {"io", "mem"} = {}
      BY <1>0, Zenon DEF PciShape, Disabled
    <2>2. pci.pc = "function" /\ DOMAIN pci.command = 1..Functions
      BY <1>0, <1>1 DEF parse_function, PciShape
    <2>3. CASE pci' = NextFunction(pci)
      BY <2>2, <2>3, NextFunctionQuiet
    <2>4. CASE pci' = NextFunction(start)
      <3> HIDE DEF start
      <3> QED BY <2>1, <2>2, <2>4, NextFunctionQuiet
    <2>5. CASE pci' = [start EXCEPT !.pc = "enable"]
      <3> HIDE DEF start
      <3> QED BY <1>0, <2>1, <2>2, <2>5, PciQuiet DEF PciSteps, Sizing, PciShape
    <2>6. CASE pci' = [start EXCEPT !.pc = "caps", !.cap = Here.first]
      <3> HIDE DEF start
      <3> QED BY <1>0, <2>1, <2>2, <2>6, PciQuiet DEF PciSteps, Sizing, PciShape
    <2> QED BY <1>1, <2>3, <2>4, <2>5, <2>6 DEF parse_function
  <1>2. CASE pci_parse_capabilities
    <2>1. /\ DOMAIN pci' = DOMAIN pci /\ pci'.hw = pci.hw /\ pci'.reg = pci.reg
          /\ pci'.command = pci.command /\ pci'.f = pci.f /\ pci'.index = pci.index
          /\ pci'.pc \in {"bar", "caps"} /\ pci.pc = "caps"
      BY <1>0, <1>2, ZenonT(40) DEF PciShape, pci_parse_capabilities
    <2> QED BY <1>0, <2>1, PciQuiet DEF PciSteps, Sizing, PciShape, DecodingOff
  <1>3. CASE BarsDone
    <2>1. /\ DOMAIN pci' = DOMAIN pci /\ pci'.hw = pci.hw /\ pci'.reg = pci.reg
          /\ pci'.command = pci.command /\ pci'.f = pci.f /\ pci'.index = pci.index
          /\ pci'.pc = "enable" /\ pci.pc = "bar"
      BY <1>0, <1>3 DEF PciShape, BarsDone
    <2> QED BY <1>0, <2>1, PciQuiet DEF PciSteps, Sizing, PciShape
  <1>4. CASE pci_init_drivers
    <2>1. /\ DOMAIN pci' = DOMAIN pci /\ pci'.hw = pci.hw /\ pci'.reg = pci.reg
          /\ pci'.command = pci.command /\ pci'.f = pci.f /\ pci'.index = pci.index
          /\ pci'.pc = "done" /\ pci.pc = "drivers"
      BY <1>0, <1>4 DEF PciShape, pci_init_drivers
    <2> QED BY <1>0, <2>1, PciQuiet DEF PciSteps, Sizing, PciShape
  <1>5. CASE AddDevice
    <2> DEFINE on == [pci EXCEPT !.command[pci.f] = Enabled(pci.info)]
    <2>1. /\ DOMAIN on = DOMAIN pci /\ on.hw = pci.hw /\ on.reg = pci.reg /\ on.f = pci.f
          /\ on.index = pci.index /\ DOMAIN on.command = 1..Functions /\ pci.pc = "enable"
      BY <1>0, <1>5 DEF PciShape, AddDevice
    <2>2. CASE pci' = NextFunction(on)
      <3> HIDE DEF on
      <3> QED BY <2>1, <2>2, NextFunctionQuiet
    <2>3. CASE pci' = NextFunction([on EXCEPT !.devices =
                  <<[f |-> pci.f, info |-> pci.info, starved |-> pci.starved]>> \o @])
      <3> DEFINE new == [on EXCEPT !.devices =
                  <<[f |-> pci.f, info |-> pci.info, starved |-> pci.starved]>> \o @]
      <3>1. /\ DOMAIN new = DOMAIN pci /\ new.hw = pci.hw /\ new.reg = pci.reg /\ new.f = pci.f
            /\ new.index = pci.index /\ DOMAIN new.command = 1..Functions
        BY <1>0, <2>1 DEF PciShape
      <3> HIDE DEF new
      <3> QED BY <2>1, <2>3, <3>1, NextFunctionQuiet, Zenon DEF new
    <2> QED BY <1>5, <2>2, <2>3 DEF AddDevice
  <1>6. CASE pci_parse_bar
    <2>1. pci.pc = "bar" /\ pci.index \in 1..BarCount /\ \A f : Probed(f) = {}
      BY <1>0, <1>6, PciAssumption DEF pci_parse_bar, PciShape, Probed
    <2>2. CASE pci' = [pci EXCEPT !.pc = "enable"]
      <3>1. /\ DOMAIN pci' = DOMAIN pci /\ pci'.hw = pci.hw /\ pci'.reg = pci.reg
            /\ pci'.command = pci.command /\ pci'.f = pci.f /\ pci'.index = pci.index /\ pci'.pc = "enable"
        BY <1>0, <2>2 DEF PciShape
      <3> QED BY <1>0, <2>1, <3>1, PciQuiet DEF PciSteps, Sizing, PciShape
    <2>3. CASE pci' # [pci EXCEPT !.pc = "enable"]
      <3>1. /\ DOMAIN pci' = DOMAIN pci /\ pci'.hw = pci.hw /\ pci'.reg = WriteBar(pci.index, UINT32_MAX)
            /\ pci'.command = pci.command /\ pci'.f = pci.f /\ pci'.index = pci.index /\ pci'.pc = "low"
            /\ pci'.orig = pci.reg[pci.f][pci.index]
            /\ ~(KindOf(pci.reg[pci.f][pci.index]) = "mem64" /\ pci.index = BarCount)
        BY <1>0, <1>6, <2>3, Zenon DEF PciShape, pci_parse_bar, ReadBar
      <3>2. PciShape'
        BY <1>0, <2>1, <3>1, WriteBarFields DEF PciShape, PciSteps, Sizing
      <3>3. pci.reg[pci.f][pci.index] = Firmware(pci.f, pci.index)
        BY <1>0, <2>1 DEF OthersKept, PciShape
      <3>4. pci.index + 1 \in 1..BarCount \/ pci.index = BarCount
        BY <2>1, PciAssumption
      <3>5. ProbedAddressKept'
        BY <2>1, <3>1, <3>3, <3>4, Zenon DEF ProbedAddressKept, Sizing, Firmware
      <3>6. \A f : Probed(f)' = IF f = pci.f THEN {pci.index} ELSE {}
        BY <2>1, <3>1 DEF Probed
      <3>7. OthersKept'
        BY <1>0, <2>1, <3>1, <3>6, WriteBarFields DEF OthersKept, Firmware
      <3>8. DecodingOff'
        BY <1>0, <2>1, <3>1 DEF DecodingOff
      <3> QED BY <3>2, <3>5, <3>7, <3>8 DEF PciInv
    <2> QED BY <2>2, <2>3
  <1>7. CASE ReadLow
    <2>1. /\ pci.pc = "low" /\ pci.index \in 1..BarCount /\ pci.orig = Firmware(pci.f, pci.index)
          /\ KindOf(pci.orig) = "mem64" => pci.index + 1 \in 1..BarCount
      BY <1>0, <1>7 DEF ReadLow, ProbedAddressKept, Sizing
    <2>2. /\ DOMAIN pci' = DOMAIN pci /\ pci'.hw = pci.hw /\ pci'.reg = WriteBar(pci.index, pci.orig)
          /\ pci'.command = pci.command /\ pci'.f = pci.f /\ pci'.index = pci.index
          /\ pci'.pc = IF KindOf(pci.orig) = "mem64" THEN "high" ELSE "size"
      BY <1>0, <1>7 DEF PciShape, ReadLow
    <2>3. PciShape'
      BY <1>0, <2>1, <2>2, WriteBarFields DEF PciShape, PciSteps, Sizing
    <2>4. ProbedAddressKept'
      BY <2>1, <2>2 DEF ProbedAddressKept, Sizing
    <2>5. Kept(pci.hw[pci.f].bars[pci.index], pci.orig) = pci.orig
      BY <1>0, <2>1, PciAssumption, Zenon DEF Firmware, PciShape
    <2>6. \A f : Probed(f)' = {} /\ Probed(f) = IF f = pci.f THEN {pci.index} ELSE {}
      BY <2>1, <2>2 DEF Probed
    <2>7. OthersKept'
      <3> SUFFICES ASSUME NEW f \in 1..Functions, NEW i \in 1..BarCount
                   PROVE  pci'.reg[f][i] = Firmware(f, i)
        BY <2>2 DEF OthersKept, Firmware
      <3>1. pci'.reg = WriteBar(pci.index, pci.orig) /\ PciShape
        BY <1>0, <2>2
      <3>2. CASE f = pci.f /\ i = pci.index
        BY <2>1, <2>5, <3>1, <3>2, WriteBarFields
      <3>3. CASE f # pci.f \/ i # pci.index
        <4>1. pci'.reg[f][i] = pci.reg[f][i]
          BY <2>1, <3>1, <3>3, WriteBarFields
        <4> QED BY <1>0, <2>6, <3>3, <4>1 DEF OthersKept
      <3> QED BY <3>2, <3>3
    <2>8. DecodingOff'
      BY <1>0, <2>1, <2>2 DEF DecodingOff, Sizing
    <2> QED BY <2>3, <2>4, <2>7, <2>8 DEF PciInv
  <1>8. CASE Size32
    <2>1. pci.pc = "size" /\ pci.index \in 1..BarCount
      BY <1>0, <1>8 DEF Size32, ProbedAddressKept, Sizing
    <2>2. /\ DOMAIN pci' = DOMAIN pci /\ pci'.hw = pci.hw /\ pci'.reg = pci.reg
          /\ pci'.command = pci.command /\ pci'.f = pci.f /\ pci'.pc = "bar"
          /\ pci'.index = pci.index + Registers(KindOf(pci.orig))
      BY <1>0, <1>8 DEF PciShape, Size32
    <2>3. pci'.index \in Nat \ {0}
      <3>1. PICK n \in {1, 2} : n = Registers(KindOf(pci.orig))
        BY DEF Registers
      <3> QED BY <2>1, <2>2, <3>1
    <2> QED BY <1>0, <2>1, <2>2, <2>3, PciQuiet DEF PciSteps, Sizing, PciShape, DecodingOff
  <1>9. CASE SizeUpper
    <2>1. pci.pc = "high" /\ pci.index \in 1..BarCount /\ pci.index + 1 \in 1..BarCount
          /\ \A f : Probed(f) = {}
      BY <1>0, <1>9 DEF SizeUpper, ProbedAddressKept, Sizing, Probed
    <2>2. /\ DOMAIN pci' = DOMAIN pci /\ pci'.hw = pci.hw /\ pci'.reg = WriteBar(pci.index + 1, UINT32_MAX)
          /\ pci'.command = pci.command /\ pci'.f = pci.f /\ pci'.index = pci.index /\ pci'.pc = "upper"
          /\ pci'.high = pci.reg[pci.f][pci.index + 1]
      BY <1>0, <1>9 DEF PciShape, SizeUpper, ReadBar
    <2>3. PciShape'
      BY <1>0, <2>1, <2>2, WriteBarFields DEF PciShape, PciSteps, Sizing
    <2>4. pci.reg[pci.f][pci.index + 1] = Firmware(pci.f, pci.index + 1)
      BY <1>0, <2>1 DEF OthersKept, PciShape
    <2>5. ProbedAddressKept'
      BY <2>1, <2>2, <2>4, Zenon DEF ProbedAddressKept, Sizing, Firmware
    <2>6. \A f : Probed(f)' = IF f = pci.f THEN {pci.index + 1} ELSE {}
      BY <2>1, <2>2 DEF Probed
    <2>7. OthersKept'
      BY <1>0, <2>1, <2>2, <2>6, WriteBarFields DEF OthersKept, Firmware
    <2>8. DecodingOff'
      BY <1>0, <2>1, <2>2, Zenon DEF DecodingOff, Sizing
    <2> QED BY <2>3, <2>5, <2>7, <2>8 DEF PciInv
  <1>10. CASE Size64
    <2>1. /\ pci.pc = "upper" /\ pci.index \in 1..BarCount /\ pci.index + 1 \in 1..BarCount
          /\ pci.high = Firmware(pci.f, pci.index + 1)
      BY <1>0, <1>10 DEF Size64, ProbedAddressKept, Sizing
    <2>2. /\ DOMAIN pci' = DOMAIN pci /\ pci'.hw = pci.hw /\ pci'.reg = WriteBar(pci.index + 1, pci.high)
          /\ pci'.command = pci.command /\ pci'.f = pci.f /\ pci'.pc = "bar"
          /\ pci'.index = pci.index + Registers(KindOf(pci.orig))
      BY <1>0, <1>10 DEF PciShape, Size64
    <2>3. pci'.index \in Nat \ {0}
      <3>1. PICK n \in {1, 2} : n = Registers(KindOf(pci.orig))
        BY DEF Registers
      <3> QED BY <2>1, <2>2, <3>1
    <2>4. PciShape'
      BY <1>0, <2>1, <2>2, <2>3, WriteBarFields DEF PciShape, PciSteps, Sizing
    <2>5. ProbedAddressKept'
      BY <2>2 DEF ProbedAddressKept, Sizing
    <2>6. Kept(pci.hw[pci.f].bars[pci.index + 1], pci.high) = pci.high
      BY <1>0, <2>1, PciAssumption, Zenon DEF Firmware, PciShape
    <2>7. \A f : Probed(f)' = {} /\ Probed(f) = IF f = pci.f THEN {pci.index + 1} ELSE {}
      BY <2>1, <2>2 DEF Probed
    <2>8. OthersKept'
      <3> SUFFICES ASSUME NEW f \in 1..Functions, NEW i \in 1..BarCount
                   PROVE  pci'.reg[f][i] = Firmware(f, i)
        BY <2>2 DEF OthersKept, Firmware
      <3>1. pci'.reg = WriteBar(pci.index + 1, pci.high) /\ PciShape
        BY <1>0, <2>2
      <3>2. CASE f = pci.f /\ i = pci.index + 1
        BY <2>1, <2>6, <3>1, <3>2, WriteBarFields
      <3>3. CASE f # pci.f \/ i # pci.index + 1
        <4>1. pci'.reg[f][i] = pci.reg[f][i]
          BY <2>1, <3>1, <3>3, WriteBarFields
        <4> QED BY <1>0, <2>7, <3>3, <4>1 DEF OthersKept
      <3> QED BY <3>2, <3>3
    <2>9. DecodingOff'
      BY <1>0, <2>1, <2>2 DEF DecodingOff, Sizing
    <2> QED BY <2>4, <2>5, <2>8, <2>9 DEF PciInv
  <1> QED BY <1>1, <1>2, <1>3, <1>4, <1>5, <1>6, <1>7, <1>8, <1>9, <1>10 DEF PciNext, PciScan

\* So does a step that leaves the scan alone.
LEMMA PciStutter == PciInv /\ UNCHANGED pci => PciInv'
  BY DEF PciInv, PciShape, ProbedAddressKept, OthersKept, DecodingOff, Probed, Firmware

\* For any number of functions and registers and any layout of them: the registers of
\* a function that decodes addresses hold the ones the firmware gave it, at every step
\* of the scan (pci_parse_bar sizes a BAR only between the two writes of `command`).
THEOREM BarsRestored == PciSpec => []DecodesOnlyItsAddresses
  <1>1. PciInit => PciInv
    BY PciInitInv
  <1>2. PciInv /\ [PciNext]_pci => PciInv'
    BY PciStutter, PciStep
  <1>3. PciInv => DecodesOnlyItsAddresses
    <2> SUFFICES ASSUME PciInv, NEW f \in 1..Functions, pci.command[f] \cap {"io", "mem"} # {}
                 PROVE  \A i \in 1..BarCount :
                            pci.reg[f][i] = AddressBits(pci.hw[f].bars[i], pci.hw[f].bars[i].base)
      BY DEF DecodesOnlyItsAddresses
    <2>1. Probed(f) = {}
      BY DEF Probed, PciInv, DecodingOff, Sizing
    <2> QED BY <2>1 DEF PciInv, OthersKept, Firmware
  <1> QED BY <1>1, <1>2, <1>3, PTL DEF PciSpec

(***************************************************************************)
(* What pci_parse_bar makes of the registers of one BAR.                   *)
(***************************************************************************)
BarRecords == [kind : {"io", "mem32", "mem64", "upper", "rsvd", "none"},
               pref : BOOLEAN, base : Nat, size : Nat]

\* The number a register's flag bits are, for each kind of memory BAR.
LEMMA FlagsOf ==
  ASSUME NEW bar \in BarRecords
  PROVE  /\ bar.kind = "io" /\ bar.pref = FALSE => Flags(bar) = 1
         /\ bar.kind = "mem32" => Flags(bar) = IF bar.pref THEN 8 ELSE 0
         /\ bar.kind = "rsvd" => Flags(bar) \in {2, 10}
         /\ bar.kind = "mem64" => Flags(bar) \in {4, 12}
  BY DEF BarRecords, Flags

\* The flags of a register with an aligned address are read back as they were.
LEMMA FlagsRead ==
  ASSUME NEW n \in Nat, n % 16 = 0, NEW f \in 0..15
  PROVE  /\ (n % REG) + f \in Nat
         /\ ((n % REG) + f) % 16 = f
         /\ ((n % REG) + f) % 2 = f % 2
         /\ (((n % REG) + f) \div 2) % 4 = (f \div 2) % 4
         /\ Below((n % REG) + f, 16) = n % REG
  <1>1. PICK k \in Nat : n = 16 * k
    <2>1. n = 16 * (n \div 16)
      OBVIOUS
    <2> QED BY <2>1
  <1>2. PICK j \in 0..3 : n % REG = 16 * j
    BY <1>1 DEF REG
  <1>3. n % REG \in Nat /\ (n % REG) + f \in Nat
    BY <1>2
  <1>4. ((n % REG) + f) % 16 = f
    BY <1>2
  <1>5. ((n % REG) + f) % 2 = f % 2
    BY <1>2
  <1>6. (((n % REG) + f) \div 2) % 4 = (f \div 2) % 4
    BY <1>2
  <1> QED BY <1>3, <1>4, <1>5, <1>6 DEF Below

\* The address of such a register is what is left when the flags are masked off.
LEMMA FlagsMasked ==
  \A n \in Nat, f \in 0..15 : n % 16 = 0 => Below((n % REG) + f, 16) = n % REG
  BY FlagsRead, Zenon

\* The kind pci_parse_bar reads: a register that is not there reads as memory at 0.
LEMMA KindShown ==
  ASSUME NEW bar \in BarRecords, bar.kind # "upper",
         bar.kind = "io" => bar.pref = FALSE /\ bar.base % 4 = 0 /\ bar.base < REG,
         bar.kind \in {"mem32", "mem64", "rsvd"} => bar.base % 16 = 0
  PROVE  KindOf(AddressBits(bar, bar.base)) = IF bar.kind = "none" THEN "mem32" ELSE bar.kind
  <1>1. bar.base \in Nat /\ bar.kind \in {"io", "mem32", "mem64", "rsvd", "none"} /\ bar.pref \in BOOLEAN
    BY DEF BarRecords
  <1>2. CASE bar.kind = "none"
    BY <1>2 DEF AddressBits, KindOf
  <1>3. CASE bar.kind = "io"
    <2>0. Flags(bar) = 1
      BY <1>3, FlagsOf, Zenon
    <2>1. AddressBits(bar, bar.base) = bar.base + 1 /\ bar.base % 4 = 0
      BY <1>1, <1>3, <2>0 DEF AddressBits, REG
    <2>2. (bar.base + 1) % 2 = 1
      BY <1>1, <2>1
    <2> QED BY <1>3, <2>1, <2>2 DEF KindOf
  <1>4. CASE bar.kind \in {"mem32", "mem64", "rsvd"}
    <2>1. PICK f \in {0, 2, 4, 8, 10, 12} :
             /\ f = Flags(bar)
             /\ bar.kind = "mem32" => f \in {0, 8}
             /\ bar.kind = "rsvd" => f \in {2, 10}
             /\ bar.kind = "mem64" => f \in {4, 12}
      BY <1>4, FlagsOf, Zenon
    <2>2. AddressBits(bar, bar.base) = (bar.base % REG) + f
      BY <1>4, <2>1 DEF AddressBits
    <2>3. f \in 0..15 /\ bar.base % 16 = 0
      BY <1>4, <2>1
    <2>4. /\ AddressBits(bar, bar.base) % 2 = f % 2
          /\ (AddressBits(bar, bar.base) \div 2) % 4 = (f \div 2) % 4
      <3>1. bar.base \in Nat /\ bar.base % 16 = 0 /\ f \in 0..15
        BY <1>1, <2>3, Zenon
      <3>2. /\ ((bar.base % REG) + f) % 2 = f % 2
            /\ (((bar.base % REG) + f) \div 2) % 4 = (f \div 2) % 4
        BY <3>1, FlagsRead, ZenonT(30)
      <3> QED BY <2>2, <3>2, Zenon
    <2>5. /\ f % 2 = 0
          /\ f \in {0, 8} => (f \div 2) % 4 = 0
          /\ f \in {2, 10} => (f \div 2) % 4 = 1
          /\ f \in {4, 12} => (f \div 2) % 4 = 2
      BY <2>1
    <2> QED BY <1>4, <2>1, <2>4, <2>5 DEF KindOf
  <1> QED BY <1>1, <1>2, <1>3, <1>4

\* What a register keeps of all ones.
LEMMA KeptOnes == \A bar : Kept(bar, UINT32_MAX) = AddressBits(bar, (REG * REG) - bar.size)
  BY DEF Kept

\* A port BAR gives its size and its address.
LEMMA SizedPort ==
  ASSUME NEW bar \in BarRecords, bar.kind = "io", bar.pref = FALSE, bar.base % 4 = 0,
         bar.size % 4 = 0, bar.base < REG, bar.size \in 1..(REG - 1)
  PROVE  /\ (REG - Below(Kept(bar, UINT32_MAX), 4)) % REG = bar.size
         /\ Below(AddressBits(bar, bar.base), 4) = bar.base
  <1>1. bar.base \in Nat /\ bar.size \in Nat /\ Flags(bar) = 1
    BY FlagsOf, Zenon DEF BarRecords
  <1>2. AddressBits(bar, bar.base) = bar.base + 1
    BY <1>1 DEF AddressBits, REG
  <1>3. (4096 - bar.size) % 64 = 64 - bar.size
    BY <1>1 DEF REG
  <1>4. Kept(bar, UINT32_MAX) = (64 - bar.size) + 1
    BY <1>1, <1>3, KeptOnes DEF AddressBits, REG
  <1>5. PICK k \in 1..15 : bar.size = 4 * k
    <2>1. bar.size = 4 * (bar.size \div 4) /\ bar.size \div 4 \in 1..15
      BY <1>1 DEF REG
    <2> QED BY <2>1
  <1>6. Below((64 - bar.size) + 1, 4) = 64 - bar.size
    BY <1>5 DEF Below
  <1>7. Below(bar.base + 1, 4) = bar.base
    BY <1>1 DEF Below
  <1> QED BY <1>2, <1>4, <1>5, <1>6, <1>7 DEF REG

\* A 32-bit memory BAR gives its address, and its size less the prefetchable bit.
LEMMA SizedMemory ==
  ASSUME NEW bar \in BarRecords, bar.kind = "mem32", bar.base % 16 = 0,
         bar.size % 16 = 0, bar.base < REG, bar.size \in 1..(REG - 1)
  PROVE  /\ (REG - Below(Kept(bar, UINT32_MAX), 4)) % REG = bar.size - (IF bar.pref THEN 8 ELSE 0)
         /\ bar.size - (IF bar.pref THEN 8 ELSE 0) # 0
         /\ Below(AddressBits(bar, bar.base), 16) = bar.base
  <1>1. bar.base \in Nat /\ bar.size \in Nat
    BY DEF BarRecords
  <1>2. PICK f \in {0, 8} : Flags(bar) = f /\ f = IF bar.pref THEN 8 ELSE 0
    BY FlagsOf, Zenon
  <1>3. AddressBits(bar, bar.base) = (bar.base % REG) + f /\ bar.base % REG = bar.base
    BY <1>1, <1>2 DEF AddressBits, REG
  <1>4. (4096 - bar.size) % 64 = 64 - bar.size
    BY <1>1 DEF REG
  <1>5. Kept(bar, UINT32_MAX) = (64 - bar.size) + f
    BY <1>1, <1>2, <1>4, KeptOnes DEF AddressBits, REG
  <1>6. PICK k \in {1, 2, 3} : bar.size = 16 * k
    <2>1. bar.size = 16 * (bar.size \div 16) /\ bar.size \div 16 \in {1, 2, 3}
      BY <1>1 DEF REG
    <2> QED BY <2>1
  <1>7. Below((64 - bar.size) + f, 4) = (64 - bar.size) + f
    BY <1>2, <1>6 DEF Below
  <1>8. (64 - ((64 - bar.size) + f)) % 64 = bar.size - f /\ bar.size - f # 0
    BY <1>2, <1>6
  <1>9. Below(AddressBits(bar, bar.base), 16) = bar.base
    <2>1. Below((bar.base % REG) + f, 16) = bar.base % REG
      <3>1. f \in 0..15
        BY <1>2
      <3> QED BY <1>1, <3>1, FlagsMasked, Zenon
    <2> QED BY <1>3, <2>1, Zenon
  <1> QED BY <1>2, <1>5, <1>7, <1>8, <1>9 DEF REG

\* A register that is not there has no size.
LEMMA SizedNone ==
  ASSUME NEW bar, bar.kind = "none"
  PROVE  (REG - Below(Kept(bar, UINT32_MAX), 4)) % REG = 0
  <1>1. Kept(bar, UINT32_MAX) = 0
    BY KeptOnes DEF AddressBits
  <1> QED BY <1>1 DEF Below, REG

\* Negating twice within two registers gives a size back.
LEMMA NegatedBack ==
  ASSUME NEW s \in 1..((REG * REG) - 1), NEW m \in Nat, m = (REG * REG) - s
  PROVE  ((REG * REG) - m) % (REG * REG) = s
  BY DEF REG

\* An address is its two registers put together.
LEMMA Rejoined ==
  ASSUME NEW n \in Nat
  PROVE  ((n \div REG) * REG) + (n % REG) = n
  BY DEF REG

\* All ones less a size are whole units too.
LEMMA Negated ==
  ASSUME NEW s \in 1..((REG * REG) - 1), s % 16 = 0
  PROVE  (REG * REG) - s \in Nat /\ ((REG * REG) - s) % 16 = 0
  <1>1. PICK k \in Nat : s = 16 * k
    <2>1. s = 16 * (s \div 16) /\ s \div 16 \in Nat
      BY DEF REG
    <2> QED BY <2>1
  <1> QED BY <1>1 DEF REG

\* A 64-bit BAR and the register with its upper half.
WideBar(bar, next) ==
    /\ bar.kind = "mem64" /\ bar.base % 16 = 0
    /\ bar.size % 16 = 0 /\ bar.size \in 1..((REG * REG) - 1)
    /\ next.kind = "upper" /\ next.base = bar.base /\ next.size = bar.size

\* The two registers of a 64-bit BAR give its size and its address.
LEMMA SizedPair ==
  ASSUME NEW bar \in BarRecords, NEW next \in BarRecords, WideBar(bar, next)
  PROVE  /\ ((REG * REG) - ((Kept(next, UINT32_MAX) * REG) + Below(Kept(bar, UINT32_MAX), 16))) % (REG * REG)
               = bar.size
         /\ (AddressBits(next, next.base) * REG) + Below(AddressBits(bar, bar.base), 16) = bar.base
  <1>1. bar.base \in Nat /\ bar.base % 16 = 0 /\ bar.size % 16 = 0 /\ bar.size \in 1..((REG * REG) - 1)
    BY Zenon DEF BarRecords, WideBar
  <1>2. PICK f \in {4, 12} : Flags(bar) = f
    BY FlagsOf, Zenon DEF WideBar
  <1>3. f \in 0..15
    BY <1>2
  <1>4. PICK m \in Nat : m = (REG * REG) - bar.size /\ m % 16 = 0
    BY <1>1, Negated, Zenon
  <1>5. Kept(bar, UINT32_MAX) = (m % REG) + f
    BY <1>2, <1>4, KeptOnes, Zenon DEF AddressBits, WideBar
  <1>6. Below(Kept(bar, UINT32_MAX), 16) = m % REG
    <2>1. Below((m % REG) + f, 16) = m % REG
      BY <1>3, <1>4, FlagsMasked, Zenon
    <2> QED BY <1>5, <2>1, Zenon
  <1>7. Kept(next, UINT32_MAX) = m \div REG
    BY <1>4, KeptOnes, Zenon DEF AddressBits, WideBar
  <1>8. bar.base \in Nat
    BY <1>1
  <1>9. ((REG * REG) - m) % (REG * REG) = bar.size
    BY <1>1, <1>4, NegatedBack, Zenon
  <1>10. (Kept(next, UINT32_MAX) * REG) + Below(Kept(bar, UINT32_MAX), 16) = m
    BY <1>6, <1>7, Rejoined, Zenon
  <1>11. AddressBits(bar, bar.base) = (bar.base % REG) + f
    BY <1>2, Zenon DEF AddressBits, WideBar
  <1>12. Below(AddressBits(bar, bar.base), 16) = bar.base % REG
    <2>1. Below((bar.base % REG) + f, 16) = bar.base % REG
      BY <1>1, <1>3, FlagsMasked, Zenon
    <2> QED BY <1>11, <2>1, Zenon
  <1>13. AddressBits(next, next.base) = bar.base \div REG
    BY Zenon DEF AddressBits, WideBar
  <1>14. (AddressBits(next, next.base) * REG) + Below(AddressBits(bar, bar.base), 16) = bar.base
    BY <1>8, <1>12, <1>13, Rejoined, Zenon
  <1> QED BY <1>9, <1>10, <1>14, Zenon

(***************************************************************************)
(* The description of the function being scanned, and of those listed.     *)
(***************************************************************************)
IsBad(hw, i) == hw.bars[i].kind = "rsvd" \/ (hw.bars[i].kind = "mem64" /\ i = BarCount)

\* The range pci_parse_bar enters for a BAR.
Described(bar) ==
    IF bar.kind \in {"none", "upper", "rsvd"} THEN NoBar
    ELSE [is_present |-> TRUE, is_mmio |-> bar.kind # "io", is_64_bit |-> bar.kind = "mem64",
          front |-> bar.base, size |-> bar.size - (IF bar.kind = "mem32" /\ bar.pref THEN 8 ELSE 0)]

\* The loop over the BARs has come to `index`.
BarsSoFar(hw, bars, index) ==
    /\ DOMAIN bars = 1..BarCount /\ index \in 1..(BarCount + 1)
    /\ \A i \in 1..BarCount : bars[i] = IF i < index THEN Described(hw.bars[i]) ELSE NoBar
    /\ \A i \in 1..BarCount : i < index => ~IsBad(hw, i)
    /\ index <= BarCount => hw.bars[index].kind # "upper"

BarsListed(hw, bars) ==
    /\ DOMAIN bars = 1..BarCount
    /\ hw.header = "general" =>
         \A i \in 1..BarCount : bars[i] = IF i >= Bad(hw) THEN NoBar ELSE Described(hw.bars[i])

\* What the walk over the capabilities has found.
VendorsFound(hw, caps) ==
    /\ \E S : caps \in Seq(S)
    /\ \A j, k \in DOMAIN caps : hw.caps[caps[j]].id = "vendor" /\ (caps[j] = caps[k] => j = k)

CapsFound(hw, info, starved, msi) ==
    /\ VendorsFound(hw, info.vendor_caps)
    /\ info.msi # "none" => msi = TRUE /\ (starved = FALSE => hw.caps[info.offset].id = info.msi)

Decoded(bars, command) ==
    \A i \in 1..BarCount :
        bars[i].is_present => (IF bars[i].is_mmio THEN "mem" ELSE "io") \in command

BarState ==
    /\ pci.pc \in {"caps", "bar"} \cup Sizing => Here.header = "general"
    /\ pci.pc \in {"function", "caps"} => pci.index = 1 /\ pci.info.bars = NoInfo.bars
    /\ pci.pc \in {"bar"} \cup Sizing => BarsSoFar(Here, pci.info.bars, pci.index)
    /\ pci.pc \in Sizing => pci.orig = Firmware(pci.f, pci.index) /\ ~IsBad(Here, pci.index)
    /\ pci.pc = "low" => ReadBar(pci.index) = Kept(Here.bars[pci.index], UINT32_MAX)
    /\ pci.pc = "upper" => ReadBar(pci.index + 1) = Kept(Here.bars[pci.index + 1], UINT32_MAX)
    /\ pci.pc \in {"size", "high", "upper"} => pci.low = Kept(Here.bars[pci.index], UINT32_MAX)
    /\ pci.pc \in {"high", "upper"} => Here.bars[pci.index].kind = "mem64"
    /\ pci.pc = "size" => Here.bars[pci.index].kind # "mem64"
    /\ pci.pc = "enable" => BarsListed(Here, pci.info.bars)

CapState ==
    /\ pci.starved \in BOOLEAN /\ pci.supports_msi \in BOOLEAN
    /\ DOMAIN pci.info = {"bars", "msi", "offset", "vendor_caps", "pcie", "command"}
    /\ pci.pc = "function" => pci.info = NoInfo /\ pci.starved = FALSE
    /\ pci.pc \in {"caps", "bar", "enable"} \cup Sizing =>
           CapsFound(Here, pci.info, pci.starved, pci.supports_msi)

\* A listed function has been scanned, and is not scanned again.
DeviceListed(d) ==
    /\ d.f \in 1..Functions /\ (pci.pc \notin {"drivers", "done"} => d.f < pci.f)
    /\ d.starved \in BOOLEAN /\ BarsListed(pci.hw[d.f], d.info.bars)
    /\ CapsFound(pci.hw[d.f], d.info, d.starved, pci.supports_msi)
    /\ Decoded(d.info.bars, pci.command[d.f])

ListState ==
    /\ \E S : pci.devices \in Seq(S)
    /\ \A k \in DOMAIN pci.devices : DeviceListed(pci.devices[k])

ListInv == PciInv /\ BarState /\ CapState /\ ListState

\* The register that ends the loop over the BARs is the one Bad names.
LEMMA BadIs ==
  ASSUME NEW hw
  PROVE  /\ (\A i \in 1..BarCount : ~IsBad(hw, i)) => Bad(hw) = BarCount + 1
         /\ \A i \in 1..BarCount :
              IsBad(hw, i) /\ (\A j \in 1..BarCount : j < i => ~IsBad(hw, j)) => Bad(hw) = i
  <1> DEFINE bad == {i \in 1..BarCount : hw.bars[i].kind \in IF i = BarCount THEN {"rsvd", "mem64"} ELSE {"rsvd"}}
  <1>1. \A i : i \in bad <=> i \in 1..BarCount /\ IsBad(hw, i)
    BY DEF IsBad
  <1>2. Bad(hw) = IF bad = {} THEN BarCount + 1 ELSE CHOOSE i \in bad : \A j \in bad : i <= j
    BY Zenon DEF Bad
  <1> HIDE DEF bad
  <1>3. (\A i \in 1..BarCount : ~IsBad(hw, i)) => Bad(hw) = BarCount + 1
    BY <1>1, <1>2
  <1>4. ASSUME NEW i \in 1..BarCount, IsBad(hw, i), \A j \in 1..BarCount : j < i => ~IsBad(hw, j)
        PROVE  Bad(hw) = i
    <2>1. i \in bad /\ \A j \in bad : j \in 1..BarCount /\ ~(j < i)
      BY <1>1, <1>4, Zenon
    <2>2. \A j \in bad : i <= j
      BY <2>1
    <2>3. PICK k : k = (CHOOSE n \in bad : \A j \in bad : n <= j)
      OBVIOUS
    <2>4. k \in bad /\ \A j \in bad : k <= j
      BY <2>1, <2>2, <2>3, Zenon
    <2>5. k = i
      BY <2>1, <2>2, <2>4
    <2> QED BY <1>2, <2>1, <2>3, <2>5, Zenon
  <1> QED BY <1>3, <1>4

\* The loop over the BARs ends at a malformed register or behind the last one.
LEMMA LoopEnds ==
  ASSUME NEW hw, NEW bars, NEW index, BarsSoFar(hw, bars, index),
         index > BarCount \/ IsBad(hw, index)
  PROVE  BarsListed(hw, bars)
  <1>1. BarCount \in Nat /\ index \in 1..(BarCount + 1) /\ \A i \in 1..BarCount : i < index => ~IsBad(hw, i)
    BY PciAssumption DEF BarsSoFar
  <1>2. Bad(hw) = index
    <2>1. CASE index > BarCount
      <3>1. index = BarCount + 1 /\ \A i \in 1..BarCount : ~IsBad(hw, i)
        BY <1>1, <2>1
      <3> QED BY <3>1, BadIs, Zenon
    <2>2. CASE ~(index > BarCount)
      <3>1. index \in 1..BarCount /\ IsBad(hw, index)
        BY <1>1, <2>2
      <3> QED BY <1>1, <3>1, BadIs, Zenon
    <2> QED BY <2>1, <2>2
  <1>3. \A i \in 1..BarCount : i < index <=> ~(i >= index)
    BY <1>1
  <1> QED BY <1>2, <1>3 DEF BarsSoFar, BarsListed

\* The layout of the function under the scan.
LEMMA BarLaidOut ==
  ASSUME PciShape, NEW i \in 1..BarCount
  PROVE  LET bar == Here.bars[i] IN
         /\ bar \in BarRecords
         /\ bar.kind = "io" => bar.pref = FALSE /\ bar.base % 4 = 0 /\ bar.size % 4 = 0
         /\ bar.kind \in {"mem32", "mem64", "rsvd"} => bar.base % 16 = 0 /\ bar.size % 16 = 0
         /\ bar.kind \in {"io", "mem32"} => bar.base < REG /\ bar.size \in 1..(REG - 1)
         /\ bar.kind = "mem64" => bar.size \in 1..((REG * REG) - 1)
         /\ bar.kind = "mem64" /\ i < BarCount =>
              Here.bars[i + 1].kind = "upper" /\ Here.bars[i + 1].base = bar.base
              /\ Here.bars[i + 1].size = bar.size
         /\ bar.kind = "upper" => i > 1 /\ Here.bars[i - 1].kind = "mem64"
  <1>1. Here \in Layouts
    BY Zenon DEF Here, PciShape
  <1>2. BarsLaidOut(Here.bars)
    BY <1>1, LayoutsAssumption
  <1>3. Here.bars[i] \in BarRecords
    BY <1>2, Zenon DEF BarsLaidOut, BarRecords
  <1> HIDE DEF Here
  <1> QED BY <1>2, <1>3, Zenon DEF BarsLaidOut

\* Before the scan nothing is listed.
LEMMA ListInit == PciInit => ListInv
  <1> SUFFICES ASSUME PciInit PROVE ListInv
    OBVIOUS
  <1>1. PICK hw \in [1..Functions -> Layouts], msi \in BOOLEAN :
           /\ pci.pc = "function" /\ pci.info = NoInfo /\ pci.index = 1 /\ pci.starved = FALSE
           /\ pci.devices = <<>> /\ pci.supports_msi = msi
    BY DEF PciInit, PciStart
  <1>2. BarState
    BY <1>1, Zenon DEF BarState, Sizing
  <1>3. CapState
    BY <1>1, Zenon DEF CapState, Sizing, NoInfo
  <1>4. ListState
    <2>1. pci.devices \in Seq({}) /\ DOMAIN pci.devices = {}
      BY <1>1
    <2> QED BY <2>1 DEF ListState
  <1> QED BY <1>2, <1>3, <1>4, PciInitInv DEF ListInv

\* What is left when the scan goes on with the next function, or ends.
LEMMA NextFunctionFields ==
  ASSUME PciShape, NEW s, DOMAIN s = DOMAIN pci, s.f \in 1..Functions, pci' = NextFunction(s)
  PROVE  /\ pci'.hw = s.hw /\ pci'.command = s.command /\ pci'.devices = s.devices
         /\ pci'.supports_msi = s.supports_msi
         /\ \/ /\ pci'.pc = "function" /\ pci'.f = s.f + 1 /\ pci'.info = NoInfo
               /\ pci'.index = 1 /\ pci'.starved = FALSE
            \/ /\ pci'.pc = "drivers" /\ pci'.f = s.f /\ pci'.info = s.info /\ pci'.starved = s.starved
  <1>1. CASE s.f = Functions
    BY <1>1 DEF NextFunction, PciShape
  <1>2. CASE s.f # Functions
    BY <1>2 DEF NextFunction, PciShape
  <1> QED BY <1>1, <1>2, Zenon

\* The description of a function is started afresh.
LEMMA FunctionLeft ==
  ASSUME PciShape, CapState, NEW s, DOMAIN s = DOMAIN pci, s.f \in 1..Functions, pci' = NextFunction(s),
         DOMAIN s.info = DOMAIN pci.info, s.starved = pci.starved, s.supports_msi = pci.supports_msi
  PROVE  BarState' /\ CapState'
  <1>1. /\ pci'.supports_msi = pci.supports_msi
        /\ \/ /\ pci'.pc = "function" /\ pci'.info = NoInfo
              /\ pci'.index = 1 /\ pci'.starved = FALSE
           \/ /\ pci'.pc = "drivers" /\ DOMAIN pci'.info = DOMAIN pci.info /\ pci'.starved = pci.starved
    BY NextFunctionFields, Zenon
  <1>2. BarState'
    BY <1>1, Zenon DEF BarState, Sizing
  <1>3. DOMAIN NoInfo = {"bars", "msi", "offset", "vendor_caps", "pcie", "command"}
    BY DEF NoInfo
  <1>4. CapState'
    BY <1>1, <1>3, Zenon DEF CapState, Sizing
  <1> QED BY <1>2, <1>4

\* A step that lists nothing leaves the listed devices as they are, and the command
\* registers of the functions already scanned.
LEMMA ListKept ==
  ASSUME PciShape, ListState, pci'.devices = pci.devices, pci'.hw = pci.hw,
         pci'.supports_msi = pci.supports_msi,
         pci.pc \notin {"drivers", "done"} \/ pci'.pc \in {"drivers", "done"},
         \A f \in 1..Functions : f # pci.f \/ pci.pc \in {"drivers", "done"} => pci'.command[f] = pci.command[f],
         pci'.f = pci.f \/ pci'.f = pci.f + 1
  PROVE  ListState'
  <1>1. pci.f \in Nat /\ \A f \in 1..Functions : f \in Nat
    BY DEF PciShape
  <1>2. ASSUME NEW d, DeviceListed(d) PROVE DeviceListed(d)'
    <2>1. d.f \in 1..Functions /\ d.f \in Nat
      BY <1>1, <1>2, Zenon DEF DeviceListed
    <2>2. pci'.command[d.f] = pci.command[d.f]
      BY <1>1, <1>2, <2>1 DEF DeviceListed
    <2>3. pci'.pc \notin {"drivers", "done"} => d.f < pci'.f
      BY <1>1, <1>2, <2>1 DEF DeviceListed
    <2>4. /\ d.starved \in BOOLEAN /\ BarsListed(pci.hw[d.f], d.info.bars) /\ Decoded(d.info.bars, pci.command[d.f])
          /\ CapsFound(pci.hw[d.f], d.info, d.starved, pci.supports_msi)
      BY <1>2, Zenon DEF DeviceListed
    <2> QED BY <2>1, <2>2, <2>3, <2>4, Zenon DEF DeviceListed
  <1> QED BY <1>2, Zenon DEF ListState

\* parse_function, up to the capabilities.
LEMMA FunctionLists ==
  ASSUME ListInv, parse_function
  PROVE  BarState' /\ CapState' /\ ListState'
  <1>0. PciShape /\ BarState /\ CapState /\ ListState
    BY DEF ListInv, PciInv
  <1>1. pci.pc = "function" /\ pci.info = NoInfo /\ pci.starved = FALSE /\ pci.index = 1
    BY <1>0 DEF parse_function, BarState, CapState
  <1> DEFINE start == [pci EXCEPT !.info.command = pci.command[pci.f], !.command[pci.f] = Disabled(@)]
  <1>2. /\ DOMAIN start = DOMAIN pci /\ start.hw = pci.hw /\ start.f = pci.f /\ start.index = 1
        /\ start.starved = FALSE /\ start.supports_msi = pci.supports_msi /\ start.devices = pci.devices
        /\ start.info = [pci.info EXCEPT !.command = pci.command[pci.f]]
        /\ \A f \in 1..Functions : f # pci.f => start.command[f] = pci.command[f]
    BY <1>0, <1>1 DEF PciShape
  <1> HIDE DEF start
  <1>3. /\ DOMAIN start.info = DOMAIN NoInfo /\ start.info.bars = NoInfo.bars
        /\ start.info.msi = "none" /\ start.info.vendor_caps = <<>>
    BY <1>1, <1>2 DEF NoInfo
  <1>4. \A hw, b : CapsFound(hw, start.info, b, pci.supports_msi)
    <2>1. start.info.vendor_caps \in Seq({}) /\ DOMAIN start.info.vendor_caps = {}
      BY <1>3
    <2> QED BY <1>3, <2>1 DEF CapsFound, VendorsFound
  <1>5. \A hw : hw.header # "general" => BarsListed(hw, start.info.bars)
    BY <1>3 DEF BarsListed, NoInfo
  <1>6. DOMAIN NoInfo = {"bars", "msi", "offset", "vendor_caps", "pcie", "command"}
    BY DEF NoInfo
  <1>7. CASE pci' = NextFunction(pci)
    <2>1. BarState' /\ CapState'
      BY <1>0, <1>7, FunctionLeft DEF PciShape
    <2>2. /\ pci'.hw = pci.hw /\ pci'.command = pci.command /\ pci'.devices = pci.devices
          /\ pci'.supports_msi = pci.supports_msi /\ (pci'.f = pci.f \/ pci'.f = pci.f + 1)
      BY <1>0, <1>7, NextFunctionFields, Zenon DEF PciShape
    <2>3. ListState'
      BY <1>0, <1>1, <2>2, ListKept
    <2> QED BY <2>1, <2>3
  <1>8. CASE pci' = NextFunction(start)
    <2>0. start.f \in 1..Functions /\ DOMAIN start.info = DOMAIN pci.info
      BY <1>0, <1>1, <1>2, <1>3 DEF PciShape
    <2>1. BarState' /\ CapState'
      BY <1>0, <1>1, <1>2, <1>8, <2>0, FunctionLeft, Zenon
    <2>2. /\ pci'.hw = pci.hw /\ pci'.command = start.command /\ pci'.devices = pci.devices
          /\ pci'.supports_msi = pci.supports_msi /\ (pci'.f = pci.f \/ pci'.f = pci.f + 1)
      <3>1. /\ pci'.hw = start.hw /\ pci'.command = start.command /\ pci'.devices = start.devices
            /\ pci'.supports_msi = start.supports_msi /\ (pci'.f = start.f \/ pci'.f = start.f + 1)
        BY <1>0, <1>2, <1>8, <2>0, NextFunctionFields, Zenon
      <3> QED BY <1>2, <3>1
    <2>3. ListState'
      BY <1>0, <1>1, <1>2, <2>2, ListKept
    <2> QED BY <2>1, <2>3
  <1>9. CASE Here.header = "cardbus" /\ pci' = [start EXCEPT !.pc = "enable"]
    <2>1. /\ pci'.pc = "enable" /\ pci'.hw = pci.hw /\ pci'.f = pci.f /\ pci'.info = start.info
          /\ pci'.starved = FALSE /\ pci'.supports_msi = pci.supports_msi
          /\ pci'.devices = pci.devices /\ pci'.command = start.command
      BY <1>0, <1>2, <1>9 DEF PciShape
    <2>2. Here' = Here
      BY <2>1 DEF Here
    <2>3. BarState'
      BY <1>5, <1>9, <2>1, <2>2 DEF BarState, Sizing
    <2>4. CapState'
      BY <1>0, <1>3, <1>4, <1>6, <2>1, <2>2, Zenon DEF CapState, Sizing
    <2>5. ListState'
      BY <1>0, <1>1, <1>2, <2>1, ListKept
    <2> QED BY <2>3, <2>4, <2>5
  <1>10. CASE Here.header = "general" /\ pci' = [start EXCEPT !.pc = "caps", !.cap = Here.first]
    <2>1. /\ pci'.pc = "caps" /\ pci'.hw = pci.hw /\ pci'.f = pci.f /\ pci'.info = start.info
          /\ pci'.starved = FALSE /\ pci'.supports_msi = pci.supports_msi /\ pci'.index = 1
          /\ pci'.devices = pci.devices /\ pci'.command = start.command
      BY <1>0, <1>2, <1>10 DEF PciShape
    <2>2. Here' = Here
      BY <2>1 DEF Here
    <2>3. BarState'
      BY <1>3, <1>10, <2>1, <2>2 DEF BarState, Sizing
    <2>4. CapState'
      BY <1>0, <1>3, <1>4, <1>6, <2>1, <2>2, Zenon DEF CapState, Sizing
    <2>5. ListState'
      BY <1>0, <1>1, <1>2, <2>1, ListKept
    <2> QED BY <2>3, <2>4, <2>5
  <1> QED BY <1>7, <1>8, <1>9, <1>10, Zenon DEF parse_function, start

\* A capability adds what it is to the description, whatever was found before it.
LEMMA CapabilityFound ==
  ASSUME CapState, pci.pc = "caps", NEW allocated \in BOOLEAN, NEW id, id = Here.caps[pci.cap].id,
         validate_cap_offset(pci.info.vendor_caps, pci.cap),
         NEW starved \in BOOLEAN, starved = (pci.starved \/ (id = "msix" /\ ~allocated)),
         NEW info, info = Capability(id, allocated)
  PROVE  /\ DOMAIN info = DOMAIN pci.info /\ info.bars = pci.info.bars
         /\ CapsFound(Here, info, starved, pci.supports_msi)
  <1>0. PICK old, hw, msi : old = pci.info /\ hw = Here /\ msi = pci.supports_msi
    OBVIOUS
  <1>1. /\ VendorsFound(hw, old.vendor_caps) /\ pci.starved \in BOOLEAN /\ msi \in BOOLEAN
        /\ DOMAIN old = {"bars", "msi", "offset", "vendor_caps", "pcie", "command"}
        /\ old.msi # "none" => msi = TRUE /\ (pci.starved = FALSE => hw.caps[old.offset].id = old.msi)
    BY <1>0 DEF CapState, CapsFound
  <1>2. starved = FALSE => pci.starved = FALSE /\ (id = "msix" => allocated = TRUE)
    BY <1>1, Zenon
  <1>3. hw.caps[pci.cap].id = id
    BY <1>0
  <1>4. \/ info = old
        \/ msi = TRUE /\ id = "msi" /\ info = [old EXCEPT !.msi = "msi", !.offset = pci.cap]
        \/ msi = TRUE /\ id = "msix" /\ info = [old EXCEPT !.offset = pci.cap, !.msi = IF allocated THEN "msix" ELSE @]
        \/ id = "vendor" /\ info = [old EXCEPT !.vendor_caps = Append(@, pci.cap)]
        \/ info = [old EXCEPT !.pcie = TRUE]
    <2>1. CASE id = "msix" /\ msi = TRUE
      BY <1>0, <2>1 DEF Capability, msix
    <2>2. CASE ~(id = "msix" /\ msi = TRUE)
      BY <1>0, <1>1, <2>2, Zenon DEF Capability
    <2> QED BY <2>1, <2>2, Zenon
  <1> SUFFICES /\ DOMAIN info = DOMAIN old /\ info.bars = old.bars /\ VendorsFound(hw, info.vendor_caps)
               /\ info.msi # "none" => msi = TRUE /\ (starved = FALSE => hw.caps[info.offset].id = info.msi)
    BY <1>0, Zenon DEF CapsFound
  <1>5. CASE info = old
    BY <1>1, <1>2, <1>5, Zenon
  <1>6. CASE msi = TRUE /\ id = "msi" /\ info = [old EXCEPT !.msi = "msi", !.offset = pci.cap]
    <2>1. /\ DOMAIN info = DOMAIN old /\ info.bars = old.bars /\ info.vendor_caps = old.vendor_caps
          /\ info.msi = id /\ info.offset = pci.cap
      BY <1>1, <1>6, Zenon
    <2> QED BY <1>1, <1>3, <1>6, <2>1, Zenon
  <1>7. CASE msi = TRUE /\ id = "msix"
             /\ info = [old EXCEPT !.offset = pci.cap, !.msi = IF allocated THEN "msix" ELSE @]
    <2>1. /\ DOMAIN info = DOMAIN old /\ info.bars = old.bars /\ info.vendor_caps = old.vendor_caps
          /\ info.offset = pci.cap /\ (allocated = TRUE => info.msi = id)
      BY <1>1, <1>7, Zenon
    <2> QED BY <1>1, <1>2, <1>3, <1>7, <2>1, Zenon
  <1>8. CASE id = "vendor" /\ info = [old EXCEPT !.vendor_caps = Append(@, pci.cap)]
    <2>1. PICK caps, new : caps = old.vendor_caps /\ new = info.vendor_caps
      OBVIOUS
    <2>2. /\ DOMAIN info = DOMAIN old /\ info.bars = old.bars /\ info.msi = old.msi
          /\ info.offset = old.offset /\ new = Append(caps, pci.cap)
      BY <1>1, <1>8, <2>1
    <2>3. VendorsFound(hw, caps)
      BY <1>1, <2>1, Zenon
    <2>4. PICK S : caps \in Seq(S)
      BY <2>3, Zenon DEF VendorsFound
    <2>5. PICK n \in Nat :
             /\ DOMAIN caps = 1..n /\ DOMAIN new = 1..(n + 1)
             /\ new[n + 1] = pci.cap /\ (\A k \in 1..n : new[k] = caps[k])
             /\ new \in Seq(S \cup {pci.cap})
      <3>1. Len(caps) \in Nat
        BY <2>4
      <3> QED BY <2>2, <2>4, <3>1
    <2>6. \A k \in DOMAIN caps : pci.cap # caps[k]
      BY <1>0, <2>1 DEF validate_cap_offset
    <2>7. VendorsFound(hw, new)
      <3>1. ASSUME NEW j \in DOMAIN new PROVE hw.caps[new[j]].id = "vendor"
        BY <1>3, <1>8, <2>3, <2>5 DEF VendorsFound
      <3>2. ASSUME NEW j \in DOMAIN new, NEW k \in DOMAIN new, new[j] = new[k] PROVE j = k
        <4>1. CASE j \in 1..n /\ k \in 1..n
          BY <2>3, <2>5, <3>2, <4>1 DEF VendorsFound
        <4>2. CASE ~(j \in 1..n /\ k \in 1..n)
          BY <2>5, <2>6, <3>2, <4>2
        <4> QED BY <4>1, <4>2, Zenon
      <3> QED BY <2>5, <3>1, <3>2, Zenon DEF VendorsFound
    <2> QED BY <1>1, <1>2, <2>1, <2>2, <2>7, Zenon
  <1>9. CASE info = [old EXCEPT !.pcie = TRUE]
    <2>1. /\ DOMAIN info = DOMAIN old /\ info.bars = old.bars /\ info.vendor_caps = old.vendor_caps
          /\ info.msi = old.msi /\ info.offset = old.offset
      BY <1>1, <1>9
    <2> QED BY <1>1, <1>2, <2>1, Zenon
  <1> QED BY <1>4, <1>5, <1>6, <1>7, <1>8, <1>9, Zenon

\* The loop over the BARs starts at the first, with nothing entered.
LEMMA LoopStarts ==
  ASSUME PciShape
  PROVE  BarsSoFar(Here, NoInfo.bars, 1)
  <1>1. BarCount \in Nat
    BY PciAssumption
  <1>2. 1 <= BarCount => Here.bars[1].kind # "upper"
    <2> SUFFICES ASSUME 1 <= BarCount PROVE Here.bars[1].kind # "upper"
      OBVIOUS
    <2>1. 1 \in 1..BarCount
      BY <1>1
    <2>2. Here.bars[1].kind = "upper" => 1 > 1
      BY <2>1, BarLaidOut, Zenon
    <2> QED BY <2>2
  <1>3. \A i \in 1..BarCount : ~(i < 1)
    BY <1>1
  <1> QED BY <1>1, <1>2, <1>3 DEF BarsSoFar, NoInfo

\* pci_parse_capabilities.
LEMMA CapabilitiesList ==
  ASSUME ListInv, pci_parse_capabilities
  PROVE  BarState' /\ CapState' /\ ListState'
  <1>0. PciShape /\ BarState /\ CapState /\ ListState
    BY DEF ListInv, PciInv
  <1>1. pci.pc = "caps"
    BY Zenon DEF pci_parse_capabilities
  <1>2. /\ Here.header = "general" /\ pci.index = 1 /\ pci.info.bars = NoInfo.bars
    BY <1>0, <1>1, Zenon DEF BarState
  <1>3. CapsFound(Here, pci.info, pci.starved, pci.supports_msi)
    BY <1>0, <1>1 DEF CapState
  <1>4. /\ pci'.hw = pci.hw /\ pci'.f = pci.f /\ pci'.index = pci.index /\ pci'.command = pci.command
        /\ pci'.devices = pci.devices /\ pci'.supports_msi = pci.supports_msi /\ pci'.pc \in {"caps", "bar"}
    BY <1>0, <1>1, ZenonT(40) DEF PciShape, pci_parse_capabilities
  <1>5. Here' = Here
    BY <1>4 DEF Here
  <1>6. /\ DOMAIN pci'.info = DOMAIN pci.info /\ pci'.info.bars = pci.info.bars /\ pci'.starved \in BOOLEAN
        /\ CapsFound(Here, pci'.info, pci'.starved, pci.supports_msi)
    <2>1. CASE pci'.info = pci.info /\ pci'.starved = pci.starved
      BY <1>0, <1>3, <2>1, Zenon DEF CapState
    <2>2. CASE ~(pci'.info = pci.info /\ pci'.starved = pci.starved)
      <3>1. PICK allocated \in BOOLEAN :
              /\ validate_cap_offset(pci.info.vendor_caps, pci.cap)
              /\ pci'.info = Capability(Here.caps[pci.cap].id, allocated)
              /\ pci'.starved = (pci.starved \/ (Here.caps[pci.cap].id = "msix" /\ ~allocated))
        BY <1>0, <2>2, Zenon DEF PciShape, pci_parse_capabilities
      <3>2. pci'.starved \in BOOLEAN
        BY <3>1, Zenon
      <3>3. PICK id : id = Here.caps[pci.cap].id
        OBVIOUS
      <3>4. PICK info, starved : info = pci'.info /\ starved = pci'.starved
        OBVIOUS
      <3>5. /\ starved \in BOOLEAN /\ info = Capability(id, allocated)
            /\ starved = (pci.starved \/ (id = "msix" /\ ~allocated))
        BY <3>1, <3>2, <3>3, <3>4, Zenon
      <3>6. /\ DOMAIN info = DOMAIN pci.info /\ info.bars = pci.info.bars
            /\ CapsFound(Here, info, starved, pci.supports_msi)
        BY <1>0, <1>1, <3>1, <3>3, <3>5, CapabilityFound, ZenonT(40)
      <3> QED BY <3>2, <3>4, <3>6, Zenon
    <2> QED BY <2>1, <2>2, Zenon
  <1>7. BarsSoFar(Here, pci'.info.bars, pci'.index)
    BY <1>0, <1>2, <1>4, <1>6, LoopStarts, Zenon
  <1>8. BarState'
    BY <1>2, <1>4, <1>5, <1>6, <1>7, Zenon DEF BarState, Sizing
  <1>9. CapState'
    BY <1>0, <1>4, <1>5, <1>6, Zenon DEF CapState, Sizing
  <1>10. ListState'
    BY <1>0, <1>1, <1>4, ListKept
  <1> QED BY <1>8, <1>9, <1>10

\* The steps of the loop over the BARs leave the rest of the description, and the list.
LEMMA LoopQuiet ==
  ASSUME ListInv, pci.pc \in {"bar"} \cup Sizing, pci'.pc \in {"bar", "enable"} \cup Sizing,
         pci'.hw = pci.hw, pci'.f = pci.f, pci'.command = pci.command, pci'.devices = pci.devices,
         pci'.supports_msi = pci.supports_msi, pci'.starved = pci.starved,
         DOMAIN pci'.info = DOMAIN pci.info, pci'.info.msi = pci.info.msi,
         pci'.info.offset = pci.info.offset, pci'.info.vendor_caps = pci.info.vendor_caps
  PROVE  Here' = Here /\ CapState' /\ ListState'
  <1>0. PciShape /\ CapState /\ ListState
    BY DEF ListInv, PciInv
  <1>1. Here' = Here
    BY DEF Here
  <1>2. CapsFound(Here, pci.info, pci.starved, pci.supports_msi)
    BY <1>0 DEF CapState
  <1>3. CapsFound(Here, pci'.info, pci'.starved, pci'.supports_msi)
    BY <1>2, Zenon DEF CapsFound
  <1>4. pci'.pc \in {"bar", "enable", "low", "size", "high", "upper"}
    BY DEF Sizing
  <1>5. CapState'
    BY <1>0, <1>1, <1>3, <1>4, Zenon DEF CapState
  <1>6. ListState'
    BY <1>0, <1>4, ListKept DEF Sizing
  <1> QED BY <1>1, <1>5, <1>6

\* The loop enters what it found at the first register of a BAR and goes past all of them.
LEMMA BarEntered ==
  ASSUME NEW hw, NEW bars, NEW index \in 1..BarCount, BarsSoFar(hw, bars, index), ~IsBad(hw, index),
         NEW next \in {index + 1, index + 2},
         next = index + 2 => index + 1 \in 1..BarCount /\ hw.bars[index + 1].kind = "upper",
         next <= BarCount => hw.bars[next].kind # "upper"
  PROVE  BarsSoFar(hw, [bars EXCEPT ![index] = Described(hw.bars[index])], next)
  <1>1. PICK new : new = [bars EXCEPT ![index] = Described(hw.bars[index])]
    BY Zenon
  <1>2. BarCount \in Nat /\ index \in Nat /\ next \in Nat
    BY PciAssumption
  <1>3. /\ DOMAIN new = 1..BarCount /\ new[index] = Described(hw.bars[index])
        /\ \A i \in 1..BarCount : i # index => new[i] = bars[i]
    BY <1>1 DEF BarsSoFar
  <1>4. next \in 1..(BarCount + 1)
    BY <1>2
  <1>5. ASSUME NEW i \in 1..BarCount
        PROVE  /\ new[i] = IF i < next THEN Described(hw.bars[i]) ELSE NoBar
               /\ i < next => ~IsBad(hw, i)
    <2>1. bars[i] = (IF i < index THEN Described(hw.bars[i]) ELSE NoBar) /\ (i < index => ~IsBad(hw, i))
      BY DEF BarsSoFar
    <2>2. CASE i = index
      BY <1>2, <1>3, <2>2
    <2>3. CASE i < index
      BY <1>2, <1>3, <2>1, <2>3
    <2>4. CASE i > index /\ i < next
      <3>1. i = index + 1 /\ next = index + 2
        BY <1>2, <2>4
      <3>2. hw.bars[i].kind = "upper"
        BY <3>1
      <3>3. Described(hw.bars[i]) = NoBar /\ ~IsBad(hw, i)
        BY <3>2, Zenon DEF Described, IsBad
      <3> QED BY <1>2, <1>3, <2>1, <2>4, <3>3, Zenon
    <2>5. CASE i >= next
      BY <1>2, <1>3, <2>1, <2>5
    <2> QED BY <1>2, <2>2, <2>3, <2>4, <2>5
  <1>6. BarsSoFar(hw, new, next)
    BY <1>3, <1>4, <1>5, Zenon DEF BarsSoFar
  <1> QED BY <1>1, <1>6, Zenon

\* The kind the loop reads from the register it has come to.
LEMMA KindHere ==
  ASSUME PciShape, NEW i \in 1..BarCount, Here.bars[i].kind # "upper"
  PROVE  KindOf(Firmware(pci.f, i)) = IF Here.bars[i].kind = "none" THEN "mem32" ELSE Here.bars[i].kind
  <1>1. PICK bar : bar = Here.bars[i]
    OBVIOUS
  <1>2. /\ bar \in BarRecords
        /\ bar.kind = "io" => bar.pref = FALSE /\ bar.base % 4 = 0
        /\ bar.kind \in {"mem32", "mem64", "rsvd"} => bar.base % 16 = 0
        /\ bar.kind \in {"io", "mem32"} => bar.base < REG
    BY <1>1, BarLaidOut, Zenon
  <1>3. KindOf(AddressBits(bar, bar.base)) = IF bar.kind = "none" THEN "mem32" ELSE bar.kind
    BY <1>1, <1>2, KindShown, Zenon
  <1> QED BY <1>1, <1>3, Zenon DEF Firmware, Here

\* pci_parse_bar, up to the write of all ones.
LEMMA ProbeLists ==
  ASSUME ListInv, pci_parse_bar
  PROVE  BarState' /\ CapState' /\ ListState'
  <1>0. PciShape /\ OthersKept /\ BarState /\ CapState /\ ListState
    BY DEF ListInv, PciInv
  <1>1. pci.pc = "bar" /\ pci.index \in 1..BarCount /\ \A f : Probed(f) = {}
    BY <1>0, PciAssumption DEF pci_parse_bar, PciShape, Probed
  <1>2. ReadBar(pci.index) = Firmware(pci.f, pci.index)
    BY <1>0, <1>1, Zenon DEF OthersKept, PciShape, ReadBar
  <1>3. Here.header = "general" /\ BarsSoFar(Here, pci.info.bars, pci.index)
    BY <1>0, <1>1, Zenon DEF BarState
  <1>4. Here.bars[pci.index].kind # "upper"
    BY <1>1, <1>3, PciAssumption DEF BarsSoFar
  <1>5. IsBad(Here, pci.index) <=>
          LET v == ReadBar(pci.index)
          IN  KindOf(v) = "rsvd" \/ (KindOf(v) = "mem64" /\ pci.index = BarCount)
    BY <1>0, <1>1, <1>2, <1>4, KindHere, Zenon DEF IsBad
  <1>6. CASE IsBad(Here, pci.index)
    <2>1. pci' = [pci EXCEPT !.pc = "enable"]
      BY <1>5, <1>6, Zenon DEF pci_parse_bar
    <2>2. /\ pci'.pc = "enable" /\ pci'.hw = pci.hw /\ pci'.f = pci.f /\ pci'.command = pci.command
          /\ pci'.devices = pci.devices /\ pci'.supports_msi = pci.supports_msi
          /\ pci'.starved = pci.starved /\ pci'.info = pci.info
      BY <1>0, <2>1 DEF PciShape
    <2>3. Here' = Here /\ CapState' /\ ListState'
      BY <1>1, <2>2, LoopQuiet, Zenon
    <2>4. BarsListed(Here, pci.info.bars)
      BY <1>3, <1>6, LoopEnds, Zenon
    <2>5. BarState'
      BY <2>2, <2>3, <2>4, Zenon DEF BarState, Sizing
    <2> QED BY <2>3, <2>5
  <1>7. CASE ~IsBad(Here, pci.index)
    <2>1. pci' = [pci EXCEPT !.reg = WriteBar(pci.index, UINT32_MAX), !.orig = ReadBar(pci.index), !.pc = "low"]
      BY <1>5, <1>7, Zenon DEF pci_parse_bar
    <2>2. /\ pci'.pc = "low" /\ pci'.hw = pci.hw /\ pci'.f = pci.f /\ pci'.command = pci.command
          /\ pci'.devices = pci.devices /\ pci'.supports_msi = pci.supports_msi
          /\ pci'.starved = pci.starved /\ pci'.info = pci.info /\ pci'.index = pci.index
          /\ pci'.orig = ReadBar(pci.index) /\ pci'.reg = WriteBar(pci.index, UINT32_MAX)
      BY <1>0, <2>1 DEF PciShape
    <2>3. Here' = Here /\ CapState' /\ ListState'
      BY <1>1, <2>2, LoopQuiet, Zenon DEF Sizing
    <2>4. ReadBar(pci.index)' = Kept(Here.bars[pci.index], UINT32_MAX)
      BY <1>0, <1>1, <2>2, WriteBarFields, ZenonT(40) DEF ReadBar, Here
    <2>5. Firmware(pci.f, pci.index)' = Firmware(pci.f, pci.index)
      BY <2>2, Zenon DEF Firmware
    <2>6. BarState'
      BY <1>2, <1>3, <1>7, <2>2, <2>3, <2>4, <2>5, Zenon DEF BarState, Sizing
    <2> QED BY <2>3, <2>6
  <1> QED BY <1>6, <1>7

\* What the loop knows while it sizes a BAR.
LEMMA SizingHere ==
  ASSUME ListInv, pci.pc \in Sizing
  PROVE  /\ pci.index \in 1..BarCount /\ pci.orig = AddressBits(Here.bars[pci.index], Here.bars[pci.index].base)
         /\ Here.header = "general" /\ BarsSoFar(Here, pci.info.bars, pci.index)
         /\ ~IsBad(Here, pci.index) /\ Here.bars[pci.index].kind # "upper"
         /\ KindOf(pci.orig) =
              IF Here.bars[pci.index].kind = "none" THEN "mem32" ELSE Here.bars[pci.index].kind
  <1>0. PciShape /\ ProbedAddressKept /\ BarState
    BY DEF ListInv, PciInv
  <1>1. pci.index \in 1..BarCount
    BY <1>0 DEF ProbedAddressKept
  <1>2. /\ Here.header = "general" /\ BarsSoFar(Here, pci.info.bars, pci.index)
        /\ ~IsBad(Here, pci.index) /\ pci.orig = Firmware(pci.f, pci.index)
    BY <1>0, Zenon DEF BarState
  <1>3. Here.bars[pci.index].kind # "upper"
    BY <1>1, <1>2, PciAssumption DEF BarsSoFar
  <1> QED BY <1>0, <1>1, <1>2, <1>3, KindHere, Zenon DEF Firmware, Here

\* The read of what the register kept.
LEMMA ReadLowLists ==
  ASSUME ListInv, ReadLow
  PROVE  BarState' /\ CapState' /\ ListState'
  <1>0. PciShape /\ BarState /\ pci.pc = "low"
    BY DEF ListInv, PciInv, ReadLow
  <1>1. /\ pci.index \in 1..BarCount /\ Here.header = "general" /\ BarsSoFar(Here, pci.info.bars, pci.index)
        /\ ~IsBad(Here, pci.index)
        /\ KindOf(pci.orig) =
              IF Here.bars[pci.index].kind = "none" THEN "mem32" ELSE Here.bars[pci.index].kind
    BY <1>0, SizingHere, Zenon DEF Sizing
  <1>2. /\ pci.orig = Firmware(pci.f, pci.index)
        /\ ReadBar(pci.index) = Kept(Here.bars[pci.index], UINT32_MAX)
    BY <1>0, Zenon DEF BarState, Sizing
  <1>3. /\ pci'.hw = pci.hw /\ pci'.f = pci.f /\ pci'.command = pci.command
        /\ pci'.devices = pci.devices /\ pci'.supports_msi = pci.supports_msi
        /\ pci'.starved = pci.starved /\ pci'.info = pci.info /\ pci'.index = pci.index
        /\ pci'.orig = pci.orig /\ pci'.low = ReadBar(pci.index)
        /\ pci'.pc = IF KindOf(pci.orig) = "mem64" THEN "high" ELSE "size"
    BY <1>0 DEF PciShape, ReadLow
  <1>4. Here' = Here /\ CapState' /\ ListState'
    BY <1>0, <1>3, LoopQuiet, Zenon DEF Sizing
  <1>5. Firmware(pci.f, pci.index)' = Firmware(pci.f, pci.index)
    BY <1>3, Zenon DEF Firmware
  <1>6. \/ pci'.pc = "high" /\ Here.bars[pci.index].kind = "mem64"
        \/ pci'.pc = "size" /\ Here.bars[pci.index].kind # "mem64"
    BY <1>1, <1>3, Zenon
  <1>7. BarState'
    BY <1>1, <1>2, <1>3, <1>4, <1>5, <1>6, Zenon DEF BarState, Sizing
  <1> QED BY <1>4, <1>7

\* The size of a port or 32-bit memory BAR.
LEMMA Size32Lists ==
  ASSUME ListInv, Size32
  PROVE  BarState' /\ CapState' /\ ListState'
  <1>0. PciShape /\ BarState /\ CapState /\ pci.pc = "size" /\ BarCount \in Nat
    BY PciAssumption DEF ListInv, PciInv, Size32
  <1>1. PICK bar : bar = Here.bars[pci.index]
    OBVIOUS
  <1>2. /\ pci.index \in 1..BarCount /\ pci.orig = AddressBits(bar, bar.base)
        /\ Here.header = "general" /\ BarsSoFar(Here, pci.info.bars, pci.index)
        /\ ~IsBad(Here, pci.index) /\ bar.kind # "upper"
        /\ KindOf(pci.orig) = IF bar.kind = "none" THEN "mem32" ELSE bar.kind
    BY <1>0, <1>1, SizingHere, Zenon DEF Sizing
  <1>3. pci.low = Kept(bar, UINT32_MAX) /\ bar.kind # "mem64"
    BY <1>0, <1>1, Zenon DEF BarState
  <1>4. /\ bar \in BarRecords
        /\ bar.kind = "io" => bar.pref = FALSE /\ bar.base % 4 = 0 /\ bar.size % 4 = 0
        /\ bar.kind = "mem32" => bar.base % 16 = 0 /\ bar.size % 16 = 0
        /\ bar.kind \in {"io", "mem32"} => bar.base < REG /\ bar.size \in 1..(REG - 1)
    <2>1. "mem32" \in {"mem32", "mem64", "rsvd"}
      OBVIOUS
    <2> QED BY <1>0, <1>1, <1>2, <2>1, BarLaidOut, Zenon
  <1>5. bar.kind \in {"io", "mem32", "none"}
    BY <1>1, <1>2, <1>3, <1>4, Zenon DEF BarRecords, IsBad
  <1> DEFINE size == (REG - Below(pci.low, 4)) % REG
             front == Below(pci.orig, IF KindOf(pci.orig) = "io" THEN 4 ELSE 16)
             entry == IF size = 0 THEN NoBar ELSE Bar(front, size)
  <1>6. entry = Described(bar)
    <2>1. CASE bar.kind = "io"
      <3>1. size = bar.size /\ front = bar.base
        BY <1>2, <1>3, <1>4, <2>1, SizedPort, Zenon
      <3>2. bar.size # 0 /\ bar.size - 0 = bar.size
        BY <1>4, <2>1
      <3> HIDE DEF size, front
      <3> QED BY <1>2, <2>1, <3>1, <3>2, Zenon DEF Bar, Described
    <2>2. CASE bar.kind = "mem32"
      <3>1. /\ size = bar.size - (IF bar.pref THEN 8 ELSE 0) /\ front = bar.base
            /\ bar.size - (IF bar.pref THEN 8 ELSE 0) # 0
        BY <1>2, <1>3, <1>4, <2>2, SizedMemory, Zenon
      <3> HIDE DEF size, front
      <3> QED BY <1>2, <2>2, <3>1, Zenon DEF Bar, Described
    <2>3. CASE bar.kind = "none"
      <3>1. size = 0
        BY <1>3, <2>3, SizedNone
      <3> HIDE DEF size, front
      <3> QED BY <2>3, <3>1 DEF Described
    <2> QED BY <1>5, <2>1, <2>2, <2>3, Zenon
  <1>7. Registers(KindOf(pci.orig)) = 1
    BY <1>2, <1>5 DEF Registers
  <1> HIDE DEF size, front, entry
  <1>8. pci' = [pci EXCEPT !.info.bars[pci.index] = entry, !.index = @ + 1, !.pc = "bar"]
    BY <1>7, Zenon DEF Size32, entry, size, front
  <1>9. /\ pci'.pc = "bar" /\ pci'.hw = pci.hw /\ pci'.f = pci.f /\ pci'.command = pci.command
        /\ pci'.devices = pci.devices /\ pci'.supports_msi = pci.supports_msi
        /\ pci'.starved = pci.starved /\ pci'.index = pci.index + 1
        /\ pci'.info = [pci.info EXCEPT !.bars = [pci.info.bars EXCEPT ![pci.index] = entry]]
    BY <1>0, <1>8 DEF PciShape
  <1>10. /\ DOMAIN pci'.info = DOMAIN pci.info /\ pci'.info.msi = pci.info.msi
         /\ pci'.info.offset = pci.info.offset /\ pci'.info.vendor_caps = pci.info.vendor_caps
         /\ pci'.info.bars = [pci.info.bars EXCEPT ![pci.index] = entry]
    BY <1>0, <1>9 DEF CapState
  <1>11. Here' = Here /\ CapState' /\ ListState'
    BY <1>0, <1>9, <1>10, LoopQuiet DEF Sizing
  <1>12. pci.index + 1 <= BarCount => Here.bars[pci.index + 1].kind # "upper"
    <2> SUFFICES ASSUME pci.index + 1 <= BarCount, Here.bars[pci.index + 1].kind = "upper" PROVE FALSE
      OBVIOUS
    <2>1. pci.index + 1 \in 1..BarCount /\ (pci.index + 1) - 1 = pci.index
      BY <1>0, <1>2
    <2>2. Here.bars[(pci.index + 1) - 1].kind = "mem64"
      BY <1>0, <2>1, BarLaidOut, Zenon
    <2> QED BY <1>1, <1>3, <2>1, <2>2, Zenon
  <1>13. BarsSoFar(Here, pci'.info.bars, pci.index + 1)
    <2>1. /\ pci.index + 1 \in {pci.index + 1, pci.index + 2}
          /\ ~(pci.index + 1 = pci.index + 2)
      BY <1>2
    <2>2. BarsSoFar(Here, [pci.info.bars EXCEPT ![pci.index] = Described(Here.bars[pci.index])], pci.index + 1)
      BY <1>2, <1>12, <2>1, BarEntered, Zenon
    <2> QED BY <1>1, <1>6, <1>10, <2>2, Zenon
  <1>14. BarState'
    BY <1>2, <1>9, <1>11, <1>13 DEF BarState, Sizing
  <1> QED BY <1>11, <1>14

\* All ones in the second register of a pair.
LEMMA SizeUpperLists ==
  ASSUME ListInv, SizeUpper
  PROVE  BarState' /\ CapState' /\ ListState'
  <1>0. PciShape /\ BarState /\ ProbedAddressKept /\ pci.pc = "high"
    BY DEF ListInv, PciInv, SizeUpper
  <1>1. /\ pci.index \in 1..BarCount /\ Here.header = "general" /\ BarsSoFar(Here, pci.info.bars, pci.index)
        /\ ~IsBad(Here, pci.index)
    BY <1>0, SizingHere, Zenon DEF Sizing
  <1>2. /\ pci.orig = Firmware(pci.f, pci.index) /\ pci.low = Kept(Here.bars[pci.index], UINT32_MAX)
        /\ Here.bars[pci.index].kind = "mem64" /\ pci.index + 1 \in 1..BarCount
    BY <1>0, Zenon DEF BarState, Sizing, ProbedAddressKept
  <1>3. /\ pci'.hw = pci.hw /\ pci'.f = pci.f /\ pci'.command = pci.command
        /\ pci'.devices = pci.devices /\ pci'.supports_msi = pci.supports_msi
        /\ pci'.starved = pci.starved /\ pci'.info = pci.info /\ pci'.index = pci.index
        /\ pci'.orig = pci.orig /\ pci'.low = pci.low /\ pci'.pc = "upper"
        /\ pci'.reg = WriteBar(pci.index + 1, UINT32_MAX)
    BY <1>0 DEF PciShape, SizeUpper
  <1>4. Here' = Here /\ CapState' /\ ListState'
    BY <1>0, <1>3, LoopQuiet, Zenon DEF Sizing
  <1>5. Firmware(pci.f, pci.index)' = Firmware(pci.f, pci.index)
    BY <1>3, Zenon DEF Firmware
  <1>6. ReadBar(pci.index + 1)' = Kept(Here.bars[pci.index + 1], UINT32_MAX)
    BY <1>0, <1>2, <1>3, WriteBarFields, Zenon DEF ReadBar, Here
  <1>7. BarState'
    BY <1>1, <1>2, <1>3, <1>4, <1>5, <1>6, Zenon DEF BarState, Sizing
  <1> QED BY <1>4, <1>7

\* The size of a 64-bit memory BAR.
LEMMA Size64Lists ==
  ASSUME ListInv, Size64
  PROVE  BarState' /\ CapState' /\ ListState'
  <1>0. PciShape /\ BarState /\ CapState /\ ProbedAddressKept /\ pci.pc = "upper" /\ BarCount \in Nat
    BY PciAssumption DEF ListInv, PciInv, Size64
  <1>1. PICK bar, next : bar = Here.bars[pci.index] /\ next = Here.bars[pci.index + 1]
    BY Zenon
  <1>2. /\ pci.index \in 1..BarCount /\ pci.orig = AddressBits(bar, bar.base)
        /\ Here.header = "general" /\ BarsSoFar(Here, pci.info.bars, pci.index)
        /\ ~IsBad(Here, pci.index)
        /\ KindOf(pci.orig) = IF bar.kind = "none" THEN "mem32" ELSE bar.kind
    BY <1>0, <1>1, SizingHere, Zenon DEF Sizing
  <1>3. /\ pci.low = Kept(bar, UINT32_MAX) /\ ReadBar(pci.index + 1) = Kept(next, UINT32_MAX)
        /\ bar.kind = "mem64" /\ pci.index + 1 \in 1..BarCount
        /\ pci.high = AddressBits(next, next.base)
    BY <1>0, <1>1, Zenon DEF BarState, ProbedAddressKept, Firmware, Here
  <1>4. /\ bar \in BarRecords /\ bar.base % 16 = 0 /\ bar.size % 16 = 0 /\ bar.size \in 1..((REG * REG) - 1)
        /\ next \in BarRecords /\ next.kind = "upper" /\ next.base = bar.base /\ next.size = bar.size
    <2>1. "mem64" \in {"mem32", "mem64", "rsvd"} /\ pci.index < BarCount
      BY <1>0, <1>2, <1>3
    <2> QED BY <1>0, <1>1, <1>2, <1>3, <2>1, BarLaidOut, Zenon
  <1> DEFINE size == ((REG * REG) - ((ReadBar(pci.index + 1) * REG) + Below(pci.low, 16))) % (REG * REG)
             front == (pci.high * REG) + Below(pci.orig, 16)
             entry == IF size = 0 THEN NoBar ELSE Bar(front, size)
  <1>5. size = bar.size /\ front = bar.base
    <2>1. WideBar(bar, next)
      BY <1>3, <1>4, Zenon DEF WideBar
    <2> QED BY <1>2, <1>3, <1>4, <2>1, SizedPair, Zenon
  <1>6. bar.size # 0 /\ bar.size - 0 = bar.size
    <2>1. PICK n : n = bar.size
      OBVIOUS
    <2>2. n \in Nat
      BY <1>4, <2>1 DEF BarRecords
    <2>3. n \in 1..((REG * REG) - 1)
      BY <1>4, <2>1, Zenon
    <2>4. n # 0 /\ n - 0 = n
      BY <2>2, <2>3 DEF REG
    <2> QED BY <2>1, <2>4, Zenon
  <1> HIDE DEF size, front
  <1>7. entry = Described(bar)
    BY <1>2, <1>3, <1>5, <1>6, Zenon DEF Bar, Described
  <1>8. Registers(KindOf(pci.orig)) = 2
    BY <1>2, <1>3, Zenon DEF Registers
  <1> HIDE DEF entry
  <1>9. pci' = [pci EXCEPT !.info.bars[pci.index] = entry, !.reg = WriteBar(pci.index + 1, pci.high),
                           !.index = @ + 2, !.pc = "bar"]
    BY <1>8, Zenon DEF Size64, entry, size, front
  <1>10. /\ pci'.pc = "bar" /\ pci'.hw = pci.hw /\ pci'.f = pci.f /\ pci'.command = pci.command
         /\ pci'.devices = pci.devices /\ pci'.supports_msi = pci.supports_msi
         /\ pci'.starved = pci.starved /\ pci'.index = pci.index + 2
         /\ pci'.info = [pci.info EXCEPT !.bars = [pci.info.bars EXCEPT ![pci.index] = entry]]
    BY <1>0, <1>9 DEF PciShape
  <1>11. /\ DOMAIN pci'.info = DOMAIN pci.info /\ pci'.info.msi = pci.info.msi
         /\ pci'.info.offset = pci.info.offset /\ pci'.info.vendor_caps = pci.info.vendor_caps
         /\ pci'.info.bars = [pci.info.bars EXCEPT ![pci.index] = entry]
    BY <1>0, <1>10 DEF CapState
  <1>12. Here' = Here /\ CapState' /\ ListState'
    BY <1>0, <1>10, <1>11, LoopQuiet DEF Sizing
  <1>13. pci.index + 2 <= BarCount => Here.bars[pci.index + 2].kind # "upper"
    <2> SUFFICES ASSUME pci.index + 2 <= BarCount, Here.bars[pci.index + 2].kind = "upper" PROVE FALSE
      OBVIOUS
    <2>1. pci.index + 2 \in 1..BarCount /\ (pci.index + 2) - 1 = pci.index + 1
      BY <1>0, <1>2
    <2>2. Here.bars[(pci.index + 2) - 1].kind = "mem64"
      BY <1>0, <2>1, BarLaidOut, Zenon
    <2>3. next.kind = "mem64"
      BY <1>1, <2>1, <2>2, Zenon
    <2> QED BY <1>4, <2>3
  <1>14. BarsSoFar(Here, pci'.info.bars, pci.index + 2)
    <2>1. /\ pci.index + 2 \in {pci.index + 1, pci.index + 2}
          /\ pci.index + 1 \in 1..BarCount /\ Here.bars[pci.index + 1].kind = "upper"
      BY <1>1, <1>3, <1>4, Zenon
    <2>2. BarsSoFar(Here, [pci.info.bars EXCEPT ![pci.index] = Described(Here.bars[pci.index])], pci.index + 2)
      BY <1>2, <1>13, <2>1, BarEntered, Zenon
    <2> QED BY <1>1, <1>7, <1>11, <2>2, Zenon
  <1>15. BarState'
    BY <1>2, <1>10, <1>12, <1>14 DEF BarState, Sizing
  <1> QED BY <1>12, <1>15

\* The loop ends behind the last register.
LEMMA BarsDoneLists ==
  ASSUME ListInv, BarsDone
  PROVE  BarState' /\ CapState' /\ ListState'
  <1>0. PciShape /\ BarState /\ pci.pc = "bar" /\ pci.index > BarCount
    BY DEF ListInv, PciInv, BarsDone
  <1>1. /\ pci'.pc = "enable" /\ pci'.hw = pci.hw /\ pci'.f = pci.f /\ pci'.command = pci.command
        /\ pci'.devices = pci.devices /\ pci'.supports_msi = pci.supports_msi
        /\ pci'.starved = pci.starved /\ pci'.info = pci.info
    BY <1>0 DEF PciShape, BarsDone
  <1>2. Here' = Here /\ CapState' /\ ListState'
    BY <1>0, <1>1, LoopQuiet, Zenon
  <1>3. BarsSoFar(Here, pci.info.bars, pci.index)
    BY <1>0, Zenon DEF BarState
  <1>4. BarsListed(Here, pci.info.bars)
    BY <1>0, <1>3, LoopEnds, Zenon
  <1>5. BarState'
    BY <1>1, <1>2, <1>4, Zenon DEF BarState, Sizing
  <1> QED BY <1>2, <1>5

\* Decoding is switched on again for what was found, and the description listed.
LEMMA AddLists ==
  ASSUME ListInv, AddDevice
  PROVE  BarState' /\ CapState' /\ ListState'
  <1>0. PciShape /\ BarState /\ CapState /\ ListState /\ pci.pc = "enable"
    BY DEF ListInv, PciInv, AddDevice
  <1>1. pci.f \in 1..Functions /\ DOMAIN pci.command = 1..Functions /\ pci.f \in Nat
    BY <1>0 DEF PciShape
  <1>2. BarsListed(Here, pci.info.bars) /\ CapsFound(Here, pci.info, pci.starved, pci.supports_msi)
    BY <1>0, Zenon DEF BarState, CapState
  <1>d. PICK d : d = [f |-> pci.f, info |-> pci.info, starved |-> pci.starved]
    BY Zenon
  <1> DEFINE on == [pci EXCEPT !.command[pci.f] = Enabled(pci.info)]
             new == [on EXCEPT !.devices = <<d>> \o @]
  <1>3. /\ DOMAIN on = DOMAIN pci /\ on.hw = pci.hw /\ on.f = pci.f /\ on.info = pci.info
        /\ on.starved = pci.starved /\ on.supports_msi = pci.supports_msi /\ on.devices = pci.devices
        /\ on.command = [pci.command EXCEPT ![pci.f] = Enabled(pci.info)]
    BY <1>0 DEF PciShape
  <1>4. /\ on.command[pci.f] = Enabled(pci.info)
        /\ \A f \in 1..Functions : f # pci.f => on.command[f] = pci.command[f]
    BY <1>1, <1>3, ZenonT(40)
  <1> HIDE DEF on
  <1>5. CASE pci' = NextFunction(on)
    <2>1. BarState' /\ CapState'
      BY <1>0, <1>1, <1>3, <1>5, FunctionLeft, Zenon
    <2>2. /\ pci'.hw = on.hw /\ pci'.command = on.command /\ pci'.devices = on.devices
          /\ pci'.supports_msi = on.supports_msi /\ (pci'.f = on.f \/ pci'.f = on.f + 1)
      BY <1>0, <1>1, <1>3, <1>5, NextFunctionFields, Zenon
    <2>3. ListState'
      BY <1>0, <1>3, <1>4, <2>2, ListKept
    <2> QED BY <2>1, <2>3
  <1>6. CASE pci' = NextFunction(new)
    <2>1. /\ DOMAIN new = DOMAIN pci /\ new.hw = pci.hw /\ new.f = pci.f /\ new.info = pci.info
          /\ new.starved = pci.starved /\ new.supports_msi = pci.supports_msi
          /\ new.devices = <<d>> \o pci.devices /\ new.command = on.command
      BY <1>0, <1>3 DEF PciShape
    <2> HIDE DEF new
    <2>2. BarState' /\ CapState'
      BY <1>0, <1>1, <1>6, <2>1, FunctionLeft, Zenon
    <2>3. /\ pci'.hw = new.hw /\ pci'.command = new.command /\ pci'.devices = new.devices
          /\ pci'.supports_msi = new.supports_msi
          /\ (pci'.pc = "function" /\ pci'.f = new.f + 1) \/ (pci'.pc = "drivers" /\ pci'.f = new.f)
      BY <1>0, <1>1, <1>6, <2>1, NextFunctionFields, Zenon
    <2>4. PICK S : pci.devices \in Seq(S)
      BY <1>0 DEF ListState
    <2>5. pci'.devices \in Seq(S \cup {d})
      BY <2>1, <2>3, <2>4
    <2>6. \A k \in DOMAIN pci'.devices :
             pci'.devices[k] = d \/ \E j \in DOMAIN pci.devices : pci'.devices[k] = pci.devices[j]
      <3> SUFFICES ASSUME NEW k \in DOMAIN pci'.devices, k # 1
                   PROVE  \E j \in DOMAIN pci.devices : pci'.devices[k] = pci.devices[j]
        BY <2>1, <2>3, <2>4
      <3>1. k - 1 \in DOMAIN pci.devices /\ pci'.devices[k] = pci.devices[k - 1]
        BY <2>1, <2>3, <2>4
      <3> QED BY <3>1
    <2>7. DeviceListed(d)'
      <3>1. d.f = pci.f /\ d.info = pci.info /\ d.starved = pci.starved
        BY <1>d
      <3>2. Decoded(pci.info.bars, Enabled(pci.info))
        BY Zenon DEF Decoded, Enabled
      <3>3. pci'.pc \notin {"drivers", "done"} => pci.f < pci'.f
        BY <1>1, <2>1, <2>3
      <3>4. pci'.command[pci.f] = Enabled(pci.info) /\ pci'.hw[pci.f] = Here
            /\ pci'.supports_msi = pci.supports_msi
        BY <1>4, <2>1, <2>3, Zenon DEF Here
      <3>5. pci.starved \in BOOLEAN
        BY <1>0 DEF CapState
      <3> QED BY <1>1, <1>2, <3>1, <3>2, <3>3, <3>4, <3>5, Zenon DEF DeviceListed
    <2>8. ASSUME NEW e, DeviceListed(e) PROVE DeviceListed(e)'
      <3>1. e.f \in 1..Functions /\ e.f < pci.f /\ e.f \in Nat
        BY <1>0, <2>8 DEF DeviceListed
      <3>2. /\ pci'.command[e.f] = pci.command[e.f] /\ pci'.hw = pci.hw
            /\ pci'.supports_msi = pci.supports_msi
        BY <1>1, <1>4, <2>1, <2>3, <3>1
      <3>3. pci'.pc \notin {"drivers", "done"} => e.f < pci'.f
        BY <1>1, <2>1, <2>3, <3>1
      <3> QED BY <2>8, <3>1, <3>2, <3>3, Zenon DEF DeviceListed
    <2>9. ListState'
      <3>1. \A j \in DOMAIN pci.devices : DeviceListed(pci.devices[j])
        BY <1>0 DEF ListState
      <3>2. ASSUME NEW e, NEW k \in DOMAIN pci'.devices, e = pci'.devices[k] PROVE DeviceListed(e)'
        <4>1. CASE e = d
          BY <2>7, <4>1
        <4>2. CASE e # d
          <5>1. DeviceListed(e)
            BY <2>6, <3>1, <3>2, <4>2, Zenon
          <5> QED BY <2>8, <5>1
        <4> QED BY <4>1, <4>2
      <3> QED BY <2>5, <3>2, Zenon DEF ListState
    <2> QED BY <2>2, <2>9
  <1> QED BY <1>d, <1>5, <1>6, Zenon DEF AddDevice, on

\* The drivers are initialised: nothing of the description changes.
LEMMA DriversList ==
  ASSUME ListInv, pci_init_drivers
  PROVE  BarState' /\ CapState' /\ ListState'
  <1>0. PciShape /\ CapState /\ ListState /\ pci.pc = "drivers"
    BY DEF ListInv, PciInv, pci_init_drivers
  <1>1. /\ pci'.pc = "done" /\ pci'.hw = pci.hw /\ pci'.f = pci.f /\ pci'.command = pci.command
        /\ pci'.devices = pci.devices /\ pci'.supports_msi = pci.supports_msi
        /\ pci'.starved = pci.starved /\ pci'.info = pci.info
    BY <1>0 DEF PciShape, pci_init_drivers
  <1>2. BarState' /\ CapState'
    BY <1>0, <1>1, Zenon DEF BarState, CapState, Sizing
  <1>3. ListState'
    BY <1>0, <1>1, ListKept, Zenon
  <1> QED BY <1>2, <1>3

\* What is listed is what the property says of it.
LEMMA ListedIs == ListInv => ListedFaithfully
  <1> SUFFICES ASSUME ListInv, NEW d, DeviceListed(d) PROVE DescribedAsIs(d)
    BY Zenon DEF ListedFaithfully, ListInv, ListState
  <1>1. PICK hw, info : hw = pci.hw[d.f] /\ info = d.info
    OBVIOUS
  <1>2. /\ BarsListed(hw, info.bars) /\ CapsFound(hw, info, d.starved, pci.supports_msi)
        /\ Decoded(info.bars, pci.command[d.f]) /\ d.starved \in BOOLEAN /\ pci.supports_msi \in BOOLEAN
    BY <1>1, Zenon DEF DeviceListed, ListInv, CapState
  <1>3. ASSUME hw.header = "general", NEW i \in 1..BarCount
        PROVE  LET bar == hw.bars[i] IN
               info.bars[i] =
                   IF i >= Bad(hw) \/ bar.kind \in {"none", "upper", "rsvd"} THEN NoBar
                   ELSE [is_present |-> TRUE, is_mmio |-> bar.kind # "io",
                         is_64_bit |-> bar.kind = "mem64", front |-> bar.base,
                         size |-> bar.size - (IF bar.kind = "mem32" /\ bar.pref THEN 8 ELSE 0)]
    BY <1>2, <1>3, Zenon DEF BarsListed, Described
  <1>4. \A j, k \in DOMAIN info.vendor_caps :
               /\ hw.caps[info.vendor_caps[j]].id = "vendor"
               /\ info.vendor_caps[j] = info.vendor_caps[k] => j = k
    BY <1>2, Zenon DEF CapsFound, VendorsFound
  <1>5. /\ info.msi # "none" /\ ~d.starved => hw.caps[info.offset].id = info.msi
        /\ ~pci.supports_msi => info.msi = "none"
    BY <1>2, Zenon DEF CapsFound
  <1> QED BY <1>1, <1>2, <1>3, <1>4, <1>5, ZenonT(40) DEF DescribedAsIs, Decoded

\* For any number of functions, registers and capabilities, any layout PCI allows and
\* whichever allocations fail: a listed device has, before the first malformed BAR, each
\* BAR's own range, the offset of an MSI or MSI-X capability it does have, each vendor
\* capability once, and decodes what its BARs need (pci_parse_bar,
\* pci_parse_capabilities and the end of parse_function).
THEOREM DevicesDescribed == PciSpec => []ListedFaithfully
  <1>1. PciInit => ListInv
    BY ListInit
  <1>2. ListInv /\ [PciNext]_pci => ListInv'
    <2> SUFFICES ASSUME ListInv, [PciNext]_pci PROVE ListInv'
      OBVIOUS
    <2>1. CASE UNCHANGED pci
      <3>1. PciInv'
        BY <2>1, PciStutter DEF ListInv
      <3>2. BarState' = BarState
        BY <2>1, Zenon DEF BarState, Firmware, Here, ReadBar
      <3>3. CapState' = CapState
        BY <2>1, Zenon DEF CapState, Here
      <3>4. ListState' = ListState
        BY <2>1, Zenon DEF ListState, DeviceListed, Here
      <3> QED BY <3>1, <3>2, <3>3, <3>4 DEF ListInv
    <2>2. CASE PciNext
      <3>1. PciInv'
        BY <2>2, PciStep DEF ListInv
      <3>2. BarState' /\ CapState' /\ ListState'
        BY <2>2, FunctionLists, CapabilitiesList, ProbeLists, ReadLowLists, Size32Lists, SizeUpperLists,
           Size64Lists, BarsDoneLists, AddLists, DriversList, Zenon DEF PciNext, PciScan
      <3> QED BY <3>1, <3>2 DEF ListInv
    <2> QED BY <2>1, <2>2
  <1> QED BY <1>1, <1>2, ListedIs, PTL DEF PciSpec
=============================================================================
