---------------------------- MODULE FatBootProofs ----------------------------
(***************************************************************************)
(* Proofs about FatBoot and the enumeration it drives, for any number of    *)
(* root and hub ports and any tree of devices: the hub's ports are asked    *)
(* through the hub's slot, no disk with the file is passed over, what is    *)
(* found is of the medium at hand, and a disk's rings are its own.          *)
(***************************************************************************)
EXTENDS FatBoot, FiniteSetTheorems, TLAPS

(* A directory of a FAT names no file twice.                                *)
NoTwins ==
    \A w \in Worlds : \A x, y \in DOMAIN w.card.dir :
        w.card.dir[x].name = w.card.dir[y].name => x = y

(* The bulk endpoints of the disks have the numbers 1 to 3: number 4 would  *)
(* share the ring of the first device's endpoint 0.                         *)
SmallEndpoints ==
    \A w \in Worlds :
        /\ \A x \in 1 .. RootPorts : w.root[x].in \in 1 .. 3 /\ w.root[x].out \in 1 .. 3
        /\ \A x \in 1 .. HubPorts : w.hub[x].in \in 1 .. 3 /\ w.hub[x].out \in 1 .. 3

Plugged == \E w \in Worlds : type = w.type /\ card = w.card /\ root = w.root /\ hub = w.hub
Slots ==
    /\ at \in Seq(Nat \X Nat) /\ dev \in Seq({0, 1}) /\ Len(dev) = Len(at)
    /\ Len(at) \in Nat
Typed ==
    /\ portnr \in [0 .. 7 -> Nat] /\ devnum \in Nat
    /\ i \in 1 .. RootPorts + 1 /\ h \in 1 .. HubPorts + 1
    /\ n \in Nat /\ next \in Nat \cup {-1} /\ next <= HubPorts + 1
    /\ slot_id \in 0 .. Len(at) /\ r_slot_id \in 0 .. Len(at)
Named == DOMAIN fileInfo = Files

(* Where each medium's way leads.                                           *)
SdPlaces == {"sd_init", "first_sector", "search", "found", "fail"}
UsbPlaces == {"usb_init", "root_port", "hub_port", "alloc", "address", "config",
              "class_hub", "storage", "usb_done", "first_sector", "search",
              "found", "fail", "reset", "stuck"}
WayInv == pc \in IF type = "USB_ISP" THEN UsbPlaces ELSE SdPlaces

(* The first device has slot 1 and the data of pdevs[0], no other has.      *)
FirstDevice ==
    /\ devnum >= 2 /\ r_slot_id = 1 /\ Len(at) >= 1
    /\ dev[1] = 0 /\ \A s \in 2 .. Len(dev) : dev[s] = 1

(* It is a hub whose ports are looked at.                                   *)
HubFound == FirstDevice /\ n >= 1 /\ at[1] = <<portnr[2], 0>>

(* A device that port_test has just found, on the root or behind the hub.   *)
NewOnRoot == n = 0 /\ devnum = 2 /\ portnr[2] = i /\ i <= RootPorts
NewOnHub == HubFound /\ devnum >= 3 /\ h <= HubPorts
Enumerating == {"address", "config", "class_hub", "storage"}
Handed == {"usb_done", "first_sector", "search", "found", "fail"}

ScanInv ==
    /\ pc = "usb_init" /\ next # 0 => HubFound /\ next >= 1
    /\ pc = "root_port" => n = 0 /\ devnum = 1 /\ at = <<>> /\ dev = <<>>
    /\ pc = "hub_port" => HubFound
    /\ pc = "alloc" => (NewOnRoot /\ at = <<>> /\ dev = <<>>) \/ NewOnHub
    /\ pc \in Enumerating =>
           \/ NewOnRoot /\ FirstDevice /\ Len(at) = 1 /\ slot_id = 1
           \/ NewOnHub /\ Len(at) >= 2 /\ slot_id = Len(at)
    /\ pc \in {"config", "class_hub", "storage"} => at[slot_id] = Here
    /\ pc = "class_hub" => At(at[slot_id]).kind = "hub"
    /\ pc \in Handed /\ type = "USB_ISP" =>
           \/ next = -1 /\ pc \in {"usb_done", "fail"} /\ (n = 0 => devnum = 1)
           \/ next = 0 /\ NewOnRoot /\ at[slot_id] = <<i, 0>>
           \/ /\ next = h + 1 /\ h <= HubPorts /\ HubFound /\ pc # "fail"
              /\ at[slot_id] = <<portnr[2], h>>

(* The ports behind us failed or hold nothing to boot from.                 *)
Behind(p) == \A x \in 1 .. p - 1 : Bootable(hub[x]) => <<portnr[2], x>> \in failed
PassedInv ==
    /\ pc = "root_port" => \A x \in 1 .. i - 1 : <<x, 0>> \in failed
    /\ pc \in {"hub_port", "alloc"} \cup Enumerating /\ n # 0 => Behind(h)
    /\ pc = "usb_init" /\ next # 0 => Behind(next)
    /\ pc = "usb_init" /\ next = 0 => failed = {} /\ devnum = 1
    /\ pc \in Handed /\ type = "USB_ISP" =>
           /\ next = -1 /\ n = 0 => \A x \in 1 .. RootPorts : <<x, 0>> \in failed
           /\ next = -1 /\ n # 0 => Behind(HubPorts + 1)
           /\ next >= 1 => Behind(h)

(* The search has the medium at hand before it, and what it has seen of it  *)
(* on USB was not an ISPBOOOT with contents.                                *)
SearchInv ==
    /\ pc \notin {"search", "found", "fail"} => startSector = 0
    /\ pc \in {"search", "found"} => fatType = Medium.fs /\ startSector = Medium.part
    /\ pc = "search" => entry \in 0 .. Len(Medium.dir)
    /\ type = "USB_ISP" /\ pc # "found" => fileInfo["ISPBOOOT"].size = 0
    /\ type = "USB_ISP" /\ pc = "search" =>
           \A x \in 1 .. entry : Medium.dir[x].name = "ISPBOOOT" => Medium.dir[x].size = 0
    /\ type = "USB_ISP" /\ pc = "fail" /\ n = 0 /\ devnum = 2 => ~Bootable(Medium)

(* An entry of a file, as the search leaves it in fileInfo.                 *)
EntryOf(f, t, a) ==
    /\ fileInfo[f].at = a
    /\ fileInfo[f].entry \in DOMAIN t.dir
    /\ t.dir[fileInfo[f].entry] = [name |-> f, size |-> fileInfo[f].size]
Seen == {f \in Files : fileInfo[f].entry # 0}
FilesInv ==
    /\ type = "USB_ISP" /\ pc = "found" =>
           EntryOf("ISPBOOOT", Medium, MediumAt) /\ fileInfo["ISPBOOOT"].size # 0
    /\ type # "USB_ISP" /\ pc \in {"sd_init", "first_sector"} => Seen = {}
    /\ type # "USB_ISP" => \A f \in Files :
           IF f \in Seen THEN EntryOf(f, card, Nowhere) ELSE fileInfo[f] = NoFile
    /\ type # "USB_ISP" /\ pc = "search" =>
           /\ count = Cardinality(Seen)
           /\ \A f \in Seen : fileInfo[f].entry <= entry
    /\ type # "USB_ISP" /\ pc = "found" =>
           Seen = Files \/ fileInfo["ISPBOOOT"].size # 0

(* The rings: the first device's endpoint 0 keeps ring 4.                   *)
RingInv ==
    /\ owner \in [0 .. 4 -> Nat \X Nat]
    /\ pc \in {"hub_port"} \cup Enumerating => owner[4] = <<r_slot_id, 0>>
    /\ pc = "usb_init" /\ next # 0 => owner[4] = <<r_slot_id, 0>>
    /\ pc = "alloc" /\ devnum # 2 => owner[4] = <<r_slot_id, 0>>
    /\ pc \in Handed /\ type = "USB_ISP" /\ next >= 1 => owner[4] = <<r_slot_id, 0>>
    /\ pc \in Enumerating /\ dev[slot_id] # 0 => owner[0] = <<slot_id, 0>>
    /\ pc = "storage" =>
           LET t == At(at[slot_id])
           IN  t.in # t.out => /\ owner[t.in] = <<slot_id, 2 * t.in>>
                               /\ owner[t.out] = <<slot_id, 2 * t.out - 1>>

Inv == Plugged /\ Slots /\ Typed /\ Named /\ WayInv /\ ScanInv /\ PassedInv /\ SearchInv /\ FilesInv

-----------------------------------------------------------------------------
(* The initial states: nothing is looked at yet.                            *)
LEMMA InitTyped == Init => Plugged /\ Slots /\ Typed /\ Named /\ WayInv
<1> SUFFICES ASSUME Init PROVE Plugged /\ Slots /\ Typed /\ Named /\ WayInv
  OBVIOUS
<1>1. at = <<>> /\ dev = <<>> /\ Slots
  BY DEF Init, UsbInit, Slots
<1>2. i \in 1 .. RootPorts + 1 /\ h \in 1 .. HubPorts + 1
  BY UsbAssumption DEF Init, UsbInit
<1>3. Typed
  BY <1>1, <1>2, UsbAssumption DEF Init, UsbInit, Typed
<1>7. Named
  BY DEF Init, Named
<1>4. Plugged
  BY DEF Init, Plugged
<1>5. type \in {"USB_ISP", "SDCARD_ISP"}
  BY <1>4, FatBootAssumption DEF Plugged
<1>6. WayInv
  BY <1>5 DEF Init, WayInv, UsbPlaces, SdPlaces
<1> QED BY <1>1, <1>3, <1>4, <1>6, <1>7

LEMMA InitInv == Init => Inv
<1> SUFFICES ASSUME Init PROVE Inv
  OBVIOUS
<1>1. pc \in {"usb_init", "sd_init"} /\ (pc = "usb_init" => type = "USB_ISP")
  BY DEF Init
<1>2. "ISPBOOOT" \in Files
  BY FatBootAssumption
<1>3. next = 0 /\ at = <<>> /\ startSector = 0 /\ fileInfo = [f \in Files |-> NoFile]
  BY DEF Init, UsbInit
<1>4. ScanInv /\ PassedInv
  <2>1. failed = {} /\ devnum = 1
    BY DEF Init, UsbInit
  <2> QED BY <1>1, <1>3, <2>1 DEF ScanInv, PassedInv, Enumerating, Handed
<1>5. SearchInv
  BY <1>1, <1>2, <1>3 DEF SearchInv, NoFile
<1>6. Seen = {}
  BY <1>3 DEF Seen, NoFile
<1>7. FilesInv
  BY <1>1, <1>3, <1>6 DEF FilesInv
<1> QED BY <1>4, <1>5, <1>7, InitTyped DEF Inv

-----------------------------------------------------------------------------
(* What stays the same: the things plugged in, and the types.               *)
LEMMA ThingsTyped ==
    ASSUME Plugged
    PROVE  /\ type \in {"USB_ISP", "SDCARD_ISP"} /\ card.dir \in Seq(EntryType)
           /\ \A x \in 1 .. RootPorts : root[x].dir \in Seq(EntryType)
           /\ \A x \in 1 .. HubPorts : hub[x].dir \in Seq(EntryType)
BY FatBootAssumption DEF Plugged

LEMMA FixedStep == [Next]_vars => UNCHANGED <<type, card, root, hub>>
BY DEF Next, Program, UsbNext, UsbBegin, RootPort, RootScanEnd, HubPort, HubScanEnd,
       AllocDevice, SetAddress, SelectConfig, ClassHub, Storage, InitSd, UsbReady,
       FirstSector, FirstSectorFails, SearchEntry, SearchEnd, Done, things, vars, usb

(* An enumeration step leaves the search alone, a step of fat_boot leaves   *)
(* the enumeration alone.                                                   *)
FatStep == InitSd \/ UsbReady \/ FirstSector \/ FirstSectorFails \/ SearchEntry \/ SearchEnd
Enumeration == <<next, n, i, h, udev, hc, failed>>

LEMMA StepKinds ==
    ASSUME [Next]_vars
    PROVE  \/ UsbNext /\ UNCHANGED <<type, card, fat, things>>
           \/ FatStep /\ UNCHANGED <<type, card, things, Enumeration>>
           \/ UNCHANGED vars
BY FixedStep DEF Next, Program, Done, FatStep, InitSd, UsbReady, FirstSector,
                 FirstSectorFails, SearchEntry, SearchEnd, Enumeration, things

(* A port test either attaches the thing at the port or goes on to the      *)
(* next port.                                                               *)
LEMMA RootPortEffect ==
    ASSUME RootPort
    PROVE  /\ pc = "root_port" /\ i <= RootPorts
           /\ UNCHANGED <<next, n, h, slot_id, r_slot_id, at, dev, owner>>
           /\ \/ /\ pc' = "alloc" /\ i' = i /\ failed' = failed
                 /\ devnum' = devnum + 1 /\ portnr' = [portnr EXCEPT ![devnum + 1] = i]
              \/ /\ pc' = "root_port" /\ i' = i + 1 /\ failed' = failed \cup {<<i, 0>>}
                 /\ UNCHANGED <<devnum, portnr>>
<1>1. PICK tries \in 0 .. Resets + 1 :
          LET ok == Passes(root[i], tries)
          IN  /\ Attached(ok, i)
              /\ pc' = IF ok THEN "alloc" ELSE "root_port"
              /\ i' = IF ok THEN i ELSE i + 1
              /\ failed' = IF ok THEN failed ELSE failed \cup {<<i, 0>>}
  BY DEF RootPort
<1>2. pc = "root_port" /\ i <= RootPorts /\ UNCHANGED <<next, n, h, slot_id, r_slot_id, at, dev, owner>>
  BY DEF RootPort, hc
<1>3. CASE Passes(root[i], tries)
  BY <1>1, <1>2, <1>3 DEF Attached
<1>4. CASE ~Passes(root[i], tries)
  BY <1>1, <1>2, <1>4 DEF Attached
<1> QED BY <1>3, <1>4
LEMMA HubPortEffect ==
    ASSUME HubPort
    PROVE  /\ pc = "hub_port" /\ h <= HubPorts /\ slot_id' = r_slot_id
           /\ UNCHANGED <<next, n, i, r_slot_id, at, dev, owner>>
           /\ \/ /\ pc' = "alloc" /\ h' = h /\ failed' = failed
                 /\ devnum' = devnum + 1 /\ portnr' = [portnr EXCEPT ![devnum + 1] = h]
              \/ /\ pc' = "hub_port" /\ h' = h + 1 /\ failed' = failed \cup {<<portnr[2], h>>}
                 /\ UNCHANGED <<devnum, portnr>>
<1>1. PICK tries \in 0 .. Resets + 1 :
          LET ok == Passes(hub[h], tries)
          IN  /\ Attached(ok, h)
              /\ pc' = IF ok THEN "alloc" ELSE "hub_port"
              /\ h' = IF ok THEN h ELSE h + 1
              /\ failed' = IF ok THEN failed ELSE failed \cup {<<portnr[2], h>>}
  BY DEF HubPort
<1>2. /\ pc = "hub_port" /\ h <= HubPorts /\ slot_id' = r_slot_id
      /\ UNCHANGED <<next, n, i, r_slot_id, at, dev, owner>>
  BY DEF HubPort, HubSlot, hc
<1>3. CASE Passes(hub[h], tries)
  BY <1>1, <1>2, <1>3 DEF Attached
<1>4. CASE ~Passes(hub[h], tries)
  BY <1>1, <1>2, <1>4 DEF Attached
<1> QED BY <1>3, <1>4

(* The rest of the enumeration, as far as the proofs need it.               *)
LEMMA AllocEffect ==
    ASSUME Slots, AllocDevice
    PROVE  /\ pc = "alloc" /\ pc' = "address"
           /\ slot_id' = Len(at) + 1 /\ at' = Append(at, Nowhere)
           /\ Len(at') = Len(at) + 1 /\ Len(dev') = Len(dev) + 1
           /\ \A s \in 1 .. Len(at) : at'[s] = at[s] /\ dev'[s] = dev[s]
           /\ dev'[Len(at) + 1] = IF devnum = 2 THEN 0 ELSE 1
           /\ r_slot_id' = IF devnum = 2 THEN slot_id' ELSE r_slot_id
           /\ UNCHANGED <<next, n, i, h, devnum, portnr, failed>>
<1>1. at' = Append(at, Nowhere) /\ dev' = Append(dev, IF devnum = 2 THEN 0 ELSE 1)
  BY DEF AllocDevice
<1>2. Len(at') = Len(at) + 1 /\ \A s \in 1 .. Len(at) : at'[s] = at[s]
  BY <1>1 DEF Slots
<1>3. PICK d \in {0, 1} : dev' = Append(dev, d) /\ d = IF devnum = 2 THEN 0 ELSE 1
  BY <1>1
<1>4. /\ Len(dev') = Len(dev) + 1 /\ dev'[Len(at) + 1] = d
      /\ \A s \in 1 .. Len(at) : dev'[s] = dev[s]
  BY <1>3 DEF Slots
<1> QED BY <1>1, <1>2, <1>3, <1>4 DEF AllocDevice

LEMMA AddressEffect ==
    ASSUME Slots, SetAddress, slot_id \in 1 .. Len(at)
    PROVE  /\ pc = "address" /\ pc' \in {"config", "stuck"} /\ Len(at') = Len(at)
           /\ pc' = "config" => at'[slot_id] = Here
           /\ \A s \in 1 .. Len(at) : s # slot_id => at'[s] = at[s]
           /\ UNCHANGED <<next, n, i, h, udev, dev, owner, failed>>
<1>1. \/ at' = [at EXCEPT ![slot_id] = Here] /\ pc' = "config"
      \/ at' = at /\ pc' = "stuck"
  BY DEF SetAddress
<1>2. Len(at') = Len(at)
  <2>1. CASE at' = at
    BY <2>1
  <2>2. CASE at' = [at EXCEPT ![slot_id] = Here]
    BY <2>2 DEF Slots
  <2> QED BY <1>1, <2>1, <2>2
<1>3. \A s \in 1 .. Len(at) : s # slot_id => at'[s] = at[s]
  <2>1. CASE at' = at
    BY <2>1
  <2>2. CASE at' = [at EXCEPT ![slot_id] = Here]
    BY <2>2 DEF Slots
  <2> QED BY <1>1, <2>1, <2>2
<1>4. pc' = "config" => at'[slot_id] = Here
  BY <1>1 DEF Slots
<1> QED BY <1>1, <1>2, <1>3, <1>4 DEF SetAddress

(* Between a device's slot and its use there are two cases.                 *)
LEMMA EnumCases ==
    ASSUME ScanInv, pc \in Enumerating
    PROVE  \/ NewOnRoot /\ FirstDevice /\ Len(at) = 1 /\ slot_id = 1
           \/ NewOnHub /\ Len(at) >= 2 /\ slot_id = Len(at)
BY DEF ScanInv

LEMMA EnumSlot ==
    ASSUME ScanInv, pc \in Enumerating
    PROVE  slot_id \in 1 .. Len(at) /\ (n # 0 => h <= HubPorts)
<1>1. CASE NewOnRoot /\ FirstDevice /\ Len(at) = 1 /\ slot_id = 1
  BY <1>1 DEF NewOnRoot
<1>2. CASE NewOnHub /\ Len(at) >= 2 /\ slot_id = Len(at)
  BY <1>2 DEF NewOnHub
<1> QED BY <1>1, <1>2, EnumCases

LEMMA PluggedStep == Plugged /\ [Next]_vars => Plugged'
BY FixedStep DEF Plugged

LEMMA SlotsStep == Slots /\ Typed /\ ScanInv /\ [Next]_vars => Slots'
<1> SUFFICES ASSUME Slots, Typed, ScanInv, [Next]_vars PROVE Slots'
  OBVIOUS
<1>1. CASE AllocDevice
  <2>1. at' = Append(at, Nowhere) /\ Nowhere \in Nat \X Nat
    BY <1>1 DEF AllocDevice, Nowhere
  <2>2. at' \in Seq(Nat \X Nat) /\ Len(at') = Len(at) + 1
    BY <2>1 DEF Slots
  <2>3. PICK d \in {0, 1} : dev' = Append(dev, d)
    BY <1>1 DEF AllocDevice
  <2>4. dev' \in Seq({0, 1}) /\ Len(dev') = Len(dev) + 1
    BY <2>3 DEF Slots
  <2> QED BY <2>2, <2>4 DEF Slots
<1>2. CASE SetAddress
  <2>1. Here \in Nat \X Nat
    <3>1. i \in Nat /\ h \in Nat /\ portnr[2] \in Nat
      BY UsbAssumption DEF Typed
    <3> QED BY <3>1 DEF Here
  <2>2. slot_id \in 1 .. Len(at)
    BY <1>2, EnumSlot DEF SetAddress, Enumerating
  <2>3. at' = [at EXCEPT ![slot_id] = Here] \/ at' = at
    BY <1>2 DEF SetAddress
  <2>4. at' \in Seq(Nat \X Nat) /\ Len(at') = Len(at)
    <3> HIDE DEF Here
    <3>1. CASE at' = at
      BY <3>1 DEF Slots
    <3>2. CASE at' = [at EXCEPT ![slot_id] = Here]
      BY <2>1, <2>2, <3>2 DEF Slots
    <3> QED BY <2>3, <3>1, <3>2
  <2>5. dev' = dev
    BY <1>2 DEF SetAddress
  <2> QED BY <2>4, <2>5 DEF Slots, Typed
<1>3. CASE UsbBegin
  <2>1. CASE next = 0
    <3>1. at' = <<>> /\ dev' = <<>>
      BY <1>3, <2>1 DEF UsbBegin
    <3> QED BY <3>1 DEF Slots
  <2>2. CASE next # 0
    BY <1>3, <2>2 DEF UsbBegin, Slots, hc
  <2> QED BY <2>1, <2>2
<1>4. CASE UNCHANGED <<at, dev>>
  BY <1>4 DEF Slots
<1>5. \/ AllocDevice \/ SetAddress \/ UsbBegin
      \/ UNCHANGED <<at, dev>>
  BY StepKinds DEF UsbNext, Enumeration, hc, RootPort, RootScanEnd, HubPort, HubScanEnd,
                   SelectConfig, ClassHub, Storage, vars, usb
<1> QED BY <1>1, <1>2, <1>3, <1>4, <1>5

LEMMA NamedStep == Named /\ [Next]_vars => Named'
<1> SUFFICES ASSUME Named, [Next]_vars PROVE Named'
  OBVIOUS
<1>1. CASE FatStep
  BY <1>1 DEF FatStep, InitSd, UsbReady, FirstSector, FirstSectorFails, SearchEntry,
              SearchEnd, fat, Named
<1>2. CASE UNCHANGED <<type, card, fat, things>> \/ UNCHANGED vars
  BY <1>2 DEF Named, vars, fat
<1> QED BY <1>1, <1>2, StepKinds

LEMMA TypedStep == Slots /\ Typed /\ ScanInv /\ [Next]_vars => Typed'
<1> SUFFICES ASSUME Slots, Typed, ScanInv, [Next]_vars PROVE Typed'
  OBVIOUS
<1>0. RootPorts \in Nat /\ HubPorts \in Nat
  BY UsbAssumption
<1>1. i \in 1 .. RootPorts + 1 /\ h \in 1 .. HubPorts + 1 /\ n \in Nat
  BY DEF Typed
<1>2. CASE FatStep /\ UNCHANGED <<type, card, things, Enumeration>>
  BY <1>2 DEF Typed, Enumeration, udev, hc
<1>3. CASE UNCHANGED vars
  BY <1>3 DEF Typed, vars, usb, udev, hc
<1>4. CASE UsbBegin
  <2>1. CASE next = 0
    <3>1. /\ n' = 0 /\ i' = 1 /\ h' = 1 /\ devnum' = 1 /\ slot_id' = 0 /\ r_slot_id' = 0
          /\ portnr' = [d \in 0 .. 7 |-> 0] /\ at' = <<>> /\ next' = next
      BY <1>4, <2>1 DEF UsbBegin
    <3>2. 1 \in 1 .. RootPorts + 1 /\ 1 \in 1 .. HubPorts + 1 /\ next <= HubPorts + 1
      BY <1>0, <2>1
    <3>3. portnr' \in [0 .. 7 -> Nat] /\ 0 \in 0 .. Len(at')
      BY <3>1
    <3> QED BY <2>1, <3>1, <3>2, <3>3 DEF Typed
  <2>2. CASE next # 0
    <3>1. next >= 1
      BY <1>4, <2>2 DEF UsbBegin, ScanInv
    <3> QED BY <1>0, <1>4, <2>2, <3>1 DEF UsbBegin, Typed, udev, hc
  <2> QED BY <2>1, <2>2
<1>5. CASE RootPort
  <2>1. i \in 1 .. RootPorts /\ i \in Nat
    BY <1>0, <1>1, <1>5, RootPortEffect
  <2>2. portnr' \in [0 .. 7 -> Nat] /\ devnum' \in Nat
    <3>1. portnr \in [0 .. 7 -> Nat] /\ devnum \in Nat
      BY DEF Typed
    <3>2. [portnr EXCEPT ![devnum + 1] = i] \in [0 .. 7 -> Nat]
      BY <2>1, <3>1
    <3> QED BY <1>5, <3>1, <3>2, RootPortEffect
  <2>3. i' \in 1 .. RootPorts + 1
    BY <1>0, <1>5, <2>1, RootPortEffect
  <2> QED BY <1>0, <1>5, <2>2, <2>3, RootPortEffect DEF Typed
<1>6. CASE HubPort
  <2>1. h \in 1 .. HubPorts /\ h \in Nat
    BY <1>0, <1>1, <1>6, HubPortEffect
  <2>2. portnr' \in [0 .. 7 -> Nat] /\ devnum' \in Nat
    <3>1. portnr \in [0 .. 7 -> Nat] /\ devnum \in Nat
      BY DEF Typed
    <3>2. [portnr EXCEPT ![devnum + 1] = h] \in [0 .. 7 -> Nat]
      BY <2>1, <3>1
    <3> QED BY <1>6, <3>1, <3>2, HubPortEffect
  <2>3. h' \in 1 .. HubPorts + 1
    BY <1>0, <1>6, <2>1, HubPortEffect
  <2> QED BY <1>0, <1>6, <2>2, <2>3, HubPortEffect DEF Typed
<1>7. CASE RootScanEnd \/ HubScanEnd
  <2>1. next' = -1 /\ UNCHANGED <<n, i, h, udev, hc>>
    BY <1>7 DEF RootScanEnd, HubScanEnd
  <2> QED BY <1>0, <2>1 DEF Typed, udev, hc
<1>8. CASE AllocDevice
  <2>1. slot_id' \in 0 .. Len(at') /\ r_slot_id' \in 0 .. Len(at')
    <3>1. Len(at) \in Nat /\ r_slot_id \in 0 .. Len(at)
      BY DEF Slots, Typed
    <3>2. Len(at') = Len(at) + 1 /\ slot_id' = Len(at) + 1 /\ r_slot_id' \in {slot_id', r_slot_id}
      BY <1>8, AllocEffect
    <3> QED BY <3>1, <3>2
  <2> QED BY <1>8, <2>1, AllocEffect DEF Typed
<1>9. CASE SetAddress
  <2>1. slot_id \in 1 .. Len(at)
    BY <1>9, EnumSlot DEF SetAddress, Enumerating
  <2> QED BY <1>9, <2>1, AddressEffect DEF Typed, udev
<1>10. CASE SelectConfig
  BY <1>10 DEF SelectConfig, Typed, udev
<1>11. CASE ClassHub
  <2>1. pc \in Enumerating
    BY <1>11 DEF ClassHub, Enumerating
  <2>2. n # 0 => h <= HubPorts
    BY <2>1, EnumSlot
  <2>3. h' \in 1 .. HubPorts + 1 /\ n' \in Nat
    BY <1>0, <1>1, <1>11, <2>2 DEF ClassHub
  <2> QED BY <1>11, <2>3 DEF ClassHub, Typed, udev, hc
<1>12. CASE Storage
  <2>1. pc \in Enumerating
    BY <1>12 DEF Storage, Enumerating
  <2>2. n # 0 => h <= HubPorts
    BY <2>1, EnumSlot
  <2>3. next' \in Nat \cup {-1} /\ next' <= HubPorts + 1
    <3>1. next \in Nat \cup {-1} /\ next <= HubPorts + 1
      BY DEF Typed
    <3>2. next' \in {0, next} \/ (n # 0 /\ next' = h + 1)
      BY <1>12 DEF Storage, NextPort
    <3>3. CASE n # 0 /\ next' = h + 1
      BY <1>0, <1>1, <2>2, <3>3
    <3> QED BY <1>0, <3>1, <3>2, <3>3
  <2> QED BY <1>12, <2>3 DEF Storage, Typed, udev, hc
<1> QED BY <1>2, <1>3, <1>4, <1>5, <1>6, <1>7, <1>8, <1>9, <1>10, <1>11, <1>12, StepKinds DEF UsbNext

-----------------------------------------------------------------------------
(* The scan keeps track of the hub.                                         *)
LEMMA WayStep == WayInv /\ Plugged /\ [Next]_vars => WayInv'
<1> SUFFICES ASSUME WayInv, Plugged, [Next]_vars PROVE WayInv'
  OBVIOUS
<1>1. type \in {"USB_ISP", "SDCARD_ISP"} /\ type' = type
  BY FixedStep, ThingsTyped
<1>2. CASE UsbNext
  <2>1. type = "USB_ISP"
    BY <1>1, <1>2, RootPortEffect, HubPortEffect
       DEF UsbNext, UsbBegin, RootScanEnd, HubScanEnd, AllocDevice, SetAddress,
           SelectConfig, ClassHub, Storage, WayInv, SdPlaces
  <2>2. pc' \in {"root_port", "hub_port", "alloc", "address", "config", "class_hub",
                 "storage", "usb_done", "reset", "stuck"}
    BY <1>2, RootPortEffect, HubPortEffect
       DEF UsbNext, UsbBegin, RootScanEnd, HubScanEnd, AllocDevice, SetAddress,
           SelectConfig, ClassHub, Storage
  <2> QED BY <1>1, <2>1, <2>2 DEF WayInv, UsbPlaces
<1>3. CASE FatStep
  BY <1>1, <1>3 DEF FatStep, InitSd, UsbReady, FirstSector, FirstSectorFails, SearchEntry,
                    SearchEnd, Retry, WayInv, UsbPlaces, SdPlaces
<1>4. CASE UNCHANGED vars
  BY <1>4 DEF WayInv, vars, usb
<1> QED BY <1>2, <1>3, <1>4, StepKinds

(* Steps that leave the devices alone leave the hub where it is.            *)
LEMMA HubKept ==
    ASSUME HubFound, n' >= 1, devnum' >= 2, portnr'[2] = portnr[2],
           r_slot_id' = r_slot_id, at' = at, dev' = dev
    PROVE  HubFound'
BY DEF HubFound, FirstDevice

LEMMA ScanUsbBegin == ASSUME ScanInv, UsbBegin PROVE ScanInv'
<1>1. CASE next = 0
  <2>1. pc' = "root_port" /\ n' = 0 /\ devnum' = 1 /\ at' = <<>> /\ dev' = <<>>
    BY <1>1 DEF UsbBegin
  <2> QED BY <2>1 DEF ScanInv, Enumerating, Handed
<1>2. CASE next # 0
  <2>1. HubFound /\ next >= 1
    BY <1>2 DEF UsbBegin, ScanInv
  <2>2. pc' = "hub_port" /\ n' = next /\ UNCHANGED <<udev, hc>>
    BY <1>2 DEF UsbBegin
  <2>3. HubFound'
    BY <2>1, <2>2 DEF HubFound, FirstDevice, udev, hc
  <2> QED BY <2>2, <2>3 DEF ScanInv, Enumerating, Handed
<1> QED BY <1>1, <1>2

LEMMA ScanRootPort == ASSUME Typed, ScanInv, RootPort PROVE ScanInv'
<1>1. n = 0 /\ devnum = 1 /\ at = <<>> /\ dev = <<>>
  BY RootPortEffect DEF ScanInv
<1>2. n' = 0 /\ at' = <<>> /\ dev' = <<>> /\ i <= RootPorts
  BY <1>1, RootPortEffect
<1>3. CASE pc' = "alloc" /\ i' = i /\ devnum' = devnum + 1 /\ portnr' = [portnr EXCEPT ![devnum + 1] = i]
  <2>1. devnum' = 2 /\ portnr'[2] = i
    BY <1>1, <1>3 DEF Typed
  <2>2. NewOnRoot'
    BY <1>2, <1>3, <2>1 DEF NewOnRoot
  <2> QED BY <1>2, <1>3, <2>2 DEF ScanInv, Enumerating, Handed
<1>4. CASE pc' = "root_port" /\ devnum' = devnum
  BY <1>1, <1>2, <1>4 DEF ScanInv, Enumerating, Handed
<1> QED BY <1>3, <1>4, RootPortEffect

LEMMA ScanHubPort == ASSUME Typed, ScanInv, HubPort PROVE ScanInv'
<1>1. HubFound /\ devnum >= 2 /\ n >= 1
  BY HubPortEffect DEF ScanInv, HubFound, FirstDevice
<1>2. portnr'[2] = portnr[2] /\ devnum' \in {devnum, devnum + 1}
  <2>1. devnum + 1 # 2 /\ portnr \in [0 .. 7 -> Nat]
    BY <1>1 DEF Typed
  <2>2. portnr' = portnr \/ portnr' = [portnr EXCEPT ![devnum + 1] = h]
    BY HubPortEffect
  <2>3. portnr'[2] = portnr[2]
    BY <2>1, <2>2
  <2> QED BY <2>3, HubPortEffect
<1>3. HubFound'
  <2>1. devnum' >= 2
    BY <1>1, <1>2 DEF Typed
  <2>2. n' >= 1 /\ r_slot_id' = r_slot_id /\ at' = at /\ dev' = dev
    BY <1>1, HubPortEffect
  <2> QED BY <1>1, <1>2, <2>1, <2>2, HubKept
<1>4. CASE pc' = "alloc" /\ h' = h /\ devnum' = devnum + 1
  <2>1. devnum' >= 3 /\ h' <= HubPorts
    BY <1>1, <1>4, HubPortEffect DEF Typed
  <2>2. NewOnHub'
    BY <1>3, <2>1 DEF NewOnHub
  <2> QED BY <1>4, <2>2 DEF ScanInv, Enumerating, Handed
<1>5. CASE pc' = "hub_port"
  BY <1>3, <1>5 DEF ScanInv, Enumerating, Handed
<1> QED BY <1>4, <1>5, HubPortEffect

LEMMA ScanEnds == ASSUME ScanInv, RootScanEnd \/ HubScanEnd PROVE ScanInv'
<1>1. pc' = "usb_done" /\ next' = -1 /\ n' = n /\ devnum' = devnum
  BY DEF RootScanEnd, HubScanEnd, udev
<1>2. n = 0 => devnum = 1
  <2>1. CASE RootScanEnd
    BY <2>1 DEF RootScanEnd, ScanInv
  <2>2. CASE HubScanEnd
    BY <2>2 DEF HubScanEnd, ScanInv, HubFound
  <2> QED BY <2>1, <2>2
<1>3. n' = 0 => devnum' = 1
  BY <1>1, <1>2
<1> QED BY <1>1, <1>3 DEF ScanInv, Enumerating, Handed

LEMMA ScanAlloc == ASSUME Slots, Typed, ScanInv, AllocDevice PROVE ScanInv'
<1>0. pc = "alloc" /\ pc' = "address"
  BY AllocEffect
<1>1. CASE NewOnRoot /\ at = <<>> /\ dev = <<>>
  <2>1. Len(at) = 0 /\ Len(dev) = 0
    BY <1>1
  <2>2. devnum = 2 /\ slot_id' = 1 /\ Len(at') = 1 /\ Len(dev') = 1 /\ dev'[1] = 0 /\ r_slot_id' = 1
    BY <1>1, <2>1, AllocEffect DEF NewOnRoot
  <2>3. NewOnRoot'
    BY <1>1, AllocEffect DEF NewOnRoot
  <2>4. FirstDevice'
    BY <2>2, AllocEffect DEF FirstDevice
  <2> QED BY <1>0, <2>2, <2>3, <2>4 DEF ScanInv, Handed
<1>2. CASE NewOnHub
  <2>1. HubFound /\ devnum >= 3 /\ Len(at) >= 1
    BY <1>2 DEF NewOnHub, HubFound, FirstDevice
  <2>2. Len(at) \in Nat /\ Len(dev) = Len(at) /\ devnum \in Nat
    BY DEF Slots, Typed
  <2>3. Len(at') >= 2 /\ Len(at') = Len(at) + 1 /\ slot_id' = Len(at')
    BY <2>1, <2>2, AllocEffect
  <2>4. r_slot_id' = r_slot_id /\ dev'[Len(at) + 1] = 1
    BY <2>1, <2>2, AllocEffect
  <2>5. at'[1] = at[1] /\ dev'[1] = dev[1]
    BY <2>1, <2>2, AllocEffect
  <2>6. \A s \in 2 .. Len(dev') : dev'[s] = 1
    <3> SUFFICES ASSUME NEW s \in 2 .. Len(dev') PROVE dev'[s] = 1
      OBVIOUS
    <3>1. Len(dev') = Len(at) + 1 /\ \A x \in 1 .. Len(at) : dev'[x] = dev[x]
      BY <2>2, AllocEffect
    <3>2. s \in 2 .. Len(dev) \/ s = Len(at) + 1
      BY <2>2, <3>1
    <3>3. CASE s \in 2 .. Len(dev)
      <4>1. dev[s] = 1
        BY <2>1, <3>3 DEF HubFound, FirstDevice
      <4> QED BY <2>2, <3>1, <3>3, <4>1
    <3> QED BY <2>4, <3>2, <3>3
  <2>7. HubFound'
    <3>1. n' = n /\ devnum' = devnum /\ portnr' = portnr
      BY AllocEffect
    <3> QED BY <2>1, <2>2, <2>3, <2>4, <2>5, <2>6, <3>1 DEF HubFound, FirstDevice
  <2>8. NewOnHub'
    BY <1>2, <2>7, AllocEffect DEF NewOnHub
  <2> QED BY <1>0, <2>3, <2>8 DEF ScanInv, Handed
<1> QED BY <1>0, <1>1, <1>2 DEF ScanInv

LEMMA ScanAddress == ASSUME Slots, Typed, ScanInv, SetAddress PROVE ScanInv'
<1>0. pc \in Enumerating /\ slot_id \in 1 .. Len(at)
  BY EnumSlot DEF SetAddress, Enumerating
<1>1. /\ pc' \in {"config", "stuck"} /\ Len(at') = Len(at)
      /\ pc' = "config" => at'[slot_id] = Here
      /\ \A s \in 1 .. Len(at) : s # slot_id => at'[s] = at[s]
      /\ UNCHANGED <<next, n, i, h, udev, dev, owner, failed>>
  BY <1>0, AddressEffect
<1>2. CASE pc' = "stuck"
  BY <1>2 DEF ScanInv, Enumerating, Handed
<1>3. CASE pc' = "config"
  <2>1. at'[slot_id'] = Here'
    BY <1>1, <1>3 DEF Here, udev
  <2>2. CASE NewOnRoot /\ FirstDevice /\ Len(at) = 1 /\ slot_id = 1
    <3>1. NewOnRoot' /\ FirstDevice' /\ Len(at') = 1 /\ slot_id' = 1
      BY <1>1, <2>2 DEF NewOnRoot, FirstDevice, udev
    <3> QED BY <1>3, <2>1, <3>1 DEF ScanInv, Handed
  <2>3. CASE NewOnHub /\ Len(at) >= 2 /\ slot_id = Len(at)
    <3>1. at'[1] = at[1]
      BY <1>1, <2>3 DEF Slots
    <3>2. NewOnHub' /\ Len(at') >= 2 /\ slot_id' = Len(at')
      BY <1>1, <2>3, <3>1 DEF NewOnHub, HubFound, FirstDevice, udev
    <3> QED BY <1>3, <2>1, <3>2 DEF ScanInv, Handed
  <2> QED BY <1>0, <2>2, <2>3, EnumCases
<1> QED BY <1>1, <1>2, <1>3

LEMMA ScanConfig == ASSUME ScanInv, SelectConfig PROVE ScanInv'
<1>0. /\ pc = "config" /\ UNCHANGED <<things, next, n, i, h, udev, at, dev>>
      /\ pc' = IF At(at[slot_id]).kind = "hub" THEN "class_hub" ELSE "storage"
  BY DEF SelectConfig
<1>1. at[slot_id] = Here /\ Here' = Here /\ at' = at /\ slot_id' = slot_id
  BY <1>0 DEF ScanInv, Here, udev
<1>2. pc' = "class_hub" => At(at[slot_id])'.kind = "hub"
  BY <1>0, <1>1 DEF At, things
<1>3. \/ (NewOnRoot /\ FirstDevice /\ Len(at) = 1 /\ slot_id = 1)'
      \/ (NewOnHub /\ Len(at) >= 2 /\ slot_id = Len(at))'
  BY <1>0, EnumCases DEF NewOnRoot, NewOnHub, HubFound, FirstDevice, Enumerating, udev
<1>4. pc' \in {"class_hub", "storage"}
  BY <1>0
<1> QED BY <1>1, <1>2, <1>3, <1>4 DEF ScanInv, Handed

LEMMA ScanClassHub == ASSUME Typed, ScanInv, ClassHub PROVE ScanInv'
<1>0. pc = "class_hub" /\ pc' = "hub_port" /\ UNCHANGED <<udev, hc>> /\ n' = IF n = 0 THEN 1 ELSE n
  BY DEF ClassHub
<1>1. HubFound'
  <2>1. CASE NewOnRoot /\ FirstDevice /\ Len(at) = 1 /\ slot_id = 1
    <3>1. at[1] = <<portnr[2], 0>>
      BY <1>0, <2>1 DEF ScanInv, Here, NewOnRoot
    <3> QED BY <1>0, <2>1, <3>1 DEF HubFound, FirstDevice, NewOnRoot, udev, hc
  <2>2. CASE NewOnHub
    BY <1>0, <2>2 DEF NewOnHub, HubFound, FirstDevice, udev, hc
  <2> QED BY <1>0, <2>1, <2>2, EnumCases DEF Enumerating
<1> QED BY <1>0, <1>1 DEF ScanInv, Enumerating, Handed

LEMMA ScanStorage == ASSUME Typed, ScanInv, Storage PROVE ScanInv'
<1>0. pc = "storage" /\ UNCHANGED <<n, i, h, udev, hc>>
  BY DEF Storage
<1>1. CASE pc' = "usb_done" /\ next' = IF n = 0 THEN 0 ELSE NextPort
  <2>0. at[slot_id] = Here
    BY <1>0 DEF ScanInv
  <2>1. CASE NewOnRoot
    <3>1. next' = 0 /\ NewOnRoot' /\ at'[slot_id'] = <<i', 0>>
      BY <1>0, <1>1, <2>0, <2>1 DEF NewOnRoot, Here, udev, hc
    <3> QED BY <1>1, <3>1 DEF ScanInv, Enumerating, Handed
  <2>2. CASE NewOnHub
    <3>1. n # 0 /\ h <= HubPorts /\ HubFound
      BY <2>2 DEF NewOnHub, HubFound
    <3>2. next' = h' + 1 /\ h' <= HubPorts /\ at'[slot_id'] = <<portnr'[2], h'>>
      BY <1>0, <1>1, <2>0, <3>1 DEF NextPort, Here, udev, hc
    <3>3. HubFound'
      BY <1>0, <3>1 DEF HubFound, FirstDevice, udev, hc
    <3> QED BY <1>1, <3>2, <3>3 DEF ScanInv, Enumerating, Handed
  <2> QED BY <1>0, <2>1, <2>2, EnumCases DEF Enumerating
<1>2. CASE pc' = "reset"
  BY <1>2 DEF ScanInv, Enumerating, Handed
<1> QED BY <1>1, <1>2 DEF Storage

(* fat_boot's own steps: to usb_init it goes with a port to go on from.     *)
LEMMA ScanFat ==
    ASSUME Plugged, Typed, WayInv, ScanInv, FatStep,
           UNCHANGED <<type, card, things, Enumeration>>
    PROVE  ScanInv'
<1> USE DEF Handed
<1>1. /\ FirstDevice' <=> FirstDevice
      /\ HubFound' <=> HubFound
      /\ NewOnRoot' <=> NewOnRoot
  BY DEF FirstDevice, HubFound, NewOnRoot, Enumeration, udev, hc
<1>2. /\ type' = type /\ next' = next /\ n' = n /\ devnum' = devnum /\ h' = h /\ i' = i
      /\ at'[slot_id'] = at[slot_id] /\ portnr'[2] = portnr[2]
  BY DEF Enumeration, udev, hc
<1>3. CASE type = "USB_ISP"
  <2>1. pc \in {"usb_done", "first_sector", "search"}
    BY <1>3 DEF FatStep, InitSd, UsbReady, FirstSector, FirstSectorFails, SearchEntry,
                SearchEnd, WayInv, UsbPlaces
  <2>2. \/ next = -1 /\ pc = "usb_done" /\ (n = 0 => devnum = 1)
        \/ next = 0 /\ NewOnRoot /\ at[slot_id] = <<i, 0>>
        \/ /\ next = h + 1 /\ h <= HubPorts /\ HubFound
           /\ at[slot_id] = <<portnr[2], h>>
    BY <1>3, <2>1 DEF ScanInv
  <2>3. h + 1 >= 1 /\ h + 1 # 0 /\ h + 1 # -1
    <3>1. HubPorts \in Nat /\ h \in 1 .. HubPorts + 1
      BY UsbAssumption DEF Typed
    <3>2. h \in Nat
      BY <3>1
    <3> QED BY <3>2
  <2>4. \/ pc' \in {"first_sector", "search", "found"} /\ next # -1
        \/ pc' = "fail" /\ (next = 0 \/ next = -1)
        \/ pc' = "usb_init" /\ next # 0 /\ next # -1
    <3>1. CASE UsbReady
      BY <3>1 DEF UsbReady
    <3>2. CASE pc # "usb_done"
      <4>1. next # -1
        BY <2>2, <2>3, <3>2
      <4> QED BY <1>3, <2>1, <3>2, <4>1 DEF FatStep, InitSd, UsbReady, FirstSector,
             FirstSectorFails, SearchEntry, SearchEnd, Retry
    <3>3. pc = "usb_done" => UsbReady
      BY DEF FatStep, InitSd, FirstSector, FirstSectorFails, SearchEntry, SearchEnd
    <3> QED BY <3>1, <3>2, <3>3
  <2>5. pc' # "root_port" /\ pc' # "hub_port" /\ pc' # "alloc" /\ pc' \notin Enumerating
    BY <2>4 DEF Enumerating
  <2>6. pc' = "usb_init" => HubFound' /\ next' >= 1
    BY <1>1, <1>2, <2>2, <2>3, <2>4
  <2>7. pc' \in Handed =>
           \/ (next = -1 /\ pc \in {"usb_done", "fail"} /\ (n = 0 => devnum = 1))'
           \/ (next = 0 /\ NewOnRoot /\ at[slot_id] = <<i, 0>>)'
           \/ (/\ next = h + 1 /\ h <= HubPorts /\ HubFound /\ pc # "fail"
               /\ at[slot_id] = <<portnr[2], h>>)'
    BY <1>1, <1>2, <2>2, <2>3, <2>4
  <2> QED BY <2>5, <2>6, <2>7 DEF ScanInv, Enumerating
<1>4. CASE type # "USB_ISP"
  <2>1. pc' \in {"first_sector", "search", "found", "fail"}
    BY <1>4 DEF FatStep, InitSd, UsbReady, FirstSector, FirstSectorFails, SearchEntry,
                SearchEnd, Retry, WayInv, SdPlaces
  <2> QED BY <1>2, <1>4, <2>1 DEF ScanInv, Enumerating
<1> QED BY <1>3, <1>4

LEMMA ScanStep ==
    Plugged /\ Slots /\ Typed /\ WayInv /\ ScanInv /\ [Next]_vars => ScanInv'
<1> SUFFICES ASSUME Plugged, Slots, Typed, WayInv, ScanInv, [Next]_vars PROVE ScanInv'
  OBVIOUS
<1>1. CASE UNCHANGED vars
  BY <1>1 DEF ScanInv, NewOnRoot, NewOnHub, HubFound, FirstDevice, Here, At, vars, usb,
              things, udev, hc
<1>2. CASE UsbNext
  BY <1>2, ScanUsbBegin, ScanRootPort, ScanHubPort, ScanEnds, ScanAlloc, ScanAddress,
     ScanConfig, ScanClassHub, ScanStorage DEF UsbNext
<1> QED BY <1>1, <1>2, ScanFat, StepKinds

-----------------------------------------------------------------------------
(* What is behind the scan.                                                 *)
LEMMA BehindKept ==
    ASSUME NEW p, Behind(p), portnr'[2] = portnr[2], hub' = hub, failed \subseteq failed'
    PROVE  \A x \in 1 .. p - 1 : Bootable(hub'[x]) => <<portnr'[2], x>> \in failed'
BY DEF Behind

LEMMA BehindMore ==
    ASSUME NEW p \in Nat, Behind(p), portnr'[2] = portnr[2], hub' = hub, failed \subseteq failed',
           Bootable(hub[p]) => <<portnr[2], p>> \in failed'
    PROVE  \A x \in 1 .. p : Bootable(hub'[x]) => <<portnr'[2], x>> \in failed'
<1> SUFFICES ASSUME NEW x \in 1 .. p, Bootable(hub'[x]) PROVE <<portnr'[2], x>> \in failed'
  OBVIOUS
<1>1. CASE x = p
  BY <1>1
<1>2. CASE x # p
  <2>1. x \in 1 .. p - 1
    BY <1>2
  <2> QED BY <2>1 DEF Behind
<1> QED BY <1>1, <1>2

(* A retry of fat_boot means that the medium has nothing to boot from.      *)
LEMMA RetryMeans ==
    ASSUME SearchInv, FirstSector \/ SearchEnd, type = "USB_ISP",
           pc' \in {"usb_init", "fail"}
    PROVE  ~Bootable(Medium)
<1>1. CASE FirstSector
  <2>1. startSector = 0
    BY <1>1 DEF FirstSector, SearchInv
  <2>2. Medium.fs \notin Known
    BY <1>1, <2>1 DEF FirstSector
  <2> QED BY <2>2 DEF Bootable
<1>2. CASE SearchEnd
  <2>1. entry = Len(Medium.dir)
    BY <1>2 DEF SearchEnd
  <2>2. \A x \in 1 .. entry : Medium.dir[x].name = "ISPBOOOT" => Medium.dir[x].size = 0
    BY <1>2 DEF SearchEnd, SearchInv
  <2> QED BY <2>1, <2>2 DEF Bootable
<1> QED BY <1>1, <1>2

LEMMA FreshPassed == ASSUME Typed, ScanInv, PassedInv, UsbBegin, hub' = hub PROVE PassedInv'
<1>1. CASE next = 0
  <2>1. pc' = "root_port" /\ i' = 1
    BY <1>1 DEF UsbBegin
  <2> QED BY <2>1 DEF PassedInv, Enumerating, Handed
<1>2. CASE next # 0
  <2>1. pc' = "hub_port" /\ h' = next /\ UNCHANGED <<udev, failed>>
    BY <1>2 DEF UsbBegin
  <2>2. Behind(next)
    BY <1>2 DEF UsbBegin, PassedInv
  <2>3. Behind(h)'
    BY <2>1, <2>2 DEF Behind, udev
  <2> QED BY <2>1, <2>3 DEF PassedInv, Enumerating, Handed
<1> QED BY <1>1, <1>2

LEMMA PassedRootPort == ASSUME Typed, ScanInv, PassedInv, RootPort PROVE PassedInv'
<1>1. n' = 0
  BY RootPortEffect DEF ScanInv
<1>2. CASE pc' = "alloc"
  BY <1>1, <1>2 DEF PassedInv, Enumerating, Handed
<1>3. CASE pc' = "root_port" /\ i' = i + 1 /\ failed' = failed \cup {<<i, 0>>}
  <2>1. i \in Nat /\ \A x \in 1 .. i - 1 : <<x, 0>> \in failed
    BY UsbAssumption, RootPortEffect DEF Typed, PassedInv
  <2>2. \A x \in 1 .. i' - 1 : <<x, 0>> \in failed'
    <3> SUFFICES ASSUME NEW x \in 1 .. i' - 1 PROVE <<x, 0>> \in failed'
      OBVIOUS
    <3>1. x = i \/ x \in 1 .. i - 1
      BY <1>3, <2>1
    <3> QED BY <1>3, <2>1, <3>1
  <2> QED BY <1>1, <1>3, <2>2 DEF PassedInv, Enumerating, Handed
<1> QED BY <1>2, <1>3, RootPortEffect

LEMMA PassedHubPort == ASSUME Typed, ScanInv, PassedInv, HubPort, hub' = hub PROVE PassedInv'
<1>1. Behind(h) /\ devnum >= 2 /\ n >= 1
  BY HubPortEffect DEF ScanInv, PassedInv, HubFound, FirstDevice, Typed
<1>2. portnr'[2] = portnr[2] /\ h \in Nat
  <2>1. devnum + 1 # 2 /\ portnr \in [0 .. 7 -> Nat]
    BY <1>1 DEF Typed
  <2>2. portnr' = portnr \/ portnr' = [portnr EXCEPT ![devnum + 1] = h]
    BY HubPortEffect
  <2>3. portnr'[2] = portnr[2]
    BY <2>1, <2>2
  <2> QED BY <2>3, UsbAssumption DEF Typed
<1>3. CASE pc' = "alloc" /\ h' = h /\ failed' = failed
  <2>1. Behind(h)'
    BY <1>1, <1>2, <1>3, BehindKept DEF Behind
  <2> QED BY <1>3, <2>1 DEF PassedInv, Enumerating, Handed
<1>4. CASE pc' = "hub_port" /\ h' = h + 1 /\ failed' = failed \cup {<<portnr[2], h>>}
  <2>1. \A x \in 1 .. h : Bootable(hub'[x]) => <<portnr'[2], x>> \in failed'
    BY <1>1, <1>2, <1>4, BehindMore
  <2>2. h' - 1 = h
    BY <1>2, <1>4
  <2>3. Behind(h)'
    BY <2>1, <2>2 DEF Behind
  <2> QED BY <1>4, <2>3 DEF PassedInv, Enumerating, Handed
<1> QED BY <1>3, <1>4, HubPortEffect

LEMMA PassedEnds ==
    ASSUME Typed, ScanInv, PassedInv, RootScanEnd \/ HubScanEnd, hub' = hub PROVE PassedInv'
<1>1. pc' = "usb_done" /\ next' = -1 /\ UNCHANGED <<n, h, udev, failed>>
  BY DEF RootScanEnd, HubScanEnd
<1>2. n = 0 => \A x \in 1 .. RootPorts : <<x, 0>> \in failed
  <2>1. CASE RootScanEnd
    <3>1. \A x \in 1 .. i - 1 : <<x, 0>> \in failed
      BY <2>1 DEF RootScanEnd, PassedInv
    <3>2. i \in 1 .. RootPorts + 1 /\ RootPorts \in Nat /\ i > RootPorts
      BY <2>1, UsbAssumption DEF RootScanEnd, Typed
    <3>3. i - 1 = RootPorts
      BY <3>2
    <3> QED BY <3>1, <3>3
  <2>2. CASE HubScanEnd
    BY <2>2 DEF HubScanEnd, ScanInv, HubFound
  <2> QED BY <2>1, <2>2
<1>3. n # 0 => Behind(HubPorts + 1)
  <2>1. CASE HubScanEnd /\ n # 0
    <3>1. Behind(h)
      BY <2>1 DEF HubScanEnd, PassedInv
    <3>2. h \in 1 .. HubPorts + 1 /\ HubPorts \in Nat /\ h > HubPorts
      BY <2>1, UsbAssumption DEF HubScanEnd, Typed
    <3>3. h = HubPorts + 1
      BY <3>2
    <3> QED BY <3>1, <3>3
  <2>2. CASE RootScanEnd
    BY <2>2 DEF RootScanEnd, ScanInv
  <2> QED BY <2>1, <2>2
<1>4. (n = 0 => \A x \in 1 .. RootPorts : <<x, 0>> \in failed)' /\ (n # 0 => Behind(HubPorts + 1))'
  BY <1>1, <1>2, <1>3 DEF Behind, udev
<1>5. ~(next' >= 1)
  BY <1>1
<1> QED BY <1>1, <1>4, <1>5 DEF PassedInv, Enumerating

LEMMA PassedNew ==
    ASSUME Slots, Typed, ScanInv, PassedInv, AllocDevice \/ SetAddress \/ SelectConfig,
           hub' = hub
    PROVE  PassedInv'
<1>1. /\ pc \in {"alloc"} \cup Enumerating
      /\ pc' \in Enumerating \/ pc' = "stuck"
      /\ UNCHANGED <<n, h, portnr, failed>>
  BY DEF AllocDevice, SetAddress, SelectConfig, Enumerating, udev
<1>2. n # 0 => Behind(h)
  BY <1>1 DEF PassedInv
<1>3. (n # 0 => Behind(h))'
  BY <1>1, <1>2 DEF Behind
<1> QED BY <1>1, <1>3 DEF PassedInv, Enumerating, Handed

LEMMA PassedClassHub == ASSUME Typed, ScanInv, PassedInv, ClassHub, hub' = hub PROVE PassedInv'
<1>1. pc = "class_hub" /\ pc' = "hub_port" /\ UNCHANGED <<udev, hc, failed>>
  BY DEF ClassHub
<1>2. CASE n = 0
  <2>1. h' = 1
    BY <1>2 DEF ClassHub
  <2>2. Behind(h)'
    BY <2>1 DEF Behind
  <2> QED BY <1>1, <2>2 DEF PassedInv, Enumerating, Handed
<1>3. CASE n # 0
  <2>1. Behind(h) /\ h \in Nat /\ h >= 1 /\ h' = h + 1
    BY <1>1, <1>3, UsbAssumption DEF ClassHub, PassedInv, Enumerating, Typed
  <2>2. at[slot_id] = <<portnr[2], h>>
    BY <1>1, <1>3 DEF ScanInv, Here
  <2>3. At(at[slot_id]) = hub[h]
    BY <2>1, <2>2 DEF At
  <2>4. ~Bootable(hub[h])
    BY <1>1, <2>3 DEF ScanInv, Bootable
  <2>5. \A x \in 1 .. h : Bootable(hub'[x]) => <<portnr'[2], x>> \in failed'
    BY <1>1, <2>1, <2>4, BehindMore DEF udev
  <2>6. h' - 1 = h
    BY <2>1
  <2>7. Behind(h)'
    BY <2>5, <2>6 DEF Behind
  <2> QED BY <1>1, <2>7 DEF PassedInv, Enumerating, Handed
<1> QED BY <1>2, <1>3

LEMMA PassedStorage == ASSUME Typed, ScanInv, PassedInv, Storage, hub' = hub PROVE PassedInv'
<1>1. pc = "storage" /\ UNCHANGED <<n, h, udev, failed>>
  BY DEF Storage
<1>2. CASE pc' = "reset"
  BY <1>2 DEF PassedInv, Enumerating, Handed
<1>3. CASE pc' = "usb_done" /\ next' = IF n = 0 THEN 0 ELSE NextPort
  <2>1. h \in Nat
    BY UsbAssumption DEF Typed
  <2>2. n # 0 => Behind(h)'
    BY <1>1 DEF PassedInv, Enumerating, Behind, udev
  <2>3. (n = 0 => next' = 0) /\ (n # 0 => next' = h + 1)
    BY <1>3 DEF NextPort
  <2>4. next' # -1 /\ (next' >= 1 => Behind(h)')
    BY <2>1, <2>2, <2>3
  <2> QED BY <1>3, <2>4 DEF PassedInv, Enumerating
<1> QED BY <1>2, <1>3 DEF Storage

LEMMA PassedFat ==
    ASSUME Typed, WayInv, ScanInv, PassedInv, SearchInv, FatStep,
           UNCHANGED <<type, card, things, Enumeration>>
    PROVE  PassedInv'
<1>1. \A p : Behind(p)' <=> Behind(p)
  BY DEF Behind, Enumeration, udev, things
<1>2. type' = type /\ next' = next /\ n' = n /\ h' = h /\ failed' = failed
  BY DEF Enumeration
<1>3. CASE type = "USB_ISP"
  <2>1. pc \in {"usb_done", "first_sector", "search"}
    BY <1>3 DEF FatStep, InitSd, UsbReady, FirstSector, FirstSectorFails, SearchEntry,
                SearchEnd, WayInv, UsbPlaces
  <2>2. pc' \in Handed \/ (pc' = "usb_init" /\ (FirstSector \/ SearchEnd) /\ next # 0)
    BY <1>3 DEF Handed, FatStep, InitSd, UsbReady, FirstSector, FirstSectorFails, SearchEntry,
                SearchEnd, Retry
  <2>3. /\ next = -1 /\ n = 0 => \A x \in 1 .. RootPorts : <<x, 0>> \in failed
        /\ next = -1 /\ n # 0 => Behind(HubPorts + 1)
        /\ next >= 1 => Behind(h)
    BY <1>3, <2>1 DEF PassedInv, Handed
  <2>4. CASE pc' \in Handed
    <3>1. /\ (next = -1 /\ n = 0 => \A x \in 1 .. RootPorts : <<x, 0>> \in failed)'
          /\ (next = -1 /\ n # 0 => Behind(HubPorts + 1))'
          /\ (next >= 1 => Behind(h))'
      BY <1>2, <2>3 DEF Behind, Enumeration, udev, things
    <3> QED BY <2>4, <3>1 DEF PassedInv, Handed, Enumerating
  <2>5. CASE pc' = "usb_init" /\ (FirstSector \/ SearchEnd) /\ next # 0
    <3>1. pc \in Handed /\ pc # "usb_done" /\ pc # "fail"
      BY <2>5 DEF FirstSector, SearchEnd, Handed
    <3>2. next = h + 1 /\ at[slot_id] = <<portnr[2], h>>
      BY <1>3, <2>5, <3>1 DEF ScanInv
    <3>3. h \in Nat /\ h >= 1 /\ next >= 1
      BY <3>2, UsbAssumption DEF Typed
    <3>4. Medium = hub[h]
      BY <1>3, <3>2, <3>3 DEF Medium, At
    <3>5. ~Bootable(hub[h])
      BY <1>3, <2>5, <3>4, RetryMeans
    <3>6. Behind(h)
      BY <2>3, <3>3
    <3>7. \A x \in 1 .. h : Bootable(hub'[x]) => <<portnr'[2], x>> \in failed'
      BY <3>3, <3>5, <3>6, BehindMore DEF Enumeration, udev, things
    <3>8. next' - 1 = h
      BY <1>2, <3>2, <3>3
    <3>9. Behind(next)'
      BY <3>7, <3>8 DEF Behind
    <3> QED BY <1>2, <2>5, <3>9 DEF PassedInv, Handed, Enumerating
  <2> QED BY <2>2, <2>4, <2>5
<1>4. CASE type # "USB_ISP"
  <2>1. pc' \in {"first_sector", "search", "found", "fail"}
    BY <1>4 DEF FatStep, InitSd, UsbReady, FirstSector, FirstSectorFails, SearchEntry,
                SearchEnd, Retry, WayInv, SdPlaces
  <2> QED BY <1>2, <1>4, <2>1 DEF PassedInv, Enumerating
<1> QED BY <1>3, <1>4

LEMMA PassedStep ==
    /\ Slots /\ Typed /\ WayInv /\ ScanInv /\ PassedInv /\ SearchInv
    /\ [Next]_vars
    => PassedInv'
<1> SUFFICES ASSUME Slots, Typed, WayInv, ScanInv, PassedInv, SearchInv, [Next]_vars
             PROVE  PassedInv'
  OBVIOUS
<1>1. CASE UNCHANGED vars
  BY <1>1 DEF PassedInv, Behind, vars, usb, things, udev
<1>2. CASE UsbNext
  <2>1. hub' = hub
    BY FixedStep
  <2> QED BY <1>2, <2>1, FreshPassed, PassedRootPort, PassedHubPort, PassedEnds, PassedNew,
          PassedClassHub, PassedStorage DEF UsbNext
<1> QED BY <1>1, <1>2, PassedFat, StepKinds

-----------------------------------------------------------------------------
(* The search.                                                              *)
LEMMA MediumTyped ==
    ASSUME Plugged, Typed, ScanInv, pc \in {"first_sector", "search", "found"}
    PROVE  Medium.dir \in Seq(EntryType)
<1>1. CASE type = "USB_ISP"
  <2>1. \/ NewOnRoot /\ at[slot_id] = <<i, 0>>
        \/ h <= HubPorts /\ at[slot_id] = <<portnr[2], h>>
    BY <1>1 DEF ScanInv, Handed
  <2>2. CASE NewOnRoot /\ at[slot_id] = <<i, 0>>
    <3>1. i \in 1 .. RootPorts
      BY <2>2, UsbAssumption DEF NewOnRoot, Typed
    <3>2. Medium = root[i]
      BY <1>1, <2>2 DEF Medium, At
    <3> QED BY <3>1, <3>2, ThingsTyped
  <2>3. CASE h <= HubPorts /\ at[slot_id] = <<portnr[2], h>>
    <3>1. h \in 1 .. HubPorts /\ h # 0
      BY <2>3, UsbAssumption DEF Typed
    <3>2. Medium = hub[h]
      BY <1>1, <2>3, <3>1 DEF Medium, At
    <3> QED BY <3>1, <3>2, ThingsTyped
  <2> QED BY <2>1, <2>2, <2>3
<1>2. CASE type # "USB_ISP"
  BY <1>2, ThingsTyped DEF Medium
<1> QED BY <1>1, <1>2

LEMMA MediumKept ==
    ASSUME UNCHANGED <<type, card, things, Enumeration>>
    PROVE  Medium' = Medium /\ MediumAt' = MediumAt
BY DEF Medium, MediumAt, At, Enumeration, things, udev, hc

LEMMA UsbPlace ==
    ASSUME UsbNext, UNCHANGED <<type, card, fat, things>>
    PROVE  /\ pc \notin {"search", "found", "fail", "sd_init", "first_sector"}
           /\ pc' \notin {"search", "found", "fail", "sd_init", "first_sector"}
BY RootPortEffect, HubPortEffect
   DEF UsbNext, UsbBegin, RootScanEnd, HubScanEnd, AllocDevice, SetAddress,
       SelectConfig, ClassHub, Storage

LEMMA SearchUsb ==
    ASSUME SearchInv, UsbNext, UNCHANGED <<type, card, fat, things>> PROVE SearchInv'
<1>1. startSector' = startSector /\ fileInfo' = fileInfo /\ type' = type
  BY DEF fat
<1> QED BY <1>1, UsbPlace DEF SearchInv

LEMMA SearchStart ==
    ASSUME Plugged, Typed, WayInv, ScanInv, SearchInv, InitSd \/ UsbReady \/ FirstSectorFails,
           UNCHANGED <<type, card, things, Enumeration>>
    PROVE  SearchInv'
<1>1. type \in {"USB_ISP", "SDCARD_ISP"} /\ type' = type
  BY ThingsTyped
<1>2. /\ pc' \in {"first_sector", "fail"} /\ pc \in {"sd_init", "usb_done", "first_sector"}
      /\ startSector' = startSector /\ fileInfo' = fileInfo
  BY DEF InitSd, UsbReady, FirstSectorFails, fat
<1>3. type = "USB_ISP" /\ pc' = "fail" => pc = "usb_done" /\ next = -1
  BY DEF InitSd, UsbReady, FirstSectorFails, WayInv, UsbPlaces
<1>4. type = "USB_ISP" /\ pc' = "fail" => ~(n' = 0 /\ devnum' = 2)
  <2> SUFFICES ASSUME type = "USB_ISP", pc' = "fail" PROVE ~(n' = 0 /\ devnum' = 2)
    OBVIOUS
  <2>1. h + 1 # -1
    BY UsbAssumption DEF Typed
  <2>2. n = 0 => devnum = 1
    BY <1>3, <2>1 DEF ScanInv, Handed
  <2> QED BY <2>2 DEF Enumeration, udev
<1>5. startSector = 0 /\ (type = "USB_ISP" => fileInfo["ISPBOOOT"].size = 0)
  BY <1>2 DEF SearchInv
<1> QED BY <1>1, <1>2, <1>4, <1>5 DEF SearchInv

LEMMA SearchFirst ==
    ASSUME Plugged, Typed, ScanInv, SearchInv, FirstSector,
           UNCHANGED <<type, card, things, Enumeration>>
    PROVE  SearchInv'
<1>1. Medium' = Medium /\ type' = type /\ fileInfo' = fileInfo
  BY MediumKept DEF FirstSector
<1>2. startSector = 0 /\ pc = "first_sector" /\ (type = "USB_ISP" => fileInfo["ISPBOOOT"].size = 0)
  BY DEF FirstSector, SearchInv
<1>3. CASE pc' = "search"
  <2>1. startSector' = Medium.part /\ fatType' = Medium.fs /\ entry' = 0
    BY <1>2, <1>3 DEF FirstSector, Retry
  <2>2. Len(Medium.dir) \in Nat
    BY <1>2, MediumTyped
  <2>3. entry' \in 0 .. Len(Medium'.dir) /\ \A x \in 1 .. entry' : FALSE
    BY <1>1, <2>1, <2>2
  <2> QED BY <1>1, <1>2, <1>3, <2>1, <2>3 DEF SearchInv
<1>4. CASE pc' # "search"
  <2>1. pc' \in {"usb_init", "fail"} /\ (pc' = "usb_init" => startSector' = 0)
    BY <1>4 DEF FirstSector, Retry, StartSector
  <2>2. type = "USB_ISP" => ~Bootable(Medium)
    BY <2>1, RetryMeans
  <2> QED BY <1>1, <1>2, <2>1, <2>2 DEF SearchInv
<1> QED BY <1>3, <1>4

LEMMA SearchLast ==
    ASSUME Plugged, Typed, ScanInv, SearchInv, SearchEnd,
           UNCHANGED <<type, card, things, Enumeration>>
    PROVE  SearchInv'
<1>1. Medium' = Medium /\ type' = type /\ fileInfo' = fileInfo /\ pc = "search"
  BY MediumKept DEF SearchEnd
<1>2. type = "USB_ISP" => fileInfo["ISPBOOOT"].size = 0
  BY <1>1 DEF SearchInv
<1>3. CASE pc' = "found"
  <2>1. type # "USB_ISP" /\ startSector' = startSector /\ fatType' = fatType
    BY <1>3 DEF SearchEnd, Retry
  <2>2. fatType = Medium.fs /\ startSector = Medium.part
    BY <1>1 DEF SearchInv
  <2> QED BY <1>1, <1>3, <2>1, <2>2 DEF SearchInv
<1>4. CASE pc' # "found"
  <2>1. pc' \in {"usb_init", "fail"} /\ (pc' = "usb_init" => startSector' = 0)
    BY <1>4 DEF SearchEnd, Retry, StartSector
  <2>2. type = "USB_ISP" => ~Bootable(Medium)
    BY <2>1, RetryMeans
  <2> QED BY <1>1, <1>2, <2>1, <2>2 DEF SearchInv
<1> QED BY <1>3, <1>4

(* What one directory entry does.                                           *)
LEMMA EntryEffect ==
    ASSUME SearchInv, Named, SearchEntry, Medium.dir \in Seq(EntryType)
    PROVE  LET e == Medium.dir[entry + 1]
           IN  /\ pc = "search" /\ entry \in Nat /\ entry' = entry + 1
               /\ entry + 1 \in 1 .. Len(Medium.dir)
               /\ e.size \in Nat /\ e = [name |-> e.name, size |-> e.size]
               /\ startSector' = startSector /\ fatType' = fatType
               /\ \/ /\ e.name \in Wanted /\ pc' \in {"search", "found"}
                     /\ fileInfo' = [fileInfo EXCEPT ![e.name] =
                                        [at |-> MediumAt, entry |-> entry + 1, size |-> e.size]]
                     /\ count' = count + 1
                     /\ pc' = "found" <=> Complete(fileInfo', count')
                  \/ /\ e.name \notin Wanted /\ pc' = "search"
                     /\ UNCHANGED <<fileInfo, count>>
<1> DEFINE e == Medium.dir[entry + 1]
<1>1. pc = "search" /\ entry < Len(Medium.dir) /\ entry' = entry + 1
  BY DEF SearchEntry
<1>2. Len(Medium.dir) \in Nat /\ entry \in Nat /\ entry + 1 \in 1 .. Len(Medium.dir)
  BY <1>1 DEF SearchInv
<1>3. e \in EntryType
  BY <1>2
<1>4. e.size \in Nat /\ e = [name |-> e.name, size |-> e.size]
  BY <1>3 DEF EntryType
<1>5. startSector' = startSector /\ fatType' = fatType
  BY DEF SearchEntry
<1>6. CASE e.name \in Wanted
  <2>1. /\ fileInfo' = [fileInfo EXCEPT ![e.name] =
                                        [at |-> MediumAt, entry |-> entry + 1, size |-> e.size]]
        /\ count' = count + 1
        /\ pc' = IF Complete(fileInfo', count') THEN "found" ELSE "search"
    BY <1>1, <1>6 DEF SearchEntry
  <2> QED BY <1>1, <1>2, <1>4, <1>5, <1>6, <2>1
<1>7. CASE e.name \notin Wanted
  <2>1. UNCHANGED <<fileInfo, count, pc>>
    BY <1>1, <1>7 DEF SearchEntry
  <2> QED BY <1>1, <1>2, <1>4, <1>5, <1>7, <2>1
<1> QED BY <1>6, <1>7

LEMMA SearchOne ==
    ASSUME Plugged, Typed, Named, ScanInv, SearchInv, SearchEntry,
           UNCHANGED <<type, card, things, Enumeration>>
    PROVE  SearchInv'
<1> DEFINE e == Medium.dir[entry + 1]
<1>1. Medium' = Medium /\ type' = type /\ "ISPBOOOT" \in DOMAIN fileInfo
  BY MediumKept, FatBootAssumption DEF Named
<1>2. Medium.dir \in Seq(EntryType)
  BY MediumTyped DEF SearchEntry
<1>3. /\ pc = "search" /\ entry \in Nat /\ entry' = entry + 1 /\ entry + 1 \in 1 .. Len(Medium.dir)
      /\ startSector' = startSector /\ fatType' = fatType /\ pc' \in {"search", "found"}
  BY <1>2, EntryEffect
<1>4. fatType' = Medium'.fs /\ startSector' = Medium'.part
  BY <1>1, <1>3 DEF SearchInv
<1>5. entry' \in 0 .. Len(Medium'.dir)
  BY <1>1, <1>2, <1>3
<1>6. ASSUME type = "USB_ISP"
      PROVE  /\ pc' # "found" => fileInfo'["ISPBOOOT"].size = 0
             /\ pc' = "search" /\ e.name = "ISPBOOOT" => e.size = 0
  <2>1. Wanted = {"ISPBOOOT"} /\ fileInfo["ISPBOOOT"].size = 0
    BY <1>3, <1>6 DEF Wanted, SearchInv
  <2>2. CASE e.name = "ISPBOOOT"
    <3>1. /\ fileInfo' = [fileInfo EXCEPT !["ISPBOOOT"] =
                                        [at |-> MediumAt, entry |-> entry + 1, size |-> e.size]]
          /\ pc' = "found" <=> Complete(fileInfo', count')
      BY <1>2, <2>1, <2>2, EntryEffect
    <3>2. fileInfo'["ISPBOOOT"].size = e.size
      BY <1>1, <3>1
    <3>3. e.size # 0 => pc' = "found"
      BY <1>6, <3>1, <3>2 DEF Complete
    <3> QED BY <3>2, <3>3, <1>3
  <2>3. CASE e.name # "ISPBOOOT"
    BY <1>2, <2>1, <2>3, EntryEffect
  <2> QED BY <2>2, <2>3
<1>7. ASSUME type = "USB_ISP", pc' = "search"
      PROVE  \A x \in 1 .. entry' : Medium.dir[x].name = "ISPBOOOT" => Medium.dir[x].size = 0
  <2> SUFFICES ASSUME NEW x \in 1 .. entry', Medium.dir[x].name = "ISPBOOOT"
               PROVE  Medium.dir[x].size = 0
    OBVIOUS
  <2>1. x = entry + 1 \/ x \in 1 .. entry
    BY <1>3
  <2>2. CASE x \in 1 .. entry
    BY <1>3, <1>7, <2>2 DEF SearchInv
  <2> QED BY <1>6, <1>7, <2>1, <2>2
<1> QED BY <1>1, <1>3, <1>4, <1>5, <1>6, <1>7 DEF SearchInv

LEMMA SearchStep ==
    /\ Plugged /\ Typed /\ Named /\ WayInv /\ ScanInv /\ SearchInv
    /\ [Next]_vars
    => SearchInv'
<1> SUFFICES ASSUME Plugged, Typed, Named, WayInv, ScanInv, SearchInv, [Next]_vars
             PROVE  SearchInv'
  OBVIOUS
<1>1. CASE UNCHANGED vars
  BY <1>1 DEF SearchInv, Medium, At, vars, usb, things, udev, hc, fat
<1> QED BY <1>1, SearchUsb, SearchStart, SearchFirst, SearchOne, SearchLast, StepKinds DEF FatStep

-----------------------------------------------------------------------------
(* The files found.                                                         *)
LEMMA FilesUsb ==
    ASSUME FilesInv, UsbNext, UNCHANGED <<type, card, fat, things>> PROVE FilesInv'
<1>1. /\ type' = type /\ card' = card /\ fileInfo' = fileInfo
      /\ Seen' = Seen
  BY DEF fat, Seen
<1>2. type # "USB_ISP" => \A f \in Files :
           IF f \in Seen' THEN EntryOf(f, card, Nowhere)' ELSE fileInfo'[f] = NoFile
  BY <1>1 DEF FilesInv, EntryOf
<1> QED BY <1>1, <1>2, UsbPlace DEF FilesInv

LEMMA FilesStart ==
    ASSUME WayInv, FilesInv, InitSd \/ UsbReady \/ FirstSectorFails,
           UNCHANGED <<type, card, things, Enumeration>>
    PROVE  FilesInv'
<1>1. /\ type' = type /\ card' = card /\ fileInfo' = fileInfo
      /\ Seen' = Seen /\ pc' \in {"first_sector", "fail"}
  BY DEF InitSd, UsbReady, FirstSectorFails, fat, Seen
<1>2. type # "USB_ISP" => \A f \in Files :
           IF f \in Seen' THEN EntryOf(f, card, Nowhere)' ELSE fileInfo'[f] = NoFile
  BY <1>1 DEF FilesInv, EntryOf
<1>3. type # "USB_ISP" => pc \in {"sd_init", "first_sector"}
  BY DEF InitSd, UsbReady, FirstSectorFails, WayInv, SdPlaces
<1>4. type # "USB_ISP" => Seen = {}
  BY <1>3 DEF FilesInv
<1> QED BY <1>1, <1>2, <1>4 DEF FilesInv

LEMMA FilesFirst ==
    ASSUME FilesInv, FirstSector, UNCHANGED <<type, card, things, Enumeration>>
    PROVE  FilesInv'
<1>1. /\ type' = type /\ card' = card /\ fileInfo' = fileInfo
      /\ Seen' = Seen /\ pc = "first_sector" /\ pc' \in {"search", "usb_init", "fail"}
  BY DEF FirstSector, Retry, Seen
<1>2. type # "USB_ISP" => \A f \in Files :
           IF f \in Seen' THEN EntryOf(f, card, Nowhere)' ELSE fileInfo'[f] = NoFile
  BY <1>1 DEF FilesInv, EntryOf
<1>3. type # "USB_ISP" => Seen = {}
  BY <1>1 DEF FilesInv
<1>4. pc' = "search" => count' = 0
  BY DEF FirstSector, Retry
<1>5. type # "USB_ISP" /\ pc' = "search" => count' = Cardinality(Seen')
  BY <1>1, <1>3, <1>4, FS_EmptySet
<1> QED BY <1>1, <1>2, <1>3, <1>5 DEF FilesInv

LEMMA FilesLast ==
    ASSUME FilesInv, SearchEnd, UNCHANGED <<type, card, things, Enumeration>>
    PROVE  FilesInv'
<1>1. /\ type' = type /\ card' = card /\ fileInfo' = fileInfo
      /\ Seen' = Seen /\ pc = "search" /\ pc' \in {"found", "usb_init", "fail"}
  BY DEF SearchEnd, Retry, Seen
<1>2. type # "USB_ISP" => \A f \in Files :
           IF f \in Seen' THEN EntryOf(f, card, Nowhere)' ELSE fileInfo'[f] = NoFile
  BY <1>1 DEF FilesInv, EntryOf
<1>3. pc' = "found" => type # "USB_ISP" /\ fileInfo["ISPBOOOT"].size # 0
  BY DEF SearchEnd, Retry
<1> QED BY <1>1, <1>2, <1>3 DEF FilesInv

(* USB: the one wanted entry.                                               *)
LEMMA FilesOneUsb ==
    ASSUME Plugged, Typed, Named, ScanInv, SearchInv, FilesInv, SearchEntry,
           UNCHANGED <<type, card, things, Enumeration>>, type = "USB_ISP"
    PROVE  FilesInv'
<1> DEFINE e == Medium.dir[entry + 1]
<1>1. Medium' = Medium /\ MediumAt' = MediumAt /\ type' = type /\ "ISPBOOOT" \in DOMAIN fileInfo
  BY MediumKept, FatBootAssumption DEF Named
<1>2. Medium.dir \in Seq(EntryType)
  BY MediumTyped DEF SearchEntry
<1>3. Wanted = {"ISPBOOOT"}
  BY DEF Wanted
<1>4. CASE pc' = "found"
  <2>1. /\ e.name = "ISPBOOOT" /\ e = [name |-> e.name, size |-> e.size]
        /\ entry + 1 \in 1 .. Len(Medium.dir)
        /\ fileInfo' = [fileInfo EXCEPT !["ISPBOOOT"] =
                                        [at |-> MediumAt, entry |-> entry + 1, size |-> e.size]]
        /\ Complete(fileInfo', count')
    BY <1>2, <1>3, <1>4, EntryEffect
  <2>2. fileInfo'["ISPBOOOT"] = [at |-> MediumAt, entry |-> entry + 1, size |-> e.size]
    BY <1>1, <2>1
  <2>3. fileInfo'["ISPBOOOT"].size # 0
    BY <2>1 DEF Complete
  <2>4. EntryOf("ISPBOOOT", Medium, MediumAt)'
    BY <1>1, <1>2, <2>1, <2>2 DEF EntryOf
  <2> QED BY <1>1, <2>3, <2>4 DEF FilesInv
<1>5. CASE pc' # "found"
  BY <1>1, <1>5 DEF FilesInv
<1> QED BY <1>4, <1>5

(* SD: each match is of another file.                                       *)
LEMMA FilesOneSd ==
    ASSUME NoTwins, Plugged, Typed, Named, ScanInv, SearchInv, FilesInv, SearchEntry,
           UNCHANGED <<type, card, things, Enumeration>>, type # "USB_ISP"
    PROVE  FilesInv'
<1> DEFINE e == card.dir[entry + 1]
           r == [at |-> Nowhere, entry |-> entry + 1, size |-> e.size]
<1>1. /\ type' = type /\ card' = card /\ Medium = card /\ MediumAt = Nowhere
      /\ DOMAIN fileInfo = Files
  BY DEF Medium, MediumAt, Named
<1>2. Medium.dir \in Seq(EntryType)
  BY ThingsTyped, <1>1
<1>3. /\ pc = "search" /\ entry \in Nat /\ entry' = entry + 1
      /\ entry + 1 \in DOMAIN card.dir
      /\ e = [name |-> e.name, size |-> e.size]
  BY <1>1, <1>2, EntryEffect
<1>4. Wanted = Files
  <2>1. type = "SDCARD_ISP"
    BY ThingsTyped
  <2> QED BY <2>1 DEF Wanted
<1>5. IsFiniteSet(Files) /\ IsFiniteSet(Seen) /\ Seen \subseteq Files
  BY FatBootAssumption, FS_Subset DEF Seen
<1>6. CASE e.name \in Files
  <2>1. /\ fileInfo' = [fileInfo EXCEPT ![e.name] = r]
        /\ count' = count + 1 /\ pc' \in {"search", "found"}
        /\ pc' = "found" <=> Complete(fileInfo', count')
    BY <1>1, <1>2, <1>4, <1>6, EntryEffect
  <2>2. e.name \notin Seen
    <3> SUFFICES ASSUME e.name \in Seen PROVE FALSE
      OBVIOUS
    <3>1. EntryOf(e.name, card, Nowhere) /\ fileInfo[e.name].entry <= entry
      BY <1>3, <1>6 DEF FilesInv
    <3>2. card.dir[fileInfo[e.name].entry].name = e.name /\ fileInfo[e.name].entry \in DOMAIN card.dir
      BY <3>1 DEF EntryOf
    <3>3. \A x, y \in DOMAIN card.dir : card.dir[x].name = card.dir[y].name => x = y
      BY DEF NoTwins, Plugged
    <3>4. fileInfo[e.name].entry = entry + 1
      BY <1>3, <3>2, <3>3
    <3> QED BY <1>3, <3>1, <3>4
  <2>3. /\ fileInfo'[e.name] = r
        /\ \A f \in Files : f # e.name => fileInfo'[f] = fileInfo[f]
    BY <1>1, <1>6, <2>1
  <2>4. r.entry # 0 /\ r.at = Nowhere /\ r.entry = entry + 1 /\ r.size = e.size
    BY <1>3
  <2> HIDE DEF r
  <2>5. Seen' = Seen \cup {e.name}
    BY <1>6, <2>3, <2>4 DEF Seen
  <2>6. Cardinality(Seen') = Cardinality(Seen) + 1 /\ IsFiniteSet(Seen')
    BY <1>5, <2>2, <2>5, FS_AddElement
  <2>7. count' = Cardinality(Seen')
    BY <1>3, <2>1, <2>6 DEF FilesInv
  <2>8. \A f \in Files : IF f \in Seen' THEN EntryOf(f, card, Nowhere)' ELSE fileInfo'[f] = NoFile
    <3> SUFFICES ASSUME NEW f \in Files
                 PROVE  IF f \in Seen' THEN EntryOf(f, card, Nowhere)' ELSE fileInfo'[f] = NoFile
      OBVIOUS
    <3>1. CASE f = e.name
      <4>1. EntryOf(f, card, Nowhere)'
        BY <1>1, <1>3, <2>3, <2>4, <3>1 DEF EntryOf
      <4> QED BY <2>5, <3>1, <4>1
    <3>2. CASE f # e.name
      BY <1>1, <1>3, <2>3, <2>5, <3>2 DEF FilesInv, EntryOf
    <3> QED BY <3>1, <3>2
  <2>9. \A f \in Seen' : fileInfo'[f].entry <= entry'
    <3> SUFFICES ASSUME NEW f \in Seen' PROVE fileInfo'[f].entry <= entry'
      OBVIOUS
    <3>1. CASE f = e.name
      BY <1>3, <2>3, <2>4, <3>1
    <3>2. CASE f # e.name
      <4>1. f \in Seen /\ f \in Files
        BY <1>5, <2>5, <3>2
      <4>2. EntryOf(f, card, Nowhere) /\ fileInfo[f].entry <= entry
        BY <1>3, <4>1 DEF FilesInv
      <4>3. fileInfo[f].entry \in 1 .. Len(card.dir)
        BY <1>1, <1>2, <4>2 DEF EntryOf
      <4> QED BY <1>3, <2>3, <3>2, <4>1, <4>2, <4>3
    <3> QED BY <3>1, <3>2
  <2>10. pc' = "found" => Seen' = Files
    <3> SUFFICES ASSUME pc' = "found" PROVE Seen' = Files
      OBVIOUS
    <3>1. Cardinality(Seen') = Cardinality(Files)
      BY <1>1, <1>4, <2>1, <2>7 DEF Complete, Wanted
    <3>2. Seen' \subseteq Files
      BY <1>5, <1>6, <2>5
    <3> QED BY <1>5, <3>1, <3>2, FS_Subset
  <2> QED BY <1>1, <2>1, <2>7, <2>8, <2>9, <2>10 DEF FilesInv
<1>7. CASE e.name \notin Files
  <2>1. UNCHANGED <<fileInfo, count>> /\ pc' = "search" /\ Seen' = Seen
    BY <1>1, <1>2, <1>4, <1>7, EntryEffect DEF Seen
  <2>2. \A f \in Files : IF f \in Seen' THEN EntryOf(f, card, Nowhere)' ELSE fileInfo'[f] = NoFile
    BY <1>1, <2>1 DEF FilesInv, EntryOf
  <2>3. \A f \in Seen' : fileInfo'[f].entry <= entry'
    <3> SUFFICES ASSUME NEW f \in Seen PROVE fileInfo[f].entry <= entry + 1
      BY <1>3, <2>1
    <3>1. EntryOf(f, card, Nowhere) /\ fileInfo[f].entry <= entry
      BY <1>3, <1>5 DEF FilesInv
    <3>2. fileInfo[f].entry \in 1 .. Len(card.dir)
      BY <1>1, <1>2, <3>1 DEF EntryOf
    <3> QED BY <1>3, <3>1, <3>2
  <2> QED BY <1>1, <1>3, <2>1, <2>2, <2>3 DEF FilesInv
<1> QED BY <1>6, <1>7

LEMMA FilesStep ==
    ASSUME NoTwins
    PROVE  /\ Plugged /\ Typed /\ Named /\ WayInv /\ ScanInv /\ SearchInv /\ FilesInv
           /\ [Next]_vars
           => FilesInv'
<1> SUFFICES ASSUME Plugged, Typed, Named, WayInv, ScanInv, SearchInv, FilesInv, [Next]_vars
             PROVE  FilesInv'
  OBVIOUS
<1>1. CASE UNCHANGED vars
  BY <1>1 DEF FilesInv, Seen, EntryOf, Medium, MediumAt, At, vars, usb, things, udev, hc, fat
<1> QED BY <1>1, FilesUsb, FilesStart, FilesFirst, FilesOneUsb, FilesOneSd, FilesLast, StepKinds
        DEF FatStep

-----------------------------------------------------------------------------
(* The rings.                                                               *)
LEMMA RingNumbers ==
    /\ RingNo(0) = 0 /\ RingNo(2) = 1
    /\ \A x \in 1 .. 3 : RingNo(2 * x) = x /\ RingNo(2 * x - 1) = x
BY DEF RingNo

LEMMA ThingSmall ==
    ASSUME SmallEndpoints, Plugged, Typed, ScanInv, pc \in {"config", "storage"}
    PROVE  At(at[slot_id]).in \in 1 .. 3 /\ At(at[slot_id]).out \in 1 .. 3
<1>1. at[slot_id] = Here
  BY DEF ScanInv
<1>2. CASE NewOnRoot
  <2>1. i \in 1 .. RootPorts /\ At(at[slot_id]) = root[i]
    BY <1>1, <1>2, UsbAssumption DEF NewOnRoot, Typed, Here, At
  <2> QED BY <2>1 DEF SmallEndpoints, Plugged
<1>3. CASE NewOnHub
  <2>1. n # 0 /\ h <= HubPorts
    BY <1>3 DEF NewOnHub, HubFound
  <2>2. h \in 1 .. HubPorts /\ h # 0
    BY <2>1, UsbAssumption DEF Typed
  <2>3. At(at[slot_id]) = hub[h]
    BY <1>1, <2>1, <2>2 DEF Here, At
  <2> QED BY <2>2, <2>3 DEF SmallEndpoints, Plugged
<1> QED BY <1>2, <1>3, EnumCases DEF Enumerating

(* The device with the data of pdevs[0] is the first one.                   *)
LEMMA FirstSlot ==
    ASSUME Slots, Typed, ScanInv, pc \in Enumerating, dev[slot_id] = 0
    PROVE  slot_id = r_slot_id
<1>1. CASE NewOnRoot /\ FirstDevice /\ Len(at) = 1 /\ slot_id = 1
  BY <1>1 DEF FirstDevice
<1>2. CASE NewOnHub /\ Len(at) >= 2 /\ slot_id = Len(at)
  <2>1. slot_id \in 2 .. Len(dev)
    BY <1>2 DEF Slots
  <2>2. dev[slot_id] = 1
    BY <1>2, <2>1 DEF NewOnHub, HubFound, FirstDevice
  <2> QED BY <2>2
<1> QED BY <1>1, <1>2, EnumCases

LEMMA RingBegin == ASSUME RingInv, UsbBegin PROVE RingInv'
<1>1. CASE next = 0
  <2>1. pc' = "root_port" /\ owner' = [r \in 0 .. 4 |-> <<0, 0>>]
    BY <1>1 DEF UsbBegin
  <2> QED BY <2>1 DEF RingInv, Enumerating, Handed
<1>2. CASE next # 0
  <2>1. pc' = "hub_port" /\ UNCHANGED <<udev, hc>>
    BY <1>2 DEF UsbBegin
  <2>2. owner[4] = <<r_slot_id, 0>>
    BY <1>2 DEF UsbBegin, RingInv
  <2> QED BY <2>1, <2>2 DEF RingInv, Enumerating, Handed, udev, hc
<1> QED BY <1>1, <1>2

LEMMA RingPorts == ASSUME Typed, ScanInv, RingInv, RootPort \/ HubPort PROVE RingInv'
<1>1. owner' = owner /\ r_slot_id' = r_slot_id /\ pc' \in {"root_port", "hub_port", "alloc"}
  BY RootPortEffect, HubPortEffect
<1>2. CASE RootPort
  <2>1. pc' # "hub_port" /\ (pc' = "alloc" => devnum' = 2)
    BY <1>2, RootPortEffect DEF ScanInv
  <2> QED BY <1>1, <2>1 DEF RingInv, Enumerating, Handed
<1>3. CASE HubPort
  <2>1. owner[4] = <<r_slot_id, 0>>
    BY <1>3, HubPortEffect DEF RingInv
  <2> QED BY <1>1, <2>1 DEF RingInv, Enumerating, Handed
<1> QED BY <1>2, <1>3

LEMMA RingEnds == ASSUME RingInv, RootScanEnd \/ HubScanEnd PROVE RingInv'
<1>1. pc' = "usb_done" /\ next' = -1 /\ owner' = owner
  BY DEF RootScanEnd, HubScanEnd, hc
<1>2. ~(next' >= 1)
  BY <1>1
<1> QED BY <1>1, <1>2 DEF RingInv, Enumerating

LEMMA RingAlloc == ASSUME Slots, Typed, ScanInv, RingInv, AllocDevice PROVE RingInv'
<1>1. /\ pc = "alloc" /\ pc' = "address" /\ slot_id' = Len(at) + 1
      /\ dev'[slot_id'] = IF devnum = 2 THEN 0 ELSE 1
      /\ r_slot_id' = IF devnum = 2 THEN slot_id' ELSE r_slot_id
  BY AllocEffect
<1>2. slot_id' \in Nat /\ <<slot_id', 0>> \in Nat \X Nat
  BY <1>1 DEF Slots
<1>3. owner' = [owner EXCEPT ![Ep0Ring(slot_id')] = <<slot_id', 0>>]
  BY DEF AllocDevice
<1>4. CASE devnum = 2
  <2>1. Ep0Ring(slot_id') = 4
    BY <1>1, <1>4 DEF Ep0Ring
  <2>2. owner' \in [0 .. 4 -> Nat \X Nat] /\ owner'[4] = <<slot_id', 0>>
    BY <1>2, <1>3, <2>1 DEF RingInv
  <2>3. r_slot_id' = slot_id' /\ dev'[slot_id'] = 0
    BY <1>1, <1>4
  <2> QED BY <1>1, <2>2, <2>3 DEF RingInv, Enumerating, Handed
<1>5. CASE devnum # 2
  <2>1. Ep0Ring(slot_id') = 0
    BY <1>1, <1>5, RingNumbers DEF Ep0Ring
  <2>2. /\ owner' \in [0 .. 4 -> Nat \X Nat] /\ owner'[0] = <<slot_id', 0>>
        /\ owner'[4] = owner[4]
    BY <1>2, <1>3, <2>1 DEF RingInv
  <2>3. owner[4] = <<r_slot_id, 0>> /\ r_slot_id' = r_slot_id
    BY <1>1, <1>5 DEF RingInv
  <2> QED BY <1>1, <2>2, <2>3 DEF RingInv, Enumerating, Handed
<1> QED BY <1>4, <1>5

LEMMA RingAddress == ASSUME RingInv, SetAddress PROVE RingInv'
<1>1. /\ pc = "address" /\ pc' \in {"config", "stuck"} /\ owner' = owner
      /\ dev' = dev /\ slot_id' = slot_id /\ r_slot_id' = r_slot_id
  BY DEF SetAddress, udev
<1> QED BY <1>1 DEF RingInv, Enumerating, Handed

LEMMA RingConfig ==
    ASSUME SmallEndpoints, Plugged, Slots, Typed, ScanInv, RingInv, SelectConfig,
           UNCHANGED things
    PROVE  RingInv'
<1> DEFINE t == At(at[slot_id])
           x == t.in
           y == t.out
<1>1. /\ pc = "config" /\ UNCHANGED <<at, dev, udev>>
      /\ pc' = IF t.kind = "hub" THEN "class_hub" ELSE "storage"
      /\ owner' = IF t.kind = "hub" THEN [owner EXCEPT ![RingNo(2)] = <<slot_id, 2>>]
                  ELSE [owner EXCEPT ![RingNo(InEp(t))] = <<slot_id, InEp(t)>>,
                                     ![RingNo(OutEp(t))] = <<slot_id, OutEp(t)>>]
  BY DEF SelectConfig
<1>2. x \in 1 .. 3 /\ y \in 1 .. 3
  BY <1>1, ThingSmall
<1>3. /\ RingNo(InEp(t)) = x /\ RingNo(OutEp(t)) = y /\ RingNo(2) = 1
      /\ InEp(t) = 2 * x /\ OutEp(t) = 2 * y - 1
  BY <1>2, RingNumbers DEF InEp, OutEp
<1>4. slot_id \in Nat /\ owner \in [0 .. 4 -> Nat \X Nat]
  BY DEF Slots, Typed, RingInv
<1>5. At(at[slot_id])' = t
  BY <1>1 DEF At, things, udev
<1>6. /\ owner[4] = <<r_slot_id, 0>> /\ (dev[slot_id] # 0 => owner[0] = <<slot_id, 0>>)
      /\ UNCHANGED <<slot_id, r_slot_id>> /\ dev'[slot_id'] = dev[slot_id]
  BY <1>1 DEF RingInv, Enumerating, udev
<1> HIDE DEF t, x, y
<1>7. CASE t.kind = "hub"
  <2>1. pc' = "class_hub" /\ owner' = [owner EXCEPT ![1] = <<slot_id, 2>>]
    BY <1>1, <1>3, <1>7
  <2>2. owner' \in [0 .. 4 -> Nat \X Nat] /\ owner'[4] = owner[4] /\ owner'[0] = owner[0]
    BY <1>4, <2>1
  <2> QED BY <1>6, <2>1, <2>2 DEF RingInv, Enumerating, Handed
<1>8. CASE t.kind # "hub"
  <2>1. pc' = "storage" /\ owner' = [owner EXCEPT ![x] = <<slot_id, 2 * x>>, ![y] = <<slot_id, 2 * y - 1>>]
    BY <1>1, <1>3, <1>8
  <2>2. 2 * x \in Nat /\ 2 * y - 1 \in Nat
    BY <1>2
  <2>3. owner' \in [0 .. 4 -> Nat \X Nat] /\ owner'[4] = owner[4] /\ owner'[0] = owner[0]
    BY <1>2, <1>4, <2>1, <2>2
  <2>4. x # y => owner'[x] = <<slot_id, 2 * x>> /\ owner'[y] = <<slot_id, 2 * y - 1>>
    BY <1>2, <1>4, <2>1
  <2>5. (LET u == At(at[slot_id])
         IN  u.in # u.out => /\ owner[u.in] = <<slot_id, 2 * u.in>>
                             /\ owner[u.out] = <<slot_id, 2 * u.out - 1>>)'
    BY <1>5, <1>6, <2>4 DEF x, y
  <2> QED BY <1>6, <2>1, <2>3, <2>5 DEF RingInv, Enumerating, Handed
<1> QED BY <1>7, <1>8

LEMMA RingUse == ASSUME RingInv, ClassHub \/ Storage, type = "USB_ISP" PROVE RingInv'
<1>1. /\ pc \in Enumerating /\ pc' \in {"hub_port", "usb_done", "reset"}
      /\ owner' = owner /\ r_slot_id' = r_slot_id
  BY DEF ClassHub, Storage, Enumerating, udev, hc
<1>2. owner'[4] = <<r_slot_id', 0>>
  BY <1>1 DEF RingInv
<1> QED BY <1>1, <1>2 DEF RingInv, Enumerating, Handed

LEMMA RingFat ==
    ASSUME Typed, WayInv, ScanInv, RingInv, FatStep, UNCHANGED <<type, card, things, Enumeration>>
    PROVE  RingInv'
<1>1. owner' = owner /\ r_slot_id' = r_slot_id /\ next' = next /\ type' = type
  BY DEF Enumeration, udev, hc
<1>2. /\ pc \in Handed \cup {"sd_init"} /\ pc' \in Handed \cup {"usb_init"}
      /\ pc = "sd_init" => type # "USB_ISP"
      /\ pc' = "usb_init" => type = "USB_ISP" /\ next # 0
      /\ pc' = "usb_init" => pc \in {"first_sector", "search"}
  BY DEF FatStep, InitSd, UsbReady, FirstSector, FirstSectorFails, SearchEntry,
         SearchEnd, Retry, WayInv, UsbPlaces, Handed
<1>3. pc' = "usb_init" => next >= 1
  <2>1. h + 1 >= 1
    BY UsbAssumption DEF Typed
  <2> QED BY <1>2, <2>1 DEF ScanInv, Handed
<1>4. (pc' = "usb_init" \/ (pc' \in Handed /\ type = "USB_ISP" /\ next >= 1)) => owner[4] = <<r_slot_id, 0>>
  BY <1>2, <1>3 DEF RingInv
<1>5. pc' \notin Enumerating \cup {"hub_port", "alloc"}
  BY <1>2 DEF Handed, Enumerating
<1> QED BY <1>1, <1>2, <1>4, <1>5 DEF RingInv, Enumerating

LEMMA RingStep ==
    ASSUME SmallEndpoints
    PROVE  Plugged /\ Slots /\ Typed /\ WayInv /\ ScanInv /\ RingInv /\ [Next]_vars => RingInv'
<1> SUFFICES ASSUME Plugged, Slots, Typed, WayInv, ScanInv, RingInv, [Next]_vars PROVE RingInv'
  OBVIOUS
<1>1. CASE UNCHANGED vars
  BY <1>1 DEF RingInv, At, vars, usb, things, udev, hc
<1>2. CASE UsbNext
  <2>1. UNCHANGED things /\ (ClassHub \/ Storage => type = "USB_ISP")
    BY FixedStep, ThingsTyped DEF things, ClassHub, Storage, WayInv, SdPlaces
  <2> QED BY <1>2, <2>1, RingBegin, RingPorts, RingEnds, RingAlloc, RingAddress, RingConfig,
          RingUse DEF UsbNext
<1> QED BY <1>1, <1>2, RingFat, StepKinds

LEMMA RingInit == Init => RingInv
<1> SUFFICES ASSUME Init PROVE RingInv
  OBVIOUS
<1>1. pc \in {"usb_init", "sd_init"} /\ next = 0
  BY DEF Init, UsbInit
<1>2. owner \in [0 .. 4 -> Nat \X Nat]
  BY DEF Init, UsbInit
<1> QED BY <1>1, <1>2 DEF RingInv, Enumerating, Handed

-----------------------------------------------------------------------------
(* Theorems.                                                                *)
Base == Plugged /\ Slots /\ Typed /\ Named /\ WayInv /\ ScanInv /\ PassedInv /\ SearchInv

LEMMA BaseInit == Init => Base
BY InitInv DEF Base, Inv

LEMMA BaseStep == Base /\ [Next]_vars => Base'
BY PluggedStep, SlotsStep, TypedStep, NamedStep, WayStep, ScanStep, PassedStep, SearchStep DEF Base

(* The ports of the hub are asked through the hub's slot, whichever device  *)
(* usb_init looked at before, on any tree of devices and through any number *)
(* of calls of usb_init.                                                    *)
THEOREM HubAskedThroughItsSlot == Spec => AsksTheHub
<1> DEFINE Asked == failed' # failed \/ devnum' # devnum =>
         \/ pc = "root_port" /\ devnum = 1
         \/ /\ pc = "hub_port" /\ at[slot_id'] = <<portnr[2], 0>>
            /\ dev[slot_id'] = 0 /\ \A s \in DOMAIN dev : dev[s] = 0 => s = slot_id'
<1>1. Base /\ [Next]_vars => [Asked]_usb
  <2> SUFFICES ASSUME Base, [Next]_vars PROVE [Asked]_usb
    OBVIOUS
  <2>1. CASE UsbBegin
    <3>1. failed' = failed /\ devnum' = devnum
      BY <2>1 DEF UsbBegin, Base, PassedInv, udev
    <3> QED BY <3>1
  <2>2. CASE RootPort
    BY <2>2, RootPortEffect DEF Base, ScanInv
  <2>3. CASE HubPort
    <3>1. pc = "hub_port" /\ slot_id' = r_slot_id /\ HubFound
      BY <2>3, HubPortEffect DEF Base, ScanInv
    <3>2. slot_id' = 1 /\ at[1] = <<portnr[2], 0>> /\ dev[1] = 0
      BY <3>1 DEF HubFound, FirstDevice
    <3>3. \A s \in DOMAIN dev : dev[s] = 0 => s = 1
      <4> SUFFICES ASSUME NEW s \in DOMAIN dev, dev[s] = 0, s # 1 PROVE FALSE
        OBVIOUS
      <4>1. s \in 2 .. Len(dev)
        BY DEF Base, Slots
      <4> QED BY <3>1, <4>1 DEF HubFound, FirstDevice
    <3> QED BY <3>1, <3>2, <3>3
  <2>4. CASE UNCHANGED <<failed, devnum>>
    BY <2>4
  <2>5. UsbBegin \/ RootPort \/ HubPort \/ UNCHANGED <<failed, devnum>>
    BY StepKinds DEF UsbNext, RootScanEnd, HubScanEnd, AllocDevice, SetAddress, SelectConfig,
                     ClassHub, Storage, Enumeration, vars, usb, udev
  <2> QED BY <2>1, <2>2, <2>3, <2>4, <2>5
<1> QED BY BaseInit, BaseStep, <1>1, PTL DEF Spec, AsksTheHub

(* USB boot gives up only after every port was tried where it looks.        *)
THEOREM EveryPortTried == Spec => []NoDiskMissed
<1>1. Base => NoDiskMissed
  <2> SUFFICES ASSUME Base, pc = "fail", type = "USB_ISP"
               PROVE  /\ n = 0 /\ devnum = 1 => \A x \in 1 .. RootPorts : <<x, 0>> \in failed
                      /\ n = 0 /\ devnum = 2 => ~Bootable(Medium)
                      /\ n # 0 => \A x \in 1 .. HubPorts : Bootable(hub[x]) => <<portnr[2], x>> \in failed
    BY DEF NoDiskMissed
  <2>1. n = 0 /\ devnum = 2 => ~Bootable(Medium)
    BY DEF Base, SearchInv
  <2>2. next = -1 \/ (next = 0 /\ n = 0 /\ devnum = 2)
    BY DEF Base, ScanInv, Handed, NewOnRoot
  <2>3. n = 0 /\ devnum = 1 => \A x \in 1 .. RootPorts : <<x, 0>> \in failed
    <3> SUFFICES ASSUME n = 0, devnum = 1, NEW x \in 1 .. RootPorts PROVE <<x, 0>> \in failed
      OBVIOUS
    <3>1. next = -1
      BY <2>2
    <3> QED BY <3>1 DEF Base, PassedInv, Handed
  <2>4. n # 0 => \A x \in 1 .. HubPorts : Bootable(hub[x]) => <<portnr[2], x>> \in failed
    <3> SUFFICES ASSUME n # 0,
                        NEW x \in 1 .. HubPorts, Bootable(hub[x])
                 PROVE  <<portnr[2], x>> \in failed
      OBVIOUS
    <3>1. Behind(HubPorts + 1)
      BY <2>2 DEF Base, PassedInv, Handed
    <3>2. x \in 1 .. (HubPorts + 1) - 1
      BY UsbAssumption
    <3> QED BY <3>1, <3>2 DEF Behind
  <2> QED BY <2>1, <2>3, <2>4
<1> QED BY BaseInit, BaseStep, <1>1, PTL DEF Spec

(* What fat_boot hands to the loaders is of the medium it stopped at.       *)
THEOREM FoundOnTheMedium == ASSUME NoTwins PROVE Spec => []FindsTheFile
<1>1. Inv => FindsTheFile
  <2> SUFFICES ASSUME Inv, pc = "found" PROVE FindsTheFile
    BY DEF FindsTheFile
  <2>1. fatType = Medium.fs /\ startSector = Medium.part
    BY DEF Inv, SearchInv
  <2>2. "ISPBOOOT" \in Files /\ type \in {"USB_ISP", "SDCARD_ISP"}
    BY FatBootAssumption, ThingsTyped DEF Inv
  <2>3. CASE type = "USB_ISP"
    BY <2>1, <2>3 DEF FindsTheFile, Inv, FilesInv, EntryOf
  <2>4. CASE type # "USB_ISP"
    <3>1. Medium = card /\ MediumAt = Nowhere
      BY <2>4 DEF Medium, MediumAt
    <3>2. Seen = Files \/ fileInfo["ISPBOOOT"].size # 0
      BY <2>4 DEF Inv, FilesInv
    <3>3. "ISPBOOOT" \in Seen
      BY <2>2, <2>4, <3>2 DEF Inv, FilesInv, NoFile
    <3>4. EntryOf("ISPBOOOT", card, Nowhere)
      BY <2>2, <2>4, <3>3 DEF Inv, FilesInv
    <3>5. Seen = Files => \A x \in Files : fileInfo[x].at = MediumAt /\ fileInfo[x].entry # 0
      BY <2>4, <3>1 DEF Inv, FilesInv, EntryOf, Seen
    <3> QED BY <2>1, <2>2, <2>4, <3>1, <3>2, <3>4, <3>5 DEF FindsTheFile, EntryOf
  <2> QED BY <2>3, <2>4
<1>2. Inv /\ [Next]_vars => Inv'
  BY BaseStep, FilesStep DEF Base, Inv
<1> QED BY InitInv, <1>1, <1>2, PTL DEF Spec

(* A disk reads and writes through rings of its own, and the hub keeps its  *)
(* endpoint 0's, whatever is plugged in with endpoint numbers up to 3.      *)
THEOREM DisksHaveTheirRings == ASSUME SmallEndpoints PROVE Spec => []RingsApart
<1>1. Base /\ RingInv => RingsApart
  <2> SUFFICES ASSUME Base, RingInv PROVE RingsApart
    OBVIOUS
  <2> DEFINE t == At(at[slot_id])
             mine == {0, InEp(t), OutEp(t)}
             ring == [e \in mine |-> IF e = 0 /\ dev[slot_id] = 0 THEN 4 ELSE RingNo(e)]
  <2>1. ASSUME pc = "storage", t.in # t.out, NEW e \in mine
        PROVE  owner[ring[e]] = <<slot_id, e>>
    <3>1. t.in \in 1 .. 3 /\ t.out \in 1 .. 3
      BY <2>1, ThingSmall DEF Base
    <3>2. /\ RingNo(InEp(t)) = t.in /\ RingNo(OutEp(t)) = t.out /\ RingNo(0) = 0
          /\ InEp(t) = 2 * t.in /\ OutEp(t) = 2 * t.out - 1
      BY <3>1, RingNumbers DEF InEp, OutEp
    <3>3. InEp(t) # 0 /\ OutEp(t) # 0
      BY <3>1, <3>2
    <3>4. owner[t.in] = <<slot_id, InEp(t)>> /\ owner[t.out] = <<slot_id, OutEp(t)>>
      BY <2>1, <3>2 DEF RingInv
    <3>5. CASE e = 0
      <4>1. CASE dev[slot_id] = 0
        <5>1. slot_id = r_slot_id /\ owner[4] = <<r_slot_id, 0>>
          BY <2>1, <4>1, FirstSlot DEF Base, Enumerating, RingInv
        <5> QED BY <3>5, <4>1, <5>1
      <4>2. CASE dev[slot_id] # 0
        <5>1. owner[0] = <<slot_id, 0>>
          BY <2>1, <4>2 DEF RingInv, Enumerating
        <5> QED BY <3>2, <3>5, <4>2, <5>1
      <4> QED BY <4>1, <4>2
    <3>6. CASE e # 0
      BY <2>1, <3>2, <3>4, <3>6
    <3> QED BY <3>5, <3>6
  <2>2. pc = "hub_port" => owner[4] = <<r_slot_id, 0>>
    BY DEF RingInv
  <2> QED BY <2>1, <2>2 DEF RingsApart
<1>2. Base /\ RingInv /\ [Next]_vars => RingInv'
  BY RingStep DEF Base
<1> QED BY BaseInit, BaseStep, RingInit, <1>1, <1>2, PTL DEF Spec
=============================================================================
