------------------------------ MODULE UsbEnum ------------------------------
(***************************************************************************)
(* Enumeration of usb/xhci_usb.c: usb_init scans the ports of the root hub, *)
(* and those of the first hub it finds there, for a device to boot from.    *)
(* It is called again, with the port to go on from, when the caller could   *)
(* not use the device (fat_boot, see FatBoot).                              *)
(*                                                                          *)
(* A thing is what is plugged into a port: nothing, a low or full speed     *)
(* device, a hub, or a disk with its bulk endpoints.  A location <<i, h>> is *)
(* root port i (h = 0) or port h of the hub there.  The controller knows a  *)
(* device by the location it was told with Address Device.  Transfers       *)
(* succeed here; XhciRing has what they go through.  CONFIG_HAVE_USB3_HUB   *)
(* is set, as in all the default configurations with this driver.           *)
(***************************************************************************)
EXTENDS Integers, Sequences

CONSTANTS
    RootPorts,  \* Hub_NbrPorts_root
    HubPorts,   \* Hub_NbrPorts, 5 at most: portnr has 8 entries
    Resets      \* resets of a port whose success counts (5)

ASSUME UsbAssumption ==
    /\ RootPorts \in Nat \ {0} /\ Resets \in Nat \ {0}
    /\ HubPorts \in 1 .. 5

VARIABLES
    root, hub,  \* the things at the root ports and at the hub's, fixed
    pc,         \* place in the code
    next,       \* next_port_in_hub of the caller
    n,          \* next_port_in_hub in usb_init
    i, h,       \* the loops over the root ports and the hub's (trb_64)
    devnum, portnr,     \* udev.devnum, udev.portnr
    slot_id, r_slot_id, \* udev.slot_id, udev.r_slot_id
    at,         \* the controller: by slot, the location addressed
    dev,        \* devs[slot]: index of its xhci_virt_device in pdevs
    owner,      \* pep_ring: the <<slot, endpoint index>> it was set up for
    failed      \* history: locations whose port_test failed

things == <<root, hub>>
udev == <<devnum, portnr, slot_id, r_slot_id>>
hc == <<at, dev, owner>>
usb == <<things, pc, next, n, i, h, udev, hc, failed>>

Nowhere == <<0, 0>>
Here == IF n = 0 THEN <<i, 0>> ELSE <<portnr[2], h>>
At(l) == IF l[2] = 0 THEN root[l[1]] ELSE hub[l[2]]

UsbInit ==
    /\ next = 0 /\ n = 0 /\ i = 1 /\ h = 1
    /\ devnum = 1 /\ portnr = [d \in 0 .. 7 |-> 0] /\ slot_id = 0 /\ r_slot_id = 0
    /\ at = <<>> /\ dev = <<>> /\ owner = [r \in 0 .. 4 |-> <<0, 0>>]
    /\ failed = {}

(* usb_init(port, 0) clears the driver's data and resets the controller;    *)
(* usb_init(port, n) goes on behind the hub's port n - 1.                   *)
UsbBegin ==
    /\ pc = "usb_init"
    /\ IF next = 0
       THEN /\ n' = 0 /\ i' = 1 /\ h' = 1
            /\ devnum' = 1 /\ portnr' = [d \in 0 .. 7 |-> 0] /\ slot_id' = 0 /\ r_slot_id' = 0
            /\ at' = <<>> /\ dev' = <<>> /\ owner' = [r \in 0 .. 4 |-> <<0, 0>>]
            /\ failed' = {}
            /\ pc' = "root_port"
       ELSE /\ n' = next /\ h' = next
            /\ pc' = "hub_port"
            /\ UNCHANGED <<i, udev, hc, failed>>
    /\ UNCHANGED <<things, next>>

-----------------------------------------------------------------------------
(* port_test                                                                *)

(* The port's reset enables it at attempt `tries`, counted from 0, or never *)
(* (Resets + 1).  The last of the Resets + 1 attempts is made in vain.      *)
Passes(t, tries) == t.kind \notin {"none", "slow"} /\ tries < Resets

Attached(ok, p) ==
    IF ok THEN /\ devnum' = devnum + 1
               /\ portnr' = [portnr EXCEPT ![devnum + 1] = p]
    ELSE UNCHANGED <<devnum, portnr>>

RootPort ==
    /\ pc = "root_port" /\ i <= RootPorts
    /\ \E tries \in 0 .. Resets + 1 :
         LET ok == Passes(root[i], tries)
         IN  /\ Attached(ok, i)
             /\ pc' = IF ok THEN "alloc" ELSE "root_port"
             /\ i' = IF ok THEN i ELSE i + 1
             /\ failed' = IF ok THEN failed ELSE failed \cup {<<i, 0>>}
    /\ UNCHANGED <<things, next, n, h, slot_id, r_slot_id, hc>>

(* "Root scan end ==> no device!"                                           *)
RootScanEnd ==
    /\ pc = "root_port" /\ i > RootPorts
    /\ next' = -1 /\ pc' = "usb_done"
    /\ UNCHANGED <<things, n, i, h, udev, hc, failed>>

(* Mutant: the slot of the device before stays selected.                    *)
HubSlotKept == slot_id

(* The port requests go to the hub's slot.                                  *)
HubSlot == r_slot_id

HubPort ==
    /\ pc = "hub_port" /\ h <= HubPorts
    /\ slot_id' = HubSlot
    /\ \E tries \in 0 .. Resets + 1 :
         LET ok == Passes(hub[h], tries)
         IN  /\ Attached(ok, h)
             /\ pc' = IF ok THEN "alloc" ELSE "hub_port"
             /\ h' = IF ok THEN h ELSE h + 1
             /\ failed' = IF ok THEN failed ELSE failed \cup {<<portnr[2], h>>}
    /\ UNCHANGED <<things, next, n, i, r_slot_id, hc>>

(* "Hub scan end ==> no device!"                                            *)
HubScanEnd ==
    /\ pc = "hub_port" /\ h > HubPorts
    /\ next' = -1 /\ pc' = "usb_done"
    /\ UNCHANGED <<things, n, i, h, udev, hc, failed>>

-----------------------------------------------------------------------------
(* A new device                                                             *)

(* Mutant: rounded down.                                                    *)
RingNoDown(e) == e \div 2

(* xhci_ring_alloc: the ring of endpoint index e (2 * number, one less for  *)
(* OUT; 0 for endpoint 0), so both directions of a number share one; the    *)
(* first device's endpoint 0 has the last ring.                             *)
RingNo(e) == (e + 1) \div 2
Ep0Ring(s) == IF dev'[s] = 0 THEN 4 ELSE RingNo(0)
InEp(t) == 2 * t.in
OutEp(t) == 2 * t.out - 1

(* xhci_alloc_device: Enable Slot; the first device of all has pdevs[0],    *)
(* every other one pdevs[1].                                                *)
AllocDevice ==
    /\ pc = "alloc"
    /\ slot_id' = Len(at) + 1
    /\ at' = Append(at, Nowhere)
    /\ r_slot_id' = IF devnum = 2 THEN slot_id' ELSE r_slot_id
    /\ dev' = Append(dev, IF devnum = 2 THEN 0 ELSE 1)
    /\ owner' = [owner EXCEPT ![Ep0Ring(slot_id')] = <<slot_id', 0>>]
    /\ pc' = "address"
    /\ UNCHANGED <<things, next, n, i, h, devnum, portnr, failed>>

(* set_address: the route is the bitwise or of the ports of all the devices *)
(* behind the first one (the shift by `depth` is by 0), 15 at most each.    *)
(* Numbers are sets of bits here.                                           *)
RouteDevices == 3 .. devnum
Bits(p) == {b \in 0 .. 3 : (p \div 2 ^ b) % 2 = 1}
Route == UNION {Bits(IF portnr[d] > 15 THEN 15 ELSE portnr[d]) : d \in RouteDevices}
TellsHere == portnr[2] = Here[1] /\ Route = Bits(Here[2])

(* Only the device whose port was just reset answers Address Device.  A     *)
(* controller told another place fails it, unless it has no use for the     *)
(* route.  The failure is printed; the next transfer on the slot has no     *)
(* answer, and wait_for_event no end.                                       *)
SetAddress ==
    /\ pc = "address"
    /\ \/ at' = [at EXCEPT ![slot_id] = Here] /\ pc' = "config"
       \/ ~TellsHere /\ at' = at /\ pc' = "stuck"
    /\ UNCHANGED <<things, next, n, i, h, udev, dev, owner, failed>>

(* usb_select_config: descriptors, usb_parse_config, set_configuration with *)
(* a ring for each endpoint (a hub's: interrupt IN 1).                      *)
SelectConfig ==
    /\ pc = "config"
    /\ LET t == At(at[slot_id])
       IN  /\ owner' = IF t.kind = "hub" THEN [owner EXCEPT ![RingNo(2)] = <<slot_id, 2>>]
                       ELSE [owner EXCEPT ![RingNo(InEp(t))] = <<slot_id, InEp(t)>>,
                                          ![RingNo(OutEp(t))] = <<slot_id, OutEp(t)>>]
           /\ pc' = IF t.kind = "hub" THEN "class_hub" ELSE "storage"
    /\ UNCHANGED <<things, next, n, i, h, udev, at, dev, failed>>

(* A hub on the root: update_hub_device, power to its ports, scan them.  A  *)
(* hub behind the hub: "continue".                                          *)
ClassHub ==
    /\ pc = "class_hub"
    /\ n' = IF n = 0 THEN 1 ELSE n
    /\ h' = IF n = 0 THEN 1 ELSE h + 1
    /\ pc' = "hub_port"
    /\ UNCHANGED <<things, next, i, udev, hc, failed>>

(* "return ++trb_64"; a device on the root returns 0.                       *)
NextPort == h + 1

(* usb_storage: returns when the unit is ready; boot_reset() when it stays  *)
(* not ready.                                                               *)
Storage ==
    /\ pc = "storage"
    /\ \/ pc' = "usb_done" /\ next' = IF n = 0 THEN 0 ELSE NextPort
       \/ pc' = "reset" /\ next' = next
    /\ UNCHANGED <<things, n, i, h, udev, hc, failed>>

UsbNext ==
    \/ UsbBegin \/ RootPort \/ RootScanEnd \/ HubPort \/ HubScanEnd
    \/ AllocDevice \/ SetAddress \/ SelectConfig \/ ClassHub \/ Storage

-----------------------------------------------------------------------------
(* Properties                                                               *)

UsbTypeOK ==
    /\ devnum \in 1 .. HubPorts + 2
    /\ next \in -1 .. HubPorts + 1 /\ n \in 0 .. HubPorts + 1
    /\ i \in 1 .. RootPorts + 1 /\ h \in 1 .. HubPorts + 1
    /\ slot_id \in 0 .. Len(at) /\ r_slot_id \in 0 .. Len(at) /\ Len(dev) = Len(at)

(* The ports of the hub are asked through the hub's slot, whichever device  *)
(* was looked at before (udev is one structure for all of them), and the    *)
(* hub's data has not been given to another device.                         *)
AsksTheHub ==
    [][failed' # failed \/ devnum' # devnum =>
         \/ pc = "root_port" /\ devnum = 1
         \/ /\ pc = "hub_port" /\ at[slot_id'] = <<portnr[2], 0>>
            /\ dev[slot_id'] = 0 /\ \A s \in DOMAIN dev : dev[s] = 0 => s = slot_id']_usb

(* Where a disk's two endpoint numbers differ, it reads and writes through  *)
(* rings of its own, and the hub's endpoint 0 keeps the ring it had.        *)
RingsApart ==
    /\ pc = "storage" =>
         LET t == At(at[slot_id])
             mine == {0, InEp(t), OutEp(t)}
             ring == [e \in mine |-> IF e = 0 /\ dev[slot_id] = 0 THEN 4 ELSE RingNo(e)]
         IN  t.in # t.out => \A e \in mine : owner[ring[e]] = <<slot_id, e>>
    /\ pc = "hub_port" => owner[4] = <<r_slot_id, 0>>

(* Each device is addressed by the port it was found at: "try next port of  *)
(* the hub".                                                                *)
RouteIsOwn == pc = "address" => TellsHere
=============================================================================
