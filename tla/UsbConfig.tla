----------------------------- MODULE UsbConfig -----------------------------
(***************************************************************************)
(* What the xHCI driver makes of a device's descriptors (usb_select_config  *)
(* and update_hub_device of usb/xhci_usb.c): the interfaces and endpoints   *)
(* they list are put into the tables of udev.config; the endpoints of the   *)
(* first interface become contexts of the controller, and the pipes for     *)
(* bulk transfers are chosen.  The tables are those of one device after     *)
(* another, a hub and the disks behind it, and nobody clears them.          *)
(*                                                                          *)
(* The list of a device holds interfaces, endpoints, companions of          *)
(* endpoints and other descriptors, in the order USB gives them; no more of *)
(* them than the tables hold, as behind these nothing is defined.  Requests *)
(* succeed: XhciRing has what they go through.  The controller may refuse   *)
(* what it is to take of the contexts, and nobody looks at its answer.      *)
(***************************************************************************)
EXTENDS Integers, Sequences, FiniteSetsExt

CONSTANTS
    Devices,        \* devices: [speed, hub, interfaces, list]
    MaxDevices,     \* bound on the devices of one boot
    MaxInterfaces,  \* USB_MAXINTERFACES
    MaxEndpoints    \* USB_MAXENDPOINTS

VARIABLES
    dev, before,    \* the device, and history: those before it
    pc, index,      \* the place in the code, and in the list
    ifno, epno, curr_if_num,    \* usb_parse_config's
    no_of_if, if_desc,          \* udev.config
    ep_dir, epmaxpacket,        \* udev: pipes by direction, sizes by endpoint
    add_flags, in_slot, in_ctx, \* the input context
    out_slot, out_ctx,          \* what the controller has taken of it
    refused                     \* history: it refused some of it

parser == <<ifno, epno, curr_if_num, no_of_if, if_desc>>
udev == <<ep_dir, epmaxpacket>>
input == <<add_flags, in_slot, in_ctx>>
output == <<out_slot, out_ctx, refused>>
vars == <<dev, before, pc, index, parser, udev, input, output>>

Dirs == {"in", "out"}
Numbers == 1 .. 3       \* epmaxpacketin has four entries
EndpointSizes == 0 .. 1024

(* bmAttributes, as the usb_endpoint_xfer functions tell them apart.  No    *)
(* hub or disk has isochronous endpoints, nor control endpoints but         *)
(* endpoint 0, which no list names: of that type are only the entries of    *)
(* the tables nothing was put into yet.                                     *)
Types == {"bulk", "interrupt"}
NoEndpoint == [kind |-> "endpoint", number |-> 0, dir |-> "out", type |-> "control", size |-> 0, every |-> 0]

(* What a list may hold.                                                    *)
InterfaceSet == [kind : {"interface"}, number : 0 .. 255, setting : 0 .. 255, endpoints : 0 .. MaxEndpoints]
EndpointSet == [kind : {"endpoint"}, number : Numbers, dir : Dirs, type : Types, size : EndpointSizes, every : 0 .. 255]
OtherSet == [kind : {"companion"}, burst : 0 .. 15] \cup [kind : {"other"}]

(* The interface, in one of its settings, that descriptor k belongs to.     *)
InterfaceOf(list, k) == LET at == {j \in 1 .. k : list[j].kind = "interface"} IN list[Max(at)]
InFirst(list, k) == InterfaceOf(list, k).number = list[1].number
InSetting(list, k) == InFirst(list, k) /\ InterfaceOf(list, k).setting = 0

(* The endpoints of a device's first interface, in its first setting and in *)
(* all of them.                                                             *)
OwnOf(list) == {k \in DOMAIN list : list[k].kind = "endpoint" /\ InSetting(list, k)}
AllOf(list) == {k \in DOMAIN list : list[k].kind = "endpoint" /\ InFirst(list, k)}
SameAddress(e, f) == e.number = f.number /\ e.dir = f.dir

(* The first interface comes before all others, and its first setting       *)
(* before its others; a setting has no address twice, and an address is     *)
(* used in the same way in all settings.  A disk with one interface has     *)
(* endpoints in both directions.                                            *)
Ordered(list) ==
    /\ list[1].kind = "interface" /\ list[1].setting = 0
    /\ list[1].endpoints = Cardinality(OwnOf(list))
    /\ \A k \in DOMAIN list : \A j \in 1 .. k :
           /\ InFirst(list, k) => InFirst(list, j)
           /\ InSetting(list, k) => InSetting(list, j)
Unique(list) == \A j, k \in OwnOf(list) : SameAddress(list[j], list[k]) => j = k
Alike(list) ==
    \A j, k \in AllOf(list) :
        SameAddress(list[j], list[k]) => list[j].type = list[k].type /\ list[j].every = list[k].every
BothWays(list) == \A x \in Dirs : \E k \in OwnOf(list) : list[k].dir = x

(* The tables hold them.                                                    *)
Fits(list) ==
    /\ Cardinality({k \in DOMAIN list : list[k].kind = "interface"}) <= MaxInterfaces
    /\ \A j \in DOMAIN list :
           Cardinality({k \in DOMAIN list : /\ list[k].kind = "endpoint"
                                           /\ InterfaceOf(list, k).number = InterfaceOf(list, j).number}) <= MaxEndpoints

UsbConfigAssumption ==
    /\ MaxDevices \in Nat \ {0} /\ MaxInterfaces \in Nat \ {0} /\ MaxEndpoints \in Nat \ {0}
    /\ \A d \in Devices :
           /\ d.speed \in {"high", "super"} /\ d.hub \in BOOLEAN /\ d.interfaces \in 1 .. MaxInterfaces
           /\ d.list \in Seq(InterfaceSet \cup EndpointSet \cup OtherSet) /\ d.list # <<>>
           /\ Fits(d.list) /\ Ordered(d.list) /\ Unique(d.list) /\ Alike(d.list)
           /\ d.interfaces = 1 /\ ~d.hub => BothWays(d.list)

(* The slot's context when the device has its address.                      *)
Addressed(d) == [speed |-> d.speed, hub |-> FALSE, last |-> 1]

Init ==
    /\ dev \in Devices /\ before = <<>>
    /\ pc = "parse" /\ index = 1
    /\ ifno = -1 /\ epno = -1 /\ curr_if_num = -1 /\ no_of_if = 0
    /\ if_desc = [i \in 0 .. MaxInterfaces - 1 |->
                     [announced |-> 0, no_of_ep |-> 0,
                      ep_desc |-> [k \in 0 .. MaxEndpoints - 1 |-> NoEndpoint],
                      burst |-> [k \in 0 .. MaxEndpoints - 1 |-> 0]]]
    /\ ep_dir = [x \in Dirs |-> 0]
    /\ epmaxpacket = [x \in Dirs |-> [b \in 0 .. 3 |-> IF b = 0 THEN 64 ELSE 0]]
    /\ add_flags = {} /\ in_ctx = <<>> /\ out_ctx = <<>> /\ refused = FALSE
    /\ in_slot = Addressed(dev) /\ out_slot = Addressed(dev)

-----------------------------------------------------------------------------
(* usb_parse_config                                                         *)

Parsing(kind) == pc = "parse" /\ index \in DOMAIN dev.list /\ dev.list[index].kind = kind
This == dev.list[index]
NextDescriptor == index' = index + 1 /\ UNCHANGED <<dev, before, pc, udev, input, output>>

CountKept == if_desc[no_of_if].no_of_ep
CountCleared == 0

NewInterface ==
    /\ Parsing("interface") /\ This.number # curr_if_num /\ no_of_if < MaxInterfaces
    /\ ifno' = no_of_if /\ no_of_if' = no_of_if + 1 /\ curr_if_num' = This.number
    /\ if_desc' = [if_desc EXCEPT ![no_of_if].announced = This.endpoints, ![no_of_if].no_of_ep = CountCleared]
    /\ UNCHANGED epno /\ NextDescriptor

OtherSetting ==
    /\ Parsing("interface") /\ This.number = curr_if_num
    /\ UNCHANGED parser /\ NextDescriptor

Endpoint ==
    /\ Parsing("endpoint") /\ if_desc[ifno].no_of_ep < MaxEndpoints
    /\ epno' = if_desc[ifno].no_of_ep
    /\ if_desc' = [if_desc EXCEPT ![ifno].ep_desc[epno'] = This, ![ifno].no_of_ep = epno' + 1]
    /\ UNCHANGED <<ifno, curr_if_num, no_of_if>> /\ NextDescriptor

Companion ==
    /\ Parsing("companion") /\ epno >= 0
    /\ if_desc' = [if_desc EXCEPT ![ifno].burst[epno] = This.burst]
    /\ UNCHANGED <<ifno, epno, curr_if_num, no_of_if>> /\ NextDescriptor

Other == Parsing("other") /\ UNCHANGED parser /\ NextDescriptor

ParseEnd ==
    /\ pc = "parse" /\ index \notin DOMAIN dev.list
    /\ pc' = "pipes"
    /\ UNCHANGED <<dev, before, index, parser, udev, input, output>>

-----------------------------------------------------------------------------
(* usb_set_maxpacket: over the interfaces and endpoints the descriptors     *)
(* announce; the pipes are those of the last of the interfaces, in each     *)
(* direction its first endpoint that is not of type control.                *)

Announced(i) == {if_desc[i].ep_desc[k] : k \in 0 .. if_desc[i].announced - 1}
AllAnnounced == UNION {Announced(i) : i \in 0 .. dev.interfaces - 1}
First(x) ==
    LET last == if_desc[dev.interfaces - 1]
        at == {k \in 0 .. last.announced - 1 : last.ep_desc[k].type # "control" /\ last.ep_desc[k].dir = x}
    IN  IF at = {} THEN 0 ELSE last.ep_desc[Min(at)].number

(* Another type makes a size larger.  Control, here that of empty entries   *)
(* only, sets both sizes of its number.                                     *)
SizesAt(x, b) == {e.size : e \in {f \in AllAnnounced : f.type # "control" /\ f.dir = x /\ f.number = b}}
ControlSizes(b) == {e.size : e \in {f \in AllAnnounced : f.type = "control" /\ f.number = b}}
StartOf(x, b) == IF ControlSizes(b) = {} THEN {epmaxpacket[x][b]} ELSE ControlSizes(b)

SetMaxPacket ==
    /\ pc = "pipes" /\ pc' = "configure"
    /\ ep_dir' = [x \in Dirs |-> First(x)]
    /\ epmaxpacket' = [x \in Dirs |-> [b \in 0 .. 3 |-> Max(StartOf(x, b) \cup SizesAt(x, b))]]
    /\ UNCHANGED <<dev, before, index, parser, input, output>>

-----------------------------------------------------------------------------
(* set_configuration                                                        *)

(* xhci_get_ep_index                                                        *)
EpIndex(e) == 2 * e.number - (IF e.type = "control" \/ e.dir = "in" THEN 0 ELSE 1)

(* fls(x) - 1, for what fits a byte; 0 - 1 is the largest unsigned.         *)
Exponent(x) == IF x = 0 THEN 2^32 - 1 ELSE CHOOSE j \in 0 .. 7 : 2^j <= x /\ x < 2^(j + 1)
Clamp(x, low, high) == IF x < low THEN low ELSE IF x > high THEN high ELSE x

(* xhci_get_endpoint_interval, for the speeds port_test accepts.            *)
Interval(speed, e) ==
    CASE speed = "high" /\ e.type \in {"control", "bulk"} -> IF e.every = 0 THEN 0 ELSE Clamp(Exponent(e.every), 0, 15)
      [] speed = "super" /\ e.type \in {"control", "bulk"} -> 0
      [] OTHER -> Clamp(e.every, 1, 16) - 1

(* xhci_get_endpoint_max_burst; of two bulk or interrupt endpoints of a     *)
(* high-speed device neither has more than one packet at a time.            *)
MaxBurst(i, k) == IF dev.speed = "super" THEN if_desc[i].burst[k] ELSE 0

Context(i, k) ==
    LET e == if_desc[i].ep_desc[k]
    IN  [type |-> e.type, dir |-> e.dir, size |-> e.size, interval |-> Interval(dev.speed, e), burst |-> MaxBurst(i, k)]

(* slot_copy: the slot as the controller has it.                            *)
CopyOfSlot == out_slot

(* configure_endpoints: the command ends with some completion code.         *)
ConfigureEndpoints(contexts) ==
    \/ out_slot' = in_slot' /\ out_ctx' = contexts /\ UNCHANGED refused
    \/ refused' = TRUE /\ UNCHANGED <<out_slot, out_ctx>>

(* The first interface; of two endpoints with one index the later one wins. *)
SetConfiguration ==
    /\ pc = "configure" /\ pc' = IF dev.hub THEN "hub" ELSE "ready"
    /\ LET all == 0 .. if_desc[0].no_of_ep - 1
           index_of(k) == EpIndex(if_desc[0].ep_desc[k])
           indexes == {index_of(k) : k \in all}
           ctx == [x \in indexes |-> Context(0, Max({k \in all : index_of(k) = x}))]
       IN  /\ add_flags' = indexes
           /\ in_slot' = [CopyOfSlot EXCEPT !.last = Max({0} \cup indexes) + 1]
           /\ in_ctx' = ctx
           /\ ConfigureEndpoints(ctx)
    /\ UNCHANGED <<dev, before, index, parser, udev>>

(* update_hub_device: with its slot context only.                           *)
UpdateHub ==
    /\ pc = "hub" /\ pc' = "ready"
    /\ add_flags' = {} /\ in_slot' = [CopyOfSlot EXCEPT !.hub = TRUE]
    /\ ConfigureEndpoints(out_ctx)
    /\ UNCHANGED <<dev, before, index, parser, udev, in_ctx>>

(* usb_init goes on to another device.                                      *)
NextDevice ==
    /\ pc = "ready" /\ Len(before) + 1 < MaxDevices
    /\ dev' \in Devices /\ before' = Append(before, dev)
    /\ pc' = "parse" /\ index' = 1
    /\ ifno' = -1 /\ epno' = -1 /\ curr_if_num' = -1 /\ no_of_if' = 0
    /\ epmaxpacket' = [x \in Dirs |-> [epmaxpacket[x] EXCEPT ![0] = 64]]
    /\ add_flags' = {} /\ in_ctx' = <<>> /\ out_ctx' = <<>> /\ refused' = FALSE
    /\ in_slot' = Addressed(dev') /\ out_slot' = Addressed(dev')
    /\ UNCHANGED <<if_desc, ep_dir>>

-----------------------------------------------------------------------------
Driver ==
    \/ NewInterface \/ OtherSetting \/ Endpoint \/ Companion \/ Other \/ ParseEnd
    \/ SetMaxPacket \/ SetConfiguration \/ UpdateHub

Next == Driver \/ NextDevice

Spec == Init /\ [][Next]_vars /\ WF_vars(Driver)

-----------------------------------------------------------------------------
(* Properties                                                               *)

TypeOK ==
    /\ ifno \in -1 .. MaxInterfaces /\ epno \in -1 .. MaxEndpoints /\ no_of_if \in 0 .. MaxInterfaces
    /\ \A i \in DOMAIN if_desc : if_desc[i].no_of_ep \in 0 .. MaxEndpoints
    /\ \A x \in Dirs : ep_dir[x] \in 0 .. 3 /\ \A b \in 0 .. 3 : epmaxpacket[x][b] \in Nat

Own == OwnOf(dev.list)

(* The sizes of the endpoints with an address, in all settings.             *)
Sizes(d, x, b) == {d.list[k].size : k \in {j \in DOMAIN d.list : d.list[j].kind = "endpoint" /\ d.list[j].dir = x /\ d.list[j].number = b}}
SizesBefore(x, b) == UNION {Sizes(before[j], x, b) : j \in DOMAIN before}

(* What the controller has taken of an endpoint.                            *)
Taken(k) ==
    LET e == dev.list[k]
        x == EpIndex(e)
    IN  /\ x \in DOMAIN out_ctx /\ x < out_slot.last
        /\ out_ctx[x].size \in Sizes(dev, e.dir, e.number)
        /\ out_ctx[x].dir = e.dir
        /\ e.type = "interrupt" /\ e.every > 0 => out_ctx[x].interval <= e.every - 1

(* The contexts are of endpoints the device has.                            *)
ContextsOwn ==
    \A x \in DOMAIN out_ctx : \E k \in DOMAIN dev.list : dev.list[k].kind = "endpoint" /\ EpIndex(dev.list[k]) = x

(* The pipe of a direction is the device's first endpoint there, whatever   *)
(* its type; and the size transfers there are cut by.                       *)
FirstOwn(x) == Min({k \in Own : dev.list[k].dir = x})
Piped(x) ==
    LET e == dev.list[FirstOwn(x)]
        cut == epmaxpacket[x][e.number]
    IN  /\ e.number = ep_dir[x]
        /\ cut >= e.size
        /\ cut > e.size => cut \in SizesBefore(x, e.number)

(* When a device is ready and the controller refused nothing, each endpoint *)
(* of its first interface has a context with its type and size, or that of  *)
(* another setting of it; the controller was told what the device is, how   *)
(* far its contexts go and of no endpoint but the device's; its service     *)
(* interval is not longer than what it asked for.                           *)
(* A device with one interface has the first of its own endpoints of each   *)
(* direction in the pipes, and their size is the one transfers are cut by,  *)
(* unless a device before had a larger one at that number.  No type is      *)
(* looked at: bulk transfers go to a bulk endpoint if that is the one the   *)
(* device lists first, as a disk does that has no other.                    *)
EndpointsFit ==
    pc = "ready" =>
        /\ out_slot.speed = dev.speed
        /\ ~refused => out_slot.hub = dev.hub /\ \A k \in Own : Taken(k)
        /\ ContextsOwn
        /\ dev.interfaces = 1 /\ ~dev.hub => \A x \in Dirs : Piped(x)

Settled == pc = "ready"

Settles == <>Settled
=============================================================================
