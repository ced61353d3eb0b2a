----------------------------- MODULE EhciEnum -----------------------------
(***************************************************************************)
(* Enumeration by the USB 2 host driver (usb/ehci_usb.c): usb2_init powers  *)
(* the controller, finds what is at its port, and behind a hub tries port   *)
(* after port until it has a disk.  fat_boot calls it again with the port   *)
(* to go on with, when the disk has no boot file.                           *)
(*                                                                          *)
(* Every request is sent to EHCI_addr.  A request no device answers, or     *)
(* that fails, ends in boot_reset(), as does a unit that is not ready; when *)
(* several devices have an address, any of them may answer.                 *)
(***************************************************************************)
EXTENDS Integers

CONSTANTS
    NumberOfPorts,  \* of the hub
    Tries,          \* status polls of a port in reset (100)
    Retries         \* "not HS, retry", a bound

Root == 0
Ports == 1 .. NumberOfPorts
Things == {"none", "slow", "disk", "other"}
DeviceAddress == 2
NoAddress == -1

EhciEnumAssumption == NumberOfPorts \in Nat \ {0} /\ Tries \in Nat \ {0} /\ Retries \in Nat

VARIABLES
    pc,
    at,         \* by port, what is there; at[Root] may be a hub
    addr,       \* by port, the address of what is there
    powered,    \* ports of the hub with power
    late,       \* ports whose device may show up at a later look only, fixed
    is_hub, port_num, next_port_in_hub,
    EHCI_addr,
    dct,        \* dev_dct_cnt of a port in reset
    ret,        \* of usb2_init
    got,        \* history: ports whose disk was handed on
    again,      \* "not HS, retry" so far
    outlasted   \* history: ports in reset for longer than the driver waits

scan == <<is_hub, port_num, next_port_in_hub, dct>>
vars == <<pc, at, addr, powered, late, scan, EHCI_addr, ret, got, again, outlasted>>

Init ==
    /\ at \in {f \in [{Root} \cup Ports -> Things \cup {"hub"}] :
                 /\ \A p \in Ports : f[p] # "hub"
                 /\ f[Root] # "hub" => \A p \in Ports : f[p] = "none"}
    /\ late \in SUBSET {p \in Ports : at[p] # "none"}
    /\ pc = "power" /\ addr = [p \in {Root} \cup Ports |-> NoAddress] /\ powered = {}
    /\ is_hub = 0 /\ port_num = 0 /\ next_port_in_hub = 0 /\ dct = 0
    /\ EHCI_addr = 0 /\ ret = 0 /\ got = {} /\ again = 0 /\ outlasted = {}

-----------------------------------------------------------------------------
(* The controller's own port                                                *)

(* u2phy_init, usb2_power_init and the reset of the controller; what is     *)
(* below loses its address.                                                 *)
Power ==
    /\ pc = "power" /\ pc' = "detect"
    /\ addr' = [p \in DOMAIN addr |-> NoAddress] /\ powered' = {}
    /\ UNCHANGED <<at, late, scan, EHCI_addr, ret, got, again, outlasted>>

Return(r) == ret' = r /\ pc' = "return"

(* No device within 2.5 s: -1.                                              *)
NoDevice ==
    /\ pc = "detect" /\ at[Root] = "none"
    /\ Return(-1)
    /\ UNCHANGED <<at, addr, powered, late, scan, EHCI_addr, got, again, outlasted>>

(* The port reset; only a device of high speed enables the port.            *)
Detected ==
    /\ pc = "detect" /\ at[Root] \notin {"none", "slow"}
    /\ addr' = [addr EXCEPT ![Root] = 0]
    /\ EHCI_addr' = 0 /\ pc' = "root"
    /\ UNCHANGED <<at, powered, late, scan, ret, got, again, outlasted>>

(* "not HS, retry": a device of full speed, or one that enables the port    *)
(* too late, is tried again from the start.                                 *)
NotHighSpeed ==
    /\ pc = "detect" /\ at[Root] # "none" /\ again < Retries
    /\ again' = again + 1 /\ pc' = "power"
    /\ UNCHANGED <<at, addr, powered, late, scan, EHCI_addr, ret, got, outlasted>>

-----------------------------------------------------------------------------
(* Requests                                                                 *)

Answers == {p \in DOMAIN addr : addr[p] = EHCI_addr}

(* USB2_vendorCmd and USB_transfer: a device answers, or the chip resets.   *)
HubAnswers == \E p \in Answers : at[p] = "hub"

BootReset ==
    /\ pc \notin {"power", "detect", "return", "reset", "over"}
    /\ pc' = "reset"
    /\ UNCHANGED <<at, addr, powered, late, scan, EHCI_addr, ret, got, again, outlasted>>

(* Set address, device and configuration descriptor of the root device.     *)
SetRootAddress ==
    /\ pc = "root"
    /\ EHCI_addr' = DeviceAddress
    /\ \E p \in Answers :
         /\ addr' = [addr EXCEPT ![p] = DeviceAddress]
         /\ \/ at[p] = "disk" /\ pc' = "storage" /\ is_hub' = 0 /\ UNCHANGED ret
            \/ at[p] = "hub" /\ pc' = "hub" /\ is_hub' = 1 /\ UNCHANGED ret
            \/ at[p] \notin {"disk", "hub"} /\ Return(-1) /\ is_hub' = 0
    /\ UNCHANGED <<at, powered, late, port_num, next_port_in_hub, dct, got, again, outlasted>>

(* Set the hub's configuration and power all its ports.                     *)
PowerPorts ==
    /\ pc = "hub" /\ HubAnswers
    /\ powered' = Ports /\ port_num' = 1 /\ pc' = "first"
    /\ UNCHANGED <<at, addr, late, is_hub, next_port_in_hub, dct, EHCI_addr, ret, got, again, outlasted>>

Seen(p) == IF p \in powered /\ at[p] # "none" THEN {TRUE, p \notin late} ELSE {FALSE}

(* The first look at the ports.  When nothing is seen the remote wake-up    *)
(* of the hub is set and cleared and the ports are looked at once more.     *)
FirstLook ==
    /\ pc = "first" /\ HubAnswers
    /\ \/ port_num > NumberOfPorts /\ pc' = "scan" /\ port_num' = 1
       \/ /\ port_num <= NumberOfPorts
          /\ \E seen \in Seen(port_num) :
               /\ pc' = IF seen THEN "connection" ELSE "first"
               /\ port_num' = IF seen THEN port_num ELSE port_num + 1
    /\ UNCHANGED <<at, addr, powered, late, is_hub, next_port_in_hub, dct, EHCI_addr, ret, got, again, outlasted>>

(* scan_device_on_port: the next port with a device.                        *)
Scan ==
    /\ pc = "scan" /\ port_num <= NumberOfPorts /\ HubAnswers
    /\ \E seen \in Seen(port_num) :
         /\ pc' = IF seen THEN "connection" ELSE "scan"
         /\ port_num' = IF seen THEN port_num ELSE port_num + 1
    /\ UNCHANGED <<at, addr, powered, late, is_hub, next_port_in_hub, dct, EHCI_addr, ret, got, again, outlasted>>

(* "No usb mass storage devices on ports of the hub"                        *)
NoMorePorts ==
    /\ pc = "scan" /\ port_num > NumberOfPorts
    /\ Return(-1)
    /\ UNCHANGED <<at, addr, powered, late, scan, EHCI_addr, got, again, outlasted>>

(* found_device_on_port: clear its change bit and reset it.                 *)
ResetPort ==
    /\ pc = "connection" /\ HubAnswers
    /\ addr' = [addr EXCEPT ![port_num] = NoAddress]
    /\ dct' = 0 /\ pc' = "resetting"
    /\ UNCHANGED <<at, powered, late, is_hub, port_num, next_port_in_hub, EHCI_addr, ret, got, again, outlasted>>

InReset(p) == (pc = "resetting" /\ p = port_num) \/ p \in outlasted

(* The hub ends the reset of a port, maybe when the driver is at another    *)
(* one already.                                                             *)
PortEnabled ==
    /\ pc \notin {"reset", "over"}
    /\ \E p \in Ports :
         /\ InReset(p) /\ addr[p] = NoAddress /\ at[p] # "slow"
         /\ addr' = [addr EXCEPT ![p] = 0]
    /\ UNCHANGED <<pc, at, powered, late, scan, EHCI_addr, ret, got, again, outlasted>>

(* The driver polls it, up to a limit that does not keep it from going on.  *)
PollReset ==
    /\ pc = "resetting" /\ HubAnswers
    /\ \E done \in IF at[port_num] = "slow" THEN BOOLEAN ELSE {addr[port_num] = 0} :
         IF done \/ dct = Tries
         THEN /\ pc' = "speed" /\ UNCHANGED dct
              /\ outlasted' = outlasted \cup IF done THEN {} ELSE {port_num}
         ELSE pc' = "resetting" /\ dct' = dct + 1 /\ UNCHANGED outlasted
    /\ UNCHANGED <<at, addr, powered, late, is_hub, port_num, next_port_in_hub, EHCI_addr, ret, got, again>>

(* The speed bits of a port mean nothing while it is in reset.              *)
SlowRead(p) == IF p \in outlasted /\ addr[p] = NoAddress THEN BOOLEAN ELSE {at[p] = "slow"}

(* Clear C_PORT_RESET, look at the speed, pass over low and full speed.     *)
CheckSpeed ==
    /\ pc = "speed" /\ HubAnswers
    /\ \E slow \in SlowRead(port_num) :
         IF slow THEN pc' = "scan" /\ port_num' = port_num + 1 /\ UNCHANGED EHCI_addr
         ELSE pc' = "default" /\ EHCI_addr' = 0 /\ UNCHANGED port_num
    /\ UNCHANGED <<at, addr, powered, late, is_hub, next_port_in_hub, dct, ret, got, again, outlasted>>

(* Mutant: every device gets the address of the one before.                 *)
NewAddressSame(p) == DeviceAddress
NewAddress(p) == DeviceAddress + p

(* Every device that still has address 0 takes the new one.                 *)
SetAddress ==
    /\ pc = "default" /\ Answers # {}
    /\ addr' = [p \in DOMAIN addr |-> IF p \in Answers THEN NewAddress(port_num) ELSE addr[p]]
    /\ EHCI_addr' = NewAddress(port_num) /\ pc' = "class"
    /\ UNCHANGED <<at, powered, late, scan, ret, got, again, outlasted>>

(* Mutant: the requests that follow go to the device still.                 *)
BackToHubForgotten == EHCI_addr
BackToHub == DeviceAddress

(* "not usb mass storage device"                                            *)
CheckClass ==
    /\ pc = "class"
    /\ \E p \in Answers :
         IF at[p] = "disk" THEN pc' = "storage" /\ UNCHANGED <<port_num, EHCI_addr>>
         ELSE pc' = "scan" /\ port_num' = port_num + 1 /\ EHCI_addr' = BackToHub
    /\ UNCHANGED <<at, addr, powered, late, is_hub, next_port_in_hub, dct, ret, got, again, outlasted>>

(* Mutant: the port after the next.                                         *)
NextPortTwice == port_num + 2
NextPort == port_num + 1

(* Endpoints, configuration, five times TEST UNIT READY, of which the last  *)
(* counts.                                                                  *)
Storage ==
    /\ pc = "storage"
    /\ \E p \in Answers : at[p] = "disk" /\ got' = got \cup {p}
    /\ IF is_hub = 1 THEN port_num' = NextPort /\ Return(NextPort)
       ELSE Return(0) /\ UNCHANGED port_num
    /\ UNCHANGED <<at, addr, powered, late, is_hub, next_port_in_hub, dct, EHCI_addr, again, outlasted>>

(* fat_boot: no boot file on it, and there may be more ports.  The jump to  *)
(* data_structure_init passes over the initialisers of pCfg, pDev, pHub and *)
(* pPortsts.  Each of them is assigned nowhere else, and compiled with -Os  *)
(* (Makefile) they are the address of USB2_dataBuf on this path, too: that  *)
(* is assumed here.                                                         *)
CallAgain ==
    /\ pc = "return" /\ ret > 0
    /\ next_port_in_hub' = ret /\ port_num' = ret /\ is_hub' = 1
    /\ EHCI_addr' = DeviceAddress /\ pc' = "scan"
    /\ UNCHANGED <<at, addr, powered, late, dct, ret, got, again, outlasted>>

Stop ==
    \/ pc = "return" /\ pc' = "over"
       /\ UNCHANGED <<at, addr, powered, late, scan, EHCI_addr, ret, got, again, outlasted>>
    \/ (pc \in {"reset", "over"} \/ (pc = "detect" /\ again = Retries)) /\ UNCHANGED vars

Hub == PowerPorts \/ FirstLook \/ Scan \/ NoMorePorts \/ ResetPort \/ PollReset \/ CheckSpeed
       \/ SetAddress \/ CheckClass
Driver == Power \/ NoDevice \/ Detected \/ NotHighSpeed \/ SetRootAddress \/ Hub \/ Storage \/ CallAgain

(* A request to no device can only fail.                                    *)
Next == Driver \/ PortEnabled \/ BootReset \/ Stop

Spec == Init /\ [][Next]_vars /\ WF_vars(Driver \/ BootReset)

-----------------------------------------------------------------------------
(* Properties                                                               *)

TypeOK ==
    /\ pc \in {"power", "detect", "root", "hub", "first", "scan", "connection", "resetting", "speed",
               "default", "class", "storage", "return", "reset", "over"}
    /\ at \in [{Root} \cup Ports -> Things \cup {"hub"}]
    /\ addr \in [{Root} \cup Ports -> {NoAddress, 0} \cup (DeviceAddress .. DeviceAddress + NumberOfPorts)]
    /\ powered \subseteq Ports /\ late \subseteq Ports /\ is_hub \in {0, 1}
    /\ port_num \in 0 .. NumberOfPorts + 1 /\ next_port_in_hub \in 0 .. NumberOfPorts + 1
    /\ EHCI_addr \in {0} \cup (DeviceAddress .. DeviceAddress + NumberOfPorts)
    /\ dct \in 0 .. Tries /\ ret \in -1 .. NumberOfPorts + 1
    /\ got \subseteq {Root} \cup Ports /\ again \in 0 .. Retries /\ outlasted \subseteq Ports

(* No device ever has the hub's address, although the hub, the disks given  *)
(* up and the ones behind the next ports all keep theirs; and no two have   *)
(* the same address, unless the reset of one took longer than the driver    *)
(* waits: it comes to address 0 when another is spoken to there.            *)
AddressesUnique ==
    \A p, q \in DOMAIN addr : p # q /\ addr[p] # NoAddress /\ addr[p] = addr[q] =>
        Root \notin {p, q} /\ {p, q} \cap outlasted # {}

(* What is meant for the hub is sent to the hub.                            *)
AsksTheHub ==
    pc \in {"hub", "first", "scan", "connection", "resetting", "speed"} /\ port_num <= NumberOfPorts =>
        EHCI_addr = addr[Root] /\ at[Root] = "hub"

(* usb2_init returns -1 only when every disk of high speed that was seen    *)
(* has been handed on, up to the first port whose reset took longer than    *)
(* the driver waits: such a disk may read as one of full speed, and then    *)
(* answer in the place of the next one.                                     *)
NoDiskMissed ==
    pc = "return" /\ ret = -1 =>
        \A p \in DOMAIN at : at[p] = "disk" => p \in got \cup late \/ \E q \in outlasted : q <= p

Settled == pc \in {"return", "reset", "over"} \/ again = Retries

(* The driver ends or resets the chip, but for a device of full speed at    *)
(* its port.                                                                *)
Settles == <>Settled
=============================================================================
