------------------------------ MODULE RootHub ------------------------------
(***************************************************************************)
(* The root ports of the xHCI controller (usb_init, port_test, submit_root  *)
(* and handshake of usb/xhci_usb.c).  usb_init halts and resets the         *)
(* controller, gives it its memory and starts it; port_test then asks each  *)
(* root port as if it were a hub's, and submit_root does what a hub would   *)
(* do with PORTSC.  That register is shared with the controller: some bits  *)
(* are cleared by writing a one, and writing a one to "enabled" disables    *)
(* the port, so what is read must not be written back as it is.             *)
(***************************************************************************)
EXTENDS Integers

CONSTANTS
    Forced,         \* Q645, SP7350: port 2 is not to be used
    RootPorts,      \* Hub_NbrPorts_root
    PortPower,      \* whether the controller switches the power of its ports
    Speeds,         \* of the devices there may be, a subset of AllSpeeds
    PortTries,      \* 5 in port_test
    MaxPlugs,       \* bound on devices plugged in or out on the way
    FollowLate      \* bound: whether ports are asked after a late handshake

AllSpeeds == {"full", "low", "high", "super"}
Ports == 1 .. RootPorts

RootHubAssumption ==
    /\ RootPorts \in Nat \ {0} /\ Forced \in BOOLEAN /\ PortPower \in BOOLEAN /\ Speeds \subseteq AllSpeeds
    /\ PortTries \in Nat \ {0} /\ MaxPlugs \in Nat /\ FollowLate \in BOOLEAN

VARIABLES
    plugged,    \* what is in each port, "none" or a speed
    hc,         \* the controller: "running", "halting", "halted",
                \* "resetting", "notready", "starting"
    memory,     \* what it has of the driver: "other", "none", "slots", "all"
    portsc,     \* portregs[]
    pc, at,     \* the place in the code; where in a request
    port, tries,\* i, val_64
    reg,        \* reg of submit_root
    speed,      \* udev.speed
    late,       \* history: a handshake gave up, the driver went on
    gone,       \* history: the device left when the port had been taken
    plugs

vars == <<plugged, hc, memory, portsc, pc, at, port, tries, reg, speed, late, gone, plugs>>

(* PORT_PE, PORT_RESET, PORT_POWER, DEV_SPEED_MASK, PORT_CSC, PORT_RC.      *)
Portsc == [ccs : BOOLEAN, pe : BOOLEAN, pr : BOOLEAN, pp : BOOLEAN, speed : Speeds \cup {"none"},
           csc : BOOLEAN, prc : BOOLEAN]
PortOff == [ccs |-> FALSE, pe |-> FALSE, pr |-> FALSE, pp |-> ~PortPower, speed |-> "none", csc |-> FALSE, prc |-> FALSE]

(* A reset of the controller leaves the changes (they are "sticky").        *)
AfterReset(v) == [PortOff EXCEPT !.csc = v.csc, !.prc = v.prc]

(* The boot ROM may have used the controller, and reset what is plugged in. *)
Init ==
    /\ plugged \in [Ports -> Speeds \cup {"none"}]
    /\ hc \in {"running", "halted"} /\ memory = "other"
    /\ portsc = [p \in Ports |-> [PortOff EXCEPT !.prc = plugged[p] # "none"]]
    /\ pc = "halt" /\ at = "read" /\ port = 1 /\ tries = 0
    /\ reg = PortOff /\ speed = "none"
    /\ late = FALSE /\ gone = FALSE /\ plugs = 0

-----------------------------------------------------------------------------
(* Setting the controller up.                                               *)

OfPorts == <<portsc, at, port, tries, reg, speed, gone>>
OfWorld == <<plugged, plugs>>

Goto(place) == pc' = place
Command(from, h, to) ==
    pc = from /\ Goto(to) /\ hc' = h /\ UNCHANGED <<memory, late, OfPorts, OfWorld>>

Halt == Command("halt", IF hc = "running" THEN "halting" ELSE hc, "wait_halt")
Reset == Command("reset", IF hc = "halted" THEN "resetting" ELSE hc, "wait_reset")
Run == Command("run", IF hc = "halted" THEN "starting" ELSE hc, "wait_run")

(* handshake: it returns nothing, and the caller goes on when the time is   *)
(* over or the register reads as all ones.                                  *)
Handshake(from, done, to) ==
    /\ pc = from /\ Goto(to)
    /\ late' \in (IF done THEN {late} ELSE {TRUE})
    /\ UNCHANGED <<hc, memory, OfPorts, OfWorld>>

WaitHalt == Handshake("wait_halt", hc = "halted", "reset")
WaitReset == Handshake("wait_reset", hc # "resetting", "wait_ready")
WaitReady == Handshake("wait_ready", hc # "notready", "slots")
WaitRun == Handshake("wait_run", hc = "running", "power")

(* or_config, then xhci_mem_init.  A controller that is not halted takes    *)
(* no new memory.                                                           *)
Give(from, what, to) ==
    /\ pc = from /\ Goto(to)
    /\ memory' = IF hc = "halted" THEN what ELSE memory
    /\ UNCHANGED <<hc, late, OfPorts, OfWorld>>

Slots == Give("slots", "slots", "mem_init")
MemInit == Give("mem_init", IF memory = "slots" THEN "all" ELSE memory, IF Forced THEN "force" ELSE "run")

-----------------------------------------------------------------------------
(* PORTSC, and the requests submit_root serves.                             *)

(* What the controller does with a value written.                           *)
Written(old, v) ==
    IF PortPower /\ ~v.pp THEN PortOff
    ELSE [old EXCEPT !.pp = TRUE,
                     !.pr = @ \/ (v.pr /\ old.ccs),
                     !.pe = @ /\ ~v.pe /\ ~(v.pr /\ old.ccs),
                     !.csc = @ /\ ~v.csc,
                     !.prc = @ /\ ~v.prc]

AsRead(v) == v

(* XHCI_PORT_RO and XHCI_PORT_RWS.                                          *)
Neutral(v) == [v EXCEPT !.pe = FALSE, !.pr = FALSE, !.csc = FALSE, !.prc = FALSE]

OfSetUp == <<hc, memory, late>>

ReadPort(v) ==
    /\ at = "read" /\ at' = "write" /\ reg' = v
    /\ UNCHANGED <<pc, portsc, port, tries, speed, gone, OfSetUp, OfWorld>>

Write(p, v) == portsc' = [portsc EXCEPT ![p] = Written(@, v)]

(* or_portsc |= 2 on port 2, without the mask.                              *)
Force ==
    /\ pc = "force"
    /\ IF 2 \notin Ports
       THEN Goto("run") /\ UNCHANGED <<OfPorts, OfSetUp, OfWorld>>
       ELSE \/ ReadPort(portsc[2])
            \/ /\ at = "write" /\ at' = "read" /\ Write(2, [reg EXCEPT !.pe = TRUE]) /\ Goto("run")
               /\ UNCHANGED <<port, tries, reg, speed, gone, OfSetUp, OfWorld>>

SetFeature(bit) ==
    \/ ReadPort(Neutral(portsc[port]))
    \/ /\ at = "write" /\ at' = "read" /\ Write(port, [reg EXCEPT ![bit] = TRUE])
       /\ UNCHANGED <<reg, speed, gone, OfSetUp, OfWorld>>

(* The bit is cleared by writing it, then the register is written again.    *)
ClearFeature(bit) ==
    \/ ReadPort(Neutral(portsc[port]))
    \/ /\ at = "write" /\ at' = "read"
       /\ portsc' = [portsc EXCEPT ![port] = Written(Written(@, [reg EXCEPT ![bit] = TRUE]), reg)]
       /\ UNCHANGED <<reg, gone, OfSetUp, OfWorld>>

(* The next root port, or "Root scan end".                                  *)
NextPort ==
    IF port < RootPorts THEN port' = port + 1 /\ Goto("status") ELSE Goto("no_device") /\ UNCHANGED port

Power ==
    /\ pc = "power" /\ (late => FollowLate) /\ SetFeature("pp")
    /\ \/ at = "read"
       \/ /\ at = "write" /\ UNCHANGED tries
          /\ IF port < RootPorts THEN port' = port + 1 /\ UNCHANGED pc ELSE port' = 1 /\ Goto("status")

Asked == UNCHANGED <<portsc, at, reg, gone, OfSetUp, OfWorld>>

(* port_test: nothing there and no change, or a reset to begin with.        *)
Status ==
    /\ pc = "status" /\ Asked /\ UNCHANGED <<tries, speed>>
    /\ LET s == portsc[port] IN
       IF ~s.ccs /\ ~s.csc THEN NextPort
       ELSE Goto(IF s.prc THEN "old_reset" ELSE "connection") /\ UNCHANGED port

ClearOldReset ==
    /\ pc = "old_reset" /\ ClearFeature("prc")
    /\ \/ at = "read"
       \/ at = "write" /\ Goto("connection") /\ UNCHANGED <<port, tries, speed>>

ClearConnection ==
    /\ pc = "connection" /\ ClearFeature("csc")
    /\ \/ at = "read"
       \/ at = "write" /\ Goto("reset_port") /\ tries' = 0 /\ UNCHANGED <<port, speed>>

ResetPort ==
    /\ pc = "reset_port" /\ SetFeature("pr")
    /\ \/ at = "read"
       \/ at = "write" /\ Goto("status_reset") /\ UNCHANGED <<port, tries>>

(* USB_PORT_STAT_HIGH_SPEED and up.                                         *)
Served(s) == s.speed \in {"high", "super"}

(* The reset is repeated until the port is enabled, PortTries + 1 times in  *)
(* all; a port that is enabled by the last of them is refused.              *)
StatusOfReset ==
    /\ pc = "status_reset" /\ Asked
    /\ LET s == portsc[port] IN
       \/ /\ s.pe /\ tries < PortTries /\ Served(s)
          /\ speed' = s.speed /\ Goto("new_reset") /\ UNCHANGED <<port, tries>>
       \/ /\ IF s.pe THEN tries = PortTries \/ ~Served(s) ELSE tries = PortTries
          /\ NextPort /\ UNCHANGED <<tries, speed>>
       \/ /\ ~s.pe /\ tries < PortTries /\ tries' = tries + 1
          /\ Goto("reset_port") /\ UNCHANGED <<port, speed>>

ClearNewReset ==
    /\ pc = "new_reset" /\ ClearFeature("prc")
    /\ \/ at = "read"
       \/ at = "write" /\ Goto("found") /\ UNCHANGED <<port, tries, speed>>

Driver ==
    \/ Halt \/ WaitHalt \/ Reset \/ WaitReset \/ WaitReady \/ Slots \/ MemInit \/ Force \/ Run \/ WaitRun
    \/ Power \/ Status \/ ClearOldReset \/ ClearConnection \/ ResetPort \/ StatusOfReset \/ ClearNewReset

-----------------------------------------------------------------------------
(* The controller and what is plugged into it.                              *)

OfDriver == <<pc, at, port, tries, reg, speed, late>>

Controller ==
    /\ hc' = CASE hc = "halting" -> "halted" [] hc = "resetting" -> "notready"
               [] hc = "notready" -> "halted" [] hc = "starting" -> "running" [] OTHER -> hc
    /\ hc' # hc
    /\ memory' = IF hc = "resetting" THEN "none" ELSE memory
    /\ portsc' = IF hc = "resetting" THEN [p \in Ports |-> AfterReset(portsc[p])] ELSE portsc
    /\ UNCHANGED <<OfDriver, OfWorld, gone>>

(* A port with power sees what is plugged in; a device of USB 3 enables it. *)
Detect(p) ==
    /\ portsc[p].pp /\ ~portsc[p].ccs /\ plugged[p] # "none"
    /\ LET super == plugged[p] = "super" IN
       portsc' = [portsc EXCEPT ![p].ccs = TRUE, ![p].csc = TRUE, ![p].pe = super,
                                ![p].speed = IF super THEN "super" ELSE "none"]
    /\ UNCHANGED <<OfDriver, OfWorld, OfSetUp, gone>>

(* A reset ends: the speed is known, the port enabled or not.               *)
ResetEnds(p) ==
    /\ portsc[p].pr
    /\ \E ok \in BOOLEAN :
          portsc' = [portsc EXCEPT ![p].pr = FALSE, ![p].prc = TRUE, ![p].pe = ok,
                                   ![p].speed = IF ok THEN plugged[p] ELSE @]
    /\ UNCHANGED <<OfDriver, OfWorld, OfSetUp, gone>>

(* Somebody plugs a device in or out while the ports are asked.             *)
Plug(p) ==
    /\ hc = "running" /\ plugs < MaxPlugs /\ plugs' = plugs + 1
    /\ \E d \in Speeds \cup {"none"} :
          /\ (plugged[p] = "none") # (d = "none")
          /\ plugged' = [plugged EXCEPT ![p] = d]
    /\ portsc' = [portsc EXCEPT ![p] =
          IF @.ccs THEN [@ EXCEPT !.ccs = FALSE, !.pe = FALSE, !.pr = FALSE, !.speed = "none", !.csc = TRUE] ELSE @]
    /\ gone' = (gone \/ (p = port /\ pc \in {"new_reset", "found"}))
    /\ UNCHANGED <<OfDriver, OfSetUp>>

Next == Driver \/ Controller \/ \E p \in Ports : Detect(p) \/ ResetEnds(p) \/ Plug(p)

(* Every wait of the driver ends by its count.                              *)
Spec == Init /\ [][Next]_vars /\ WF_vars(Driver)

-----------------------------------------------------------------------------
(* Properties                                                               *)

TypeOK ==
    /\ plugged \in [Ports -> Speeds \cup {"none"}]
    /\ hc \in {"running", "halting", "halted", "resetting", "notready", "starting"}
    /\ memory \in {"other", "none", "slots", "all"} /\ portsc \in [Ports -> Portsc]
    /\ pc \in {"halt", "wait_halt", "reset", "wait_reset", "wait_ready", "slots", "mem_init", "force", "run",
               "wait_run", "power", "status", "old_reset", "connection", "reset_port", "status_reset",
               "new_reset", "found", "no_device"}
    /\ at \in {"read", "write"} /\ port \in Ports /\ tries \in 0 .. PortTries
    /\ reg \in Portsc /\ speed \in Speeds \cup {"none"}
    /\ late \in BOOLEAN /\ gone \in BOOLEAN /\ plugs \in 0 .. MaxPlugs

(* The controller is reset when it has halted and runs with the memory the  *)
(* driver gave it when the reset was over, as long as no handshake gives    *)
(* up.                                                                      *)
SetUpKept ==
    /\ hc \in {"starting", "running"} /\ pc \notin {"halt", "wait_halt"} /\ ~late => memory = "all"
    /\ pc \in {"wait_reset", "wait_ready"} => hc # "running" \/ late

(* A port the driver takes belongs to a controller so set up, has a device  *)
(* that is still there, is enabled, the driver has its speed and the change *)
(* of its reset is cleared: nothing submit_root writes to PORTSC disables   *)
(* the port or clears more than it should (but when the device leaves after *)
(* the last look at it).                                                    *)
PortReady ==
    /\ SetUpKept
    /\ pc = "found" /\ ~gone /\ ~late =>
        LET s == portsc[port] IN
        s.ccs /\ s.pe /\ ~s.pr /\ ~s.prc /\ s.speed = speed /\ plugged[port] = speed

(* The scan of the root ports ends.                                         *)
Settled == pc \in {"found", "no_device"} \/ (late /\ ~FollowLate)
=============================================================================
