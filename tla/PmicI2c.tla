------------------------------ MODULE PmicI2c ------------------------------
(***************************************************************************)
(* The core voltage of the SP7350 (init_hw in xboot.c over i2c/sp_i2c.c):   *)
(* the id of the chip at the I2C bus is read, and if it is that of an       *)
(* RT5759, its register for the voltage is set.  Three transfers, none of   *)
(* which has a result: sp_i2c_write and sp_i2c_read return nothing, and     *)
(* they go by polls.  A controller that has not begun after 33 polls counts *)
(* as done, and is switched off with what it has to send.                   *)
(*                                                                          *)
(* The controller and the chip are not in this repository.  The controller  *)
(* takes from its FIFO what to send, drops all of it if the chip does not   *)
(* acknowledge, and drops it as well when it is switched off.               *)
(***************************************************************************)
EXTENDS Integers, Sequences, SequencesExt

CONSTANTS
    Chips,          \* what may be at the bus, a subset of AllChips
    Pointers,       \* the register the chip may have been left at
    MaxNacks        \* bound on bytes a chip does not acknowledge

AllChips == {"RT5759", "another", "none"}

PmicI2cAssumption == Chips \subseteq AllChips /\ Pointers \subseteq {0, 2} /\ MaxNacks \in Nat

ID == 130           \* 0x82
VID == 20           \* 0x14
READ_TX == 256      \* I2C_READ_TX_DATA

VARIABLES
    chip,       \* fixed: the chip
    pc, job,    \* the place in a transfer, and the transfer: "point", "id", "set"
    buf,        \* buf[2]
    todo,       \* ReadTxlen
    fifo, rx,   \* the controller's FIFOs
    bus,        \* "off", "idle", "address", "data", "shift"
    shift,      \* what is on the bus
    abrt,       \* SP_IC_INTR_TX_ABRT
    pointer,    \* the chip's register in use,
    told,       \* and whether this transfer has told it
    regs,       \* the chip's registers
    nacks, hasty    \* history: bytes not acknowledged; a transfer given up

driver == <<pc, job, buf, todo>>
controller == <<fifo, rx, bus, shift, abrt>>
device == <<pointer, told, regs, nacks>>
vars == <<chip, driver, controller, device, hasty>>

Init ==
    /\ chip \in Chips /\ pc = "start" /\ job = "point"
    /\ buf = <<0, 0>> /\ todo = 0
    /\ fifo = <<>> /\ rx = <<>> /\ bus = "off" /\ shift = 0 /\ abrt = FALSE
    /\ pointer \in Pointers /\ told = FALSE
    /\ regs = [r \in {0, 2} |-> IF r = 0 /\ chip = "RT5759" THEN ID ELSE 0]
    /\ nacks = 0 /\ hasty = FALSE

-----------------------------------------------------------------------------
(* The driver                                                               *)

Bytes == CASE job = "point" -> <<buf[1]>> [] job = "id" -> <<READ_TX>> [] job = "set" -> buf

Start ==
    /\ pc = "start" /\ pc' = "fill"
    /\ bus' = "idle" /\ abrt' = FALSE /\ todo' = Len(Bytes)
    /\ UNCHANGED <<chip, job, buf, fifo, rx, shift, device, hasty>>

(* All of it fits into the FIFO.                                            *)
Fill ==
    /\ pc = "fill" /\ pc' = "await"
    /\ fifo' = Bytes
    /\ UNCHANGED <<chip, job, buf, todo, rx, bus, shift, abrt, device, hasty>>

Active == bus \in {"address", "data", "shift"}
Unsent == fifo # <<>> \/ Active
Begun == pc = "await" /\ Active

Await ==
    /\ Begun /\ pc' = "look"
    /\ UNCHANGED <<chip, job, buf, todo, controller, device, hasty>>

(* 33 polls have shown nothing.                                             *)
AwaitEnds ==
    /\ pc = "await" /\ ~Active /\ pc' = "look"
    /\ hasty' = (hasty \/ Unsent)
    /\ UNCHANGED <<chip, job, buf, todo, controller, device>>

(* A byte received goes to buf[DataIndex].                                  *)
Take ==
    IF rx = <<>> THEN UNCHANGED <<buf, rx, todo>>
    ELSE buf' = [buf EXCEPT ![1] = Head(rx)] /\ rx' = Tail(rx) /\ todo' = todo - 1

(* The check for an abort, which takes its interrupt away.                  *)
Look ==
    /\ pc = "look"
    /\ (IF job = "id" THEN Take ELSE UNCHANGED <<buf, rx, todo>>)
    /\ abrt' = FALSE
    /\ pc' = IF abrt THEN "disable" ELSE "finish"
    /\ UNCHANGED <<chip, job, fifo, bus, shift, device, hasty>>

(* sp_i2c_write looks whether the controller is at work, then for an abort. *)
FinishWrite ==
    /\ pc = "finish" /\ job # "id" /\ (~Active \/ abrt)
    /\ abrt' = (abrt /\ ~Active)
    /\ pc' = "disable"
    /\ UNCHANGED <<chip, job, buf, todo, fifo, rx, bus, shift, device, hasty>>

(* sp_i2c_read looks for an abort, then whether all requests are sent.      *)
FinishRead ==
    /\ pc = "finish" /\ job = "id" /\ (abrt \/ fifo = <<>>)
    /\ abrt' = FALSE
    /\ pc' = IF abrt THEN "disable" ELSE "collect"
    /\ UNCHANGED <<chip, job, buf, todo, fifo, rx, bus, shift, device, hasty>>

Collect ==
    /\ pc = "collect" /\ todo > 0 /\ (abrt \/ rx # <<>>)
    /\ abrt' = FALSE
    /\ (IF abrt THEN pc' = "disable" /\ UNCHANGED <<buf, rx, todo>> ELSE Take /\ UNCHANGED pc)
    /\ UNCHANGED <<chip, job, fifo, bus, shift, device, hasty>>

(* 320 polls have shown an empty FIFO and no byte.                          *)
CollectEnds ==
    /\ pc = "collect" /\ (todo = 0 \/ rx = <<>>)
    /\ hasty' = (hasty \/ todo > 0) /\ pc' = "disable"
    /\ UNCHANGED <<chip, job, buf, todo, controller, device>>

AnyChip == TRUE
IsRT5759 == buf[1] = ID

(* ic_enable = 0, and what init_hw does next.                               *)
Disable ==
    /\ pc = "disable"
    /\ bus' = "off" /\ fifo' = <<>> /\ rx' = <<>> /\ shift' = 0 /\ abrt' = FALSE
    /\ CASE job = "point" -> job' = "id" /\ pc' = "start" /\ UNCHANGED buf
         [] job = "id" /\ IsRT5759 -> job' = "set" /\ pc' = "start" /\ buf' = <<2, VID>>
         [] OTHER -> pc' = "over" /\ UNCHANGED <<job, buf>>
    /\ UNCHANGED <<chip, todo, device, hasty>>

-----------------------------------------------------------------------------
(* The controller and the chip                                              *)

Begin ==
    /\ bus = "idle" /\ fifo # <<>> /\ bus' = "address"
    /\ UNCHANGED <<chip, driver, fifo, rx, shift, abrt, device, hasty>>

Nack ==
    /\ bus \in {"address", "shift"} /\ shift # READ_TX
    /\ (chip # "none" => nacks < MaxNacks) /\ nacks' = IF chip = "none" THEN nacks ELSE nacks + 1
    /\ bus' = "idle" /\ fifo' = <<>> /\ shift' = 0 /\ abrt' = TRUE
    /\ UNCHANGED <<chip, driver, rx, pointer, told, regs, hasty>>

Acknowledge ==
    /\ bus = "address" /\ chip # "none" /\ bus' = "data" /\ told' = FALSE
    /\ UNCHANGED <<chip, driver, fifo, rx, shift, abrt, pointer, regs, nacks, hasty>>

Send ==
    /\ bus = "data" /\ fifo # <<>>
    /\ shift' = Head(fifo) /\ fifo' = Tail(fifo) /\ bus' = "shift"
    /\ UNCHANGED <<chip, driver, rx, abrt, device, hasty>>

Sent ==
    /\ bus = "shift" /\ bus' = "data" /\ shift' = 0
    /\ CASE shift = READ_TX -> rx' = Append(rx, regs[pointer]) /\ UNCHANGED <<pointer, told, regs>>
         [] shift # READ_TX /\ ~told -> pointer' = shift /\ told' = TRUE /\ UNCHANGED <<rx, regs>>
         [] OTHER -> regs' = [regs EXCEPT ![pointer] = shift] /\ UNCHANGED <<rx, pointer, told>>
    /\ UNCHANGED <<chip, driver, fifo, abrt, nacks, hasty>>

Stop ==
    /\ bus = "data" /\ fifo = <<>> /\ bus' = "idle"
    /\ UNCHANGED <<chip, driver, fifo, rx, shift, abrt, device, hasty>>

-----------------------------------------------------------------------------
Driver ==
    \/ Start \/ Fill \/ Await \/ AwaitEnds \/ Look \/ FinishWrite
    \/ FinishRead \/ Collect \/ CollectEnds \/ Disable
Controller == Begin \/ Nack \/ Acknowledge \/ Send \/ Sent \/ Stop

Next == Driver \/ Controller

(* A chip that held the clock low for ever would keep the driver polling.   *)
Spec == Init /\ [][Next]_vars /\ WF_vars(Driver) /\ WF_vars(Controller)

-----------------------------------------------------------------------------
(* Properties                                                               *)

TypeOK ==
    /\ chip \in AllChips /\ job \in {"point", "id", "set"} /\ todo \in 0 .. 2
    /\ pc \in {"start", "fill", "await", "look", "finish", "collect", "disable", "over"}
    /\ \A b \in Range(buf) \cup Range(fifo) \cup Range(rx) \cup {shift} : b \in {0, 2, ID, VID, READ_TX}
    /\ bus \in {"off", "idle", "address", "data", "shift"} /\ abrt \in BOOLEAN
    /\ pointer \in {0, 2} /\ told \in BOOLEAN
    /\ \A r \in DOMAIN regs : regs[r] \in {0, 2, ID, VID}
    /\ nacks \in 0 .. MaxNacks /\ hasty \in BOOLEAN

(* The voltage of an RT5759 is set, unless the chip refused a byte or a     *)
(* wait was given up too early; whatever happens, it gets no other value,   *)
(* no other register and no other chip is written.                          *)
VoltageSet ==
    /\ regs[0] = (IF chip = "RT5759" THEN ID ELSE 0)
    /\ regs[2] \in (IF chip = "RT5759" THEN {0, VID} ELSE {0})
    /\ pc = "over" /\ chip = "RT5759" /\ nacks = 0 /\ ~hasty => regs[2] = VID

Settled == pc = "over"

Settles == <>Settled
=============================================================================
