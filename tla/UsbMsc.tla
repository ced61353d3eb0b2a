------------------------------ MODULE UsbMsc ------------------------------
(***************************************************************************)
(* Mass storage over xHCI (usb/xhci_usb.c): stor_BBB_transport sends a      *)
(* command, moves its data and reads the status, each with bulk_tx, for     *)
(* usb_storage (inquiry, test unit ready with request sense, capacity) and  *)
(* then for usb_readSector.                                                 *)
(*                                                                          *)
(* XhciRing has the rings.  Here an endpoint is a queue of transfers that   *)
(* the controller carries out in order, reading and writing memory when it  *)
(* comes to them, and the driver's wait takes the first transfer event      *)
(* there is.  So after an event too many (a wait that gave up, a short      *)
(* packet in a transfer of two TRBs) driver and controller are out of step. *)
(***************************************************************************)
EXTENDS Integers, Sequences

CONSTANTS
    MaxSkips,   \* foreign events a wait skips before it gives up (15)
    Retries,    \* of usb_test_unit_ready (10)
    Reads,      \* calls of usb_readSector
    Ports       \* port events, a bound

UsbMscAssumption ==
    MaxSkips \in Nat \ {0} /\ Retries \in Nat /\ Reads \in Nat /\ Ports \in Nat

VARIABLES
    pc,         \* "command", "wait" of bulk_tx, "clear" and "clear2" of
                \* ctrl_tx after a stall, "check", or an end
    phase,      \* of the transport: "out", "data", "status"
    job, left,  \* the command; retries or reads left
    tag,        \* CBWTag - 1: the tag of the current command
    act_len, data_actlent,
    skips,      \* timeout of wait_for_event
    mem,        \* "cb": reserved[32], the CBW and then the CSW;
                \* "cmd": cmd_buf; "dest": the buffer of usb_readSector
    queue,      \* by endpoint, the transfers not yet carried out
    events,     \* the event ring
    halted,     \* endpoints the controller has halted
    device,     \* the device: its phase, and the command it is at
    told,       \* history: what the device sent since the last command began
    slip,       \* history: it stalled, or events got out of step
    ports       \* port events so far

driver == <<pc, phase, job, left, tag, act_len, data_actlent, skips>>
bus == <<halted, device, told>>
vars == <<driver, mem, queue, events, bus, slip, ports>>

CbwSize == 31
CswSize == 13
Ends == {"done", "reset", "null"}
Waits == {"wait", "clear", "clear2"}

Length(j) == CASE j = "inquiry" -> 36 [] j = "test" -> 0 [] j = "sense" -> 18
               [] j = "capacity" -> 8 [] j = "read" -> 512
Target(j) == IF j = "read" THEN "dest" ELSE "cmd"

Blank == [kind |-> "zero", tag |-> 0, len |-> 0, ok |-> FALSE]
Cbw == [kind |-> "cbw", tag |-> tag', len |-> Length(job), ok |-> FALSE]
Csw(t, ok) == [kind |-> "csw", tag |-> t, len |-> CswSize, ok |-> ok]
Data(t, len) == [kind |-> "data", tag |-> t, len |-> len, ok |-> FALSE]

Init ==
    /\ pc = "command" /\ phase = "out" /\ job = "inquiry" /\ left = 0
    /\ tag = -1 /\ act_len = 0 /\ data_actlent = 0 /\ skips = 0
    /\ mem = [b \in {"cb", "cmd", "dest"} |-> Blank]
    /\ queue = [e \in {"ctl", "out", "in"} |-> <<>>]
    /\ events = <<>> /\ halted = {} /\ told = {} /\ slip = FALSE /\ ports = 0
    /\ device = [phase |-> "cbw", tag |-> 0, len |-> 0]

-----------------------------------------------------------------------------
(* The driver                                                               *)

Put(e, b, len, trbs) ==
    queue' = [queue EXCEPT ![e] = Append(@, [buf |-> b, len |-> len, trbs |-> trbs])]

Command ==
    /\ pc = "command"
    /\ tag' = tag + 1
    /\ mem' = [mem EXCEPT !["cmd"] = Blank, !["cb"] = Cbw]
    /\ Put("out", "cb", CbwSize, 1)
    /\ data_actlent' = 0 /\ pc' = "wait" /\ phase' = "out"
    /\ told' = {}
    /\ UNCHANGED <<job, left, act_len, skips, events, halted, device, slip, ports>>

(* A read whose buffer crosses 64 KB has a TRB for each part.               *)
DataPhase ==
    /\ \E trbs \in IF job = "read" THEN {1, 2} ELSE {1} :
         Put("in", Target(job), Length(job), trbs)
    /\ pc' = "wait" /\ phase' = "data" /\ UNCHANGED mem

StatusPhase ==
    /\ mem' = [mem EXCEPT !["cb"] = Blank]
    /\ Put("in", "cb", CswSize, 1)
    /\ pc' = "wait" /\ phase' = "status"

(* Mutant: there is always a data phase.                                    *)
HasDataAlways == TRUE
HasData == Length(job) > 0

(* What follows a phase of stor_BBB_transport.                              *)
After ==
    \/ phase = "out" /\ HasData /\ DataPhase
    \/ phase = "out" /\ ~HasData /\ StatusPhase
    \/ phase = "data" /\ StatusPhase
    \/ phase = "status" /\ pc' = "check" /\ UNCHANGED <<phase, mem, queue>>

(* wait_for_event: nothing there, an event of another type, and the limit.  *)
Poll == pc \in Waits /\ events = <<>> /\ UNCHANGED vars

Foreign ==
    /\ pc \in Waits /\ events # <<>> /\ Head(events).code = "port"
    /\ skips + 1 < MaxSkips
    /\ skips' = skips + 1 /\ events' = Tail(events)
    /\ UNCHANGED <<pc, phase, job, left, tag, act_len, data_actlent, mem, queue, bus, slip, ports>>

(* bulk_tx gives up without a word to the controller; act_len is still that *)
(* of the transfer before.  ctrl_tx goes on with the NULL it is returned.   *)
GiveUp ==
    /\ pc \in Waits /\ events # <<>> /\ Head(events).code = "port"
    /\ skips + 1 = MaxSkips
    /\ skips' = 0 /\ events' = Tail(events) /\ slip' = TRUE
    /\ IF pc = "wait" THEN After ELSE pc' = "null" /\ UNCHANGED <<phase, mem, queue>>
    /\ data_actlent' = IF phase = "data" THEN act_len ELSE data_actlent
    /\ UNCHANGED <<job, left, tag, act_len, bus, ports>>

Asked == CASE pc # "wait" -> 0 [] phase = "out" -> CbwSize
           [] phase = "data" -> Length(job) [] phase = "status" -> CswSize

(* A transfer event, whichever transfer it is of.  A stall (-6) is the only *)
(* result of bulk_tx looked at; ctrl_tx waits once more behind a short one. *)
Take ==
    /\ pc \in Waits /\ events # <<>> /\ Head(events).code # "port"
    /\ skips' = 0 /\ events' = Tail(events)
    /\ act_len' = IF pc = "clear2" THEN act_len ELSE Asked - Head(events).residue
    /\ data_actlent' = IF phase = "data" THEN act_len' ELSE data_actlent
    /\ CASE pc = "wait" /\ Head(events).code = "stall" ->
              /\ Put("ctl", "cmd", 0, 1) /\ mem' = [mem EXCEPT !["cmd"] = Blank]
              /\ pc' = "clear" /\ UNCHANGED phase
         [] pc = "clear" /\ Head(events).code = "short" ->
              pc' = "clear2" /\ UNCHANGED <<phase, mem, queue>>
         [] OTHER -> After
    /\ UNCHANGED <<job, left, tag, bus, slip, ports>>

(* The tests of stor_BBB_transport that let it return 0; the lengths are    *)
(* compared without a sign.                                                 *)
(* Mutant: the status of any command will do.                               *)
TagMatchesAny(csw) == TRUE
TagMatches(csw) == csw.tag = tag

(* Mutant: "failed" is taken for success.                                   *)
StatusAny(csw) == TRUE
Status(csw) == csw.ok

Accepts ==
    LET csw == mem["cb"]
    IN  csw.kind = "csw" /\ TagMatches(csw) /\ data_actlent \in 0 .. Length(job) /\ Status(csw)

(* "unit still not ready...", boot_reset()                                  *)
NotReady ==
    IF left > 0 THEN job' = "test" /\ left' = left - 1 /\ pc' = "command"
    ELSE pc' = "reset" /\ UNCHANGED <<job, left>>

Go(j, l) == job' = j /\ left' = l /\ pc' = "command"

(* The callers: usb_inquiry, usb_test_unit_ready, usb_read_capacity, then   *)
(* usb_readSector, which returns 0 whatever happened.                       *)
Check ==
    /\ pc = "check"
    /\ CASE job = "inquiry" -> Go("test", Retries)
         [] job = "test" -> IF Accepts THEN Go("capacity", 0) ELSE Go("sense", left)
         [] job = "sense" -> NotReady
         [] job = "capacity" -> IF Reads > 0 THEN Go("read", Reads)
                                ELSE pc' = "done" /\ UNCHANGED <<job, left>>
         [] job = "read" -> IF left > 1 THEN Go("read", left - 1)
                            ELSE pc' = "done" /\ UNCHANGED <<job, left>>
    /\ UNCHANGED <<phase, tag, act_len, data_actlent, skips, mem, queue, events, bus, slip, ports>>

-----------------------------------------------------------------------------
(* The controller and the device (bulk-only transport)                      *)

Complete(e, code, residue, n) ==
    /\ queue' = [queue EXCEPT ![e] = Tail(@)]
    /\ events' = events \o [k \in 1 .. n |-> [code |-> code, residue |-> residue]]

(* The CBW is what is in memory now.                                        *)
RunOut ==
    /\ queue["out"] # <<>> /\ device.phase = "cbw"
    /\ LET cb == mem["cb"]
       IN  device' = IF cb.kind # "cbw" THEN [device EXCEPT !.phase = "broken"]
                     ELSE [phase |-> IF cb.len > 0 THEN "data" ELSE "status",
                           tag |-> cb.tag, len |-> cb.len]
    /\ Complete("out", "ok", 0, 1)
    /\ UNCHANGED <<driver, mem, halted, told, slip, ports>>

In(p) == queue["in"] # <<>> /\ "in" \notin halted /\ device.phase = p

(* The device sends m, which is more than fits, all, or a short packet: an  *)
(* event for it, and one more for the last TRB if it was not in that one.   *)
(* Every short packet is modelled one byte short.                           *)
Send(m) ==
    LET t == Head(queue["in"])
    IN  /\ told' = told \cup {m}
        /\ IF m.len > t.len
           THEN halted' = {"in"} /\ Complete("in", "error", 0, 1) /\ UNCHANGED <<mem, slip>>
           ELSE /\ mem' = IF m.len > 0 THEN [mem EXCEPT ![t.buf] = m] ELSE mem
                /\ IF m.len = t.len THEN Complete("in", "ok", 0, 1) /\ UNCHANGED slip
                   ELSE \E k \in 1 .. t.trbs : /\ Complete("in", "short", t.len - m.len, k)
                                               /\ slip' = (slip \/ k > 1)
                /\ UNCHANGED halted

Stall == halted' = {"in"} /\ slip' = TRUE /\ Complete("in", "stall", 0, 1) /\ UNCHANGED <<mem, told>>

RunData ==
    /\ In("data")
    /\ device' = [device EXCEPT !.phase = "status"]
    /\ \/ \E len \in {device.len - 1, device.len} : Send(Data(device.tag, len))
       \/ Stall
    /\ UNCHANGED <<driver, ports>>

RunStatus ==
    /\ In("status")
    /\ device' = [device EXCEPT !.phase = "cbw"]
    /\ \E ok \in BOOLEAN : Send(Csw(device.tag, ok))
    /\ UNCHANGED <<driver, ports>>

RunBroken == In("broken") /\ Stall /\ UNCHANGED <<driver, device, ports>>

(* CLEAR_FEATURE reaches the device; the controller's endpoint stays halted. *)
RunControl ==
    /\ queue["ctl"] # <<>>
    /\ Complete("ctl", "ok", 0, 1)
    /\ UNCHANGED <<driver, mem, bus, slip, ports>>

PortEvent ==
    /\ ports < Ports /\ pc \notin Ends
    /\ ports' = ports + 1
    /\ events' = Append(events, [code |-> "port", residue |-> 0])
    /\ UNCHANGED <<driver, mem, queue, bus, slip>>

Finish == pc \in Ends /\ UNCHANGED vars

Driver == Command \/ Foreign \/ GiveUp \/ Take \/ Check
RunIn == RunData \/ RunStatus \/ RunBroken
Next == Driver \/ Poll \/ RunOut \/ RunIn \/ RunControl \/ PortEvent \/ Finish

(* The driver polls and the controller serves each endpoint that has work.  *)
Spec == /\ Init /\ [][Next]_vars
        /\ WF_vars(Driver) /\ WF_vars(RunOut) /\ WF_vars(RunIn) /\ WF_vars(RunControl)

-----------------------------------------------------------------------------
(* Properties                                                               *)

TypeOK ==
    /\ pc \in Ends \cup Waits \cup {"command", "check"} /\ phase \in {"out", "data", "status"}
    /\ job \in {"inquiry", "test", "sense", "capacity", "read"}
    /\ left \in 0 .. Retries + Reads /\ tag \in -1 .. 2 * Retries + Reads + 4
    /\ act_len \in Int /\ data_actlent \in Int /\ skips \in 0 .. MaxSkips - 1
    /\ halted \subseteq {"in"} /\ device.phase \in {"cbw", "data", "status", "broken"}

(* When stor_BBB_transport returns 0, the device has passed this very       *)
(* command, however far events and transfers are out of step.               *)
SuccessIsOwn == pc = "check" /\ Accepts => Csw(tag, TRUE) \in told

(* And the buffer holds what the device sent for it.                        *)
DataIsOwn ==
    (pc = "check" /\ Accepts /\ Length(job) > 0) =>
        LET m == mem[Target(job)]
        IN  m.kind = "data" /\ m.tag = tag /\ m \in told

Settled == pc \in Ends \/ (halted # {} /\ slip)

(* The driver comes to an end or resets the chip, unless the endpoint was   *)
(* halted by a stall or by a slip of events.                                *)
Settles == <>Settled
=============================================================================
