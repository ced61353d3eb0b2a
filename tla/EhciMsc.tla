------------------------------ MODULE EhciMsc ------------------------------
(***************************************************************************)
(* Mass storage over the USB 2 host driver (usb/ehci_usb.c): doTransfer     *)
(* sends a command, moves its data and reads the status with USB_transfer,  *)
(* for USB_testUnitReady, USB_requestSense and usb2_readSector.             *)
(*                                                                          *)
(* A transfer that fails or overruns its 2 s resets the chip, so transfers  *)
(* never get out of step, and the tag of a status is not looked at.  What   *)
(* is delicate is memory: the status of a long read is fetched with its     *)
(* data, into the 13 bytes behind the buffer, and sense data is fetched     *)
(* over the command that asked for it.  A device that has less data than    *)
(* was asked for says so in its status, whose residue nobody looks at.      *)
(***************************************************************************)
EXTENDS Integers

CONSTANTS
    TestTries,      \* MAX_TEST_UNIT_READY_TRY (5)
    Reads,          \* calls of usb2_readSector
    LongSectors,    \* sectors of a long read (8); a short one is of one
    Failures        \* commands the device fails, a bound: usb2_readSector has none

EhciMscAssumption ==
    TestTries \in Nat \ {0} /\ Reads \in Nat /\ LongSectors \in Nat /\ Failures \in Nat

VARIABLES
    pc, job,
    tries, left,    \* TEST UNIT READY sent, reads left
    tested,         \* tmp2: what the last TEST UNIT READY returned
    long,           \* this read is of more than 512 bytes
    tag,            \* history: which command this is
    cb,             \* STRUCT_BUF_ADDR: a CBW, a CSW or sense data
    tail,           \* the 13 bytes behind dest
    dest,           \* the command whose data is in dest, 0: none or part of one
    device,         \* the device: its phase and the command it is at
    toggle,         \* data toggle of the bulk in endpoint, here and there
    failures,
    passed,         \* history: the device has said that this command passed
    stale,          \* history: what was behind dest was taken for a status
    cut             \* history: the device had less data for this command

progress == <<job, tries, left, tested, long>>
vars == <<pc, progress, tag, cb, tail, dest, device, toggle, failures, passed, stale, cut>>

Ends == {"reset", "wild", "done"}

\* What the driver can tell of 13 bytes: the signature is zero, or it is not
\* and the last one, the status, is zero or not.
Tails == {"zero", "ok", "failed"}

Init ==
    /\ pc = "command" /\ job = "test" /\ tries = 0 /\ left = Reads /\ tested = 0
    /\ long = FALSE /\ tag = 0 /\ cb = "csw ok" /\ tail \in Tails /\ dest = 0
    /\ device = [phase |-> "cbw", tag |-> 0]
    /\ toggle = [host |-> 0, device |-> 0]
    /\ failures = Failures /\ passed = FALSE /\ stale = FALSE /\ cut = FALSE

-----------------------------------------------------------------------------
HasData == job # "test"

(* The CBW is filled in.                                                    *)
Command ==
    /\ pc = "command" /\ pc' = "out"
    /\ tag' = tag + 1 /\ cb' = "cbw" /\ passed' = FALSE /\ cut' = FALSE
    /\ UNCHANGED <<progress, tail, dest, device, toggle, failures, stale>>

Out ==
    /\ pc = "out" /\ device.phase = "cbw"
    /\ device' = [phase |-> IF HasData THEN "data" ELSE "status", tag |-> tag]
    /\ pc' = IF HasData THEN "data" ELSE "csw"
    /\ UNCHANGED <<progress, tag, cb, tail, dest, toggle, failures, passed, stale, cut>>

InStep == toggle.host = toggle.device

(* The driver turns its toggle once for a transfer; the device once for     *)
(* each of n packets.                                                       *)
Turned(n) == toggle' = [host |-> 1 - toggle.host, device |-> (toggle.device + n) % 2]

(* The verdict the device sends with a status.                              *)
Verdict(ok) ==
    /\ ok \/ failures > 0
    /\ failures' = IF ok THEN failures ELSE failures - 1
    /\ passed' = ok

(* One packet: the data of a sector, or less of it.                         *)
ShortData ==
    /\ pc = "data" /\ job = "read" /\ ~long /\ device.phase = "data" /\ InStep
    /\ \E whole \in BOOLEAN : dest' = (IF whole THEN device.tag ELSE 0) /\ cut' = ~whole
    /\ Turned(1)
    /\ device' = [device EXCEPT !.phase = "status"] /\ pc' = "csw"
    /\ UNCHANGED <<progress, tag, cb, tail, failures, passed, stale>>

(* Mutant: the transfer is as long as the data.                             *)
PacketsOfData == LongSectors

(* wLen += 13: one transfer takes the data and, as its short packet, the    *)
(* status.                                                                  *)
Packets == LongSectors + 1

LongData ==
    /\ pc = "data" /\ job = "read" /\ long /\ device.phase = "data" /\ InStep
    /\ dest' = device.tag /\ Turned(Packets)
    /\ \E ok \in BOOLEAN : Verdict(ok) /\ tail' = IF ok THEN "ok" ELSE "failed"
    /\ device' = [device EXCEPT !.phase = "cbw"] /\ pc' = "csw"
    /\ UNCHANGED <<progress, tag, cb, stale, cut>>

(* The device has less data than that: its last packet ends the transfer    *)
(* before the status.                                                       *)
LongDataCut ==
    /\ pc = "data" /\ job = "read" /\ long /\ device.phase = "data" /\ InStep
    /\ dest' = 0 /\ cut' = TRUE /\ \E n \in 1 .. 2 : Turned(n)
    /\ device' = [device EXCEPT !.phase = "status"] /\ pc' = "csw"
    /\ UNCHANGED <<progress, tag, cb, tail, failures, passed, stale>>

(* Sense data is fetched over the CBW, whose length is then that of bytes 8 *)
(* to 11 of it, zero for most devices.                                      *)
SenseData ==
    /\ pc = "data" /\ job = "sense" /\ device.phase = "data" /\ InStep
    /\ cb' \in {"sense", "sense with info"} /\ Turned(1)
    /\ device' = [device EXCEPT !.phase = "status"] /\ pc' = "csw"
    /\ UNCHANGED <<progress, tag, tail, dest, failures, passed, stale, cut>>

-----------------------------------------------------------------------------
(* The status                                                               *)

LongNow == job = "read" /\ long

(* The status is read, behind dest only when no signature is there yet.     *)
ReadStatus ==
    /\ pc = "csw" /\ cb # "sense with info"
    /\ LongNow => tail = "zero"
    /\ device.phase = "status" /\ InStep
    /\ \E ok \in BOOLEAN :
         /\ Verdict(ok)
         /\ IF LongNow THEN tail' = (IF ok THEN "ok" ELSE "failed") /\ UNCHANGED cb
            ELSE cb' = (IF ok THEN "csw ok" ELSE "csw failed") /\ UNCHANGED tail
    /\ Turned(1) /\ pc' = "check"
    /\ device' = [device EXCEPT !.phase = "cbw"]
    /\ UNCHANGED <<progress, tag, dest, stale, cut>>

(* Something is there.                                                      *)
TakeTail ==
    /\ pc = "csw" /\ LongNow /\ tail # "zero"
    /\ stale' = (device.phase = "status") /\ pc' = "check"
    /\ UNCHANGED <<progress, tag, cb, tail, dest, device, toggle, failures, passed, cut>>

(* The status is looked for where the sense data's length says.             *)
WildStatus ==
    /\ pc = "csw" /\ cb = "sense with info" /\ pc' = "wild"
    /\ UNCHANGED <<progress, tag, cb, tail, dest, device, toggle, failures, passed, stale, cut>>

(* boot_reset()                                                             *)
TransferLate ==
    /\ pc' = "reset"
    /\ UNCHANGED <<progress, tag, cb, tail, dest, device, toggle, failures, passed, stale, cut>>

(* USB_transfer: an error, or 2 s without an end; the only way on when the  *)
(* device has nothing to send, or sends it with the other toggle.           *)
TransferFails == pc \in {"out", "data", "csw"} /\ TransferLate

StatusOk == IF LongNow THEN tail # "failed" ELSE cb = "csw ok"

(* The callers.  All tests are made, and the last one counts; a read is     *)
(* repeated until it passes.  What request sense returns is not looked at.  *)
NextTest ==
    IF tries + 1 < TestTries THEN job' = "test" /\ tries' = tries + 1 /\ pc' = "command"
    ELSE /\ tries' = tries + 1 /\ UNCHANGED job
         /\ pc' = IF tested' = 1 THEN "reset" ELSE "next"

CheckTest ==
    /\ pc = "check" /\ job = "test"
    /\ tested' = IF StatusOk THEN 0 ELSE 1
    /\ IF StatusOk THEN NextTest ELSE job' = "sense" /\ pc' = "command" /\ UNCHANGED tries
    /\ UNCHANGED <<left, long, tag, cb, tail, dest, device, toggle, failures, passed, stale, cut>>

CheckSense ==
    /\ pc = "check" /\ job = "sense"
    /\ UNCHANGED tested
    /\ IF tries < TestTries THEN NextTest ELSE job' = "read" /\ pc' = "command" /\ UNCHANGED tries
    /\ UNCHANGED <<left, long, tag, cb, tail, dest, device, toggle, failures, passed, stale, cut>>

CheckRead ==
    /\ pc = "check" /\ job = "read"
    /\ IF StatusOk THEN pc' = "next" /\ UNCHANGED job ELSE job' = "sense" /\ pc' = "command"
    /\ UNCHANGED <<tries, left, tested, long, tag, cb, tail, dest, device, toggle, failures, passed, stale, cut>>

(* The next read, of one sector or more, to memory with anything behind it. *)
NextRead ==
    /\ pc = "next"
    /\ IF left = 0 THEN pc' = "done" /\ UNCHANGED <<job, left, long, tail>>
       ELSE job' = "read" /\ left' = left - 1 /\ long' \in BOOLEAN /\ tail' \in Tails /\ pc' = "command"
    /\ UNCHANGED <<tries, tested, tag, cb, dest, device, toggle, failures, passed, stale, cut>>

Finish == pc \in Ends /\ UNCHANGED vars

Transfer == Out \/ ShortData \/ LongData \/ LongDataCut \/ SenseData \/ ReadStatus
Caller == Command \/ TakeTail \/ WildStatus \/ CheckTest \/ CheckSense \/ CheckRead \/ NextRead
Next == Transfer \/ TransferFails \/ Caller \/ Finish

Spec == Init /\ [][Next]_vars /\ WF_vars(Caller) /\ WF_vars(Transfer \/ TransferFails)

-----------------------------------------------------------------------------
(* Properties                                                               *)

TypeOK ==
    /\ pc \in {"command", "out", "data", "csw", "check", "next"} \cup Ends
    /\ job \in {"test", "sense", "read"} /\ tries \in 0 .. TestTries /\ left \in 0 .. Reads
    /\ tested \in {0, 1} /\ long \in BOOLEAN /\ tag \in Nat /\ dest \in Nat
    /\ cb \in {"cbw", "csw ok", "csw failed", "sense", "sense with info"} /\ tail \in Tails
    /\ device \in [phase : {"cbw", "data", "status"}, tag : Nat]
    /\ toggle \in [host : {0, 1}, device : {0, 1}]
    /\ failures \in 0 .. Failures /\ {passed, stale, cut} \subseteq BOOLEAN

(* usb2_readSector returns only when the device has passed this very read,  *)
(* although no tag is compared: unless a long read was cut and the memory   *)
(* behind it looked like a status.  The read's data is then at dest, unless *)
(* the device had less of it.                                               *)
SuccessIsOwn ==
    pc = "check" /\ job = "read" /\ StatusOk /\ ~stale => passed /\ (dest = tag \/ cut)

(* Both ends agree on the data toggle after every command, although a long  *)
(* read moves several packets and the driver turns its toggle once.         *)
TogglesAgree == pc = "command" /\ ~stale => InStep

Settled == pc \in Ends

(* The driver ends or resets the chip when the device fails finitely often. *)
Settles == <>Settled
=============================================================================
