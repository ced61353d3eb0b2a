----------------------------- MODULE ParaNand -----------------------------
(***************************************************************************)
(* The parallel NAND driver (nand/para_nand.c, para_nand_hal.c): InitDevice *)
(* with PNAND_InitDriver, then page reads.  PNAND_ReadPage queues a command,*)
(* waits for an interrupt bit, copies the data region of the controller,    *)
(* and when ECC failed reads once more without it, to see if the page is    *)
(* an erased one.                                                           *)
(*                                                                          *)
(* The controller works through its queue, whether the driver still waits   *)
(* or not; neither the 5 s for a command nor the 100 ms for its data are    *)
(* an error when they are over.                                             *)
(***************************************************************************)
EXTENDS Integers, Sequences

CONSTANTS
    Pages,      \* pages of the flash
    Weak,       \* those with more errors than ECC corrects
    Erased,     \* those of ones only, which ECC takes for errors
    Depth,      \* commands the queue takes
    Reads,      \* page reads, a bound
    Failures    \* commands the flash fails, a bound

None == 0       \* a buffer of zeros
Reset == -1     \* the command

ParaNandAssumption ==
    /\ Pages \subseteq Nat \ {None}
    /\ Weak \subseteq Pages /\ Erased \subseteq Pages \ Weak
    /\ Depth \in Nat \ {0} /\ Reads \in Nat /\ Failures \in Nat

VARIABLES
    pc,
    again,      \* the read is the second one, without ECC
    ecc,        \* the ECC engine is on
    geometry,   \* the page size the controller was set to
    row,        \* page asked for
    buf,        \* the page the buffer holds
    status,     \* u8_cmd_status
    result,     \* of the last page read
    queue,      \* commands fired and not yet carried out
    intr,       \* interrupt and ECC status bits that are set
    region,     \* pages in the data region
    left, failures,
    clean,      \* history: this read began with nothing left over
    silent      \* history: a wait of it was over with no error

request == <<again, row, status, result>>
controller == <<queue, intr, region, ecc, geometry>>
bounds == <<left, failures>>
vars == <<pc, request, buf, controller, bounds, clean, silent>>

ErrOccur == {"failed", "ecc", "spare"}      \* Cmd_status_err_occur
Idle == queue = <<>> /\ intr = {} /\ region = <<>>

Init ==
    /\ pc = "init" /\ again = FALSE /\ ecc = FALSE /\ geometry = "none"
    /\ row = None /\ buf = None /\ status = {} /\ result = "none"
    /\ queue = <<>> /\ intr = {} /\ region = <<>>
    /\ left = Reads /\ failures = Failures /\ clean = TRUE /\ silent = FALSE

-----------------------------------------------------------------------------
(* The driver                                                               *)

(* Command_queue_status_full is polled without a limit.                     *)
Fire(c) == Len(queue) < Depth /\ queue' = Append(queue, c)

(* Page_read_setting: the address goes with the command.                    *)
PageRead(page) == Fire(page)

(* Command_queue_flush waits for the flash without a limit, and Soft_reset  *)
(* for the controller: what comes next is all there is.                     *)
FlushAndFire(c) == queue' = <<c>>

BMC_region_status_empty == region = <<>>
BMC_region_software_reset == region' = <<>>

(* ECC_function and ECC_mask for all channels.                              *)
ECC_function(on) == ecc' = on

(* para_nand_init with ECC_related_setting, and Memory_attribute_setting.   *)
para_nand_init == ECC_function(TRUE)
Memory_attribute_setting(size) == geometry' = size
hw_init_and_setting(size) == para_nand_init /\ Memory_attribute_setting(size)

(* setSystemPara and setEccMode: what the header says.                      *)
setSystemPara == "header"

(* PNAND_InitDriver resets the controller, sets it up for pages of 2 KB and *)
(* resets the flash;                                                        *)
InitDriver ==
    /\ pc = "init" /\ pc' = "check"
    /\ hw_init_and_setting("2 KB") /\ row' = Reset /\ FlushAndFire(Reset)
    /\ UNCHANGED <<again, status, result, buf, intr, region, bounds, clean, silent>>

(* Load_Header_Profile succeeds at once, and the controller is set up again *)
(* with what setSystemPara finds in the header the boot ROM has left.       *)
InitAgain ==
    /\ pc = "header" /\ pc' = "idle"
    /\ hw_init_and_setting(setSystemPara)
    /\ UNCHANGED <<request, buf, queue, intr, region, bounds, clean, silent>>

(* PNANDReadNANDPage_1K60: the buffer is cleared and the command fired.     *)
Call ==
    /\ pc = "idle" /\ left > 0
    /\ left' = left - 1
    /\ row' \in Pages /\ PageRead(row')
    /\ buf' = None /\ again' = FALSE /\ status' = {} /\ result' = "none"
    /\ clean' = Idle /\ silent' = FALSE
    /\ pc' = "check"
    /\ UNCHANGED <<ecc, geometry, intr, region, failures>>

(* Where Check_command_status returns to.  The status of a reset and that   *)
(* of the second read are not looked at.                                    *)
Behind == IF row = Reset THEN "header" ELSE "data"
Checked(s) ==
    /\ status' = IF again THEN status ELSE s
    /\ pc' = Behind

(* Check_command_status: the bit is there, for whichever command, and the   *)
(* bits are cleared.  A failed command is aborted before the ECC bits are   *)
(* looked at.                                                               *)
CheckStatus ==
    /\ pc = "check" /\ "complete" \in intr
    /\ IF "failed" \in intr
       THEN /\ pc' = "abort" /\ status' = IF again THEN status ELSE {"failed"}
            /\ intr' = intr \ {"complete", "failed"}
       ELSE Checked(intr \cap ErrOccur) /\ intr' = {}
    /\ UNCHANGED <<again, row, result, buf, queue, region, ecc, geometry, bounds, clean, silent>>

CheckTimeout ==
    /\ pc = "check" /\ "complete" \notin intr
    /\ Checked({})
    /\ silent' = TRUE
    /\ UNCHANGED <<again, row, result, buf, controller, bounds, clean>>

(* Abort_operation: flush the queue, reset controller and data region, and  *)
(* reset the flash, whose status is checked the same way, and aborted again *)
(* if it failed.  ECC bits still set when that wait was over may reach the  *)
(* status of the page.                                                      *)
Abort ==
    /\ pc = "abort" /\ pc' = "abort check"
    /\ FlushAndFire(Reset) /\ BMC_region_software_reset
    /\ UNCHANGED <<request, buf, intr, ecc, geometry, bounds, clean, silent>>

AbortChecked ==
    /\ pc = "abort check"
    /\ IF {"complete", "failed"} \subseteq intr
       THEN pc' = "abort" /\ intr' = intr \ {"complete", "failed"} /\ UNCHANGED status
       ELSE /\ pc' = Behind
            /\ intr' = {}
            /\ \E bits \in {{}, intr \ {"complete"}} :
                 status' = IF again \/ "complete" \in intr THEN status ELSE status \cup bits
    /\ UNCHANGED <<again, row, result, buf, queue, region, ecc, geometry, bounds, clean, silent>>

(* Nothing but ones.                                                        *)
TakesForErased(p) == p \in Erased

(* Mutant: the engine stays off after a second read.                        *)
EccAfterOff == ecc

EccAfter == TRUE

(* What follows Data_read, with page p in the buffer.                       *)
After(p) ==
    IF "ecc" \in status /\ ~again
    THEN /\ pc' = "second" /\ ecc' = FALSE /\ UNCHANGED <<status, result, again>>
    ELSE /\ status' = IF again /\ TakesForErased(p) THEN status \ {"ecc"} ELSE status
         /\ ecc' = EccAfter /\ again' = FALSE
         /\ result' = IF status' \cap ErrOccur = {} THEN "ok" ELSE "fail"
         /\ pc' = "idle"

(* para_nand_Start_PIO copies what is in the data region.                   *)
DataRead ==
    /\ pc = "data" /\ ~BMC_region_status_empty
    /\ buf' = Head(region) /\ region' = Tail(region)
    /\ After(buf')
    /\ UNCHANGED <<row, queue, intr, geometry, bounds, clean, silent>>

(* Trans_Err_Timeout is printed, and that is all.                           *)
DataTimeout ==
    /\ pc = "data" /\ BMC_region_status_empty
    /\ silent' = TRUE
    /\ After(buf)
    /\ UNCHANGED <<row, buf, queue, intr, region, geometry, bounds, clean>>

SecondRead ==
    /\ pc = "second" /\ pc' = "check"
    /\ again' = TRUE /\ PageRead(row)
    /\ UNCHANGED <<row, status, result, buf, intr, region, ecc, geometry, bounds, clean, silent>>

Finish ==
    /\ pc = "idle" /\ left = 0 /\ pc' = "over"
    /\ UNCHANGED <<request, buf, controller, bounds, clean, silent>>

Stop == pc = "over" /\ UNCHANGED vars

-----------------------------------------------------------------------------
(* The controller and the flash                                             *)

EccBits(p) ==
    IF ecc /\ p \in Weak \cup Erased THEN {{"ecc"}, {"ecc", "spare"}} ELSE {{}}

(* With another page size the controller cuts other pieces.                 *)
Laid(p) == IF geometry = "header" THEN p ELSE None

Execute ==
    /\ queue # <<>> /\ pc # "over"
    /\ queue' = Tail(queue)
    /\ LET c == Head(queue)
       IN  \/ /\ failures > 0 /\ failures' = failures - 1
              /\ intr' = intr \cup {"complete", "failed"} /\ UNCHANGED region
           \/ /\ c = Reset /\ intr' = intr \cup {"complete"} /\ UNCHANGED <<region, failures>>
           \/ /\ c # Reset /\ region' = Append(region, Laid(c))
              /\ \E bits \in EccBits(c) : intr' = intr \cup {"complete"} \cup bits
              /\ UNCHANGED failures
    /\ UNCHANGED <<pc, request, buf, ecc, geometry, left, clean, silent>>

Driver == InitDriver \/ InitAgain \/ Call \/ CheckStatus \/ CheckTimeout \/ Abort \/ AbortChecked \/ DataRead
          \/ DataTimeout \/ SecondRead \/ Finish
Next == Driver \/ Execute \/ Stop

Spec == Init /\ [][Next]_vars /\ WF_vars(Driver)

-----------------------------------------------------------------------------
(* Properties                                                               *)

TypeOK ==
    /\ pc \in {"init", "header", "check", "abort", "abort check", "data", "second", "idle", "over"}
    /\ again \in BOOLEAN /\ ecc \in BOOLEAN /\ geometry \in {"none", "2 KB", "header"}
    /\ row \in Pages \cup {None, Reset} /\ buf \in Pages \cup {None}
    /\ status \subseteq ErrOccur /\ result \in {"none", "ok", "fail"}
    /\ queue \in Seq(Pages \cup {Reset}) /\ Len(queue) <= Depth
    /\ intr \subseteq ErrOccur \cup {"complete"} /\ region \in Seq(Pages \cup {None})
    /\ left \in 0 .. Reads /\ failures \in 0 .. Failures
    /\ clean \in BOOLEAN /\ silent \in BOOLEAN

(* PNANDReadNANDPage_1K60 returns ROM_SUCCESS only with the page asked for, *)
(* if nothing of an earlier read was left over and no wait of this one was  *)
(* over: the driver does not tell such a page from a good one.              *)
ReadsPage == result = "ok" /\ clean /\ ~silent => buf = row /\ row \notin Weak

(* Whatever fails in between, a page is asked for with the ECC engine on.   *)
EccRestored == pc = "idle" => ecc

Settled == pc = "over" \/ Len(queue) = Depth

(* The driver ends, but for a queue that is full and stays so.              *)
Settles == <>Settled
=============================================================================
