------------------------------ MODULE SdCard ------------------------------
(***************************************************************************)
(* The SD/eMMC driver (sdmmc/): initDriver_SD identifies the card with      *)
(* IdentifyStorage, again if a step fails, and raises the clock; on an eMMC *)
(* SetMMCPartitionNum then selects the user area, as emmc_boot asks;        *)
(* ReadSDSector reads with CMD18 and tries again, while sdTryNextReadDelay  *)
(* looks for a point at which answers and data can be sampled.              *)
(*                                                                          *)
(* The card answers as the SD and eMMC standards say.  Any command and any  *)
(* answer may get lost or garbled; at the raised clock only the settings in *)
(* good sample rightly, and what is sampled wrongly fails its checksum.     *)
(*                                                                          *)
(* Two errors pass unseen.  IdentifyStorage returns -CMD0 when CMD0 fails,  *)
(* which is 0, the value of success: the driver then reads from a card that *)
(* was not identified.  And DoMMCSwitch looks for a refused switch in bit 6 *)
(* of the status (mmc_switch_error of REG_STATUS), where a card says that   *)
(* it must do background operations; R1_SWITCH_ERROR is bit 7.              *)
(* EMMC_USE_DMA_READ is not defined, so every read is a PIO read.           *)
(***************************************************************************)
EXTENDS Integers

CONSTANTS
    Kinds,          \* the cards, a subset of AllKinds
    Retries,        \* of IdentifyStorage (8)
    Loops,          \* CMD1 and ACMD41 sent before the card is given up
    StatusTries,    \* nrRetry of CheckCardStatus (10)
    ReadRetries,    \* MAX_SD_READ_RETRY (32)
    Delays,         \* values of the read clock delay (8)
    Begin,          \* get_SD_RD_CLK_DLY_BEG (2 for SD, 0 for eMMC)
    GoodSets,       \* what good may be
    Reads,          \* sectors read
    Noise           \* bound on noise, a history counter

AllKinds == {"none", "sd1", "sdsc", "sdhc", "mmcsc", "mmchc"}
Settings == (0 .. Delays - 1) \X BOOLEAN

SdCardAssumption ==
    /\ Kinds \subseteq AllKinds
    /\ {Retries, ReadRetries, Noise} \subseteq Nat
    /\ {Loops, StatusTries, Delays, Reads} \subseteq Nat \ {0}
    /\ Begin \in 0 .. Delays - 1
    /\ GoodSets \subseteq SUBSET Settings

VARIABLES
    kind, emmc,     \* the card and the slot, fixed
    pc,             \* step of IdentifyStorage or ReadSDSector
    retry,          \* of initDriver_SD, then of ReadSDSector
    loop,           \* loop_count, then nrRetry
    caller,         \* of CheckCardStatus and of DoMMCSwitch
    host_hcs,       \* host_support_high_capacity_flag; for eMMC sector mode
    what_dev,       \* the class of the card
    config,         \* ext_csd.partition_config: as cleared, or as read
    rd, hs,         \* gSD_RD_CLK_DELAY_TIME_val, gSD_HIGHSPEED_EN_SET_val
    ctrlWidth,      \* data lines of the controller
    fast,           \* the clock is one for reading
    state, app,     \* the card: its state, and it waits for an ACMD
    cardWidth,
    addressed,      \* the card is at the address the driver has for it
    enabled,        \* the card still boots from the partition it was set to
    good,           \* the settings that sample rightly at this clock
    sector, data,   \* the sector asked for; the one in the buffer
    noise,          \* history: transfers of this read disturbed by more than
                    \* the setting
    unsure          \* history: why the driver may not know the card

medium == <<kind, emmc>>
setting == <<rd, hs>>
card == <<state, app, cardWidth, addressed, enabled>>
driver == <<retry, loop, caller, host_hcs, what_dev, config, ctrlWidth, fast>>
reading == <<sector, data, noise>>
vars == <<medium, pc, driver, setting, card, good, reading, unsure>>

Mmc == kind \in {"mmcsc", "mmchc"}
HighCapacity == kind \in {"sdhc", "mmchc"}
NoData == -1

(* The answer to a switch of the width got lost, the card refused it, its   *)
(* answer asked for background operations, or CMD0 failed.                  *)
Doubts == {"lost", "refused", "urgent", "no reset"}

(* The ROM may have read from the card before.                              *)
Init ==
    /\ kind \in Kinds /\ emmc \in BOOLEAN
    /\ (Mmc => emmc) /\ (kind \in {"sd1", "sdsc", "sdhc"} => ~emmc)
    /\ pc = "chip" /\ retry = Retries /\ loop = 0 /\ caller = "none"
    /\ host_hcs = FALSE /\ what_dev = "none" /\ config = "zero"
    /\ rd \in {0, Begin} /\ hs = FALSE /\ ctrlWidth = 1 /\ fast = FALSE
    /\ \/ state = "idle" /\ cardWidth = 1
       \/ state = "tran" /\ cardWidth \in {1, 4}
    /\ app = FALSE /\ addressed = FALSE /\ enabled = TRUE
    /\ good = {} /\ sector = 1 /\ data = NoData /\ noise = 0 /\ unsure = {}

-----------------------------------------------------------------------------
(* hwSdCmdSend.  A command the card obeys in its state is answered; the     *)
(* command or the answer may get lost ("timeout", or "fail" when the        *)
(* controller hangs), the answer may be garbled ("crc") or be that of       *)
(* another command ("fail").                                                *)

Sampled == fast => setting \in good

(* wait_response_buff_full: the answer is there, did not come, has a wrong  *)
(* checksum, or the controller hangs.                                       *)
wait_response_buff_full == {"ok", "timeout", "crc", "fail"}

Reply == [ret : wait_response_buff_full, seen : BOOLEAN]
Replies(obeys) ==
    {r \in Reply : /\ r.seen => obeys
                   /\ r.ret \in {"ok", "crc"} => r.seen
                   /\ r.ret = "ok" => Sampled}

(* sdTryNextReadDelay: the next delay, and the other edge when all of them  *)
(* were tried.                                                              *)
sdTryNextReadDelay ==
    /\ rd' = (rd + 1) % Delays
    /\ hs' = IF rd' = Begin THEN ~hs ELSE hs

AnySetting == rd' \in 0 .. Delays - 1 /\ hs' \in BOOLEAN

(* A garbled answer moves the sampling point.                               *)
Sample(r) == IF r.ret = "crc" THEN sdTryNextReadDelay ELSE UNCHANGED setting

(* initDriver_SD: another try, unless there was no answer at all.           *)
Again(ret) ==
    IF ret # "timeout" /\ retry > 0
    THEN retry' = retry - 1 /\ pc' = "cmd0"
    ELSE pc' = "failed" /\ UNCHANGED retry

Go(p) == pc' = p /\ UNCHANGED retry

(* The driver is done, without another try.  emmc_boot then selects the     *)
(* user area; ReadSDSector has its own count.                               *)
Initialised ==
    /\ retry' = 0 /\ loop' = 0 /\ host_hcs' = FALSE
    /\ IF emmc THEN pc' = "switch" /\ caller' = "erase" ELSE pc' = "read" /\ caller' = "none"

-----------------------------------------------------------------------------
(* IdentifyStorage                                                          *)

(* hwSdConfig and hwSdBusWidthSet, SetChipCtrlClk: the controller.           *)
hwSdConfig(sdBusWidth) == ctrlWidth' = sdBusWidth
hwSdBusWidthSet(sdBusWidth) == ctrlWidth' = sdBusWidth
SetChipCtrlClk(busSpeed) == fast' = (busSpeed > 400000)

(* A card that sees CMD0 starts again, on one data line.                    *)
CardReset(seen) ==
    /\ state' = IF seen THEN "idle" ELSE state
    /\ cardWidth' = IF seen THEN 1 ELSE cardWidth
    /\ app' = (app /\ ~seen) /\ addressed' = (addressed /\ ~seen)
    /\ UNCHANGED enabled

(* InitChipCtrl, once for all tries.  Nobody looks at the result of its     *)
(* CMD0.                                                                    *)
InitChipCtrl ==
    /\ pc = "chip"
    /\ hs' = FALSE /\ rd' = Begin /\ SetChipCtrlClk(200000) /\ hwSdConfig(1)
    /\ \E seen \in {emmc, FALSE} : CardReset(seen)
    /\ Go("cmd0")
    /\ UNCHANGED <<medium, loop, caller, host_hcs, what_dev, config, good, reading, unsure>>

(* hwSdTxDummy: the controller is idle again after eight clocks, or not.    *)
hwSdIdleWait == {"success", "fail"}

(* CMD0 is not answered; the controller may hang while the clocks are sent  *)
(* that a card needs then, which is an error.                               *)
Cmd0 ==
    /\ pc = "cmd0"
    /\ \E seen \in BOOLEAN : CardReset(seen)
    /\ \E idle \in hwSdIdleWait :
         IF idle = "success"
         THEN Go(IF emmc THEN "cmd1" ELSE "cmd8") /\ what_dev' = "none"
         ELSE Again("fail") /\ UNCHANGED what_dev
    /\ loop' = 0 /\ host_hcs' = emmc
    /\ UNCHANGED <<medium, caller, config, setting, ctrlWidth, fast, good, reading, unsure>>

(* It may hang in CMD0 itself, which is none: IdentifyStorage leaves the    *)
(* clock, the lines and the class as they are and returns -CMD0, 0.         *)
Cmd0Fails ==
    /\ pc = "cmd0"
    /\ \E seen \in BOOLEAN : CardReset(seen)
    /\ Initialised
    /\ unsure' = unsure \cup {"no reset"}
    /\ UNCHANGED <<medium, what_dev, config, setting, ctrlWidth, fast, good, reading>>

(* CheckMMCOpCond: CMD1 until the card is ready, first as a host that knows *)
(* sector mode, then as one that does not.                                  *)
Cmd1 ==
    /\ pc = "cmd1"
    /\ \E r \in Replies(Mmc /\ state = "idle" /\ (HighCapacity => host_hcs)), busy \in BOOLEAN :
         /\ state' = IF r.seen /\ ~busy THEN "ready" ELSE state
         /\ IF r.ret \in {"crc", "timeout"} THEN sdTryNextReadDelay ELSE UNCHANGED setting
         /\ \/ r.ret = "timeout" /\ Again("fail") /\ UNCHANGED <<loop, host_hcs, what_dev>>
            \/ /\ r.ret = "ok" /\ ~busy /\ Go("cmd2")
               /\ what_dev' = IF host_hcs /\ HighCapacity THEN "mmchc" ELSE "mmcsc"
               /\ UNCHANGED <<loop, host_hcs>>
            \/ /\ r.ret # "timeout" /\ ~(r.ret = "ok" /\ ~busy) /\ UNCHANGED what_dev
               /\ \/ loop < Loops /\ loop' = loop + 1 /\ Go("cmd1") /\ UNCHANGED host_hcs
                  \/ loop = Loops /\ host_hcs /\ host_hcs' = FALSE /\ loop' = 0 /\ Go("cmd1")
                  \/ loop = Loops /\ ~host_hcs /\ Again("fail") /\ UNCHANGED <<loop, host_hcs>>
    /\ UNCHANGED <<medium, caller, config, ctrlWidth, fast, app, cardWidth, addressed, enabled, good, reading, unsure>>

(* CheckSDAppOpCond: CMD8, which version 1 cards do not answer,             *)
Cmd8 ==
    /\ pc = "cmd8"
    /\ \E r \in Replies(kind \in {"sdsc", "sdhc"} /\ state = "idle") :
         /\ Sample(r)
         /\ IF r.ret = "crc" THEN Again("crc") ELSE Go("cmd55")
         /\ host_hcs' = (r.ret = "ok")
    /\ UNCHANGED <<medium, loop, caller, what_dev, config, ctrlWidth, fast, card, good, reading, unsure>>

IsSd == kind \in {"sd1", "sdsc", "sdhc"}

(* then CMD55, of which only a garbled answer counts,                       *)
Cmd55 ==
    /\ pc = "cmd55"
    /\ \E r \in Replies(IsSd /\ state = "idle") :
         /\ app' = r.seen
         /\ Sample(r)
         /\ IF r.ret = "crc" THEN Again("crc") ELSE Go("acmd41")
    /\ UNCHANGED <<medium, loop, caller, host_hcs, what_dev, config, ctrlWidth, fast, state, cardWidth, addressed, enabled,
                   good, reading, unsure>>

(* Mutant: a card that answered CMD8 is taken for one of high capacity.     *)
ClassOfCmd8(ccs) == IF host_hcs THEN "sdhc" ELSE "sdsc"

(* The capacity bit counts for a card that answered CMD8.                   *)
ClassOf(ccs) == IF host_hcs /\ ccs THEN "sdhc" ELSE "sdsc"

(* and ACMD41 until the card is ready.  No answer means no card.            *)
Acmd41 ==
    /\ pc = "acmd41"
    /\ app' = FALSE
    /\ \E r \in Replies(app /\ state = "idle"), busy \in BOOLEAN :
         LET Ready == ~busy /\ (HighCapacity => host_hcs)
         IN  /\ state' = IF r.seen /\ Ready THEN "ready" ELSE state
             /\ Sample(r)
             /\ \/ r.ret \in {"timeout", "crc"} /\ Again(r.ret) /\ UNCHANGED <<loop, what_dev>>
                \/ /\ r.ret = "ok" /\ Ready /\ Go("cmd2")
                   /\ what_dev' = ClassOf(HighCapacity)
                   /\ UNCHANGED loop
                \/ /\ r.ret = "fail" \/ (r.ret = "ok" /\ ~Ready)
                   /\ IF loop < Loops THEN loop' = loop + 1 /\ Go("cmd55")
                      ELSE Again("fail") /\ UNCHANGED loop
                   /\ UNCHANGED what_dev
    /\ UNCHANGED <<medium, caller, host_hcs, config, ctrlWidth, fast, cardWidth, addressed, enabled, good, reading, unsure>>

(* A step that must succeed, whose error is not "no answer".                *)
Must(step, from, to, next) ==
    /\ pc = step
    /\ \E r \in Replies(state = from) :
         /\ state' = IF r.seen THEN to ELSE state
         /\ addressed' = IF step = "cmd3" THEN r.ret = "ok" ELSE addressed
         /\ Sample(r)
         /\ IF r.ret = "ok" THEN Go(next) ELSE Again("fail")
    /\ loop' = IF pc' = "cmd13" THEN StatusTries ELSE 0
    /\ caller' = IF pc' = "cmd13" THEN "cmd7" ELSE caller
    /\ UNCHANGED <<medium, host_hcs, what_dev, config, ctrlWidth, fast, app, cardWidth, enabled, good, reading, unsure>>

GetAllSendCIDNum == Must("cmd2", "ready", "ident", "cmd3")
GetSetRelativeAddr == Must("cmd3", "ident", "stby", "cmd9")
GetSendCSDNum == Must("cmd9", "stby", "stby", "cmd7")
ChangeCardToTransferState == Must("cmd7", "stby", "tran", "cmd13")
SetBlkLen512B == Must("cmd16", "tran", "tran", IF emmc THEN "ext" ELSE "scr55")

(* What becomes of a switch: SetMMCBusWidth and ChangeMMCToHiSpeedMode may  *)
(* fail, SetMMCEraseGroup2Hi and the write of SetMMCPartitionNum may not.   *)
SetMMCBusWidth(ok) ==
    /\ caller = "width" /\ caller' = "speed" /\ Go("switch")
    /\ IF ok THEN hwSdBusWidthSet(4) ELSE UNCHANGED ctrlWidth

ChangeMMCToHiSpeedMode(ok) ==
    caller = "speed" /\ Go("clock") /\ UNCHANGED <<caller, ctrlWidth>>

SetMMCEraseGroup2Hi(ok) ==
    /\ caller = "erase" /\ caller' = "config" /\ UNCHANGED ctrlWidth
    /\ Go(IF ok THEN "switch" ELSE "no switch")

SetMMCPartitionNum(ok) ==
    /\ caller = "config" /\ caller' = "none" /\ UNCHANGED ctrlWidth
    /\ Go(IF ok THEN "read" ELSE "no switch")

Switched(ok) ==
    /\ \/ SetMMCBusWidth(ok) \/ ChangeMMCToHiSpeedMode(ok)
       \/ SetMMCEraseGroup2Hi(ok) \/ SetMMCPartitionNum(ok)
    /\ loop' = 0

Doubt(when, why) == unsure' = unsure \cup IF caller = "width" /\ when THEN {why} ELSE {}

(* CheckCardStatus of ChangeCardToTransferState and of DoMMCSwitch: CMD13   *)
(* until it is answered.  An answer to the last try is not looked at.       *)
(* DoMMCSwitch does not see a refusal, and takes urgent background          *)
(* operations of the card for one.                                          *)
StatusFor ==
    \/ caller = "cmd7" /\ Go("cmd16") /\ UNCHANGED <<loop, ctrlWidth, caller, unsure>>
    \/ /\ caller # "cmd7" /\ state = "prg"
       /\ Go("cmd13") /\ loop' = StatusTries /\ UNCHANGED <<ctrlWidth, caller, unsure>>
    \/ /\ caller # "cmd7" /\ state # "prg"
       /\ \E urgent \in BOOLEAN : Switched(~urgent) /\ Doubt(urgent, "urgent")

StatusLost ==
    \/ caller = "cmd7" /\ Again("fail") /\ UNCHANGED <<loop, ctrlWidth, caller, unsure>>
    \/ caller # "cmd7" /\ Switched(FALSE) /\ Doubt(TRUE, "lost")

CheckCardStatus ==
    /\ pc = "cmd13"
    /\ \E r \in Replies(addressed /\ state \in {"stby", "tran", "prg"}) :
         /\ Sample(r)
         /\ \/ r.ret = "ok" /\ loop > 1 /\ StatusFor
            \/ /\ r.ret # "ok" /\ loop > 1 /\ loop' = loop - 1
               /\ Go("cmd13") /\ UNCHANGED <<ctrlWidth, caller, unsure>>
            \/ loop = 1 /\ StatusLost
    /\ UNCHANGED <<medium, host_hcs, what_dev, config, fast, card, good, reading>>

(* The card ends its programming by itself.                                 *)
CardReady ==
    /\ state = "prg" /\ state' = "tran"
    /\ UNCHANGED <<medium, pc, driver, setting, app, cardWidth, addressed, enabled, good, reading, unsure>>

(* sdStateGet: up to a hundred CMD13s, of which each garbled answer moves   *)
(* the sampling point.                                                      *)
sdStateGet == AnySetting

(* sdStateCheck before the EXT_CSD is read.                                 *)
sdStateCheck ==
    /\ pc = "ext"
    /\ sdStateGet
    /\ \/ Go("ext read") /\ UNCHANGED caller
       \/ Go("switch") /\ caller' = "width"
    /\ UNCHANGED <<medium, loop, host_hcs, what_dev, config, ctrlWidth, fast, card, good, reading, unsure>>

(* GetMMCExtCSD: CMD8, whose answer nobody looks at, and the 512 bytes.     *)
(* IdentifyStorage goes on whatever became of them.                         *)
GetMMCExtCSD ==
    /\ pc = "ext read"
    /\ \/ cardWidth = ctrlWidth /\ Sampled /\ config' = "read" /\ UNCHANGED setting
       \/ UNCHANGED config /\ (sdTryNextReadDelay \/ UNCHANGED setting)
    /\ Go("switch") /\ caller' = "width"
    /\ UNCHANGED <<medium, loop, host_hcs, what_dev, ctrlWidth, fast, card, good, reading, unsure>>

(* The partition configuration sent with CMD6 is the cached one, in which   *)
(* only the partition to access was set: it clears the boot partition of    *)
(* the card if the cache holds nothing.                                     *)
BootDisabled == caller = "config" /\ config = "zero"

(* DoMMCSwitch: CMD6, and CheckCardStatus until the card is no longer       *)
(* programming.  The card may refuse.                                       *)
DoMMCSwitch ==
    /\ pc = "switch"
    /\ \E r \in Replies(state = "tran"), refuse \in BOOLEAN :
         /\ state' = IF r.seen THEN "prg" ELSE state
         /\ cardWidth' = IF r.seen /\ ~refuse /\ caller = "width" THEN 4 ELSE cardWidth
         /\ enabled' = (enabled /\ ~(r.seen /\ ~refuse /\ BootDisabled))
         /\ Sample(r)
         /\ IF r.ret = "ok"
            THEN /\ Go("cmd13") /\ loop' = StatusTries /\ UNCHANGED <<caller, ctrlWidth>>
                 /\ Doubt(refuse, "refused")
            ELSE Switched(FALSE) /\ Doubt(TRUE, "lost")
    /\ UNCHANGED <<medium, host_hcs, what_dev, config, fast, app, addressed, good, reading>>

(* GetSDSCRNum: CMD55, whose timeout is taken for "no card",                *)
ScrCmd55 ==
    /\ pc = "scr55"
    /\ \E r \in Replies(state = "tran") :
         /\ app' = r.seen
         /\ Sample(r)
         /\ IF r.ret = "ok" THEN Go("scr") ELSE Again(r.ret)
    /\ UNCHANGED <<medium, loop, caller, host_hcs, what_dev, config, ctrlWidth, fast, state, cardWidth, addressed, enabled,
                   good, reading, unsure>>

(* and ACMD51 with its eight bytes.  A card of one data line stays at it,   *)
(* as does one whose register has an unknown structure.                     *)
ScrRead ==
    /\ pc = "scr"
    /\ app' = FALSE
    /\ \/ Go("width55") /\ UNCHANGED setting
       \/ Go("speed") /\ UNCHANGED setting
       \/ Again("fail") /\ (sdTryNextReadDelay \/ UNCHANGED setting)
    /\ UNCHANGED <<medium, loop, caller, host_hcs, what_dev, config, ctrlWidth, fast, state, cardWidth, addressed, enabled,
                   good, reading, unsure>>

(* Mutant: a garbled answer to ACMD6 is taken for a card of one line.       *)
WidthErrorKept(r) == Go("speed")

(* IdentifyStorage starts again when SetSDBusWidth got a garbled answer.    *)
WidthError(r) == IF r.ret = "crc" THEN Again("crc") ELSE Go("speed")

(* SetSDBusWidth: CMD55 and ACMD6.                                          *)
WidthCmd55 ==
    /\ pc = "width55"
    /\ \E r \in Replies(state = "tran") :
         /\ app' = r.seen
         /\ Sample(r)
         /\ IF r.ret = "ok" THEN Go("acmd6") ELSE WidthError(r)
    /\ UNCHANGED <<medium, loop, caller, host_hcs, what_dev, config, ctrlWidth, fast, state, cardWidth, addressed, enabled,
                   good, reading, unsure>>

Acmd6 ==
    /\ pc = "acmd6"
    /\ app' = FALSE
    /\ \E r \in Replies(state = "tran" /\ app) :
         /\ cardWidth' = IF r.seen THEN 4 ELSE cardWidth
         /\ Sample(r)
         /\ ctrlWidth' = IF r.ret = "ok" THEN 4 ELSE ctrlWidth
         /\ IF r.ret = "ok" THEN Go("speed") ELSE WidthError(r)
         /\ unsure' = unsure \cup IF r.ret \in {"timeout", "fail"} THEN {"lost"} ELSE {}
    /\ UNCHANGED <<medium, loop, caller, host_hcs, what_dev, config, fast, state, addressed, enabled, good, reading>>

(* ChangeSDToHiSpeedMode, which may fail: CMD12 then stops what it left.    *)
ChangeSDToHiSpeedMode ==
    /\ pc = "speed"
    /\ AnySetting
    /\ Go("clock")
    /\ UNCHANGED <<medium, loop, caller, host_hcs, what_dev, config, ctrlWidth, fast, card, good, reading, unsure>>

(* The clock is raised: what samples rightly from here on is the board's.   *)
RaiseClock ==
    /\ pc = "clock"
    /\ SetChipCtrlClk(IF emmc THEN 25000000 ELSE 5000000) /\ good' \in GoodSets
    /\ Initialised
    /\ UNCHANGED <<medium, what_dev, config, ctrlWidth, setting, card, reading, unsure>>

-----------------------------------------------------------------------------
(* ReadSDSector and ReadSDMultipleSector                                    *)

(* CMD18's argument, and the block the card makes of it.                    *)
Argument == IF what_dev \in {"sdsc", "mmcsc"} THEN sector * 512 ELSE sector
Addressed == IF HighCapacity THEN Argument ELSE Argument \div 512

Count(k) == noise' = IF noise + k > Noise THEN Noise ELSE noise + k

(* ReadSectorByPolling.  An error met while waiting for data moves the      *)
(* sampling point if it is one of the checksum, and halves the clock if the *)
(* start bit was not found; one met later does neither.                     *)
ReadSDMultipleSector ==
    /\ pc = "read"
    /\ pc' = "stop"
    /\ \E seen \in {state = "tran", FALSE} :
         /\ state' = IF seen THEN "data" ELSE state
         /\ LET Right == seen /\ Sampled /\ cardWidth = ctrlWidth
            IN \/ Right /\ data' = Addressed /\ retry' = -1 /\ UNCHANGED <<setting, fast, noise>>
               \/ /\ data' = NoData /\ UNCHANGED retry
                  /\ Count(IF seen /\ ~Sampled THEN 0 ELSE 1)
                  /\ \/ seen /\ sdTryNextReadDelay /\ UNCHANGED fast
                     \/ UNCHANGED <<setting, fast>>
                     \/ fast' \in {fast, FALSE} /\ UNCHANGED setting
    /\ UNCHANGED <<medium, loop, caller, host_hcs, what_dev, config, ctrlWidth, app, cardWidth, addressed, enabled, good,
                   sector, unsure>>

(* Mutant: half of the retries.                                             *)
MoreTriesFew == retry < ReadRetries \div 2
MoreTries == retry < ReadRetries

(* StopCardTransmission, whose result nobody looks at; then the next try,   *)
(* ROM_FAIL, or the next sector the loader wants.                           *)
StopCardTransmission ==
    /\ pc = "stop"
    /\ \E r \in Replies(state = "data") :
         /\ state' = IF r.seen THEN "tran" ELSE state
         /\ Sample(r)
         /\ IF retry = -1
            THEN /\ pc' = "done" /\ retry' = 0 /\ noise' = 0
            ELSE /\ IF MoreTries THEN retry' = retry + 1 /\ pc' = "read"
                    ELSE pc' = "failed" /\ UNCHANGED retry
                 /\ Count(IF r.ret = (IF Sampled THEN "ok" ELSE "crc") \/ ~(state = "data") THEN 0 ELSE 1)
    /\ UNCHANGED <<medium, loop, caller, host_hcs, what_dev, config, ctrlWidth, fast, app, cardWidth, addressed, enabled,
                   good, sector, data, unsure>>

NextSector ==
    /\ pc = "done" /\ sector < Reads
    /\ sector' = sector + 1 /\ pc' = "read" /\ data' = NoData
    /\ UNCHANGED <<medium, driver, setting, card, good, noise, unsure>>

Finish == (pc \in {"failed", "no switch"} \/ (pc = "done" /\ sector = Reads)) /\ UNCHANGED vars

Identify ==
    \/ InitChipCtrl \/ Cmd0 \/ Cmd0Fails \/ Cmd1 \/ Cmd8 \/ Cmd55 \/ Acmd41
    \/ GetAllSendCIDNum \/ GetSetRelativeAddr \/ GetSendCSDNum
    \/ ChangeCardToTransferState \/ SetBlkLen512B \/ CheckCardStatus
    \/ sdStateCheck \/ GetMMCExtCSD \/ DoMMCSwitch
    \/ ScrCmd55 \/ ScrRead \/ WidthCmd55 \/ Acmd6 \/ ChangeSDToHiSpeedMode \/ RaiseClock
Read == ReadSDMultipleSector \/ StopCardTransmission \/ NextSector

Next == Identify \/ Read \/ CardReady \/ Finish
Spec == Init /\ [][Next]_vars /\ WF_vars(Identify \/ Read) /\ WF_vars(CardReady)

-----------------------------------------------------------------------------
(* Properties                                                               *)

Steps == {"chip", "cmd0", "cmd1", "cmd8", "cmd55", "acmd41", "cmd2", "cmd3", "cmd9", "cmd7",
          "cmd13", "cmd16", "ext", "ext read", "switch", "no switch", "scr55", "scr", "width55", "acmd6", "speed",
          "clock", "read", "stop", "done", "failed"}

TypeOK ==
    /\ kind \in Kinds /\ emmc \in BOOLEAN /\ pc \in Steps
    /\ retry \in -1 .. (Retries + ReadRetries) /\ loop \in 0 .. (Loops + StatusTries)
    /\ caller \in {"none", "cmd7", "width", "speed", "erase", "config"} /\ host_hcs \in BOOLEAN
    /\ what_dev \in {"none", "sdsc", "sdhc", "mmcsc", "mmchc"}
    /\ config \in {"zero", "read"} /\ setting \in Settings /\ fast \in BOOLEAN /\ {ctrlWidth, cardWidth} \subseteq {1, 4}
    /\ state \in {"idle", "ready", "ident", "stby", "tran", "prg", "data"}
    /\ {app, addressed, enabled} \subseteq BOOLEAN /\ unsure \subseteq Doubts /\ good \subseteq Settings
    /\ sector \in 1 .. Reads /\ data \in Int /\ noise \in 0 .. Noise

(* Card and controller use the same number of data lines when they are used *)
(* for reading.  Only a refused switch, which the driver does not see,      *)
(* leaves the controller with more than the card.  It has fewer only when   *)
(* the answer to a switch got lost and not only garbled (SD), when urgent   *)
(* background operations are taken for a refusal, or when CMD0 failed.      *)
WidthsAgree ==
    pc \in {"clock", "read", "stop", "done"} =>
        /\ "refused" \notin unsure => ctrlWidth <= cardWidth
        /\ unsure \subseteq {"refused"} => cardWidth <= ctrlWidth

(* "limit infinite read retry while still allowing rd_clk_dly adjustment":  *)
(* with a setting that samples rightly, one disturbed transfer beside those *)
(* at wrong settings does not make a read fail.                             *)
RetriesSuffice ==
    (pc = "failed" /\ fast /\ good # {} /\ noise < Noise) => cardWidth # ctrlWidth

(* "0: no access to boot partition (default: user area)" (hal_sd_mmc.c:984): *)
(* selecting the user area leaves the partition the card boots from as it   *)
(* is.                                                                      *)
BootEnableKept == enabled

Settled == pc \in {"failed", "no switch"} \/ (pc = "done" /\ sector = Reads)

(* Identification and reads end.                                            *)
Settles == <>Settled
=============================================================================
