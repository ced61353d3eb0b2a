------------------------------- MODULE Media -------------------------------
(***************************************************************************)
(* The drivers below the loaders (common/bootmain.c, InitDevice): a boot    *)
(* uses one medium, and only its driver works.  Each driver is a module of  *)
(* its own; what all of them promise the loaders is BlockDevice.            *)
(***************************************************************************)
EXTENDS Integers

CONSTANTS
    MediaTypes,     \* the media, a subset of Drivers
    Reads, MscReads,                                    \* blocks read
    Kinds, SdRetries, Loops, StatusTries, ReadRetries,  \* SdCard
    Delays, Begin, GoodSets, Noise,
    SpiPages, SpiWeak, Slots, Modes,                    \* SpiNand
    ParaPages, ParaWeak, Erased, Depth, Failures,       \* ParaNand
    NumberOfPorts, Tries, EnumRetries,                  \* EhciEnum
    TestTries, LongSectors, BotFailures,                \* EhciMsc
    MaxSkips, MscRetries, PortEvents                       \* UsbMsc

Drivers == {"sd", "spi", "para", "ehci enum", "ehci storage", "xhci storage"}

VARIABLES
    medium,     \* the one booted from, fixed
    \* hal_sd_mmc.c
    sdKind, sdEmmc, sdPc, sdRetry, sdLoop, sdCaller, sdHostHcs, sdWhatDev,
    sdRd, sdHs, sdCtrlWidth, sdFast, sdState, sdApp, sdCardWidth, sdAddressed,
    sdGood, sdSector, sdData, sdNoise, sdUnsure, sdConfig, sdEnabled,
    \* spi_nand.c
    spiMode, spiPc, spiFlag, spiB0, spiValue, spiRow, spiSlot, spiRet,
    spiResult, spiJobs, spiDone, spiCache, spiMem, spiLeft, spiClean,
    \* para_nand.c
    paraPc, paraAgain, paraEcc, paraRow, paraBuf, paraStatus, paraResult,
    paraQueue, paraIntr, paraRegion, paraLeft, paraFailures, paraClean,
    paraSilent, paraGeometry,
    \* ehci_usb.c, enumeration
    enumPc, enumAt, enumAddr, enumPowered, enumLate, enumIsHub, enumPortNum,
    enumNextPortInHub, enumEHCIAddr, enumDct, enumRet, enumGot, enumAgain,
    enumOutlasted,
    \* ehci_usb.c, mass storage
    botPc, botJob, botTries, botLeft, botTested, botLong, botTag, botCb,
    botTail, botDest, botDevice, botToggle, botFailures, botPassed, botStale,
    botCut,
    \* xhci_usb.c, mass storage
    mscPc, mscPhase, mscJob, mscLeft, mscTag, mscActLen, mscDataActlent,
    mscSkips, mscMem, mscQueue, mscEvents, mscHalted, mscDevice, mscTold,
    mscSlip, mscPorts

sdVars ==
    <<sdKind, sdEmmc, sdPc, sdRetry, sdLoop, sdCaller, sdHostHcs, sdWhatDev,
      sdRd, sdHs, sdCtrlWidth, sdFast, sdState, sdApp, sdCardWidth, sdAddressed,
      sdGood, sdSector, sdData, sdNoise, sdUnsure, sdConfig, sdEnabled>>
spiVars ==
    <<spiMode, spiPc, spiFlag, spiB0, spiValue, spiRow, spiSlot, spiRet,
      spiResult, spiJobs, spiDone, spiCache, spiMem, spiLeft, spiClean>>
paraVars ==
    <<paraPc, paraAgain, paraEcc, paraRow, paraBuf, paraStatus, paraResult,
      paraQueue, paraIntr, paraRegion, paraLeft, paraFailures, paraClean,
      paraSilent, paraGeometry>>
enumVars ==
    <<enumPc, enumAt, enumAddr, enumPowered, enumLate, enumIsHub, enumPortNum,
      enumNextPortInHub, enumEHCIAddr, enumDct, enumRet, enumGot, enumAgain,
      enumOutlasted>>
botVars ==
    <<botPc, botJob, botTries, botLeft, botTested, botLong, botTag, botCb,
      botTail, botDest, botDevice, botToggle, botFailures, botPassed, botStale,
      botCut>>
mscVars ==
    <<mscPc, mscPhase, mscJob, mscLeft, mscTag, mscActLen, mscDataActlent,
      mscSkips, mscMem, mscQueue, mscEvents, mscHalted, mscDevice, mscTold,
      mscSlip, mscPorts>>
vars == <<medium, sdVars, spiVars, paraVars, enumVars, botVars, mscVars>>

Sd == INSTANCE SdCard WITH
    Retries <- SdRetries, kind <- sdKind, emmc <- sdEmmc, pc <- sdPc,
    retry <- sdRetry, loop <- sdLoop, caller <- sdCaller,
    host_hcs <- sdHostHcs, what_dev <- sdWhatDev, rd <- sdRd, hs <- sdHs,
    ctrlWidth <- sdCtrlWidth, fast <- sdFast, state <- sdState, app <- sdApp,
    cardWidth <- sdCardWidth, addressed <- sdAddressed, good <- sdGood,
    sector <- sdSector, data <- sdData, noise <- sdNoise, unsure <- sdUnsure,
    config <- sdConfig, enabled <- sdEnabled
Spi == INSTANCE SpiNand WITH
    Pages <- SpiPages, Weak <- SpiWeak, mode <- spiMode, pc <- spiPc,
    flag <- spiFlag, b0 <- spiB0, value <- spiValue, row <- spiRow,
    slot <- spiSlot, ret <- spiRet, result <- spiResult, jobs <- spiJobs,
    done <- spiDone, cache <- spiCache, mem <- spiMem, left <- spiLeft,
    clean <- spiClean
Para == INSTANCE ParaNand WITH
    Pages <- ParaPages, Weak <- ParaWeak, pc <- paraPc, again <- paraAgain,
    ecc <- paraEcc, row <- paraRow, buf <- paraBuf, status <- paraStatus,
    result <- paraResult, queue <- paraQueue, intr <- paraIntr,
    region <- paraRegion, left <- paraLeft, failures <- paraFailures,
    clean <- paraClean, silent <- paraSilent, geometry <- paraGeometry
Enum == INSTANCE EhciEnum WITH
    Retries <- EnumRetries, pc <- enumPc, at <- enumAt, addr <- enumAddr,
    powered <- enumPowered, late <- enumLate, is_hub <- enumIsHub,
    port_num <- enumPortNum, next_port_in_hub <- enumNextPortInHub,
    EHCI_addr <- enumEHCIAddr, dct <- enumDct, ret <- enumRet, got <- enumGot,
    again <- enumAgain, outlasted <- enumOutlasted
Bot == INSTANCE EhciMsc WITH
    Failures <- BotFailures, pc <- botPc, job <- botJob, tries <- botTries,
    left <- botLeft, tested <- botTested, long <- botLong, tag <- botTag,
    cb <- botCb, tail <- botTail, dest <- botDest, device <- botDevice,
    toggle <- botToggle, failures <- botFailures, passed <- botPassed,
    stale <- botStale, cut <- botCut
Msc == INSTANCE UsbMsc WITH
    Retries <- MscRetries, Reads <- MscReads, Ports <- PortEvents, pc <- mscPc, phase <- mscPhase,
    job <- mscJob, left <- mscLeft, tag <- mscTag, act_len <- mscActLen,
    data_actlent <- mscDataActlent, skips <- mscSkips, mem <- mscMem,
    queue <- mscQueue, events <- mscEvents, halted <- mscHalted,
    device <- mscDevice, told <- mscTold, slip <- mscSlip,
    ports <- mscPorts

ASSUME MediaAssumption ==
    /\ MediaTypes \subseteq Drivers
    /\ Sd!SdCardAssumption /\ Spi!SpiNandAssumption /\ Para!ParaNandAssumption
    /\ Enum!EhciEnumAssumption /\ Bot!EhciMscAssumption /\ Msc!UsbMscAssumption

-----------------------------------------------------------------------------
(* The drivers of the other media stay at one of their initial states.      *)
Pick(d, where) == medium = d \/ where

Init ==
    /\ medium \in MediaTypes
    /\ Sd!Init /\ Pick("sd", sdKind = "none" /\ ~sdEmmc /\ sdRd = 0 /\ sdState = "idle")
    /\ Spi!Init /\ Pick("spi", spiMode = (CHOOSE x \in Modes : TRUE) /\ spiSlot = (CHOOSE x \in Slots : TRUE))
    /\ Para!Init
    /\ Enum!Init /\ Pick("ehci enum", enumAt = [p \in DOMAIN enumAt |-> "none"])
    /\ Bot!Init /\ Pick("ehci storage", botTail = "zero")
    /\ Msc!Init

SdStep == medium = "sd" /\ UNCHANGED <<medium, spiVars, paraVars, enumVars, botVars, mscVars>>
SpiStep == medium = "spi" /\ UNCHANGED <<medium, sdVars, paraVars, enumVars, botVars, mscVars>>
ParaStep == medium = "para" /\ UNCHANGED <<medium, sdVars, spiVars, enumVars, botVars, mscVars>>
EnumStep == medium = "ehci enum" /\ UNCHANGED <<medium, sdVars, spiVars, paraVars, botVars, mscVars>>
BotStep == medium = "ehci storage" /\ UNCHANGED <<medium, sdVars, spiVars, paraVars, enumVars, mscVars>>
MscStep == medium = "xhci storage" /\ UNCHANGED <<medium, sdVars, spiVars, paraVars, enumVars, botVars>>

Next ==
    \/ SdStep /\ Sd!Next
    \/ SpiStep /\ Spi!Next
    \/ ParaStep /\ Para!Next
    \/ EnumStep /\ Enum!Next
    \/ BotStep /\ Bot!Next
    \/ MscStep /\ Msc!Next

(* The fairness of each driver's own specification: as only one driver      *)
(* works, that of all of them can be stated together.                       *)
Processor ==
    \/ SdStep /\ (Sd!Identify \/ Sd!Read)
    \/ SpiStep /\ Spi!Driver
    \/ ParaStep /\ Para!Driver
    \/ EnumStep /\ (Enum!Driver \/ Enum!BootReset)
    \/ BotStep /\ Bot!Caller
    \/ MscStep /\ Msc!Driver

Controller ==
    \/ SdStep /\ Sd!CardReady
    \/ BotStep /\ (Bot!Transfer \/ Bot!TransferFails)
    \/ MscStep /\ Msc!RunOut

Fairness ==
    /\ WF_vars(Processor) /\ WF_vars(Controller)
    /\ WF_vars(MscStep /\ Msc!RunIn) /\ WF_vars(MscStep /\ Msc!RunControl)

Spec == Init /\ [][Next]_vars /\ Fairness

-----------------------------------------------------------------------------
(* The drivers as block devices.  usb2_init reads no blocks, and            *)
(* usb_readSector of xhci_usb.c promises none: it returns 0 whatever        *)
(* happened.                                                                *)

Nothing == 0

Ended(result) == CASE result = "none" -> "idle" [] result = "ok" -> "good" [] result = "fail" -> "failed"

Phase ==
    CASE medium = "sd" ->
            (CASE sdPc \in {"read", "stop"} -> "reading" [] sdPc = "done" -> "good"
               [] sdPc \in {"failed", "no switch"} -> "failed" [] OTHER -> "idle")
      [] medium = "spi" -> IF spiRow # Nothing /\ spiPc \notin {"idle", "over"} THEN "reading" ELSE Ended(spiResult)
      [] medium = "para" -> IF paraRow > Nothing /\ paraPc \notin {"idle", "over"} THEN "reading" ELSE Ended(paraResult)
      [] medium = "ehci storage" ->
            (CASE botPc = "reset" -> "failed"
               [] botPc # "reset" /\ botLeft = Reads /\ botJob # "read" /\ botTries < TestTries -> "idle"
               [] OTHER -> IF botPc \in {"next", "done"} THEN IF botJob = "read" THEN "good" ELSE "idle" ELSE "reading")
      [] OTHER -> "idle"

Asked ==
    CASE medium = "sd" -> sdSector
      [] medium = "spi" -> spiRow
      [] medium = "para" -> IF paraRow > Nothing THEN paraRow ELSE Nothing
      [] medium = "ehci storage" -> Reads - botLeft
      [] OTHER -> Nothing

Found ==
    CASE medium = "sd" -> IF sdData < Nothing THEN Nothing ELSE sdData
      [] medium = "spi" -> LET m == spiMem[spiSlot] IN IF m.data = m.parity /\ m.data \notin SpiWeak THEN m.data ELSE Nothing
      [] medium = "para" -> IF paraBuf \notin ParaWeak THEN paraBuf ELSE Nothing
      [] medium = "ehci storage" -> IF botPassed /\ botDest = botTag THEN Reads - botLeft ELSE Nothing
      [] OTHER -> Nothing

Sure ==
    CASE medium = "sd" -> Phase = "idle" \/ "no reset" \notin sdUnsure
      [] medium = "spi" -> Phase = "idle" \/ (spiClean /\ spiB0 # "garbage")
      [] medium = "para" -> Phase = "idle" \/ (paraClean /\ ~paraSilent)
      [] medium = "ehci storage" -> ~botStale /\ ~botCut
      [] OTHER -> TRUE

Device == INSTANCE BlockDevice WITH
    Blocks <- 1 .. Reads \cup SpiPages \cup ParaPages,
    phase <- Phase, asked <- Asked, found <- Found, sure <- Sure

-----------------------------------------------------------------------------
(* Properties                                                               *)

(* The types of each driver's variables.                                    *)
TypeOK ==
    medium \in MediaTypes /\ Sd!TypeOK /\ Spi!TypeOK /\ Para!TypeOK /\ Enum!TypeOK /\ Bot!TypeOK /\ Msc!TypeOK

(* ReadSDSector, SPINANDReadNANDPage_1K60, PNANDReadNANDPage_1K60 and       *)
(* usb2_readSector are block devices: whatever gets lost, garbled or late,  *)
(* a read that reports success has left the block asked for in memory, and  *)
(* nothing still running changes it afterwards.  Sure names what the        *)
(* drivers do not check: the rest of a page after DMA, a parallel NAND that *)
(* stays silent, a card whose CMD0 failed, and how much a USB disk sent.    *)
ImplementsDevice == Device!Spec

(* SD and eMMC: the number of data lines of the card and of the controller. *)
WidthsAgree == Sd!WidthsAgree

(* eMMC: selecting the user area changes nothing else of the card.          *)
BootEnableKept == Sd!BootEnableKept

(* SD and eMMC: the retries of a read suffice to find a good setting.       *)
RetriesSuffice == Sd!RetriesSuffice

(* Parallel NAND: ECC is on whenever a page is asked for.                   *)
EccRestored == Para!EccRestored

(* EHCI: no two devices answer to one address while resets end in time.     *)
AddressesUnique == Enum!AddressesUnique

(* EHCI: what is meant for the hub reaches the hub.                         *)
AsksTheHub == Enum!AsksTheHub

(* EHCI: no disk on a hub is passed over while resets end in time.          *)
NoDiskMissed == Enum!NoDiskMissed

(* EHCI: data toggles agree after every command.                            *)
TogglesAgree == Bot!TogglesAgree

(* xHCI: a command counts as passed only if the device passed it,           *)
SuccessIsOwn == Msc!SuccessIsOwn

(* and then its data is in the buffer.                                      *)
DataIsOwn == Msc!DataIsOwn

(* Each driver ends, but where its own module says it may not.              *)
Settles ==
    <>(\/ medium = "sd" /\ Sd!Settled
       \/ medium = "spi" /\ Spi!Settled
       \/ medium = "para" /\ Para!Settled
       \/ medium = "ehci enum" /\ Enum!Settled
       \/ medium = "ehci storage" /\ Bot!Settled
       \/ medium = "xhci storage" /\ Msc!Settled)
=============================================================================
