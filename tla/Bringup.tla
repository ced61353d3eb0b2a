------------------------------ MODULE Bringup ------------------------------
(***************************************************************************)
(* The parts of xboot beside its media: the voltage is set (PmicI2c), a     *)
(* host may burn fuses (OtpMonitor), the training code finds its firmware   *)
(* (TrainingFw), DRAM is tested (DramTest), an operator may use the shell   *)
(* (MonShell), the root ports are asked for a device (RootHub), it is       *)
(* configured (UsbConfig), data are moved (BulkTd), an image's signature is *)
(* checked (ImageVerify), and the other cores are started (CpuWake).        *)
(* They run one after the other and leave nothing to each other but what    *)
(* BootFlow has: a behaviour of this module is one of one part.             *)
(***************************************************************************)
EXTENDS Integers

CONSTANTS
    Parts,          \* a subset of AllParts
    Platforms, Harts, Tables,                                   \* CpuWake
    Requests, MaxSent, MaxLost, MaxLate, BufSize,               \* OtpMonitor
    Chips, Pointers, MaxNacks,                                  \* PmicI2c
    VerifyChips, SignedBuilds, Faults, Keys, VerifyPieces,      \* ImageVerify
    Devices, MaxDevices, MaxInterfaces, MaxEndpoints,           \* UsbConfig
    FwClusters, FwLength, FwSectsPerClus, FwEnds, FwStarts,     \* TrainingFw
    MaxTables, MaxFwLen, MaxFwLost,
    AddrBits, DramBegin, DramEnd,                               \* DramTest
    HexBase, DecBase, MaxDigits, CountMod, MaxTyped,            \* MonShell
    RootPorts, Forced, PortPower, Speeds, PortTries, MaxPlugs,  \* RootHub
    FollowLate,
    Boundary, Buffers, Lengths, PacketSizes, Old, MaxTdSize, TdUnit     \* BulkTd

AllParts == {"cores", "otp", "pmic", "verify", "config", "training", "dram", "shell", "ports", "bulk"}

VARIABLES
    part,       \* the one that runs, fixed
    \* xboot.c, arch/, warmboot/
    cpuPlat, cpuTable, cpuBoth, cpuPc, cpuWord, cpuPos, cpuVector, cpuCode,
    cpuClosed, cpuT1, cpuI, cpuRan,
    \* otp/
    otpWire, otpSent, otpAsked, otpAnswer, otpPc, otpStage, otpData,
    otpReadnum, otpPackagelen, otpAddress, otpRlt, otpFuses, otpLost,
    otpLate,
    \* i2c/sp_i2c.c
    pmicChip, pmicPc, pmicJob, pmicBuf, pmicTodo, pmicFifo, pmicRx, pmicBus,
    pmicShift, pmicAbrt, pmicPointer, pmicTold, pmicRegs, pmicNacks,
    pmicHasty,
    \* common/verify_image*.c
    verChip, verBuild, verSecure, verSbKpub, verDevKpriv, verFaults,
    verEncrypted, verImg, verPc, verBody, verSign, verKept, verHash, verDst,
    verGood, verN, verJob, verSECIF, verDcache, verRet,
    \* usb/xhci_usb.c, descriptors
    confDev, confBefore, confPc, confIndex, confIfno, confEpno,
    confCurrIfNum, confNoOfIf, confIfDesc, confEpDir, confEpmaxpacket,
    confAddFlags, confInSlot, confInCtx, confOutSlot, confOutCtx, confRefused,
    \* fat/fat_boot.c, training firmware
    fwInfo, fwPc, fwResult, fwStartLba, fwI, fwCluster, fwTable, fwMaxLba,
    fwTables, fwLost,
    \* draminit/dram_test.c
    dramFault, dramMemory, dramPc, dramFlip, dramAddr, dramBad,
    \* romshare/regRW.c
    monPc, monCommand, monN, monCount, monResult, monFlag, monLine, monSame,
    monUnder, monNoise,
    \* usb/xhci_usb.c, root ports
    rootPlugged, rootHc, rootMemory, rootPortsc, rootPc, rootAt, rootPort,
    rootTries, rootReg, rootSpeed, rootLate, rootGone, rootPlugs,
    \* usb/xhci_usb.c, bulk_tx
    tdBuffer, tdLength, tdMaxpacketsize, tdPc, tdNumTrbs, tdRunningTotal,
    tdTrbBuffLen, tdAddr, tdTrbs

cpuVars ==
    <<cpuPlat, cpuTable, cpuBoth, cpuPc, cpuWord, cpuPos, cpuVector,
      cpuCode, cpuClosed, cpuT1, cpuI, cpuRan>>
otpVars ==
    <<otpWire, otpSent, otpAsked, otpAnswer, otpPc, otpStage, otpData,
      otpReadnum, otpPackagelen, otpAddress, otpRlt, otpFuses, otpLost,
      otpLate>>
pmicVars ==
    <<pmicChip, pmicPc, pmicJob, pmicBuf, pmicTodo, pmicFifo, pmicRx,
      pmicBus, pmicShift, pmicAbrt, pmicPointer, pmicTold, pmicRegs,
      pmicNacks, pmicHasty>>
verVars ==
    <<verChip, verBuild, verSecure, verSbKpub, verDevKpriv, verFaults,
      verEncrypted, verImg, verPc, verBody, verSign, verKept, verHash,
      verDst, verGood, verN, verJob, verSECIF, verDcache, verRet>>
confVars ==
    <<confDev, confBefore, confPc, confIndex, confIfno, confEpno,
      confCurrIfNum, confNoOfIf, confIfDesc, confEpDir, confEpmaxpacket,
      confAddFlags, confInSlot, confInCtx, confOutSlot, confOutCtx,
      confRefused>>
fwVars ==
    <<fwInfo, fwPc, fwResult, fwStartLba, fwI, fwCluster, fwTable, fwMaxLba,
      fwTables, fwLost>>
dramVars == <<dramFault, dramMemory, dramPc, dramFlip, dramAddr, dramBad>>
monVars ==
    <<monPc, monCommand, monN, monCount, monResult, monFlag, monLine,
      monSame, monUnder, monNoise>>
rootVars ==
    <<rootPlugged, rootHc, rootMemory, rootPortsc, rootPc, rootAt, rootPort,
      rootTries, rootReg, rootSpeed, rootLate, rootGone, rootPlugs>>
tdVars ==
    <<tdBuffer, tdLength, tdMaxpacketsize, tdPc, tdNumTrbs, tdRunningTotal,
      tdTrbBuffLen, tdAddr, tdTrbs>>
start == <<cpuVars, otpVars, pmicVars, verVars, fwVars>>
usb == <<confVars, rootVars, tdVars>>
vars == <<part, start, usb, dramVars, monVars>>

Cpu == INSTANCE CpuWake WITH
    plat <- cpuPlat, table <- cpuTable, both <- cpuBoth, pc <- cpuPc,
    word <- cpuWord, pos <- cpuPos, vector <- cpuVector, code <- cpuCode,
    closed <- cpuClosed, t1 <- cpuT1, i <- cpuI, ran <- cpuRan
Otp == INSTANCE OtpMonitor WITH
    wire <- otpWire, sent <- otpSent, asked <- otpAsked,
    answer <- otpAnswer, pc <- otpPc, stage <- otpStage, data <- otpData,
    readnum <- otpReadnum, packagelen <- otpPackagelen,
    address <- otpAddress, rlt <- otpRlt, fuses <- otpFuses,
    lost <- otpLost, late <- otpLate
Pmic == INSTANCE PmicI2c WITH
    chip <- pmicChip, pc <- pmicPc, job <- pmicJob, buf <- pmicBuf,
    todo <- pmicTodo, fifo <- pmicFifo, rx <- pmicRx, bus <- pmicBus,
    shift <- pmicShift, abrt <- pmicAbrt, pointer <- pmicPointer,
    told <- pmicTold, regs <- pmicRegs, nacks <- pmicNacks,
    hasty <- pmicHasty
Ver == INSTANCE ImageVerify WITH
    Pieces <- VerifyPieces,
    Chips <- VerifyChips, chip <- verChip, build <- verBuild,
    secure <- verSecure, Sb_Kpub <- verSbKpub, Dev_Kpriv <- verDevKpriv,
    faults <- verFaults, encrypted <- verEncrypted, img <- verImg,
    pc <- verPc, body <- verBody, sign <- verSign, kept <- verKept,
    hash <- verHash, dst <- verDst, good <- verGood, n <- verN,
    job <- verJob, SECIF <- verSECIF, dcache <- verDcache, ret <- verRet
Conf == INSTANCE UsbConfig WITH
    dev <- confDev, before <- confBefore, pc <- confPc, index <- confIndex,
    ifno <- confIfno, epno <- confEpno, curr_if_num <- confCurrIfNum,
    no_of_if <- confNoOfIf, if_desc <- confIfDesc, ep_dir <- confEpDir,
    epmaxpacket <- confEpmaxpacket, add_flags <- confAddFlags,
    in_slot <- confInSlot, in_ctx <- confInCtx, out_slot <- confOutSlot,
    out_ctx <- confOutCtx, refused <- confRefused
Fw == INSTANCE TrainingFw WITH
    info <- fwInfo, pc <- fwPc, result <- fwResult, start_lba <- fwStartLba,
    i <- fwI, cluster <- fwCluster, table <- fwTable, max_lba <- fwMaxLba,
    tables <- fwTables, lost <- fwLost
Dram == INSTANCE DramTest WITH
    Begin <- DramBegin, End <- DramEnd,
    fault <- dramFault, memory <- dramMemory, pc <- dramPc,
    flip <- dramFlip, addr <- dramAddr, bad <- dramBad
Mon == INSTANCE MonShell WITH
    pc <- monPc, command <- monCommand, n <- monN, count <- monCount,
    result <- monResult, flag <- monFlag, line <- monLine, same <- monSame,
    under <- monUnder, noise <- monNoise
Root == INSTANCE RootHub WITH
    plugged <- rootPlugged, hc <- rootHc, memory <- rootMemory,
    portsc <- rootPortsc, pc <- rootPc, at <- rootAt, port <- rootPort,
    tries <- rootTries, reg <- rootReg, speed <- rootSpeed,
    late <- rootLate, gone <- rootGone, plugs <- rootPlugs
Td == INSTANCE BulkTd WITH
    buffer <- tdBuffer, length <- tdLength, maxpacketsize <- tdMaxpacketsize,
    pc <- tdPc, num_trbs <- tdNumTrbs, running_total <- tdRunningTotal,
    trb_buff_len <- tdTrbBuffLen, addr <- tdAddr, trbs <- tdTrbs

ASSUME BringupAssumption ==
    /\ Parts \subseteq AllParts
    /\ Cpu!CpuWakeAssumption /\ Otp!OtpMonitorAssumption /\ Pmic!PmicI2cAssumption
    /\ Ver!ImageVerifyAssumption /\ Conf!UsbConfigAssumption /\ Fw!TrainingFwAssumption
    /\ Dram!DramTestAssumption /\ Mon!MonShellAssumption /\ Root!RootHubAssumption /\ Td!BulkTdAssumption

-----------------------------------------------------------------------------
(* The other parts stay at one of their initial states.                     *)
Some(s) == CHOOSE x \in s : TRUE
Pick(p, where) == part = p \/ where

Init ==
    /\ part \in Parts
    /\ Cpu!Init /\ Pick("cores", cpuPlat = Some(Platforms) /\ cpuTable = "whole" /\ cpuBoth)
    /\ Otp!Init
    /\ Pmic!Init /\ Pick("pmic", pmicChip = Some(Chips) /\ pmicPointer = Some(Pointers))
    /\ Ver!Init
    /\ Pick("verify",
            /\ verChip = Some(VerifyChips) /\ verBuild /\ verSecure
            /\ verSbKpub = "right" /\ verDevKpriv = "right"
            /\ \A k \in Ver!Images : verFaults[k] = {} /\ ~verEncrypted[k])
    /\ Conf!Init /\ Pick("config", confDev = Some(Devices))
    /\ Fw!Init /\ Pick("training", fwInfo = Some([chain : Fw!Chains, spc : FwSectsPerClus, end : FwEnds]))
    /\ Dram!Init /\ Pick("dram", dramFault = Dram!Faultless /\ ~dramMemory[DramBegin][0])
    /\ Mon!Init
    /\ Root!Init /\ Pick("ports", rootHc = "halted" /\ rootPlugged = [p \in Root!Ports |-> "none"])
    /\ Td!Init /\ Pick("bulk", tdBuffer = Some(Buffers) /\ tdLength = Some(Lengths) /\ tdMaxpacketsize = Some(PacketSizes))

CpuStep == part = "cores" /\ UNCHANGED <<part, otpVars, pmicVars, verVars, fwVars, usb, dramVars, monVars>>
OtpStep == part = "otp" /\ UNCHANGED <<part, cpuVars, pmicVars, verVars, fwVars, usb, dramVars, monVars>>
PmicStep == part = "pmic" /\ UNCHANGED <<part, cpuVars, otpVars, verVars, fwVars, usb, dramVars, monVars>>
VerStep == part = "verify" /\ UNCHANGED <<part, cpuVars, otpVars, pmicVars, fwVars, usb, dramVars, monVars>>
FwStep == part = "training" /\ UNCHANGED <<part, cpuVars, otpVars, pmicVars, verVars, usb, dramVars, monVars>>
ConfStep == part = "config" /\ UNCHANGED <<part, start, rootVars, tdVars, dramVars, monVars>>
RootStep == part = "ports" /\ UNCHANGED <<part, start, confVars, tdVars, dramVars, monVars>>
TdStep == part = "bulk" /\ UNCHANGED <<part, start, confVars, rootVars, dramVars, monVars>>
DramStep == part = "dram" /\ UNCHANGED <<part, start, usb, monVars>>
MonStep == part = "shell" /\ UNCHANGED <<part, start, usb, dramVars>>

Next ==
    \/ CpuStep /\ Cpu!Next
    \/ OtpStep /\ Otp!Next
    \/ PmicStep /\ Pmic!Next
    \/ VerStep /\ Ver!Next
    \/ ConfStep /\ Conf!Next
    \/ FwStep /\ Fw!Next
    \/ DramStep /\ Dram!Next
    \/ MonStep /\ Mon!Next
    \/ RootStep /\ Root!Next
    \/ TdStep /\ Td!Next

(* The fairness of each part's own specification: as only one part runs,    *)
(* that of all of them can be stated together.                              *)
Processor ==
    \/ CpuStep /\ Cpu!StepOfBoss
    \/ OtpStep /\ Otp!Monitor
    \/ PmicStep /\ Pmic!Driver
    \/ VerStep /\ Ver!Core
    \/ ConfStep /\ Conf!Driver
    \/ FwStep /\ Fw!Driver
    \/ DramStep /\ Dram!Next
    \/ RootStep /\ Root!Driver
    \/ TdStep /\ Td!Next

Beside ==
    \/ CpuStep /\ Cpu!StepOfA
    \/ PmicStep /\ Pmic!Controller
    \/ VerStep /\ Ver!EngineDone

Fairness ==
    /\ WF_vars(Processor) /\ WF_vars(Beside)
    /\ \A c \in Cpu!Cores : WF_vars(CpuStep /\ Cpu!StepOf(c))

Spec == Init /\ [][Next]_vars /\ Fairness

-----------------------------------------------------------------------------
(* Properties                                                               *)

(* The types of each part's variables.                                      *)
TypeOK ==
    part \in Parts /\ Cpu!TypeOK /\ Otp!TypeOK /\ Pmic!TypeOK /\ Ver!TypeOK /\ Conf!TypeOK /\ Fw!TypeOK
    /\ Dram!TypeOK /\ Mon!TypeOK /\ Root!TypeOK /\ Td!TypeOK

(* No core runs anywhere but where it was told to, whichever goes first.    *)
StartsWhereTold == Cpu!StartsWhereTold

(* Fuses are burnt and read as the host asked, however its packages run     *)
(* together.                                                                *)
FusesAsAsked == Otp!FusesAsAsked

(* The voltage of an RT5759 is set and nothing else is written.             *)
VoltageSet == Pmic!VoltageSet

(* A verdict is one about the image that was sent.                          *)
VerdictRight == Ver!VerdictRight

(* The controller has the endpoints the device has, and transfers are cut   *)
(* to their size, whatever device was there before.                         *)
EndpointsFit == Conf!EndpointsFit

(* The training code finds the sectors of its firmware.                     *)
TableRight == Fw!TableRight

(* The DRAM test fails exactly on a memory that does not keep what is       *)
(* written to the words it tests.                                           *)
FaultsFound == Dram!FaultsFound

(* The shell stores what was typed, where it was typed.                     *)
StoresAsTyped == Mon!StoresAsTyped

(* A root port that is taken is enabled, under a controller set up as it    *)
(* should be.                                                               *)
PortReady == Root!PortReady

(* A bulk transfer is one TD over all of its data.                          *)
TdWhole == Td!TdWhole

(* Each part ends, but the shell: an operator types as long as they like.   *)
Settles ==
    <>(\/ part = "cores" /\ Cpu!Settled
       \/ part = "otp" /\ Otp!Settled
       \/ part = "pmic" /\ Pmic!Settled
       \/ part = "verify" /\ Ver!Settled
       \/ part = "config" /\ Conf!Settled
       \/ part = "training" /\ Fw!Settled
       \/ part = "dram" /\ Dram!Settled
       \/ part = "ports" /\ Root!Settled
       \/ part = "bulk" /\ Td!Settled
       \/ part = "shell")
=============================================================================
