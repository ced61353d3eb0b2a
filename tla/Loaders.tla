------------------------------ MODULE Loaders ------------------------------
(***************************************************************************)
(* The media with two copies of U-Boot: boot_flow calls nand_uboot for a    *)
(* NAND and emmc_boot for an eMMC, one of them in a boot.  Both promise     *)
(* UbootSource.                                                             *)
(***************************************************************************)
EXTENDS Integers

CONSTANTS
    LoaderTypes,    \* a subset of AllLoaders
    HasFip,         \* the part boots through a FIP (Q645, SP7350)
    AppBlk, SearchBlks, FipBlk, PagesPerBlk, PageSize,  \* NandUboot
    HdrSize, SignSize, MaxPages, Factories, Updates,
    Fips, Faults,
    Layouts, Flaws                                      \* EmmcUboot

AllLoaders == {"nand", "emmc"}

VARIABLES
    loader,     \* the one that runs, fixed
    \* xboot.c, nand_uboot
    nandImgs, nandBad, nandWeak, nandStage, nandStep, nandI, nandN, nandReal,
    nandBlkStart, nandHdr1, nandMem,
    \* xboot.c, emmc_boot
    emmcLayout, emmcFlaws, emmcWeak, emmcStage, emmcBoothead, emmcI,
    emmcStart1, emmcStart2, emmcMem

nandVars ==
    <<nandImgs, nandBad, nandWeak, nandStage, nandStep, nandI, nandN,
      nandReal, nandBlkStart, nandHdr1, nandMem>>
emmcVars ==
    <<emmcLayout, emmcFlaws, emmcWeak, emmcStage, emmcBoothead, emmcI,
      emmcStart1, emmcStart2, emmcMem>>
vars == <<loader, nandVars, emmcVars>>

Nand == INSTANCE NandUboot WITH
    imgs <- nandImgs, bad <- nandBad, weak <- nandWeak, stage <- nandStage,
    step <- nandStep, i <- nandI, n <- nandN, real <- nandReal,
    blkStart <- nandBlkStart, hdr1 <- nandHdr1, mem <- nandMem
Emmc == INSTANCE EmmcUboot WITH
    layout <- emmcLayout, flaws <- emmcFlaws, weak <- emmcWeak,
    stage <- emmcStage, boothead <- emmcBoothead, i <- emmcI,
    start1 <- emmcStart1, start2 <- emmcStart2, mem <- emmcMem

ASSUME LoadersAssumption ==
    LoaderTypes \subseteq AllLoaders /\ Nand!NandAssumption /\ Emmc!EmmcAssumption

(* The other loader stays at an initial state.                              *)
Init ==
    /\ loader \in LoaderTypes
    /\ IF loader = "nand" THEN Nand!Init
       ELSE /\ nandImgs = [k \in Nand!Ids |-> Nand!Absent] /\ nandBad = {} /\ nandWeak = {}
            /\ nandStage = "hdr1" /\ nandStep = "find" /\ nandI = 0 /\ nandN = 0 /\ nandReal = 0
            /\ nandBlkStart = AppBlk /\ nandHdr1 = 0 /\ nandMem = [s \in Nand!Slots |-> <<>>]
    /\ IF loader = "emmc" THEN Emmc!Init
       ELSE /\ emmcLayout = <<>> /\ emmcFlaws = <<>> /\ emmcWeak = {}
            /\ emmcStage = "init" /\ emmcBoothead = "old" /\ emmcI = 1
            /\ emmcStart1 = Emmc!NotSet /\ emmcStart2 = Emmc!NotSet /\ emmcMem = <<>>

NandStep == loader = "nand" /\ UNCHANGED <<loader, emmcVars>>
EmmcStep == loader = "emmc" /\ UNCHANGED <<loader, nandVars>>

Next ==
    \/ NandStep /\ Nand!Next
    \/ EmmcStep /\ Emmc!Next

Spec == Init /\ [][Next]_vars /\ WF_vars(Next)

-----------------------------------------------------------------------------
(* Properties                                                               *)

(* What boot_uboot is given was written by one load of one undamaged image  *)
(* in each area.                                                            *)
BootsWhole == (loader = "nand" => Nand!BootsWhole) /\ (loader = "emmc" => Emmc!BootsWhole)

(* The u-boot source the loader that runs is: what it takes is intact, what *)
(* it must find it uses, the update before the factory copy, and it ends.   *)
IsNand == loader = "nand"
Source == INSTANCE UbootSource WITH
    intact <- IF IsNand THEN Nand!IntactCopies ELSE Emmc!IntactCopies,
    must <- IF IsNand THEN Nand!Must ELSE Emmc!Must,
    outcome <- IF IsNand THEN Nand!Outcome ELSE Emmc!Outcome
ImplementsSource == Source!Spec
=============================================================================
