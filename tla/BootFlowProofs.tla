-------------------------- MODULE BootFlowProofs --------------------------
(***************************************************************************)
(* Proofs about BootFlow, for every set of boards, images and any number    *)
(* of rounds: types, and that only checked images of the current round are  *)
(* started (LaunchChecked).  LaunchChecked speaks of the last state only;   *)
(* Inv says, location by location, what each loader has already secured.    *)
(***************************************************************************)
EXTENDS BootFlow, TLAPS

(* Where control is, seen through a shell session.                          *)
Here == IF pc = "shell" THEN back ELSE pc

Intact(slot) ==
    slot \in loaded /\ area[slot].flaws \cap {"magic", "hcrc", "dcrc"} = {}
Signed(slot) == board.secure => "sign" \notin area[slot].flaws

AfterUboot == {"verify_fip", "load_tfa", "go_a64", "choose_core", "exit_xboot",
               "wait_ca7", "launched"}

(* The AArch64 parts and the others take different ways through boot_uboot, *)
(* and only a build with zmem finds its images in memory.                   *)
PartsInv ==
    /\ Here = "zmem_check" => board.zmem
    /\ Here \in {"verify_fip", "load_tfa", "go_a64"} => A64
    /\ Here \in {"choose_core", "exit_xboot", "wait_ca7"} => ~A64

(* Half of the images: NOR and FAT load the FIP first, eMMC and NAND last.  *)
HalfInv ==
    /\ Here \in {"nor_uboot", "fat_uboot"} /\ A64 => Intact("fip")
    /\ Here \in {"emmc_fip", "nand_fip"} => Intact("uboot")

(* Both, from boot_uboot on, unless the images came with zmem.              *)
BothInv ==
    Here \in AfterUboot \cup {"boot_uboot"} /\ ~board.zmem =>
        Intact("uboot") /\ (A64 => Intact("fip"))

(* Signatures are settled one after the other.                              *)
SignedInv ==
    /\ Here \in AfterUboot => Signed("uboot")
    /\ Here \in {"load_tfa", "go_a64"} \/ (Here = "launched" /\ A64) => Signed("fip")

Inv == TypeOK /\ PartsInv /\ HalfInv /\ BothInv /\ SignedInv

-----------------------------------------------------------------------------
(* The placeholder of an area nothing was read into is an image.            *)
LEMMA NoImageType == NoImage \in ImageType
BY DEF NoImage, ImageType, Cores, Flaws

(* What a loader accepts has its header and its data checksums right,       *)
(* whatever else that loader checks.                                        *)
LEMMA AcceptedIntact ==
    ASSUME NEW img, NEW d, Accepts(d, img)
    PROVE  img.flaws \cap {"magic", "hcrc", "dcrc"} = {}
BY DEF Accepts, Checks

(* Every image a step can bring in is of the image type.                    *)
LEMMA ImagesTyped ==
    ASSUME TypeOK
    PROVE  media.fip \in ImageType /\ Copies \subseteq ImageType
<1>1. media.fip \in ImageType
  BY NoImageType, BootFlowAssumption DEF TypeOK, MediaType
<1>2. Copies \subseteq ImageType
  <2>1. media.uboot \subseteq ImageType
    BY BootFlowAssumption DEF TypeOK, MediaType
  <2> QED BY <2>1, NoImageType DEF Copies
<1> QED BY <1>1, <1>2

-----------------------------------------------------------------------------
(* The initial states satisfy the invariant: nothing is past its loader.    *)
LEMMA InitInv == Init => Inv
<1> SUFFICES ASSUME Init PROVE Inv
  OBVIOUS
<1>1. TypeOK
  <2>1. area \in [{"uboot", "fip"} -> ImageType]
    BY NoImageType DEF Init
  <2>2. retry \in 0 .. Retries
    BY BootFlowAssumption DEF Init
  <2> QED BY <2>1, <2>2 DEF Init, TypeOK, Modes, Locations, ShellReturns, Cores
<1>2. Here = "round"
  BY DEF Init, Here
<1> QED BY <1>1, <1>2 DEF Inv, PartsInv, HalfInv, BothInv, SignedInv, AfterUboot

(* A load keeps the types, whichever of its outcomes happens.               *)
LEMMA LoadTypes ==
    ASSUME TypeOK, NEW slot \in {"uboot", "fip"}, NEW d, NEW img \in ImageType,
           NEW ok \in Locations,
           Load(slot, d, img, ok)
    PROVE  TypeOK'
<1>1. pc' \in Locations /\ back' \in ShellReturns
  BY DEF Load, LoaderFails, Goto, Shell, TypeOK, Locations, ShellReturns
<1>2. area' \in [{"uboot", "fip"} -> ImageType]
  BY NoImageType DEF Load, TypeOK
<1>3. loaded' \subseteq {"uboot", "fip"}
  BY DEF Load, TypeOK
<1> QED BY <1>1, <1>2, <1>3 DEF Load, TypeOK, fixed

-----------------------------------------------------------------------------
(* Every step keeps the types.                                              *)
LEMMA TypeStep == TypeOK /\ [Next]_vars => TypeOK'
<1> SUFFICES ASSUME TypeOK, [Next]_vars PROVE TypeOK'
  OBVIOUS
<1> USE DEF fixed
<1>i. media.fip \in ImageType /\ Copies \subseteq ImageType /\ NoImage \in ImageType
  BY ImagesTyped, NoImageType
<1>1. CASE StartRound
  <2>1. Entry[mode] \in Locations
    BY DEF TypeOK, Entry, Locations
  <2>2. retry' \in 0 .. Retries
    BY <1>1, BootFlowAssumption DEF StartRound, TypeOK
  <2>3. pc' \in Locations /\ back' \in ShellReturns
    BY <1>1, <2>1 DEF StartRound, Shell, Goto, TypeOK, Locations, ShellReturns
  <2> QED BY <1>1, <2>2, <2>3 DEF StartRound, TypeOK
<1>2. CASE Halt
  BY <1>2 DEF Halt, Goto, TypeOK, Locations, ShellReturns
<1>3. CASE NotSupport
  BY <1>3 DEF NotSupport, Shell, TypeOK, Locations, ShellReturns
<1>4. CASE NorDram
  BY <1>4 DEF NorDram, RunDramInit, AfterDram, Goto, Shell, TypeOK, Locations, ShellReturns
<1>5. CASE EmmcDram
  BY <1>5 DEF EmmcDram, RunDramInit, AfterDram, Goto, Shell, TypeOK, Locations, ShellReturns
<1>6. CASE EmmcInit
  BY <1>6 DEF EmmcInit, Goto, TypeOK, Locations, ShellReturns
<1>7. CASE NandInit
  BY <1>7 DEF NandInit, Goto, TypeOK, Locations, ShellReturns
<1>8. CASE NandDram
  BY <1>8 DEF NandDram, RunDramInit, AfterDram, Goto, Shell, TypeOK, Locations, ShellReturns
<1>9. CASE FatFind
  BY <1>9 DEF FatFind, Goto, TypeOK, Locations, ShellReturns
<1>10. CASE FatDram
  BY <1>10 DEF FatDram, RunDramInit, Goto, Shell, TypeOK, Locations, ShellReturns
<1>11. CASE FatMode
  BY <1>11 DEF FatMode, fat_sdcard_check_boot_mode, AfterDram, Goto, Modes, TypeOK, Locations, ShellReturns
<1>12. CASE VerifyUboot
  BY <1>12 DEF VerifyUboot, Verify, Goto, Shell, TypeOK, Locations, ShellReturns
<1>13. CASE VerifyFip
  BY <1>13 DEF VerifyFip, Verify, Goto, Shell, TypeOK, Locations, ShellReturns
<1>14. CASE LoadTfa
  BY <1>14 DEF LoadTfa, Goto, Shell, TypeOK, Locations, ShellReturns
<1>15. CASE GoA64
  BY <1>15 DEF GoA64, Launch, Goto, Cores, TypeOK, Locations, ShellReturns
<1>16. CASE ChooseCore
  BY <1>16 DEF ChooseCore, Goto, Shell, TypeOK, Locations, ShellReturns
<1>17. CASE ExitXboot
  <2>1. area.uboot.core \in Cores
    BY DEF TypeOK, ImageType
  <2>2. board.cpu \in Cores
    BY BootFlowAssumption DEF TypeOK, BoardType
  <2> QED BY <1>17, <2>1, <2>2 DEF ExitXboot, Launch, Goto, TypeOK, Locations
<1>18. CASE Ca7Ready
  BY <1>18 DEF Ca7Ready, Launch, Goto, TypeOK, Locations, Cores
<1>19. CASE ShellQuit
  BY <1>19 DEF ShellQuit, Goto, TypeOK, Locations, ShellReturns
<1>20. CASE NorFip
  <2>1. Load("fip", "nor", media.fip, "nor_uboot") /\ "nor_uboot" \in Locations
    BY <1>20 DEF NorFip, Locations
  <2> QED BY <2>1, <1>i, LoadTypes
<1>21. CASE EmmcFip
  <2>1. Load("fip", "emmc", media.fip, "boot_uboot") /\ "boot_uboot" \in Locations
    BY <1>21 DEF EmmcFip, Locations
  <2> QED BY <2>1, <1>i, LoadTypes
<1>22. CASE NandFip
  <2>1. Load("fip", "nand", media.fip, "boot_uboot") /\ "boot_uboot" \in Locations
    BY <1>22 DEF NandFip, Locations
  <2> QED BY <2>1, <1>i, LoadTypes
<1>23. CASE NorUboot
  <2>1. PICK img \in Copies :
          Load("uboot", "nor", img, "boot_uboot")
    BY <1>23 DEF NorUboot
  <2>2. ("boot_uboot") \in Locations
    BY DEF Locations
  <2> QED BY <2>1, <2>2, <1>i, LoadTypes
<1>24. CASE EmmcUboot
  <2>1. PICK img \in Copies :
          Load("uboot", "emmc", img, IF A64 THEN "emmc_fip" ELSE "boot_uboot")
    BY <1>24 DEF EmmcUboot
  <2>2. (IF A64 THEN "emmc_fip" ELSE "boot_uboot") \in Locations
    BY DEF Locations
  <2> QED BY <2>1, <2>2, <1>i, LoadTypes
<1>25. CASE NandUbootLoad
  <2>1. PICK img \in Copies :
          Load("uboot", "nand", img, IF A64 THEN "nand_fip" ELSE "boot_uboot")
    BY <1>25 DEF NandUbootLoad
  <2>2. (IF A64 THEN "nand_fip" ELSE "boot_uboot") \in Locations
    BY DEF Locations
  <2> QED BY <2>1, <2>2, <1>i, LoadTypes
<1>26. CASE FatUboot
  <2>1. PICK img \in IF UbootReachable THEN Copies ELSE {NoImage} :
          Load("uboot", "fat", img, "boot_uboot")
    BY <1>26 DEF FatUboot
  <2>2. "boot_uboot" \in Locations /\ img \in ImageType
    BY <1>i DEF Locations
  <2> QED BY <2>1, <2>2, LoadTypes
<1>27. CASE FatFip
  <2>1. CASE FipReachable
    <3>1. Load("fip", "fat", media.fip, "fat_uboot")
      BY <1>27, <2>1 DEF FatFip
    <3>2. "fat_uboot" \in Locations
      BY DEF Locations
    <3> QED BY <3>1, <3>2, <1>i, LoadTypes
  <2>2. CASE ~FipReachable
    BY <1>27, <2>2, <1>i DEF FatFip, Goto, TypeOK, Locations
  <2> QED BY <2>1, <2>2
<1>28. CASE ZmemCheck
  <2>1. area' \in [{"uboot", "fip"} -> ImageType]
    BY <1>28, <1>i DEF ZmemCheck
  <2> QED BY <1>28, <2>1 DEF ZmemCheck, Goto, Shell, TypeOK, Locations, ShellReturns
<1>29. CASE UNCHANGED vars
  BY <1>29 DEF vars, TypeOK
<1> QED
  BY <1>1, <1>2, <1>3, <1>4, <1>5, <1>6, <1>7, <1>8, <1>9, <1>10, <1>11, <1>12, <1>13, <1>14, <1>15, <1>16, <1>17, <1>18, <1>19, <1>20, <1>21, <1>22, <1>23, <1>24, <1>25, <1>26, <1>27, <1>28, <1>29 DEF Next, Program, Done

-----------------------------------------------------------------------------
(* A load either goes on with its slot intact and the other one as it was,  *)
(* or control is on its way back to boot_flow.                              *)
LEMMA LoadEffect ==
    ASSUME TypeOK, NEW slot \in {"uboot", "fip"}, NEW d, NEW img, NEW ok,
           Load(slot, d, img, ok)
    PROVE  /\ board' = board
           /\ \/ /\ pc' = ok
                 /\ Intact(slot)'
                 /\ \A s \in {"uboot", "fip"} : s # slot /\ Intact(s) => Intact(s)'
              \/ pc' = "not_support"
              \/ pc' = "shell" /\ back' = "not_support"
<1>1. board' = board
  BY DEF Load, fixed
<1>2. CASE Accepts(d, img) /\ area' = [area EXCEPT ![slot] = img]
           /\ loaded' = loaded \cup {slot} /\ Goto(ok)
  <2>1. img.flaws \cap {"magic", "hcrc", "dcrc"} = {}
    BY <1>2, AcceptedIntact
  <2>2. area'[slot] = img
    BY <1>2 DEF TypeOK
  <2>3. \A s \in {"uboot", "fip"} : s # slot => area'[s] = area[s]
    BY <1>2 DEF TypeOK
  <2> QED BY <1>1, <1>2, <2>1, <2>2, <2>3 DEF Intact, Goto
<1>3. CASE LoaderFails(d)
  BY <1>1, <1>3 DEF LoaderFails, Goto, Shell
<1> QED BY <1>2, <1>3 DEF Load

(* Everything Inv says of locations after a load is already true on the way *)
(* back to boot_flow.                                                       *)
LEMMA BackInv ==
    ASSUME TypeOK, pc' = "not_support" \/ (pc' = "shell" /\ back' = "not_support")
    PROVE  PartsInv' /\ HalfInv' /\ BothInv' /\ SignedInv'
<1>1. Here' = "not_support"
  BY DEF Here
<1> QED BY <1>1 DEF PartsInv, HalfInv, BothInv, SignedInv, AfterUboot

(* Every step keeps what the loaders have secured.                          *)
LEMMA StepInv == Inv /\ [Next]_vars => PartsInv' /\ HalfInv' /\ BothInv' /\ SignedInv'
<1> SUFFICES ASSUME Inv, [Next]_vars
             PROVE  PartsInv' /\ HalfInv' /\ BothInv' /\ SignedInv'
  OBVIOUS
<1> USE DEF fixed
<1>t. TypeOK
  BY DEF Inv
<1>1. CASE StartRound
  <2>1. Entry[mode] \in {"fat_find", "nor_dram", "nand_init", "emmc_dram", "not_support"}
    BY <1>t DEF TypeOK, Entry
  <2>2. Here' \in {"fat_find", "nor_dram", "nand_init", "emmc_dram", "not_support"}
    BY <1>1, <2>1 DEF StartRound, Goto, Shell, Here
  <2> QED BY <2>2 DEF PartsInv, HalfInv, BothInv, SignedInv, AfterUboot
<1>2. CASE Halt
  BY <1>2 DEF Halt, Goto, Here, PartsInv, HalfInv, BothInv, SignedInv, Intact, Signed, AfterUboot, A64, Inv
<1>3. CASE NotSupport
  BY <1>3 DEF NotSupport, Shell, Here, PartsInv, HalfInv, BothInv, SignedInv, Intact, Signed, AfterUboot, A64, Inv
<1>4. CASE NorDram
  BY <1>4 DEF NorDram, RunDramInit, AfterDram, Goto, Shell, Here, PartsInv, HalfInv, BothInv, SignedInv, Intact, Signed, AfterUboot, A64, Inv
<1>5. CASE EmmcDram
  BY <1>5 DEF EmmcDram, RunDramInit, AfterDram, Goto, Shell, Here, PartsInv, HalfInv, BothInv, SignedInv, Intact, Signed, AfterUboot, A64, Inv
<1>6. CASE EmmcInit
  BY <1>6 DEF EmmcInit, Goto, Here, PartsInv, HalfInv, BothInv, SignedInv, Intact, Signed, AfterUboot, A64, Inv
<1>7. CASE NandInit
  BY <1>7 DEF NandInit, Goto, Here, PartsInv, HalfInv, BothInv, SignedInv, Intact, Signed, AfterUboot, A64, Inv
<1>8. CASE NandDram
  BY <1>8 DEF NandDram, RunDramInit, AfterDram, Goto, Shell, Here, PartsInv, HalfInv, BothInv, SignedInv, Intact, Signed, AfterUboot, A64, Inv
<1>9. CASE FatFind
  BY <1>9 DEF FatFind, Goto, Here, PartsInv, HalfInv, BothInv, SignedInv, Intact, Signed, AfterUboot, A64, Inv
<1>10. CASE FatDram
  BY <1>10 DEF FatDram, RunDramInit, Goto, Shell, Here, PartsInv, HalfInv, BothInv, SignedInv, Intact, Signed, AfterUboot, A64, Inv
<1>11. CASE FatMode
  BY <1>11 DEF FatMode, fat_sdcard_check_boot_mode, AfterDram, Goto, Here, PartsInv, HalfInv, BothInv, SignedInv, Intact, Signed, AfterUboot, A64, Inv
<1>12. CASE VerifyUboot
  BY <1>12 DEF VerifyUboot, Verify, Goto, Shell, Here, PartsInv, HalfInv, BothInv, SignedInv, Intact, Signed, AfterUboot, A64, Inv
<1>13. CASE VerifyFip
  BY <1>13 DEF VerifyFip, Verify, Goto, Shell, Here, PartsInv, HalfInv, BothInv, SignedInv, Intact, Signed, AfterUboot, A64, Inv
<1>14. CASE LoadTfa
  BY <1>14 DEF LoadTfa, Goto, Shell, Here, PartsInv, HalfInv, BothInv, SignedInv, Intact, Signed, AfterUboot, A64, Inv
<1>15. CASE GoA64
  BY <1>15 DEF GoA64, Launch, Goto, Here, PartsInv, HalfInv, BothInv, SignedInv, Intact, Signed, AfterUboot, A64, Inv
<1>16. CASE ChooseCore
  BY <1>16 DEF ChooseCore, Goto, Shell, Here, PartsInv, HalfInv, BothInv, SignedInv, Intact, Signed, AfterUboot, A64, Inv
<1>17. CASE ExitXboot
  BY <1>17 DEF ExitXboot, Launch, Goto, Here, PartsInv, HalfInv, BothInv, SignedInv, Intact, Signed, AfterUboot, A64, Inv
<1>18. CASE Ca7Ready
  BY <1>18 DEF Ca7Ready, Launch, Goto, Here, PartsInv, HalfInv, BothInv, SignedInv, Intact, Signed, AfterUboot, A64, Inv
<1>19. CASE ShellQuit
  BY <1>19 DEF ShellQuit, Goto, Here, PartsInv, HalfInv, BothInv, SignedInv, Intact, Signed, AfterUboot, A64, Inv
<1>20. CASE ZmemCheck
  BY <1>20 DEF ZmemCheck, Goto, Shell, Here, PartsInv, HalfInv, BothInv, SignedInv, Intact, Signed, AfterUboot, A64, Inv
<1>21. CASE NorFip
  <2>1. Load("fip", "nor", media.fip, "nor_uboot")
    BY <1>21 DEF NorFip
  <2> QED BY <1>21, <2>1, <1>t, LoadEffect, BackInv
          DEF NorFip, Here, PartsInv, HalfInv, BothInv, SignedInv, AfterUboot, A64, Inv
<1>22. CASE EmmcFip
  <2>1. Load("fip", "emmc", media.fip, "boot_uboot")
    BY <1>22 DEF EmmcFip
  <2> QED BY <1>22, <2>1, <1>t, LoadEffect, BackInv
          DEF EmmcFip, Here, PartsInv, HalfInv, BothInv, SignedInv, AfterUboot, A64, Inv
<1>23. CASE NandFip
  <2>1. Load("fip", "nand", media.fip, "boot_uboot")
    BY <1>23 DEF NandFip
  <2> QED BY <1>23, <2>1, <1>t, LoadEffect, BackInv
          DEF NandFip, Here, PartsInv, HalfInv, BothInv, SignedInv, AfterUboot, A64, Inv
<1>24. CASE NorUboot
  <2>1. PICK img \in Copies : Load("uboot", "nor", img, "boot_uboot")
    BY <1>24 DEF NorUboot
  <2> QED BY <1>24, <2>1, <1>t, LoadEffect, BackInv
          DEF NorUboot, Here, PartsInv, HalfInv, BothInv, SignedInv, AfterUboot, A64, Inv
<1>25. CASE EmmcUboot
  <2>1. PICK img \in Copies : Load("uboot", "emmc", img, IF A64 THEN "emmc_fip" ELSE "boot_uboot")
    BY <1>25 DEF EmmcUboot
  <2> QED BY <1>25, <2>1, <1>t, LoadEffect, BackInv
          DEF EmmcUboot, Here, PartsInv, HalfInv, BothInv, SignedInv, AfterUboot, A64, Inv
<1>26. CASE NandUbootLoad
  <2>1. PICK img \in Copies : Load("uboot", "nand", img, IF A64 THEN "nand_fip" ELSE "boot_uboot")
    BY <1>26 DEF NandUbootLoad
  <2> QED BY <1>26, <2>1, <1>t, LoadEffect, BackInv
          DEF NandUbootLoad, Here, PartsInv, HalfInv, BothInv, SignedInv, AfterUboot, A64, Inv
<1>27. CASE FatUboot
  <2>1. PICK img \in IF UbootReachable THEN Copies ELSE {NoImage} :
          Load("uboot", "fat", img, "boot_uboot")
    BY <1>27 DEF FatUboot
  <2> QED BY <1>27, <2>1, <1>t, LoadEffect, BackInv
          DEF FatUboot, Here, PartsInv, HalfInv, BothInv, SignedInv, AfterUboot, A64, Inv
<1>28. CASE FatFip
  <2>1. CASE FipReachable
    <3>1. Load("fip", "fat", media.fip, "fat_uboot")
      BY <1>28, <2>1 DEF FatFip
    <3> QED BY <1>28, <3>1, <1>t, LoadEffect, BackInv
            DEF FatFip, Here, PartsInv, HalfInv, BothInv, SignedInv, AfterUboot, A64, Inv
  <2>2. CASE ~FipReachable
    BY <1>28, <2>2, <1>t, BackInv DEF FatFip, Goto
  <2> QED BY <2>1, <2>2
<1>29. CASE UNCHANGED vars
  BY <1>29 DEF vars, Here, PartsInv, HalfInv, BothInv, SignedInv, Intact, Signed, AfterUboot, A64, Inv
<1> QED
  BY <1>1, <1>2, <1>3, <1>4, <1>5, <1>6, <1>7, <1>8, <1>9, <1>10, <1>11, <1>12, <1>13, <1>14, <1>15, <1>16, <1>17, <1>18, <1>19, <1>20, <1>21, <1>22, <1>23, <1>24, <1>25, <1>26, <1>27, <1>28, <1>29 DEF Next, Program, Done

-----------------------------------------------------------------------------
LEMMA InvStep == Inv /\ [Next]_vars => Inv'
BY TypeStep, StepInv DEF Inv

(* The types of all variables, for every board and medium.                  *)
THEOREM TypeCorrect == Spec => []TypeOK
<1>1. Inv => TypeOK
  BY DEF Inv
<1> QED BY InitInv, InvStep, <1>1, PTL DEF Spec

(* Only images whose checksums (and signatures, in a build that has them)   *)
(* held in this round are started: boot_uboot and its callers, for every    *)
(* board, medium and number of rounds.                                      *)
THEOREM OnlyCheckedImagesRun == Spec => []LaunchChecked
<1>1. Inv => LaunchChecked
  BY DEF Inv, LaunchChecked, Sound, BothInv, SignedInv, Intact, Signed, Here, AfterUboot
<1> QED BY InitInv, InvStep, <1>1, PTL DEF Spec

-----------------------------------------------------------------------------
(* The DRAM and the way to a core.  DramInv: the media whose loaders look   *)
(* at the result of run_draminit load only into DRAM that passed; the FAT   *)
(* media keep to their own locations, or stay recognisable by `type`.       *)
FatLocations == {"fat_find", "fat_dram", "fat_mode", "fat_fip", "fat_uboot"}
AfterDraminit ==
    {"nor_fip", "nor_uboot", "emmc_init", "emmc_uboot", "emmc_fip", "nand_uboot",
     "nand_fip", "zmem_check", "boot_uboot"} \cup AfterUboot

DramInv ==
    /\ Here \in FatLocations => type \in FatTypes
    /\ Here \in AfterDraminit => type \in FatTypes \/ dram = "ready"

(* CoreInv: what ChooseCore decides, and the operator's part in it.         *)
CoreInv ==
    /\ Here = "exit_xboot" => board.plat = "Q628" \/ ~board.ca7
    /\ pc = "exit_xboot" /\ board.plat = "Q628" /\ board.cpu = "A" =>
           area.uboot.core = "A" \/ waved
    /\ Here = "wait_ca7" => area.uboot.core = "A"
    /\ pc = "launched" => RightCore

(* A load leaves DRAM, boot mode and history alone; it goes on or back to   *)
(* boot_flow.                                                               *)
LEMMA LoadFrame ==
    ASSUME NEW slot, NEW d, NEW img, NEW ok, Load(slot, d, img, ok)
    PROVE  /\ type' = type /\ dram' = dram
           /\ \/ pc' = ok
              \/ pc' = "not_support"
              \/ pc' = "shell" /\ back' = "not_support"
BY DEF Load, LoaderFails, Goto, Shell

(* Behind a load there is no choice of core to remember yet.                *)
LEMMA LoadTargets ==
    ASSUME NEW slot, NEW d, NEW img, NEW ok,
           ok \in {"nor_uboot", "fat_uboot", "boot_uboot", "emmc_fip", "nand_fip"},
           Load(slot, d, img, ok), DramInv,
           \/ Here \in AfterDraminit /\ ok # "fat_uboot"
           \/ Here \in FatLocations /\ ok \in {"fat_uboot", "boot_uboot"}
    PROVE  DramInv' /\ CoreInv'
<1>1. type' = type /\ dram' = dram
  BY LoadFrame
<1>2. Here' = ok \/ Here' = "not_support"
  BY LoadFrame DEF Here
<1>3. pc' \notin {"exit_xboot", "launched"} /\ Here' # "wait_ca7" /\ Here' # "exit_xboot"
  BY <1>2, LoadFrame DEF Here
<1>4. CoreInv'
  BY <1>3 DEF CoreInv
<1>5. DramInv'
  BY <1>1, <1>2 DEF DramInv, AfterDraminit, AfterUboot, FatLocations, FatTypes
<1> QED BY <1>4, <1>5

(* Every step keeps both.                                                   *)
LEMMA TargetStep ==
    TypeOK /\ PartsInv /\ DramInv /\ CoreInv /\ [Next]_vars => DramInv' /\ CoreInv'
<1> SUFFICES ASSUME TypeOK, PartsInv, DramInv, CoreInv, [Next]_vars
             PROVE  DramInv' /\ CoreInv'
  OBVIOUS
<1> USE DEF fixed
<1>c. board.cpu \in Cores /\ area.uboot.core \in Cores
  BY BootFlowAssumption DEF TypeOK, BoardType, ImageType
<1>1. CASE StartRound
  <2>1. DramInv'
    BY <1>1 DEF StartRound, Goto, Shell, Entry, TypeOK, Here, DramInv, AfterDraminit, AfterUboot, FatLocations, FatTypes
  <2>2. CoreInv'
    BY <1>1 DEF StartRound, Goto, Shell, Entry, TypeOK, Here, CoreInv
  <2> QED BY <2>1, <2>2
<1>2. CASE Halt
  <2>1. DramInv'
    BY <1>2 DEF Halt, Goto, Here, DramInv, AfterDraminit, AfterUboot, FatLocations, FatTypes
  <2>2. CoreInv'
    BY <1>2 DEF Halt, Goto, Here, CoreInv
  <2> QED BY <2>1, <2>2
<1>3. CASE NotSupport
  <2>1. DramInv'
    BY <1>3 DEF NotSupport, Shell, Here, DramInv, AfterDraminit, AfterUboot, FatLocations, FatTypes
  <2>2. CoreInv'
    BY <1>3 DEF NotSupport, Shell, Here, CoreInv
  <2> QED BY <2>1, <2>2
<1>4. CASE NorDram
  <2>1. DramInv'
    BY <1>4 DEF NorDram, RunDramInit, AfterDram, Goto, Shell, Here, DramInv, AfterDraminit, AfterUboot, FatLocations, FatTypes
  <2>2. CoreInv'
    BY <1>4 DEF NorDram, RunDramInit, AfterDram, Goto, Shell, Here, CoreInv
  <2> QED BY <2>1, <2>2
<1>5. CASE EmmcDram
  <2>1. DramInv'
    BY <1>5 DEF EmmcDram, RunDramInit, AfterDram, Goto, Shell, Here, DramInv, AfterDraminit, AfterUboot, FatLocations, FatTypes
  <2>2. CoreInv'
    BY <1>5 DEF EmmcDram, RunDramInit, AfterDram, Goto, Shell, Here, CoreInv
  <2> QED BY <2>1, <2>2
<1>6. CASE NandDram
  <2>1. DramInv'
    BY <1>6 DEF NandDram, RunDramInit, AfterDram, Goto, Shell, Here, DramInv, AfterDraminit, AfterUboot, FatLocations, FatTypes
  <2>2. CoreInv'
    BY <1>6 DEF NandDram, RunDramInit, AfterDram, Goto, Shell, Here, CoreInv
  <2> QED BY <2>1, <2>2
<1>7. CASE FatDram
  <2>1. DramInv'
    BY <1>7 DEF FatDram, RunDramInit, Goto, Shell, Here, DramInv, AfterDraminit, AfterUboot, FatLocations, FatTypes
  <2>2. CoreInv'
    BY <1>7 DEF FatDram, RunDramInit, Goto, Shell, Here, CoreInv
  <2> QED BY <2>1, <2>2
<1>8. CASE EmmcInit
  <2>1. DramInv'
    BY <1>8 DEF EmmcInit, Goto, Here, DramInv, AfterDraminit, AfterUboot, FatLocations, FatTypes
  <2>2. CoreInv'
    BY <1>8 DEF EmmcInit, Goto, Here, CoreInv
  <2> QED BY <2>1, <2>2
<1>9. CASE NandInit
  <2>1. DramInv'
    BY <1>9 DEF NandInit, Goto, Here, DramInv, AfterDraminit, AfterUboot, FatLocations, FatTypes
  <2>2. CoreInv'
    BY <1>9 DEF NandInit, Goto, Here, CoreInv
  <2> QED BY <2>1, <2>2
<1>10. CASE FatFind
  <2>1. DramInv'
    BY <1>10 DEF FatFind, Goto, Here, DramInv, AfterDraminit, AfterUboot, FatLocations, FatTypes
  <2>2. CoreInv'
    BY <1>10 DEF FatFind, Goto, Here, CoreInv
  <2> QED BY <2>1, <2>2
<1>11. CASE FatMode
  <2>1. DramInv'
    BY <1>11 DEF FatMode, fat_sdcard_check_boot_mode, AfterDram, Goto, Here, DramInv, AfterDraminit, AfterUboot, FatLocations, FatTypes
  <2>2. CoreInv'
    BY <1>11 DEF FatMode, fat_sdcard_check_boot_mode, AfterDram, Goto, Here, CoreInv
  <2> QED BY <2>1, <2>2
<1>12. CASE ZmemCheck
  <2>1. DramInv'
    BY <1>12 DEF ZmemCheck, Goto, Shell, Here, DramInv, AfterDraminit, AfterUboot, FatLocations, FatTypes
  <2>2. CoreInv'
    BY <1>12 DEF ZmemCheck, Goto, Shell, Here, CoreInv
  <2> QED BY <2>1, <2>2
<1>13. CASE VerifyUboot
  <2>1. DramInv'
    BY <1>13 DEF VerifyUboot, Verify, Goto, Shell, Here, DramInv, AfterDraminit, AfterUboot, FatLocations, FatTypes
  <2>2. CoreInv'
    BY <1>13 DEF VerifyUboot, Verify, Goto, Shell, Here, CoreInv
  <2> QED BY <2>1, <2>2
<1>14. CASE VerifyFip
  <2>1. DramInv'
    BY <1>14 DEF VerifyFip, Verify, Goto, Shell, Here, DramInv, AfterDraminit, AfterUboot, FatLocations, FatTypes
  <2>2. CoreInv'
    BY <1>14 DEF VerifyFip, Verify, Goto, Shell, Here, CoreInv
  <2> QED BY <2>1, <2>2
<1>15. CASE LoadTfa
  <2>1. DramInv'
    BY <1>15 DEF LoadTfa, Goto, Shell, Here, DramInv, AfterDraminit, AfterUboot, FatLocations, FatTypes
  <2>2. CoreInv'
    BY <1>15 DEF LoadTfa, Goto, Shell, Here, CoreInv
  <2> QED BY <2>1, <2>2
<1>16. CASE GoA64
  <2>1. DramInv'
    BY <1>16 DEF GoA64, Launch, Goto, Here, DramInv, AfterDraminit, AfterUboot, FatLocations, FatTypes
  <2>2. CoreInv'
    BY <1>16, <1>c DEF GoA64, Launch, Goto, Here, CoreInv, PartsInv, RightCore, A64, Cores
  <2> QED BY <2>1, <2>2
<1>17. CASE ChooseCore
  <2>1. DramInv'
    BY <1>17 DEF ChooseCore, Goto, Shell, Here, DramInv, AfterDraminit, AfterUboot, FatLocations, FatTypes
  <2>2. CoreInv'
    BY <1>17, <1>c DEF ChooseCore, Goto, Shell, Here, CoreInv, PartsInv, RightCore, A64, Cores
  <2> QED BY <2>1, <2>2
<1>18. CASE ExitXboot
  <2>1. DramInv'
    BY <1>18 DEF ExitXboot, Launch, Goto, Here, DramInv, AfterDraminit, AfterUboot, FatLocations, FatTypes
  <2>2. CoreInv'
    BY <1>18, <1>c DEF ExitXboot, Launch, Goto, Here, CoreInv, PartsInv, RightCore, A64, Cores
  <2> QED BY <2>1, <2>2
<1>19. CASE Ca7Ready
  <2>1. DramInv'
    BY <1>19 DEF Ca7Ready, Launch, Goto, Here, DramInv, AfterDraminit, AfterUboot, FatLocations, FatTypes
  <2>2. CoreInv'
    BY <1>19, <1>c DEF Ca7Ready, Launch, Goto, Here, CoreInv, PartsInv, RightCore, A64, Cores
  <2> QED BY <2>1, <2>2
<1>20. CASE ShellQuit
  <2>1. DramInv'
    BY <1>20 DEF ShellQuit, Goto, Here, DramInv, AfterDraminit, AfterUboot, FatLocations, FatTypes
  <2>2. CoreInv'
    BY <1>20 DEF ShellQuit, Goto, Here, CoreInv, TypeOK, ShellReturns
  <2> QED BY <2>1, <2>2
<1>21. CASE NorFip
  <2>1. Load("fip", "nor", media.fip, "nor_uboot")
    BY <1>21 DEF NorFip
  <2> QED BY <1>21, <2>1, LoadTargets DEF NorFip, Here, AfterDraminit, FatLocations
<1>22. CASE EmmcFip
  <2>1. Load("fip", "emmc", media.fip, "boot_uboot")
    BY <1>22 DEF EmmcFip
  <2> QED BY <1>22, <2>1, LoadTargets DEF EmmcFip, Here, AfterDraminit, FatLocations
<1>23. CASE NandFip
  <2>1. Load("fip", "nand", media.fip, "boot_uboot")
    BY <1>23 DEF NandFip
  <2> QED BY <1>23, <2>1, LoadTargets DEF NandFip, Here, AfterDraminit, FatLocations
<1>24. CASE NorUboot
  <2>1. PICK img \in Copies :
          Load("uboot", "nor", img, "boot_uboot")
    BY <1>24 DEF NorUboot
  <2> QED BY <1>24, <2>1, LoadTargets DEF NorUboot, Here, AfterDraminit, FatLocations
<1>25. CASE EmmcUboot
  <2>1. PICK img \in Copies :
          Load("uboot", "emmc", img, IF A64 THEN "emmc_fip" ELSE "boot_uboot")
    BY <1>25 DEF EmmcUboot
  <2> QED BY <1>25, <2>1, LoadTargets DEF EmmcUboot, Here, AfterDraminit, FatLocations
<1>26. CASE NandUbootLoad
  <2>1. PICK img \in Copies :
          Load("uboot", "nand", img, IF A64 THEN "nand_fip" ELSE "boot_uboot")
    BY <1>26 DEF NandUbootLoad
  <2> QED BY <1>26, <2>1, LoadTargets DEF NandUbootLoad, Here, AfterDraminit, FatLocations
<1>27. CASE FatUboot
  <2>1. PICK img \in IF UbootReachable THEN Copies ELSE {NoImage} :
          Load("uboot", "fat", img, "boot_uboot")
    BY <1>27 DEF FatUboot
  <2> QED BY <1>27, <2>1, LoadTargets DEF FatUboot, Here, AfterDraminit, FatLocations
<1>28. CASE FatFip
  <2>1. CASE FipReachable
    <3>1. Load("fip", "fat", media.fip, "fat_uboot")
      BY <1>28, <2>1 DEF FatFip
    <3> QED BY <1>28, <3>1, LoadTargets DEF FatFip, Here, AfterDraminit, FatLocations
  <2>2. CASE ~FipReachable
    BY <1>28, <2>2 DEF FatFip, Goto, Here, DramInv, CoreInv, AfterDraminit, AfterUboot, FatLocations
  <2> QED BY <2>1, <2>2
<1>29. CASE UNCHANGED vars
  BY <1>29 DEF vars, Here, DramInv, CoreInv, RightCore, FatTypes
<1> QED
  BY <1>1, <1>2, <1>3, <1>4, <1>5, <1>6, <1>7, <1>8, <1>9, <1>10, <1>11, <1>12, <1>13, <1>14, <1>15, <1>16, <1>17, <1>18, <1>19, <1>20, <1>21, <1>22, <1>23, <1>24, <1>25, <1>26, <1>27, <1>28, <1>29 DEF Next, Program, Done

(* The initial states satisfy both.                                         *)
LEMMA TargetInit == Init => DramInv /\ CoreInv
BY DEF Init, Here, DramInv, CoreInv, AfterDraminit, AfterUboot, FatLocations

(* NOR, NAND and eMMC images go only into DRAM that passed its test, in     *)
(* every round (the tests of run_draminit's result in the loaders).         *)
THEOREM ImagesGoToTestedDram == Spec => []DramTested
<1>1. Inv => TypeOK /\ PartsInv
  BY DEF Inv
<1>2. TypeOK /\ DramInv => DramTested
  BY DEF TypeOK, ShellReturns, DramInv, DramTested, Here, AfterDraminit, AfterUboot
<1> QED BY InitInv, InvStep, TargetInit, TargetStep, <1>1, <1>2, PTL DEF Spec

(* boot_uboot starts no core on the other core's code unless an operator    *)
(* left the warning.                                                        *)
THEOREM CoresRunTheirOwnCode == Spec => []RightCore
<1>1. Inv => TypeOK /\ PartsInv
  BY DEF Inv
<1>2. CoreInv => RightCore
  BY DEF CoreInv, RightCore
<1> QED BY InitInv, InvStep, TargetInit, TargetStep, <1>1, <1>2, PTL DEF Spec

-----------------------------------------------------------------------------
(* A signature that failed.  Stopped is what cannot be left again: control  *)
(* is at the failing verification, in the shell it opens, or halted.        *)
Stopped == Forged \/ Here = "halted"

(* At a verification, in a shell and when halted few steps are possible.    *)
LEMMA StepsThere ==
    ASSUME [Next]_vars, pc \in {"boot_uboot", "verify_fip", "shell", "halted"}
    PROVE  \/ pc = "boot_uboot" /\ VerifyUboot
           \/ pc = "verify_fip" /\ VerifyFip
           \/ pc = "shell" /\ ShellQuit
           \/ UNCHANGED vars
BY DEF Next, Program, Done, StartRound, Halt, NotSupport, NorDram, NorFip, NorUboot,
       EmmcDram, EmmcInit, EmmcUboot, EmmcFip, NandInit, NandDram, NandUbootLoad,
       NandFip, FatFind, FatDram, FatMode, FatFip, FatUboot, ZmemCheck, VerifyUboot,
       VerifyFip, LoadTfa, GoA64, ChooseCore, ExitXboot, ShellQuit, Ca7Ready

(* From a failed verification every step leads to the shell or to halt.     *)
LEMMA StoppedStep == Stopped /\ [Next]_vars => Stopped'
<1> SUFFICES ASSUME Stopped, [Next]_vars PROVE Stopped'
  OBVIOUS
<1>1. pc \in {"boot_uboot", "verify_fip", "shell", "halted"}
  BY DEF Stopped, Forged, Here
<1>2. CASE pc = "boot_uboot" /\ VerifyUboot
  BY <1>2 DEF VerifyUboot, Verify, Shell, Stopped, Forged, Here
<1>3. CASE pc = "verify_fip" /\ VerifyFip
  BY <1>3 DEF VerifyFip, Verify, Shell, Stopped, Forged, Here
<1>4. CASE pc = "shell" /\ ShellQuit
  BY <1>4 DEF ShellQuit, Goto, Stopped, Forged, Here
<1>5. CASE UNCHANGED vars
  BY <1>5 DEF vars, Stopped, Forged, Here
<1> QED BY <1>1, <1>2, <1>3, <1>4, <1>5, StepsThere

(* A signature that fails ends the boot, whatever the operator types in the *)
(* shell and however many rounds remain (the halt() behind mon_shell() in   *)
(* boot_uboot).                                                             *)
THEOREM FailedSignatureIsFinal == Spec => VerifyFailureIsFinal
<1>1. Forged => Stopped
  BY DEF Stopped
<1>2. Stopped => Forged \/ pc \in {"shell", "halted"}
  BY DEF Stopped, Here
<1> QED BY StoppedStep, <1>1, <1>2, PTL DEF Spec, VerifyFailureIsFinal
=============================================================================
