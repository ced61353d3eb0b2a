------------------------------ MODULE BootFlow ------------------------------
(***************************************************************************)
(* The top of xboot: boot_flow() of xboot.c picks the loader of the boot    *)
(* mode the ROM left in g_bootinfo, retries it, and opens the monitor shell *)
(* between rounds.  A loader trains the DRAM, brings u-boot (and, on the    *)
(* AArch64 parts, the FIP with BL31 and OP-TEE) into memory, checks them    *)
(* and ends in boot_uboot(), which verifies signatures and starts a core.   *)
(*                                                                          *)
(* The four loaders appear here through what they promise to boot_flow: an  *)
(* image either passes the checks of its loader or the loader gives up.     *)
(* How two u-boot copies are searched on NAND is the subject of NandUboot.  *)
(***************************************************************************)
EXTENDS Naturals, FiniteSets

CONSTANTS
    Retries,    \* `retry` of boot_flow
    Boards,     \* the boards, see BoardType
    UbootImages,\* the u-boot images a medium may hold
    FipImages   \* the FIP images a medium may hold

Platforms == {"Q628", "I143", "Q645", "SP7350"}
Modes == {"UART_ISP", "USB_ISP", "SDCARD_ISP", "SPI_NOR_BOOT", "SPINAND_BOOT",
          "PARA_NAND_BOOT", "EMMC_BOOT", "SDCARD_BOOT", "USB_BOOT"}
Cores == {"A", "B"}

(* What can be wrong with a stored image.  "toc" and "bl31" concern a FIP:  *)
(* the name in its table of contents is wrong, it has no BL31 entry.        *)
Flaws == {"magic", "name", "hcrc", "big", "dcrc", "sign", "toc", "bl31"}
ImageType == [flaws : SUBSET Flaws, core : Cores]

(* plat: the part; secure: CONFIG_SECURE_BOOT_SIGN; zmem: CONFIG_USE_ZMEM;  *)
(* cpu: the core that runs xboot (g_bootinfo.bootcpu, 1 is A); ca7: the     *)
(* strap pins say INT_CA7_BOOT (I143).                                      *)
BoardType == [plat : Platforms, secure : BOOLEAN, zmem : BOOLEAN,
              cpu : Cores, ca7 : BOOLEAN]

ASSUME BootFlowAssumption ==
    /\ Retries \in Nat \ {0}
    /\ Boards \subseteq BoardType
    /\ UbootImages \subseteq ImageType
    /\ FipImages \subseteq ImageType

NoImage == [flaws |-> Flaws, core |-> "A"]

VARIABLES
    board,      \* fixed hardware and build configuration
    media,      \* what the boot medium holds, fixed
    mode,       \* g_bootinfo.gbootRom_boot_mode
    type,       \* `type` of do_fat_boot
    retry,      \* `retry` of boot_flow
    pc,         \* control
    back,       \* where mon_shell returns to
    dram,       \* "raw", "ready" or "bad" after dram_test
    area,       \* the image at UBOOT_LOAD_ADDR and at FIP_LOAD_ADDR
    loaded,     \* history: the areas a loader accepted in this round
    bl31,       \* load_tfa_optee copied BL31 to BL31_RUN_ADDR
    waved,      \* history: an operator left the wrong-core warning with 'q'
    core        \* the core u-boot was started on, or "none"

vars == <<board, media, mode, type, retry, pc, back, dram, area, loaded,
          bl31, waved, core>>
fixed == <<board, media>>

A64 == board.plat \in {"Q645", "SP7350"}
FatTypes == {"USB_ISP", "SDCARD_ISP", "SDCARD_BOOT", "USB_BOOT"}
NandModes == {"SPINAND_BOOT", "PARA_NAND_BOOT"}

(* Mutant: a data checksum that is never compared.                          *)
ChecksNoDcrc(device) == {"magic", "name", "hcrc"}

(* The checks each loader makes of a header and its data: do_fat_boot does  *)
(* not compare names, NOR and NAND have no limit on the size.               *)
Checks(device) ==
    {"magic", "hcrc", "dcrc"}
    \cup (IF device = "fat" THEN {} ELSE {"name"})
    \cup (IF device \in {"emmc", "fat"} THEN {"big"} ELSE {})
Accepts(device, img) == img.flaws \cap Checks(device) = {}

-----------------------------------------------------------------------------
(* Control helpers.                                                         *)

Goto(l) == pc' = l /\ UNCHANGED back
Shell(l) == pc' = "shell" /\ back' = l        \* mon_shell(), then go to l

(* A FAT medium holds an ISP package (with or without a good table), a small *)
(* boot file or no file; NAND and eMMC may carry two u-boot copies.         *)
MediaType == [uboot : SUBSET UbootImages, fip : FipImages \cup {NoImage},
              file : {"none", "isp", "boot"}, table : BOOLEAN]

(* The ROM hands over in a mode that has a loader.  emmc_boot and *)
(* nand_uboot do not compile with zmem for the AArch64 parts (`len` is not  *)
(* declared); 8-bit NAND is wired on the SP7350 only.                       *)
Init ==
    /\ board \in Boards
    /\ media \in MediaType
    /\ mode \in Modes \ {"SDCARD_BOOT", "USB_BOOT"}
    /\ Cardinality(media.uboot) <= IF mode \in NandModes \cup {"EMMC_BOOT"} THEN 2 ELSE 1
    /\ mode \in FatTypes \/ (media.file = "none" /\ media.table = FALSE)
    /\ mode = "PARA_NAND_BOOT" => board.plat = "SP7350"
    /\ board.zmem /\ A64 => mode \notin NandModes \cup {"EMMC_BOOT"}
    /\ A64 \/ media.fip = NoImage
    /\ type = mode
    /\ retry = Retries
    /\ pc = "round" /\ back = "round"
    /\ dram = "raw"
    /\ area = [uboot |-> NoImage, fip |-> NoImage]
    /\ loaded = {}
    /\ bl31 = FALSE /\ waved = FALSE
    /\ core = "none"

-----------------------------------------------------------------------------
(* boot_flow                                                                *)

(* The entry point of each mode's loader; modes outside the switch have     *)
(* none.                                                                    *)
Entry ==
    [m \in Modes |->
        IF m \in {"USB_ISP", "SDCARD_ISP"} THEN "fat_find"
        ELSE IF m = "SPI_NOR_BOOT" THEN "nor_dram"
        ELSE IF m \in NandModes THEN "nand_init"
        ELSE IF m = "EMMC_BOOT" THEN "emmc_dram"
        ELSE "not_support"]

(* Mutant: a loop that forgets that the rounds are counted.                 *)
StartRoundForever ==
    /\ pc = "round"
    /\ retry' = retry
    /\ type' = mode
    /\ loaded' = {}
    /\ IF mode = "UART_ISP" THEN Shell("not_support") ELSE Goto(Entry[mode])
    /\ UNCHANGED <<fixed, mode, dram, area, bl31, waved, core>>

(* Mutant: the count is decremented but not compared.                       *)
StartRoundUnchecked ==
    /\ pc = "round"
    /\ retry' = retry - 1
    /\ type' = mode
    /\ loaded' = {}
    /\ IF mode = "UART_ISP" THEN Shell("not_support") ELSE Goto(Entry[mode])
    /\ UNCHANGED <<fixed, mode, dram, area, bl31, waved, core>>

StartRound ==
    /\ pc = "round" /\ retry > 0
    /\ retry' = retry - 1
    /\ type' = mode
    /\ loaded' = {}
    /\ IF mode = "UART_ISP" THEN Shell("not_support") ELSE Goto(Entry[mode])
    /\ UNCHANGED <<fixed, mode, dram, area, bl31, waved, core>>

Halt ==
    /\ pc = "round" /\ retry = 0
    /\ Goto("halted")
    /\ UNCHANGED <<fixed, mode, type, retry, dram, area, loaded, bl31, waved, core>>

(* boot_not_support: a message, then the shell.                             *)
NotSupport ==
    /\ pc = "not_support"
    /\ Shell("round")
    /\ UNCHANGED <<fixed, mode, type, retry, dram, area, loaded, bl31, waved, core>>

(* The operator types 'q'.  Writes through the shell are not modelled.      *)
ShellQuit ==
    /\ pc = "shell"
    /\ Goto(back)
    /\ waved' = (waved \/ back = "exit_xboot")
    /\ UNCHANGED <<fixed, mode, type, retry, dram, area, loaded, bl31, core>>

-----------------------------------------------------------------------------
(* run_draminit: train the DRAM, then a short test.  With zmem the test is  *)
(* skipped, since the images are already in memory.  A failed test opens    *)
(* the shell; the caller goes on at onFail.                                 *)
RunDramInit(onPass, onFail) ==
    /\ \/ /\ dram' = "ready"
          /\ Goto(onPass)
       \/ /\ ~board.zmem
          /\ dram' = "bad"
          /\ Shell(onFail)
    /\ UNCHANGED <<fixed, mode, type, retry, area, loaded, bl31, waved, core>>

(* Where a loader goes once the DRAM is ready.                              *)
AfterDram(first) == IF board.zmem THEN "zmem_check" ELSE first

NorDram == pc = "nor_dram" /\ RunDramInit(AfterDram(IF A64 THEN "nor_fip" ELSE "nor_uboot"), "not_support")
(* Mutant: emmc_boot without its test of the result.                        *)
EmmcDramIgnored == pc = "emmc_dram" /\ RunDramInit("emmc_init", "emmc_init")
EmmcDram == pc = "emmc_dram" /\ RunDramInit(AfterDram("emmc_init"), "not_support")
NandDram == pc = "nand_dram" /\ RunDramInit(AfterDram("nand_uboot"), "not_support")

(* do_fat_boot does not look at the result of run_draminit.                 *)
FatDram == pc = "fat_dram" /\ RunDramInit("fat_mode", "fat_mode")

(* A loader that fails returns to boot_flow, NOR's after a shell session.   *)
LoaderFails(device) ==
    IF device = "nor" THEN Shell("not_support") ELSE Goto("not_support")

(* A load of img into slot: the read may fail on the way, the checks decide *)
(* otherwise.  Whatever was read is in the area from then on.               *)
Load(slot, device, img, ok) ==
    /\ \/ /\ Accepts(device, img)
          /\ area' = [area EXCEPT ![slot] = img]
          /\ loaded' = loaded \cup {slot}
          /\ Goto(ok)
       \/ /\ ~Accepts(device, img)
          /\ area' = [area EXCEPT ![slot] = img]
          /\ UNCHANGED loaded
          /\ LoaderFails(device)
       \/ /\ device # "nor"          \* NOR is read through a memory window
          /\ area' = [area EXCEPT ![slot] = NoImage]
          /\ UNCHANGED loaded
          /\ LoaderFails(device)
    /\ UNCHANGED <<fixed, mode, type, retry, dram, bl31, waved, core>>

(* Any of the copies on the medium, or nothing where there is none.         *)
Copies == IF media.uboot = {} THEN {NoImage} ELSE media.uboot

NorFip == pc = "nor_fip" /\ Load("fip", "nor", media.fip, "nor_uboot")
NorUboot == pc = "nor_uboot" /\ \E img \in Copies :
                Load("uboot", "nor", img, "boot_uboot")

(* emmc_boot: initDriver_SD, SetMMCPartitionNum and the GPT come first.     *)
(* Then u-boot, then the FIP at its fixed LBA.                              *)
EmmcInit ==
    /\ pc = "emmc_init"
    /\ \E l \in {"emmc_uboot", "not_support"} : Goto(l)
    /\ UNCHANGED <<fixed, mode, type, retry, dram, area, loaded, bl31, waved, core>>
EmmcUboot == pc = "emmc_uboot" /\ \E img \in Copies :
    Load("uboot", "emmc", img, IF A64 THEN "emmc_fip" ELSE "boot_uboot")
EmmcFip == pc = "emmc_fip" /\
    Load("fip", "emmc", media.fip, "boot_uboot")

(* spi_nand_boot, para_nand_boot: InitDevice, then nand_uboot.              *)
NandInit ==
    /\ pc = "nand_init"
    /\ \E l \in {"nand_dram", "not_support"} : Goto(l)
    /\ UNCHANGED <<fixed, mode, type, retry, dram, area, loaded, bl31, waved, core>>
NandUbootLoad == pc = "nand_uboot" /\ \E img \in Copies :
    Load("uboot", "nand", img, IF A64 THEN "nand_fip" ELSE "boot_uboot")
NandFip == pc = "nand_fip" /\
    Load("fip", "nand", media.fip, "boot_uboot")

-----------------------------------------------------------------------------
(* do_fat_boot                                                              *)

(* fat_boot: bring up the device and find ISPBOOOT.BIN.                     *)
FatFind ==
    /\ pc = "fat_find"
    /\ \/ media.file # "none" /\ Goto("fat_dram")
       \/ Goto("not_support")
    /\ UNCHANGED <<fixed, mode, type, retry, dram, area, loaded, bl31, waved, core>>

(* An ISPBOOOT.BIN of 64 KiB, on the AArch64 parts of up to 256 KiB, holds  *)
(* xboot alone.                                                             *)
fat_sdcard_check_boot_mode == media.file = "boot"

(* It selects booting from the files.  The AArch64 parts also rewrite       *)
(* g_bootinfo's boot mode.                                                  *)
FatMode ==
    /\ pc = "fat_mode"
    /\ type' = IF ~fat_sdcard_check_boot_mode THEN type
               ELSE IF type = "SDCARD_ISP" THEN "SDCARD_BOOT"
               ELSE IF type = "USB_ISP" /\ A64 THEN "USB_BOOT" ELSE type
    /\ mode' = IF A64 THEN type' ELSE mode
    /\ Goto(AfterDram(IF A64 THEN "fat_fip" ELSE "fat_uboot"))
    /\ UNCHANGED <<fixed, retry, dram, area, loaded, bl31, waved, core>>

(* fat_load_fip: an ISP package is asked for the offset of its FIP first;   *)
(* the package header is at 1 MiB, past the end of a small boot file.       *)
FipReachable == type = "SDCARD_BOOT" \/ (media.file = "isp" /\ media.table)
FatFip ==
    /\ pc = "fat_fip"
    /\ \/ FipReachable /\ Load("fip", "fat", media.fip, "fat_uboot")
       \/ /\ ~FipReachable
          /\ area' = [area EXCEPT !["fip"] = NoImage]
          /\ Goto("not_support")
          /\ UNCHANGED <<fixed, mode, type, retry, dram, loaded, bl31, waved, core>>

(* u-boot is file 1 of an SD boot card, else a part of ISPBOOOT.BIN past the *)
(* end of a small boot file.                                                *)
UbootReachable == type = "SDCARD_BOOT" \/ media.file = "isp"
FatUboot == pc = "fat_uboot" /\ \E img \in IF UbootReachable THEN Copies ELSE {NoImage} :
    Load("uboot", "fat", img, "boot_uboot")

(* zmem_check_uboot: the magic of what already is in memory, nothing else,  *)
(* and boot_uboot follows either way.                                       *)
ZmemCheck ==
    /\ pc = "zmem_check"
    /\ \E img \in Copies : area' = [uboot |-> img, fip |-> media.fip]
    /\ IF "magic" \in area'.uboot.flaws THEN Shell("boot_uboot") ELSE Goto("boot_uboot")
    /\ UNCHANGED <<fixed, mode, type, retry, dram, loaded, bl31, waved, core>>

-----------------------------------------------------------------------------
(* boot_uboot                                                               *)

(* Mutant: a return in place of the halt().                                 *)
VerifyReturns(slot, next) ==
    /\ IF board.secure /\ "sign" \in area[slot].flaws
       THEN Shell("not_support") ELSE Goto(next)
    /\ UNCHANGED <<fixed, mode, type, retry, dram, area, loaded, bl31, waved, core>>

(* xboot_verify_next_image of an area; a failure ends in halt after the     *)
(* shell.                                                                   *)
Verify(slot, next) ==
    /\ IF board.secure /\ "sign" \in area[slot].flaws
       THEN Shell("halted") ELSE Goto(next)
    /\ UNCHANGED <<fixed, mode, type, retry, dram, area, loaded, bl31, waved, core>>

VerifyUboot == pc = "boot_uboot" /\ Verify("uboot", IF A64 THEN "verify_fip" ELSE "choose_core")
VerifyFip == pc = "verify_fip" /\ Verify("fip", "load_tfa")

(* load_tfa_optee: a wrong name in the table of contents opens the shell;   *)
(* its caller ignores the -1.  Entries are copied by UUID.                  *)
LoadTfa ==
    /\ pc = "load_tfa"
    /\ IF "toc" \in area.fip.flaws
       THEN Shell("go_a64") /\ UNCHANGED bl31
       ELSE Goto("go_a64") /\ bl31' = (bl31 \/ "bl31" \notin area.fip.flaws)
    /\ UNCHANGED <<fixed, mode, type, retry, dram, area, loaded, waved, core>>

Launch(c) ==
    /\ Goto("launched")
    /\ core' = c
    /\ UNCHANGED <<fixed, mode, type, retry, dram, area, loaded, bl31, waved>>

(* go_a32_to_a64: core 0 restarts in AArch64 at a64up, which enters BL31.   *)
GoA64 == pc = "go_a64" /\ Launch("A")

(* Q628: B wakes A for an image of A; A only warns of an image for B.       *)
(* I143: with the CA7 strap a RISC-V image hangs, else B waits for the CA7. *)
ChooseCore ==
    /\ pc = "choose_core"
    /\ \/ /\ board.plat = "Q628"
          /\ IF board.cpu = "A" /\ area.uboot.core = "B"
             THEN Shell("exit_xboot") ELSE Goto("exit_xboot")
       \/ /\ board.plat = "I143" /\ ~board.ca7
          /\ Goto("exit_xboot")
       \/ /\ board.plat = "I143" /\ board.ca7
          /\ Goto(IF area.uboot.core = "B" THEN "stuck" ELSE "wait_ca7")
    /\ UNCHANGED <<fixed, mode, type, retry, dram, area, loaded, bl31, waved, core>>

(* Mutant: u-boot always runs on the core xboot runs on.                    *)
ExitXbootHere == pc = "exit_xboot" /\ Launch(board.cpu)
ExitXboot ==
    /\ pc = "exit_xboot"
    /\ Launch(IF board.plat = "Q628" /\ board.cpu = "B" THEN area.uboot.core ELSE board.cpu)

(* The CA7 reports it is up; boot_next_in_A starts it.                      *)
Ca7Ready == pc = "wait_ca7" /\ Launch("A")

-----------------------------------------------------------------------------
Program ==
    \/ StartRound \/ Halt \/ NotSupport
    \/ NorDram \/ NorFip \/ NorUboot
    \/ EmmcDram \/ EmmcInit \/ EmmcUboot \/ EmmcFip
    \/ NandInit \/ NandDram \/ NandUbootLoad \/ NandFip
    \/ FatFind \/ FatDram \/ FatMode \/ FatFip \/ FatUboot
    \/ ZmemCheck \/ VerifyUboot \/ VerifyFip \/ LoadTfa \/ GoA64
    \/ ChooseCore \/ ExitXboot

(* launched, halted and stuck are the ends of xboot.                        *)
Ends == {"launched", "halted", "stuck"}
Done == pc \in Ends /\ UNCHANGED vars

Next == Program \/ ShellQuit \/ Ca7Ready \/ Done

(* The program runs; neither the operator nor the CA7 owes it an answer.    *)
Spec == Init /\ [][Next]_vars /\ WF_vars(Program)

-----------------------------------------------------------------------------
(* Properties                                                               *)

Locations ==
    {"round", "not_support", "shell", "halted", "nor_dram", "nor_fip", "nor_uboot",
     "emmc_dram", "emmc_init", "emmc_uboot", "emmc_fip", "nand_init", "nand_dram",
     "nand_uboot", "nand_fip", "fat_find", "fat_dram", "fat_mode", "fat_fip",
     "fat_uboot", "zmem_check", "boot_uboot", "verify_fip", "load_tfa", "go_a64",
     "choose_core", "exit_xboot", "wait_ca7", "stuck", "launched"}
ShellReturns == {"round", "not_support", "fat_mode", "boot_uboot", "halted",
                 "go_a64", "exit_xboot"}

(* Every variable keeps its type through every loader and shell session.    *)
TypeOK ==
    /\ board \in Boards
    /\ media \in MediaType
    /\ mode \in Modes /\ type \in Modes
    /\ retry \in 0 .. Retries
    /\ pc \in Locations /\ back \in ShellReturns
    /\ dram \in {"raw", "ready", "bad"}
    /\ area \in [{"uboot", "fip"} -> ImageType]
    /\ loaded \subseteq {"uboot", "fip"}
    /\ bl31 \in BOOLEAN /\ waved \in BOOLEAN
    /\ core \in Cores \cup {"none"}

(* What is started was accepted by a loader in this very round: header and  *)
(* data checksums hold, on the AArch64 parts those of the FIP too, and a    *)
(* build with signatures has verified them.  No earlier round's leftovers,  *)
(* half-read image or ignored failure of a loader reaches a core.           *)
Sound(slot) ==
    /\ slot \in loaded
    /\ area[slot].flaws \cap {"magic", "hcrc", "dcrc"} = {}
    /\ board.secure => "sign" \notin area[slot].flaws
LaunchChecked ==
    pc = "launched" /\ ~board.zmem => Sound("uboot") /\ (A64 => Sound("fip"))

(* NOR, NAND and eMMC images go only into DRAM that passed the test of this *)
(* round's training (do_fat_boot ignores the result, see the README).       *)
DramTested ==
    /\ pc \in {"nor_fip", "nor_uboot", "emmc_init", "emmc_uboot", "emmc_fip",
               "nand_uboot", "nand_fip", "boot_uboot", "launched"}
    /\ type \notin FatTypes
    => dram = "ready"

(* A core is never given code for the other one, unless the operator left   *)
(* the warning's shell: Q628 by the image's name, I143 in CA7 mode by its   *)
(* architecture.                                                            *)
RightCore ==
    pc = "launched" /\ (board.plat = "Q628" \/ (board.plat = "I143" /\ board.ca7))
    => core = area.uboot.core \/ waved

(* A signature that fails ends the boot: from there only the shell and halt *)
(* are left, whatever the operator types and however many rounds remain.    *)
Forged ==
    /\ board.secure
    /\ \/ pc = "boot_uboot" /\ "sign" \in area.uboot.flaws
       \/ pc = "verify_fip" /\ "sign" \in area.fip.flaws
VerifyFailureIsFinal == [](Forged => [](Forged \/ pc \in {"shell", "halted"}))

(* xboot settles: it starts a core, halts, hangs on purpose, or waits for   *)
(* the operator or the CA7.  Quitting the shell over and over uses up the   *)
(* rounds.                                                                  *)
Settles == <>[](pc \in Ends \cup {"shell", "wait_ca7"})

(* Every round has a device to try: the boot mode stays one that boot_flow  *)
(* has a loader for.                                                        *)
RoundsReachLoader ==
    pc = "round" /\ retry > 0 => mode = "UART_ISP" \/ Entry[mode] # "not_support"
=============================================================================
