------------------------------ MODULE FatBoot ------------------------------
(***************************************************************************)
(* fat_boot() of fat/fat_boot.c: bring up the medium, find its FAT and look *)
(* for the boot files in the root directory; on USB, go on to the next port *)
(* of the hub if this device does not have them.  The devices of UsbEnum    *)
(* get a file system here:                                                  *)
(*   part   0: the FAT's first sector is sector 0; else its partition's     *)
(*   fs     "FAT_32", "FAT_16" or "none"                                    *)
(*   dir    the root directory: entries in the order of the sectors and of  *)
(*          the cluster chain, which search_fat32_files follows as          *)
(*          fat_read_file does (FatRead)                                    *)
(* Reads do not fail, but for the first: usb_readSector never says so, and  *)
(* the result of the others is not looked at.                               *)
(***************************************************************************)
EXTENDS UsbEnum, FiniteSets

CONSTANTS
    Worlds,                 \* what may be there: [type, card, root, hub]
    HaveFat16,              \* CONFIG_HAVE_FS_FAT16
    Files                   \* FILENAMES: ISPBOOOT, U-BOOT and, on some parts, FIP

EntryType == [name : STRING, size : Nat]

ASSUME FatBootAssumption ==
    /\ "ISPBOOOT" \in Files /\ IsFiniteSet(Files)
    /\ HaveFat16 \in BOOLEAN
    /\ \A w \in Worlds :
         /\ w.type \in {"USB_ISP", "SDCARD_ISP"} /\ w.card.dir \in Seq(EntryType)
         /\ DOMAIN w.root = 1 .. RootPorts /\ DOMAIN w.hub = 1 .. HubPorts
         /\ \A x \in 1 .. RootPorts : w.root[x].dir \in Seq(EntryType)
         /\ \A x \in 1 .. HubPorts : w.hub[x].dir \in Seq(EntryType)

VARIABLES
    type, card,     \* USB_ISP or SDCARD_ISP and the card, fixed
    startSector, fatType,   \* of info
    fileInfo,       \* of info: by file, where the entry was found and its size
    entry, count    \* the search: entries seen and matches

fat == <<startSector, fatType, fileInfo, entry, count>>
vars == <<usb, type, card, fat>>

NoFile == [at |-> Nowhere, entry |-> 0, size |-> 0]
Medium == IF type = "USB_ISP" THEN At(at[slot_id]) ELSE card
MediumAt == IF type = "USB_ISP" THEN at[slot_id] ELSE Nowhere

(* fat_boot up to check_next_port.                                          *)
Init ==
    /\ UsbInit
    /\ \E w \in Worlds : type = w.type /\ card = w.card /\ root = w.root /\ hub = w.hub
    /\ pc = IF type = "USB_ISP" THEN "usb_init" ELSE "sd_init"
    /\ startSector = 0 /\ fatType = "FAT_UNKNOW"
    /\ fileInfo = [f \in Files |-> NoFile]
    /\ entry = 0 /\ count = 0

InitSd ==
    /\ pc = "sd_init"
    /\ pc' \in {"first_sector", "fail"}
    /\ UNCHANGED <<things, next, n, i, h, udev, hc, failed, type, card, fat>>

(* "if (next_port_in_hub == -1)"                                            *)
UsbReady ==
    /\ pc = "usb_done"
    /\ pc' = IF next = -1 THEN "fail" ELSE "first_sector"
    /\ UNCHANGED <<things, next, n, i, h, udev, hc, failed, type, card, fat>>

(* Mutant: the partition of the device before is kept.                      *)
StartOfNext == startSector

(* check_next_port: "info->startSector = 0"                                 *)
StartSector == 0

(* Mutant: a device on the root hub is tried again and again.               *)
RetryAlways ==
    /\ IF type = "USB_ISP" THEN pc' = "usb_init" ELSE pc' = "fail"
    /\ startSector' = StartSector /\ fatType' = "FAT_UNKNOW"

(* "goto check_next_port" while the device was behind the hub, else FAIL.   *)
Retry ==
    IF type = "USB_ISP" /\ next # 0
    THEN pc' = "usb_init" /\ startSector' = StartSector /\ fatType' = "FAT_UNKNOW"
    ELSE pc' = "fail" /\ UNCHANGED <<startSector, fatType>>

Known == IF HaveFat16 THEN {"FAT_32", "FAT_16"} ELSE {"FAT_32"}

(* The sector at startSector: an MBR leads to the partition's.              *)
FirstSector ==
    /\ pc = "first_sector"
    /\ LET begin == IF startSector = 0 THEN Medium.part ELSE startSector
       IN  IF begin = Medium.part /\ Medium.fs \in Known
           THEN /\ startSector' = begin /\ fatType' = Medium.fs
                /\ entry' = 0 /\ count' = 0
                /\ pc' = "search"
           ELSE Retry /\ UNCHANGED <<entry, count>>
    /\ UNCHANGED <<things, next, n, i, h, udev, hc, failed, type, card, fileInfo>>

(* The card's first sector does not read.                                   *)
FirstSectorFails ==
    /\ pc = "first_sector" /\ type = "SDCARD_ISP"
    /\ pc' = "fail"
    /\ UNCHANGED <<things, next, n, i, h, udev, hc, failed, type, card, fat>>

(* USB looks for ISPBOOOT alone.                                            *)
Wanted == IF type = "SDCARD_ISP" THEN Files ELSE {"ISPBOOOT"}

(* Mutant: an empty ISPBOOOT will do.                                       *)
CompleteEmpty(info, c) == c = Cardinality(Wanted)

Complete(info, c) ==
    \/ type = "USB_ISP" /\ info["ISPBOOOT"].size # 0
    \/ type = "SDCARD_ISP" /\ c = Cardinality(Wanted)

(* search_fat32_files, search_fat16_files: one directory entry.             *)
SearchEntry ==
    /\ pc = "search" /\ entry < Len(Medium.dir)
    /\ entry' = entry + 1
    /\ LET e == Medium.dir[entry']
       IN  IF e.name \in Wanted
           THEN /\ fileInfo' = [fileInfo EXCEPT ![e.name] =
                                  [at |-> MediumAt, entry |-> entry', size |-> e.size]]
                /\ count' = count + 1
                /\ pc' = IF Complete(fileInfo', count') THEN "found" ELSE "search"
           ELSE UNCHANGED <<fileInfo, count, pc>>
    /\ UNCHANGED <<things, next, n, i, h, udev, hc, failed, type, card, startSector, fatType>>

(* The end of the directory: an SD card without all the files will do if it *)
(* has an ISPBOOOT.                                                         *)
SearchEnd ==
    /\ pc = "search" /\ entry = Len(Medium.dir)
    /\ IF type = "SDCARD_ISP" /\ fileInfo["ISPBOOOT"].size # 0
       THEN pc' = "found" /\ UNCHANGED <<startSector, fatType>>
       ELSE Retry
    /\ UNCHANGED <<things, next, n, i, h, udev, hc, failed, type, card, fileInfo, entry, count>>

(* found: PASS; fail: FAIL; reset: boot_reset; stuck: in wait_for_event.    *)
Ends == {"found", "fail", "reset", "stuck"}
Done == pc \in Ends /\ UNCHANGED vars

Program ==
    \/ UsbNext /\ UNCHANGED <<type, card, fat>>
    \/ InitSd \/ UsbReady \/ FirstSector \/ FirstSectorFails \/ SearchEntry \/ SearchEnd
Next == Program \/ Done

(* The program is sequential and runs.                                      *)
Spec == Init /\ [][Next]_vars /\ WF_vars(Program)

-----------------------------------------------------------------------------
(* Properties                                                               *)

TypeOK ==
    /\ UsbTypeOK
    /\ type \in {"USB_ISP", "SDCARD_ISP"} /\ startSector \in Nat
    /\ fatType \in {"FAT_UNKNOW", "FAT_32", "FAT_16"}
    /\ count \in 0 .. Cardinality(Files)
    /\ pc \in Ends \cup {"sd_init", "usb_init", "root_port", "hub_port", "alloc", "address",
                         "config", "class_hub", "storage", "usb_done", "first_sector", "search"}

(* What fat_boot hands to the loaders is of the medium it stopped at, not   *)
(* of one it looked at before: the file system and ISPBOOOT's entry, which  *)
(* is not empty unless an SD card has all the files.                        *)
FindsTheFile ==
    pc = "found" =>
        LET f == fileInfo["ISPBOOOT"]
        IN  /\ fatType = Medium.fs /\ startSector = Medium.part
            /\ f.at = MediumAt /\ f.entry \in DOMAIN Medium.dir
            /\ Medium.dir[f.entry] = [name |-> "ISPBOOOT", size |-> f.size]
            /\ f.size = 0 => type = "SDCARD_ISP" /\
                 \A x \in Files : fileInfo[x].at = MediumAt /\ fileInfo[x].entry # 0

Bootable(t) ==
    /\ t.kind = "disk" /\ t.fs \in Known
    /\ \E x \in DOMAIN t.dir : t.dir[x].name = "ISPBOOOT" /\ t.dir[x].size # 0

(* USB boot gives up only after every port was tried where it looks: all    *)
(* the root ports if nothing is there, all the hub's ports if it came to a  *)
(* hub, where no disk with the file is passed over.                         *)
NoDiskMissed ==
    pc = "fail" /\ type = "USB_ISP" =>
        /\ n = 0 /\ devnum = 1 => \A x \in 1 .. RootPorts : <<x, 0>> \in failed
        /\ n = 0 /\ devnum = 2 => ~Bootable(Medium)
        /\ n # 0 => \A x \in 1 .. HubPorts : Bootable(hub[x]) => <<portnr[2], x>> \in failed

(* fat_boot comes to an end on any tree of devices.                         *)
Settles == <>(pc \in Ends)
=============================================================================
