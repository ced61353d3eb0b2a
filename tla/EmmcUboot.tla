---------------------------- MODULE EmmcUboot ----------------------------
(***************************************************************************)
(* emmc_boot() of xboot.c with emmc_load_uhdr_image: initialise the card,   *)
(* read the GPT through the shared g_boothead buffer, take the first of     *)
(* four partitions with a good u-boot header as uboot1, the next one that   *)
(* loads as uboot2, fall back to uboot1, then load the FIP.                 *)
(*                                                                          *)
(* emmc_read answers 0 or a positive ROM_FAIL; the GPT reads test for a     *)
(* negative answer, so they never notice a failure.                         *)
(***************************************************************************)
EXTENDS Integers

CONSTANTS
    Layouts,    \* what the four GPT partitions hold: [1 .. 4 -> Contents]
    Flaws,      \* the flaws an image may have
    HasFip      \* the part boots through a FIP

Parts == 1 .. 4
Contents == {"uboot1", "uboot2", "other"}
Images == {"uboot1", "uboot2", "fip"}

(* hcrc: the header checksum is wrong; dcrc: the data checksum is wrong;    *)
(* big: over the size limit; hdr_io, data_io: the first block or the        *)
(* following ones do not always read.                                       *)
EmmcAssumption ==
    /\ Layouts \subseteq [Parts -> Contents]
    /\ Flaws \subseteq SUBSET {"hcrc", "dcrc", "big", "hdr_io", "data_io"}
    /\ HasFip \in BOOLEAN

NotSet == -1    \* blk_start1 or blk_start2 at -1
Nothing == "nothing"

VARIABLES
    layout, flaws,      \* the medium, fixed
    weak,       \* init and GPT reads that may fail, fixed
    stage,      \* step of emmc_boot
    boothead,   \* what g_boothead holds
    i,          \* index of the partition loop
    start1, start2,     \* blk_start1, blk_start2: a partition or NotSet
    mem         \* u-boot and FIP area: whose header, whose other blocks

medium == <<layout, flaws, weak>>
vars == <<medium, stage, boothead, i, start1, start2, mem>>

Weak == {"init", "lba1", "lba2"}

Init ==
    /\ layout \in Layouts
    /\ flaws \in [Images -> Flaws]
    /\ weak \in {{}} \cup {{w} : w \in Weak}
    /\ stage = "init"
    /\ boothead = "old"
    /\ i = 1 /\ start1 = NotSet /\ start2 = NotSet
    /\ mem = [a \in {"uboot", "fip"} |-> [hdr |-> Nothing, data |-> Nothing]]

-----------------------------------------------------------------------------
(* What a partition holds as far as the loader can tell: nothing, when the  *)
(* entries it took the LBA from are not the GPT's.                          *)
At(p) == IF boothead = "entries" THEN layout[p] ELSE "other"

(* Magic, name and header checksum.                                         *)
HeaderGood(k) == k \in Images /\ "hcrc" \notin flaws[k]

MayFail(k, io) == k \in Images /\ io \in flaws[k]

(* emmc_load_uhdr_image of image k, header only or whole, with its result   *)
(* and what it leaves in memory.                                            *)
LoadHeader(k, ok) ==
    \/ /\ ~ok /\ MayFail(k, "hdr_io")
       /\ UNCHANGED mem
    \/ /\ ok = HeaderGood(k)
       /\ mem' = [mem EXCEPT !["uboot"]["hdr"] = k]

DataGood(k) == "dcrc" \notin flaws[k]

LoadWhole(area, k, ok) ==
    \/ /\ ~ok /\ MayFail(k, "hdr_io")
       /\ UNCHANGED mem
    \/ /\ ~ok /\ (HeaderGood(k) => "big" \in flaws[k] \/ MayFail(k, "data_io"))
       /\ \E d \in IF HeaderGood(k) /\ "big" \notin flaws[k]
                   THEN {mem[area].data, "mixed"} ELSE {mem[area].data} :
            mem' = [mem EXCEPT ![area] = [hdr |-> k, data |-> d]]
    \/ /\ HeaderGood(k) /\ "big" \notin flaws[k]
       /\ ok = DataGood(k)
       /\ mem' = [mem EXCEPT ![area] = [hdr |-> k, data |-> k]]

-----------------------------------------------------------------------------
InitCard ==
    /\ stage = "init"
    /\ \/ stage' = "gpt_hdr"
       \/ "init" \in weak /\ stage' = "failed"
    /\ UNCHANGED <<medium, boothead, i, start1, start2, mem>>

(* LBA 1: only the signature can tell that the read failed.                 *)
ReadGptHeader ==
    /\ stage = "gpt_hdr"
    /\ boothead' = "gpt_hdr" \/ ("lba1" \in weak /\ UNCHANGED boothead)
    /\ stage' = IF boothead' = "gpt_hdr" THEN "gpt_parts" ELSE "failed"
    /\ UNCHANGED <<medium, i, start1, start2, mem>>

(* LBA 2: a failed read leaves the header to be taken for entries.          *)
ReadGptEntries ==
    /\ stage = "gpt_parts"
    /\ boothead' = "entries" \/ ("lba2" \in weak /\ UNCHANGED boothead)
    /\ stage' = "parts"
    /\ UNCHANGED <<medium, i, start1, start2, mem>>

LookForUboot1 ==
    /\ stage = "parts" /\ i \in Parts /\ start1 = NotSet
    /\ \E ok \in BOOLEAN :
         LoadHeader(At(i), ok) /\ start1' = IF ok THEN i ELSE NotSet
    /\ i' = i + 1
    /\ UNCHANGED <<medium, stage, boothead, start2>>

AfterUboot == IF HasFip THEN "fip" ELSE "boot"

(* Mutant: the loop ends at the first partition after uboot1, good or not.  *)
LookOnceForUboot2 ==
    /\ stage = "parts" /\ i \in Parts /\ start1 # NotSet
    /\ \E ok \in BOOLEAN :
         /\ LoadWhole("uboot", At(i), ok)
         /\ start2' = i
         /\ stage' = IF ok THEN AfterUboot ELSE "failed"
    /\ i' = i + 1
    /\ UNCHANGED <<medium, boothead, start1>>

LookForUboot2 ==
    /\ stage = "parts" /\ i \in Parts /\ start1 # NotSet
    /\ \E ok \in BOOLEAN :
         /\ LoadWhole("uboot", At(i), ok)
         /\ start2' = IF ok THEN i ELSE NotSet
         /\ stage' = IF ok THEN AfterUboot ELSE stage
    /\ i' = i + 1
    /\ UNCHANGED <<medium, boothead, start1>>

FallBack ==
    /\ stage = "parts" /\ i = 5 /\ start1 # NotSet
    /\ \E ok \in BOOLEAN :
         /\ LoadWhole("uboot", At(start1), ok)
         /\ stage' = IF ok THEN AfterUboot ELSE "failed"
    /\ UNCHANGED <<medium, boothead, i, start1, start2>>

NoUboot ==
    /\ stage = "parts" /\ i = 5 /\ start1 = NotSet
    /\ stage' = "failed"
    /\ UNCHANGED <<medium, boothead, i, start1, start2, mem>>

LoadFip ==
    /\ stage = "fip"
    /\ \E ok \in BOOLEAN :
         LoadWhole("fip", "fip", ok) /\ stage' = IF ok THEN "boot" ELSE "no_fip"
    /\ UNCHANGED <<medium, boothead, i, start1, start2>>

Ends == {"boot", "failed", "no_fip"}
Done == stage \in Ends /\ UNCHANGED vars

Next ==
    \/ InitCard \/ ReadGptHeader \/ ReadGptEntries \/ LookForUboot1 \/ LookForUboot2
    \/ FallBack \/ NoUboot \/ LoadFip \/ Done
Spec == Init /\ [][Next]_vars /\ WF_vars(Next)

-----------------------------------------------------------------------------
(* Properties                                                               *)

TypeOK ==
    /\ stage \in {"init", "gpt_hdr", "gpt_parts", "parts", "fip"} \cup Ends
    /\ boothead \in {"old", "gpt_hdr", "entries"}
    /\ i \in 1 .. 5
    /\ start1 \in Parts \cup {NotSet} /\ start2 \in Parts \cup {NotSet}
    /\ mem \in [{"uboot", "fip"} -> [hdr : Contents \cup {"fip", Nothing},
                                     data : Contents \cup {"fip", "mixed", Nothing}]]

Intact(k) == flaws[k] \cap {"hcrc", "dcrc", "big"} = {}
Reliable(k) == Intact(k) /\ flaws[k] \cap {"hdr_io", "data_io"} = {}

(* boot_uboot finds header and data of one intact image in each area,       *)
(* although header-only and failed loads wrote there before.                *)
BootsWhole ==
    stage = "boot" => \A a \in IF HasFip THEN {"uboot", "fip"} ELSE {"uboot"} :
        /\ mem[a].hdr \in Images /\ Intact(mem[a].hdr)
        /\ mem[a].data = mem[a].hdr

Outcome ==
    IF stage \in {"fip", "boot", "no_fip"} THEN mem["uboot"].hdr
    ELSE IF stage = "failed" THEN "none" ELSE "loading"

(* As a u-boot source emmc_boot has these copies; with an initialised card  *)
(* and a GPT that reads it has to find those that read reliably, wherever   *)
(* the good headers are.                                                    *)
Copies == {"uboot1", "uboot2"} \cap {layout[p] : p \in Parts}
IntactCopies == {k \in Copies : Intact(k)}
Must == {k \in Copies : Reliable(k) /\ weak = {}}
=============================================================================
