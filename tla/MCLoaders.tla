----------------------------- MODULE MCLoaders -----------------------------
(* NAND: a factory u-boot at or behind app_blk_start, an update behind it,  *)
(* a FIP, each good or with one flaw, and at most one bad and one weak      *)
(* page.  eMMC: the GPT layouts of emmc_boot's comment, uboot1 and uboot2   *)
(* in the first two partitions or behind xboot, one of them missing, and a  *)
(* gap; every image with up to two flaws.                                   *)
EXTENDS Loaders, FiniteSets

Img(b, z, f) == [start |-> b, size |-> z, flaws |-> f]
Missing == Img(0, 0, {})
FlawSets == {{}, {"hcrc"}, {"dcrc"}}

MCFactories == {Missing} \cup {Img(b, z, f) : b \in {1, 2}, z \in {1, 3}, f \in FlawSets}
MCUpdates == {Missing} \cup {Img(b, 1, f) : b \in 2 .. 4, f \in FlawSets}
MCFips == {Img(5, 1, f) : f \in {{}, {"dcrc"}}}
MCFaults == {{}} \cup {{p} : p \in {2, 3, 4, 6, 8, 11}}

MCLayouts == {
    <<"uboot1", "uboot2", "other", "other">>,
    <<"other", "uboot1", "uboot2", "other">>,
    <<"other", "uboot1", "other", "uboot2">>,
    <<"other", "uboot1", "other", "other">>,
    <<"uboot2", "other", "other", "other">> }
MCFlaws == {f \in SUBSET {"hcrc", "dcrc", "big", "hdr_io", "data_io"} : Cardinality(f) <= 1}
             \cup {{"dcrc", "hdr_io"}, {"hdr_io", "data_io"}}

(* The updated copy on a NAND is used whenever it is good: "uboot2 start    *)
(* blk = (uboot1 start blk) + (num of blocks of uboot1)", a comment of      *)
(* nand_uboot.                                                              *)
UpdatePreferred == IsNand => Nand!UpdatePreferred
=============================================================================
