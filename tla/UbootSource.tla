--------------------------- MODULE UbootSource ---------------------------
(***************************************************************************)
(* What a boot medium with two u-boot copies promises to boot_flow: it ends *)
(* with one intact copy in memory or with none.  uboot1 is the factory      *)
(* image, uboot2 the updated one ("Logic" comments of nand_uboot and        *)
(* emmc_boot): a copy the loader has to find is never given up for nothing, *)
(* and an updated copy it has to find is the one that is used.              *)
(***************************************************************************)
VARIABLES
    intact,     \* the copies whose stored header and data are right
    must,       \* those among them the loader has to be able to load
    outcome     \* "loading", the copy in memory, or "none"

Copies == {"uboot1", "uboot2"}

Init ==
    /\ intact \in SUBSET Copies
    /\ must \in SUBSET intact
    /\ outcome = "loading"

Use(k) ==
    /\ outcome = "loading"
    /\ k \in intact
    /\ "uboot2" \in must => k = "uboot2"
    /\ outcome' = k
    /\ UNCHANGED <<intact, must>>

GiveUp ==
    /\ outcome = "loading"
    /\ must = {}
    /\ outcome' = "none"
    /\ UNCHANGED <<intact, must>>

Next == GiveUp \/ \E k \in Copies : Use(k)

(* The search ends.                                                         *)
Spec == Init /\ [][Next]_<<intact, must, outcome>> /\ WF_<<intact, must, outcome>>(Next)
=============================================================================
