-------------------------- MODULE LoadersProofs --------------------------
(***************************************************************************)
(* Proofs about Loaders, for every set of partition tables, of flaws and    *)
(* of NAND contents.                                                        *)
(***************************************************************************)
EXTENDS Loaders, TLAPS
-----------------------------------------------------------------------------
(* EmmcUboot                                                                *)
(* Every variable has its type; the flaws and the layout are the medium's.  *)
EmmcMediumInv ==
    /\ emmcLayout \in [Emmc!Parts -> Emmc!Contents]
    /\ emmcFlaws \in [Emmc!Images -> SUBSET {"hcrc", "dcrc", "big", "hdr_io", "data_io"}]
    /\ emmcWeak \subseteq Emmc!Weak

EmmcTypeInv == EmmcMediumInv /\ Emmc!TypeOK

(* An area holds an image when header and data are that image's and it is   *)
(* not damaged.                                                             *)
EmmcHolds(a, k) == emmcMem[a] = [hdr |-> k, data |-> k] /\ k \in Emmc!Images /\ Emmc!Intact(k)

EmmcWholeInv ==
    /\ emmcStage \in {"fip", "boot", "no_fip"} => \E k \in Emmc!Copies : EmmcHolds("uboot", k)
    /\ emmcStage = "boot" /\ HasFip => \E k \in Emmc!Images : EmmcHolds("fip", k)

EmmcInv == EmmcTypeInv /\ EmmcWholeInv

-----------------------------------------------------------------------------
(* What can be told of a partition is what is in it, or nothing.            *)
LEMMA EmmcAtType ==
    ASSUME EmmcTypeInv, NEW p \in Emmc!Parts
    PROVE  /\ Emmc!At(p) \in Emmc!Contents
           /\ Emmc!At(p) # "other" => emmcBoothead = "entries" /\ Emmc!At(p) = emmcLayout[p]
BY DEF EmmcTypeInv, EmmcMediumInv, Emmc!At, Emmc!Contents, Emmc!Parts

(* A load keeps the types and the other area.                               *)
LEMMA EmmcLoadType ==
    ASSUME EmmcTypeInv, NEW a \in {"uboot", "fip"}, NEW k \in Emmc!Contents \cup {"fip"}, NEW ok \in BOOLEAN,
           Emmc!LoadWhole(a, k, ok)
    PROVE  /\ emmcMem' \in [{"uboot", "fip"} -> [hdr : Emmc!Contents \cup {"fip", Emmc!Nothing},
                                             data : Emmc!Contents \cup {"fip", "mixed", Emmc!Nothing}]]
           /\ \A b \in {"uboot", "fip"} \ {a} : emmcMem'[b] = emmcMem[b]
<1> DEFINE Area == [hdr : Emmc!Contents \cup {"fip", Emmc!Nothing}, data : Emmc!Contents \cup {"fip", "mixed", Emmc!Nothing}]
<1>1. emmcMem \in [{"uboot", "fip"} -> Area]
  BY DEF EmmcTypeInv, Emmc!TypeOK
<1>2. emmcMem' = emmcMem \/ \E d \in {emmcMem[a].data, "mixed", k} : emmcMem' = [emmcMem EXCEPT ![a] = [hdr |-> k, data |-> d]]
  BY DEF Emmc!LoadWhole
<1>3. \A d \in {emmcMem[a].data, "mixed", k} : [hdr |-> k, data |-> d] \in Area
  BY <1>1
<1> QED BY <1>1, <1>2, <1>3

(* A load that succeeds has put an undamaged image there.                   *)
LEMMA EmmcLoadHolds ==
    ASSUME EmmcTypeInv, NEW a \in {"uboot", "fip"}, NEW k \in Emmc!Contents \cup {"fip"}, Emmc!LoadWhole(a, k, TRUE)
    PROVE  k \in Emmc!Images /\ Emmc!Intact(k) /\ emmcMem'[a] = [hdr |-> k, data |-> k]
<1>1. Emmc!HeaderGood(k) /\ "big" \notin emmcFlaws[k] /\ Emmc!DataGood(k) /\ emmcMem' = [emmcMem EXCEPT ![a] = [hdr |-> k, data |-> k]]
  BY DEF Emmc!LoadWhole
<1>2. k \in Emmc!Images /\ Emmc!Intact(k)
  BY <1>1 DEF Emmc!HeaderGood, Emmc!DataGood, Emmc!Intact, Emmc!Images
<1> QED BY <1>1, <1>2 DEF EmmcTypeInv, Emmc!TypeOK
-----------------------------------------------------------------------------
LEMMA EmmcInitInv ==
    ASSUME Emmc!EmmcAssumption, Emmc!Init
    PROVE  EmmcInv
<1>1. EmmcMediumInv
  <2>1. emmcLayout \in [Emmc!Parts -> Emmc!Contents] /\ emmcWeak \subseteq Emmc!Weak
    BY DEF Emmc!EmmcAssumption, Emmc!Init
  <2>2. Flaws \subseteq SUBSET {"hcrc", "dcrc", "big", "hdr_io", "data_io"} /\ emmcFlaws \in [Emmc!Images -> Flaws]
    BY DEF Emmc!EmmcAssumption, Emmc!Init
  <2>3. emmcFlaws \in [Emmc!Images -> SUBSET {"hcrc", "dcrc", "big", "hdr_io", "data_io"}]
    BY <2>2, Zenon
  <2> QED BY <2>1, <2>3 DEF EmmcMediumInv
<1>2. Emmc!TypeOK
  BY DEF Emmc!Init, Emmc!TypeOK, Emmc!Parts, Emmc!NotSet
<1>3. EmmcWholeInv
  BY DEF Emmc!Init, EmmcWholeInv
<1> QED BY <1>1, <1>2, <1>3 DEF EmmcInv, EmmcTypeInv

(* Reading the partition table only moves stage and index on; mem changes   *)
(* in the loads alone.                                                      *)
LEMMA EmmcNextInv ==
    ASSUME EmmcInv, [Emmc!Next]_(Emmc!vars)
    PROVE  EmmcInv'
<1> USE DEF EmmcInv, EmmcTypeInv
<1>1. EmmcMediumInv'
  BY DEF EmmcMediumInv, Emmc!Next, Emmc!vars, Emmc!medium, Emmc!InitCard, Emmc!ReadGptHeader,
     Emmc!ReadGptEntries, Emmc!LookForUboot1, Emmc!LookForUboot2, Emmc!FallBack, Emmc!NoUboot,
     Emmc!LoadFip, Emmc!Done
<1>2. \A k \in Emmc!Images : Emmc!Intact(k) => Emmc!Intact(k)'
  BY DEF Emmc!Intact, Emmc!Next, Emmc!vars, Emmc!medium, Emmc!InitCard, Emmc!ReadGptHeader,
     Emmc!ReadGptEntries, Emmc!LookForUboot1, Emmc!LookForUboot2, Emmc!FallBack, Emmc!NoUboot,
     Emmc!LoadFip, Emmc!Done
<1>3. Emmc!Copies' = Emmc!Copies
  BY DEF Emmc!Copies, Emmc!Next, Emmc!vars, Emmc!medium, Emmc!InitCard, Emmc!ReadGptHeader,
     Emmc!ReadGptEntries, Emmc!LookForUboot1, Emmc!LookForUboot2, Emmc!FallBack, Emmc!NoUboot,
     Emmc!LoadFip, Emmc!Done
<1>4. CASE UNCHANGED Emmc!vars
  <2>1. Emmc!TypeOK'
    BY <1>4 DEF Emmc!TypeOK, Emmc!vars, Emmc!medium
  <2>2. EmmcWholeInv'
    BY <1>4, <1>2, <1>3 DEF EmmcWholeInv, EmmcHolds, Emmc!vars, Emmc!medium
  <2> QED BY <1>1, <2>1, <2>2
<1>5. CASE Emmc!InitCard \/ Emmc!ReadGptHeader \/ Emmc!ReadGptEntries \/ Emmc!NoUboot
  <2>1. Emmc!TypeOK'
    BY <1>5 DEF Emmc!TypeOK, Emmc!InitCard, Emmc!ReadGptHeader, Emmc!ReadGptEntries,
       Emmc!NoUboot, Emmc!Ends
  <2>2. emmcStage' \notin {"fip", "boot", "no_fip"}
    BY <1>5 DEF Emmc!InitCard, Emmc!ReadGptHeader, Emmc!ReadGptEntries, Emmc!NoUboot
  <2> QED BY <1>1, <2>1, <2>2 DEF EmmcWholeInv
<1>6. CASE Emmc!LookForUboot1
  <2>1. PICK ok \in BOOLEAN : Emmc!LoadHeader(Emmc!At(emmcI), ok) /\ emmcStart1' = IF ok THEN emmcI ELSE Emmc!NotSet
    BY <1>6 DEF Emmc!LookForUboot1
  <2>2. emmcI \in Emmc!Parts /\ emmcI' = emmcI + 1 /\ emmcStage' = "parts"
    BY <1>6 DEF Emmc!LookForUboot1
  <2>3. emmcMem' = emmcMem \/ emmcMem' = [emmcMem EXCEPT !["uboot"]["hdr"] = Emmc!At(emmcI)]
    BY <2>1 DEF Emmc!LoadHeader
  <2>4. Emmc!At(emmcI) \in Emmc!Contents
    BY <2>2, EmmcAtType
  <2>5. emmcMem' \in [{"uboot", "fip"} -> [hdr : Emmc!Contents \cup {"fip", Emmc!Nothing},
                                       data : Emmc!Contents \cup {"fip", "mixed", Emmc!Nothing}]]
    BY <2>3, <2>4 DEF Emmc!TypeOK
  <2>6. Emmc!TypeOK'
    BY <1>6, <2>1, <2>2, <2>5 DEF Emmc!TypeOK, Emmc!LookForUboot1, Emmc!Parts
  <2> QED BY <1>1, <2>2, <2>6 DEF EmmcWholeInv
<1>7. CASE Emmc!LookForUboot2 \/ Emmc!FallBack
  <2>1. PICK p \in Emmc!Parts, ok \in BOOLEAN :
          /\ Emmc!LoadWhole("uboot", Emmc!At(p), ok)
          /\ emmcStage' \in IF ok THEN {Emmc!AfterUboot} ELSE {"parts", "failed"}
    BY <1>7 DEF Emmc!LookForUboot2, Emmc!FallBack, Emmc!TypeOK
  <2>2. Emmc!At(p) \in Emmc!Contents /\ (Emmc!At(p) # "other" => Emmc!At(p) = emmcLayout[p])
    BY <2>1, EmmcAtType
  <2>3. Emmc!TypeOK'
    <3>1. emmcMem' \in [{"uboot", "fip"} -> [hdr : Emmc!Contents \cup {"fip", Emmc!Nothing},
                                         data : Emmc!Contents \cup {"fip", "mixed", Emmc!Nothing}]]
      BY <2>1, <2>2, EmmcLoadType
    <3> QED BY <1>7, <2>1, <3>1 DEF Emmc!TypeOK, Emmc!LookForUboot2, Emmc!FallBack,
       Emmc!AfterUboot, Emmc!Ends, Emmc!Parts
  <2>4. CASE ok
    <3>1. Emmc!At(p) \in Emmc!Images /\ Emmc!Intact(Emmc!At(p)) /\ emmcMem'["uboot"] = [hdr |-> Emmc!At(p), data |-> Emmc!At(p)]
      BY <2>1, <2>2, <2>4, EmmcLoadHolds
    <3>2. Emmc!At(p) \in Emmc!Copies
      BY <3>1, <2>2, <2>1 DEF Emmc!Copies, Emmc!Images, Emmc!Contents
    <3>3. \E k \in Emmc!Copies : emmcMem'["uboot"] = [hdr |-> k, data |-> k] /\ k \in Emmc!Images /\ Emmc!Intact(k)
      BY <3>1, <3>2
    <3>4. \E k \in Emmc!Copies' : EmmcHolds("uboot", k)'
      BY <3>3, <1>2, <1>3 DEF EmmcHolds
    <3>5. ~(emmcStage' = "boot" /\ HasFip)
      BY <2>1, <2>4 DEF Emmc!AfterUboot
    <3> QED BY <1>1, <2>3, <3>4, <3>5 DEF EmmcWholeInv
  <2>5. CASE ~ok
    BY <1>1, <2>1, <2>3, <2>5 DEF EmmcWholeInv
  <2> QED BY <2>1, <2>4, <2>5
<1>8. CASE Emmc!LoadFip
  <2>1. PICK ok \in BOOLEAN : Emmc!LoadWhole("fip", "fip", ok) /\ emmcStage' = IF ok THEN "boot" ELSE "no_fip"
    BY <1>8 DEF Emmc!LoadFip
  <2>2. /\ emmcMem' \in [{"uboot", "fip"} -> [hdr : Emmc!Contents \cup {"fip", Emmc!Nothing},
                                          data : Emmc!Contents \cup {"fip", "mixed", Emmc!Nothing}]]
        /\ emmcMem'["uboot"] = emmcMem["uboot"]
    BY <2>1, EmmcLoadType
  <2>3. Emmc!TypeOK'
    BY <1>8, <2>1, <2>2 DEF Emmc!TypeOK, Emmc!LoadFip, Emmc!Ends
  <2>4. \E k \in Emmc!Copies' : EmmcHolds("uboot", k)'
    BY <1>8, <1>2, <1>3, <2>2 DEF EmmcWholeInv, EmmcHolds, Emmc!LoadFip
  <2>5. ok => EmmcHolds("fip", "fip")'
    BY <2>1, <1>2, EmmcLoadHolds DEF EmmcHolds
  <2> QED BY <1>1, <2>1, <2>3, <2>4, <2>5 DEF EmmcWholeInv, Emmc!Images
<1>9. CASE Emmc!Done
  BY <1>4, <1>9 DEF Emmc!Done
<1> QED BY <1>4, <1>5, <1>6, <1>7, <1>8, <1>9 DEF Emmc!Next

LEMMA EmmcInvWhole ==
    ASSUME EmmcInv
    PROVE  Emmc!TypeOK /\ Emmc!BootsWhole
<1>1. Emmc!TypeOK
  BY DEF EmmcInv, EmmcTypeInv
<1>2. emmcStage = "boot" => \E k \in Emmc!Images : EmmcHolds("uboot", k)
  BY DEF EmmcInv, EmmcWholeInv, EmmcHolds
<1>3. emmcStage = "boot" /\ HasFip => \E k \in Emmc!Images : EmmcHolds("fip", k)
  BY DEF EmmcInv, EmmcWholeInv
<1>4. ASSUME NEW a \in {"uboot", "fip"}, NEW k \in Emmc!Images, EmmcHolds(a, k)
      PROVE  emmcMem[a].hdr \in Emmc!Images /\ Emmc!Intact(emmcMem[a].hdr) /\ emmcMem[a].data = emmcMem[a].hdr
  BY <1>4 DEF EmmcHolds
<1> QED BY <1>1, <1>2, <1>3, <1>4 DEF Emmc!BootsWhole

(* What the code takes for granted of a partition table: no copy twice, and *)
(* the factory copy first.                                                  *)
EmmcOrdered ==
    \A l \in Layouts : \A p, q \in Emmc!Parts :
        /\ l[p] # "other" /\ l[p] = l[q] => p = q
        /\ l[p] = "uboot1" /\ l[q] = "uboot2" => p < q

EmmcSource == INSTANCE UbootSource WITH
    intact <- Emmc!IntactCopies, must <- Emmc!Must, outcome <- Emmc!Outcome

(* A partition whose image reads.                                           *)
EmmcSound(p) == emmcLayout[p] \in {"uboot1", "uboot2"} /\ Emmc!Reliable(emmcLayout[p])

(* With a card and a GPT that read, the loop has passed no image that       *)
(* reads, but for the one it falls back to.                                 *)
EmmcSearchInv ==
    /\ emmcLayout \in Layouts
    /\ emmcWeak = {} /\ emmcStage = "gpt_parts" => emmcBoothead = "gpt_hdr"
    /\ emmcWeak = {} /\ emmcStage = "parts" => emmcBoothead = "entries"
    /\ emmcStage = "parts" /\ emmcStart1 # Emmc!NotSet => emmcStart1 < emmcI /\ Emmc!At(emmcStart1) \in {"uboot1", "uboot2"}
    /\ emmcStage = "parts" /\ emmcWeak = {} => \A p \in Emmc!Parts : p < emmcI /\ EmmcSound(p) => p = emmcStart1
    /\ emmcStage \in {"init", "gpt_hdr", "gpt_parts"} => emmcI = 1 /\ emmcStart1 = Emmc!NotSet

(* An image that reads is found by its header and loads.                    *)
LEMMA EmmcSoundLoads ==
    ASSUME EmmcTypeInv, emmcWeak = {}, emmcBoothead = "entries", NEW p \in Emmc!Parts, EmmcSound(p)
    PROVE  /\ ~Emmc!LoadHeader(Emmc!At(p), FALSE)
           /\ \A a \in {"uboot", "fip"} : ~Emmc!LoadWhole(a, Emmc!At(p), FALSE)
<1> DEFINE k == emmcLayout[p]
<1>1. Emmc!At(p) = k /\ k \in Emmc!Images /\ emmcFlaws[k] \cap {"hcrc", "dcrc", "big", "hdr_io", "data_io"} = {}
  BY DEF EmmcSound, Emmc!At, Emmc!Reliable, Emmc!Intact, Emmc!Images
<1>2. Emmc!HeaderGood(k) /\ Emmc!DataGood(k) /\ "big" \notin emmcFlaws[k] /\ ~Emmc!MayFail(k, "hdr_io") /\ ~Emmc!MayFail(k, "data_io")
  BY <1>1 DEF Emmc!HeaderGood, Emmc!DataGood, Emmc!MayFail
<1> QED BY <1>1, <1>2 DEF Emmc!LoadHeader, Emmc!LoadWhole

(* The copies that must be found depend on the medium alone.                *)
LEMMA EmmcMediumFixed ==
    ASSUME [Emmc!Next]_(Emmc!vars)
    PROVE  /\ Emmc!medium' = Emmc!medium
           /\ Emmc!IntactCopies' = Emmc!IntactCopies /\ Emmc!Must' = Emmc!Must
           /\ \A p \in Emmc!Parts : emmcBoothead' = emmcBoothead => Emmc!At(p)' = Emmc!At(p)
           /\ \A p \in Emmc!Parts : EmmcSound(p)' = EmmcSound(p)
<1>1. emmcLayout' = emmcLayout /\ emmcFlaws' = emmcFlaws /\ emmcWeak' = emmcWeak
  BY DEF Emmc!Next, Emmc!vars, Emmc!medium, Emmc!InitCard, Emmc!ReadGptHeader,
     Emmc!ReadGptEntries, Emmc!LookForUboot1, Emmc!LookForUboot2, Emmc!FallBack, Emmc!NoUboot,
     Emmc!LoadFip, Emmc!Done
<1> QED
  BY <1>1 DEF Emmc!medium, Emmc!IntactCopies, Emmc!Must, Emmc!Copies, Emmc!Reliable,
     Emmc!Intact, Emmc!At, EmmcSound

(* A copy that must be found is in a partition that reads.                  *)
LEMMA EmmcMustSound ==
    ASSUME NEW k \in Emmc!Must
    PROVE  emmcWeak = {} /\ \E p \in Emmc!Parts : emmcLayout[p] = k /\ EmmcSound(p)
BY DEF Emmc!Must, Emmc!Copies, EmmcSound

LEMMA EmmcSearchInit ==
    ASSUME Emmc!EmmcAssumption, Emmc!Init
    PROVE  EmmcSearchInv /\ EmmcSource!Init
<1>1. EmmcSearchInv
  BY DEF Emmc!Init, EmmcSearchInv, Emmc!NotSet, Emmc!Parts
<1>2. EmmcSource!Init
  BY DEF Emmc!Init, EmmcSource!Init, EmmcSource!Copies, Emmc!IntactCopies, Emmc!Must,
     Emmc!Copies, Emmc!Reliable, Emmc!Outcome
<1> QED BY <1>1, <1>2

LEMMA EmmcSearchNext ==
    ASSUME EmmcInv, EmmcSearchInv, [Emmc!Next]_(Emmc!vars)
    PROVE  EmmcSearchInv'
<1> USE EmmcMediumFixed DEF EmmcSearchInv
<1>1. emmcLayout' \in Layouts /\ emmcLayout' = emmcLayout /\ emmcWeak' = emmcWeak
  BY DEF Emmc!medium
<1>2. CASE UNCHANGED Emmc!vars
  BY <1>1, <1>2 DEF Emmc!vars, Emmc!At
<1>3. CASE Emmc!InitCard \/ Emmc!ReadGptHeader
  BY <1>1, <1>3 DEF Emmc!InitCard, Emmc!ReadGptHeader
<1>4. CASE Emmc!ReadGptEntries
  <2>1. emmcI' = 1 /\ emmcStart1' = Emmc!NotSet /\ emmcStage' = "parts" /\ (emmcWeak = {} => emmcBoothead' = "entries")
    BY <1>4 DEF Emmc!ReadGptEntries
  <2> QED BY <1>1, <2>1 DEF Emmc!Parts
<1>5. CASE Emmc!LookForUboot1
  <2>1. PICK ok \in BOOLEAN : Emmc!LoadHeader(Emmc!At(emmcI), ok) /\ emmcStart1' = IF ok THEN emmcI ELSE Emmc!NotSet
    BY <1>5 DEF Emmc!LookForUboot1
  <2>2. /\ emmcI \in Emmc!Parts /\ emmcI' = emmcI + 1 /\ emmcStage = "parts" /\ emmcStage' = "parts" /\ emmcStart1 = Emmc!NotSet
        /\ emmcBoothead' = emmcBoothead
    BY <1>5 DEF Emmc!LookForUboot1
  <2>3. ok => Emmc!At(emmcI) \in {"uboot1", "uboot2"}
    <3>1. Emmc!LoadHeader(Emmc!At(emmcI), TRUE) => Emmc!At(emmcI) \in Emmc!Images
      BY DEF Emmc!LoadHeader, Emmc!HeaderGood
    <3>2. Emmc!At(emmcI) \in Emmc!Contents
      BY <2>2, EmmcAtType DEF EmmcInv
    <3> QED BY <2>1, <3>1, <3>2 DEF Emmc!Images, Emmc!Contents
  <2>4. emmcStart1' # Emmc!NotSet => emmcStart1' < emmcI' /\ Emmc!At(emmcStart1)' \in {"uboot1", "uboot2"}
    <3>1. ok => Emmc!At(emmcStart1)' = Emmc!At(emmcI)
      BY <1>1, <2>1, <2>2 DEF Emmc!At
    <3> QED BY <2>1, <2>2, <2>3, <3>1 DEF Emmc!NotSet, Emmc!Parts
  <2>5. ASSUME emmcWeak = {}, NEW p \in Emmc!Parts, p < emmcI', EmmcSound(p) PROVE p = emmcStart1'
    <3>1. p < emmcI \/ p = emmcI
      BY <2>2, <2>5 DEF Emmc!Parts
    <3>2. CASE p < emmcI
      BY <2>2, <2>5, <3>2 DEF Emmc!NotSet, Emmc!Parts
    <3>3. CASE p = emmcI
      BY <2>1, <2>2, <2>5, <3>3, EmmcSoundLoads DEF EmmcInv
    <3> QED BY <3>1, <3>2, <3>3
  <2> QED BY <1>1, <2>2, <2>4, <2>5
<1>6. CASE Emmc!LookForUboot2
  <2>1. PICK ok \in BOOLEAN :
          Emmc!LoadWhole("uboot", Emmc!At(emmcI), ok) /\ emmcStage' = IF ok THEN Emmc!AfterUboot ELSE emmcStage
    BY <1>6 DEF Emmc!LookForUboot2
  <2>2. /\ emmcI \in Emmc!Parts /\ emmcI' = emmcI + 1 /\ emmcStage = "parts" /\ emmcStart1' = emmcStart1 /\ emmcStart1 # Emmc!NotSet
        /\ emmcBoothead' = emmcBoothead
    BY <1>6 DEF Emmc!LookForUboot2
  <2>3. CASE ok
    BY <1>1, <2>1, <2>3 DEF Emmc!AfterUboot
  <2>4. CASE ~ok
    <3>1. emmcStage' = "parts" /\ emmcStart1' < emmcI' /\ Emmc!At(emmcStart1)' = Emmc!At(emmcStart1)
      BY <1>1, <2>1, <2>2, <2>4 DEF Emmc!Parts, Emmc!At, EmmcInv, EmmcTypeInv, Emmc!TypeOK
    <3>2. ASSUME emmcWeak = {}, NEW p \in Emmc!Parts, p < emmcI', EmmcSound(p) PROVE p = emmcStart1'
      <4>1. p < emmcI \/ p = emmcI
        BY <2>2, <3>2 DEF Emmc!Parts
      <4>2. p # emmcI
        BY <2>1, <2>2, <2>4, <3>2, EmmcSoundLoads DEF EmmcInv
      <4> QED BY <2>2, <3>2, <4>1, <4>2
    <3> QED BY <1>1, <2>2, <3>1, <3>2
  <2> QED BY <2>3, <2>4
<1>7. CASE Emmc!FallBack \/ Emmc!NoUboot \/ Emmc!LoadFip
  BY <1>1, <1>7 DEF Emmc!FallBack, Emmc!NoUboot, Emmc!LoadFip, Emmc!AfterUboot
<1>8. CASE Emmc!Done
  BY <1>2, <1>8 DEF Emmc!Done
<1> QED BY <1>2, <1>3, <1>4, <1>5, <1>6, <1>7, <1>8 DEF Emmc!Next

(* Every step is one of a u-boot source or leaves it as it is: the search   *)
(* ends with the update whenever that one has to be found, and gives up     *)
(* only when nothing has to be found.                                       *)
LEMMA EmmcSearchStep ==
    ASSUME EmmcOrdered, EmmcInv, EmmcSearchInv, [Emmc!Next]_(Emmc!vars)
    PROVE  [EmmcSource!Next]_<<Emmc!IntactCopies, Emmc!Must, Emmc!Outcome>>
<1>1. Emmc!IntactCopies' = Emmc!IntactCopies /\ Emmc!Must' = Emmc!Must
  BY EmmcMediumFixed
<1>2. CASE UNCHANGED Emmc!vars
  BY <1>1, <1>2 DEF Emmc!vars, Emmc!Outcome
<1>3. CASE Emmc!InitCard \/ Emmc!ReadGptHeader
  <2>1. emmcStage \in {"init", "gpt_hdr"} /\ (emmcStage' = "failed" => emmcWeak # {}) /\ (emmcStage' \in {"failed", "gpt_hdr", "gpt_parts"})
    BY <1>3 DEF Emmc!InitCard, Emmc!ReadGptHeader
  <2>2. CASE emmcStage' = "failed"
    <3>1. Emmc!Must = {} /\ Emmc!Outcome = "loading" /\ Emmc!Outcome' = "none"
      BY <2>1, <2>2 DEF Emmc!Must, Emmc!Outcome
    <3> QED BY <1>1, <3>1 DEF EmmcSource!Next, EmmcSource!GiveUp
  <2>3. CASE emmcStage' # "failed"
    BY <1>1, <2>1, <2>3 DEF Emmc!Outcome
  <2> QED BY <2>2, <2>3
<1>4. CASE Emmc!ReadGptEntries \/ Emmc!LookForUboot1
  BY <1>1, <1>4 DEF Emmc!ReadGptEntries, Emmc!LookForUboot1, Emmc!Outcome
<1>5. ASSUME NEW p \in Emmc!Parts, emmcStage = "parts", Emmc!LoadWhole("uboot", Emmc!At(p), TRUE), emmcStage' = Emmc!AfterUboot,
             "uboot2" \in Emmc!Must => Emmc!At(p) = "uboot2"
      PROVE  EmmcSource!Next
  <2>1. Emmc!At(p) \in Emmc!Contents /\ (Emmc!At(p) # "other" => Emmc!At(p) = emmcLayout[p])
    BY EmmcAtType DEF EmmcInv
  <2>2. Emmc!At(p) \in Emmc!Images /\ Emmc!Intact(Emmc!At(p)) /\ emmcMem'["uboot"] = [hdr |-> Emmc!At(p), data |-> Emmc!At(p)]
    BY <1>5, <2>1, EmmcLoadHolds DEF EmmcInv
  <2>3. Emmc!At(p) \in Emmc!IntactCopies /\ Emmc!At(p) \in EmmcSource!Copies
    BY <2>1, <2>2 DEF Emmc!IntactCopies, Emmc!Copies, Emmc!Images, Emmc!Contents,
       EmmcSource!Copies
  <2>4. Emmc!Outcome = "loading" /\ Emmc!Outcome' = Emmc!At(p)
    BY <1>5, <2>2 DEF Emmc!Outcome, Emmc!AfterUboot
  <2> QED BY <1>1, <1>5, <2>3, <2>4 DEF EmmcSource!Next, EmmcSource!Use
<1>6. CASE Emmc!LookForUboot2
  <2>1. PICK ok \in BOOLEAN :
          Emmc!LoadWhole("uboot", Emmc!At(emmcI), ok) /\ emmcStage' = IF ok THEN Emmc!AfterUboot ELSE emmcStage
    BY <1>6 DEF Emmc!LookForUboot2
  <2>2. emmcI \in Emmc!Parts /\ emmcStage = "parts" /\ emmcStart1 # Emmc!NotSet
    BY <1>6 DEF Emmc!LookForUboot2
  <2>3. CASE ok
    <3>1. Emmc!At(emmcI) # "other"
      BY <2>1, <2>3 DEF Emmc!LoadWhole, Emmc!HeaderGood, Emmc!Images
    <3>2. emmcBoothead = "entries" /\ Emmc!At(emmcI) = emmcLayout[emmcI] /\ emmcLayout[emmcI] \in {"uboot1", "uboot2"}
      BY <2>2, <3>1, EmmcAtType DEF EmmcInv, Emmc!Contents
    <3>3. emmcStart1 \in Emmc!Parts /\ emmcStart1 < emmcI /\ emmcLayout[emmcStart1] \in {"uboot1", "uboot2"}
      BY <2>2, <3>2 DEF EmmcSearchInv, Emmc!At, EmmcInv, EmmcTypeInv, Emmc!TypeOK
    <3>4. emmcLayout[emmcI] = "uboot2"
      BY <2>2, <3>2, <3>3 DEF EmmcOrdered, EmmcSearchInv, Emmc!Parts
    <3> QED BY <1>5, <2>1, <2>2, <2>3, <3>2, <3>4
  <2>4. CASE ~ok
    BY <1>1, <2>1, <2>2, <2>4 DEF Emmc!Outcome
  <2> QED BY <2>3, <2>4
<1>7. CASE Emmc!FallBack
  <2>1. PICK ok \in BOOLEAN :
          Emmc!LoadWhole("uboot", Emmc!At(emmcStart1), ok) /\ emmcStage' = IF ok THEN Emmc!AfterUboot ELSE "failed"
    BY <1>7 DEF Emmc!FallBack
  <2>2. emmcStart1 \in Emmc!Parts /\ emmcStage = "parts" /\ emmcI = 5
    BY <1>7 DEF Emmc!FallBack, EmmcInv, EmmcTypeInv, Emmc!TypeOK
  <2>3. ASSUME NEW k \in Emmc!Must
        PROVE  emmcWeak = {} /\ emmcBoothead = "entries" /\ Emmc!At(emmcStart1) = k /\ EmmcSound(emmcStart1)
    <3>1. PICK p \in Emmc!Parts : emmcWeak = {} /\ emmcLayout[p] = k /\ EmmcSound(p)
      BY EmmcMustSound
    <3>2. p < emmcI
      BY <2>2 DEF Emmc!Parts
    <3>3. emmcBoothead = "entries" /\ p = emmcStart1
      BY <2>2, <3>1, <3>2 DEF EmmcSearchInv
    <3> QED BY <3>1, <3>3 DEF Emmc!At
  <2>4. CASE ok
    BY <1>5, <2>1, <2>2, <2>3, <2>4
  <2>5. CASE ~ok
    <3>1. Emmc!Must = {}
      BY <2>1, <2>2, <2>3, <2>5, EmmcSoundLoads DEF EmmcInv
    <3>2. Emmc!Outcome = "loading" /\ Emmc!Outcome' = "none"
      BY <2>1, <2>2, <2>5 DEF Emmc!Outcome
    <3> QED BY <1>1, <3>1, <3>2 DEF EmmcSource!Next, EmmcSource!GiveUp
  <2> QED BY <2>4, <2>5
<1>8. CASE Emmc!NoUboot
  <2>1. emmcStage = "parts" /\ emmcI = 5 /\ emmcStart1 = Emmc!NotSet /\ emmcStage' = "failed"
    BY <1>8 DEF Emmc!NoUboot
  <2>2. Emmc!Must = {}
    <3>1. ASSUME NEW k \in Emmc!Must PROVE FALSE
      <4>1. PICK p \in Emmc!Parts : emmcWeak = {} /\ EmmcSound(p)
        BY EmmcMustSound
      <4>2. p = emmcStart1
        BY <2>1, <4>1 DEF EmmcSearchInv, Emmc!Parts
      <4> QED BY <2>1, <4>2 DEF Emmc!NotSet, Emmc!Parts
    <3> QED BY <3>1
  <2> QED BY <1>1, <2>1, <2>2 DEF Emmc!Outcome, EmmcSource!Next, EmmcSource!GiveUp
<1>9. CASE Emmc!LoadFip
  <2>1. emmcMem'["uboot"] = emmcMem["uboot"]
    BY <1>9, EmmcLoadType DEF Emmc!LoadFip, EmmcInv
  <2> QED BY <1>1, <1>9, <2>1 DEF Emmc!LoadFip, Emmc!Outcome
<1>10. CASE Emmc!Done
  BY <1>2, <1>10 DEF Emmc!Done
<1> QED BY <1>2, <1>3, <1>4, <1>6, <1>7, <1>8, <1>9, <1>10 DEF Emmc!Next
-----------------------------------------------------------------------------
(* NandUboot                                                                *)
NandMediumInv ==
    /\ nandImgs \in [Nand!Ids -> Nand!ImageType]
    /\ nandBad \in SUBSET Nat /\ nandWeak \in SUBSET Nat
    /\ \A k, l \in Nand!Present : k # l => Nand!Blocks(k) \cap Nand!Blocks(l) = {}
    /\ \A k \in Nand!Ids : HdrSize + nandImgs[k].size + SignSize <= MaxPages * PageSize

NandLoading == {"uboot2", "fallback", "fip"}

(* While an image is read or checked its header, found with the right name  *)
(* and checksum, is at the start of the load area.                          *)
NandReadInv ==
    nandStep \in {"read", "check"} =>
        /\ nandStage \in NandLoading
        /\ Nand!Matches(nandReal * PagesPerBlk) # {}
        /\ nandMem[Nand!Slot][0] = nandReal * PagesPerBlk

NandWhole(s) == \E k \in Nand!Present : Nand!NameOf(k) = s /\ Nand!Intact(k) /\ Nand!Complete(s, k)

NandWholeInv ==
    /\ nandStage \in {"fip", "boot", "no_fip"} => NandWhole("uboot")
    /\ nandStage = "boot" /\ HasFip => NandWhole("fip")

NandInv == Nand!TypeOK /\ NandMediumInv /\ NandReadInv /\ NandWholeInv

-----------------------------------------------------------------------------
(* Arithmetic                                                               *)

LEMMA NandCeilPositive ==
    ASSUME NEW a \in Nat \ {0}, NEW b \in Nat \ {0}
    PROVE  Nand!Ceil(a, b) \in Nat \ {0}
BY DEF Nand!Ceil

LEMMA SameFactor ==
    ASSUME NEW a \in Nat, NEW b \in Nat, NEW c \in Nat \ {0}, a * c = b * c
    PROVE  a = b
OBVIOUS

LEMMA BelowProduct ==
    ASSUME NEW n1 \in Nat, NEW m \in Nat, NEW c \in Nat \ {0}, n1 * c < m * c
    PROVE  n1 < m
OBVIOUS

LEMMA ProductNat ==
    ASSUME NEW a \in Nat, NEW b \in Nat
    PROVE  a * b \in Nat
OBVIOUS

LEMMA ProductPositive ==
    ASSUME NEW a \in Nat \ {0}, NEW b \in Nat \ {0}
    PROVE  a * b \in Nat \ {0}
OBVIOUS

-----------------------------------------------------------------------------
(* No two images have a header in one page.                                 *)
LEMMA NandOneHeader ==
    ASSUME Nand!NandAssumption, NandMediumInv, NEW p, NEW k \in Nand!HeaderIn(p), NEW l \in Nand!HeaderIn(p)
    PROVE  k = l
<1>1. k \in Nand!Present /\ l \in Nand!Present /\ nandImgs[k].start * PagesPerBlk = nandImgs[l].start * PagesPerBlk
  BY DEF Nand!HeaderIn, Nand!FirstPage
<1>2. nandImgs[k] \in Nand!ImageType /\ nandImgs[l] \in Nand!ImageType
  BY <1>1 DEF NandMediumInv, Nand!Present
<1>3. nandImgs[k].start = nandImgs[l].start /\ nandImgs[k].start \in Nat
  BY <1>1, <1>2, SameFactor DEF Nand!ImageType, Nand!NandAssumption
<1>4. ASSUME NEW x \in Nand!Present PROVE nandImgs[x].start \in Nand!Blocks(x)
  <2>1. nandImgs[x] \in Nand!ImageType
    BY DEF NandMediumInv, Nand!Present
  <2>2. HdrSize + nandImgs[x].size + SignSize \in Nat \ {0} /\ PageSize \in Nat \ {0} /\ PagesPerBlk \in Nat \ {0}
    BY <2>1 DEF Nand!ImageType, Nand!NandAssumption
  <2>3. Nand!PageCount(x) \in Nat \ {0}
    BY <2>2, NandCeilPositive DEF Nand!PageCount
  <2>4. Nand!Ceil(Nand!PageCount(x), PagesPerBlk) \in Nat \ {0}
    BY <2>2, <2>3, NandCeilPositive
  <2> QED BY <2>1, <2>4 DEF Nand!Blocks, Nand!ImageType
<1>5. nandImgs[k].start \in Nand!Blocks(k) \cap Nand!Blocks(l)
  BY <1>1, <1>3, <1>4
<1> QED BY <1>1, <1>5 DEF NandMediumInv

-----------------------------------------------------------------------------
LEMMA NandInitInv ==
    ASSUME Nand!NandAssumption, Nand!Init
    PROVE  NandInv
<1>1. nandImgs \in [uboot1 : Factories, uboot2 : Updates, fip : Fips] /\ DOMAIN nandImgs = Nand!Ids
  BY DEF Nand!Init, Nand!Ids
<1>2. \A k \in Nand!Ids : nandImgs[k] \in Factories \cup Updates \cup Fips
  BY <1>1 DEF Nand!Ids
<1>3. nandImgs \in [Nand!Ids -> Nand!ImageType] /\ \A k \in Nand!Ids : HdrSize + nandImgs[k].size + SignSize <= MaxPages * PageSize
  BY <1>1, <1>2 DEF Nand!NandAssumption
<1>4. nandBad \in SUBSET Nat /\ nandWeak \in SUBSET Nat
  BY DEF Nand!Init, Nand!NandAssumption
<1>5. NandMediumInv
  BY <1>3, <1>4 DEF NandMediumInv, Nand!Init
<1>6. Nand!TypeOK
  <2>1. nandMem \in [Nand!Slots -> [0 .. MaxPages - 1 -> Nat \cup {Nand!NoPage}]]
    BY DEF Nand!Init
  <2>2. 0 \in 0 .. SearchBlks /\ 0 \in 0 .. MaxPages /\ AppBlk \in Nat
    BY DEF Nand!NandAssumption
  <2> QED BY <1>3, <1>4, <2>1, <2>2 DEF Nand!Init, Nand!TypeOK, Nand!Stages
<1>7. NandReadInv /\ NandWholeInv
  BY DEF Nand!Init, NandReadInv, NandWholeInv
<1> QED BY <1>5, <1>6, <1>7 DEF NandInv

(* What follows a load starts with a search, whatever came before.          *)
LEMMA NandFailedType ==
    ASSUME Nand!NandAssumption, Nand!TypeOK, Nand!Failed
    PROVE  /\ nandStep' = "find" /\ nandI' = 0 /\ nandN' = 0 /\ nandBlkStart' \in Nat
           /\ nandStage' \in {"uboot2", "fallback", "failed", "no_fip"}
           /\ nandStage' = "no_fip" => nandStage = "fip"
BY DEF Nand!TypeOK, Nand!Failed, Nand!Call, Nand!NandAssumption

LEMMA NandLoadedType ==
    ASSUME Nand!NandAssumption, Nand!TypeOK, Nand!Loaded, nandStage \in NandLoading
    PROVE  /\ nandStep' = "find" /\ nandI' = 0 /\ nandN' = 0 /\ nandBlkStart' \in Nat
           /\ nandStage' \in {"fip", "boot"}
           /\ nandStage' = "fip" => nandStage \in {"uboot2", "fallback"}
           /\ nandStage' = "boot" /\ HasFip => nandStage = "fip"
BY DEF Nand!TypeOK, Nand!Loaded, Nand!Call, Nand!NandAssumption, NandLoading

(* A page goes to the area of the stage alone.                              *)
LEMMA NandPutType ==
    ASSUME Nand!NandAssumption, Nand!TypeOK, NEW o \in Nat, NEW p \in Nat \cup {Nand!NoPage}, Nand!Put(o, p)
    PROVE  /\ nandMem' \in [Nand!Slots -> [0 .. MaxPages - 1 -> Nat \cup {Nand!NoPage}]]
           /\ \A s \in Nand!Slots \ {Nand!Slot} : nandMem'[s] = nandMem[s]
           /\ o = 0 => nandMem'[Nand!Slot][0] = p
           /\ o # 0 => nandMem'[Nand!Slot][0] = nandMem[Nand!Slot][0]
<1>1. nandMem \in [Nand!Slots -> [0 .. MaxPages - 1 -> Nat \cup {Nand!NoPage}]] /\ Nand!Slot \in Nand!Slots
  BY DEF Nand!TypeOK, Nand!Slot, Nand!Slots
<1>2. nandMem' = [nandMem EXCEPT ![Nand!Slot] = [nandMem[Nand!Slot] EXCEPT ![o] = p]]
  BY DEF Nand!Put
<1>3. nandMem[Nand!Slot] \in [0 .. MaxPages - 1 -> Nat \cup {Nand!NoPage}]
  BY <1>1
<1>4. [nandMem[Nand!Slot] EXCEPT ![o] = p] \in [0 .. MaxPages - 1 -> Nat \cup {Nand!NoPage}]
  BY <1>3
<1>5. /\ o = 0 => [nandMem[Nand!Slot] EXCEPT ![o] = p][0] = p
      /\ o # 0 => [nandMem[Nand!Slot] EXCEPT ![o] = p][0] = nandMem[Nand!Slot][0]
  <2>1. 0 \in 0 .. MaxPages - 1
    BY DEF Nand!NandAssumption
  <2> QED BY <1>3, <2>1
<1>6. nandMem'[Nand!Slot] = [nandMem[Nand!Slot] EXCEPT ![o] = p]
  BY <1>1, <1>2
<1> QED BY <1>1, <1>2, <1>4, <1>5, <1>6

(* What is wanted of a page count that a read stays below.                  *)
LEMMA NandWantFits ==
    ASSUME Nand!NandAssumption, NandMediumInv, NandReadInv, nandStep = "read"
    PROVE  Nand!Want <= MaxPages * PageSize /\ Nand!Want \in Nat
<1> DEFINE k == CHOOSE x \in Nand!HeaderIn(nandReal * PagesPerBlk) : TRUE
<1>1. k \in Nand!HeaderIn(nandReal * PagesPerBlk)
  BY DEF NandReadInv, Nand!Matches
<1>2. k \in Nand!Ids
  BY <1>1 DEF Nand!HeaderIn, Nand!Present
<1>3. nandImgs[k].size \in Nat
  BY <1>2 DEF NandMediumInv, Nand!ImageType
<1> QED BY <1>2, <1>3 DEF Nand!Want, NandMediumInv, Nand!NandAssumption

LEMMA NandMediumFixed ==
    ASSUME [Nand!Next]_(Nand!vars)
    PROVE  nandImgs' = nandImgs /\ nandBad' = nandBad /\ nandWeak' = nandWeak
BY DEF Nand!Next, Nand!vars, Nand!medium, Nand!FindHit, Nand!FindMiss, Nand!NotFound,
   Nand!ReadNext, Nand!Check, Nand!Done

(* What is whole stays whole while its area is not written.                 *)
LEMMA NandWholeStays ==
    ASSUME nandImgs' = nandImgs, NEW s \in Nand!Slots, nandMem'[s] = nandMem[s], NandWhole(s)
    PROVE  NandWhole(s)'
BY DEF NandWhole, Nand!Present, Nand!Intact, Nand!Complete, Nand!FirstPage

(* What passes the check is whole.                                          *)
LEMMA NandCheckedWhole ==
    ASSUME Nand!NandAssumption, NandMediumInv, NandReadInv, nandStep = "check", Nand!DcrcHolds(Nand!Slot)
    PROVE  NandWhole(Nand!Slot)
<1>1. PICK k \in Nand!HeaderIn(nandMem[Nand!Slot][0]) : "dcrc" \notin nandImgs[k].flaws /\ Nand!Complete(Nand!Slot, k)
  BY DEF Nand!DcrcHolds
<1>2. PICK l \in Nand!Matches(nandMem[Nand!Slot][0]) : TRUE
  BY DEF NandReadInv
<1>3. l \in Nand!HeaderIn(nandMem[Nand!Slot][0]) /\ Nand!NameOf(l) = Nand!Slot /\ "hcrc" \notin nandImgs[l].flaws
  BY <1>2 DEF Nand!Matches
<1>4. k = l
  BY <1>1, <1>3, NandOneHeader
<1>5. k \in Nand!Present /\ nandImgs[k] \in Nand!ImageType
  BY <1>1 DEF Nand!HeaderIn, Nand!Present, NandMediumInv
<1>6. nandImgs[k].flaws = {}
  BY <1>1, <1>3, <1>4, <1>5 DEF Nand!ImageType
<1> QED BY <1>1, <1>3, <1>4, <1>5, <1>6 DEF NandWhole, Nand!Intact

LEMMA NandNextInv ==
    ASSUME Nand!NandAssumption, NandInv, [Nand!Next]_(Nand!vars)
    PROVE  NandInv'
<1> USE DEF NandInv
<1>1. nandImgs' = nandImgs /\ nandBad' = nandBad /\ nandWeak' = nandWeak
  BY NandMediumFixed
<1>2. NandMediumInv'
  BY <1>1 DEF NandMediumInv, Nand!Present, Nand!Blocks, Nand!PageCount
<1>3. CASE UNCHANGED Nand!vars
  <2>1. Nand!TypeOK'
    BY <1>3 DEF Nand!TypeOK, Nand!vars, Nand!medium
  <2>2. NandReadInv'
    BY <1>1, <1>3 DEF NandReadInv, Nand!vars, Nand!medium, Nand!Matches, Nand!HeaderIn,
       Nand!Present, Nand!FirstPage, Nand!Slot
  <2>3. NandWholeInv'
    BY <1>1, <1>3, NandWholeStays DEF NandWholeInv, Nand!vars, Nand!medium, Nand!Slots
  <2> QED BY <1>2, <2>1, <2>2, <2>3
<1>4. Nand!Candidate \in Nat /\ nandBlkStart + nandI \in Nat
  BY ProductNat DEF Nand!Candidate, Nand!TypeOK, Nand!NandAssumption
<1>5. CASE Nand!FindHit
  <2>1. /\ nandStep = "find" /\ nandStage \in {"hdr1"} \cup NandLoading /\ nandReal' = nandBlkStart + nandI
        /\ Nand!Put(0, Nand!Candidate)
    BY <1>5 DEF Nand!FindHit, NandLoading
  <2>2. PICK k \in Nand!Matches(Nand!Candidate) :
          IF nandStage = "hdr1" THEN Nand!AfterHdr1(nandImgs[k].size)
          ELSE nandStep' = "read" /\ nandN' = 0 /\ UNCHANGED <<nandStage, nandI, nandBlkStart, nandHdr1>>
    BY <1>5 DEF Nand!FindHit
  <2>3. nandImgs[k].size \in Nat /\ nandReal' \in Nat
    BY <1>4, <2>1 DEF Nand!Matches, Nand!HeaderIn, Nand!Present, NandMediumInv, Nand!ImageType
  <2>4. /\ nandMem' \in [Nand!Slots -> [0 .. MaxPages - 1 -> Nat \cup {Nand!NoPage}]]
        /\ \A s \in Nand!Slots \ {Nand!Slot} : nandMem'[s] = nandMem[s]
        /\ nandMem'[Nand!Slot][0] = Nand!Candidate
    BY <1>4, <2>1, NandPutType
  <2>5. CASE nandStage = "hdr1"
    <3>1. Nand!BlkSize \in Nat \ {0} /\ HdrSize + nandImgs[k].size \in Nat \ {0}
      BY <2>3, ProductPositive DEF Nand!BlkSize, Nand!NandAssumption
    <3>2. AppBlk + Nand!Ceil(HdrSize + nandImgs[k].size, Nand!BlkSize) \in Nat
      BY <3>1, NandCeilPositive DEF Nand!NandAssumption
    <3>3. nandStage' = "uboot2" /\ nandStep' = "find" /\ nandI' = 0 /\ nandN' = 0 /\ nandBlkStart' \in Nat /\ nandHdr1' \in Nat
      BY <2>2, <2>3, <2>5, <3>2 DEF Nand!AfterHdr1, Nand!Call
    <3>4. Nand!TypeOK'
      BY <1>1, <2>3, <2>4, <3>3 DEF Nand!TypeOK, Nand!Stages, Nand!NandAssumption
    <3> QED BY <1>2, <3>3, <3>4 DEF NandReadInv, NandWholeInv
  <2>6. CASE nandStage # "hdr1"
    <3>1. nandStep' = "read" /\ nandN' = 0 /\ nandStage' = nandStage /\ nandI' = nandI /\ nandBlkStart' = nandBlkStart /\ nandHdr1' = nandHdr1
      BY <2>2, <2>6
    <3>2. Nand!TypeOK'
      BY <1>1, <2>3, <2>4, <3>1 DEF Nand!TypeOK, Nand!NandAssumption
    <3>3. nandReal' * PagesPerBlk = Nand!Candidate /\ Nand!Slot' = Nand!Slot
      BY <2>1, <3>1 DEF Nand!Candidate, Nand!Slot
    <3>4. Nand!Matches(Nand!Candidate)' = Nand!Matches(Nand!Candidate)
      BY <1>1, <3>1 DEF Nand!Matches, Nand!HeaderIn, Nand!Present, Nand!FirstPage,
         Nand!Candidate, Nand!Slot
    <3>5. NandReadInv'
      <4>1. Nand!Matches(nandReal * PagesPerBlk)' # {}
        BY <1>1, <2>2, <3>1, <3>3 DEF Nand!Matches, Nand!HeaderIn, Nand!Present, Nand!FirstPage
      <4> QED BY <2>1, <2>4, <2>6, <3>1, <3>3, <4>1 DEF NandReadInv
    <3>6. NandWholeInv'
      <4>1. nandStage = "fip" => Nand!Slot = "fip" /\ nandMem'["uboot"] = nandMem["uboot"]
        BY <2>4 DEF Nand!Slot, Nand!Slots
      <4> QED BY <1>1, <2>1, <2>6, <3>1, <4>1, NandWholeStays DEF NandWholeInv, NandLoading,
         Nand!Slots
    <3> QED BY <1>2, <3>2, <3>5, <3>6
  <2> QED BY <2>5, <2>6
<1>6. CASE Nand!FindMiss
  <2>1. PICK p \in {Nand!NoPage, Nand!Candidate} : Nand!Put(0, p)
    BY <1>6 DEF Nand!FindMiss
  <2>2. /\ nandStep' = "find" /\ nandStage' = nandStage /\ nandStage \in {"hdr1"} \cup NandLoading /\ nandI' = nandI + 1 /\ nandI < SearchBlks
        /\ nandN' = nandN /\ nandReal' = nandReal /\ nandBlkStart' = nandBlkStart /\ nandHdr1' = nandHdr1
    BY <1>6 DEF Nand!FindMiss, NandLoading
  <2>3. /\ nandMem' \in [Nand!Slots -> [0 .. MaxPages - 1 -> Nat \cup {Nand!NoPage}]]
        /\ \A s \in Nand!Slots \ {Nand!Slot} : nandMem'[s] = nandMem[s]
    BY <1>4, <2>1, NandPutType
  <2>4. Nand!TypeOK'
    BY <1>1, <2>2, <2>3 DEF Nand!TypeOK, Nand!NandAssumption
  <2>5. NandWholeInv'
    <3>1. nandStage = "fip" => Nand!Slot = "fip" /\ nandMem'["uboot"] = nandMem["uboot"]
      BY <2>3 DEF Nand!Slot, Nand!Slots
    <3> QED BY <1>1, <2>2, <3>1, NandWholeStays DEF NandWholeInv, NandLoading, Nand!Slots
  <2> QED BY <1>2, <2>2, <2>4, <2>5 DEF NandReadInv
<1>7. ASSUME Nand!Failed, nandReal' = nandReal, nandHdr1' = nandHdr1,
             nandMem' \in [Nand!Slots -> [0 .. MaxPages - 1 -> Nat \cup {Nand!NoPage}]],
             nandStage = "fip" => nandMem'["uboot"] = nandMem["uboot"]
      PROVE  NandInv'
  <2>1. Nand!TypeOK'
    BY <1>1, <1>7, NandFailedType DEF Nand!TypeOK, Nand!Stages, Nand!Ends, Nand!NandAssumption
  <2>2. NandWholeInv'
    BY <1>1, <1>7, NandFailedType, NandWholeStays DEF NandWholeInv, Nand!Slots
  <2> QED BY <1>2, <1>7, <2>1, <2>2, NandFailedType DEF NandReadInv
<1>8. CASE Nand!NotFound
  BY <1>7, <1>8 DEF Nand!NotFound, Nand!TypeOK
<1>9. CASE Nand!ReadNext
  <2> DEFINE p == nandReal * PagesPerBlk + nandN
  <2>1. nandStep = "read" /\ nandN * PageSize < Nand!Want /\ nandStage \in NandLoading
    BY <1>9 DEF Nand!ReadNext, NandReadInv
  <2>2. nandN < MaxPages /\ nandN \in Nat
    <3>1. nandN * PageSize < MaxPages * PageSize
      <4>1. nandN * PageSize \in Nat /\ MaxPages * PageSize \in Nat
        BY ProductNat DEF Nand!TypeOK, Nand!NandAssumption
      <4> QED BY <2>1, <4>1, NandWantFits
    <3> QED BY <3>1, BelowProduct DEF Nand!TypeOK, Nand!NandAssumption
  <2>3. nandReal * PagesPerBlk \in Nat /\ p \in Nat
    BY <2>2, ProductNat DEF Nand!TypeOK, Nand!NandAssumption
  <2>4. ASSUME NEW x \in {p, Nand!NoPage}, Nand!Put(nandN, x)
        PROVE  /\ nandMem' \in [Nand!Slots -> [0 .. MaxPages - 1 -> Nat \cup {Nand!NoPage}]]
               /\ nandStage = "fip" => nandMem'["uboot"] = nandMem["uboot"]
               /\ x = p => nandMem'[Nand!Slot][0] = nandReal * PagesPerBlk
    <3>1. /\ nandMem' \in [Nand!Slots -> [0 .. MaxPages - 1 -> Nat \cup {Nand!NoPage}]]
          /\ \A s \in Nand!Slots \ {Nand!Slot} : nandMem'[s] = nandMem[s]
          /\ nandN = 0 => nandMem'[Nand!Slot][0] = x
          /\ nandN # 0 => nandMem'[Nand!Slot][0] = nandMem[Nand!Slot][0]
      BY <2>2, <2>3, <2>4, NandPutType
    <3>2. nandMem[Nand!Slot][0] = nandReal * PagesPerBlk
      BY <2>1 DEF NandReadInv
    <3> QED BY <2>3, <3>1, <3>2 DEF Nand!Slot, Nand!Slots
  <2>5. CASE /\ Nand!Put(nandN, p) /\ nandN' = nandN + 1 /\ nandStep' \in {"check", "read"}
             /\ UNCHANGED <<Nand!medium, nandStage, nandI, nandReal, nandBlkStart, nandHdr1>>
    <3>1. Nand!TypeOK'
      BY <1>1, <2>2, <2>4, <2>5 DEF Nand!TypeOK, Nand!NandAssumption
    <3>2. NandReadInv'
      <4>1. Nand!Matches(nandReal * PagesPerBlk)' = Nand!Matches(nandReal * PagesPerBlk) /\ Nand!Slot' = Nand!Slot
        BY <1>1, <2>5 DEF Nand!Matches, Nand!HeaderIn, Nand!Present, Nand!FirstPage, Nand!Slot
      <4> QED BY <2>1, <2>4, <2>5, <4>1 DEF NandReadInv
    <3>3. NandWholeInv'
      BY <1>1, <2>1, <2>4, <2>5, NandWholeStays DEF NandWholeInv, NandLoading, Nand!Slots
    <3> QED BY <1>2, <3>1, <3>2, <3>3
  <2>6. CASE Nand!Put(nandN, Nand!NoPage) /\ Nand!Failed /\ UNCHANGED <<Nand!medium, nandReal, nandHdr1>>
    BY <1>7, <2>4, <2>6
  <2> QED BY <1>9, <2>5, <2>6 DEF Nand!ReadNext
<1>10. CASE Nand!Check
  <2>1. nandStep = "check" /\ nandReal' = nandReal /\ nandHdr1' = nandHdr1 /\ nandMem' = nandMem /\ nandStage \in NandLoading
    BY <1>10 DEF Nand!Check, NandReadInv
  <2>2. CASE Nand!DcrcHolds(Nand!Slot) /\ Nand!Loaded
    <3>1. NandWhole(Nand!Slot) /\ Nand!Slot \in Nand!Slots
      BY <2>1, <2>2, NandCheckedWhole DEF Nand!Slot, Nand!Slots
    <3>3. Nand!TypeOK'
      BY <1>1, <2>1, <2>2, NandLoadedType DEF Nand!TypeOK, Nand!Stages, Nand!Ends,
         Nand!NandAssumption
    <3>4. nandStage # "fip" => NandWhole("uboot")'
      BY <1>1, <2>1, <3>1, NandWholeStays DEF Nand!Slot, Nand!Slots
    <3>5. nandStage = "fip" => NandWhole("fip")' /\ NandWhole("uboot")'
      BY <1>1, <2>1, <3>1, NandWholeStays DEF Nand!Slot, Nand!Slots, NandWholeInv
    <3>6. NandWholeInv'
      BY <2>1, <2>2, <3>4, <3>5, NandLoadedType DEF NandWholeInv, NandLoading
    <3> QED BY <1>2, <2>1, <2>2, <3>3, <3>6, NandLoadedType DEF NandReadInv
  <2>3. CASE Nand!Failed
    BY <1>7, <2>1, <2>3 DEF Nand!TypeOK
  <2> QED BY <1>10, <2>2, <2>3 DEF Nand!Check
<1>11. CASE Nand!Done
  BY <1>3, <1>11 DEF Nand!Done
<1> QED BY <1>3, <1>5, <1>6, <1>8, <1>9, <1>10, <1>11 DEF Nand!Next

-----------------------------------------------------------------------------
(* Refinement                                                               *)

(* What the code takes for granted of a NAND: the factory copy comes first, *)
(* and an image has data.                                                   *)
NandOrdered ==
    /\ \A f \in Factories, u \in Updates : f # Nand!Absent /\ u # Nand!Absent => f.start <= u.start
    /\ \A m \in Factories \cup Updates : m # Nand!Absent => m.size # 0

NandSource == INSTANCE UbootSource WITH
    intact <- Nand!IntactCopies, must <- Nand!Must, outcome <- Nand!Outcome

NandUboots == {"uboot1", "uboot2"}
NandBehind(k) == Nand!Start(k) + Nand!Ceil(Nand!PageCount(k), PagesPerBlk)
NandOrderedInv ==
    /\ {"uboot1", "uboot2"} \subseteq Nand!Present => NandBehind("uboot1") <= Nand!Start("uboot2")
    /\ \A k \in Nand!Present \cap NandUboots : nandImgs[k].size # 0

(* A search from block b meets image k, and no other of its name before.    *)
NandMatchable(k) == k \in Nand!Present /\ "hcrc" \notin nandImgs[k].flaws /\ Nand!FirstPage(k) \notin nandBad
NandMeets(k, b) ==
    /\ b <= Nand!Start(k) /\ Nand!Start(k) < b + SearchBlks
    /\ \A l \in NandUboots \ {k} : NandMatchable(l) => Nand!Start(l) > Nand!Start(k) \/ Nand!Start(l) < b

(* A load that is going to end with image k.                                *)
NandAhead(k) == nandStep = "find" /\ nandBlkStart + nandI <= Nand!Start(k) /\ NandMeets(k, nandBlkStart)
NandReads(k) ==
    /\ nandStep \in {"read", "check"} /\ nandReal = Nand!Start(k)
    /\ \A o \in 0 .. nandN - 1 : nandMem["uboot"][o] = Nand!FirstPage(k) + o
    /\ nandStep = "check" => nandN * PageSize >= HdrSize + nandImgs[k].size + SignSize
NandSure(k) == NandAhead(k) \/ NandReads(k)

(* The first search meets k, and the last one loads it.                     *)
NandLastResort(k) ==
    /\ Nand!Reliable(k) /\ NandMeets(k, AppBlk)
    /\ nandStage = "hdr1" => AppBlk + nandI <= Nand!Start(k)
    /\ nandStage \in {"uboot2", "fallback"} => nandHdr1 # 0
    /\ nandStage = "fallback" => NandSure(k)
    /\ nandStage # "failed"

(* The search behind uboot1 loads the update.                               *)
NandBehindFactory == AppBlk + Nand!Ceil(HdrSize + nandImgs["uboot1"].size, Nand!BlkSize)
NandPreferred ==
    /\ Nand!Reliable("uboot2") /\ Nand!Usable("uboot1") /\ NandMeets("uboot1", AppBlk) /\ NandMeets("uboot2", NandBehindFactory)
    /\ nandStage = "hdr1" => AppBlk + nandI <= Nand!Start("uboot1")
    /\ nandStage = "uboot2" => NandSure("uboot2")
    /\ nandStage \notin {"fallback", "failed"}

(* No first copy: the second search loads the update.                       *)
NandAlone ==
    /\ Nand!Reliable("uboot2") /\ NandMeets("uboot2", AppBlk + 1)
    /\ \A l \in NandUboots : NandMatchable(l) => Nand!Start(l) \notin AppBlk .. AppBlk + SearchBlks - 1
    /\ nandStage = "uboot2" => NandSure("uboot2")
    /\ nandStage \notin {"fallback", "failed"}

NandEarly == Nand!Start("uboot2") < AppBlk + SearchBlks
NandUpdateDue == Nand!UpdateFindable /\ Nand!Aligned
NandSeekInv ==
    /\ nandStage = "hdr1" => nandStep = "find" /\ nandBlkStart = AppBlk /\ nandHdr1 = 0
    /\ nandStep \in {"read", "check"} => nandReal * PagesPerBlk \notin nandBad
    /\ Nand!FactoryFindable => NandLastResort("uboot1")
    /\ NandUpdateDue /\ Nand!Usable("uboot1") => NandPreferred
    /\ NandUpdateDue /\ Nand!Dead("uboot1") /\ NandEarly => NandLastResort("uboot2")
    /\ NandUpdateDue /\ Nand!Dead("uboot1") /\ ~NandEarly => NandAlone

LEMMA TimesMono ==
    ASSUME NEW a \in Nat, NEW b \in Nat, NEW c \in Nat, a <= b
    PROVE  a * c <= b * c
OBVIOUS

LEMMA TimesNext ==
    ASSUME NEW a \in Nat, NEW c \in Nat
    PROVE  (a + 1) * c = (a * c) + c
OBVIOUS

LEMMA TimesOver ==
    ASSUME NEW a \in Nat, NEW b \in Nat, NEW c \in Nat
    PROVE  (a * b) * c = a * (b * c)
OBVIOUS

LEMMA DivMod ==
    ASSUME NEW a \in Nat, NEW b \in Nat \ {0}
    PROVE  a \div b \in Nat /\ a % b \in 0 .. b - 1 /\ a = ((a \div b) * b) + (a % b)
OBVIOUS

LEMMA NandCeiling ==
    ASSUME NEW a \in Nat, NEW b \in Nat \ {0}
    PROVE  /\ Nand!Ceil(a, b) \in Nat /\ a <= Nand!Ceil(a, b) * b
           /\ \A m \in Nat : a <= m * b => Nand!Ceil(a, b) <= m
           /\ \A m \in Nat : m * b < a => m < Nand!Ceil(a, b)
<1> DEFINE x == a + b - 1
           q == x \div b
<1>1. x \in Nat
  OBVIOUS
<1>2. q \in Nat /\ x % b \in 0 .. b - 1 /\ x = (q * b) + (x % b)
  BY <1>1, DivMod
<1>3. Nand!Ceil(a, b) = q
  BY DEF Nand!Ceil
<1>4. q * b \in Nat
  BY <1>2, ProductNat
<1> DEFINE y == q * b
<1>5. a <= y
  <2>1. a + b - 1 = y + (x % b) /\ x % b <= b - 1 /\ y \in Nat /\ x % b \in Nat
    BY <1>1, <1>2, <1>4
  <2> HIDE DEF x, y
  <2> QED
    BY <2>1
<1>6. y < a + b
  <2>1. a + b - 1 = y + (x % b) /\ y \in Nat /\ x % b \in Nat
    BY <1>2, <1>4
  <2> HIDE DEF x, y
  <2> QED
    BY <2>1
<1>7. ASSUME NEW m \in Nat, a <= m * b
      PROVE  q <= m
  <2> SUFFICES ASSUME m + 1 <= q
               PROVE  FALSE
    BY <1>2
  <2>1. (m + 1) * b <= y
    BY <1>2, TimesMono
  <2>2. (m + 1) * b = (m * b) + b /\ m * b \in Nat
    BY TimesNext, ProductNat
  <2> DEFINE z == m * b
  <2>3. z + b <= y /\ a <= z /\ z \in Nat
    BY <1>7, <2>1, <2>2
  <2> HIDE DEF z, y, x, q
  <2> QED
    BY <1>4, <1>6, <2>3 DEF y
<1>8. ASSUME NEW m \in Nat, m * b < a
      PROVE  m < q
  <2> SUFFICES ASSUME q <= m
               PROVE  FALSE
    BY <1>2
  <2>1. y <= m * b /\ m * b \in Nat
    BY <1>2, TimesMono, ProductNat
  <2> DEFINE z == m * b
  <2>2. y <= z /\ z < a /\ z \in Nat
    BY <1>8, <2>1
  <2> HIDE DEF z, y, x, q
  <2> QED
    BY <1>4, <1>5, <2>2 DEF y
<1> HIDE DEF q
<1> QED
  BY <1>2, <1>3, <1>5, <1>7, <1>8

(* The sizes of an image, in numbers.                                       *)
LEMMA NandNumbers ==
    ASSUME Nand!NandAssumption, NandMediumInv, NEW k \in Nand!Ids
    PROVE  /\ nandImgs[k].start \in Nat /\ nandImgs[k].size \in Nat /\ nandImgs[k].flaws \subseteq {"hcrc", "dcrc"}
           /\ HdrSize \in Nat \ {0} /\ SignSize \in Nat /\ PageSize \in Nat \ {0} /\ PagesPerBlk \in Nat \ {0}
           /\ SearchBlks \in Nat \ {0} /\ AppBlk \in Nat /\ MaxPages \in Nat \ {0}
           /\ HdrSize + nandImgs[k].size + SignSize \in Nat \ {0}
           /\ Nand!PageCount(k) \in Nat \ {0} /\ Nand!FirstPage(k) \in Nat
           /\ Nand!Ceil(Nand!PageCount(k), PagesPerBlk) \in Nat \ {0}
<1>1. nandImgs[k] \in Nand!ImageType
  BY DEF NandMediumInv
<1>2. /\ nandImgs[k].start \in Nat /\ nandImgs[k].size \in Nat /\ nandImgs[k].flaws \subseteq {"hcrc", "dcrc"}
      /\ HdrSize \in Nat \ {0} /\ SignSize \in Nat /\ PageSize \in Nat \ {0} /\ PagesPerBlk \in Nat \ {0}
      /\ SearchBlks \in Nat \ {0} /\ AppBlk \in Nat /\ MaxPages \in Nat \ {0}
  BY <1>1 DEF Nand!ImageType, Nand!NandAssumption
<1>3. HdrSize + nandImgs[k].size + SignSize \in Nat \ {0}
  <2> DEFINE z == nandImgs[k].size
  <2>1. z \in Nat
    BY <1>2
  <2> HIDE DEF z
  <2>2. HdrSize + z + SignSize \in Nat \ {0}
    BY <1>2, <2>1
  <2> QED
    BY <2>2 DEF z
<1>4. Nand!PageCount(k) \in Nat \ {0}
  BY <1>2, <1>3, NandCeilPositive DEF Nand!PageCount
<1>5. Nand!FirstPage(k) \in Nat
  BY <1>2, ProductNat DEF Nand!FirstPage
<1> QED
  BY <1>2, <1>3, <1>4, <1>5, NandCeilPositive

LEMMA NandOrderedInit ==
    ASSUME Nand!NandAssumption, NandOrdered, Nand!Init
    PROVE  NandOrderedInv
<1>1. NandMediumInv
  BY NandInitInv DEF NandInv
<1>2. /\ nandImgs["uboot1"] \in Factories /\ nandImgs["uboot2"] \in Updates
      /\ \A k, l \in Nand!Present : k # l => Nand!Blocks(k) \cap Nand!Blocks(l) = {}
  BY DEF Nand!Init
<1>3. \A k \in Nand!Present \cap NandUboots : nandImgs[k].size # 0
  BY <1>2 DEF NandOrdered, Nand!Present, NandUboots
<1>4. ASSUME {"uboot1", "uboot2"} \subseteq Nand!Present
      PROVE  NandBehind("uboot1") <= Nand!Start("uboot2")
  <2> DEFINE c1 == Nand!Ceil(Nand!PageCount("uboot1"), PagesPerBlk)
             c2 == Nand!Ceil(Nand!PageCount("uboot2"), PagesPerBlk)
             s1 == nandImgs["uboot1"].start
             s2 == nandImgs["uboot2"].start
  <2>1. s1 \in Nat /\ s2 \in Nat /\ c1 \in Nat \ {0} /\ c2 \in Nat \ {0}
    BY <1>1, NandNumbers DEF Nand!Ids
  <2>2. s1 <= s2
    BY <1>2, <1>4 DEF NandOrdered, Nand!Present
  <2>3. Nand!Blocks("uboot1") \cap Nand!Blocks("uboot2") = {}
    BY <1>2, <1>4
  <2>4. Nand!Blocks("uboot1") = s1 .. s1 + c1 - 1 /\ Nand!Blocks("uboot2") = s2 .. s2 + c2 - 1
    BY DEF Nand!Blocks
  <2>5. NandBehind("uboot1") = s1 + c1 /\ Nand!Start("uboot2") = s2
    BY DEF NandBehind, Nand!Start
  <2> HIDE DEF s1, s2, c1, c2
  <2>6. s2 \in s2 .. s2 + c2 - 1
    BY <2>1
  <2>7. s2 \notin s1 .. s1 + c1 - 1
    BY <2>3, <2>4, <2>6
  <2> QED
    BY <2>1, <2>2, <2>5, <2>7
<1> QED
  BY <1>3, <1>4 DEF NandOrderedInv

(* The search for the update starts behind the factory copy, and before the *)
(* update.                                                                  *)
LEMMA NandBehindAhead ==
    ASSUME Nand!NandAssumption, NandMediumInv, NandOrderedInv, {"uboot1", "uboot2"} \subseteq Nand!Present,
           Nand!Start("uboot1") = AppBlk
    PROVE  AppBlk < NandBehindFactory /\ NandBehindFactory <= Nand!Start("uboot2") /\ NandBehindFactory \in Nat
<1> DEFINE h == HdrSize + nandImgs["uboot1"].size
           pc == Nand!PageCount("uboot1")
           c == Nand!Ceil(pc, PagesPerBlk)
           d == Nand!Ceil(h, Nand!BlkSize)
<1>1. /\ h \in Nat \ {0} /\ SignSize \in Nat /\ pc \in Nat \ {0} /\ c \in Nat \ {0} /\ PagesPerBlk \in Nat \ {0}
      /\ PageSize \in Nat \ {0} /\ AppBlk \in Nat /\ nandImgs["uboot2"].start \in Nat
  <2> DEFINE z == nandImgs["uboot1"].size
  <2>1. z \in Nat /\ HdrSize \in Nat \ {0}
    BY NandNumbers DEF Nand!Ids
  <2> HIDE DEF z
  <2>2. HdrSize + z \in Nat \ {0}
    BY <2>1
  <2>3. h \in Nat \ {0}
    BY <2>2 DEF z
  <2> HIDE DEF h
  <2> QED
    BY <2>3, NandNumbers DEF Nand!Ids
<1>2. Nand!BlkSize \in Nat \ {0} /\ Nand!BlkSize = PagesPerBlk * PageSize
  BY <1>1, ProductPositive DEF Nand!BlkSize
<1>3. h + SignSize <= pc * PageSize
  <2>1. pc = Nand!Ceil(h + SignSize, PageSize)
    BY DEF Nand!PageCount
  <2> HIDE DEF h, pc
  <2>2. h + SignSize \in Nat
    BY <1>1
  <2> QED
    BY <1>1, <2>1, <2>2, NandCeiling
<1>4. pc <= c * PagesPerBlk /\ c * PagesPerBlk \in Nat
  BY <1>1, NandCeiling, ProductNat
<1>5. pc * PageSize <= (c * PagesPerBlk) * PageSize
  BY <1>1, <1>4, TimesMono
<1>6. (c * PagesPerBlk) * PageSize = c * Nand!BlkSize
  BY <1>1, <1>2, TimesOver
<1>7. h <= c * Nand!BlkSize
  <2> DEFINE x == pc * PageSize
             y == c * Nand!BlkSize
  <2>1. x \in Nat /\ y \in Nat
    BY <1>1, <1>2, ProductNat
  <2>2. h + SignSize <= x /\ x <= y
    BY <1>3, <1>5, <1>6
  <2> HIDE DEF x, y, h
  <2>3. h <= y
    BY <1>1, <2>1, <2>2
  <2> QED
    BY <2>3 DEF y
<1>8. d <= c /\ d \in Nat \ {0}
  BY <1>1, <1>2, <1>7, NandCeiling, NandCeilPositive
<1>9. NandBehindFactory = AppBlk + d /\ NandBehind("uboot1") = AppBlk + c /\ NandBehind("uboot1") <= Nand!Start("uboot2")
  BY DEF NandBehindFactory, NandBehind, NandOrderedInv, Nand!Start
<1>10. Nand!Start("uboot2") \in Nat
  BY <1>1 DEF Nand!Start
<1> HIDE DEF d, c, h, pc
<1> QED
  BY <1>1, <1>8, <1>9, <1>10

(* Who is found where, from the geometry alone.                             *)
LEMMA NandWhoIsMet ==
    ASSUME Nand!NandAssumption, NandMediumInv, NandOrderedInv
    PROVE  /\ Nand!FactoryFindable => NandMeets("uboot1", AppBlk)
           /\ NandUpdateDue /\ Nand!Usable("uboot1") => NandMeets("uboot1", AppBlk) /\ NandMeets("uboot2", NandBehindFactory)
           /\ NandUpdateDue /\ Nand!Dead("uboot1") /\ NandEarly => NandMeets("uboot2", AppBlk)
           /\ NandUpdateDue /\ Nand!Dead("uboot1") /\ ~NandEarly =>
                /\ NandMeets("uboot2", AppBlk + 1)
                /\ \A l \in NandUboots : NandMatchable(l) => Nand!Start(l) \notin AppBlk .. AppBlk + SearchBlks - 1
<1> DEFINE s1 == Nand!Start("uboot1")
           s2 == Nand!Start("uboot2")
           c == Nand!Ceil(Nand!PageCount("uboot1"), PagesPerBlk)
<1>1. /\ s1 \in Nat /\ s2 \in Nat /\ c \in Nat \ {0} /\ AppBlk \in Nat /\ SearchBlks \in Nat \ {0}
      /\ NandBehind("uboot1") = s1 + c
  BY NandNumbers DEF Nand!Ids, Nand!Start, NandBehind
<1>2. /\ NandUboots \ {"uboot1"} = {"uboot2"} /\ NandUboots \ {"uboot2"} = {"uboot1"}
  BY DEF NandUboots
<1>3. {"uboot1", "uboot2"} \subseteq Nand!Present => s1 < s2
  <2> SUFFICES ASSUME {"uboot1", "uboot2"} \subseteq Nand!Present PROVE s1 < s2
    OBVIOUS
  <2>1. s1 + c <= s2
    BY <1>1 DEF NandOrderedInv
  <2> HIDE DEF s1, s2, c
  <2> QED
    BY <1>1, <2>1
<1>4. ASSUME Nand!FactoryFindable
      PROVE  NandMeets("uboot1", AppBlk)
  <2>1. "uboot1" \in Nand!Present /\ AppBlk <= s1 /\ s1 < AppBlk + SearchBlks
    <3>1. "uboot1" \in Nand!Present /\ s1 \in AppBlk .. AppBlk + SearchBlks - 1
      BY <1>4 DEF Nand!FactoryFindable, Nand!Reliable, Nand!Intact
    <3> HIDE DEF s1
    <3> QED
      BY <1>1, <3>1
  <2>2. NandMatchable("uboot2") => s2 > s1
    <3>1. NandMatchable("uboot2") => s1 < s2
      BY <1>3, <2>1 DEF NandMatchable
    <3> HIDE DEF s1, s2
    <3> QED
      BY <1>1, <3>1
  <2> QED
    BY <1>2, <2>1, <2>2 DEF NandMeets
<1>5. NandUpdateDue => "uboot2" \in Nand!Present
  BY DEF NandUpdateDue, Nand!UpdateFindable, Nand!Reliable, Nand!Intact
<1>6. ASSUME NandUpdateDue, Nand!Usable("uboot1")
      PROVE  NandMeets("uboot1", AppBlk) /\ NandMeets("uboot2", NandBehindFactory)
  <2>1. {"uboot1", "uboot2"} \subseteq Nand!Present /\ s1 = AppBlk
    BY <1>5, <1>6 DEF NandUpdateDue, Nand!Aligned, Nand!Usable
  <2>2. s2 < NandBehindFactory + SearchBlks
    BY <1>6 DEF NandUpdateDue, Nand!UpdateFindable, Nand!Dead, Nand!Usable, NandBehindFactory
  <2>3. AppBlk < NandBehindFactory /\ NandBehindFactory <= s2 /\ NandBehindFactory \in Nat
    BY <2>1, NandBehindAhead
  <2>4. s1 < s2
    BY <1>3, <2>1
  <2>5. AppBlk <= s1 /\ s1 < AppBlk + SearchBlks /\ s2 > s1 /\ s1 < NandBehindFactory
    <3> HIDE DEF s1, s2
    <3> QED
      BY <1>1, <2>1, <2>3, <2>4
  <2> QED
    BY <1>2, <2>2, <2>3, <2>5 DEF NandMeets
<1>7. ASSUME NandUpdateDue, Nand!Dead("uboot1")
      PROVE  AppBlk <= s2 /\ s2 <= AppBlk + SearchBlks /\ ~NandMatchable("uboot1")
  <2>1. ~Nand!Usable("uboot1")
    BY <1>7 DEF Nand!Dead, Nand!Usable
  <2>2. s2 \in AppBlk .. AppBlk + SearchBlks
    BY <1>7, <2>1 DEF NandUpdateDue, Nand!UpdateFindable
  <2>3. ~NandMatchable("uboot1")
    BY <1>7 DEF Nand!Dead, NandMatchable
  <2> HIDE DEF s2
  <2> QED
    BY <1>1, <2>2, <2>3
<1>8. ASSUME NandUpdateDue, Nand!Dead("uboot1"), NandEarly
      PROVE  NandMeets("uboot2", AppBlk)
  BY <1>2, <1>7, <1>8 DEF NandMeets, NandEarly
<1>9. ASSUME NandUpdateDue, Nand!Dead("uboot1"), ~NandEarly
      PROVE  /\ NandMeets("uboot2", AppBlk + 1)
             /\ \A l \in NandUboots : NandMatchable(l) => Nand!Start(l) \notin AppBlk .. AppBlk + SearchBlks - 1
  <2>1. s2 >= AppBlk + SearchBlks
    <3>1. ~(s2 < AppBlk + SearchBlks)
      BY <1>9 DEF NandEarly
    <3> HIDE DEF s2
    <3> QED
      BY <1>1, <3>1
  <2>2. AppBlk + 1 <= s2 /\ s2 < (AppBlk + 1) + SearchBlks /\ s2 \notin AppBlk .. AppBlk + SearchBlks - 1
    <3>1. s2 <= AppBlk + SearchBlks
      BY <1>7, <1>9
    <3> HIDE DEF s2
    <3> QED
      BY <1>1, <2>1, <3>1
  <2>3. ~NandMatchable("uboot1")
    BY <1>7, <1>9
  <2> QED
    BY <1>2, <2>2, <2>3 DEF NandMeets, NandUboots
<1> QED
  BY <1>4, <1>6, <1>8, <1>9

LEMMA NandSeekInit ==
    ASSUME Nand!NandAssumption, NandOrdered, Nand!Init
    PROVE  NandSeekInv
<1>1. NandMediumInv /\ NandOrderedInv
  BY NandInitInv, NandOrderedInit DEF NandInv
<1>2. nandStage = "hdr1" /\ nandStep = "find" /\ nandI = 0 /\ nandBlkStart = AppBlk /\ nandHdr1 = 0 /\ AppBlk \in Nat
  BY DEF Nand!Init, Nand!NandAssumption
<1>3. ASSUME NEW k \in NandUboots, Nand!Reliable(k), NandMeets(k, AppBlk)
      PROVE  NandLastResort(k)
  BY <1>2, <1>3 DEF NandLastResort, NandMeets
<1>4. Nand!FactoryFindable => NandLastResort("uboot1")
  BY <1>1, <1>3, NandWhoIsMet DEF NandUboots, Nand!FactoryFindable
<1>5. NandUpdateDue /\ Nand!Usable("uboot1") => NandPreferred
  BY <1>1, <1>2, NandWhoIsMet DEF NandPreferred, NandMeets, NandUpdateDue, Nand!UpdateFindable
<1>6. NandUpdateDue /\ Nand!Dead("uboot1") /\ NandEarly => NandLastResort("uboot2")
  BY <1>1, <1>3, NandWhoIsMet DEF NandUboots, NandUpdateDue, Nand!UpdateFindable
<1>7. NandUpdateDue /\ Nand!Dead("uboot1") /\ ~NandEarly => NandAlone
  BY <1>1, <1>2, NandWhoIsMet DEF NandAlone, NandUpdateDue, Nand!UpdateFindable
<1> QED
  BY <1>2, <1>4, <1>5, <1>6, <1>7 DEF NandSeekInv

(* A search that meets k finds no other image.                              *)
LEMMA NandFindMeets ==
    ASSUME Nand!NandAssumption, Nand!TypeOK, NandMediumInv, NEW k \in NandUboots, Nand!Usable(k), NandMeets(k, nandBlkStart),
           nandStep = "find", nandStage # "fip", nandBlkStart + nandI <= Nand!Start(k)
    PROVE  /\ ~Nand!NotFound
           /\ Nand!FindHit => /\ nandBlkStart + nandI = Nand!Start(k) /\ k \in Nand!Matches(Nand!Candidate)
                              /\ \A l \in Nand!Matches(Nand!Candidate) : l = k
           /\ Nand!FindMiss => nandBlkStart + nandI + 1 <= Nand!Start(k)
<1>1. nandBlkStart \in Nat /\ nandI \in Nat /\ PagesPerBlk \in Nat \ {0} /\ SearchBlks \in Nat \ {0}
  BY DEF Nand!TypeOK, Nand!NandAssumption
<1>2. ASSUME NEW l \in NandUboots
      PROVE  Nand!Start(l) \in Nat /\ Nand!FirstPage(l) = Nand!Start(l) * PagesPerBlk /\ Nand!NameOf(l) = "uboot"
  BY NandNumbers DEF NandUboots, Nand!Ids, Nand!Start, Nand!FirstPage, Nand!NameOf
<1>3. Nand!Start(k) \in Nat /\ Nand!Start(k) < nandBlkStart + SearchBlks
  BY <1>2 DEF NandMeets
<1>4. ~Nand!NotFound
  <2> DEFINE z == Nand!Start(k)
  <2>1. z \in Nat /\ z < nandBlkStart + SearchBlks /\ nandBlkStart + nandI <= z
    BY <1>3
  <2> HIDE DEF z
  <2>2. nandI # SearchBlks
    BY <1>1, <2>1
  <2> QED
    BY <2>2 DEF Nand!NotFound
<1>5. k \in Nand!Present /\ "hcrc" \notin nandImgs[k].flaws /\ Nand!FirstPage(k) \notin nandBad \cup nandWeak
  BY DEF Nand!Usable
<1>6. Nand!Slot = "uboot"
  BY DEF Nand!Slot
<1>7. ASSUME NEW l \in Nand!Matches(Nand!Candidate), Nand!Candidate \notin nandBad
      PROVE  l = k /\ nandBlkStart + nandI = Nand!Start(k)
  <2>1. l \in Nand!Present /\ Nand!FirstPage(l) = Nand!Candidate /\ Nand!NameOf(l) = "uboot" /\ "hcrc" \notin nandImgs[l].flaws
    BY <1>6 DEF Nand!Matches, Nand!HeaderIn
  <2>2. l \in NandUboots
    BY <2>1 DEF Nand!Present, Nand!Ids, Nand!NameOf, NandUboots
  <2> DEFINE b == nandBlkStart + nandI
             z == Nand!Start(l)
  <2>3. b \in Nat /\ z \in Nat
    BY <1>1, <1>2, <2>2
  <2>4. z * PagesPerBlk = b * PagesPerBlk
    BY <1>2, <2>1, <2>2 DEF Nand!Candidate
  <2>5. z = b
    <3> HIDE DEF z, b
    <3> QED
      BY <1>1, <2>3, <2>4, SameFactor
  <2>6. NandMatchable(l)
    BY <1>7, <2>1 DEF NandMatchable
  <2>7. l # k => z > Nand!Start(k) \/ z < nandBlkStart
    BY <2>2, <2>6 DEF NandMeets
  <2>8. b <= Nand!Start(k) /\ nandBlkStart <= b
    BY <1>1
  <2>9. l = k
    <3> DEFINE y == Nand!Start(k)
    <3>1. y \in Nat /\ b <= y /\ (l # k => z > y \/ z < nandBlkStart)
      BY <1>3, <2>7, <2>8
    <3> HIDE DEF y, z, b
    <3> QED
      BY <1>1, <2>3, <2>5, <2>8, <3>1
  <2> QED
    BY <2>5, <2>9
<1>8. ASSUME Nand!FindHit
      PROVE  /\ nandBlkStart + nandI = Nand!Start(k) /\ k \in Nand!Matches(Nand!Candidate)
             /\ \A l \in Nand!Matches(Nand!Candidate) : l = k
  <2>1. Nand!Candidate \notin nandBad /\ Nand!Matches(Nand!Candidate) # {}
    BY <1>8 DEF Nand!FindHit, Nand!ReadPage
  <2> QED
    BY <1>7, <2>1
<1>9. ASSUME Nand!FindMiss
      PROVE  nandBlkStart + nandI + 1 <= Nand!Start(k)
  <2>1. \/ Nand!Candidate \in nandBad \cup nandWeak
        \/ Nand!Matches(Nand!Candidate) = {}
    BY <1>9 DEF Nand!FindMiss, Nand!ReadPage
  <2>2. nandBlkStart + nandI # Nand!Start(k)
    <3> SUFFICES ASSUME nandBlkStart + nandI = Nand!Start(k) PROVE FALSE
      OBVIOUS
    <3>1. Nand!Candidate = Nand!FirstPage(k)
      BY <1>2 DEF Nand!Candidate
    <3>2. k \in Nand!Matches(Nand!Candidate)
      BY <1>2, <1>5, <1>6, <3>1 DEF Nand!Matches, Nand!HeaderIn
    <3> QED
      BY <1>5, <2>1, <3>1, <3>2
  <2> DEFINE z == Nand!Start(k)
  <2>3. z \in Nat /\ nandBlkStart + nandI <= z /\ nandBlkStart + nandI # z
    BY <1>3, <2>2
  <2> HIDE DEF z
  <2>4. nandBlkStart + nandI + 1 <= z
    BY <1>1, <2>3
  <2> QED
    BY <2>4 DEF z
<1> QED
  BY <1>4, <1>8, <1>9

(* An image that reads reliably starts with a page that does.               *)
LEMMA NandReliableUsable ==
    ASSUME Nand!NandAssumption, NandMediumInv, NEW k \in NandUboots, Nand!Reliable(k)
    PROVE  Nand!Usable(k)
<1> DEFINE f == Nand!FirstPage(k)
           c == Nand!PageCount(k)
<1>1. f \in Nat /\ c \in Nat \ {0}
  BY NandNumbers DEF NandUboots, Nand!Ids
<1>2. Nand!Pages(k) = f .. f + c - 1
  BY DEF Nand!Pages
<1> HIDE DEF f, c
<1>3. f \in Nand!Pages(k)
  BY <1>1, <1>2
<1>4. f \notin nandBad \cup nandWeak
  BY <1>3 DEF Nand!Reliable
<1> QED
  BY <1>4 DEF f, Nand!Reliable, Nand!Intact, Nand!Usable

(* What the medium holds decides is fixed with it.                          *)
LEMMA NandKnownFixed ==
    ASSUME nandImgs' = nandImgs, nandBad' = nandBad, nandWeak' = nandWeak, NEW k \in NandUboots
    PROVE  /\ Nand!Reliable(k)' = Nand!Reliable(k) /\ Nand!Usable(k)' = Nand!Usable(k) /\ Nand!Dead(k)' = Nand!Dead(k)
           /\ NandMatchable(k)' = NandMatchable(k) /\ Nand!Start(k)' = Nand!Start(k) /\ Nand!Intact(k)' = Nand!Intact(k)
           /\ Nand!Present' = Nand!Present /\ Nand!FirstPage(k)' = Nand!FirstPage(k)
<1>1. Nand!Present' = Nand!Present /\ Nand!Start(k)' = Nand!Start(k) /\ Nand!FirstPage(k)' = Nand!FirstPage(k)
  BY DEF Nand!Present, Nand!Start, Nand!FirstPage
<1>2. Nand!Intact(k)' = Nand!Intact(k)
  BY <1>1 DEF Nand!Intact
<1>3. Nand!Pages(k)' = Nand!Pages(k)
  BY <1>1 DEF Nand!Pages, Nand!PageCount
<1> QED
  BY <1>1, <1>2, <1>3 DEF Nand!Reliable, Nand!Usable, Nand!Dead, NandMatchable

(* A search stays ahead of an image, from the same block.                   *)
LEMMA NandMeetsFixed ==
    ASSUME nandImgs' = nandImgs, nandBad' = nandBad, nandWeak' = nandWeak, NEW k \in NandUboots
    PROVE  /\ NandMeets(k, AppBlk)' = NandMeets(k, AppBlk)
           /\ NandMeets(k, AppBlk + 1)' = NandMeets(k, AppBlk + 1)
           /\ NandMeets(k, NandBehindFactory)' = NandMeets(k, NandBehindFactory)
           /\ nandBlkStart' = nandBlkStart => NandMeets(k, nandBlkStart)' = NandMeets(k, nandBlkStart)
           /\ nandBlkStart' = AppBlk => NandMeets(k, nandBlkStart)' = NandMeets(k, AppBlk)
           /\ nandBlkStart' = AppBlk + 1 => NandMeets(k, nandBlkStart)' = NandMeets(k, AppBlk + 1)
           /\ nandBlkStart' = NandBehindFactory => NandMeets(k, nandBlkStart)' = NandMeets(k, NandBehindFactory)
<1>1. \A l \in NandUboots : Nand!Start(l)' = Nand!Start(l) /\ NandMatchable(l)' = NandMatchable(l)
  BY NandKnownFixed
<1>2. NandBehindFactory' = NandBehindFactory
  BY DEF NandBehindFactory
<1> QED
  BY <1>1, <1>2 DEF NandMeets

(* The pages read so far are in the load area: the next is the next of k.   *)
LEMMA NandReadOn ==
    ASSUME Nand!NandAssumption, Nand!TypeOK, NandMediumInv, NandReadInv, NEW k \in NandUboots, Nand!Reliable(k), NandReads(k),
           nandStep = "read", nandN * PageSize < Nand!Want
    PROVE  /\ nandN \in 0 .. MaxPages - 1
           /\ Nand!Want = HdrSize + nandImgs[k].size + SignSize
           /\ nandReal * PagesPerBlk = Nand!FirstPage(k)
           /\ Nand!FirstPage(k) + nandN \in Nand!Pages(k)
<1> DEFINE w == HdrSize + nandImgs[k].size + SignSize
           f == Nand!FirstPage(k)
           c == Nand!PageCount(k)
<1>1. /\ w \in Nat \ {0} /\ f \in Nat /\ c \in Nat \ {0} /\ PageSize \in Nat \ {0} /\ MaxPages \in Nat \ {0}
      /\ nandN \in Nat /\ c = Nand!Ceil(w, PageSize)
  <2>1. k \in Nand!Ids /\ nandN \in Nat
    BY DEF NandUboots, Nand!Ids, Nand!TypeOK
  <2>2. c = Nand!Ceil(w, PageSize)
    BY DEF Nand!PageCount
  <2> HIDE DEF w, f, c
  <2>3. w \in Nat \ {0} /\ f \in Nat /\ c \in Nat \ {0}
    BY <2>1, NandNumbers DEF w, f, c
  <2> QED
    BY <2>1, <2>2, <2>3, NandNumbers
<1>2. nandReal * PagesPerBlk = f
  BY DEF NandReads, Nand!Start, Nand!FirstPage
<1>3. k \in Nand!HeaderIn(f)
  BY DEF Nand!Reliable, Nand!Intact, Nand!HeaderIn
<1>4. Nand!Want = w
  <2> DEFINE x == CHOOSE l \in Nand!HeaderIn(f) : TRUE
  <2>1. x \in Nand!HeaderIn(f)
    BY <1>3
  <2>2. x = k
    BY <1>3, <2>1, NandOneHeader
  <2> QED
    BY <1>2, <2>2 DEF Nand!Want
<1>5. nandN < c
  <2>1. nandN * PageSize < w /\ w \in Nat
    BY <1>1, <1>4
  <2> HIDE DEF w
  <2>2. nandN < Nand!Ceil(w, PageSize)
    BY <1>1, <2>1, NandCeiling
  <2> QED
    BY <1>1, <2>2
<1>6. nandN < MaxPages
  <2>1. nandN * PageSize \in Nat /\ MaxPages * PageSize \in Nat
    BY <1>1, ProductNat
  <2>2. nandN * PageSize < MaxPages * PageSize
    BY <2>1, NandWantFits
  <2> QED
    BY <1>1, <2>2, BelowProduct
<1>7. Nand!Pages(k) = f .. f + c - 1
  BY DEF Nand!Pages
<1> HIDE DEF f, c, w
<1>8. f + nandN \in Nand!Pages(k) /\ nandN \in 0 .. MaxPages - 1
  BY <1>1, <1>5, <1>6, <1>7
<1> QED
  BY <1>2, <1>4, <1>8 DEF f, w

(* Once the whole image is read it passes the check.                        *)
LEMMA NandReadPasses ==
    ASSUME Nand!NandAssumption, Nand!TypeOK, NandMediumInv, NandReadInv, NEW k \in NandUboots, Nand!Reliable(k), NandReads(k),
           nandStep = "check", Nand!Slot = "uboot"
    PROVE  Nand!DcrcHolds("uboot") /\ k \in Nand!HeaderIn(nandMem["uboot"][0])
<1> DEFINE h == HdrSize + nandImgs[k].size
           c == Nand!Ceil(h, PageSize)
<1>1. h \in Nat /\ SignSize \in Nat /\ PageSize \in Nat \ {0} /\ nandN \in Nat
  <2> DEFINE z == nandImgs[k].size
  <2>0. k \in Nand!Ids /\ nandN \in Nat
    BY DEF NandUboots, Nand!Ids, Nand!TypeOK
  <2>1. z \in Nat /\ HdrSize \in Nat /\ SignSize \in Nat /\ PageSize \in Nat \ {0} /\ nandN \in Nat
    BY <2>0, NandNumbers
  <2> HIDE DEF z
  <2>2. HdrSize + z \in Nat
    BY <2>1
  <2> QED
    BY <2>1, <2>2 DEF z
<1>2. h + SignSize <= nandN * PageSize
  <2> DEFINE y == nandN * PageSize
  <2>1. y \in Nat /\ y >= h + SignSize
    BY <1>1, ProductNat DEF NandReads
  <2> HIDE DEF y, h
  <2>2. h + SignSize <= y
    BY <1>1, <2>1
  <2> QED
    BY <2>2 DEF y
<1>3. c <= nandN /\ c \in Nat
  <2> DEFINE y == nandN * PageSize
  <2>1. y \in Nat
    BY <1>1, ProductNat
  <2>2. h <= y
    <3> HIDE DEF y, h
    <3> QED
      BY <1>1, <1>2, <2>1 DEF y
  <2> HIDE DEF h
  <2> QED
    BY <1>1, <2>2, NandCeiling
<1>4. Nand!Complete("uboot", k)
  <2> SUFFICES ASSUME NEW o \in 0 .. c - 1
               PROVE  nandMem["uboot"][o] = Nand!FirstPage(k) + o
    BY DEF Nand!Complete
  <2> HIDE DEF c
  <2>1. o \in 0 .. nandN - 1
    BY <1>1, <1>3
  <2> QED
    BY <2>1 DEF NandReads
<1>5. nandMem["uboot"][0] = Nand!FirstPage(k)
  BY DEF NandReadInv, NandReads, Nand!Start, Nand!FirstPage
<1>6. k \in Nand!HeaderIn(nandMem["uboot"][0]) /\ "dcrc" \notin nandImgs[k].flaws
  BY <1>5 DEF Nand!Reliable, Nand!Intact, Nand!HeaderIn
<1> QED
  BY <1>4, <1>6 DEF Nand!DcrcHolds

(* A load that is going to end with k goes on, or does end with k.          *)
LEMMA NandSureStep ==
    ASSUME Nand!NandAssumption, NandInv, NEW k \in NandUboots, Nand!Reliable(k), NandSure(k),
           nandStage \in {"uboot2", "fallback"}, [Nand!Next]_(Nand!vars)
    PROVE  \/ nandStage' = nandStage /\ nandHdr1' = nandHdr1 /\ NandSure(k)'
           \/ Nand!Check /\ Nand!Loaded /\ k \in Nand!HeaderIn(nandMem["uboot"][0])
<1>1. nandImgs' = nandImgs /\ nandBad' = nandBad /\ nandWeak' = nandWeak /\ Nand!Start(k)' = Nand!Start(k) /\ Nand!FirstPage(k)' = Nand!FirstPage(k)
  BY NandMediumFixed, NandKnownFixed
<1>2. Nand!Slot = "uboot" /\ Nand!TypeOK /\ NandMediumInv /\ NandReadInv /\ Nand!Usable(k)
  BY NandReliableUsable DEF Nand!Slot, NandInv
<1>3. nandBlkStart \in Nat /\ nandI \in Nat
  BY <1>2 DEF Nand!TypeOK
<1>4. CASE UNCHANGED Nand!vars
  <2>1. NandAhead(k) => NandAhead(k)'
    BY <1>1, <1>4, NandMeetsFixed DEF NandAhead, Nand!vars
  <2>2. NandReads(k) => NandReads(k)'
    BY <1>1, <1>4 DEF NandReads, Nand!vars
  <2> QED
    BY <1>4, <2>1, <2>2 DEF NandSure, Nand!vars
<1>5. CASE NandAhead(k) /\ Nand!Next
  <2>1. nandStep = "find" /\ nandBlkStart + nandI <= Nand!Start(k) /\ NandMeets(k, nandBlkStart)
    BY <1>5 DEF NandAhead
  <2>2. CASE Nand!FindHit
    <3>1. nandStep' = "read" /\ nandN' = 0 /\ nandStage' = nandStage /\ nandHdr1' = nandHdr1 /\ nandReal' = Nand!Start(k)
      BY <1>2, <2>1, <2>2, NandFindMeets DEF Nand!FindHit
    <3>2. NandReads(k)'
      BY <1>1, <3>1 DEF NandReads
    <3> QED
      BY <3>1, <3>2 DEF NandSure
  <2>3. CASE Nand!FindMiss
    <3>1. nandStep' = nandStep /\ nandStage' = nandStage /\ nandHdr1' = nandHdr1 /\ nandBlkStart' = nandBlkStart /\ nandI' = nandI + 1
      BY <2>3 DEF Nand!FindMiss
    <3>2. nandBlkStart + nandI + 1 <= Nand!Start(k)
      BY <1>2, <2>1, <2>3, NandFindMeets
    <3>3. nandBlkStart' + nandI' = nandBlkStart + nandI + 1
      BY <1>3, <3>1
    <3>4. nandBlkStart' + nandI' <= Nand!Start(k)'
      BY <1>1, <3>2, <3>3
    <3>5. NandMeets(k, nandBlkStart)'
      BY <1>1, <2>1, <3>1, NandMeetsFixed
    <3> QED
      BY <2>1, <3>1, <3>4, <3>5 DEF NandSure, NandAhead
  <2>4. ~Nand!NotFound
    BY <1>2, <2>1, NandFindMeets
  <2>5. ~Nand!ReadNext /\ ~Nand!Check /\ ~Nand!Done
    BY <2>1 DEF Nand!ReadNext, Nand!Check, Nand!Done, Nand!Ends
  <2> QED
    BY <1>5, <2>2, <2>3, <2>4, <2>5 DEF Nand!Next
<1>6. CASE NandReads(k) /\ Nand!Next
  <2>1. nandStep \in {"read", "check"} /\ nandReal = Nand!Start(k)
    BY <1>6 DEF NandReads
  <2>2. CASE Nand!ReadNext
    <3>1. nandStep = "read" /\ nandN * PageSize < Nand!Want
      BY <2>2 DEF Nand!ReadNext
    <3>2. /\ nandN \in 0 .. MaxPages - 1
          /\ Nand!Want = HdrSize + nandImgs[k].size + SignSize
          /\ nandReal * PagesPerBlk = Nand!FirstPage(k)
          /\ Nand!FirstPage(k) + nandN \in Nand!Pages(k)
      BY <1>2, <1>6, <3>1, NandReadOn
    <3>3. Nand!FirstPage(k) + nandN \notin nandBad \cup nandWeak
      BY <3>2 DEF Nand!Reliable
    <3>4. /\ Nand!Put(nandN, Nand!FirstPage(k) + nandN) /\ nandN' = nandN + 1
          /\ nandStep' = IF nandN' * PageSize >= Nand!Want THEN "check" ELSE "read"
          /\ UNCHANGED <<Nand!medium, nandStage, nandI, nandReal, nandBlkStart, nandHdr1>>
      BY <2>2, <3>2, <3>3 DEF Nand!ReadNext, Nand!ReadPage
    <3>5. nandMem \in [Nand!Slots -> [0 .. MaxPages - 1 -> Nat \cup {Nand!NoPage}]]
      BY <1>2 DEF Nand!TypeOK
    <3>6. nandMem'["uboot"] = [nandMem["uboot"] EXCEPT ![nandN] = Nand!FirstPage(k) + nandN]
      BY <1>2, <3>4, <3>5 DEF Nand!Put, Nand!Slots
    <3>7. \A o \in 0 .. nandN' - 1 : nandMem'["uboot"][o] = Nand!FirstPage(k) + o
      <4> SUFFICES ASSUME NEW o \in 0 .. nandN' - 1
                   PROVE  nandMem'["uboot"][o] = Nand!FirstPage(k) + o
        OBVIOUS
      <4>1. nandMem["uboot"] \in [0 .. MaxPages - 1 -> Nat \cup {Nand!NoPage}]
        BY <3>5 DEF Nand!Slots
      <4>2. nandN \in Nat /\ o \in Nat /\ (o = nandN \/ o \in 0 .. nandN - 1)
        BY <3>2, <3>4
      <4>3. CASE o = nandN
        BY <3>2, <3>6, <4>1, <4>3
      <4>4. CASE o \in 0 .. nandN - 1
        <5>1. nandMem["uboot"][o] = Nand!FirstPage(k) + o
          BY <1>6, <4>4 DEF NandReads
        <5>2. nandN \in 0 .. MaxPages - 1 /\ MaxPages \in Nat
          BY <3>2 DEF Nand!NandAssumption
        <5>3. o # nandN /\ o \in 0 .. MaxPages - 1
          BY <4>2, <4>4, <5>2
        <5> QED
          BY <3>6, <4>1, <5>1, <5>3
      <4> QED
        BY <4>2, <4>3, <4>4
    <3>8. nandStep' = "check" => nandN' * PageSize >= HdrSize + nandImgs[k].size + SignSize
      BY <3>2, <3>4
    <3>9. NandReads(k)'
      BY <1>1, <2>1, <3>4, <3>7, <3>8 DEF NandReads
    <3> QED
      BY <3>4, <3>9 DEF NandSure
  <2>3. CASE Nand!Check
    BY <1>2, <1>6, <2>3, NandReadPasses DEF Nand!Check
  <2>4. ~Nand!FindHit /\ ~Nand!FindMiss /\ ~Nand!NotFound /\ ~Nand!Done
    BY <2>1 DEF Nand!FindHit, Nand!FindMiss, Nand!NotFound, Nand!Done, Nand!Ends
  <2> QED
    BY <1>6, <2>2, <2>3, <2>4 DEF Nand!Next
<1> QED
  BY <1>4, <1>5, <1>6 DEF NandSure

(* What a step makes of the stage.                                          *)
LEMMA NandStageStep ==
    ASSUME NandInv, [Nand!Next]_(Nand!vars)
    PROVE  /\ nandStage = "hdr1" /\ nandStep = "find" =>
                \/ UNCHANGED Nand!vars
                \/ Nand!FindMiss /\ nandStage' = nandStage /\ nandHdr1' = nandHdr1 /\ nandBlkStart' = nandBlkStart /\ nandI' = nandI + 1
                \/ Nand!FindHit /\ \E k \in Nand!Matches(Nand!Candidate) : Nand!AfterHdr1(nandImgs[k].size)
                \/ Nand!NotFound /\ Nand!Call("uboot2", AppBlk + 1) /\ nandHdr1' = nandHdr1
           /\ nandStage = "uboot2" =>
                /\ nandHdr1' = nandHdr1
                /\ \/ nandStage' = nandStage
                   \/ nandHdr1 > 0 /\ Nand!Call("fallback", AppBlk)
                   \/ nandHdr1 = 0 /\ nandStage' = "failed"
                   \/ Nand!Check /\ Nand!Loaded /\ Nand!DcrcHolds(Nand!Slot) /\ nandStage' \in {"fip", "boot"}
           /\ nandStage = "fallback" =>
                /\ nandHdr1' = nandHdr1
                /\ \/ nandStage' \in {nandStage, "failed"}
                   \/ Nand!Check /\ Nand!Loaded /\ Nand!DcrcHolds(Nand!Slot) /\ nandStage' \in {"fip", "boot"}
           /\ nandStage \in {"fip", "boot", "no_fip"} =>
                nandStage' \in {"fip", "boot", "no_fip"} /\ nandHdr1' = nandHdr1
           /\ nandStage = "failed" => UNCHANGED Nand!vars
<1>1. CASE UNCHANGED Nand!vars
  BY <1>1 DEF Nand!vars
<1>2. CASE Nand!FindHit
  BY <1>2 DEF Nand!FindHit
<1>3. CASE Nand!FindMiss
  BY <1>3 DEF Nand!FindMiss
<1>0. ASSUME Nand!Failed
      PROVE  /\ nandStage = "hdr1" => Nand!Call("uboot2", AppBlk + 1)
             /\ nandStage = "uboot2" => \/ nandHdr1 > 0 /\ Nand!Call("fallback", AppBlk)
                                        \/ nandHdr1 = 0 /\ nandStage' = "failed"
             /\ nandStage = "fallback" => nandStage' = "failed"
             /\ nandStage = "fip" => nandStage' = "no_fip"
             /\ nandStage \notin {"boot", "no_fip", "failed"}
  BY <1>0 DEF Nand!Failed, Nand!Call
<1>4. CASE Nand!NotFound
  BY <1>0, <1>4 DEF Nand!NotFound
<1>5. CASE Nand!ReadNext
  <2>1. nandStep = "read" /\ nandHdr1' = nandHdr1
    BY <1>5 DEF Nand!ReadNext
  <2>2. nandStage' = nandStage \/ Nand!Failed
    BY <1>5 DEF Nand!ReadNext
  <2>3. nandStage \in NandLoading
    BY <2>1 DEF NandInv, NandReadInv
  <2> QED
    BY <1>0, <2>1, <2>2, <2>3 DEF NandLoading
<1>6. CASE Nand!Check
  <2>1. nandStep = "check" /\ nandHdr1' = nandHdr1 /\ ((Nand!DcrcHolds(Nand!Slot) /\ Nand!Loaded) \/ Nand!Failed) /\ nandStage \in NandLoading
    BY <1>6 DEF Nand!Check, NandInv, NandReadInv
  <2>2. Nand!Loaded => nandStage' \in {"fip", "boot"}
    BY DEF Nand!Loaded, Nand!Call
  <2> QED
    BY <1>0, <1>6, <2>1, <2>2 DEF NandLoading
<1>7. CASE Nand!Done
  BY <1>1, <1>7 DEF Nand!Done
<1> QED
  BY <1>1, <1>2, <1>3, <1>4, <1>5, <1>6, <1>7 DEF Nand!Next

LEMMA NandLastResortNext ==
    ASSUME Nand!NandAssumption, NandInv, NandOrderedInv, NandSeekInv, NEW k \in NandUboots, NandLastResort(k), [Nand!Next]_(Nand!vars)
    PROVE  NandLastResort(k)'
<1>1. nandImgs' = nandImgs /\ nandBad' = nandBad /\ nandWeak' = nandWeak /\ Nand!Start(k)' = Nand!Start(k) /\ Nand!Reliable(k)' /\ Nand!Reliable(k)
  BY NandMediumFixed, NandKnownFixed DEF NandLastResort
<1>2. NandMeets(k, AppBlk)' /\ NandMeets(k, AppBlk)
  BY <1>1, NandMeetsFixed DEF NandLastResort
<1>3. Nand!TypeOK /\ NandMediumInv /\ Nand!Usable(k) /\ AppBlk <= Nand!Start(k) /\ AppBlk \in Nat
  BY <1>1, <1>2, NandReliableUsable DEF NandInv, NandMeets, Nand!NandAssumption
<1>4. k \in Nand!Present /\ nandImgs[k].size # 0
  BY <1>3 DEF NandOrderedInv, Nand!Usable
<1>5. nandStage \in {"hdr1", "uboot2", "fallback", "fip", "boot", "no_fip"}
  BY <1>3 DEF Nand!TypeOK, Nand!Stages, Nand!Ends, NandLastResort
<1>6. CASE nandStage = "hdr1"
  <2>1. nandStep = "find" /\ nandBlkStart = AppBlk /\ AppBlk + nandI <= Nand!Start(k)
    BY <1>6 DEF NandSeekInv, NandLastResort
  <2>2. CASE UNCHANGED Nand!vars
    BY <1>1, <1>2, <1>6, <2>1, <2>2 DEF NandLastResort, Nand!vars
  <2>3. CASE Nand!FindMiss /\ nandStage' = nandStage /\ nandHdr1' = nandHdr1 /\ nandBlkStart' = nandBlkStart /\ nandI' = nandI + 1
    <3>1. nandBlkStart + nandI + 1 <= Nand!Start(k)
      BY <1>2, <1>3, <1>6, <2>1, <2>3, NandFindMeets
    <3>2. AppBlk + nandI' = nandBlkStart + nandI + 1
      BY <1>3, <2>1, <2>3 DEF Nand!TypeOK
    <3> QED
      BY <1>1, <1>2, <1>6, <2>3, <3>1, <3>2 DEF NandLastResort
  <2>4. CASE Nand!FindHit /\ \E l \in Nand!Matches(Nand!Candidate) : Nand!AfterHdr1(nandImgs[l].size)
    <3>1. Nand!AfterHdr1(nandImgs[k].size)
      BY <1>2, <1>3, <1>6, <2>1, <2>4, NandFindMeets
    <3>2. nandStage' = "uboot2" /\ nandHdr1' # 0
      BY <1>4, <3>1 DEF Nand!AfterHdr1, Nand!Call
    <3> QED
      BY <1>1, <1>2, <3>2 DEF NandLastResort
  <2>5. ~Nand!NotFound
    BY <1>2, <1>3, <1>6, <2>1, NandFindMeets
  <2> QED
    BY <1>6, <2>1, <2>2, <2>3, <2>4, <2>5, NandStageStep
<1>7. CASE nandStage = "uboot2"
  <2>1. nandHdr1 # 0 /\ nandHdr1' = nandHdr1
    BY <1>7, NandStageStep DEF NandLastResort
  <2>2. CASE nandStage' = nandStage
    BY <1>1, <1>2, <1>7, <2>1, <2>2 DEF NandLastResort
  <2>3. CASE Nand!Call("fallback", AppBlk)
    <3>1. nandStage' = "fallback" /\ nandStep' = "find" /\ nandBlkStart' = AppBlk /\ nandI' = 0
      BY <2>3 DEF Nand!Call
    <3>2. NandAhead(k)'
      <4>1. nandBlkStart' + nandI' = AppBlk
        BY <1>3, <3>1
      <4> QED
        BY <1>1, <1>2, <1>3, <3>1, <4>1, NandMeetsFixed DEF NandAhead
    <3> QED
      BY <1>1, <1>2, <2>1, <3>1, <3>2 DEF NandLastResort, NandSure
  <2>4. CASE nandStage' \in {"fip", "boot"}
    BY <1>1, <1>2, <2>4 DEF NandLastResort
  <2> QED
    BY <1>7, <2>1, <2>2, <2>3, <2>4, NandStageStep
<1>8. CASE nandStage = "fallback"
  <2>1. NandSure(k) /\ nandHdr1 # 0
    BY <1>8 DEF NandLastResort
  <2>2. CASE nandStage' = nandStage /\ nandHdr1' = nandHdr1 /\ NandSure(k)'
    BY <1>1, <1>2, <1>8, <2>1, <2>2 DEF NandLastResort
  <2>3. CASE Nand!Loaded
    <3>1. nandStage' \in {"fip", "boot"}
      BY <1>8, <2>3 DEF Nand!Loaded, Nand!Call
    <3> QED
      BY <1>1, <1>2, <3>1 DEF NandLastResort
  <2> QED
    BY <1>1, <1>8, <2>1, <2>2, <2>3, NandSureStep
<1>9. CASE nandStage \in {"fip", "boot", "no_fip"}
  <2>1. nandStage' \in {"fip", "boot", "no_fip"}
    BY <1>9, NandStageStep
  <2> QED
    BY <1>1, <1>2, <2>1 DEF NandLastResort
<1> QED
  BY <1>5, <1>6, <1>7, <1>8, <1>9

LEMMA NandPreferredNext ==
    ASSUME Nand!NandAssumption, NandInv, NandSeekInv, NandPreferred, [Nand!Next]_(Nand!vars)
    PROVE  NandPreferred'
<1>1. /\ nandImgs' = nandImgs /\ nandBad' = nandBad /\ nandWeak' = nandWeak /\ "uboot1" \in NandUboots /\ "uboot2" \in NandUboots
      /\ Nand!Start("uboot1")' = Nand!Start("uboot1") /\ Nand!Start("uboot2")' = Nand!Start("uboot2")
      /\ Nand!Reliable("uboot2") /\ Nand!Reliable("uboot2")' /\ Nand!Usable("uboot1") /\ Nand!Usable("uboot1")'
  <2>1. nandImgs' = nandImgs /\ nandBad' = nandBad /\ nandWeak' = nandWeak /\ "uboot1" \in NandUboots /\ "uboot2" \in NandUboots
    BY NandMediumFixed DEF NandUboots
  <2> QED
    BY <2>1, NandKnownFixed DEF NandPreferred
<1>2. /\ NandMeets("uboot1", AppBlk) /\ NandMeets("uboot1", AppBlk)'
      /\ NandMeets("uboot2", NandBehindFactory) /\ NandMeets("uboot2", NandBehindFactory)'
  BY <1>1, NandMeetsFixed DEF NandPreferred
<1>3. Nand!TypeOK /\ NandMediumInv /\ AppBlk \in Nat
  BY DEF NandInv, Nand!NandAssumption
<1>4. nandStage \in {"hdr1", "uboot2", "fip", "boot", "no_fip"}
  BY <1>3 DEF Nand!TypeOK, Nand!Stages, Nand!Ends, NandPreferred
<1>5. ASSUME /\ nandStage' = "hdr1" => AppBlk + nandI' <= Nand!Start("uboot1")
             /\ nandStage' = "uboot2" => NandSure("uboot2")'
             /\ nandStage' \notin {"fallback", "failed"}
      PROVE  NandPreferred'
  BY <1>1, <1>2, <1>5 DEF NandPreferred
<1>6. CASE nandStage = "hdr1"
  <2>1. nandStep = "find" /\ nandBlkStart = AppBlk /\ AppBlk + nandI <= Nand!Start("uboot1")
    BY <1>6 DEF NandSeekInv, NandPreferred
  <2>2. CASE UNCHANGED Nand!vars
    BY <1>5, <1>6, <2>1, <2>2 DEF Nand!vars
  <2>3. CASE Nand!FindMiss /\ nandStage' = nandStage /\ nandHdr1' = nandHdr1 /\ nandBlkStart' = nandBlkStart /\ nandI' = nandI + 1
    <3>1. nandBlkStart + nandI + 1 <= Nand!Start("uboot1")
      BY <1>1, <1>2, <1>3, <1>6, <2>1, <2>3, NandFindMeets
    <3>2. AppBlk + nandI' = nandBlkStart + nandI + 1
      BY <1>3, <2>1, <2>3 DEF Nand!TypeOK
    <3> QED
      BY <1>5, <1>6, <2>3, <3>1, <3>2
  <2>4. CASE Nand!FindHit /\ \E l \in Nand!Matches(Nand!Candidate) : Nand!AfterHdr1(nandImgs[l].size)
    <3>1. Nand!AfterHdr1(nandImgs["uboot1"].size)
      BY <1>1, <1>2, <1>3, <1>6, <2>1, <2>4, NandFindMeets
    <3>2. nandStage' = "uboot2" /\ nandStep' = "find" /\ nandBlkStart' = NandBehindFactory /\ nandI' = 0
      BY <3>1 DEF Nand!AfterHdr1, Nand!Call, NandBehindFactory
    <3>3. NandAhead("uboot2")'
      <4>1. nandBlkStart' \in Nat
        BY <3>2, NandNextInv DEF NandInv, Nand!TypeOK
      <4>2. nandBlkStart' + nandI' = NandBehindFactory /\ NandBehindFactory <= Nand!Start("uboot2")
        <5> DEFINE b == nandBlkStart'
        <5> HIDE DEF b
        <5>1. b \in Nat
          BY <4>1 DEF b
        <5>2. b + 0 = b
          BY <5>1
        <5> QED
          BY <1>2, <3>2, <5>2 DEF b, NandMeets
      <4> QED
        BY <1>1, <1>2, <3>2, <4>2, NandMeetsFixed DEF NandAhead
    <3> QED
      BY <1>5, <3>2, <3>3 DEF NandSure
  <2>5. ~Nand!NotFound
    BY <1>1, <1>2, <1>3, <1>6, <2>1, NandFindMeets
  <2> QED
    BY <1>6, <2>1, <2>2, <2>3, <2>4, <2>5, NandStageStep
<1>7. CASE nandStage = "uboot2"
  <2>1. NandSure("uboot2")
    BY <1>7 DEF NandPreferred
  <2>2. CASE nandStage' = nandStage /\ NandSure("uboot2")'
    BY <1>5, <1>7, <2>2
  <2>3. CASE Nand!Loaded
    <3>1. nandStage' \in {"fip", "boot"}
      BY <1>7, <2>3 DEF Nand!Loaded, Nand!Call
    <3> QED
      BY <1>5, <3>1
  <2> QED
    BY <1>1, <1>7, <2>1, <2>2, <2>3, NandSureStep
<1>8. CASE nandStage \in {"fip", "boot", "no_fip"}
  <2>1. nandStage' \in {"fip", "boot", "no_fip"}
    BY <1>8, NandStageStep
  <2> QED
    BY <1>5, <2>1
<1> QED
  BY <1>4, <1>6, <1>7, <1>8

LEMMA NandAloneNext ==
    ASSUME Nand!NandAssumption, NandInv, NandSeekInv, NandAlone, [Nand!Next]_(Nand!vars)
    PROVE  NandAlone'
<1>1. /\ nandImgs' = nandImgs /\ nandBad' = nandBad /\ nandWeak' = nandWeak /\ "uboot2" \in NandUboots
      /\ \A l \in NandUboots : Nand!Start(l)' = Nand!Start(l) /\ NandMatchable(l)' = NandMatchable(l)
      /\ Nand!Reliable("uboot2") /\ Nand!Reliable("uboot2")'
  <2>1. nandImgs' = nandImgs /\ nandBad' = nandBad /\ nandWeak' = nandWeak /\ "uboot2" \in NandUboots
    BY NandMediumFixed DEF NandUboots
  <2> QED
    BY <2>1, NandKnownFixed DEF NandAlone
<1>2. NandMeets("uboot2", AppBlk + 1) /\ NandMeets("uboot2", AppBlk + 1)'
  BY <1>1, NandMeetsFixed DEF NandAlone
<1>3. Nand!TypeOK /\ NandMediumInv /\ AppBlk \in Nat
  BY DEF NandInv, Nand!NandAssumption
<1>4. nandStage \in {"hdr1", "uboot2", "fip", "boot", "no_fip"}
  BY <1>3 DEF Nand!TypeOK, Nand!Stages, Nand!Ends, NandAlone
<1>5. ASSUME /\ nandStage' = "uboot2" => NandSure("uboot2")'
             /\ nandStage' \notin {"fallback", "failed"}
      PROVE  NandAlone'
  BY <1>1, <1>2, <1>5 DEF NandAlone
<1>6. CASE nandStage = "hdr1"
  <2>1. nandStep = "find" /\ nandBlkStart = AppBlk
    BY <1>6 DEF NandSeekInv
  <2>2. CASE nandStage' = nandStage
    BY <1>5, <1>6, <2>2
  <2>3. CASE Nand!NotFound /\ Nand!Call("uboot2", AppBlk + 1)
    <3>1. nandStage' = "uboot2" /\ nandStep' = "find" /\ nandBlkStart' = AppBlk + 1 /\ nandI' = 0
      BY <2>3 DEF Nand!Call
    <3>2. nandBlkStart' + nandI' <= Nand!Start("uboot2")'
      <4>1. nandBlkStart' + nandI' = AppBlk + 1
        BY <1>3, <3>1
      <4> QED
        BY <1>1, <1>2, <4>1 DEF NandMeets
    <3>3. NandAhead("uboot2")'
      BY <1>1, <1>2, <3>1, <3>2, NandMeetsFixed DEF NandAhead
    <3> QED
      BY <1>5, <3>1, <3>3 DEF NandSure
  <2>4. ~Nand!FindHit
    <3> SUFFICES ASSUME Nand!FindHit PROVE FALSE
      OBVIOUS
    <3>1. Nand!Candidate \notin nandBad /\ nandI < SearchBlks /\ Nand!Matches(Nand!Candidate) # {}
      BY DEF Nand!FindHit, Nand!ReadPage
    <3>2. PICK l \in Nand!Matches(Nand!Candidate) : TRUE
      BY <3>1
    <3>3. l \in Nand!Present /\ Nand!FirstPage(l) = Nand!Candidate /\ Nand!NameOf(l) = "uboot" /\ "hcrc" \notin nandImgs[l].flaws
      BY <1>6, <3>2 DEF Nand!Matches, Nand!HeaderIn, Nand!Slot
    <3>4. l \in NandUboots /\ l \in Nand!Ids
      BY <3>3 DEF Nand!Present, Nand!Ids, Nand!NameOf, NandUboots
    <3>5. NandMatchable(l)
      BY <3>1, <3>3 DEF NandMatchable
    <3> DEFINE b == nandBlkStart + nandI
               z == Nand!Start(l)
    <3>6. nandI \in Nat /\ SearchBlks \in Nat /\ PagesPerBlk \in Nat \ {0} /\ b = AppBlk + nandI
      BY <1>3, <2>1 DEF Nand!TypeOK, Nand!NandAssumption
    <3>7. z \in Nat /\ z * PagesPerBlk = b * PagesPerBlk
      BY <1>3, <3>3, <3>4, NandNumbers DEF Nand!Start, Nand!FirstPage, Nand!Candidate
    <3>8. z = b
      <4> HIDE DEF z, b
      <4>1. b \in Nat
        BY <1>3, <3>6
      <4> QED
        BY <3>6, <3>7, <4>1, SameFactor
    <3>9. b \in AppBlk .. AppBlk + SearchBlks - 1
      <4> HIDE DEF b
      <4> QED
        BY <1>3, <3>1, <3>6
    <3> QED
      BY <3>4, <3>5, <3>8, <3>9 DEF NandAlone
  <2> QED
    BY <1>6, <2>1, <2>2, <2>3, <2>4, NandStageStep DEF Nand!vars
<1>7. CASE nandStage = "uboot2"
  <2>1. NandSure("uboot2")
    BY <1>7 DEF NandAlone
  <2>2. CASE nandStage' = nandStage /\ NandSure("uboot2")'
    BY <1>5, <1>7, <2>2
  <2>3. CASE Nand!Loaded
    <3>1. nandStage' \in {"fip", "boot"}
      BY <1>7, <2>3 DEF Nand!Loaded, Nand!Call
    <3> QED
      BY <1>5, <3>1
  <2> QED
    BY <1>1, <1>7, <2>1, <2>2, <2>3, NandSureStep
<1>8. CASE nandStage \in {"fip", "boot", "no_fip"}
  <2>1. nandStage' \in {"fip", "boot", "no_fip"}
    BY <1>8, NandStageStep
  <2> QED
    BY <1>5, <2>1
<1> QED
  BY <1>4, <1>6, <1>7, <1>8

LEMMA NandOrderedNext ==
    ASSUME NandOrderedInv, [Nand!Next]_(Nand!vars)
    PROVE  NandOrderedInv'
<1>1. nandImgs' = nandImgs
  BY NandMediumFixed
<1> QED
  BY <1>1 DEF NandOrderedInv, Nand!Present, NandBehind, Nand!Start, Nand!PageCount

(* What has to be found is fixed with the medium.                           *)
LEMMA NandDueFixed ==
    ASSUME nandImgs' = nandImgs, nandBad' = nandBad, nandWeak' = nandWeak
    PROVE  /\ Nand!FactoryFindable' = Nand!FactoryFindable /\ Nand!UpdateFindable' = Nand!UpdateFindable
           /\ NandUpdateDue' = NandUpdateDue /\ NandEarly' = NandEarly
           /\ Nand!Must' = Nand!Must /\ Nand!IntactCopies' = Nand!IntactCopies
<1>1. \A k \in {"uboot1", "uboot2"} :
        /\ Nand!Reliable(k)' = Nand!Reliable(k) /\ Nand!Usable(k)' = Nand!Usable(k) /\ Nand!Dead(k)' = Nand!Dead(k)
        /\ Nand!Start(k)' = Nand!Start(k) /\ Nand!Intact(k)' = Nand!Intact(k)
  BY NandKnownFixed DEF NandUboots
<1>2. Nand!FactoryFindable' = Nand!FactoryFindable
  BY <1>1 DEF Nand!FactoryFindable
<1>3. Nand!UpdateFindable' = Nand!UpdateFindable
  BY <1>1 DEF Nand!UpdateFindable
<1>4. Nand!Aligned' = Nand!Aligned
  BY <1>1 DEF Nand!Aligned
<1>5. NandUpdateDue' = NandUpdateDue /\ NandEarly' = NandEarly
  BY <1>1, <1>3, <1>4 DEF NandUpdateDue, NandEarly
<1>6. Nand!IntactCopies' = Nand!IntactCopies
  BY <1>1 DEF Nand!IntactCopies
<1>7. Nand!Must' = Nand!Must
  BY <1>2, <1>3, <1>4 DEF Nand!Must
<1> QED
  BY <1>2, <1>3, <1>5, <1>6, <1>7

LEMMA NandSeekNext ==
    ASSUME Nand!NandAssumption, NandInv, NandOrderedInv, NandSeekInv, [Nand!Next]_(Nand!vars)
    PROVE  NandSeekInv'
<1>1. /\ nandImgs' = nandImgs /\ nandBad' = nandBad /\ nandWeak' = nandWeak /\ "uboot1" \in NandUboots /\ "uboot2" \in NandUboots
      /\ Nand!TypeOK /\ NandReadInv
  BY NandMediumFixed DEF NandUboots, NandInv
<1>2. /\ Nand!FactoryFindable' = Nand!FactoryFindable /\ NandUpdateDue' = NandUpdateDue /\ NandEarly' = NandEarly
      /\ Nand!Usable("uboot1")' = Nand!Usable("uboot1") /\ Nand!Dead("uboot1")' = Nand!Dead("uboot1")
  BY <1>1, NandDueFixed, NandKnownFixed
<1>3. Nand!FactoryFindable' => NandLastResort("uboot1")'
  BY <1>1, <1>2, NandLastResortNext DEF NandSeekInv
<1>4. (NandUpdateDue /\ Nand!Usable("uboot1"))' => NandPreferred'
  BY <1>2, NandPreferredNext DEF NandSeekInv
<1>5. (NandUpdateDue /\ Nand!Dead("uboot1") /\ NandEarly)' => NandLastResort("uboot2")'
  BY <1>1, <1>2, NandLastResortNext DEF NandSeekInv
<1>6. (NandUpdateDue /\ Nand!Dead("uboot1") /\ ~NandEarly)' => NandAlone'
  BY <1>2, NandAloneNext DEF NandSeekInv
<1>7. nandStage' = "hdr1" => nandStep' = "find" /\ nandBlkStart' = AppBlk /\ nandHdr1' = 0
  <2> SUFFICES ASSUME nandStage' = "hdr1"
               PROVE  nandStep' = "find" /\ nandBlkStart' = AppBlk /\ nandHdr1' = 0
    OBVIOUS
  <2>1. nandStage = "hdr1"
    BY <1>1, NandStageStep DEF Nand!TypeOK, Nand!Stages, Nand!Ends, Nand!Call, Nand!Loaded,
       Nand!vars
  <2>2. nandStep = "find" /\ nandBlkStart = AppBlk /\ nandHdr1 = 0
    BY <2>1 DEF NandSeekInv
  <2>3. UNCHANGED Nand!vars \/ Nand!FindMiss
    BY <2>1, <2>2, NandStageStep DEF Nand!AfterHdr1, Nand!Call
  <2> QED
    BY <2>2, <2>3 DEF Nand!FindMiss, Nand!vars
<1>8. nandStep' \in {"read", "check"} => nandReal' * PagesPerBlk \notin nandBad'
  <2>1. CASE UNCHANGED Nand!vars
    BY <1>1, <2>1 DEF NandSeekInv, Nand!vars
  <2>2. CASE Nand!FindHit
    BY <1>1, <2>2 DEF Nand!FindHit, Nand!ReadPage, Nand!Candidate
  <2>3. CASE Nand!FindMiss
    BY <2>3 DEF Nand!FindMiss
  <2>4. Nand!Failed \/ Nand!Loaded => nandStep' = "find"
    BY DEF Nand!Failed, Nand!Loaded, Nand!Call
  <2>5. CASE Nand!NotFound
    BY <2>4, <2>5 DEF Nand!NotFound
  <2>6. CASE Nand!ReadNext
    BY <1>1, <2>4, <2>6 DEF Nand!ReadNext, NandSeekInv
  <2>7. CASE Nand!Check
    BY <2>4, <2>7 DEF Nand!Check
  <2>8. CASE Nand!Done
    BY <1>1, <2>8 DEF Nand!Done, NandSeekInv, Nand!vars
  <2> QED
    BY <2>1, <2>2, <2>3, <2>5, <2>6, <2>7, <2>8 DEF Nand!Next
<1> QED
  BY <1>3, <1>4, <1>5, <1>6, <1>7, <1>8 DEF NandSeekInv

(* While there is a copy that has to be found the search does not give up,  *)
(* and one that has to be found is intact.                                  *)
LEMMA NandMustFound ==
    ASSUME Nand!NandAssumption, NandMediumInv, NandSeekInv
    PROVE  /\ Nand!Must # {} => nandStage # "failed"
           /\ Nand!Must \subseteq Nand!IntactCopies /\ Nand!IntactCopies \subseteq {"uboot1", "uboot2"}
<1>1. Nand!FactoryFindable => nandStage # "failed" /\ Nand!Intact("uboot1")
  BY DEF NandSeekInv, NandLastResort, Nand!Reliable
<1>2. NandUpdateDue => nandStage # "failed" /\ Nand!Intact("uboot2")
  <2>1. NandUpdateDue => Nand!Usable("uboot1") \/ Nand!Dead("uboot1")
    BY DEF NandUpdateDue, Nand!UpdateFindable
  <2>2. NandUpdateDue => nandStage # "failed"
    BY <2>1 DEF NandSeekInv, NandLastResort, NandPreferred, NandAlone
  <2> QED
    BY <2>2 DEF NandUpdateDue, Nand!UpdateFindable, Nand!Reliable
<1> QED
  BY <1>1, <1>2 DEF Nand!Must, NandUpdateDue, Nand!IntactCopies

(* What the check lets pass is an intact copy, and the update if that has   *)
(* to be found.                                                             *)
LEMMA NandTaken ==
    ASSUME Nand!NandAssumption, NandInv, NandSeekInv, [Nand!Next]_(Nand!vars), nandStage \in {"uboot2", "fallback"},
           Nand!Check, Nand!Loaded, Nand!DcrcHolds(Nand!Slot)
    PROVE  /\ Nand!Held("uboot") \in Nand!IntactCopies
           /\ "uboot2" \in Nand!Must => Nand!Held("uboot") = "uboot2"
<1>1. Nand!Slot = "uboot" /\ NandMediumInv /\ NandReadInv /\ nandStep = "check"
  BY DEF Nand!Slot, NandInv, Nand!Check
<1> DEFINE h == Nand!Held("uboot")
           p == nandMem["uboot"][0]
<1>2. PICK k \in Nand!HeaderIn(p) : "dcrc" \notin nandImgs[k].flaws /\ Nand!Complete("uboot", k)
  BY <1>1 DEF Nand!DcrcHolds
<1>3. h \in Nand!HeaderIn(p)
  BY <1>2 DEF Nand!Held
<1>4. h = k
  BY <1>1, <1>2, <1>3, NandOneHeader
<1>5. PICK l \in Nand!Matches(p) : TRUE
  BY <1>1 DEF NandReadInv
<1>6. l \in Nand!HeaderIn(p) /\ Nand!NameOf(l) = "uboot" /\ "hcrc" \notin nandImgs[l].flaws
  BY <1>1, <1>5 DEF Nand!Matches
<1>7. l = h
  BY <1>1, <1>3, <1>6, NandOneHeader
<1> HIDE DEF h
<1>8. h \in Nand!Present /\ h \in NandUboots /\ Nand!FirstPage(h) = p
  BY <1>3, <1>6, <1>7 DEF Nand!HeaderIn, Nand!Present, Nand!Ids, Nand!NameOf, NandUboots
<1>9. nandImgs[h].flaws \subseteq {"hcrc", "dcrc"}
  BY <1>1, <1>8, NandNumbers DEF Nand!Present
<1>10. Nand!Intact(h)
  BY <1>2, <1>4, <1>6, <1>7, <1>8, <1>9 DEF Nand!Intact
<1>11. h \in Nand!IntactCopies
  BY <1>8, <1>10 DEF Nand!IntactCopies, NandUboots
<1>12. ASSUME NandUpdateDue
       PROVE  h = "uboot2"
  <2>1. CASE Nand!Dead("uboot1")
    <3>1. p \notin nandBad
      BY <1>1 DEF NandSeekInv, NandReadInv
    <3>2. h # "uboot1"
      BY <1>8, <1>10, <2>1, <3>1 DEF Nand!Dead, Nand!Intact
    <3> QED
      BY <1>8, <3>2 DEF NandUboots
  <2>2. CASE Nand!Usable("uboot1")
    <3>1. Nand!Reliable("uboot2") /\ NandSure("uboot2") /\ nandStage = "uboot2"
      BY <1>12, <2>2 DEF NandSeekInv, NandPreferred
    <3>2. NandReads("uboot2")
      BY <1>1, <3>1 DEF NandSure, NandAhead
    <3>3. "uboot2" \in Nand!HeaderIn(p)
      BY <1>1, <3>1, <3>2, NandReadPasses DEF NandInv, NandUboots
    <3> QED
      BY <1>1, <1>3, <3>3, NandOneHeader
  <2> QED
    BY <1>12, <2>1, <2>2 DEF NandUpdateDue, Nand!UpdateFindable
<1> QED
  BY <1>11, <1>12 DEF h, Nand!Must, NandUpdateDue

LEMMA NandSourceInit ==
    ASSUME Nand!NandAssumption, NandOrdered, Nand!Init
    PROVE  NandSource!Init
<1>1. NandMediumInv /\ NandSeekInv
  BY NandInitInv, NandSeekInit DEF NandInv
<1>2. Nand!Outcome = "loading"
  BY DEF Nand!Init, Nand!Outcome
<1> QED
  BY <1>1, <1>2, NandMustFound DEF NandSource!Init, NandSource!Copies

LEMMA NandSourceStep ==
    ASSUME Nand!NandAssumption, NandInv, NandOrderedInv, NandSeekInv, [Nand!Next]_(Nand!vars)
    PROVE  [NandSource!Next]_<<Nand!IntactCopies, Nand!Must, Nand!Outcome>>
<1>1. nandImgs' = nandImgs /\ nandBad' = nandBad /\ nandWeak' = nandWeak /\ Nand!IntactCopies' = Nand!IntactCopies /\ Nand!Must' = Nand!Must
  BY NandMediumFixed, NandDueFixed
<1>2. Nand!TypeOK /\ NandReadInv /\ NandMediumInv
  BY DEF NandInv
<1>3. nandStage \in {"hdr1", "uboot2", "fallback", "fip", "boot", "no_fip", "failed"}
  BY <1>2 DEF Nand!TypeOK, Nand!Stages, Nand!Ends
<1>5. ASSUME nandMem'["uboot"] = nandMem["uboot"]
      PROVE  Nand!Held("uboot")' = Nand!Held("uboot")
  BY <1>1, <1>5 DEF Nand!Held, Nand!HeaderIn, Nand!Present, Nand!FirstPage
<1>6. CASE nandStage' \in {"hdr1", "uboot2", "fallback"} /\ nandStage \in {"hdr1", "uboot2", "fallback"}
  BY <1>1, <1>6 DEF Nand!Outcome
<1>7. CASE nandStage \in {"uboot2", "fallback"} /\ nandStage' = "failed"
  <2>1. Nand!Must = {}
    <3>1. NandSeekInv' /\ NandMediumInv'
      BY NandSeekNext, NandNextInv DEF NandInv
    <3>2. ~Nand!FactoryFindable'
      BY <1>7, <3>1 DEF NandSeekInv, NandLastResort
    <3>3. ~NandUpdateDue'
      <4>1. NandUpdateDue' => Nand!Usable("uboot1")' \/ Nand!Dead("uboot1")'
        BY DEF NandUpdateDue, Nand!UpdateFindable
      <4> QED
        BY <1>7, <3>1, <4>1 DEF NandSeekInv, NandLastResort, NandPreferred, NandAlone
    <3>4. ~Nand!FactoryFindable /\ ~NandUpdateDue
      BY <1>1, <3>2, <3>3, NandDueFixed
    <3> QED
      BY <3>4 DEF Nand!Must, NandUpdateDue
  <2>2. Nand!Outcome = "loading" /\ Nand!Outcome' = "none"
    BY <1>7 DEF Nand!Outcome
  <2> QED
    BY <1>1, <2>1, <2>2 DEF NandSource!Next, NandSource!GiveUp
<1>8. CASE nandStage \in {"uboot2", "fallback"} /\ Nand!Check /\ Nand!Loaded /\ Nand!DcrcHolds(Nand!Slot) /\ nandStage' \in {"fip", "boot"}
  <2>1. Nand!Held("uboot") \in Nand!IntactCopies /\ ("uboot2" \in Nand!Must => Nand!Held("uboot") = "uboot2")
    BY <1>8, NandTaken
  <2>2. Nand!Held("uboot") \in NandSource!Copies
    BY <2>1 DEF Nand!IntactCopies, NandSource!Copies
  <2>3. Nand!Held("uboot")' = Nand!Held("uboot")
    BY <1>5, <1>8 DEF Nand!Check
  <2>4. Nand!Outcome = "loading" /\ Nand!Outcome' = Nand!Held("uboot")
    BY <1>8, <2>3 DEF Nand!Outcome
  <2> QED
    BY <1>1, <2>1, <2>2, <2>4 DEF NandSource!Next, NandSource!Use
<1>9. CASE nandStage \in {"fip", "boot", "no_fip"}
  <2>1. nandStage' \in {"fip", "boot", "no_fip"}
    BY <1>9, NandStageStep
  <2>2. nandMem'["uboot"] = nandMem["uboot"]
    <3>1. nandMem \in [Nand!Slots -> [0 .. MaxPages - 1 -> Nat \cup {Nand!NoPage}]]
      BY <1>2 DEF Nand!TypeOK
    <3>2. ASSUME NEW o, NEW q, Nand!Put(o, q), nandStage = "fip"
          PROVE  nandMem'["uboot"] = nandMem["uboot"]
      BY <3>1, <3>2 DEF Nand!Put, Nand!Slot, Nand!Slots
    <3>3. CASE nandStage = "fip"
      <4>1. CASE Nand!FindHit
        BY <3>2, <3>3, <4>1 DEF Nand!FindHit
      <4>2. CASE Nand!FindMiss
        BY <3>2, <3>3, <4>2 DEF Nand!FindMiss
      <4>3. CASE Nand!ReadNext
        BY <3>2, <3>3, <4>3 DEF Nand!ReadNext
      <4>4. CASE Nand!NotFound \/ Nand!Check \/ Nand!Done \/ UNCHANGED Nand!vars
        BY <4>4 DEF Nand!NotFound, Nand!Check, Nand!Done, Nand!vars
      <4> QED
        BY <4>1, <4>2, <4>3, <4>4 DEF Nand!Next
    <3>4. CASE nandStage \in {"boot", "no_fip"}
      BY <1>2, <3>4 DEF Nand!Next, Nand!FindHit, Nand!FindMiss, Nand!NotFound, Nand!Failed,
         Nand!ReadNext, Nand!Check, Nand!Done, Nand!vars, NandReadInv, NandLoading
    <3> QED
      BY <1>9, <3>3, <3>4
  <2> QED
    BY <1>1, <1>5, <1>9, <2>1, <2>2 DEF Nand!Outcome
<1>10. CASE nandStage = "failed"
  <2>1. UNCHANGED Nand!vars
    BY <1>10, NandStageStep
  <2>2. nandStage' = nandStage
    BY <2>1 DEF Nand!vars
  <2> QED
    BY <1>1, <1>10, <2>2 DEF Nand!Outcome
<1>11. nandStage = "hdr1" => nandStage' \in {"hdr1", "uboot2"}
  BY NandStageStep DEF Nand!AfterHdr1, Nand!Call, Nand!vars, NandSeekInv
<1>12. nandStage \in {"uboot2", "fallback"} =>
         \/ nandStage' \in {"uboot2", "fallback", "failed"}
         \/ Nand!Check /\ Nand!Loaded /\ Nand!DcrcHolds(Nand!Slot) /\ nandStage' \in {"fip", "boot"}
  BY NandStageStep DEF Nand!Call
<1> QED
  BY <1>3, <1>6, <1>7, <1>8, <1>9, <1>10, <1>11, <1>12
-----------------------------------------------------------------------------
(* Loaders                                                                  *)

(* One loader runs for good, and nothing is asked of the other.             *)
Inv ==
    /\ loader \in LoaderTypes
    /\ loader = "nand" => NandInv
    /\ loader = "emmc" => EmmcInv

LEMMA Steps ==
    ASSUME [Next]_vars
    PROVE  /\ loader' = loader
           /\ loader = "nand" => [Nand!Next]_(Nand!vars)
           /\ loader = "emmc" => [Emmc!Next]_(Emmc!vars)
<1>1. CASE NandStep /\ Nand!Next
  BY <1>1 DEF NandStep
<1>2. CASE EmmcStep /\ Emmc!Next
  BY <1>2 DEF EmmcStep
<1>3. CASE UNCHANGED vars
  BY <1>3 DEF vars, nandVars, emmcVars, Nand!vars, Nand!medium, Emmc!vars, Emmc!medium
<1> QED BY <1>1, <1>2, <1>3 DEF Next

LEMMA Assumptions == LoaderTypes \subseteq AllLoaders /\ Nand!NandAssumption /\ Emmc!EmmcAssumption
BY LoadersAssumption DEF LoadersAssumption

LEMMA InitInv ==
    ASSUME Init
    PROVE  Inv
<1>1. CASE loader = "nand"
  BY <1>1, Assumptions, NandInitInv DEF Init, Inv
<1>2. CASE loader = "emmc"
  BY <1>2, Assumptions, EmmcInitInv DEF Init, Inv
<1> QED BY <1>1, <1>2, Assumptions DEF Init, AllLoaders

LEMMA NextInv ==
    ASSUME Inv, [Next]_vars
    PROVE  Inv'
<1>1. loader = "nand" => NandInv'
  BY Assumptions, Steps, NandNextInv DEF Inv
<1>2. loader = "emmc" => EmmcInv'
  BY Steps, EmmcNextInv DEF Inv
<1> QED BY <1>1, <1>2, Steps DEF Inv

(* Whatever is on the NAND or in the partition table of the eMMC, and       *)
(* whichever pages and blocks fail or fail now and then: boot_uboot is      *)
(* given complete and undamaged images.                                     *)
THEOREM LoadsWhole == Spec => []BootsWhole
<1>1. Init => Inv
  BY InitInv
<1>2. Inv /\ [Next]_vars => Inv'
  BY NextInv
<1>3. Inv => BootsWhole
  <2>1. EmmcInv => Emmc!BootsWhole
    BY EmmcInvWhole
  <2>2. NandInv => Nand!BootsWhole
    BY DEF NandInv, NandWholeInv, NandWhole, Nand!BootsWhole, Nand!Slots
  <2> QED BY <2>1, <2>2 DEF Inv, BootsWhole
<1> QED BY <1>1, <1>2, <1>3, PTL DEF Spec

(* The variables of the loader that runs have their types; above all, no    *)
(* page of a NAND is read past the load area.                               *)
THEOREM TypeCorrect ==
    Spec => []((loader = "nand" => Nand!TypeOK) /\ (loader = "emmc" => Emmc!TypeOK))
<1>1. Init => Inv
  BY InitInv
<1>2. Inv /\ [Next]_vars => Inv'
  BY NextInv
<1>3. Inv => (loader = "nand" => Nand!TypeOK) /\ (loader = "emmc" => Emmc!TypeOK)
  BY DEF Inv, NandInv, EmmcInv, EmmcTypeInv
<1> QED BY <1>1, <1>2, <1>3, PTL DEF Spec

(* The loader that runs as the one source it is.                            *)
IntactCopies == IF IsNand THEN Nand!IntactCopies ELSE Emmc!IntactCopies
Must == IF IsNand THEN Nand!Must ELSE Emmc!Must
Outcome == IF IsNand THEN Nand!Outcome ELSE Emmc!Outcome

SourceInv ==
    /\ Inv
    /\ loader = "nand" => NandOrderedInv /\ NandSeekInv
    /\ loader = "emmc" => EmmcSearchInv

LEMMA SourceInit ==
    ASSUME EmmcOrdered, NandOrdered, Init
    PROVE  SourceInv /\ Source!Init
<1>1. CASE loader = "nand"
  <2>1. Nand!Init
    BY <1>1 DEF Init
  <2>2. NandOrderedInv /\ NandSeekInv /\ NandSource!Init
    BY <2>1, Assumptions, NandOrderedInit, NandSeekInit, NandSourceInit
  <2>3. Source!Init
    BY <1>1, <2>2 DEF NandSource!Init, NandSource!Copies, Source!Init, Source!Copies, IsNand
  <2> QED
    BY <1>1, <2>2, <2>3, InitInv DEF SourceInv
<1>2. CASE loader = "emmc"
  <2>1. Emmc!Init
    BY <1>2 DEF Init
  <2>2. EmmcSearchInv /\ EmmcSource!Init
    BY <2>1, Assumptions, EmmcSearchInit
  <2>3. Source!Init
    BY <1>2, <2>2 DEF EmmcSource!Init, EmmcSource!Copies, Source!Init, Source!Copies, IsNand
  <2> QED
    BY <1>2, <2>2, <2>3, InitInv DEF SourceInv
<1> QED BY <1>1, <1>2, Assumptions DEF Init, AllLoaders

LEMMA SourceNext ==
    ASSUME EmmcOrdered, NandOrdered, SourceInv, [Next]_vars
    PROVE  SourceInv' /\ [Source!Next]_<<IntactCopies, Must, Outcome>>
<1>1. Inv' /\ loader' = loader /\ IsNand' = IsNand
  BY NextInv, Steps DEF SourceInv, IsNand
<1>2. CASE loader = "nand"
  <2>1. NandInv /\ NandOrderedInv /\ NandSeekInv /\ [Nand!Next]_(Nand!vars)
    BY <1>2, Steps DEF SourceInv, Inv
  <2>2. NandOrderedInv' /\ NandSeekInv'
    BY <2>1, Assumptions, NandOrderedNext, NandSeekNext
  <2>3. [NandSource!Next]_<<Nand!IntactCopies, Nand!Must, Nand!Outcome>>
    BY <2>1, Assumptions, NandSourceStep
  <2>4. IsNand /\ IsNand'
    BY <1>1, <1>2 DEF IsNand
  <2>5. [Source!Next]_<<IntactCopies, Must, Outcome>>
    <3>1. CASE NandSource!Next
      <4>1. CASE NandSource!GiveUp
        BY <2>4, <4>1 DEF NandSource!GiveUp, Source!Next, Source!GiveUp, IntactCopies, Must, Outcome
      <4>2. CASE \E k \in NandSource!Copies : NandSource!Use(k)
        <5>1. PICK k \in NandSource!Copies : NandSource!Use(k)
          BY <4>2
        <5>2. k \in Source!Copies /\ Source!Use(k)
          BY <2>4, <5>1 DEF NandSource!Copies, NandSource!Use, Source!Copies, Source!Use
        <5> QED
          BY <5>2 DEF Source!Next
      <4> QED
        BY <3>1, <4>1, <4>2 DEF NandSource!Next
    <3>2. CASE UNCHANGED <<Nand!IntactCopies, Nand!Must, Nand!Outcome>>
      BY <2>4, <3>2 DEF IntactCopies, Must, Outcome
    <3> QED
      BY <2>3, <3>1, <3>2
  <2> QED
    BY <1>1, <1>2, <2>2, <2>5 DEF SourceInv
<1>3. CASE loader = "emmc"
  <2>1. EmmcInv /\ EmmcSearchInv /\ [Emmc!Next]_(Emmc!vars)
    BY <1>3, Steps DEF SourceInv, Inv
  <2>2. EmmcSearchInv'
    BY <2>1, Assumptions, EmmcSearchNext
  <2>3. [EmmcSource!Next]_<<Emmc!IntactCopies, Emmc!Must, Emmc!Outcome>>
    BY <2>1, Assumptions, EmmcSearchStep
  <2>4. ~IsNand /\ ~IsNand'
    BY <1>1, <1>3 DEF IsNand
  <2>5. [Source!Next]_<<IntactCopies, Must, Outcome>>
    <3>1. CASE EmmcSource!Next
      <4>1. CASE EmmcSource!GiveUp
        BY <2>4, <4>1 DEF EmmcSource!GiveUp, Source!Next, Source!GiveUp, IntactCopies, Must, Outcome
      <4>2. CASE \E k \in EmmcSource!Copies : EmmcSource!Use(k)
        <5>1. PICK k \in EmmcSource!Copies : EmmcSource!Use(k)
          BY <4>2
        <5>2. k \in Source!Copies /\ Source!Use(k)
          BY <2>4, <5>1 DEF EmmcSource!Copies, EmmcSource!Use, Source!Copies, Source!Use
        <5> QED
          BY <5>2 DEF Source!Next
      <4> QED
        BY <3>1, <4>1, <4>2 DEF EmmcSource!Next
    <3>2. CASE UNCHANGED <<Emmc!IntactCopies, Emmc!Must, Emmc!Outcome>>
      BY <2>4, <3>2 DEF IntactCopies, Must, Outcome
    <3> QED
      BY <2>3, <3>1, <3>2
  <2> QED
    BY <1>1, <1>3, <2>2, <2>5 DEF SourceInv
<1> QED BY <1>2, <1>3, Assumptions DEF SourceInv, Inv, AllLoaders

(* Every step of the loader that runs is one a u-boot source may take: what *)
(* it takes is undamaged, a copy that has to be found is not given up, and  *)
(* the update is taken where it has to be found.  That it ends is checked.  *)
THEOREM SourceKept ==
    ASSUME EmmcOrdered, NandOrdered
    PROVE  Spec => Source!Init /\ [][Source!Next]_<<IntactCopies, Must, Outcome>>
<1>1. Init => SourceInv /\ Source!Init
  BY SourceInit
<1>2. SourceInv /\ [Next]_vars => SourceInv' /\ [Source!Next]_<<IntactCopies, Must, Outcome>>
  BY SourceNext
<1> QED BY <1>1, <1>2, PTL DEF Spec
=============================================================================
