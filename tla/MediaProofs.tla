--------------------------- MODULE MediaProofs ---------------------------
(***************************************************************************)
(* Proofs about the drivers of Media, for every value of their constants.   *)
(* Each driver has its invariant, and its steps are those of Media or leave *)
(* its variables alone.                                                     *)
(***************************************************************************)
EXTENDS Media, Sequences, TLAPS

-----------------------------------------------------------------------------
(* SpiNand                                                                  *)
SpiHeld == SpiPages \cup {Spi!None}
SpiJobSet == [row : SpiPages, slot : Slots, part : {"data", "parity", "page"}]
SpiLost == -1
SpiBefore == {"reset", "id", "get", "set", "geometry", "no nand"}
SpiBusy == {"data", "data wait", "parity", "parity wait", "page wait", "decode"}

SpiTypeInv ==
    /\ spiMode \in Spi!AllModes /\ spiPc \in SpiBefore \cup SpiBusy \cup {"idle", "over"}
    /\ spiRow \in SpiHeld /\ spiSlot \in Slots /\ spiClean \in BOOLEAN
    /\ spiB0 \in {"default", "set", "garbage"} /\ spiValue \in {"default", "garbage"}

SpiMemInv ==
    /\ spiJobs \in Seq(SpiJobSet) /\ spiCache \in SpiHeld
    /\ spiMem \in [Slots -> [data : SpiHeld, parity : SpiHeld]]

(* Nothing was asked of the controller before the first page.               *)
SpiRowInv ==
    /\ spiPc \in SpiBefore => spiRow = Spi!None
    /\ spiPc \in SpiBusy => spiRow # Spi!None /\ spiResult = "none"
    /\ spiRow = Spi!None => spiJobs = <<>> /\ spiResult = "none"
    /\ spiRow # Spi!None /\ spiPc \notin SpiBusy => spiResult \in {"ok", "fail"}
    /\ spiPc \in {"data wait", "parity", "parity wait"} => spiMode # "autobch"
    /\ spiPc = "page wait" => spiMode = "autobch"
    /\ spiRet \in {0, SpiLost} /\ (spiPc \in {"data", "data wait", "page wait"} => spiRet = 0)

(* The transfer of a part of the page is under way, or is over.             *)
SpiPending(part) == spiJobs = <<[row |-> spiRow, slot |-> spiSlot, part |-> part]>> /\ spiDone = FALSE
SpiArrived(part) ==
    /\ spiJobs = <<>>
    /\ spiMode = "pio" => spiCache = spiRow
    /\ spiMode # "pio" /\ part \in {"data", "page"} => spiMem[spiSlot].data = spiRow
    /\ spiMode # "pio" /\ part \in {"parity", "page"} => spiMem[spiSlot].parity = spiRow

SpiTracked == spiClean /\ spiB0 # "garbage" /\ spiRow # Spi!None

(* As long as no wait was over:                                             *)
SpiTrackInv ==
    /\ SpiTracked /\ spiRet = 0 =>
         /\ spiPc = "data" => spiJobs = <<>>
         /\ spiPc = "data wait" => SpiPending("data") \/ SpiArrived("data")
         /\ spiPc = "parity" => spiJobs = <<>> /\ spiMem[spiSlot].data = spiRow
         /\ spiPc = "parity wait" => spiMem[spiSlot].data = spiRow /\ (SpiPending("parity") \/ SpiArrived("parity"))
         /\ spiPc = "page wait" => SpiPending("page") \/ SpiArrived("page")
         /\ spiPc = "decode" => spiJobs = <<>> /\ spiMem[spiSlot].data = spiRow /\ spiMem[spiSlot].parity = spiRow
    /\ SpiTracked /\ spiResult = "ok" =>
           spiJobs = <<>> /\ spiMem[spiSlot].data = spiRow /\ spiMem[spiSlot].parity = spiRow /\ spiRow \notin SpiWeak

SpiInv == SpiTypeInv /\ SpiMemInv /\ SpiRowInv /\ SpiTrackInv

(* The driver as a block device.                                            *)
SpiDevPhase ==
    IF spiRow # Spi!None /\ spiPc \notin {"idle", "over"} THEN "reading"
    ELSE CASE spiResult = "none" -> "idle" [] spiResult = "ok" -> "good" [] spiResult = "fail" -> "failed"
SpiDevFound == LET m == spiMem[spiSlot] IN IF m.data = m.parity /\ m.data \notin SpiWeak THEN m.data ELSE Spi!None
SpiDevSure == SpiDevPhase = "idle" \/ (spiClean /\ spiB0 # "garbage")

SpiDevMoves ==
    \/ UNCHANGED <<SpiDevPhase, spiRow, SpiDevFound, SpiDevSure>>
    \/ /\ SpiDevFound' \in SpiHeld
       /\ \/ SpiDevPhase \in {"idle", "good", "failed"} /\ SpiDevPhase' = "reading" /\ spiRow' \in SpiPages
          \/ /\ SpiDevPhase = "reading" /\ SpiDevPhase' \in {"reading", "good", "failed"} /\ spiRow' = spiRow
             /\ SpiDevPhase' = "good" /\ SpiDevSure' => SpiDevFound' = spiRow'
          \/ SpiDevPhase = "idle" /\ SpiDevPhase' = "failed" /\ spiRow' = spiRow
          \/ /\ SpiDevPhase = "failed" \/ (SpiDevPhase = "good" /\ ~SpiDevSure)
             /\ SpiDevPhase' = SpiDevPhase /\ spiRow' = spiRow /\ SpiDevSure' = SpiDevSure

-----------------------------------------------------------------------------
LEMMA SpiConstants ==
    ASSUME Spi!SpiNandAssumption
    PROVE  Spi!None \notin SpiPages /\ Spi!None \notin SpiWeak /\ SpiWeak \subseteq SpiPages
  BY DEF Spi!SpiNandAssumption

LEMMA SpiLostIsNotGood ==
    SpiLost # 0
  BY DEF SpiLost

LEMMA SpiInitInv ==
    ASSUME Spi!SpiNandAssumption, Spi!Init
    PROVE  SpiInv
<1>1. SpiTypeInv /\ SpiRowInv /\ SpiTrackInv
  BY DEF Spi!Init, SpiTypeInv, SpiRowInv, SpiTrackInv, SpiTracked, SpiHeld, SpiBefore, SpiBusy,
     Spi!SpiNandAssumption
<1>2. SpiMemInv
  BY DEF Spi!Init, SpiMemInv, SpiHeld
<1> QED BY <1>1, <1>2 DEF SpiInv

LEMMA SpiTrackedHeld ==
    ASSUME spiClean' = spiClean, spiB0' = spiB0, spiRow' = spiRow
    PROVE  SpiTracked' <=> SpiTracked
  BY SMT DEF SpiTracked

(* A step before the first page.                                            *)
LEMMA SpiStartStep ==
    ASSUME Spi!SpiNandAssumption, SpiInv, spiPc \in SpiBefore, spiPc' \in SpiBefore \cup {"idle"},
           UNCHANGED <<spiMode, Spi!request, spiJobs, spiDone, spiCache, spiMem, spiLeft, spiClean>>,
           spiB0' \in {"default", "set", "garbage"}, spiValue' \in {"default", "garbage"}
    PROVE  SpiInv'
<1>1. SpiTypeInv' /\ SpiMemInv' /\ SpiRowInv'
  BY DEF SpiInv, SpiTypeInv, SpiMemInv, SpiRowInv, Spi!request, SpiBefore, SpiBusy
<1>2. SpiTrackInv'
  BY DEF SpiInv, SpiRowInv, SpiTrackInv, SpiTracked, Spi!request, SpiBefore
<1> QED BY <1>1, <1>2 DEF SpiInv

LEMMA SpiCallStep ==
    ASSUME Spi!SpiNandAssumption, SpiInv, Spi!Call
    PROVE  SpiInv'
<1>1. /\ spiRow' \in SpiPages /\ spiSlot' \in Slots /\ spiRet' = 0 /\ spiResult' = "none" /\ spiPc' = "data"
      /\ spiClean' = (spiJobs = <<>>) /\ UNCHANGED <<spiMode, spiValue, spiJobs, spiDone, spiB0, spiCache, spiMem>>
  BY DEF Spi!Call, Spi!flash
<1>2. SpiTypeInv' /\ SpiMemInv'
  BY <1>1 DEF SpiInv, SpiTypeInv, SpiMemInv, SpiHeld, SpiBefore, SpiBusy
<1>3. SpiRowInv' /\ SpiTrackInv'
  BY <1>1, SpiConstants DEF SpiRowInv, SpiTrackInv, SpiTracked, SpiBefore, SpiBusy
<1> QED BY <1>2, <1>3 DEF SpiInv

LEMMA SpiJobTyped ==
    ASSUME SpiInv, spiRow # Spi!None, NEW part \in {"data", "parity", "page"}
    PROVE  [row |-> spiRow, slot |-> spiSlot, part |-> part] \in SpiJobSet
  BY DEF SpiInv, SpiTypeInv, SpiHeld, SpiJobSet

LEMMA SpiTriggerStep ==
    ASSUME Spi!SpiNandAssumption, SpiInv, NEW part \in {"data", "parity", "page"},
           spiPc \in {"data", "parity"}, part \in {spiPc, "page"}, part = "page" <=> spiMode = "autobch",
           Spi!Start(part)
    PROVE  SpiInv'
<1> DEFINE j == [row |-> spiRow, slot |-> spiSlot, part |-> part]
<1>1. spiRow # Spi!None /\ spiResult = "none" /\ (spiPc = "parity" => spiMode # "autobch")
  BY DEF SpiInv, SpiRowInv, SpiBusy
<1>2. j \in SpiJobSet
  BY <1>1, SpiJobTyped
<1>3. /\ spiDone' = FALSE /\ UNCHANGED <<spiMode, spiValue, spiRow, spiSlot, spiRet, spiResult, spiB0, spiCache, spiMem, spiClean>>
      /\ \E old \in {spiJobs, <<>>} : spiJobs' = Append(old, j)
  BY DEF Spi!Start, Spi!request, Spi!flash
<1> HIDE DEF j
<1>4. spiJobs' \in Seq(SpiJobSet) /\ (spiJobs = <<>> => spiJobs' = <<j>>)
  <2>1. PICK old \in {spiJobs, <<>>} : spiJobs' = Append(old, j)
    BY <1>3
  <2>2. spiJobs \in Seq(SpiJobSet) /\ <<>> \in Seq(SpiJobSet)
    BY DEF SpiInv, SpiMemInv
  <2>3. \A s \in Seq(SpiJobSet) : Append(s, j) \in Seq(SpiJobSet)
    BY <1>2
  <2>4. Append(<<>>, j) = <<j>>
    OBVIOUS
  <2>5. old \in Seq(SpiJobSet) /\ (spiJobs = <<>> => old = <<>>)
    BY <2>1, <2>2
  <2>6. spiJobs = <<>> => spiJobs' = Append(<<>>, j)
    BY <2>1, <2>5
  <2> QED BY <2>1, <2>3, <2>4, <2>5, <2>6
<1>5. spiPc' = CASE part = "data" -> "data wait" [] part = "parity" -> "parity wait" [] OTHER -> "page wait"
  BY DEF Spi!Start
<1>6. SpiTypeInv' /\ SpiMemInv'
  BY <1>3, <1>4, <1>5 DEF SpiInv, SpiTypeInv, SpiMemInv, SpiBefore, SpiBusy
<1>7. SpiRowInv'
  <2>1. spiRet \in {0, SpiLost} /\ (spiPc = "data" => spiRet = 0) /\ (part = "page" => spiPc = "data")
    BY <1>1 DEF SpiInv, SpiRowInv
  <2> QED BY <1>1, <1>3, <1>5, <2>1 DEF SpiRowInv, SpiBefore, SpiBusy
<1>8. SpiTrackInv'
  BY <1>1, <1>3, <1>4, <1>5 DEF SpiInv, SpiTrackInv, SpiTracked, SpiPending, j
<1> QED BY <1>6, <1>7, <1>8 DEF SpiInv

(* A part of a page is written to memory.                                   *)
LEMMA SpiSlotWritten ==
    ASSUME NEW m \in [Slots -> [data : SpiHeld, parity : SpiHeld]], NEW s \in Slots, NEW c
    PROVE  /\ [m EXCEPT ![s]["data"] = c][s].data = c
           /\ [m EXCEPT ![s]["parity"] = c][s].parity = c
           /\ [m EXCEPT ![s]["parity"] = c][s].data = m[s].data
<1>1. m[s] \in [data : SpiHeld, parity : SpiHeld]
  OBVIOUS
<1>2. /\ [m[s] EXCEPT !["data"] = c].data = c
      /\ [m[s] EXCEPT !["parity"] = c].parity = c
      /\ [m[s] EXCEPT !["parity"] = c].data = m[s].data
  BY <1>1
<1>3. /\ [m EXCEPT ![s]["data"] = c][s] = [m[s] EXCEPT !["data"] = c]
      /\ [m EXCEPT ![s]["parity"] = c][s] = [m[s] EXCEPT !["parity"] = c]
  OBVIOUS
<1> QED BY <1>2, <1>3

(* A wait that saw the flag: the only transfer of this read has ended.      *)
LEMMA SpiArrivedStep ==
    ASSUME Spi!SpiNandAssumption, SpiInv, spiPc \in {"data wait", "parity wait", "page wait"},
           NEW r \in {0, SpiLost}, Spi!Both(r), Spi!After,
           UNCHANGED <<spiMode, spiFlag, spiValue, spiRow, spiSlot, spiResult, spiJobs, spiDone, Spi!flash, spiLeft, spiClean>>,
           \/ r = 0 /\ spiDone /\ spiMode # "pio" /\ spiMem' = spiMem
           \/ spiDone /\ spiMode = "pio" /\ spiMem' = [spiMem EXCEPT ![spiSlot][Spi!Part] = spiCache]
           \/ r = SpiLost /\ spiMem' = spiMem
    PROVE  SpiInv'
<1>1. /\ spiPc' = (IF spiPc = "data wait" THEN "parity" ELSE "decode")
      /\ UNCHANGED <<spiMode, spiValue, spiRow, spiSlot, spiResult, spiJobs, spiDone, spiB0, spiCache, spiClean>>
      /\ spiRow # Spi!None /\ spiResult = "none"
  BY DEF Spi!After, Spi!flash, SpiInv, SpiRowInv, SpiBusy
<1>0. /\ spiPc' \in {"parity", "decode"} /\ (spiPc' = "parity" => spiPc = "data wait")
      /\ spiRet \in {0, SpiLost} /\ spiRet' \in {0, SpiLost} /\ (spiPc \in {"data wait", "page wait"} => spiRet = 0)
  <2>1. spiPc' \in {"parity", "decode"} /\ (spiPc' = "parity" => spiPc = "data wait")
    BY <1>1
  <2>2. spiRet \in {0, SpiLost} /\ (spiPc \in {"data wait", "page wait"} => spiRet = 0)
    BY DEF SpiInv, SpiRowInv
  <2>3. spiRet' = SpiLost \/ spiRet' = r
    BY DEF Spi!Both, SpiLost
  <2> QED BY <2>1, <2>2, <2>3
<1>2. spiMem' \in [Slots -> [data : SpiHeld, parity : SpiHeld]]
  <2>1. CASE spiMem' = spiMem
    BY <2>1 DEF SpiInv, SpiMemInv
  <2>2. CASE spiMem' = [spiMem EXCEPT ![spiSlot][Spi!Part] = spiCache] /\ spiPc = "data wait"
    <3>1. spiMem' = [spiMem EXCEPT ![spiSlot]["data"] = spiCache]
      BY <2>2 DEF Spi!Part
    <3> QED BY <3>1 DEF SpiInv, SpiMemInv, SpiTypeInv
  <2>3. CASE spiMem' = [spiMem EXCEPT ![spiSlot][Spi!Part] = spiCache] /\ spiPc # "data wait"
    <3>1. spiMem' = [spiMem EXCEPT ![spiSlot]["parity"] = spiCache]
      BY <2>3 DEF Spi!Part
    <3> QED BY <3>1 DEF SpiInv, SpiMemInv, SpiTypeInv
  <2> QED BY <2>1, <2>2, <2>3
<1>3. SpiTypeInv' /\ SpiMemInv'
  <2>1. SpiTypeInv'
    BY <1>0, <1>1 DEF SpiInv, SpiTypeInv, SpiBusy
  <2>2. SpiMemInv'
    BY <1>1, <1>2 DEF SpiInv, SpiMemInv
  <2> QED BY <2>1, <2>2
<1>4. SpiRowInv'
  BY <1>0, <1>1 DEF SpiInv, SpiRowInv, SpiBefore, SpiBusy
<1>5. spiRet' = 0 => r = 0 /\ (spiPc = "parity wait" => spiRet # SpiLost)
  <2>1. CASE spiPc = "parity wait" /\ spiRet = SpiLost
    BY <2>1, SpiLostIsNotGood DEF Spi!Both, SpiLost
  <2>2. CASE ~(spiPc = "parity wait" /\ spiRet = SpiLost)
    BY <2>2, SpiLostIsNotGood DEF Spi!Both, SpiLost
  <2> QED BY <2>1, <2>2
<1>6. ASSUME SpiTracked, spiRet' = 0
      PROVE  /\ spiJobs = <<>>
             /\ spiPc \in {"data wait", "page wait"} => spiMem'[spiSlot].data = spiRow
             /\ spiPc \in {"parity wait", "page wait"} => spiMem'[spiSlot].parity = spiRow
             /\ spiPc = "parity wait" => spiMem'[spiSlot].data = spiRow
  <2>1. r = 0 /\ r # SpiLost /\ spiDone
    <3>1. r = 0
      BY <1>5, <1>6
    <3>2. r # SpiLost
      BY <3>1, SpiLostIsNotGood
    <3> QED BY <3>1, <3>2
  <2>2. spiRet = 0 /\ spiMode \in Spi!AllModes /\ spiSlot \in Slots
    <3>1. spiRet = 0
      BY <1>0, <1>5, <1>6
    <3>2. spiMode \in Spi!AllModes /\ spiSlot \in Slots
      BY DEF SpiInv, SpiTypeInv
    <3> QED BY <3>1, <3>2
  <2>3. CASE spiPc = "data wait"
    <3>1. SpiArrived("data")
      BY <1>6, <2>1, <2>2, <2>3 DEF SpiInv, SpiTrackInv, SpiPending
    <3>2. CASE spiMode # "pio"
      BY <2>1, <2>3, <3>1, <3>2 DEF SpiArrived
    <3>3. CASE spiMode = "pio"
      <4>1. spiMem' = [spiMem EXCEPT ![spiSlot]["data"] = spiCache] /\ spiCache = spiRow /\ spiJobs = <<>>
        <5>1. spiCache = spiRow /\ spiJobs = <<>>
          BY <3>1, <3>3 DEF SpiArrived
        <5>2. spiMem' = [spiMem EXCEPT ![spiSlot][Spi!Part] = spiCache]
          BY <2>1, <3>3
        <5>3. Spi!Part = "data"
          BY <2>3 DEF Spi!Part
        <5> QED BY <5>1, <5>2, <5>3
      <4>2. spiMem'[spiSlot].data = spiRow
        <5>1. spiMem \in [Slots -> [data : SpiHeld, parity : SpiHeld]] /\ spiSlot \in Slots
          BY <2>2 DEF SpiInv, SpiMemInv
        <5>2. spiMem'[spiSlot].data = spiCache
          <6>1. [spiMem EXCEPT ![spiSlot]["data"] = spiCache][spiSlot].data = spiCache
            BY <5>1, SpiSlotWritten
          <6> QED BY <4>1, <6>1
        <5> QED BY <4>1, <5>2
      <4> QED BY <2>3, <4>1, <4>2
    <3> QED BY <3>2, <3>3
  <2>4. CASE spiPc = "parity wait"
    <3>1. SpiArrived("parity") /\ spiMem[spiSlot].data = spiRow
      BY <1>6, <2>1, <2>2, <2>4 DEF SpiInv, SpiTrackInv, SpiPending
    <3>2. CASE spiMode # "pio"
      BY <2>1, <2>4, <3>1, <3>2 DEF SpiArrived
    <3>3. CASE spiMode = "pio"
      <4>1. spiMem' = [spiMem EXCEPT ![spiSlot]["parity"] = spiCache] /\ spiCache = spiRow /\ spiJobs = <<>>
        <5>1. spiCache = spiRow /\ spiJobs = <<>>
          BY <3>1, <3>3 DEF SpiArrived
        <5>2. spiMem' = [spiMem EXCEPT ![spiSlot][Spi!Part] = spiCache]
          BY <2>1, <3>3
        <5>3. Spi!Part = "parity"
          BY <2>4 DEF Spi!Part
        <5> QED BY <5>1, <5>2, <5>3
      <4>2. spiMem'[spiSlot].parity = spiRow /\ spiMem'[spiSlot].data = spiRow
        <5>1. spiMem \in [Slots -> [data : SpiHeld, parity : SpiHeld]] /\ spiSlot \in Slots
          BY <2>2 DEF SpiInv, SpiMemInv
        <5>2. spiMem'[spiSlot].parity = spiCache /\ spiMem'[spiSlot].data = spiMem[spiSlot].data
          <6>1. /\ [spiMem EXCEPT ![spiSlot]["parity"] = spiCache][spiSlot].parity = spiCache
                /\ [spiMem EXCEPT ![spiSlot]["parity"] = spiCache][spiSlot].data = spiMem[spiSlot].data
            BY <5>1, SpiSlotWritten
          <6> QED BY <4>1, <6>1
        <5> QED BY <3>1, <4>1, <5>2
      <4> QED BY <2>4, <4>1, <4>2
    <3> QED BY <3>2, <3>3
  <2>5. CASE spiPc = "page wait"
    <3>1. SpiArrived("page") /\ spiMode # "pio"
      BY <1>6, <2>1, <2>2, <2>5 DEF SpiInv, SpiTrackInv, SpiRowInv, SpiPending
    <3> QED BY <2>1, <2>5, <3>1 DEF SpiArrived
  <2> QED BY <2>3, <2>4, <2>5
<1>7. SpiTrackInv'
  <2>1. SpiTracked' <=> SpiTracked
    <3>1. spiClean' = spiClean /\ spiB0' = spiB0 /\ spiRow' = spiRow
      BY <1>1
    <3> QED BY <3>1, SpiTrackedHeld
  <2>2. ASSUME SpiTracked, spiRet' = 0
        PROVE  /\ (spiPc = "data wait" => spiPc' = "parity" /\ spiJobs' = <<>> /\ spiMem'[spiSlot'].data = spiRow')
               /\ (spiPc # "data wait" => /\ spiPc' = "decode" /\ spiJobs' = <<>>
                                      /\ spiMem'[spiSlot'].data = spiRow' /\ spiMem'[spiSlot'].parity = spiRow')
    <3>1. /\ spiJobs = <<>>
          /\ spiPc \in {"data wait", "page wait"} => spiMem'[spiSlot].data = spiRow
          /\ spiPc \in {"parity wait", "page wait"} => spiMem'[spiSlot].parity = spiRow
          /\ spiPc = "parity wait" => spiMem'[spiSlot].data = spiRow
      BY <1>6, <2>2
    <3>2. spiJobs' = spiJobs /\ spiSlot' = spiSlot /\ spiRow' = spiRow
      BY <1>1
    <3>3. spiPc = "data wait" => spiPc' = "parity"
      BY <1>1
    <3>4. spiPc # "data wait" => spiPc' = "decode"
      BY <1>1
    <3> QED BY <3>1, <3>2, <3>3, <3>4
  <2>3. spiResult' = "none"
    BY <1>1
  <2>4. ASSUME SpiTracked, spiRet' = 0, spiPc = "data wait" PROVE SpiTrackInv'
    BY <2>2, <2>3, <2>4 DEF SpiTrackInv
  <2>5. ASSUME SpiTracked, spiRet' = 0, spiPc # "data wait" PROVE SpiTrackInv'
    BY <2>2, <2>3, <2>5 DEF SpiTrackInv
  <2>6. ASSUME ~(SpiTracked /\ spiRet' = 0) PROVE SpiTrackInv'
    BY <2>1, <2>3, <2>6 DEF SpiTrackInv
  <2> QED BY <2>4, <2>5, <2>6
<1> QED BY <1>3, <1>4, <1>7 DEF SpiInv

LEMMA SpiGaveUpStep ==
    ASSUME Spi!SpiNandAssumption, SpiInv, Spi!GaveUp
    PROVE  SpiInv'
<1>1. /\ spiPc \in {"data wait", "parity wait", "page wait"}
      /\ spiPc' = (IF spiPc = "data wait" THEN "parity" ELSE "decode")
      /\ UNCHANGED <<spiMode, spiValue, spiRow, spiSlot, spiResult, spiJobs, spiDone, spiB0, spiCache, spiMem, spiClean>>
      /\ spiRet' = SpiLost
  BY DEF Spi!GaveUp, Spi!Waiting, Spi!After, Spi!Both, Spi!GaveUpResult, Spi!flash, SpiLost
<1>0. spiPc' \in {"parity", "decode"} /\ (spiPc' = "parity" => spiPc = "data wait")
  BY <1>1
<1>2. SpiTypeInv' /\ SpiMemInv' /\ SpiRowInv'
  BY <1>0, <1>1 DEF SpiInv, SpiTypeInv, SpiMemInv, SpiRowInv, SpiBefore, SpiBusy
<1>3. SpiTrackInv'
  BY <1>1, SpiLostIsNotGood DEF SpiInv, SpiRowInv, SpiTrackInv, SpiTracked, SpiBusy
<1> QED BY <1>2, <1>3 DEF SpiInv

LEMMA SpiVerdictStep ==
    ASSUME Spi!SpiNandAssumption, SpiInv, spiPc = "decode", spiPc' = "idle", Spi!Verdict, UNCHANGED Spi!Kept
    PROVE  SpiInv'
<1>1. /\ UNCHANGED <<spiMode, spiValue, spiRow, spiSlot, spiRet, spiJobs, spiDone, spiB0, spiCache, spiMem, spiClean>>
      /\ spiRow # Spi!None /\ spiResult' \in {"ok", "fail"}
      /\ spiResult' = "ok" => spiRet = 0 /\ spiMem[spiSlot].data \notin SpiWeak
  BY DEF Spi!Verdict, Spi!Kept, Spi!flash, Spi!Decodes, SpiInv, SpiRowInv, SpiBusy
<1>2. SpiTypeInv' /\ SpiMemInv' /\ SpiRowInv'
  BY <1>1 DEF SpiInv, SpiTypeInv, SpiMemInv, SpiRowInv, SpiBefore, SpiBusy
<1>3. SpiTrackInv'
  BY <1>1 DEF SpiInv, SpiTrackInv, SpiTracked
<1> QED BY <1>2, <1>3 DEF SpiInv

(* The controller ends a transfer.                                          *)
LEMMA SpiTransferStep ==
    ASSUME Spi!SpiNandAssumption, SpiInv, Spi!Transfer
    PROVE  SpiInv'
<1> DEFINE j == Head(spiJobs)
<1>1. /\ spiJobs # <<>> /\ spiJobs' = Tail(spiJobs) /\ spiDone' = TRUE
      /\ UNCHANGED <<spiMode, spiPc, spiValue, spiRow, spiSlot, spiRet, spiResult, spiB0, spiClean>>
  BY DEF Spi!Transfer, Spi!request
<1>2. j \in SpiJobSet /\ spiJobs' \in Seq(SpiJobSet)
  BY <1>1 DEF SpiInv, SpiMemInv
<1>3. PICK p \in Spi!Delivered(j) :
         \/ spiMode = "dma" /\ spiMem' = [spiMem EXCEPT ![j.slot][j.part] = p] /\ spiCache' = spiCache
         \/ spiMode = "autobch" /\ spiMem' = [spiMem EXCEPT ![j.slot] = [data |-> p, parity |-> p]] /\ spiCache' = spiCache
         \/ spiMode = "pio" /\ spiCache' = p /\ spiMem' = spiMem
  BY DEF Spi!Transfer, SpiInv, SpiTypeInv, Spi!AllModes
<1>4. j.row \in SpiPages /\ j.slot \in Slots /\ j.part \in {"data", "parity", "page"}
  BY <1>2 DEF SpiJobSet
<1>5. p \in SpiHeld /\ (spiB0 # "garbage" => p = j.row)
  BY <1>3, <1>4 DEF Spi!Delivered, SpiHeld
<1> HIDE DEF j
<1>6. SpiMemInv'
  <2>1. spiMem' \in [Slots -> [data : SpiHeld, parity : SpiHeld]]
    <3>1. CASE spiMode = "dma" /\ j.part = "data"
      <4>1. spiMem' = [spiMem EXCEPT ![j.slot]["data"] = p]
        BY <1>3, <3>1
      <4> QED BY <1>4, <1>5, <4>1 DEF SpiInv, SpiMemInv
    <3>2. CASE spiMode = "dma" /\ j.part = "parity"
      <4>1. spiMem' = [spiMem EXCEPT ![j.slot]["parity"] = p]
        BY <1>3, <3>2
      <4> QED BY <1>4, <1>5, <4>1 DEF SpiInv, SpiMemInv
    <3>3. CASE spiMode = "dma" /\ j.part = "page"
      <4>1. spiMem' = [spiMem EXCEPT ![j.slot]["page"] = p]
        BY <1>3, <3>3
      <4> QED BY <1>4, <1>5, <4>1 DEF SpiInv, SpiMemInv
    <3>4. CASE spiMode = "autobch"
      BY <1>3, <1>4, <1>5, <3>4 DEF SpiInv, SpiMemInv
    <3>5. CASE spiMode = "pio"
      BY <1>3, <3>5 DEF SpiInv, SpiMemInv
    <3> QED BY <1>3, <1>4, <3>1, <3>2, <3>3, <3>4, <3>5
  <2>2. spiCache' \in SpiHeld
    BY <1>3, <1>5 DEF SpiInv, SpiMemInv
  <2> QED BY <1>2, <2>1, <2>2 DEF SpiMemInv
<1>7. SpiTypeInv' /\ SpiRowInv'
  BY <1>1 DEF SpiInv, SpiTypeInv, SpiRowInv
<1>8. ASSUME SpiTracked, NEW part \in {"data", "parity", "page"}, SpiPending(part) \/ SpiArrived(part),
             part = "page" <=> spiMode = "autobch"
      PROVE  /\ SpiArrived(part)' /\ (part = "parity" => spiMem'[spiSlot].data = spiMem[spiSlot].data)
  <2>1. SpiPending(part)
    BY <1>1, <1>8 DEF SpiArrived
  <2>2. j = [row |-> spiRow, slot |-> spiSlot, part |-> part] /\ spiJobs' = <<>>
    BY <1>1, <2>1 DEF SpiPending, j
  <2>3. p = spiRow /\ j.slot = spiSlot /\ j.part = part /\ spiSlot \in Slots
    BY <1>5, <1>8, <2>2 DEF SpiTracked, SpiInv, SpiTypeInv
  <2>4. CASE spiMode = "dma" /\ part = "data"
    <3>1. spiMem' = [spiMem EXCEPT ![spiSlot]["data"] = spiRow]
      BY <1>3, <2>3, <2>4
    <3>2. spiMem'[spiSlot].data = spiRow
      BY <2>3, <3>1 DEF SpiInv, SpiMemInv
    <3> QED BY <1>1, <2>2, <2>4, <3>2 DEF SpiArrived
  <2>5. CASE spiMode = "dma" /\ part = "parity"
    <3>1. spiMem' = [spiMem EXCEPT ![spiSlot]["parity"] = spiRow]
      BY <1>3, <2>3, <2>5
    <3>2. spiMem'[spiSlot].parity = spiRow /\ spiMem'[spiSlot].data = spiMem[spiSlot].data
      BY <2>3, <3>1 DEF SpiInv, SpiMemInv
    <3> QED BY <1>1, <2>2, <2>5, <3>2 DEF SpiArrived
  <2>6. CASE spiMode = "autobch"
    <3>1. spiMem'[spiSlot].data = spiRow /\ spiMem'[spiSlot].parity = spiRow
      BY <1>3, <2>3, <2>6 DEF SpiInv, SpiMemInv
    <3> QED BY <1>1, <1>8, <2>2, <2>6, <3>1 DEF SpiArrived
  <2>7. CASE spiMode = "pio"
    BY <1>1, <1>3, <2>2, <2>3, <2>7 DEF SpiArrived
  <2> QED BY <1>3, <1>8, <2>4, <2>5, <2>6, <2>7
<1>9. SpiTrackInv'
  <2>1. ASSUME SpiTracked, spiRet = 0, spiPc = "data wait" PROVE SpiArrived("data")'
    BY <1>8, <2>1 DEF SpiInv, SpiTrackInv, SpiRowInv
  <2>2. ASSUME SpiTracked, spiRet = 0, spiPc = "parity wait" PROVE SpiArrived("parity")' /\ spiMem'[spiSlot].data = spiRow
    BY <1>8, <2>2 DEF SpiInv, SpiTrackInv, SpiRowInv
  <2>3. ASSUME SpiTracked, spiRet = 0, spiPc = "page wait" PROVE SpiArrived("page")'
    BY <1>8, <2>3 DEF SpiInv, SpiTrackInv, SpiRowInv
  <2>4. SpiTracked' = SpiTracked /\ spiJobs # <<>>
    BY <1>1 DEF SpiTracked
  <2> QED BY <1>1, <2>1, <2>2, <2>3, <2>4 DEF SpiInv, SpiTrackInv
<1> QED BY <1>6, <1>7, <1>9 DEF SpiInv

LEMMA SpiNextInv ==
    ASSUME Spi!SpiNandAssumption, SpiInv, [Spi!Next]_(Spi!vars)
    PROVE  SpiInv'
<1>1. ASSUME Spi!Reset \/ Spi!ReadId \/ Spi!GetFeatures \/ Spi!SetFeatures \/ Spi!InitNand PROVE SpiInv'
  <2>1. spiPc \in SpiBefore /\ spiPc' \in SpiBefore \cup {"idle"}
    BY <1>1 DEF Spi!Reset, Spi!ReadId, Spi!GetFeatures, Spi!SetFeatures, Spi!InitNand, Spi!Fail,
       SpiBefore
  <2>2. UNCHANGED <<spiMode, Spi!request, spiJobs, spiDone, spiCache, spiMem, spiLeft, spiClean>>
    BY <1>1 DEF Spi!Reset, Spi!ReadId, Spi!GetFeatures, Spi!SetFeatures, Spi!InitNand, Spi!Fail,
       Spi!Started, Spi!flash
  <2>3. spiB0' \in {"default", "set", "garbage"} /\ spiValue' \in {"default", "garbage"}
    BY <1>1 DEF Spi!Reset, Spi!ReadId, Spi!GetFeatures, Spi!SetFeatures, Spi!InitNand, Spi!Fail,
       Spi!Started, Spi!flash, Spi!Configured, SpiInv, SpiTypeInv
  <2> QED BY <2>1, <2>2, <2>3, SpiStartStep
<1>2. ASSUME Spi!Call PROVE SpiInv'
  BY <1>2, SpiCallStep
<1>3. ASSUME Spi!TriggerDma \/ Spi!TriggerPio \/ Spi!TriggerPage PROVE SpiInv'
  <2>1. CASE Spi!TriggerDma \/ Spi!TriggerPio
    <3>1. spiPc \in {"data", "parity"} /\ spiMode # "autobch" /\ Spi!Start(spiPc)
      BY <2>1 DEF Spi!TriggerDma, Spi!TriggerPio
    <3> QED BY <3>1, SpiTriggerStep
  <2>2. CASE Spi!TriggerPage
    <3>1. spiPc = "data" /\ spiMode = "autobch" /\ Spi!Start("page")
      BY <2>2 DEF Spi!TriggerPage, Spi!BCHConfig
    <3> QED BY <3>1, SpiTriggerStep
  <2> QED BY <1>3, <2>1, <2>2
<1>4. ASSUME Spi!ArrivedByDma PROVE SpiInv'
  <2>1. /\ spiPc \in {"data wait", "parity wait", "page wait"} /\ spiDone /\ spiMode # "pio" /\ Spi!After /\ Spi!Both(0)
        /\ UNCHANGED <<spiMode, spiFlag, spiValue, spiRow, spiSlot, spiResult, spiJobs, spiDone, Spi!flash, spiLeft, spiClean>> /\ spiMem' = spiMem
    BY <1>4 DEF Spi!ArrivedByDma, Spi!Waiting
  <2> QED BY <2>1, SpiArrivedStep
<1>5. ASSUME Spi!ArrivedByPio PROVE SpiInv'
  <2>1. /\ spiPc \in {"data wait", "parity wait", "page wait"} /\ spiDone /\ spiMode = "pio" /\ Spi!After
        /\ UNCHANGED <<spiMode, spiFlag, spiValue, spiRow, spiSlot, spiResult, spiJobs, spiDone, Spi!flash, spiLeft, spiClean>>
        /\ spiMem' = [spiMem EXCEPT ![spiSlot][Spi!Part] = spiCache]
    BY <1>5 DEF Spi!ArrivedByPio, Spi!Waiting
  <2>2. PICK r \in {0, SpiLost} : Spi!Both(r)
    BY <1>5 DEF Spi!ArrivedByPio, Spi!wait_spi_idle, SpiLost
  <2> QED BY <2>1, <2>2, SpiArrivedStep
<1>6. ASSUME Spi!GaveUp PROVE SpiInv'
  BY <1>6, SpiGaveUpStep
<1>7. ASSUME Spi!BCHProcess \/ Spi!BCHCheckStatus PROVE SpiInv'
  BY <1>7, SpiVerdictStep DEF Spi!BCHProcess, Spi!BCHCheckStatus
<1>8. ASSUME Spi!Transfer PROVE SpiInv'
  BY <1>8, SpiTransferStep
<1>9. ASSUME Spi!Finish PROVE SpiInv'
  <2>1. spiPc = "idle" /\ spiPc' = "over" /\ UNCHANGED <<spiMode, spiValue, spiRow, spiSlot, spiRet, spiResult, spiJobs, spiDone, spiB0, spiCache, spiMem, spiClean>>
    BY <1>9 DEF Spi!Finish, Spi!Started, Spi!request, Spi!flash
  <2> QED BY <2>1 DEF SpiInv, SpiTypeInv, SpiMemInv, SpiRowInv, SpiTrackInv, SpiTracked,
     SpiBefore, SpiBusy
<1>10. ASSUME Spi!Stop \/ UNCHANGED Spi!vars PROVE SpiInv'
  <2>1. UNCHANGED <<spiMode, spiPc, spiValue, spiRow, spiSlot, spiRet, spiResult, spiJobs, spiDone, spiB0, spiCache, spiMem, spiClean>>
    BY <1>10 DEF Spi!Stop, Spi!vars, Spi!request, Spi!flash
  <2>2. SpiTypeInv' /\ SpiMemInv'
    BY <2>1 DEF SpiInv, SpiTypeInv, SpiMemInv
  <2>3. SpiRowInv'
    BY <2>1 DEF SpiInv, SpiRowInv
  <2>4. SpiTrackInv'
    BY <2>1 DEF SpiInv, SpiTrackInv, SpiTracked, SpiPending, SpiArrived
  <2> QED BY <2>2, <2>3, <2>4 DEF SpiInv
<1> QED BY <1>1, <1>2, <1>3, <1>4, <1>5, <1>6, <1>7, <1>8, <1>9, <1>10 DEF Spi!Next, Spi!Driver

-----------------------------------------------------------------------------
(* A block device                                                           *)

LEMMA SpiFoundHeld ==
    ASSUME SpiInv
    PROVE  SpiDevFound \in SpiHeld
<1>1. spiMem[spiSlot].data \in SpiHeld
  BY DEF SpiInv, SpiTypeInv, SpiMemInv
<1> QED BY <1>1 DEF SpiDevFound, SpiHeld

LEMMA SpiFoundHeldNext ==
    ASSUME SpiInv'
    PROVE  SpiDevFound' \in SpiHeld
<1>1. spiMem'[spiSlot'].data \in SpiHeld
  BY DEF SpiInv, SpiTypeInv, SpiMemInv
<1> QED BY <1>1 DEF SpiDevFound, SpiHeld

LEMMA SpiDevStep ==
    ASSUME Spi!SpiNandAssumption, SpiInv, SpiInv', [Spi!Next]_(Spi!vars)
    PROVE  SpiDevMoves
<1> USE DEF SpiInv
<1>1. ASSUME Spi!Reset \/ Spi!ReadId \/ Spi!GetFeatures \/ Spi!SetFeatures \/ Spi!InitNand PROVE SpiDevMoves
  <2>1. spiRow = Spi!None /\ spiResult = "none" /\ UNCHANGED <<spiRow, spiSlot, spiResult, spiMem>>
    BY <1>1 DEF Spi!Reset, Spi!ReadId, Spi!GetFeatures, Spi!SetFeatures, Spi!InitNand, Spi!Fail,
       Spi!Started, SpiRowInv, SpiBefore, Spi!request
  <2>2. SpiDevPhase = "idle" /\ SpiDevPhase' = "idle"
    BY <2>1 DEF SpiDevPhase
  <2>3. SpiDevFound' = SpiDevFound
    BY <2>1 DEF SpiDevFound
  <2>4. SpiDevSure = TRUE /\ SpiDevSure' = TRUE
    BY <2>2 DEF SpiDevSure
  <2> QED BY <2>1, <2>2, <2>3, <2>4 DEF SpiDevMoves
<1>2. ASSUME Spi!Call PROVE SpiDevMoves
  <2>1. spiPc = "idle" /\ spiPc' = "data" /\ spiRow' \in SpiPages /\ spiRow' # Spi!None
    BY <1>2, SpiConstants DEF Spi!Call
  <2>2. SpiDevPhase \in {"idle", "good", "failed"}
    BY <2>1 DEF SpiDevPhase, SpiRowInv, SpiBusy
  <2>3. SpiDevPhase' = "reading"
    BY <2>1 DEF SpiDevPhase
  <2> QED BY <2>1, <2>2, <2>3, SpiFoundHeldNext DEF SpiDevMoves
<1>3. ASSUME spiPc \in SpiBusy, spiPc' \in SpiBusy, spiRow' = spiRow PROVE SpiDevMoves
  <2>1. spiRow # Spi!None
    BY <1>3 DEF SpiRowInv
  <2>2. SpiDevPhase = "reading" /\ SpiDevPhase' = "reading"
    BY <1>3, <2>1 DEF SpiDevPhase, SpiBusy
  <2> QED BY <1>3, <2>2, SpiFoundHeldNext DEF SpiDevMoves
<1>4. ASSUME Spi!TriggerDma \/ Spi!TriggerPio \/ Spi!TriggerPage PROVE SpiDevMoves
  <2>1. spiPc \in {"data", "parity"} /\ \E part : Spi!Start(part)
    BY <1>4 DEF Spi!TriggerDma, Spi!TriggerPio, Spi!TriggerPage
  <2>2. spiPc' \in {"data wait", "parity wait", "page wait"} /\ spiRow' = spiRow
    BY <2>1 DEF Spi!Start, Spi!request
  <2> QED BY <1>3, <2>1, <2>2 DEF SpiBusy
<1>5. ASSUME Spi!ArrivedByDma \/ Spi!ArrivedByPio \/ Spi!GaveUp PROVE SpiDevMoves
  <2>1. spiPc \in {"data wait", "parity wait", "page wait"} /\ spiPc' \in {"parity", "decode"} /\ spiRow' = spiRow
    BY <1>5 DEF Spi!ArrivedByDma, Spi!ArrivedByPio, Spi!GaveUp, Spi!Waiting, Spi!After
  <2> QED BY <1>3, <2>1 DEF SpiBusy
<1>6. ASSUME Spi!BCHProcess \/ Spi!BCHCheckStatus PROVE SpiDevMoves
  <2>1. spiPc = "decode" /\ spiPc' = "idle" /\ spiRow' = spiRow /\ spiRow # Spi!None /\ spiResult' \in {"ok", "fail"}
    BY <1>6 DEF Spi!BCHProcess, Spi!BCHCheckStatus, Spi!Verdict, Spi!Kept, SpiRowInv, SpiBusy
  <2>2. SpiDevPhase = "reading" /\ SpiDevPhase' = IF spiResult' = "ok" THEN "good" ELSE "failed"
    BY <2>1 DEF SpiDevPhase
  <2>3. ASSUME SpiDevPhase' = "good", SpiDevSure' PROVE SpiDevFound' = spiRow'
    <3>1. (SpiTracked /\ spiResult = "ok")'
      BY <2>1, <2>2, <2>3 DEF SpiDevSure, SpiTracked
    <3>2. spiMem'[spiSlot'].data = spiRow' /\ spiMem'[spiSlot'].parity = spiRow' /\ spiRow' \notin SpiWeak
      BY <3>1 DEF SpiTrackInv
    <3> QED BY <3>2 DEF SpiDevFound
  <2> QED BY <2>1, <2>2, <2>3, SpiFoundHeldNext DEF SpiDevMoves
<1>7. ASSUME Spi!Transfer PROVE SpiDevMoves
  <2>1. spiJobs # <<>> /\ UNCHANGED <<spiPc, spiRow, spiSlot, spiResult, spiB0, spiClean>>
    BY <1>7 DEF Spi!Transfer, Spi!request
  <2>2. spiRow # Spi!None
    BY <2>1 DEF SpiRowInv
  <2>3. CASE spiPc \in SpiBusy
    BY <1>3, <2>1, <2>3
  <2>4. CASE spiPc \notin SpiBusy
    <3>1. spiPc \in {"idle", "over"} /\ spiResult \in {"ok", "fail"}
      BY <2>2, <2>4 DEF SpiTypeInv, SpiRowInv, SpiBusy, SpiBefore
    <3>2. SpiDevPhase = (IF spiResult = "ok" THEN "good" ELSE "failed") /\ SpiDevPhase' = SpiDevPhase
      BY <2>1, <3>1 DEF SpiDevPhase
    <3>3. SpiDevSure' = SpiDevSure
      BY <2>1, <3>2 DEF SpiDevSure
    <3>4. SpiDevPhase = "good" => ~SpiDevSure
      BY <2>1, <2>2, <3>2 DEF SpiDevSure, SpiTrackInv, SpiTracked
    <3> QED BY <2>1, <3>1, <3>2, <3>3, <3>4, SpiFoundHeldNext DEF SpiDevMoves
  <2> QED BY <2>3, <2>4
<1>8. ASSUME Spi!Finish PROVE SpiDevMoves
  <2>1. spiPc = "idle" /\ spiPc' = "over" /\ UNCHANGED <<spiRow, spiSlot, spiResult, spiMem, spiB0, spiClean>>
    BY <1>8 DEF Spi!Finish, Spi!Started, Spi!request, Spi!flash
  <2>4. spiResult \in {"none", "ok", "fail"} /\ spiResult' = spiResult
    BY <2>1 DEF SpiRowInv, SpiBusy
  <2>2. SpiDevPhase' = SpiDevPhase /\ SpiDevFound' = SpiDevFound
    <3>1. SpiDevPhase' = SpiDevPhase
      BY <2>1, <2>4 DEF SpiDevPhase
    <3>2. SpiDevFound' = SpiDevFound
      BY <2>1 DEF SpiDevFound
    <3> QED BY <3>1, <3>2
  <2>3. SpiDevSure' = SpiDevSure
    BY <2>1, <2>2 DEF SpiDevSure
  <2> QED BY <2>1, <2>2, <2>3 DEF SpiDevMoves
<1>9. ASSUME Spi!Stop \/ UNCHANGED Spi!vars PROVE SpiDevMoves
  <2>1. UNCHANGED <<spiPc, spiRow, spiSlot, spiResult, spiMem, spiB0, spiClean>>
    BY <1>9 DEF Spi!Stop, Spi!vars, Spi!request, Spi!flash
  <2>2. SpiDevPhase' = SpiDevPhase /\ SpiDevFound' = SpiDevFound
    BY <2>1 DEF SpiDevPhase, SpiDevFound
  <2>3. SpiDevSure' = SpiDevSure
    BY <2>1, <2>2 DEF SpiDevSure
  <2> QED BY <2>1, <2>2, <2>3 DEF SpiDevMoves
<1> QED BY <1>1, <1>2, <1>4, <1>5, <1>6, <1>7, <1>8, <1>9 DEF Spi!Next, Spi!Driver

-----------------------------------------------------------------------------
(* ParaNand                                                                 *)
ParaTypeInv ==
    /\ paraRow \in ParaPages \cup {Para!None, Para!Reset} /\ paraStatus \subseteq Para!ErrOccur
    /\ paraIntr \subseteq Para!ErrOccur \cup {"complete"}
    /\ paraAgain \in BOOLEAN /\ paraEcc \in BOOLEAN /\ paraClean \in BOOLEAN /\ paraSilent \in BOOLEAN

(* The engine is off in a second read only.                                 *)
ParaEccInv ==
    /\ paraPc \notin {"init", "second"} /\ ~paraAgain => paraEcc
    /\ paraPc \in {"init", "header", "second", "idle", "over"} \/ paraRow \notin ParaPages => ~paraAgain

(* The controller is set up by the header before pages are read.            *)
ParaSetUpInv ==
    /\ paraRow \in ParaPages \/ paraPc \in {"data", "second", "idle", "over"} => paraGeometry = "header"
    /\ paraPc \in {"data", "second"} => paraRow \in ParaPages
    /\ paraRow \in ParaPages => paraPc \notin {"init", "header"}
    /\ paraPc \in {"check", "abort", "abort check"} => paraRow # Para!None

(* Where the command is that was fired for the read:                        *)
ParaPending == paraQueue = <<paraRow>> /\ paraIntr = {} /\ paraRegion = <<>>
ParaFailedNow == paraQueue = <<>> /\ paraRegion = <<>> /\ {"complete", "failed"} \subseteq paraIntr
ParaComplete ==
    /\ paraQueue = <<>> /\ paraRegion = <<paraRow>> /\ "complete" \in paraIntr /\ "failed" \notin paraIntr
    /\ ~paraAgain /\ paraRow \in ParaWeak \cup Erased => "ecc" \in paraIntr
ParaFetchable ==
    /\ paraQueue = <<>> /\ paraIntr = {} /\ paraRegion = <<paraRow>>
    /\ ~paraAgain /\ paraRow \in ParaWeak \cup Erased => "ecc" \in paraStatus

(* after an abort nothing comes any more, so that the wait for data ends.   *)
ParaAborted == paraRegion = <<>> /\ paraQueue \in {<<>>, <<Para!Reset>>}

ParaTracked == paraClean /\ ~paraSilent /\ paraRow \in ParaPages

ParaTrackInv ==
    /\ ParaTracked =>
         /\ paraPc = "check" => ParaPending \/ ParaFailedNow \/ ParaComplete
         /\ paraPc \in {"abort", "abort check"} => ParaAborted
         /\ paraPc = "data" => ParaAborted \/ ParaFetchable
         /\ paraPc = "second" => Para!Idle
         /\ paraAgain \/ paraPc = "second" => "ecc" \in paraStatus
         /\ paraResult = "ok" => paraBuf = paraRow /\ paraRow \notin ParaWeak
    /\ paraRow \notin ParaPages => paraResult = "none"
    /\ paraPc \notin {"idle", "over"} => paraResult = "none"

ParaCore == ParaTypeInv /\ ParaEccInv /\ ParaSetUpInv /\ ParaTrackInv

(* What buffer, queue and data region hold.                                 *)
ParaDataInv ==
    /\ paraBuf \in ParaPages \cup {Para!None} /\ paraQueue \in Seq(ParaPages \cup {Para!Reset}) /\ paraRegion \in Seq(ParaPages \cup {Para!None})
    /\ paraResult \in {"none", "ok", "fail"}

ParaInv == ParaCore /\ ParaDataInv

(* The driver as a block device.                                            *)
ParaDevEnded(r) == CASE r = "none" -> "idle" [] r = "ok" -> "good" [] r = "fail" -> "failed"
ParaDevPhase == IF paraRow > Para!None /\ paraPc \notin {"idle", "over"} THEN "reading" ELSE ParaDevEnded(paraResult)
ParaDevAsked == IF paraRow > Para!None THEN paraRow ELSE Para!None
ParaDevFound == IF paraBuf \notin ParaWeak THEN paraBuf ELSE Para!None
ParaDevSure == ParaDevPhase = "idle" \/ (paraClean /\ ~paraSilent)

ParaDevMoves ==
    \/ UNCHANGED <<ParaDevPhase, ParaDevAsked, ParaDevFound, ParaDevSure>>
    \/ /\ ParaDevFound' \in ParaPages \cup {Para!None}
       /\ \/ ParaDevPhase \in {"idle", "good", "failed"} /\ ParaDevPhase' = "reading" /\ ParaDevAsked' \in ParaPages
          \/ /\ ParaDevPhase = "reading" /\ ParaDevPhase' \in {"reading", "good", "failed"} /\ ParaDevAsked' = ParaDevAsked
             /\ ParaDevPhase' = "good" /\ ParaDevSure' => ParaDevFound' = ParaDevAsked'

-----------------------------------------------------------------------------
LEMMA ParaCoreInit ==
    ASSUME Para!ParaNandAssumption, Para!Init
    PROVE  ParaCore
<1>1. paraRow = Para!None /\ Para!None \notin ParaPages
  BY DEF Para!Init, Para!ParaNandAssumption
<1> QED BY <1>1 DEF Para!Init, ParaCore, ParaTypeInv, ParaEccInv, ParaSetUpInv, ParaTrackInv,
   ParaTracked, Para!ErrOccur

(* What After makes of a page in the buffer.                                *)
LEMMA ParaAfterInv ==
    ASSUME Para!ParaNandAssumption, ParaCore, paraPc = "data", NEW p, Para!After(p),
           UNCHANGED <<paraRow, paraQueue, paraGeometry, paraClean, paraIntr>>, paraBuf' = p,
           paraSilent' \in {paraSilent, TRUE},
           ~paraSilent' => \/ ParaTracked /\ ParaFetchable /\ p = paraRow /\ paraRegion' = <<>>
                           \/ ~paraClean
    PROVE  ParaCore'
<1> USE DEF ParaCore
<1>1. paraRow \in ParaPages /\ paraRow' = paraRow /\ paraGeometry = "header"
  BY DEF ParaSetUpInv
<1>2. CASE /\ "ecc" \in paraStatus /\ ~paraAgain
           /\ paraPc' = "second" /\ paraEcc' = FALSE /\ UNCHANGED <<paraStatus, paraResult, paraAgain>>
  <2>1. ParaTypeInv' /\ ParaEccInv' /\ ParaSetUpInv'
    BY <1>1, <1>2 DEF ParaTypeInv, ParaEccInv, ParaSetUpInv
  <2>2. ParaTrackInv'
    BY <1>1, <1>2 DEF ParaTrackInv, ParaTracked, ParaFetchable, Para!Idle
  <2> QED BY <2>1, <2>2
<1>3. CASE /\ "ecc" \notin paraStatus \/ paraAgain
           /\ paraStatus' = IF paraAgain /\ Para!TakesForErased(p) THEN paraStatus \ {"ecc"} ELSE paraStatus
           /\ paraEcc' = TRUE /\ paraAgain' = FALSE
           /\ paraResult' = IF paraStatus' \cap Para!ErrOccur = {} THEN "ok" ELSE "fail"
           /\ paraPc' = "idle"
  <2>1. ParaTypeInv' /\ ParaEccInv' /\ ParaSetUpInv'
    BY <1>1, <1>3 DEF ParaTypeInv, ParaEccInv, ParaSetUpInv
  <2>2. ParaTracked' /\ paraResult' = "ok" => paraBuf' = paraRow' /\ paraRow' \notin ParaWeak
    <3> SUFFICES ASSUME ParaTracked', paraResult' = "ok" PROVE p = paraRow /\ paraRow \notin ParaWeak
      BY <1>1
    <3>1. ParaTracked /\ ParaFetchable /\ p = paraRow
      BY DEF ParaTracked
    <3>2. "ecc" \notin paraStatus'
      BY <1>3 DEF Para!ErrOccur
    <3>3. CASE paraAgain
      <4>1. "ecc" \in paraStatus
        BY <3>1, <3>3 DEF ParaTrackInv
      <4>2. paraRow \in Erased
        BY <1>3, <3>1, <3>2, <3>3, <4>1 DEF Para!TakesForErased
      <4> QED BY <3>1, <4>2 DEF Para!ParaNandAssumption
    <3>4. CASE ~paraAgain
      BY <1>3, <3>1, <3>2, <3>4 DEF ParaFetchable
    <3> QED BY <3>3, <3>4
  <2>3. ParaTrackInv'
    BY <1>1, <1>3, <2>2 DEF ParaTrackInv, ParaTracked
  <2> QED BY <2>1, <2>3
<1> QED BY <1>2, <1>3 DEF Para!After, Para!EccAfter

LEMMA ParaCoreNext ==
    ASSUME Para!ParaNandAssumption, ParaCore, [Para!Next]_(Para!vars)
    PROVE  ParaCore'
<1> USE DEF ParaCore
<1>0. Para!None \notin ParaPages /\ Para!Reset \notin ParaPages /\ Para!None # Para!Reset
  BY DEF Para!ParaNandAssumption, Para!None, Para!Reset
<1>1. CASE UNCHANGED Para!vars
  BY <1>1 DEF Para!vars, Para!request, Para!controller, Para!bounds, ParaTypeInv, ParaEccInv,
     ParaSetUpInv, ParaTrackInv, ParaTracked, ParaPending, ParaFailedNow, ParaComplete,
     ParaFetchable, ParaAborted, Para!Idle
<1>2. CASE Para!InitDriver
  BY <1>0, <1>2 DEF Para!InitDriver, Para!hw_init_and_setting, Para!para_nand_init,
     Para!ECC_function, Para!Memory_attribute_setting, ParaTypeInv, ParaEccInv, ParaSetUpInv,
     ParaTrackInv, ParaTracked
<1>3. CASE Para!InitAgain
  <2>1. paraRow \notin ParaPages
    BY <1>3 DEF Para!InitAgain, ParaSetUpInv
  <2> QED
    BY <1>3, <2>1 DEF Para!InitAgain, Para!hw_init_and_setting, Para!para_nand_init,
       Para!ECC_function, Para!Memory_attribute_setting, Para!setSystemPara, Para!request,
       Para!bounds, ParaTypeInv, ParaEccInv, ParaSetUpInv, ParaTrackInv, ParaTracked
<1>4. CASE Para!Call
  <2>1. /\ paraPc = "idle" /\ paraPc' = "check" /\ paraRow' \in ParaPages /\ paraQueue' = Append(paraQueue, paraRow') /\ ~paraAgain' /\ paraStatus' = {}
        /\ paraResult' = "none" /\ paraClean' = Para!Idle /\ ~paraSilent' /\ UNCHANGED <<paraEcc, paraGeometry, paraIntr, paraRegion>>
        /\ paraSilent' \in BOOLEAN /\ paraAgain' \in BOOLEAN
    BY <1>4 DEF Para!Call, Para!PageRead, Para!Fire
  <2>2. Para!Idle => paraQueue' = <<paraRow'>> /\ paraIntr' = {} /\ paraRegion' = <<>>
    BY <2>1 DEF Para!Idle
  <2>3. paraClean' \in BOOLEAN
    BY <2>1 DEF Para!Idle
  <2>4. ParaTypeInv' /\ ParaEccInv' /\ ParaSetUpInv'
    BY <1>0, <2>1, <2>3 DEF ParaTypeInv, ParaEccInv, ParaSetUpInv
  <2>5. ParaTrackInv'
    BY <2>1, <2>2 DEF ParaTrackInv, ParaTracked, ParaPending
  <2> QED BY <2>4, <2>5
<1>5. CASE Para!CheckStatus
  <2>1. /\ paraPc = "check" /\ "complete" \in paraIntr /\ paraResult = "none"
        /\ UNCHANGED <<paraAgain, paraRow, paraResult, paraBuf, paraQueue, paraRegion, paraEcc, paraGeometry, Para!bounds, paraClean, paraSilent>>
    BY <1>5 DEF Para!CheckStatus, ParaTrackInv
  <2>2. \/ /\ "failed" \in paraIntr /\ paraPc' = "abort" /\ paraStatus' = IF paraAgain THEN paraStatus ELSE {"failed"}
           /\ paraIntr' \subseteq paraIntr
        \/ /\ "failed" \notin paraIntr /\ paraPc' = Para!Behind /\ paraIntr' = {}
           /\ paraStatus' = IF paraAgain THEN paraStatus ELSE paraIntr \cap Para!ErrOccur
    BY <1>5 DEF Para!CheckStatus, Para!Checked
  <2>3. Para!Behind \in {"header", "data"} /\ (Para!Behind = "data" <=> paraRow \in ParaPages)
    BY <1>0, <2>1 DEF Para!Behind, ParaTypeInv, ParaSetUpInv
  <2>4. /\ ParaTypeInv' /\ ParaEccInv' /\ ParaSetUpInv'
    BY <1>0, <2>1, <2>2, <2>3 DEF ParaTypeInv, ParaEccInv, ParaSetUpInv, Para!ErrOccur
  <2>5. CASE ParaTracked
    <3>1. ParaFailedNow \/ ParaComplete
      BY <2>1, <2>5 DEF ParaTrackInv, ParaPending
    <3>2. CASE "failed" \in paraIntr
      BY <2>1, <2>2, <2>4, <2>5, <3>1, <3>2 DEF ParaTrackInv, ParaTracked, ParaFailedNow,
         ParaComplete, ParaAborted
    <3>3. CASE "failed" \notin paraIntr
      <4>1. ParaComplete /\ Para!Behind = "data"
        BY <2>3, <2>5, <3>1, <3>3 DEF ParaFailedNow, ParaTracked
      <4>2. ParaFetchable'
        BY <2>1, <2>2, <3>3, <4>1 DEF ParaComplete, ParaFetchable, Para!ErrOccur
      <4>3. paraAgain => "ecc" \in paraStatus'
        BY <2>2, <2>5, <3>3 DEF ParaTrackInv
      <4> QED BY <2>1, <2>2, <2>4, <2>5, <3>3, <4>1, <4>2, <4>3 DEF ParaTrackInv, ParaTracked
    <3> QED BY <2>4, <3>2, <3>3
  <2>6. CASE ~ParaTracked
    BY <2>1, <2>2, <2>4, <2>6 DEF ParaTrackInv, ParaTracked
  <2> QED BY <2>5, <2>6
<1>6. CASE Para!CheckTimeout
  <2>1. /\ paraPc = "check" /\ paraStatus' = (IF paraAgain THEN paraStatus ELSE {}) /\ paraPc' = Para!Behind /\ paraSilent' = TRUE
        /\ paraResult = "none"
        /\ UNCHANGED <<paraAgain, paraRow, paraResult, paraBuf, paraQueue, paraIntr, paraRegion, paraEcc, paraGeometry, Para!bounds, paraClean>>
    BY <1>6 DEF Para!CheckTimeout, Para!Checked, Para!controller, ParaTrackInv
  <2>2. Para!Behind \in {"header", "data"} /\ (Para!Behind = "data" <=> paraRow \in ParaPages)
    BY <1>0, <2>1 DEF Para!Behind, ParaTypeInv, ParaSetUpInv
  <2>3. ParaTypeInv' /\ ParaEccInv' /\ ParaSetUpInv'
    BY <1>0, <2>1, <2>2 DEF ParaTypeInv, ParaEccInv, ParaSetUpInv
  <2> QED BY <2>1, <2>3 DEF ParaTrackInv, ParaTracked
<1>7. CASE Para!Abort
  <2>1. /\ paraPc = "abort" /\ paraPc' = "abort check" /\ paraQueue' = <<Para!Reset>> /\ paraRegion' = <<>> /\ paraResult = "none"
        /\ UNCHANGED <<paraAgain, paraRow, paraStatus, paraResult, paraBuf, paraIntr, paraEcc, paraGeometry, Para!bounds, paraClean, paraSilent>>
    BY <1>7 DEF Para!Abort, Para!FlushAndFire, Para!BMC_region_software_reset, Para!request,
       ParaTrackInv
  <2>2. ParaTypeInv' /\ ParaEccInv' /\ ParaSetUpInv'
    BY <2>1 DEF ParaTypeInv, ParaEccInv, ParaSetUpInv
  <2> QED BY <2>1, <2>2 DEF ParaTrackInv, ParaTracked, ParaAborted
<1>8. CASE Para!AbortChecked
  <2>1. /\ paraPc = "abort check" /\ paraResult = "none"
        /\ UNCHANGED <<paraAgain, paraRow, paraResult, paraBuf, paraQueue, paraRegion, paraEcc, paraGeometry, Para!bounds, paraClean, paraSilent>>
    BY <1>8 DEF Para!AbortChecked, ParaTrackInv
  <2>2. \/ paraPc' = "abort" /\ paraIntr' = paraIntr \ {"complete", "failed"} /\ paraStatus' = paraStatus
        \/ /\ paraPc' = Para!Behind /\ paraIntr' = {}
           /\ \E bits \in {{}, paraIntr \ {"complete"}} :
                paraStatus' = IF paraAgain \/ "complete" \in paraIntr THEN paraStatus ELSE paraStatus \cup bits
    BY <1>8 DEF Para!AbortChecked
  <2>3. Para!Behind \in {"header", "data"} /\ (Para!Behind = "data" <=> paraRow \in ParaPages)
    BY <1>0, <2>1 DEF Para!Behind, ParaTypeInv, ParaSetUpInv
  <2>4. paraStatus \subseteq paraStatus' /\ paraStatus' \subseteq Para!ErrOccur /\ paraIntr' \subseteq Para!ErrOccur \cup {"complete"}
    BY <2>2 DEF ParaTypeInv
  <2>5. ParaTypeInv' /\ ParaEccInv' /\ ParaSetUpInv'
    BY <1>0, <2>1, <2>2, <2>3, <2>4 DEF ParaTypeInv, ParaEccInv, ParaSetUpInv
  <2>6. ParaTrackInv'
    BY <2>1, <2>2, <2>3, <2>4 DEF ParaTrackInv, ParaTracked, ParaAborted
  <2> QED BY <2>5, <2>6
<1>9. CASE Para!DataRead
  <2>1. /\ paraPc = "data" /\ paraRegion # <<>> /\ paraBuf' = Head(paraRegion) /\ paraRegion' = Tail(paraRegion) /\ Para!After(paraBuf')
        /\ UNCHANGED <<paraRow, paraQueue, paraIntr, paraGeometry, paraClean, paraSilent>>
    BY <1>9 DEF Para!DataRead, Para!BMC_region_status_empty
  <2>2. ParaTracked => ParaFetchable
    BY <2>1 DEF ParaTrackInv, ParaAborted
  <2>3. ParaFetchable => Head(paraRegion) = paraRow /\ Tail(paraRegion) = <<>>
    BY DEF ParaFetchable
  <2>4. paraRow \in ParaPages
    BY <2>1 DEF ParaSetUpInv
  <2>5. ~paraSilent' => (ParaTracked /\ ParaFetchable /\ paraBuf' = paraRow /\ paraRegion' = <<>>) \/ ~paraClean
    BY <2>1, <2>2, <2>3, <2>4 DEF ParaTracked
  <2> QED BY <2>1, <2>5, ParaAfterInv
<1>10. CASE Para!DataTimeout
  BY <1>10, ParaAfterInv DEF Para!DataTimeout
<1>11. CASE Para!SecondRead
  <2>1. /\ paraPc = "second" /\ paraPc' = "check" /\ paraAgain' = TRUE /\ paraQueue' = Append(paraQueue, paraRow) /\ paraResult = "none"
        /\ paraRow \in ParaPages
        /\ UNCHANGED <<paraRow, paraStatus, paraResult, paraBuf, paraIntr, paraRegion, paraEcc, paraGeometry, Para!bounds, paraClean, paraSilent>>
    BY <1>11 DEF Para!SecondRead, Para!PageRead, Para!Fire, ParaTrackInv, ParaSetUpInv
  <2>2. ParaTypeInv' /\ ParaEccInv' /\ ParaSetUpInv'
    BY <1>0, <2>1 DEF ParaTypeInv, ParaEccInv, ParaSetUpInv
  <2>3. Para!Idle => paraQueue' = <<paraRow>> /\ paraIntr' = {} /\ paraRegion' = <<>>
    BY <2>1 DEF Para!Idle
  <2> QED BY <2>1, <2>2, <2>3 DEF ParaTrackInv, ParaTracked, ParaPending
<1>12. CASE Para!Finish
  <2>1. /\ paraPc = "idle" /\ paraPc' = "over"
        /\ UNCHANGED <<paraAgain, paraRow, paraStatus, paraResult, paraBuf, paraQueue, paraIntr, paraRegion, paraEcc, paraGeometry, paraClean, paraSilent>>
    BY <1>12 DEF Para!Finish, Para!request, Para!controller
  <2> QED BY <2>1 DEF ParaTypeInv, ParaEccInv, ParaSetUpInv, ParaTrackInv, ParaTracked
<1>13. CASE Para!Execute
  <2>1. /\ paraQueue # <<>> /\ paraPc' = paraPc /\ paraQueue' = Tail(paraQueue)
        /\ UNCHANGED <<paraAgain, paraRow, paraStatus, paraResult, paraBuf, paraEcc, paraGeometry, paraLeft, paraClean, paraSilent>>
    BY <1>13 DEF Para!Execute, Para!request
  <2>2. \/ paraIntr' = paraIntr \cup {"complete", "failed"} /\ paraRegion' = paraRegion
        \/ Head(paraQueue) = Para!Reset /\ paraIntr' = paraIntr \cup {"complete"} /\ paraRegion' = paraRegion
        \/ /\ Head(paraQueue) # Para!Reset /\ paraRegion' = Append(paraRegion, Para!Laid(Head(paraQueue)))
           /\ \E bits \in Para!EccBits(Head(paraQueue)) : paraIntr' = paraIntr \cup {"complete"} \cup bits
    BY <1>13 DEF Para!Execute
  <2>3. \A c : \A bits \in Para!EccBits(c) :
          /\ bits \subseteq {"ecc", "spare"}
          /\ paraEcc /\ c \in ParaWeak \cup Erased => "ecc" \in bits
    BY DEF Para!EccBits
  <2>4. ParaTypeInv' /\ ParaEccInv' /\ ParaSetUpInv'
    <3>1. paraIntr' \subseteq Para!ErrOccur \cup {"complete"}
      BY <2>2, <2>3 DEF ParaTypeInv, Para!ErrOccur
    <3> QED BY <2>1, <3>1 DEF ParaTypeInv, ParaEccInv, ParaSetUpInv
  <2>5. CASE ParaTracked /\ paraPc = "check"
    <3>1. ParaPending /\ paraRow # Para!Reset /\ paraGeometry = "header"
      BY <1>0, <2>1, <2>5 DEF ParaTrackInv, ParaFailedNow, ParaComplete, ParaSetUpInv,
         ParaTracked
    <3>2. Head(paraQueue) = paraRow /\ Tail(paraQueue) = <<>> /\ Para!Laid(paraRow) = paraRow /\ Append(<<>>, paraRow) = <<paraRow>>
      BY <3>1 DEF ParaPending, Para!Laid
    <3>3. ASSUME paraIntr' = paraIntr \cup {"complete", "failed"} /\ paraRegion' = paraRegion
          PROVE  ParaFailedNow'
      BY <2>1, <3>1, <3>2, <3>3 DEF ParaPending, ParaFailedNow
    <3>4. ASSUME paraRegion' = <<paraRow>> /\ \E bits \in Para!EccBits(paraRow) : paraIntr' = {"complete"} \cup bits
          PROVE  ParaComplete'
      <4>1. ~paraAgain => paraEcc
        BY <2>5 DEF ParaEccInv
      <4> QED BY <2>1, <2>3, <3>1, <3>2, <3>4, <4>1 DEF ParaComplete
    <3>5. ParaFailedNow' \/ ParaComplete'
      BY <2>2, <3>1, <3>2, <3>3, <3>4 DEF ParaPending, ParaFailedNow
    <3> QED BY <2>1, <2>4, <2>5, <3>5 DEF ParaTrackInv, ParaTracked
  <2>6. CASE ParaTracked /\ paraPc \in {"abort", "abort check", "data", "second"}
    <3>1. paraRegion = <<>> /\ paraQueue = <<Para!Reset>>
      BY <2>1, <2>6 DEF ParaTrackInv, ParaAborted, ParaFetchable, Para!Idle
    <3>2. ParaAborted'
      BY <2>1, <2>2, <3>1 DEF ParaAborted
    <3>3. paraPc # "second"
      BY <2>1, <2>6 DEF ParaTrackInv, Para!Idle
    <3> QED BY <2>1, <2>4, <2>6, <3>2, <3>3 DEF ParaTrackInv, ParaTracked
  <2>7. CASE ~ParaTracked \/ paraPc \notin {"check", "abort", "abort check", "data", "second"}
    BY <2>1, <2>4, <2>7 DEF ParaTrackInv, ParaTracked
  <2> QED BY <2>5, <2>6, <2>7
<1>14. CASE Para!Stop
  BY <1>1, <1>14 DEF Para!Stop
<1> QED
  BY <1>1, <1>2, <1>3, <1>4, <1>5, <1>6, <1>7, <1>8, <1>9, <1>10, <1>11, <1>12, <1>13, <1>14
  DEF Para!Next, Para!Driver

LEMMA ParaInitInv ==
    ASSUME Para!ParaNandAssumption, Para!Init
    PROVE  ParaInv
<1>1. ParaDataInv
  BY DEF Para!Init, ParaDataInv
<1> QED BY <1>1, ParaCoreInit DEF ParaInv

LEMMA ParaAfterResult ==
    ASSUME NEW p, Para!After(p), ParaDataInv
    PROVE  paraResult' \in {"none", "ok", "fail"}
  BY DEF Para!After, ParaDataInv

LEMMA ParaExecuteData ==
    ASSUME Para!ParaNandAssumption, ParaInv, Para!Execute
    PROVE  ParaDataInv'
<1>1. paraQueue # <<>> /\ paraQueue' = Tail(paraQueue) /\ UNCHANGED <<paraBuf, paraResult>>
  BY DEF Para!Execute, Para!request
<1>2. paraQueue \in Seq(ParaPages \cup {Para!Reset}) /\ paraRegion \in Seq(ParaPages \cup {Para!None})
  BY DEF ParaInv, ParaDataInv
<1>3. paraQueue' \in Seq(ParaPages \cup {Para!Reset}) /\ Head(paraQueue) \in ParaPages \cup {Para!Reset}
  BY <1>1, <1>2
<1>4. paraRegion' = paraRegion \/ (Head(paraQueue) # Para!Reset /\ paraRegion' = Append(paraRegion, Para!Laid(Head(paraQueue))))
  BY DEF Para!Execute
<1>5. Head(paraQueue) # Para!Reset => Para!Laid(Head(paraQueue)) \in ParaPages \cup {Para!None}
  BY <1>3 DEF Para!Laid
<1>6. paraRegion' \in Seq(ParaPages \cup {Para!None})
  BY <1>2, <1>4, <1>5
<1> QED BY <1>1, <1>3, <1>6 DEF ParaDataInv, ParaInv

LEMMA ParaDataNext ==
    ASSUME Para!ParaNandAssumption, ParaInv, [Para!Next]_(Para!vars)
    PROVE  ParaDataInv'
<1>0. ParaDataInv
  BY DEF ParaInv
<1>1. ASSUME UNCHANGED <<paraBuf, paraQueue, paraRegion, paraResult>> PROVE ParaDataInv'
  BY <1>0, <1>1 DEF ParaDataInv
<1>2. CASE UNCHANGED Para!vars \/ Para!Stop
  BY <1>1, <1>2 DEF Para!vars, Para!request, Para!controller, Para!Stop
<1>3. CASE Para!InitDriver
  <2>1. paraQueue' = <<Para!Reset>> /\ UNCHANGED <<paraBuf, paraRegion, paraResult>>
    BY <1>3 DEF Para!InitDriver, Para!FlushAndFire
  <2> QED BY <1>0, <2>1 DEF ParaDataInv
<1>4. CASE Para!InitAgain
  BY <1>1, <1>4 DEF Para!InitAgain, Para!request
<1>5. CASE Para!Call
  <2>1. paraRow' \in ParaPages /\ paraQueue' = Append(paraQueue, paraRow') /\ paraBuf' = Para!None /\ paraResult' = "none" /\ paraRegion' = paraRegion
    BY <1>5 DEF Para!Call, Para!PageRead, Para!Fire
  <2> QED BY <1>0, <2>1 DEF ParaDataInv
<1>6. CASE Para!CheckStatus
  BY <1>1, <1>6 DEF Para!CheckStatus
<1>7. CASE Para!CheckTimeout
  BY <1>1, <1>7 DEF Para!CheckTimeout, Para!controller
<1>8. CASE Para!Abort
  <2>1. paraQueue' = <<Para!Reset>> /\ paraRegion' = <<>> /\ UNCHANGED <<paraBuf, paraResult>>
    BY <1>8 DEF Para!Abort, Para!FlushAndFire, Para!BMC_region_software_reset, Para!request
  <2> QED BY <1>0, <2>1 DEF ParaDataInv
<1>9. CASE Para!AbortChecked
  BY <1>1, <1>9 DEF Para!AbortChecked
<1>10. CASE Para!DataRead
  <2>1. paraRegion # <<>> /\ paraBuf' = Head(paraRegion) /\ paraRegion' = Tail(paraRegion) /\ paraQueue' = paraQueue /\ Para!After(paraBuf')
    BY <1>10 DEF Para!DataRead, Para!BMC_region_status_empty
  <2>2. paraResult' \in {"none", "ok", "fail"}
    BY <1>0, <2>1, ParaAfterResult
  <2> QED BY <1>0, <2>1, <2>2 DEF ParaDataInv
<1>11. CASE Para!DataTimeout
  <2>1. UNCHANGED <<paraBuf, paraQueue, paraRegion>> /\ Para!After(paraBuf)
    BY <1>11 DEF Para!DataTimeout
  <2>2. paraResult' \in {"none", "ok", "fail"}
    BY <1>0, <2>1, ParaAfterResult
  <2> QED BY <1>0, <2>1, <2>2 DEF ParaDataInv
<1>12. CASE Para!SecondRead
  <2>1. paraPc = "second" /\ paraQueue' = Append(paraQueue, paraRow) /\ UNCHANGED <<paraBuf, paraRegion, paraResult>>
    BY <1>12 DEF Para!SecondRead, Para!PageRead, Para!Fire
  <2>2. paraRow \in ParaPages
    BY <2>1 DEF ParaInv, ParaCore, ParaSetUpInv
  <2> QED BY <1>0, <2>1, <2>2 DEF ParaDataInv
<1>13. CASE Para!Finish
  BY <1>1, <1>13 DEF Para!Finish, Para!request, Para!controller
<1>14. CASE Para!Execute
  BY <1>14, ParaExecuteData
<1> QED
  BY <1>2, <1>3, <1>4, <1>5, <1>6, <1>7, <1>8, <1>9, <1>10, <1>11, <1>12, <1>13, <1>14 DEF
     Para!Next, Para!Driver

LEMMA ParaNextInv ==
    ASSUME Para!ParaNandAssumption, ParaInv, [Para!Next]_(Para!vars)
    PROVE  ParaInv'
<1>1. ParaCore'
  BY ParaCoreNext DEF ParaInv
<1>2. ParaDataInv'
  BY ParaDataNext
<1> QED BY <1>1, <1>2 DEF ParaInv

(* What each step is for the block device.                                  *)
LEMMA ParaDevRows ==
    ASSUME Para!ParaNandAssumption, ParaInv
    PROVE  /\ paraRow > Para!None <=> paraRow \in ParaPages
           /\ paraRow \in {Para!None, Para!Reset} => ParaDevPhase = "idle"
           /\ paraPc \in {"check", "abort", "abort check", "data", "second"} => ParaDevPhase \in {"idle", "reading"}
           /\ ParaDevPhase = "reading" <=> paraRow \in ParaPages /\ paraPc \notin {"idle", "over"}
<1>1. paraRow \in ParaPages \cup {Para!None, Para!Reset} /\ ParaPages \subseteq Nat \ {Para!None} /\ paraResult \in {"none", "ok", "fail"}
  BY DEF ParaInv, ParaCore, ParaTypeInv, ParaDataInv, Para!ParaNandAssumption
<1>2. paraRow > Para!None <=> paraRow \in ParaPages
  BY <1>1 DEF Para!None, Para!Reset
<1>3. (paraRow \notin ParaPages => paraResult = "none") /\ (paraPc \notin {"idle", "over"} => paraResult = "none")
  BY DEF ParaInv, ParaCore, ParaTrackInv
<1>4. paraRow \in {Para!None, Para!Reset} => paraRow \notin ParaPages
  BY <1>1 DEF Para!None, Para!Reset
<1>5. ParaDevPhase = "reading" <=> paraRow \in ParaPages /\ paraPc \notin {"idle", "over"}
  BY <1>1, <1>2 DEF ParaDevPhase, ParaDevEnded
<1>6. paraRow \in {Para!None, Para!Reset} => ParaDevPhase = "idle"
  BY <1>2, <1>3, <1>4 DEF ParaDevPhase, ParaDevEnded
<1>7. paraPc \in {"check", "abort", "abort check", "data", "second"} => ParaDevPhase \in {"idle", "reading"}
  BY <1>2, <1>3 DEF ParaDevPhase, ParaDevEnded
<1> QED BY <1>2, <1>5, <1>6, <1>7

LEMMA ParaDevFoundHeld ==
    ASSUME ParaInv'
    PROVE  ParaDevFound' \in ParaPages \cup {Para!None}
  BY DEF ParaInv, ParaDataInv, ParaDevFound

(* Also in a read of which nothing is known yet the page stays the same.    *)
LEMMA ParaDevStill ==
    ASSUME UNCHANGED <<paraRow, paraResult, paraBuf, paraClean, paraSilent>>,
           paraPc \notin {"idle", "over"} <=> paraPc' \notin {"idle", "over"}
    PROVE  ParaDevMoves
<1>1. ParaDevPhase' = ParaDevPhase
  BY DEF ParaDevPhase
<1>2. ParaDevAsked' = ParaDevAsked /\ ParaDevFound' = ParaDevFound
  BY DEF ParaDevAsked, ParaDevFound
<1>3. ParaDevSure' = ParaDevSure
  BY <1>1 DEF ParaDevSure
<1> QED BY <1>1, <1>2, <1>3 DEF ParaDevMoves

(* A step before the first page, or one that goes on reading.               *)
LEMMA ParaDevWorks ==
    ASSUME Para!ParaNandAssumption, ParaInv, ParaInv', UNCHANGED <<paraRow, paraResult, paraBuf>>,
           paraPc \notin {"idle", "over"}, paraPc' \notin {"idle", "over"}
    PROVE  ParaDevMoves
<1>1. ParaDevAsked' = ParaDevAsked /\ ParaDevFound' = ParaDevFound
  BY DEF ParaDevAsked, ParaDevFound
<1>2. ParaDevPhase' = ParaDevPhase
  BY DEF ParaDevPhase
<1>3. CASE paraRow \in ParaPages
  <2>1. ParaDevPhase = "reading"
    BY <1>3, ParaDevRows
  <2>2. ParaDevFound' \in ParaPages \cup {Para!None}
    BY ParaDevFoundHeld
  <2> QED BY <1>1, <1>2, <2>1, <2>2 DEF ParaDevMoves
<1>4. CASE paraRow \notin ParaPages
  <2>1. ParaDevPhase = "idle"
    BY <1>4, ParaDevRows DEF ParaInv, ParaCore, ParaTypeInv
  <2>2. ParaDevSure' = ParaDevSure
    BY <1>2, <2>1 DEF ParaDevSure
  <2> QED BY <1>1, <1>2, <2>2 DEF ParaDevMoves
<1> QED BY <1>3, <1>4

(* With the page in the buffer the read goes on or ends.                    *)
LEMMA ParaDevAfter ==
    ASSUME Para!ParaNandAssumption, ParaInv, ParaInv', paraPc = "data", paraRow' = paraRow,
           paraPc' \in {"second", "idle"}, paraPc' = "idle" => paraResult' \in {"ok", "fail"}
    PROVE  ParaDevMoves
<1>1. paraRow \in ParaPages /\ paraRow' \in ParaPages
  BY DEF ParaInv, ParaCore, ParaSetUpInv
<1>2. ParaDevPhase = "reading" /\ (paraRow' > Para!None <=> paraRow' \in ParaPages) /\ (paraRow > Para!None <=> paraRow \in ParaPages)
  <2>1. ParaDevPhase = "reading" /\ (paraRow > Para!None <=> paraRow \in ParaPages)
    BY <1>1, ParaDevRows
  <2> QED BY <2>1
<1>3. ParaDevFound' \in ParaPages \cup {Para!None} /\ ParaDevAsked' = ParaDevAsked /\ ParaDevAsked' = paraRow'
  BY <1>1, <1>2, ParaDevFoundHeld DEF ParaDevAsked
<1>4. ParaDevPhase' \in {"reading", "good", "failed"} /\ (ParaDevPhase' = "good" => paraResult' = "ok")
  BY <1>1, <1>2 DEF ParaDevPhase, ParaDevEnded
<1>5. ASSUME ParaDevPhase' = "good", ParaDevSure' PROVE ParaDevFound' = ParaDevAsked'
  <2>1. paraClean' /\ ~paraSilent' /\ paraResult' = "ok"
    BY <1>4, <1>5 DEF ParaDevSure
  <2>2. paraBuf' = paraRow' /\ paraRow' \notin ParaWeak
    BY <1>1, <2>1 DEF ParaInv, ParaCore, ParaTrackInv, ParaTracked
  <2> QED BY <1>3, <2>2 DEF ParaDevFound
<1> QED BY <1>2, <1>3, <1>4, <1>5 DEF ParaDevMoves

LEMMA ParaDevStep ==
    ASSUME Para!ParaNandAssumption, ParaInv, ParaInv', [Para!Next]_(Para!vars)
    PROVE  ParaDevMoves
<1>1. CASE UNCHANGED Para!vars \/ Para!Stop
  BY <1>1, ParaDevStill DEF Para!vars, Para!request, Para!Stop
<1>2. CASE Para!InitDriver
  <2>1. paraPc = "init" /\ paraRow' = Para!Reset /\ UNCHANGED <<paraResult, paraBuf>>
    BY <1>2 DEF Para!InitDriver
  <2>2. paraRow \notin ParaPages
    BY <2>1 DEF ParaInv, ParaCore, ParaSetUpInv
  <2>3. paraRow \in {Para!None, Para!Reset} /\ paraRow' \in {Para!None, Para!Reset}
    BY <2>1, <2>2 DEF ParaInv, ParaCore, ParaTypeInv
  <2>4. ParaDevPhase = "idle"
    BY <2>3, ParaDevRows
  <2>5. ~(paraRow > Para!None) /\ ~(paraRow' > Para!None)
    BY <2>3 DEF Para!None, Para!Reset
  <2>6. paraResult = "none"
    BY <2>2 DEF ParaInv, ParaCore, ParaTrackInv
  <2>7. ParaDevPhase' = "idle"
    BY <2>1, <2>5, <2>6 DEF ParaDevPhase, ParaDevEnded
  <2>8. ParaDevAsked' = ParaDevAsked /\ ParaDevFound' = ParaDevFound
    BY <2>1, <2>5 DEF ParaDevAsked, ParaDevFound
  <2>9. ParaDevSure = TRUE /\ ParaDevSure' = TRUE
    BY <2>4, <2>7 DEF ParaDevSure
  <2> QED BY <2>4, <2>7, <2>8, <2>9 DEF ParaDevMoves
<1>3. CASE Para!InitAgain
  <2>1. paraPc = "header" /\ UNCHANGED <<paraRow, paraResult, paraBuf, paraClean, paraSilent>>
    BY <1>3 DEF Para!InitAgain, Para!request
  <2>2. paraRow \notin ParaPages
    BY <2>1 DEF ParaInv, ParaCore, ParaSetUpInv
  <2>3. paraRow \in {Para!None, Para!Reset}
    BY <2>2 DEF ParaInv, ParaCore, ParaTypeInv
  <2>4. ~(paraRow > Para!None)
    BY <2>3 DEF Para!None, Para!Reset
  <2>5. ParaDevPhase' = ParaDevPhase
    BY <2>1, <2>4 DEF ParaDevPhase
  <2>6. UNCHANGED <<ParaDevAsked, ParaDevFound>>
    BY <2>1 DEF ParaDevAsked, ParaDevFound
  <2>7. ParaDevSure' = ParaDevSure
    BY <2>1, <2>5 DEF ParaDevSure
  <2> QED BY <2>5, <2>6, <2>7 DEF ParaDevMoves
<1>4. CASE Para!Call
  <2>1. paraPc = "idle" /\ paraPc' = "check" /\ paraRow' \in ParaPages /\ paraResult' = "none"
    BY <1>4 DEF Para!Call
  <2>2. ParaDevPhase \in {"idle", "good", "failed"}
    BY <2>1 DEF ParaDevPhase, ParaDevEnded, ParaInv, ParaDataInv
  <2>3. paraRow' > Para!None
    BY <2>1 DEF Para!ParaNandAssumption, Para!None
  <2>4. ParaDevPhase' = "reading" /\ ParaDevAsked' = paraRow'
    BY <2>1, <2>3 DEF ParaDevPhase, ParaDevAsked
  <2>5. ParaDevFound' \in ParaPages \cup {Para!None}
    BY ParaDevFoundHeld
  <2> QED BY <2>1, <2>2, <2>4, <2>5 DEF ParaDevMoves
<1>5. CASE Para!CheckStatus
  <2>1. paraPc = "check" /\ paraPc' \in {"abort", "header", "data"} /\ UNCHANGED <<paraRow, paraResult, paraBuf>>
    BY <1>5 DEF Para!CheckStatus, Para!Checked, Para!Behind
  <2> QED BY <2>1, ParaDevWorks
<1>6. CASE Para!CheckTimeout
  <2>1. paraPc = "check" /\ paraPc' \in {"header", "data"} /\ UNCHANGED <<paraRow, paraResult, paraBuf>>
    BY <1>6 DEF Para!CheckTimeout, Para!Checked, Para!Behind
  <2> QED BY <2>1, ParaDevWorks
<1>7. CASE Para!Abort
  <2>1. paraPc = "abort" /\ paraPc' = "abort check" /\ UNCHANGED <<paraRow, paraResult, paraBuf>>
    BY <1>7 DEF Para!Abort, Para!request
  <2> QED BY <2>1, ParaDevWorks
<1>8. CASE Para!AbortChecked
  <2>1. paraPc = "abort check" /\ paraPc' \in {"abort", "header", "data"} /\ UNCHANGED <<paraRow, paraResult, paraBuf>>
    BY <1>8 DEF Para!AbortChecked, Para!Behind
  <2> QED BY <2>1, ParaDevWorks
<1>9. CASE Para!DataRead
  <2>1. paraPc = "data" /\ paraRow' = paraRow /\ Para!After(paraBuf')
    BY <1>9 DEF Para!DataRead
  <2>2. paraPc' \in {"second", "idle"} /\ (paraPc' = "idle" => paraResult' \in {"ok", "fail"})
    BY <2>1 DEF Para!After
  <2> QED BY <2>1, <2>2, ParaDevAfter
<1>10. CASE Para!DataTimeout
  <2>1. paraPc = "data" /\ paraRow' = paraRow /\ Para!After(paraBuf)
    BY <1>10 DEF Para!DataTimeout
  <2>2. paraPc' \in {"second", "idle"} /\ (paraPc' = "idle" => paraResult' \in {"ok", "fail"})
    BY <2>1 DEF Para!After
  <2> QED BY <2>1, <2>2, ParaDevAfter
<1>11. CASE Para!SecondRead
  <2>1. paraPc = "second" /\ paraPc' = "check" /\ UNCHANGED <<paraRow, paraResult, paraBuf>>
    BY <1>11 DEF Para!SecondRead
  <2> QED BY <2>1, ParaDevWorks
<1>12. CASE Para!Finish
  <2>1. paraPc = "idle" /\ paraPc' = "over" /\ UNCHANGED <<paraRow, paraResult, paraBuf, paraClean, paraSilent>>
    BY <1>12 DEF Para!Finish, Para!request
  <2> QED BY <2>1, ParaDevStill
<1>13. CASE Para!Execute
  <2>1. paraPc' = paraPc /\ UNCHANGED <<paraRow, paraResult, paraBuf, paraClean, paraSilent>>
    BY <1>13 DEF Para!Execute, Para!request
  <2> QED BY <2>1, ParaDevStill
<1> QED
  BY <1>1, <1>2, <1>3, <1>4, <1>5, <1>6, <1>7, <1>8, <1>9, <1>10, <1>11, <1>12, <1>13 DEF
     Para!Next, Para!Driver

-----------------------------------------------------------------------------
(* EhciEnum                                                                 *)
EnumWhere == {Enum!Root} \cup Enum!Ports

EnumTypeInv ==
    /\ enumAt \in [EnumWhere -> Enum!Things \cup {"hub"}] /\ enumAddr \in [EnumWhere -> Int]
    /\ enumPortNum \in Nat /\ enumIsHub \in {0, 1} /\ enumRet \in Int /\ enumOutlasted \subseteq Enum!Ports
    /\ \A p \in Enum!Ports : enumAt[p] # "hub"
    /\ enumAt[Enum!Root] # "hub" => \A p \in Enum!Ports : enumAt[p] = "none"

EnumEarly == {"power", "detect", "root", "hub", "first"}
EnumAsksHub == {"hub", "first", "scan", "connection", "resetting", "speed"}
EnumAtPort == {"connection", "resetting", "speed", "default", "class"}
EnumAtZero == {"resetting", "speed", "default", "reset"}

EnumHubReady == enumAddr[Enum!Root] = Enum!DeviceAddress /\ enumAt[Enum!Root] = "hub"

(* The device on a port whose reset ended in time has no address, the one   *)
(* of its place or, while it is being enumerated, the default one.  The hub *)
(* has an address before any port can have the default one.                 *)
EnumAddrInv ==
    /\ enumAddr[Enum!Root] \in {Enum!NoAddress, 0, Enum!DeviceAddress}
    /\ enumAddr[Enum!Root] = 0 => enumPc \in {"root", "reset"}
    /\ \A p \in Enum!Ports : enumAddr[p] # Enum!DeviceAddress
    /\ \A p \in Enum!Ports \ enumOutlasted :
         enumAddr[p] \in {Enum!NoAddress, Enum!DeviceAddress + p} \/ (enumAddr[p] = 0 /\ p = enumPortNum /\ enumPc \in EnumAtZero)
    /\ \A p \in Enum!Ports : enumAddr[p] = 0 => enumAt[p] # "slow" /\ enumAddr[Enum!Root] = Enum!DeviceAddress
    /\ enumPc \in EnumEarly => enumOutlasted = {}
    /\ enumOutlasted # {} => EnumHubReady

(* Who is asked, by what the driver does.                                   *)
EnumAskedInv ==
    /\ enumPc = "root" => enumEHCIAddr = 0 /\ enumAddr[Enum!Root] = 0
    /\ enumPc \in EnumAsksHub => enumEHCIAddr = Enum!DeviceAddress
    /\ enumPc \in EnumAsksHub \cup EnumAtPort => EnumHubReady /\ enumIsHub = 1
    /\ enumPc \in EnumAtPort => enumPortNum \in Enum!Ports
    /\ enumPc = "default" => enumEHCIAddr = 0
    /\ enumPc = "class" => enumEHCIAddr = Enum!DeviceAddress + enumPortNum
    /\ enumPc = "storage" /\ enumIsHub = 1 => EnumHubReady /\ enumPortNum \in Enum!Ports /\ enumEHCIAddr = Enum!DeviceAddress + enumPortNum
    /\ enumPc = "return" /\ enumRet > 0 => EnumHubReady

(* The disks on the ports before port n have been handed on or were late,   *)
(* up to the first port whose reset outlasted the driver's wait.            *)
EnumPast(n) ==
    /\ \A q \in enumOutlasted : q <= n
    /\ \A p \in Enum!Ports : p < n /\ enumAt[p] = "disk" => p \in enumGot \cup enumLate \/ \E q \in enumOutlasted : q <= p

EnumSeenInv ==
    /\ enumPc \in (EnumAsksHub \cup EnumAtPort) \ {"hub"} => enumPowered = Enum!Ports /\ EnumPast(enumPortNum)
    /\ enumPc = "storage" /\ enumIsHub = 1 => enumPowered = Enum!Ports /\ EnumPast(enumPortNum)
    /\ enumPc = "return" /\ enumRet > 0 => enumPowered = Enum!Ports /\ EnumPast(enumRet)
    /\ Enum!NoDiskMissed

EnumInv == EnumTypeInv /\ EnumAddrInv /\ EnumAskedInv /\ EnumSeenInv

-----------------------------------------------------------------------------
LEMMA EnumPlaces ==
    ASSUME Enum!EhciEnumAssumption
    PROVE  /\ NumberOfPorts \in Nat \ {0} /\ Enum!Root \in EnumWhere /\ Enum!Root \notin Enum!Ports /\ Enum!Ports \subseteq EnumWhere
           /\ Enum!Ports \subseteq Nat \ {0} /\ \A p \in EnumWhere : p \in Enum!Ports \/ p = Enum!Root
BY DEF EnumWhere, Enum!Root, Enum!Ports, Enum!EhciEnumAssumption

(* The invariant keeps addresses apart.                                     *)
LEMMA EnumAddrApart ==
    ASSUME Enum!EhciEnumAssumption, EnumTypeInv, EnumAddrInv
    PROVE  Enum!AddressesUnique
<1> SUFFICES ASSUME NEW p \in EnumWhere, NEW q \in EnumWhere, p # q, enumAddr[p] # Enum!NoAddress, enumAddr[p] = enumAddr[q]
             PROVE  Enum!Root \notin {p, q} /\ {p, q} \cap enumOutlasted # {}
  BY DEF Enum!AddressesUnique, EnumTypeInv
<1>1. p # Enum!Root /\ q # Enum!Root
  <2>1. ASSUME NEW r \in Enum!Ports, enumAddr[Enum!Root] # Enum!NoAddress, enumAddr[r] = enumAddr[Enum!Root]
        PROVE  FALSE
    BY <2>1 DEF EnumAddrInv, Enum!DeviceAddress
  <2> QED BY <2>1, EnumPlaces
<1>2. ASSUME p \notin enumOutlasted, q \notin enumOutlasted
      PROVE  FALSE
  <2>1. p \in Enum!Ports \ enumOutlasted /\ q \in Enum!Ports \ enumOutlasted /\ p \in Nat /\ q \in Nat
    BY <1>1, <1>2, EnumPlaces
  <2> QED BY <2>1 DEF EnumAddrInv, Enum!DeviceAddress
<1> QED BY <1>1, <1>2

(* A device that answers at the address of port n is there, or came late.   *)
LEMMA EnumAnswerAt ==
    ASSUME Enum!EhciEnumAssumption, EnumTypeInv, EnumAddrInv, NEW n \in Enum!Ports, enumEHCIAddr = Enum!DeviceAddress + n,
           NEW p \in Enum!Answers
    PROVE  p \in Enum!Ports /\ (p = n \/ p \in enumOutlasted)
<1>1. p \in EnumWhere /\ enumAddr[p] = Enum!DeviceAddress + n
  BY DEF Enum!Answers, EnumTypeInv
<1>2. n \in Nat \ {0}
  BY EnumPlaces
<1>3. p \in Enum!Ports
  BY <1>1, <1>2, EnumPlaces DEF EnumAddrInv, Enum!DeviceAddress, Enum!NoAddress
<1>4. p \in Nat
  BY <1>3, EnumPlaces
<1> QED BY <1>1, <1>2, <1>3, <1>4 DEF EnumAddrInv, Enum!DeviceAddress, Enum!NoAddress

LEMMA EnumInitInv ==
    ASSUME Enum!EhciEnumAssumption, Enum!Init
    PROVE  EnumInv
<1>1. enumAt \in [EnumWhere -> Enum!Things \cup {"hub"}] /\ enumAddr \in [EnumWhere -> Int] /\ \A p \in EnumWhere : enumAddr[p] = Enum!NoAddress
  BY DEF Enum!Init, EnumWhere, Enum!NoAddress
<1>2. EnumTypeInv
  BY <1>1 DEF Enum!Init, EnumTypeInv, EnumWhere
<1>3. EnumAddrInv
  BY <1>1, EnumPlaces DEF Enum!Init, EnumAddrInv, Enum!NoAddress, Enum!DeviceAddress
<1>4. EnumAskedInv /\ EnumSeenInv
  BY DEF Enum!Init, EnumAskedInv, EnumSeenInv, Enum!NoDiskMissed, EnumAsksHub, EnumAtPort
<1> QED BY <1>2, <1>3, <1>4 DEF EnumInv

(* When no address, no port and no wait changes, neither does the rest      *)
(* that is known of the addresses.                                          *)
LEMMA EnumAddrKept ==
    ASSUME Enum!EhciEnumAssumption, EnumAddrInv, UNCHANGED <<enumAt, enumAddr, enumOutlasted>>,
           enumAddr[Enum!Root] = 0 => enumPc' \in {"root", "reset"},
           \A p \in Enum!Ports \ enumOutlasted : enumAddr[p] = 0 => p = enumPortNum' /\ enumPc' \in EnumAtZero,
           enumPc' \in EnumEarly => enumOutlasted = {}
    PROVE  EnumAddrInv'
<1>1. \A p \in Enum!Ports \ enumOutlasted : enumAddr[p] \in {Enum!NoAddress, 0, Enum!DeviceAddress + p}
  BY DEF EnumAddrInv
<1> QED BY <1>1 DEF EnumAddrInv, EnumHubReady
-----------------------------------------------------------------------------
LEMMA EnumNextInv ==
    ASSUME Enum!EhciEnumAssumption, EnumInv, [Enum!Next]_(Enum!vars)
    PROVE  EnumInv'
<1> USE DEF EnumInv
<1>0. /\ NumberOfPorts \in Nat \ {0} /\ Enum!Root \in EnumWhere /\ Enum!Root \notin Enum!Ports /\ Enum!Ports \subseteq EnumWhere
      /\ Enum!Ports \subseteq Nat \ {0} /\ \A p \in EnumWhere : p \in Enum!Ports \/ p = Enum!Root
  BY EnumPlaces
<1>1. CASE UNCHANGED Enum!vars
  BY <1>1 DEF Enum!vars, Enum!scan, EnumTypeInv, EnumAddrInv, EnumAskedInv, EnumSeenInv,
     EnumHubReady, EnumPast, Enum!NoDiskMissed
<1>2. CASE Enum!Power
  <2>1. /\ enumPc = "power" /\ enumPc' = "detect" /\ enumAddr' = [p \in DOMAIN enumAddr |-> Enum!NoAddress]
        /\ UNCHANGED <<enumAt, Enum!scan, enumRet, enumGot, enumLate, enumOutlasted>>
    BY <1>2 DEF Enum!Power
  <2>2. enumAddr' \in [EnumWhere -> Int] /\ \A p \in EnumWhere : enumAddr'[p] = Enum!NoAddress
    BY <2>1 DEF EnumTypeInv, Enum!NoAddress
  <2>3. enumOutlasted = {}
    BY <2>1 DEF EnumAddrInv, EnumEarly
  <2>4. EnumTypeInv' /\ EnumAddrInv'
    BY <1>0, <2>1, <2>2, <2>3 DEF EnumTypeInv, EnumAddrInv, Enum!scan, Enum!NoAddress,
       Enum!DeviceAddress
  <2> QED BY <2>1, <2>4 DEF EnumAskedInv, EnumSeenInv, Enum!NoDiskMissed, EnumAsksHub,
     EnumAtPort
<1>3. CASE Enum!NoDevice
  <2>1. /\ enumPc' = "return" /\ enumRet' = -1 /\ enumPc = "detect" /\ enumAt[Enum!Root] = "none"
        /\ UNCHANGED <<enumAt, enumAddr, enumPowered, enumLate, Enum!scan, enumEHCIAddr, enumGot, enumAgain, enumOutlasted>>
    BY <1>3 DEF Enum!NoDevice, Enum!Return
  <2>2. EnumTypeInv'
    BY <2>1 DEF EnumTypeInv, Enum!scan
  <2>3. EnumAddrInv'
    BY <2>1, EnumAddrKept DEF EnumAddrInv, EnumAtZero, EnumEarly
  <2>4. \A p \in DOMAIN enumAt : enumAt[p] # "disk"
    BY <1>0, <2>1 DEF EnumTypeInv
  <2> QED BY <2>1, <2>2, <2>3, <2>4 DEF EnumAskedInv, EnumSeenInv, Enum!NoDiskMissed,
     EnumAsksHub, EnumAtPort
<1>4. CASE Enum!Detected
  <2>1. /\ enumPc = "detect" /\ enumPc' = "root" /\ enumAddr' = [enumAddr EXCEPT ![Enum!Root] = 0] /\ enumEHCIAddr' = 0
        /\ UNCHANGED <<enumAt, enumPowered, enumLate, Enum!scan, enumRet, enumGot, enumAgain, enumOutlasted>>
    BY <1>4 DEF Enum!Detected
  <2>2. enumOutlasted = {}
    BY <2>1 DEF EnumAddrInv, EnumEarly
  <2>3. enumAddr' \in [EnumWhere -> Int] /\ enumAddr'[Enum!Root] = 0 /\ \A p \in Enum!Ports : enumAddr'[p] = enumAddr[p]
    BY <1>0, <2>1 DEF EnumTypeInv
  <2>4. \A p \in Enum!Ports : enumAddr[p] \in {Enum!NoAddress, Enum!DeviceAddress + p}
    BY <2>1, <2>2 DEF EnumAddrInv, EnumAtZero
  <2>5. \A p \in Enum!Ports : enumAddr'[p] # 0 /\ enumAddr'[p] # Enum!DeviceAddress
    BY <1>0, <2>3, <2>4 DEF Enum!DeviceAddress, Enum!NoAddress
  <2>6. EnumTypeInv' /\ EnumAddrInv'
    BY <1>0, <2>1, <2>2, <2>3, <2>4, <2>5 DEF EnumTypeInv, EnumAddrInv, Enum!scan
  <2> QED BY <2>1, <2>3, <2>6 DEF EnumAskedInv, EnumSeenInv, Enum!NoDiskMissed, EnumAsksHub,
     EnumAtPort
<1>5. CASE Enum!NotHighSpeed \/ Enum!BootReset
  <2>1. /\ enumPc' \in {"power", "reset"} /\ (enumPc' # "reset" => enumPc = "detect")
        /\ UNCHANGED <<enumAt, enumAddr, enumPowered, enumLate, Enum!scan, enumEHCIAddr, enumRet, enumGot, enumOutlasted>>
    BY <1>5 DEF Enum!NotHighSpeed, Enum!BootReset
  <2>2. EnumTypeInv'
    BY <2>1 DEF EnumTypeInv, Enum!scan
  <2>3. EnumAddrInv'
    <3>1. UNCHANGED <<enumAt, enumAddr, enumOutlasted>> /\ enumPortNum' = enumPortNum
      BY <2>1 DEF Enum!scan
    <3>2. enumAddr[Enum!Root] = 0 => enumPc' \in {"root", "reset"}
      BY <2>1 DEF EnumAddrInv
    <3>3. \A p \in Enum!Ports \ enumOutlasted : enumAddr[p] = 0 => p = enumPortNum /\ enumPc' \in EnumAtZero
      BY <2>1 DEF EnumAddrInv, EnumAtZero, Enum!DeviceAddress, Enum!NoAddress, Enum!Ports
    <3>4. enumPc' \in EnumEarly => enumOutlasted = {}
      BY <2>1 DEF EnumAddrInv, EnumEarly
    <3> QED BY <3>1, <3>2, <3>3, <3>4, EnumAddrKept
  <2> QED BY <2>1, <2>2, <2>3 DEF EnumAskedInv, EnumSeenInv, Enum!NoDiskMissed, EnumAsksHub,
     EnumAtPort
<1>6. CASE Enum!SetRootAddress
  <2>1. PICK p \in Enum!Answers :
          /\ enumAddr' = [enumAddr EXCEPT ![p] = Enum!DeviceAddress]
          /\ \/ enumAt[p] = "disk" /\ enumPc' = "storage" /\ enumIsHub' = 0 /\ UNCHANGED enumRet
             \/ enumAt[p] = "hub" /\ enumPc' = "hub" /\ enumIsHub' = 1 /\ UNCHANGED enumRet
             \/ enumAt[p] \notin {"disk", "hub"} /\ Enum!Return(-1) /\ enumIsHub' = 0
    BY <1>6 DEF Enum!SetRootAddress
  <2>2. /\ enumPc = "root" /\ enumEHCIAddr' = Enum!DeviceAddress
        /\ UNCHANGED <<enumAt, enumPowered, enumLate, enumPortNum, enumNextPortInHub, enumDct, enumGot, enumAgain, enumOutlasted>>
    BY <1>6 DEF Enum!SetRootAddress
  <2>3. enumOutlasted = {} /\ enumEHCIAddr = 0 /\ enumAddr[Enum!Root] = 0
    BY <2>2 DEF EnumAddrInv, EnumEarly, EnumAskedInv
  <2>4. \A r \in Enum!Ports : enumAddr[r] # 0
    BY <2>3 DEF EnumAddrInv, Enum!DeviceAddress
  <2>5. p = Enum!Root
    BY <1>0, <2>1, <2>3, <2>4 DEF Enum!Answers, EnumTypeInv
  <2>6. enumAddr' \in [EnumWhere -> Int] /\ enumAddr'[Enum!Root] = Enum!DeviceAddress /\ \A r \in Enum!Ports : enumAddr'[r] = enumAddr[r]
    BY <1>0, <2>1, <2>5 DEF EnumTypeInv, Enum!DeviceAddress
  <2>7. \/ enumAt[Enum!Root] = "disk" /\ enumPc' = "storage" /\ enumIsHub' = 0 /\ enumRet' = enumRet
        \/ enumAt[Enum!Root] = "hub" /\ enumPc' = "hub" /\ enumIsHub' = 1 /\ enumRet' = enumRet
        \/ enumAt[Enum!Root] \notin {"disk", "hub"} /\ enumRet' = -1 /\ enumPc' = "return" /\ enumIsHub' = 0
    BY <2>1, <2>5 DEF Enum!Return
  <2>8. EnumTypeInv'
    BY <2>2, <2>6, <2>7 DEF EnumTypeInv
  <2>9. EnumAddrInv'
    BY <2>2, <2>3, <2>4, <2>6 DEF EnumAddrInv, Enum!DeviceAddress
  <2>10. enumAt[Enum!Root] \notin {"disk", "hub"} => \A r \in DOMAIN enumAt : enumAt[r] # "disk"
    BY <1>0 DEF EnumTypeInv
  <2>11. EnumAskedInv'
    BY <2>2, <2>6, <2>7 DEF EnumAskedInv, EnumHubReady, EnumAsksHub, EnumAtPort
  <2>12. EnumSeenInv'
    BY <2>2, <2>7, <2>10 DEF EnumSeenInv, Enum!NoDiskMissed, EnumAsksHub, EnumAtPort
  <2> QED BY <2>8, <2>9, <2>11, <2>12
<1>7. CASE Enum!PowerPorts
  <2>1. /\ enumPc = "hub" /\ enumPc' = "first" /\ enumPowered' = Enum!Ports /\ enumPortNum' = 1
        /\ UNCHANGED <<enumAt, enumAddr, enumLate, enumIsHub, enumNextPortInHub, enumDct, enumEHCIAddr, enumRet, enumGot, enumAgain, enumOutlasted>>
    BY <1>7 DEF Enum!PowerPorts
  <2>2. enumOutlasted = {}
    BY <2>1 DEF EnumAddrInv, EnumEarly
  <2>3. EnumAddrInv'
    BY <2>1, <2>2, EnumAddrKept DEF EnumAddrInv, EnumAtZero
  <2>4. EnumTypeInv' /\ EnumAskedInv'
    BY <1>0, <2>1 DEF EnumTypeInv, EnumAskedInv, EnumHubReady, EnumAsksHub, EnumAtPort
  <2>5. EnumPast(1)'
    BY <1>0, <2>1, <2>2 DEF EnumPast
  <2> QED BY <2>1, <2>3, <2>4, <2>5 DEF EnumSeenInv, Enum!NoDiskMissed, EnumAsksHub, EnumAtPort
<1>8. ASSUME NEW seen \in BOOLEAN, enumPc \in {"first", "scan"}, enumPortNum <= NumberOfPorts,
             seen \in Enum!Seen(enumPortNum),
             IF seen THEN enumPc' = "connection" /\ enumPortNum' = enumPortNum ELSE enumPc' = enumPc /\ enumPortNum' = enumPortNum + 1,
             UNCHANGED <<enumAt, enumAddr, enumPowered, enumLate, enumIsHub, enumNextPortInHub, enumDct, enumEHCIAddr, enumRet, enumGot, enumAgain,
                         enumOutlasted>>
      PROVE  EnumInv'
  <2>1. enumPowered = Enum!Ports /\ EnumPast(enumPortNum) /\ EnumHubReady /\ enumIsHub = 1 /\ enumEHCIAddr = Enum!DeviceAddress
    BY <1>8 DEF EnumSeenInv, EnumAskedInv, EnumAsksHub, EnumAtPort
  <2>2. enumAddr[Enum!Root] # 0 /\ \A p \in Enum!Ports \ enumOutlasted : enumAddr[p] # 0
    BY <1>0, <1>8, <2>1 DEF EnumAddrInv, EnumHubReady, Enum!DeviceAddress, Enum!NoAddress,
       EnumAtZero
  <2>3. EnumAddrInv'
    BY <1>8, <2>2, EnumAddrKept DEF EnumAddrInv, EnumEarly
  <2>4. EnumTypeInv'
    BY <1>0, <1>8 DEF EnumTypeInv
  <2>5. CASE seen
    <3>1. enumPortNum \in Enum!Ports
      BY <1>8, <2>1, <2>5 DEF Enum!Seen
    <3> QED
      BY <1>8, <2>1, <2>3, <2>4, <2>5, <3>1 DEF EnumSeenInv, EnumAskedInv, EnumHubReady,
         EnumPast, Enum!NoDiskMissed, EnumAsksHub, EnumAtPort
  <2>6. CASE ~seen
    <3>1. enumPortNum \in Enum!Ports /\ enumAt[enumPortNum] = "disk" => enumPortNum \in enumLate
      BY <1>8, <2>1, <2>6 DEF Enum!Seen
    <3>2. EnumPast(enumPortNum)'
      <4>1. ASSUME NEW p \in Enum!Ports, p < enumPortNum + 1, enumAt[p] = "disk"
            PROVE  p \in enumGot \cup enumLate \/ \E q \in enumOutlasted : q <= p
        <5>1. p < enumPortNum \/ p = enumPortNum
          BY <1>0, <4>1 DEF EnumTypeInv
        <5> QED BY <2>1, <3>1, <4>1, <5>1 DEF EnumPast
      <4>2. ASSUME NEW q \in enumOutlasted
            PROVE  q <= enumPortNum + 1
        <5>1. q <= enumPortNum /\ q \in Nat /\ enumPortNum \in Nat
          BY <1>0, <2>1 DEF EnumPast, EnumTypeInv
        <5> QED BY <5>1
      <4>3. enumPortNum' = enumPortNum + 1
        BY <1>8, <2>6
      <4> QED BY <1>8, <4>1, <4>2, <4>3 DEF EnumPast
    <3> QED BY <1>8, <2>1, <2>3, <2>4, <2>6, <3>2 DEF EnumSeenInv, EnumAskedInv, EnumHubReady,
       Enum!NoDiskMissed, EnumAsksHub, EnumAtPort
  <2> QED BY <2>5, <2>6
<1>9. CASE Enum!FirstLook
  <2>1. CASE enumPc = "first" /\ enumPortNum <= NumberOfPorts
    <3>1. PICK seen \in Enum!Seen(enumPortNum) :
            /\ enumPc' = IF seen THEN "connection" ELSE "first"
            /\ enumPortNum' = IF seen THEN enumPortNum ELSE enumPortNum + 1
      BY <1>0, <1>9, <2>1 DEF Enum!FirstLook, EnumTypeInv
    <3>2. seen \in BOOLEAN
      BY DEF Enum!Seen
    <3>3. UNCHANGED <<enumAt, enumAddr, enumPowered, enumLate, enumIsHub, enumNextPortInHub, enumDct, enumEHCIAddr, enumRet, enumGot, enumAgain, enumOutlasted>>
      BY <1>9 DEF Enum!FirstLook
    <3> QED BY <1>8, <2>1, <3>1, <3>2, <3>3
  <2>2. CASE /\ enumPc = "first" /\ enumPc' = "scan" /\ enumPortNum' = 1
             /\ UNCHANGED <<enumAt, enumAddr, enumPowered, enumLate, enumIsHub, enumNextPortInHub, enumDct, enumEHCIAddr, enumRet, enumGot, enumAgain,
                            enumOutlasted>>
    <3>1. enumOutlasted = {}
      BY <2>2 DEF EnumAddrInv, EnumEarly
    <3>2. EnumAddrInv'
      BY <2>2, <3>1, EnumAddrKept DEF EnumAddrInv, EnumAtZero
    <3>3. EnumTypeInv' /\ EnumAskedInv'
      BY <1>0, <2>2 DEF EnumTypeInv, EnumAskedInv, EnumHubReady, EnumAsksHub, EnumAtPort
    <3>4. EnumPast(1)'
      BY <1>0, <2>2, <3>1 DEF EnumPast
    <3> QED BY <2>2, <3>2, <3>3, <3>4 DEF EnumSeenInv, Enum!NoDiskMissed, EnumAsksHub,
       EnumAtPort
  <2> QED BY <1>9, <2>1, <2>2 DEF Enum!FirstLook, EnumTypeInv
<1>10. CASE Enum!Scan
  <2>1. PICK seen \in Enum!Seen(enumPortNum) :
          /\ enumPc' = IF seen THEN "connection" ELSE "scan"
          /\ enumPortNum' = IF seen THEN enumPortNum ELSE enumPortNum + 1
    BY <1>10 DEF Enum!Scan
  <2>2. seen \in BOOLEAN
    BY DEF Enum!Seen
  <2> QED BY <1>8, <1>10, <2>1, <2>2 DEF Enum!Scan
<1>11. CASE Enum!NoMorePorts
  <2>1. /\ enumPc = "scan" /\ enumPortNum > NumberOfPorts /\ enumPc' = "return" /\ enumRet' = -1
        /\ UNCHANGED <<enumAt, enumAddr, enumPowered, enumLate, Enum!scan, enumEHCIAddr, enumGot, enumAgain, enumOutlasted>>
    BY <1>11 DEF Enum!NoMorePorts, Enum!Return
  <2>2. EnumTypeInv'
    BY <2>1 DEF EnumTypeInv, Enum!scan
  <2>3. EnumPast(enumPortNum) /\ EnumHubReady
    BY <2>1 DEF EnumSeenInv, EnumAskedInv, EnumAsksHub, EnumAtPort
  <2>4. EnumAddrInv'
    BY <2>1, <2>3, EnumAddrKept DEF EnumAddrInv, EnumHubReady, Enum!DeviceAddress,
       Enum!NoAddress, EnumAtZero, EnumEarly
  <2>5. \A p \in DOMAIN enumAt : enumAt[p] = "disk" => p \in enumGot \cup enumLate \/ \E q \in enumOutlasted : q <= p
    <3>1. \A p \in Enum!Ports : p < enumPortNum
      BY <1>0, <2>1 DEF Enum!Ports, EnumTypeInv
    <3> QED BY <1>0, <2>3, <3>1 DEF EnumPast, EnumTypeInv, EnumHubReady
  <2> QED BY <2>1, <2>2, <2>4, <2>5 DEF EnumAskedInv, EnumSeenInv, Enum!NoDiskMissed,
     EnumAsksHub, EnumAtPort
<1>12. CASE Enum!ResetPort
  <2>1. /\ enumPc = "connection" /\ enumPc' = "resetting" /\ enumAddr' = [enumAddr EXCEPT ![enumPortNum] = Enum!NoAddress]
        /\ UNCHANGED <<enumAt, enumPowered, enumLate, enumIsHub, enumPortNum, enumNextPortInHub, enumEHCIAddr, enumRet, enumGot, enumAgain, enumOutlasted>>
    BY <1>12 DEF Enum!ResetPort
  <2>2. enumPortNum \in Enum!Ports /\ EnumHubReady
    BY <2>1 DEF EnumAskedInv, EnumAtPort
  <2>3. /\ enumAddr' \in [EnumWhere -> Int] /\ enumAddr'[enumPortNum] = Enum!NoAddress
        /\ \A p \in EnumWhere \ {enumPortNum} : enumAddr'[p] = enumAddr[p]
    BY <1>0, <2>1, <2>2 DEF EnumTypeInv, Enum!NoAddress
  <2>4. \A p \in Enum!Ports \ enumOutlasted : enumAddr'[p] \in {Enum!NoAddress, Enum!DeviceAddress + p}
    BY <1>0, <2>1, <2>3 DEF EnumAddrInv, EnumAtZero
  <2>5. \A p \in Enum!Ports : enumAddr'[p] = Enum!NoAddress \/ enumAddr'[p] = enumAddr[p]
    BY <1>0, <2>3
  <2>6. enumAddr'[Enum!Root] = enumAddr[Enum!Root] /\ EnumHubReady'
    BY <1>0, <2>1, <2>2, <2>3 DEF EnumHubReady
  <2>7. EnumAddrInv'
    BY <2>1, <2>2, <2>4, <2>5, <2>6 DEF EnumAddrInv, EnumHubReady, EnumEarly, Enum!NoAddress,
       Enum!DeviceAddress
  <2>8. EnumTypeInv'
    BY <2>1, <2>3 DEF EnumTypeInv
  <2> QED BY <2>1, <2>2, <2>6, <2>7, <2>8 DEF EnumAskedInv, EnumSeenInv, EnumPast,
     Enum!NoDiskMissed, EnumAsksHub, EnumAtPort
<1>13. CASE Enum!PortEnabled
  <2>1. PICK q \in Enum!Ports :
          /\ Enum!InReset(q) /\ enumAddr[q] = Enum!NoAddress /\ enumAt[q] # "slow"
          /\ enumAddr' = [enumAddr EXCEPT ![q] = 0]
    BY <1>13 DEF Enum!PortEnabled
  <2>2. enumPc' = enumPc /\ UNCHANGED <<enumAt, enumPowered, enumLate, Enum!scan, enumEHCIAddr, enumRet, enumGot, enumAgain, enumOutlasted>>
    BY <1>13 DEF Enum!PortEnabled
  <2>3. EnumHubReady /\ (q \in enumOutlasted \/ (q = enumPortNum /\ enumPc = "resetting"))
    BY <2>1 DEF Enum!InReset, EnumAddrInv, EnumAskedInv, EnumAtPort
  <2>4. enumAddr' \in [EnumWhere -> Int] /\ enumAddr'[q] = 0 /\ \A p \in EnumWhere \ {q} : enumAddr'[p] = enumAddr[p]
    BY <1>0, <2>1 DEF EnumTypeInv
  <2>5. enumAddr'[Enum!Root] = enumAddr[Enum!Root] /\ EnumHubReady' /\ enumAddr[Enum!Root] = Enum!DeviceAddress
    BY <1>0, <2>2, <2>3, <2>4 DEF EnumHubReady
  <2>6. ASSUME NEW p \in Enum!Ports \ enumOutlasted
        PROVE  enumAddr'[p] \in {Enum!NoAddress, Enum!DeviceAddress + p} \/ (enumAddr'[p] = 0 /\ p = enumPortNum /\ enumPc \in EnumAtZero)
    BY <1>0, <2>3, <2>4 DEF EnumAddrInv, EnumAtZero
  <2>7. ASSUME NEW p \in Enum!Ports
        PROVE  enumAddr'[p] # Enum!DeviceAddress /\ (enumAddr'[p] = 0 => enumAt[p] # "slow")
    BY <1>0, <2>1, <2>4 DEF EnumAddrInv, Enum!DeviceAddress
  <2>8. EnumAddrInv'
    BY <2>2, <2>5, <2>6, <2>7 DEF EnumAddrInv, Enum!scan, Enum!DeviceAddress
  <2>9. EnumTypeInv'
    BY <2>2, <2>4 DEF EnumTypeInv, Enum!scan
  <2>10. EnumAskedInv'
    BY <2>2, <2>5 DEF EnumAskedInv, EnumHubReady, Enum!scan, EnumAddrInv, Enum!DeviceAddress
  <2> QED BY <2>2, <2>8, <2>9, <2>10 DEF EnumSeenInv, EnumPast, Enum!NoDiskMissed, Enum!scan
<1>14. CASE Enum!PollReset
  <2>1. /\ enumPc = "resetting" /\ enumPc' \in {"resetting", "speed"}
        /\ enumOutlasted' = enumOutlasted \/ enumOutlasted' = enumOutlasted \cup {enumPortNum}
        /\ UNCHANGED <<enumAt, enumAddr, enumPowered, enumLate, enumIsHub, enumPortNum, enumNextPortInHub, enumEHCIAddr, enumRet, enumGot, enumAgain>>
    BY <1>14 DEF Enum!PollReset
  <2>2. enumPortNum \in Enum!Ports /\ EnumHubReady /\ enumPowered = Enum!Ports /\ EnumPast(enumPortNum)
    BY <2>1 DEF EnumAskedInv, EnumSeenInv, EnumAsksHub, EnumAtPort
  <2>3. enumOutlasted \subseteq enumOutlasted' /\ enumOutlasted' \subseteq Enum!Ports /\ \A q \in enumOutlasted' : q <= enumPortNum
    <3>1. enumPortNum <= enumPortNum
      BY DEF EnumTypeInv
    <3>2. \A q \in enumOutlasted' : q \in enumOutlasted \/ q = enumPortNum
      BY <2>1
    <3>3. \A q \in enumOutlasted : q <= enumPortNum
      BY <2>2 DEF EnumPast
    <3>4. enumOutlasted \subseteq Enum!Ports
      BY DEF EnumTypeInv
    <3> QED BY <2>1, <2>2, <3>1, <3>2, <3>3, <3>4
  <2>4. EnumAddrInv'
    BY <2>1, <2>2, <2>3 DEF EnumAddrInv, EnumHubReady, EnumAtZero, EnumEarly
  <2>5. EnumPast(enumPortNum)'
    BY <2>1, <2>2, <2>3 DEF EnumPast
  <2> QED BY <2>1, <2>2, <2>3, <2>4, <2>5 DEF EnumTypeInv, EnumAskedInv, EnumSeenInv,
     EnumHubReady, Enum!NoDiskMissed, EnumAsksHub, EnumAtPort
<1>15. ASSUME enumPc \in {"speed", "class"}, enumPc' = "scan", enumPortNum' = enumPortNum + 1, enumEHCIAddr' = Enum!DeviceAddress,
              enumAt[enumPortNum] = "disk" => \E q \in enumOutlasted : q <= enumPortNum,
              \A p \in Enum!Ports \ enumOutlasted : enumAddr[p] # 0,
              UNCHANGED <<enumAt, enumAddr, enumPowered, enumLate, enumIsHub, enumNextPortInHub, enumDct, enumRet, enumGot, enumAgain, enumOutlasted>>
       PROVE  EnumInv'
  <2>1. EnumHubReady /\ enumIsHub = 1 /\ enumPowered = Enum!Ports /\ EnumPast(enumPortNum)
    BY <1>15 DEF EnumAskedInv, EnumSeenInv, EnumAsksHub, EnumAtPort
  <2>2. EnumAddrInv'
    BY <1>15, <2>1, EnumAddrKept DEF EnumHubReady, Enum!DeviceAddress, EnumEarly
  <2>3. EnumTypeInv' /\ EnumAskedInv'
    BY <1>0, <1>15, <2>1 DEF EnumTypeInv, EnumAskedInv, EnumHubReady, EnumAsksHub, EnumAtPort
  <2>4. ASSUME NEW p \in Enum!Ports, p < enumPortNum + 1, enumAt[p] = "disk"
        PROVE  p \in enumGot \cup enumLate \/ \E q \in enumOutlasted : q <= p
    <3>1. p < enumPortNum \/ p = enumPortNum
      BY <1>0, <2>4 DEF EnumTypeInv
    <3> QED BY <1>15, <2>1, <2>4, <3>1 DEF EnumPast
  <2>5. ASSUME NEW q \in enumOutlasted
        PROVE  q <= enumPortNum + 1
    <3>1. q <= enumPortNum /\ q \in Nat /\ enumPortNum \in Nat
      BY <1>0, <2>1 DEF EnumPast, EnumTypeInv
    <3> QED BY <3>1
  <2>6. EnumPast(enumPortNum)'
    BY <1>15, <2>4, <2>5 DEF EnumPast
  <2> QED BY <1>15, <2>1, <2>2, <2>3, <2>6 DEF EnumSeenInv, Enum!NoDiskMissed, EnumAsksHub,
     EnumAtPort
<1>16. CASE Enum!CheckSpeed
  <2>1. PICK slow \in Enum!SlowRead(enumPortNum) :
          IF slow THEN enumPc' = "scan" /\ enumPortNum' = enumPortNum + 1 /\ UNCHANGED enumEHCIAddr
          ELSE enumPc' = "default" /\ enumEHCIAddr' = 0 /\ UNCHANGED enumPortNum
    BY <1>16 DEF Enum!CheckSpeed
  <2>2. /\ enumPc = "speed"
        /\ UNCHANGED <<enumAt, enumAddr, enumPowered, enumLate, enumIsHub, enumNextPortInHub, enumDct, enumRet, enumGot, enumAgain, enumOutlasted>>
    BY <1>16 DEF Enum!CheckSpeed
  <2>3. enumPortNum \in Enum!Ports /\ enumEHCIAddr = Enum!DeviceAddress /\ EnumHubReady
    BY <2>2 DEF EnumAskedInv, EnumAsksHub, EnumAtPort
  <2>4. CASE ~slow
    <3>1. EnumAddrInv'
      BY <2>1, <2>2, <2>3, <2>4, EnumAddrKept DEF EnumAddrInv, EnumHubReady, Enum!DeviceAddress,
         Enum!NoAddress, EnumAtZero, EnumEarly
    <3>2. EnumTypeInv'
      BY <2>1, <2>2, <2>4 DEF EnumTypeInv
    <3> QED BY <2>1, <2>2, <2>3, <2>4, <3>1, <3>2 DEF EnumAskedInv, EnumSeenInv, EnumHubReady,
       EnumPast, Enum!NoDiskMissed, EnumAsksHub, EnumAtPort
  <2>5. CASE slow
    <3>1. enumPortNum \notin enumOutlasted => enumAt[enumPortNum] = "slow"
      BY <2>1, <2>5 DEF Enum!SlowRead
    <3>2. \A p \in Enum!Ports \ enumOutlasted : enumAddr[p] # 0
      BY <1>0, <3>1 DEF EnumAddrInv, Enum!DeviceAddress, Enum!NoAddress
    <3>3. enumPortNum <= enumPortNum
      BY DEF EnumTypeInv
    <3>4. enumAt[enumPortNum] = "disk" => \E q \in enumOutlasted : q <= enumPortNum
      BY <3>1, <3>3
    <3> QED BY <1>15, <2>1, <2>2, <2>3, <2>5, <3>2, <3>4
  <2> QED BY <2>4, <2>5
<1>17. CASE Enum!SetAddress
  <2>1. /\ enumPc = "default" /\ enumPc' = "class" /\ enumEHCIAddr' = Enum!DeviceAddress + enumPortNum
        /\ enumAddr' = [p \in DOMAIN enumAddr |-> IF p \in Enum!Answers THEN Enum!DeviceAddress + enumPortNum ELSE enumAddr[p]]
        /\ UNCHANGED <<enumAt, enumPowered, enumLate, Enum!scan, enumRet, enumGot, enumAgain, enumOutlasted>>
    BY <1>17 DEF Enum!SetAddress, Enum!NewAddress
  <2>2. enumPortNum \in Enum!Ports /\ EnumHubReady /\ enumEHCIAddr = 0 /\ enumPortNum \in Nat \ {0}
    BY <1>0, <2>1 DEF EnumAskedInv, EnumAtPort
  <2>3. Enum!DeviceAddress + enumPortNum \in Int /\ Enum!DeviceAddress + enumPortNum # 0 /\ Enum!DeviceAddress + enumPortNum # Enum!DeviceAddress
    BY <2>2 DEF Enum!DeviceAddress
  <2>4. \A p \in EnumWhere : enumAddr'[p] = IF enumAddr[p] = 0 THEN Enum!DeviceAddress + enumPortNum ELSE enumAddr[p]
    BY <2>1, <2>2 DEF Enum!Answers, EnumTypeInv
  <2>5. enumAddr' \in [EnumWhere -> Int]
    BY <2>1, <2>3 DEF EnumTypeInv
  <2>6. enumAddr'[Enum!Root] = Enum!DeviceAddress /\ EnumHubReady'
    BY <1>0, <2>1, <2>2, <2>4 DEF EnumHubReady, Enum!DeviceAddress
  <2>7. \A p \in Enum!Ports : enumAddr'[p] # 0 /\ enumAddr'[p] # Enum!DeviceAddress
    BY <1>0, <2>3, <2>4 DEF EnumAddrInv
  <2>8. \A p \in Enum!Ports \ enumOutlasted : enumAddr'[p] \in {Enum!NoAddress, Enum!DeviceAddress + p}
    BY <1>0, <2>4 DEF EnumAddrInv, Enum!DeviceAddress, Enum!NoAddress
  <2>9. EnumAddrInv'
    BY <2>1, <2>6, <2>7, <2>8 DEF EnumAddrInv, EnumEarly, Enum!DeviceAddress
  <2>10. EnumTypeInv'
    BY <2>1, <2>5 DEF EnumTypeInv, Enum!scan
  <2> QED BY <2>1, <2>2, <2>6, <2>9, <2>10 DEF EnumAskedInv, EnumSeenInv, EnumPast,
     Enum!NoDiskMissed, EnumAsksHub, EnumAtPort, Enum!scan
<1>18. CASE Enum!CheckClass
  <2>1. PICK p \in Enum!Answers :
          IF enumAt[p] = "disk" THEN enumPc' = "storage" /\ UNCHANGED <<enumPortNum, enumEHCIAddr>>
          ELSE enumPc' = "scan" /\ enumPortNum' = enumPortNum + 1 /\ enumEHCIAddr' = Enum!BackToHub
    BY <1>18 DEF Enum!CheckClass
  <2>2. /\ enumPc = "class" /\ enumPortNum \in Enum!Ports /\ enumEHCIAddr = Enum!DeviceAddress + enumPortNum
        /\ UNCHANGED <<enumAt, enumAddr, enumPowered, enumLate, enumIsHub, enumNextPortInHub, enumDct, enumRet, enumGot, enumAgain, enumOutlasted>>
    BY <1>18 DEF Enum!CheckClass, EnumAskedInv, EnumAtPort
  <2>3. EnumHubReady /\ EnumPast(enumPortNum)
    BY <2>2 DEF EnumAskedInv, EnumSeenInv, EnumAtPort, EnumAsksHub
  <2>4. \A r \in Enum!Ports \ enumOutlasted : enumAddr[r] # 0
    BY <1>0, <2>2 DEF EnumAddrInv, Enum!DeviceAddress, Enum!NoAddress, EnumAtZero
  <2>5. p = enumPortNum \/ p \in enumOutlasted
    BY <2>1, <2>2, EnumAnswerAt
  <2>6. CASE enumAt[p] = "disk"
    <3>1. EnumAddrInv'
      BY <2>1, <2>2, <2>3, <2>4, <2>6, EnumAddrKept DEF EnumHubReady, Enum!DeviceAddress,
         EnumEarly
    <3>2. EnumTypeInv'
      BY <2>1, <2>2, <2>6 DEF EnumTypeInv
    <3> QED BY <2>1, <2>2, <2>6, <3>1, <3>2 DEF EnumAskedInv, EnumSeenInv, EnumHubReady,
       EnumPast, Enum!NoDiskMissed, EnumAsksHub, EnumAtPort
  <2>7. CASE enumAt[p] # "disk"
    <3>1. enumAt[enumPortNum] = "disk" => \E q \in enumOutlasted : q <= enumPortNum
      BY <2>3, <2>5, <2>7 DEF EnumPast
    <3> QED BY <1>15, <2>1, <2>2, <2>4, <2>7, <3>1 DEF Enum!BackToHub
  <2> QED BY <2>6, <2>7
<1>19. CASE Enum!Storage
  <2>1. PICK p \in Enum!Answers : enumAt[p] = "disk" /\ enumGot' = enumGot \cup {p}
    BY <1>19 DEF Enum!Storage
  <2>2. /\ enumPc = "storage" /\ enumPc' = "return"
        /\ UNCHANGED <<enumAt, enumAddr, enumPowered, enumLate, enumIsHub, enumNextPortInHub, enumDct, enumEHCIAddr, enumAgain, enumOutlasted>>
    BY <1>19 DEF Enum!Storage, Enum!Return
  <2>3. \/ enumIsHub = 1 /\ enumPortNum' = enumPortNum + 1 /\ enumRet' = enumPortNum + 1
        \/ enumIsHub # 1 /\ enumPortNum' = enumPortNum /\ enumRet' = 0
    BY <1>19 DEF Enum!Storage, Enum!Return, Enum!NextPort
  <2>4. EnumAddrInv'
    BY <1>0, <2>2, EnumAddrKept DEF EnumAddrInv, EnumAtZero, EnumEarly, Enum!DeviceAddress,
       Enum!NoAddress
  <2>5. EnumTypeInv'
    BY <2>2, <2>3 DEF EnumTypeInv
  <2>6. CASE enumIsHub = 1
    <3>1. /\ EnumHubReady /\ enumPortNum \in Enum!Ports /\ enumEHCIAddr = Enum!DeviceAddress + enumPortNum /\ enumPowered = Enum!Ports
          /\ EnumPast(enumPortNum) /\ enumRet' = enumPortNum + 1
      BY <2>2, <2>3, <2>6 DEF EnumAskedInv, EnumSeenInv
    <3>2. p = enumPortNum \/ p \in enumOutlasted
      BY <2>1, <3>1, EnumAnswerAt
    <3>3. enumPortNum \in enumGot' \/ \E q \in enumOutlasted : q <= enumPortNum
      BY <2>1, <3>1, <3>2 DEF EnumPast
    <3>4. ASSUME NEW r \in Enum!Ports, r < enumPortNum + 1, enumAt[r] = "disk"
          PROVE  r \in enumGot' \cup enumLate \/ \E q \in enumOutlasted : q <= r
      <4>1. r < enumPortNum \/ r = enumPortNum
        BY <1>0, <3>4 DEF EnumTypeInv
      <4> QED BY <2>1, <3>1, <3>3, <3>4, <4>1 DEF EnumPast
    <3>5. ASSUME NEW q \in enumOutlasted
          PROVE  q <= enumPortNum + 1
      <4>1. q <= enumPortNum /\ q \in Nat /\ enumPortNum \in Nat
        BY <1>0, <3>1 DEF EnumPast, EnumTypeInv
      <4> QED BY <4>1
    <3>6. EnumPast(enumRet)'
      BY <2>2, <3>1, <3>4, <3>5 DEF EnumPast
    <3>7. enumRet' # -1
      BY <1>0, <3>1
    <3> QED BY <2>2, <2>4, <2>5, <3>1, <3>6, <3>7 DEF EnumAskedInv, EnumSeenInv, EnumHubReady,
       Enum!NoDiskMissed, EnumAsksHub, EnumAtPort
  <2>7. CASE enumIsHub # 1
    BY <2>2, <2>3, <2>4, <2>5, <2>7 DEF EnumAskedInv, EnumSeenInv, Enum!NoDiskMissed,
       EnumAsksHub, EnumAtPort
  <2> QED BY <2>6, <2>7
<1>20. CASE Enum!CallAgain
  <2>1. /\ enumPc = "return" /\ enumRet > 0 /\ enumPortNum' = enumRet /\ enumIsHub' = 1 /\ enumEHCIAddr' = Enum!DeviceAddress /\ enumPc' = "scan"
        /\ UNCHANGED <<enumAt, enumAddr, enumPowered, enumLate, enumDct, enumRet, enumGot, enumAgain, enumOutlasted>>
    BY <1>20 DEF Enum!CallAgain
  <2>2. EnumHubReady /\ enumPowered = Enum!Ports /\ EnumPast(enumRet)
    BY <2>1 DEF EnumAskedInv, EnumSeenInv
  <2>3. EnumAddrInv'
    BY <1>0, <2>1, <2>2, EnumAddrKept DEF EnumAddrInv, EnumHubReady, Enum!DeviceAddress,
       Enum!NoAddress, EnumAtZero, EnumEarly
  <2>4. EnumTypeInv'
    BY <2>1 DEF EnumTypeInv
  <2> QED BY <2>1, <2>2, <2>3, <2>4 DEF EnumAskedInv, EnumSeenInv, EnumHubReady, EnumPast,
     Enum!NoDiskMissed, EnumAsksHub, EnumAtPort
<1>21. CASE Enum!Stop
  <2>1. CASE /\ enumPc = "return" /\ enumPc' = "over"
             /\ UNCHANGED <<enumAt, enumAddr, enumPowered, enumLate, Enum!scan, enumEHCIAddr, enumRet, enumGot, enumAgain, enumOutlasted>>
    <3>1. EnumAddrInv'
      BY <1>0, <2>1, EnumAddrKept DEF EnumAddrInv, EnumAtZero, EnumEarly, Enum!DeviceAddress,
         Enum!NoAddress
    <3>2. EnumTypeInv'
      BY <2>1 DEF EnumTypeInv, Enum!scan
    <3> QED BY <2>1, <3>1, <3>2 DEF EnumAskedInv, EnumSeenInv, Enum!NoDiskMissed, EnumAsksHub,
       EnumAtPort
  <2> QED BY <1>1, <1>21, <2>1 DEF Enum!Stop
<1> QED
  BY <1>1, <1>2, <1>3, <1>4, <1>5, <1>6, <1>7, <1>9, <1>10, <1>11, <1>12, <1>13, <1>14, <1>16,
     <1>17, <1>18,
     <1>19, <1>20, <1>21
  DEF Enum!Next, Enum!Driver, Enum!Hub

-----------------------------------------------------------------------------
(* EhciMsc                                                                  *)
(* A long read has an even number of sectors (8), and its status makes the  *)
(* packets odd.                                                             *)
BotLongSectorsEven == LongSectors % 2 = 0

(* Where the device is, by what the driver does.  Stale: the device still   *)
(* has a status to send, so that it takes no further command.               *)
BotPhaseInv ==
    /\ botStale => botDevice.phase = "status" /\ botPc \notin {"data", "csw"}
    /\ botPc \in {"command", "out", "check", "next"} /\ ~botStale => Bot!InStep /\ botDevice.phase = "cbw"
    /\ botPc = "data" => Bot!InStep /\ botDevice.phase = "data" /\ Bot!HasData /\ botDevice.tag = botTag
    /\ botPc = "csw" => \/ botDevice.phase = "status" /\ (Bot!InStep \/ Bot!LongNow)
                        \/ botDevice.phase = "cbw" /\ Bot!InStep /\ Bot!LongNow /\ botTail = (IF botPassed THEN "ok" ELSE "failed")

(* What is in memory, by what the driver does.                              *)
BotDataInv ==
    /\ botPc \in {"csw", "check"} /\ botJob = "read" => botDest = botTag \/ botCut
    /\ botPc = "check" /\ ~botStale /\ Bot!StatusOk => botPassed

(* The types this needs.                                                    *)
BotTypeInv ==
    /\ botDevice \in [phase : {"cbw", "data", "status"}, tag : Nat] /\ botTag \in Nat
    /\ botToggle \in [host : {0, 1}, device : {0, 1}]

BotCore == BotTypeInv /\ BotPhaseInv /\ BotDataInv

(* What was read, by what the driver does: reads begin after the tests.     *)
BotLeftInv ==
    /\ botLeft = Reads => ~botCut
    /\ botLeft \in 0 .. Reads /\ botTries \in 0 .. TestTries /\ botJob \in {"test", "sense", "read"}
    /\ botJob = "read" => botLeft < Reads
    /\ botLeft < Reads => botJob # "test" /\ botTries = TestTries
    /\ botTries = TestTries /\ botPc \notin {"next", "done", "reset"} => botLeft < Reads
    /\ botPc \in {"next", "done"} => botTries = TestTries /\ (botJob = "read" \/ botLeft = Reads)

BotInv == BotCore /\ BotLeftInv

(* The driver as a block device.                                            *)
BotDevPhase ==
    CASE botPc = "reset" -> "failed"
      [] botPc # "reset" /\ botLeft = Reads /\ botJob # "read" /\ botTries < TestTries -> "idle"
      [] OTHER -> IF botPc \in {"next", "done"} THEN IF botJob = "read" THEN "good" ELSE "idle" ELSE "reading"
BotDevAsked == Reads - botLeft
BotDevFound == IF botPassed /\ botDest = botTag THEN Reads - botLeft ELSE 0
BotDevSure == ~botStale /\ ~botCut

BotDevMoves ==
    \/ UNCHANGED <<BotDevPhase, BotDevAsked, BotDevFound, BotDevSure>>
    \/ /\ BotDevFound' \in {0} \cup 1 .. Reads
       /\ \/ BotDevPhase \in {"idle", "good", "failed"} /\ BotDevPhase' = "reading" /\ BotDevAsked' \in 1 .. Reads
          \/ /\ BotDevPhase = "reading" /\ BotDevPhase' \in {"reading", "good", "failed"} /\ BotDevAsked' = BotDevAsked
             /\ BotDevPhase' = "good" /\ BotDevSure' => BotDevFound' = BotDevAsked'
          \/ BotDevPhase = "idle" /\ BotDevPhase' = "failed" /\ BotDevAsked' = BotDevAsked

-----------------------------------------------------------------------------
(* Toggles that agree before a transfer of an odd number of packets agree   *)
(* after it.                                                                *)
LEMMA BotTurnedKeeps ==
    ASSUME BotTypeInv, Bot!InStep, NEW n \in Nat, n % 2 = 1, Bot!Turned(n)
    PROVE  Bot!InStep' /\ botToggle' \in [host : {0, 1}, device : {0, 1}]
<1>1. botToggle.host = botToggle.device /\ botToggle.device \in {0, 1} /\ botToggle.host \in {0, 1}
  BY DEF Bot!InStep, BotTypeInv
<1>2. botToggle' = [host |-> 1 - botToggle.host, device |-> (botToggle.device + n) % 2]
  BY DEF Bot!Turned
<1>3. (0 + n) % 2 = 1 /\ (1 + n) % 2 = 0
  OBVIOUS
<1>4. (botToggle.device + n) % 2 = 1 - botToggle.host
  BY <1>1, <1>3
<1> QED BY <1>1, <1>2, <1>4 DEF Bot!InStep

LEMMA BotTurnedType ==
    ASSUME BotTypeInv, NEW n \in Nat, Bot!Turned(n)
    PROVE  botToggle' \in [host : {0, 1}, device : {0, 1}]
<1>1. botToggle.device \in {0, 1} /\ botToggle.host \in {0, 1}
  BY DEF BotTypeInv
<1>2. \A x \in Nat : x % 2 \in {0, 1}
  OBVIOUS
<1>3. (botToggle.device + n) % 2 \in {0, 1} /\ 1 - botToggle.host \in {0, 1}
  BY <1>1, <1>2
<1> QED BY <1>3 DEF Bot!Turned

LEMMA BotCoreInit ==
    ASSUME Bot!EhciMscAssumption, Bot!Init
    PROVE  BotCore
<1>1. BotTypeInv
  BY DEF Bot!Init, BotTypeInv, Bot!EhciMscAssumption
<1>2. BotPhaseInv /\ BotDataInv
  BY DEF Bot!Init, BotPhaseInv, BotDataInv, Bot!InStep
<1> QED BY <1>1, <1>2 DEF BotCore

LEMMA BotCoreNext ==
    ASSUME Bot!EhciMscAssumption, BotLongSectorsEven, BotCore, [Bot!Next]_(Bot!vars)
    PROVE  BotCore'
<1> USE DEF BotCore
<1>1. CASE UNCHANGED Bot!vars
  BY <1>1 DEF Bot!vars, Bot!progress, BotTypeInv, BotPhaseInv, BotDataInv, Bot!InStep,
     Bot!HasData, Bot!LongNow, Bot!StatusOk
<1>2. CASE Bot!Command
  <2>1. BotTypeInv'
    BY <1>2 DEF Bot!Command, BotTypeInv, Bot!progress
  <2>2. BotPhaseInv' /\ BotDataInv'
    BY <1>2 DEF Bot!Command, BotPhaseInv, BotDataInv, Bot!InStep
  <2> QED BY <2>1, <2>2
<1>3. CASE Bot!Out
  <2>1. botDevice' = [phase |-> IF Bot!HasData THEN "data" ELSE "status", tag |-> botTag] /\ ~botStale /\ Bot!InStep
    BY <1>3 DEF Bot!Out, BotPhaseInv
  <2>2. BotTypeInv'
    BY <1>3, <2>1 DEF Bot!Out, BotTypeInv, Bot!progress
  <2>3. BotPhaseInv' /\ BotDataInv'
    BY <1>3, <2>1 DEF Bot!Out, BotPhaseInv, BotDataInv, Bot!InStep, Bot!HasData, Bot!LongNow,
       Bot!progress
  <2> QED BY <2>2, <2>3
<1>4. CASE Bot!ShortData \/ Bot!SenseData
  <2>1. Bot!InStep' /\ botToggle' \in [host : {0, 1}, device : {0, 1}]
    <3>1. Bot!InStep /\ Bot!Turned(1)
      BY <1>4 DEF Bot!ShortData, Bot!SenseData
    <3>2. 1 \in Nat /\ 1 % 2 = 1
      OBVIOUS
    <3> QED BY <3>1, <3>2, BotTurnedKeeps
  <2>2. botPc = "data" /\ botPc' = "csw" /\ botStale' = botStale /\ botDevice.tag = botTag /\ botDevice'.phase = "status" /\ botDevice'.tag = botTag
    BY <1>4 DEF Bot!ShortData, Bot!SenseData, BotPhaseInv, BotTypeInv
  <2>3. BotTypeInv'
    BY <1>4, <2>1 DEF Bot!ShortData, Bot!SenseData, BotTypeInv, Bot!progress
  <2>4. BotPhaseInv' /\ BotDataInv'
    BY <1>4, <2>1, <2>2 DEF Bot!ShortData, Bot!SenseData, BotPhaseInv, BotDataInv, Bot!HasData,
       Bot!progress
  <2> QED BY <2>3, <2>4
<1>5. CASE Bot!LongData
  <2>1. Bot!Packets \in Nat /\ Bot!Packets % 2 = 1
    BY DEF Bot!Packets, BotLongSectorsEven, Bot!EhciMscAssumption
  <2>2. Bot!InStep' /\ botToggle' \in [host : {0, 1}, device : {0, 1}]
    BY <1>5, <2>1, BotTurnedKeeps DEF Bot!LongData
  <2>3. PICK ok \in BOOLEAN : Bot!Verdict(ok) /\ botTail' = IF ok THEN "ok" ELSE "failed"
    BY <1>5 DEF Bot!LongData
  <2>4. /\ botPc = "data" /\ botPc' = "csw" /\ ~botStale /\ ~botStale' /\ botDevice.tag = botTag /\ botDest' = botTag /\ botTag' = botTag
        /\ botDevice'.phase = "cbw" /\ botDevice' \in [phase : {"cbw", "data", "status"}, tag : Nat]
        /\ botJob = "read" /\ botLong /\ Bot!progress' = Bot!progress /\ botCb' = botCb /\ botCut' = botCut
    BY <1>5 DEF Bot!LongData, BotPhaseInv, BotTypeInv
  <2>5. BotTypeInv'
    BY <2>2, <2>3, <2>4 DEF BotTypeInv, Bot!progress
  <2>6. BotPhaseInv' /\ BotDataInv'
    BY <2>2, <2>3, <2>4 DEF BotPhaseInv, BotDataInv, Bot!Verdict, Bot!LongNow, Bot!progress
  <2> QED BY <2>5, <2>6
<1>6. CASE Bot!LongDataCut
  <2>1. botToggle' \in [host : {0, 1}, device : {0, 1}]
    BY <1>6, BotTurnedType DEF Bot!LongDataCut
  <2>2. /\ botPc = "data" /\ botPc' = "csw" /\ ~botStale /\ ~botStale' /\ botDevice.tag = botTag /\ botDest' = 0 /\ botCut' = TRUE /\ botTag' = botTag
        /\ botDevice'.phase = "status" /\ botDevice' \in [phase : {"cbw", "data", "status"}, tag : Nat]
        /\ botJob = "read" /\ botLong /\ UNCHANGED <<Bot!progress, botCb, botTail, botFailures, botPassed>>
    BY <1>6 DEF Bot!LongDataCut, BotPhaseInv, BotTypeInv
  <2>3. BotTypeInv'
    BY <2>1, <2>2 DEF BotTypeInv, Bot!progress
  <2>4. BotPhaseInv' /\ BotDataInv'
    BY <2>2 DEF BotPhaseInv, BotDataInv, Bot!LongNow, Bot!progress
  <2> QED BY <2>3, <2>4
<1>7. CASE Bot!ReadStatus
  <2>1. Bot!InStep' /\ botToggle' \in [host : {0, 1}, device : {0, 1}]
    <3>1. Bot!InStep /\ Bot!Turned(1)
      BY <1>7 DEF Bot!ReadStatus
    <3>2. 1 \in Nat /\ 1 % 2 = 1
      OBVIOUS
    <3> QED BY <3>1, <3>2, BotTurnedKeeps
  <2>2. PICK ok \in BOOLEAN :
          /\ Bot!Verdict(ok)
          /\ IF Bot!LongNow THEN botTail' = (IF ok THEN "ok" ELSE "failed") /\ UNCHANGED botCb
             ELSE botCb' = (IF ok THEN "csw ok" ELSE "csw failed") /\ UNCHANGED botTail
    BY <1>7 DEF Bot!ReadStatus
  <2>3. /\ botPc = "csw" /\ botPc' = "check" /\ ~botStale /\ ~botStale' /\ UNCHANGED <<Bot!progress, botTag, botDest, botCut>>
        /\ botDevice'.phase = "cbw" /\ botDevice' \in [phase : {"cbw", "data", "status"}, tag : Nat]
    BY <1>7 DEF Bot!ReadStatus, BotPhaseInv, BotTypeInv
  <2>4. BotTypeInv'
    BY <2>1, <2>2, <2>3 DEF BotTypeInv, Bot!progress
  <2>5. BotPhaseInv'
    BY <2>1, <2>3 DEF BotPhaseInv
  <2>6. BotDataInv'
    BY <2>2, <2>3 DEF BotDataInv, Bot!StatusOk, Bot!LongNow, Bot!progress, Bot!Verdict
  <2> QED BY <2>4, <2>5, <2>6
<1>8. CASE Bot!TakeTail
  <2>1. /\ botPc = "csw" /\ botPc' = "check" /\ Bot!LongNow /\ botTail # "zero" /\ botStale' = (botDevice.phase = "status")
        /\ UNCHANGED <<Bot!progress, botTag, botCb, botTail, botDest, botDevice, botToggle, botFailures, botPassed, botCut>>
    BY <1>8 DEF Bot!TakeTail
  <2>2. BotTypeInv'
    BY <2>1 DEF BotTypeInv, Bot!progress
  <2>3. BotPhaseInv'
    BY <2>1 DEF BotPhaseInv, Bot!InStep
  <2>4. BotDataInv'
    BY <2>1 DEF BotDataInv, BotPhaseInv, Bot!StatusOk, Bot!LongNow, Bot!progress
  <2> QED BY <2>2, <2>3, <2>4
<1>9. CASE Bot!WildStatus \/ Bot!TransferFails
  <2>1. /\ botPc' \in {"wild", "reset"} /\ (botStale => botPc \notin {"data", "csw"})
        /\ UNCHANGED <<Bot!progress, botTag, botCb, botTail, botDest, botDevice, botToggle, botFailures, botPassed, botStale, botCut>>
    BY <1>9 DEF Bot!WildStatus, Bot!TransferFails, Bot!TransferLate, BotPhaseInv
  <2>2. BotTypeInv'
    BY <2>1 DEF BotTypeInv, Bot!progress
  <2>3. BotPhaseInv' /\ BotDataInv'
    BY <2>1 DEF BotPhaseInv, BotDataInv
  <2> QED BY <2>2, <2>3
<1>10. CASE Bot!CheckTest \/ Bot!CheckSense \/ Bot!CheckRead
  <2>1. /\ botPc = "check" /\ botPc' \in {"command", "reset", "next"}
        /\ UNCHANGED <<botLeft, botLong, botTag, botCb, botTail, botDest, botDevice, botToggle, botFailures, botPassed, botStale, botCut>>
    BY <1>10 DEF Bot!CheckTest, Bot!CheckSense, Bot!CheckRead, Bot!NextTest
  <2>2. BotTypeInv'
    BY <2>1 DEF BotTypeInv
  <2>3. BotPhaseInv' /\ BotDataInv'
    BY <2>1 DEF BotPhaseInv, BotDataInv, Bot!InStep
  <2> QED BY <2>2, <2>3
<1>11. CASE Bot!NextRead
  <2>1. /\ botPc = "next" /\ botPc' \in {"done", "command"}
        /\ UNCHANGED <<botTries, botTested, botTag, botCb, botDest, botDevice, botToggle, botFailures, botPassed, botStale, botCut>>
    BY <1>11 DEF Bot!NextRead
  <2>2. BotTypeInv'
    BY <2>1 DEF BotTypeInv
  <2>3. BotPhaseInv' /\ BotDataInv'
    BY <2>1 DEF BotPhaseInv, BotDataInv, Bot!InStep
  <2> QED BY <2>2, <2>3
<1>12. CASE Bot!Finish
  BY <1>1, <1>12 DEF Bot!Finish
<1> QED
  BY <1>1, <1>2, <1>3, <1>4, <1>5, <1>6, <1>7, <1>8, <1>9, <1>10, <1>11, <1>12
  DEF Bot!Next, Bot!Transfer, Bot!Caller

LEMMA BotInitInv ==
    ASSUME Bot!EhciMscAssumption, Bot!Init
    PROVE  BotInv
<1>1. /\ botPc = "command" /\ botJob = "test" /\ botTries = 0 /\ botLeft = Reads /\ ~botCut
      /\ Reads \in Nat /\ TestTries \in Nat \ {0}
  BY DEF Bot!Init, Bot!EhciMscAssumption
<1>2. BotLeftInv
  BY <1>1 DEF BotLeftInv
<1> QED BY <1>2, BotCoreInit DEF BotInv

LEMMA BotNextTestLeft ==
    ASSUME Bot!EhciMscAssumption, BotLeftInv, botPc = "check", botJob # "read", botTries < TestTries, Bot!NextTest, botLeft' = botLeft, botCut' = botCut
    PROVE  BotLeftInv' /\ botPc' \in {"command", "reset", "next"}
<1>1. botLeft = Reads /\ Reads \in Nat /\ TestTries \in Nat /\ ~botCut'
  BY DEF BotLeftInv, Bot!EhciMscAssumption
<1>2. CASE botTries + 1 < TestTries
  <2>1. botJob' = "test" /\ botTries' = botTries + 1 /\ botPc' = "command"
    BY <1>2 DEF Bot!NextTest
  <2> QED BY <1>1, <1>2, <2>1 DEF BotLeftInv
<1>3. CASE ~(botTries + 1 < TestTries)
  <2>1. botTries' = botTries + 1 /\ botJob' = botJob /\ botPc' \in {"reset", "next"}
    BY <1>3 DEF Bot!NextTest
  <2>2. botTries' = TestTries
    BY <1>1, <1>3, <2>1 DEF BotLeftInv
  <2> QED BY <1>1, <2>1, <2>2 DEF BotLeftInv
<1> QED BY <1>2, <1>3

LEMMA BotLeftNext ==
    ASSUME Bot!EhciMscAssumption, BotLeftInv, [Bot!Next]_(Bot!vars)
    PROVE  BotLeftInv'
<1>0. Reads \in Nat /\ TestTries \in Nat \ {0}
  BY DEF Bot!EhciMscAssumption
<1>1. ASSUME UNCHANGED <<botJob, botTries, botLeft>>, botLeft = Reads => botCut' = botCut \/ ~botCut',
             botPc' \in {"next", "done"} => botPc = botPc',
             botPc' \notin {"next", "done", "reset"} => botPc \notin {"next", "done", "reset"}
      PROVE  BotLeftInv'
  BY <1>1 DEF BotLeftInv
<1>2. CASE UNCHANGED Bot!vars \/ Bot!Finish
  BY <1>1, <1>2 DEF Bot!vars, Bot!progress, Bot!Finish
<1>3. CASE Bot!Command
  BY <1>1, <1>3 DEF Bot!Command, Bot!progress
<1>4. CASE Bot!Out
  BY <1>1, <1>4 DEF Bot!Out, Bot!progress
<1>5. CASE Bot!ShortData
  BY <1>1, <1>5 DEF Bot!ShortData, Bot!progress, BotLeftInv
<1>6. CASE Bot!SenseData
  BY <1>1, <1>6 DEF Bot!SenseData, Bot!progress
<1>7. CASE Bot!LongData
  BY <1>1, <1>7 DEF Bot!LongData, Bot!progress
<1>8. CASE Bot!LongDataCut
  BY <1>1, <1>8 DEF Bot!LongDataCut, Bot!progress, BotLeftInv
<1>9. CASE Bot!ReadStatus
  BY <1>1, <1>9 DEF Bot!ReadStatus, Bot!progress
<1>10. CASE Bot!TakeTail
  BY <1>1, <1>10 DEF Bot!TakeTail, Bot!progress
<1>11. CASE Bot!WildStatus
  BY <1>1, <1>11 DEF Bot!WildStatus, Bot!progress
<1>12. CASE Bot!TransferFails
  BY <1>1, <1>12 DEF Bot!TransferFails, Bot!TransferLate, Bot!progress
<1>13. CASE Bot!CheckTest
  <2>1. botPc = "check" /\ botJob = "test" /\ botLeft' = botLeft /\ botCut' = botCut
    BY <1>13 DEF Bot!CheckTest
  <2>2. botTries < TestTries
    BY <1>0, <2>1 DEF BotLeftInv
  <2>3. Bot!NextTest \/ (botJob' = "sense" /\ botPc' = "command" /\ botTries' = botTries)
    BY <1>13 DEF Bot!CheckTest
  <2>4. CASE Bot!NextTest
    BY <2>1, <2>2, <2>4, BotNextTestLeft
  <2>5. CASE botJob' = "sense" /\ botPc' = "command" /\ botTries' = botTries
    BY <2>1, <2>2, <2>5 DEF BotLeftInv
  <2> QED BY <2>3, <2>4, <2>5
<1>14. CASE Bot!CheckSense
  <2>1. botPc = "check" /\ botJob = "sense" /\ botLeft' = botLeft /\ botCut' = botCut
    BY <1>14 DEF Bot!CheckSense
  <2>2. CASE botTries < TestTries
    BY <1>14, <2>1, <2>2, BotNextTestLeft DEF Bot!CheckSense
  <2>3. CASE ~(botTries < TestTries)
    <3>1. botJob' = "read" /\ botPc' = "command" /\ botTries' = botTries
      BY <1>14, <2>3 DEF Bot!CheckSense
    <3>2. botTries = TestTries
      BY <1>0, <2>3 DEF BotLeftInv
    <3> QED BY <2>1, <3>1, <3>2 DEF BotLeftInv
  <2> QED BY <2>2, <2>3
<1>15. CASE Bot!CheckRead
  <2>1. /\ botPc = "check" /\ botJob = "read" /\ botLeft' = botLeft /\ botTries' = botTries /\ botCut' = botCut
        /\ (botPc' = "next" /\ botJob' = botJob) \/ (botJob' = "sense" /\ botPc' = "command")
    BY <1>15 DEF Bot!CheckRead
  <2> QED BY <2>1 DEF BotLeftInv
<1>16. CASE Bot!NextRead
  <2>1. botPc = "next" /\ botTries' = botTries /\ botCut' = botCut
    BY <1>16 DEF Bot!NextRead
  <2>2. CASE botLeft = 0
    <3>1. botPc' = "done" /\ botJob' = botJob /\ botLeft' = botLeft
      BY <1>16, <2>2 DEF Bot!NextRead
    <3> QED BY <2>1, <3>1 DEF BotLeftInv
  <2>3. CASE botLeft # 0
    <3>1. botJob' = "read" /\ botLeft' = botLeft - 1 /\ botPc' = "command"
      BY <1>16, <2>3 DEF Bot!NextRead
    <3> QED BY <1>0, <2>1, <2>3, <3>1 DEF BotLeftInv
  <2> QED BY <2>2, <2>3
<1> QED
  BY <1>2, <1>3, <1>4, <1>5, <1>6, <1>7, <1>8, <1>9, <1>10, <1>11, <1>12, <1>13, <1>14, <1>15,
     <1>16
  DEF Bot!Next, Bot!Transfer, Bot!Caller

LEMMA BotNextInv ==
    ASSUME Bot!EhciMscAssumption, BotLongSectorsEven, BotInv, [Bot!Next]_(Bot!vars)
    PROVE  BotInv'
<1>1. BotCore'
  BY BotCoreNext DEF BotInv
<1>2. BotLeftInv'
  BY BotLeftNext DEF BotInv
<1> QED BY <1>1, <1>2 DEF BotInv

(* What each step is for the block device.                                  *)
LEMMA BotDevPhases ==
    ASSUME Bot!EhciMscAssumption, BotLeftInv
    PROVE  BotDevPhase = IF botPc = "reset" THEN "failed" ELSE IF botLeft = Reads THEN "idle"
                      ELSE IF botPc \in {"next", "done"} THEN "good" ELSE "reading"
<1>1. Reads \in Nat /\ TestTries \in Nat /\ botTries \in 0 .. TestTries /\ botLeft \in 0 .. Reads
  BY DEF Bot!EhciMscAssumption, BotLeftInv
<1>2. CASE botPc = "reset"
  BY <1>2 DEF BotDevPhase
<1>3. CASE botPc # "reset" /\ botLeft = Reads
  <2>1. botJob # "read" /\ (botTries < TestTries \/ botPc \in {"next", "done"})
    BY <1>1, <1>3 DEF BotLeftInv
  <2> QED BY <1>3, <2>1 DEF BotDevPhase
<1>4. CASE botPc # "reset" /\ botLeft # Reads
  <2>1. botLeft < Reads /\ (botPc \in {"next", "done"} => botJob = "read")
    BY <1>1, <1>4 DEF BotLeftInv
  <2> QED BY <1>4, <2>1 DEF BotDevPhase
<1> QED BY <1>2, <1>3, <1>4

LEMMA BotDevPhasesNext ==
    ASSUME Bot!EhciMscAssumption, BotLeftInv'
    PROVE  BotDevPhase' = IF botPc' = "reset" THEN "failed" ELSE IF botLeft' = Reads THEN "idle"
                       ELSE IF botPc' \in {"next", "done"} THEN "good" ELSE "reading"
<1>1. Reads \in Nat /\ TestTries \in Nat /\ botTries' \in 0 .. TestTries /\ botLeft' \in 0 .. Reads
  BY DEF Bot!EhciMscAssumption, BotLeftInv
<1>2. CASE botPc' = "reset"
  BY <1>2 DEF BotDevPhase
<1>3. CASE botPc' # "reset" /\ botLeft' = Reads
  <2>1. botJob' # "read" /\ (botTries' < TestTries \/ botPc' \in {"next", "done"})
    BY <1>1, <1>3 DEF BotLeftInv
  <2> QED BY <1>3, <2>1 DEF BotDevPhase
<1>4. CASE botPc' # "reset" /\ botLeft' # Reads
  <2>1. botLeft' < Reads /\ (botPc' \in {"next", "done"} => botJob' = "read")
    BY <1>1, <1>4 DEF BotLeftInv
  <2> QED BY <1>4, <2>1 DEF BotDevPhase
<1> QED BY <1>2, <1>3, <1>4

LEMMA BotDevHeld ==
    ASSUME Bot!EhciMscAssumption, BotLeftInv'
    PROVE  BotDevFound' \in {0} \cup 1 .. Reads
<1>1. Reads \in Nat /\ botLeft' \in 0 .. Reads
  BY DEF Bot!EhciMscAssumption, BotLeftInv
<1>2. Reads - botLeft' \in {0} \cup 1 .. Reads
  <2>1. \A x \in 0 .. Reads : Reads - x = 0 \/ Reads - x \in 1 .. Reads
    BY <1>1
  <2>2. Reads - botLeft' = 0 \/ Reads - botLeft' \in 1 .. Reads
    BY <1>1, <2>1, Zenon
  <2> QED BY <2>2, Zenon
<1>3. CASE botPassed' /\ botDest' = botTag'
  BY <1>2, <1>3 DEF BotDevFound
<1>4. CASE ~(botPassed' /\ botDest' = botTag')
  <2>1. BotDevFound' = 0
    BY <1>4 DEF BotDevFound
  <2> QED BY <2>1
<1> QED BY <1>3, <1>4

(* A step that starts no read.                                              *)
LEMMA BotDevWorks ==
    ASSUME Bot!EhciMscAssumption, BotLeftInv, BotLeftInv', botLeft' = botLeft,
           botPc \notin {"next", "done", "reset"},
           botLeft = Reads => botStale' = botStale,
           botPc' \in {"next", "done"} /\ botLeft < Reads /\ BotDevSure' => botPassed' /\ botDest' = botTag'
    PROVE  BotDevMoves
<1>1. Reads \in Nat /\ botLeft \in 0 .. Reads /\ BotDevAsked' = BotDevAsked
  BY DEF Bot!EhciMscAssumption, BotLeftInv, BotDevAsked
<1>2. CASE botLeft = Reads
  <2>1. BotDevPhase = "idle" /\ BotDevPhase' \in {"idle", "failed"}
    BY <1>2, BotDevPhases, BotDevPhasesNext
  <2>2. BotDevFound = 0 /\ BotDevFound' = 0
    BY <1>1, <1>2 DEF BotDevFound
  <2>3. BotDevSure' = BotDevSure
    BY <1>2 DEF BotLeftInv, BotDevSure
  <2> QED BY <1>1, <1>2, <2>1, <2>2, <2>3 DEF BotDevMoves
<1>3. CASE botLeft # Reads
  <2>1. BotDevPhase = "reading" /\ BotDevPhase' \in {"reading", "good", "failed"}
    BY <1>3, BotDevPhases, BotDevPhasesNext
  <2>2. BotDevPhase' = "good" => botPc' \in {"next", "done"}
    BY <1>3, BotDevPhasesNext
  <2>3. botLeft < Reads
    BY <1>1, <1>3
  <2>4. BotDevPhase' = "good" /\ BotDevSure' => BotDevFound' = BotDevAsked'
    BY <2>2, <2>3 DEF BotDevFound, BotDevAsked
  <2> QED BY <1>1, <2>1, <2>4, BotDevHeld DEF BotDevMoves
<1> QED BY <1>2, <1>3

LEMMA BotDevStep ==
    ASSUME Bot!EhciMscAssumption, BotInv, BotInv', [Bot!Next]_(Bot!vars)
    PROVE  BotDevMoves
<1>0. BotLeftInv /\ BotLeftInv' /\ Reads \in Nat /\ botLeft \in 0 .. Reads
  BY DEF BotInv, BotLeftInv, Bot!EhciMscAssumption
<1>1. CASE UNCHANGED Bot!vars \/ Bot!Finish
  <2>1. UNCHANGED <<botPc, botJob, botTries, botLeft, botPassed, botDest, botTag, botStale, botCut>>
    BY <1>1 DEF Bot!vars, Bot!progress, Bot!Finish
  <2> QED BY <2>1 DEF BotDevMoves, BotDevPhase, BotDevAsked, BotDevFound, BotDevSure
<1>2. ASSUME UNCHANGED <<botLeft, botStale>>, botPc \notin {"next", "done", "reset"}, botPc' \notin {"next", "done"}
      PROVE  BotDevMoves
  BY <1>0, <1>2, BotDevWorks
<1>3. CASE Bot!Command
  BY <1>2, <1>3 DEF Bot!Command, Bot!progress
<1>4. CASE Bot!Out
  BY <1>2, <1>4 DEF Bot!Out, Bot!progress
<1>5. CASE Bot!ShortData
  BY <1>2, <1>5 DEF Bot!ShortData, Bot!progress
<1>6. CASE Bot!SenseData
  BY <1>2, <1>6 DEF Bot!SenseData, Bot!progress
<1>7. CASE Bot!LongData
  BY <1>2, <1>7 DEF Bot!LongData, Bot!progress
<1>8. CASE Bot!LongDataCut
  BY <1>2, <1>8 DEF Bot!LongDataCut, Bot!progress
<1>9. CASE Bot!ReadStatus
  BY <1>2, <1>9 DEF Bot!ReadStatus, Bot!progress
<1>10. CASE Bot!TakeTail
  <2>1. botPc = "csw" /\ botPc' = "check" /\ botLeft' = botLeft /\ botJob = "read"
    BY <1>10 DEF Bot!TakeTail, Bot!progress, Bot!LongNow
  <2>2. botLeft # Reads
    BY <1>0, <2>1 DEF BotLeftInv
  <2> QED BY <1>0, <2>1, <2>2, BotDevWorks
<1>11. CASE Bot!WildStatus
  BY <1>2, <1>11 DEF Bot!WildStatus, Bot!progress
<1>12. CASE Bot!TransferFails
  BY <1>2, <1>12 DEF Bot!TransferFails, Bot!TransferLate, Bot!progress
<1>13. CASE Bot!CheckTest \/ Bot!CheckSense
  <2>1. botPc = "check" /\ UNCHANGED <<botLeft, botStale>> /\ botJob \in {"test", "sense"}
    BY <1>13 DEF Bot!CheckTest, Bot!CheckSense
  <2>2. ASSUME botLeft < Reads PROVE botPc' = "command"
    <3>1. botJob # "test" /\ botTries = TestTries /\ TestTries \in Nat
      BY <1>0, <2>2 DEF BotLeftInv, Bot!EhciMscAssumption
    <3>2. ~(botTries < TestTries) /\ Bot!CheckSense
      BY <1>13, <3>1 DEF Bot!CheckTest
    <3> QED BY <3>2 DEF Bot!CheckSense
  <2> QED BY <1>0, <2>1, <2>2, BotDevWorks
<1>14. CASE Bot!CheckRead
  <2>1. /\ botPc = "check" /\ botJob = "read" /\ UNCHANGED <<botLeft, botStale, botCut, botTag, botDest, botPassed>>
        /\ botPc' = "next" => Bot!StatusOk
        /\ botPc' \in {"next", "command"}
    BY <1>14 DEF Bot!CheckRead
  <2>2. (botDest = botTag \/ botCut) /\ (~botStale /\ Bot!StatusOk => botPassed)
    BY <2>1 DEF BotInv, BotCore, BotDataInv
  <2>3. botPc' \in {"next", "done"} /\ BotDevSure' => botPassed' /\ botDest' = botTag'
    BY <2>1, <2>2 DEF BotDevSure
  <2> QED BY <1>0, <2>1, <2>3, BotDevWorks
<1>15. CASE Bot!NextRead
  <2>1. botPc = "next" /\ UNCHANGED <<botTag, botDest, botPassed, botStale, botCut, botTries>>
    BY <1>15 DEF Bot!NextRead
  <2>2. CASE botLeft = 0
    <3>1. botPc' = "done" /\ UNCHANGED <<botJob, botLeft>>
      BY <1>15, <2>2 DEF Bot!NextRead
    <3>2. BotDevPhase' = BotDevPhase
      BY <1>0, <2>1, <3>1, BotDevPhases, BotDevPhasesNext
    <3>3. BotDevAsked' = BotDevAsked /\ BotDevFound' = BotDevFound
      BY <2>1, <3>1 DEF BotDevAsked, BotDevFound
    <3>4. BotDevSure' = BotDevSure
      BY <2>1 DEF BotDevSure
    <3> QED BY <3>2, <3>3, <3>4 DEF BotDevMoves
  <2>3. CASE botLeft # 0
    <3>1. botLeft' = botLeft - 1 /\ botPc' = "command"
      BY <1>15, <2>3 DEF Bot!NextRead
    <3>2. botLeft' # Reads /\ BotDevAsked' \in 1 .. Reads
      BY <1>0, <2>3, <3>1 DEF BotDevAsked
    <3>3. BotDevPhase \in {"idle", "good"}
      BY <1>0, <2>1, BotDevPhases
    <3>4. BotDevPhase' = "reading"
      BY <1>0, <3>1, <3>2, BotDevPhasesNext
    <3> QED BY <1>0, <3>2, <3>3, <3>4, BotDevHeld DEF BotDevMoves
  <2> QED BY <2>2, <2>3
<1> QED
  BY <1>1, <1>3, <1>4, <1>5, <1>6, <1>7, <1>8, <1>9, <1>10, <1>11, <1>12, <1>13, <1>14, <1>15
  DEF Bot!Next, Bot!Transfer, Bot!Caller

-----------------------------------------------------------------------------
(* UsbMsc                                                                   *)
(* The transfers that read from the device: a status or a command's data.   *)
MscTransfer == [buf : {"cb", "cmd", "dest"}, len : Int, trbs : {1, 2}]
MscInTransfer ==
    {t \in MscTransfer :
        \/ t.buf = "cb" /\ t.len = Msc!CswSize
        \/ t.buf = "cmd" /\ t.len \in {36, 18, 8}
        \/ t.buf = "dest" /\ t.len = 512}

MscIsStatus(s, k) == s[k].buf = "cb"
MscStartsTwice(s) == Len(s) >= 2 /\ MscIsStatus(s, 1) /\ MscIsStatus(s, 2)
MscEndsTwice(s) == Len(s) >= 2 /\ MscIsStatus(s, Len(s)) /\ MscIsStatus(s, Len(s) - 1)
MscEndsStatus(s) == Len(s) >= 1 /\ MscIsStatus(s, Len(s))
MscStartsStatus(s) == Len(s) >= 1 /\ MscIsStatus(s, 1)
MscStartsData(s) == Len(s) >= 1 /\ ~MscIsStatus(s, 1)

(* Transfers for data and for status take turns, but for the status of a    *)
(* command without data.                                                    *)
MscTurned(s) ==
    /\ \A k \in 1 .. Len(s) - 2 : ~(MscIsStatus(s, k) /\ MscIsStatus(s, k + 1) /\ MscIsStatus(s, k + 2))
    /\ \A k \in 1 .. Len(s) - 1 : MscIsStatus(s, k) \/ MscIsStatus(s, k + 1)

MscPending == mscQueue["in"]
MscWaiting == mscPc \in Msc!Waits
MscBusy == MscWaiting \/ mscPc = "check"
MscInCb == mscMem["cb"]

MscBlock == [kind : {"zero", "cbw", "csw", "data"}, tag : Int, len : Int, ok : BOOLEAN]
MscMemInv ==
    /\ mscMem \in [{"cb", "cmd", "dest"} -> MscBlock]
    /\ mscTag \in Int /\ mscJob \in {"inquiry", "test", "sense", "capacity", "read"}
    /\ mscPhase \in {"out", "data", "status"}
MscQueueInv ==
    /\ mscQueue \in [{"ctl", "out", "in"} -> Seq(MscTransfer)]
    /\ MscPending \in Seq(MscInTransfer)
    /\ \A k \in DOMAIN MscPending : MscPending[k].buf = "dest" => mscJob = "read"
MscEventsInv == mscEvents \in Seq([code : {"port", "ok", "short", "error", "stall"}, residue : Int])
MscDeviceType ==
    mscDevice \in [phase : {"cbw", "data", "status", "broken"}, tag : Int, len : Int]

MscTurnsInv ==
    /\ MscTurned(MscPending)
    /\ mscPc = "command" \/ (MscWaiting /\ mscPhase = "out") \/ (MscBusy /\ mscPhase = "status") =>
         Len(MscPending) = 0 \/ MscEndsStatus(MscPending)
    /\ mscJob = "test" /\ (mscPc = "command" \/ (MscWaiting /\ mscPhase = "out")) => ~MscEndsTwice(MscPending)
    /\ mscJob # "test" /\ MscWaiting /\ mscPhase = "data" => ~MscEndsStatus(MscPending)
    /\ mscJob # "test" /\ MscBusy /\ mscPhase = "status" => ~MscEndsTwice(MscPending)
    /\ mscJob = "test" => mscPhase # "data"
    /\ mscPc = "check" => mscPhase = "status"

(* The command in memory is the one the driver is at; an answer there is    *)
(* one the device gave since that command began.                            *)
MscCommandInv ==
    /\ MscInCb.kind = "cbw" => MscInCb.tag = mscTag /\ MscInCb.len = Msc!Length(mscJob) /\ mscPc # "command" /\ mscPhase # "status"
    /\ mscDevice.phase \in {"data", "status"} => mscDevice.tag <= mscTag
    /\ MscInCb.kind = "csw" /\ MscBusy => MscInCb \in mscTold
    /\ MscInCb.kind = "csw" => MscInCb.len = Msc!CswSize

(* The device is at the driver's command; its status is in memory.          *)
MscCurrent == MscBusy /\ mscDevice.tag = mscTag
MscOwn == MscInCb.kind = "csw" /\ MscInCb.tag = mscTag /\ MscBusy
MscHalted == mscHalted # {}

(* No transfer queued for the capacity has been used.                       *)
MscUnused ==
    /\ ~MscStartsTwice(MscPending)
    /\ MscWaiting /\ mscPhase = "data" => Len(MscPending) >= 1
    /\ MscBusy /\ mscPhase = "status" => Len(MscPending) >= 2

MscHasOwnData ==
    LET m == mscMem[Msc!Target(mscJob)] IN m.kind = "data" /\ m.tag = mscTag /\ m \in mscTold

(* The 8 bytes of the capacity went where a status was expected: then the   *)
(* status does not.                                                         *)
MscAstray ==
    /\ mscJob = "capacity"
    /\ MscStartsData(MscPending) \/ (Len(MscPending) = 0 /\ MscWaiting /\ mscPhase = "out")

(* The device has passed on the command's data and owes the status.         *)
MscOwnInv == MscOwn => mscDevice.phase \in {"cbw", "broken"} /\ (MscHalted \/ ~MscStartsTwice(MscPending))
MscCapacityInv ==
    /\ mscJob = "capacity" /\ (mscPc = "command" \/ (MscBusy /\ MscInCb.kind = "cbw")) =>
         \/ MscHalted
         \/ mscDevice.phase \in {"cbw", "broken"} /\ MscUnused
         \/ MscCurrent /\ mscDevice.phase \in {"data", "status"}
    /\ mscJob = "capacity" /\ MscCurrent /\ mscDevice.phase = "status" /\ MscInCb.kind = "cbw" =>
         MscHalted \/ MscStartsStatus(MscPending) \/ (Len(MscPending) = 0 /\ mscPhase = "data")
MscDataInv ==
    /\ MscCurrent /\ mscDevice.phase = "data" =>
         mscDevice.len = Msc!Length(mscJob) /\ Msc!Length(mscJob) > 0 /\ (mscJob = "capacity" => MscHalted \/ MscUnused)
    /\ MscCurrent /\ mscDevice.phase = "status" /\ Msc!Length(mscJob) > 0 => MscHalted \/ MscHasOwnData \/ MscAstray

(* After a stall nothing comes any more; a status that came before it has   *)
(* its event before that of the stall.                                      *)
MscStalls == {k \in DOMAIN mscEvents : mscEvents[k].code = "stall"}
MscTold == \E k \in DOMAIN mscEvents : mscEvents[k].code # "port" /\ \A l \in MscStalls : k < l
MscStallInv ==
    /\ mscHalted \subseteq {"in"} /\ (MscStalls # {} => MscHalted)
    /\ mscPc \in {"clear", "clear2"} => MscHalted
MscAnswerInv ==
    MscOwn /\ mscPhase = "status" =>
           /\ Msc!Length(mscJob) > 0 => MscHasOwnData
           /\ MscWaiting => mscPc = "wait" /\ MscTold

MscTypeInv == MscMemInv /\ MscQueueInv /\ MscEventsInv /\ MscDeviceType
MscInv == MscTypeInv /\ MscTurnsInv /\ MscCommandInv /\ MscOwnInv /\ MscCapacityInv /\ MscDataInv /\ MscStallInv /\ MscAnswerInv

-----------------------------------------------------------------------------
(* Sequences of transfers                                                   *)

LEMMA MscTransferTypes ==
    ASSUME NEW t \in MscInTransfer
    PROVE  /\ t.len \in Int /\ t.trbs \in {1, 2}
           /\ t.buf = "cb" => t.len = 13
           /\ t.buf # "cb" => (t.buf = "cmd" /\ t.len \in {36, 18, 8}) \/ (t.buf = "dest" /\ t.len = 512)
<1>1. t.buf \in {"cb", "cmd", "dest"} /\ t.len \in Int /\ t.trbs \in {1, 2}
  BY DEF MscInTransfer, MscTransfer
<1>2. \/ t.buf = "cb" /\ t.len = Msc!CswSize
      \/ t.buf = "cmd" /\ t.len \in {36, 18, 8}
      \/ t.buf = "dest" /\ t.len = 512
  BY DEF MscInTransfer
<1> QED BY <1>1, <1>2 DEF Msc!CswSize

LEMMA MscAppended ==
    ASSUME NEW s \in Seq(MscInTransfer), NEW t \in MscInTransfer, NEW r, r = Append(s, t)
    PROVE  /\ r \in Seq(MscInTransfer) /\ Len(s) \in Nat /\ Len(r) = Len(s) + 1
           /\ r[Len(s) + 1] = t /\ \A k \in 1 .. Len(s) : r[k] = s[k]
  OBVIOUS

LEMMA MscTaken ==
    ASSUME NEW s \in Seq(MscInTransfer), s # <<>>, NEW r, r = Tail(s)
    PROVE  /\ r \in Seq(MscInTransfer) /\ Len(s) \in Nat /\ Len(s) >= 1 /\ Len(r) = Len(s) - 1
           /\ \A k \in 1 .. Len(r) : r[k] = s[k + 1]
           /\ Head(s) = s[1] /\ s[1] \in MscInTransfer
  OBVIOUS

LEMMA MscAppendStatus ==
    ASSUME NEW s \in Seq(MscInTransfer), NEW t \in MscInTransfer, t.buf = "cb",
           NEW r, r = Append(s, t), MscTurned(s), ~MscEndsTwice(s)
    PROVE  /\ r \in Seq(MscInTransfer) /\ MscTurned(r) /\ MscEndsStatus(r)
           /\ ~MscEndsStatus(s) => ~MscEndsTwice(r)
           /\ MscStartsTwice(r) => MscStartsTwice(s) \/ MscEndsStatus(s)
           /\ Len(s) >= 1 => Len(r) >= 2
           /\ MscStartsData(s) => MscStartsData(r)
           /\ MscStartsStatus(s) => MscStartsStatus(r)
<1>1. /\ r \in Seq(MscInTransfer) /\ Len(s) \in Nat /\ Len(r) = Len(s) + 1
      /\ r[Len(s) + 1] = t /\ \A k \in 1 .. Len(s) : r[k] = s[k]
  BY MscAppended
<1>2. MscIsStatus(r, Len(s) + 1) /\ \A k \in 1 .. Len(s) : MscIsStatus(r, k) <=> MscIsStatus(s, k)
  BY <1>1 DEF MscIsStatus
<1>3. \A k \in 1 .. Len(r) - 2 : ~(MscIsStatus(r, k) /\ MscIsStatus(r, k + 1) /\ MscIsStatus(r, k + 2))
  <2> SUFFICES ASSUME NEW k \in 1 .. Len(r) - 2, MscIsStatus(r, k), MscIsStatus(r, k + 1), MscIsStatus(r, k + 2)
               PROVE  FALSE
    OBVIOUS
  <2>1. CASE k \in 1 .. Len(s) - 2
    BY <1>1, <1>2, <2>1 DEF MscTurned
  <2>2. CASE k = Len(s) - 1
    BY <1>1, <1>2, <2>2 DEF MscEndsTwice
  <2> QED BY <1>1, <2>1, <2>2
<1>4. \A k \in 1 .. Len(r) - 1 : MscIsStatus(r, k) \/ MscIsStatus(r, k + 1)
  <2> SUFFICES ASSUME NEW k \in 1 .. Len(r) - 1
               PROVE  MscIsStatus(r, k) \/ MscIsStatus(r, k + 1)
    OBVIOUS
  <2>1. CASE k \in 1 .. Len(s) - 1
    BY <1>1, <1>2, <2>1 DEF MscTurned
  <2>2. CASE k = Len(s)
    BY <1>1, <1>2, <2>2
  <2> QED BY <1>1, <2>1, <2>2
<1> QED
  BY <1>1, <1>2, <1>3, <1>4 DEF MscTurned, MscEndsStatus, MscEndsTwice, MscStartsTwice,
     MscStartsData, MscStartsStatus

LEMMA MscAppendData ==
    ASSUME NEW s \in Seq(MscInTransfer), NEW t \in MscInTransfer, t.buf # "cb",
           NEW r, r = Append(s, t), MscTurned(s), Len(s) = 0 \/ MscEndsStatus(s)
    PROVE  /\ r \in Seq(MscInTransfer) /\ MscTurned(r) /\ ~MscEndsStatus(r) /\ Len(r) >= 1
           /\ MscStartsTwice(r) => MscStartsTwice(s)
           /\ Len(s) = 0 \/ MscStartsData(s) => MscStartsData(r)
           /\ MscStartsStatus(s) => MscStartsStatus(r)
<1>1. /\ r \in Seq(MscInTransfer) /\ Len(s) \in Nat /\ Len(r) = Len(s) + 1
      /\ r[Len(s) + 1] = t /\ \A k \in 1 .. Len(s) : r[k] = s[k]
  BY MscAppended
<1>2. ~MscIsStatus(r, Len(s) + 1) /\ \A k \in 1 .. Len(s) : MscIsStatus(r, k) <=> MscIsStatus(s, k)
  BY <1>1 DEF MscIsStatus
<1>3. \A k \in 1 .. Len(r) - 2 : ~(MscIsStatus(r, k) /\ MscIsStatus(r, k + 1) /\ MscIsStatus(r, k + 2))
  <2> SUFFICES ASSUME NEW k \in 1 .. Len(r) - 2, MscIsStatus(r, k), MscIsStatus(r, k + 1), MscIsStatus(r, k + 2)
               PROVE  FALSE
    OBVIOUS
  <2>1. CASE k \in 1 .. Len(s) - 2
    BY <1>1, <1>2, <2>1 DEF MscTurned
  <2>2. CASE k = Len(s) - 1
    BY <1>1, <1>2, <2>2
  <2> QED BY <1>1, <2>1, <2>2
<1>4. \A k \in 1 .. Len(r) - 1 : MscIsStatus(r, k) \/ MscIsStatus(r, k + 1)
  <2> SUFFICES ASSUME NEW k \in 1 .. Len(r) - 1
               PROVE  MscIsStatus(r, k) \/ MscIsStatus(r, k + 1)
    OBVIOUS
  <2>1. CASE k \in 1 .. Len(s) - 1
    BY <1>1, <1>2, <2>1 DEF MscTurned
  <2>2. CASE k = Len(s)
    BY <1>1, <1>2, <2>2 DEF MscEndsStatus
  <2> QED BY <1>1, <2>1, <2>2
<1> QED
  BY <1>1, <1>2, <1>3, <1>4 DEF MscTurned, MscEndsStatus, MscStartsTwice, MscStartsData,
     MscStartsStatus

LEMMA MscTakeFirst ==
    ASSUME NEW s \in Seq(MscInTransfer), s # <<>>, NEW r, r = Tail(s), MscTurned(s)
    PROVE  /\ r \in Seq(MscInTransfer) /\ MscTurned(r)
           /\ MscEndsTwice(r) => MscEndsTwice(s)
           /\ MscEndsStatus(r) => MscEndsStatus(s)
           /\ MscEndsStatus(s) => Len(r) = 0 \/ MscEndsStatus(r)
           /\ MscStartsStatus(s) => ~MscStartsTwice(r)
           /\ MscStartsStatus(s) /\ ~MscStartsTwice(s) => (Len(r) = 0 /\ MscEndsStatus(s) /\ Len(s) = 1) \/ MscStartsData(r)
           /\ MscStartsData(s) => (Len(r) = 0 /\ ~MscEndsStatus(s)) \/ MscStartsStatus(r)
<1>1. /\ r \in Seq(MscInTransfer) /\ Len(s) \in Nat /\ Len(s) >= 1 /\ Len(r) = Len(s) - 1
      /\ \A k \in 1 .. Len(r) : r[k] = s[k + 1]
  BY MscTaken
<1>2. \A k \in 1 .. Len(r) : MscIsStatus(r, k) <=> MscIsStatus(s, k + 1)
  BY <1>1 DEF MscIsStatus
<1>3. \A k \in 1 .. Len(r) - 2 : ~(MscIsStatus(r, k) /\ MscIsStatus(r, k + 1) /\ MscIsStatus(r, k + 2))
  <2> SUFFICES ASSUME NEW k \in 1 .. Len(r) - 2, MscIsStatus(r, k), MscIsStatus(r, k + 1), MscIsStatus(r, k + 2)
               PROVE  FALSE
    OBVIOUS
  <2> DEFINE m == k + 1
  <2>1. m \in 1 .. Len(s) - 2 /\ MscIsStatus(s, m) /\ MscIsStatus(s, m + 1) /\ MscIsStatus(s, m + 2)
    BY <1>1, <1>2
  <2> QED BY <2>1 DEF MscTurned
<1>4. \A k \in 1 .. Len(r) - 1 : MscIsStatus(r, k) \/ MscIsStatus(r, k + 1)
  <2> SUFFICES ASSUME NEW k \in 1 .. Len(r) - 1
               PROVE  MscIsStatus(r, k) \/ MscIsStatus(r, k + 1)
    OBVIOUS
  <2> DEFINE m == k + 1
  <2>1. m \in 1 .. Len(s) - 1 /\ (MscIsStatus(r, k) <=> MscIsStatus(s, m)) /\ (MscIsStatus(r, k + 1) <=> MscIsStatus(s, m + 1))
    BY <1>1, <1>2
  <2> QED BY <2>1 DEF MscTurned
<1>5. MscTurned(r)
  BY <1>3, <1>4 DEF MscTurned
<1>6. Len(s) >= 2 => /\ MscIsStatus(r, 1) <=> MscIsStatus(s, 2)
                     /\ MscIsStatus(s, 1) \/ MscIsStatus(s, 2)
                     /\ MscIsStatus(r, Len(r)) <=> MscIsStatus(s, Len(s))
  BY <1>1, <1>2 DEF MscTurned
<1>7. Len(s) >= 3 => /\ MscIsStatus(r, 2) <=> MscIsStatus(s, 3)
                     /\ MscIsStatus(r, Len(r) - 1) <=> MscIsStatus(s, Len(s) - 1)
                     /\ ~(MscIsStatus(s, 1) /\ MscIsStatus(s, 2) /\ MscIsStatus(s, 3))
  BY <1>1, <1>2 DEF MscTurned
<1> QED
  BY <1>1, <1>5, <1>6, <1>7 DEF MscEndsTwice, MscEndsStatus, MscStartsTwice, MscStartsData,
     MscStartsStatus

-----------------------------------------------------------------------------
(* Events                                                                   *)

LEMMA MscEventsAdded ==
    ASSUME MscEventsInv, NEW code \in {"port", "ok", "short", "error", "stall"}, NEW residue \in Int,
           NEW n \in Nat \ {0}, mscEvents' = mscEvents \o [k \in 1 .. n |-> [code |-> code, residue |-> residue]]
    PROVE  /\ MscEventsInv'
           /\ MscTold => MscTold'
           /\ code # "stall" /\ MscStalls = {} => MscStalls' = {}
           /\ code \notin {"port", "stall"} /\ MscStalls = {} => MscTold'
<1> DEFINE e == [code |-> code, residue |-> residue]
           new == [k \in 1 .. n |-> e]
           Event == [code : {"port", "ok", "short", "error", "stall"}, residue : Int]
<1>1. e \in Event /\ e.code = code
  OBVIOUS
<1>2. new \in Seq(Event) /\ Len(new) = n
  BY <1>1
<1>3. mscEvents \in Seq(Event) /\ mscEvents' = mscEvents \o new
  BY DEF MscEventsInv
<1>4. /\ mscEvents' \in Seq(Event) /\ Len(mscEvents) \in Nat /\ Len(mscEvents') = Len(mscEvents) + n
      /\ DOMAIN mscEvents = 1 .. Len(mscEvents) /\ DOMAIN mscEvents' = 1 .. Len(mscEvents) + n
      /\ \A k \in 1 .. Len(mscEvents) : mscEvents'[k] = mscEvents[k]
      /\ \A k \in Len(mscEvents) + 1 .. Len(mscEvents) + n : mscEvents'[k] = e
  BY <1>1, <1>2, <1>3
<1> HIDE DEF e, new
<1>5. code # "stall" => MscStalls' = MscStalls
  BY <1>1, <1>4 DEF MscStalls
<1>6. \A l \in MscStalls' : l \in MscStalls \/ l > Len(mscEvents)
  BY <1>4 DEF MscStalls
<1>7. MscTold => MscTold'
  <2> SUFFICES ASSUME NEW k \in DOMAIN mscEvents, mscEvents[k].code # "port", \A l \in MscStalls : k < l
               PROVE  MscTold'
    BY DEF MscTold
  <2>1. k \in DOMAIN mscEvents' /\ mscEvents'[k].code # "port"
    BY <1>4
  <2>2. \A l \in MscStalls' : k < l
    BY <1>4, <1>6 DEF MscStalls
  <2> QED BY <2>1, <2>2 DEF MscTold
<1>8. code \notin {"port", "stall"} /\ MscStalls = {} => MscTold'
  <2> SUFFICES ASSUME code # "port", MscStalls' = {}
               PROVE  MscTold'
    BY <1>5
  <2>1. Len(mscEvents) + 1 \in DOMAIN mscEvents' /\ mscEvents'[Len(mscEvents) + 1].code # "port"
    BY <1>1, <1>4
  <2> QED BY <2>1 DEF MscTold
<1>9. MscEventsInv'
  BY <1>4 DEF MscEventsInv
<1> QED BY <1>5, <1>7, <1>8, <1>9

LEMMA MscEventTaken ==
    ASSUME MscEventsInv, mscEvents # <<>>, mscEvents' = Tail(mscEvents)
    PROVE  /\ MscEventsInv'
           /\ MscStalls = {} => MscStalls' = {}
           /\ Head(mscEvents).code = "port" /\ MscTold => MscTold'
           /\ Head(mscEvents).code = "stall" => ~MscTold /\ MscStalls # {}
           /\ Head(mscEvents).residue \in Int
<1> DEFINE Event == [code : {"port", "ok", "short", "error", "stall"}, residue : Int]
<1>1. mscEvents \in Seq(Event)
  BY DEF MscEventsInv
<1> HIDE DEF Event
<1>2. /\ mscEvents' \in Seq(Event) /\ Len(mscEvents) \in Nat /\ Len(mscEvents) >= 1
      /\ DOMAIN mscEvents = 1 .. Len(mscEvents) /\ DOMAIN mscEvents' = 1 .. Len(mscEvents) - 1
      /\ \A k \in 1 .. Len(mscEvents) - 1 : mscEvents'[k] = mscEvents[k + 1]
      /\ Head(mscEvents) = mscEvents[1] /\ mscEvents[1] \in Event
  BY <1>1
<1>3. \A l \in MscStalls' : l + 1 \in MscStalls
  BY <1>2 DEF MscStalls
<1>4. Head(mscEvents).code = "port" /\ MscTold => MscTold'
  <2> SUFFICES ASSUME Head(mscEvents).code = "port", NEW k \in DOMAIN mscEvents, mscEvents[k].code # "port",
                      \A l \in MscStalls : k < l
               PROVE  MscTold'
    BY DEF MscTold
  <2> DEFINE m == k - 1
  <2>1. m \in DOMAIN mscEvents' /\ mscEvents'[m].code # "port" /\ m + 1 = k
    BY <1>2
  <2>2. ASSUME NEW l \in MscStalls' PROVE m < l
    <3>1. l + 1 \in MscStalls /\ l \in Int
      BY <1>2, <1>3 DEF MscStalls
    <3> QED BY <1>2, <2>1, <3>1
  <2> QED BY <2>1, <2>2 DEF MscTold
<1>5. Head(mscEvents).code = "stall" => 1 \in MscStalls
  BY <1>2 DEF MscStalls
<1>6. 1 \in MscStalls => ~MscTold
  BY <1>2 DEF MscTold
<1>7. MscEventsInv' /\ Head(mscEvents).residue \in Int
  BY <1>2 DEF MscEventsInv, Event
<1> QED BY <1>3, <1>4, <1>5, <1>6, <1>7

-----------------------------------------------------------------------------
(* What one step does to the turns, the command and the device              *)

LEMMA MscLengths ==
    ASSUME MscMemInv
    PROVE  /\ Msc!Length(mscJob) \in {0, 8, 18, 36, 512}
           /\ (mscJob = "test") <=> (Msc!Length(mscJob) = 0)
           /\ (mscJob = "capacity") <=> (Msc!Length(mscJob) = 8)
           /\ (mscJob = "read") <=> (Msc!Length(mscJob) = 512)
           /\ Msc!Target(mscJob) = (IF mscJob = "read" THEN "dest" ELSE "cmd")
  BY DEF MscMemInv, Msc!Length, Msc!Target

MscCoreInv == MscTurnsInv /\ MscCommandInv /\ MscOwnInv /\ MscCapacityInv /\ MscDataInv

(* The driver waits on, goes on to check the answer, or is lost.            *)
LEMMA MscKeepCore ==
    ASSUME MscTypeInv, MscCoreInv, MscInCb' = MscInCb, mscMem' = mscMem \/ MscHalted,
           UNCHANGED <<mscPhase, mscJob, mscTag, MscPending, mscDevice, mscHalted, mscTold>>,
           \/ mscPc' = mscPc
           \/ MscWaiting /\ MscWaiting'
           \/ mscPhase = "status" /\ MscWaiting /\ mscPc' = "check"
           \/ MscWaiting /\ mscPc' = "null"
    PROVE  MscCoreInv'
<1> USE DEF MscCoreInv
<1>1. /\ MscWaiting' => MscWaiting
      /\ MscBusy' => MscBusy
      /\ mscPc' = "command" => mscPc = "command"
      /\ mscPc' = "check" => mscPc = "check" \/ mscPhase = "status"
      /\ (MscWaiting => mscPc \notin {"command", "check"}) /\ (MscBusy => mscPc # "command")
      /\ (mscPc' = "null" => ~MscBusy') /\ (MscWaiting /\ ~MscWaiting' => mscPhase = "status" \/ ~MscBusy')
      /\ MscWaiting' => mscPc' \notin {"command", "check"}
      /\ MscWaiting /\ ~MscWaiting' => mscPhase = "status" \/ mscPc' = "null"
  BY DEF MscWaiting, MscBusy, Msc!Waits
<1>2. MscTurnsInv'
  BY <1>1 DEF MscTurnsInv
<1>3. MscCommandInv'
  BY <1>1 DEF MscCommandInv, MscWaiting, Msc!Waits
<1>4. MscOwnInv'
  BY <1>1 DEF MscOwnInv, MscOwn, MscHalted
<1>5. MscUnused /\ MscBusy' => MscUnused'
  BY <1>1 DEF MscUnused
<1>6. MscUnused /\ mscPc' = "command" => MscUnused'
  BY <1>1 DEF MscUnused
<1>7. MscHalted' = MscHalted /\ (MscCurrent' => MscCurrent)
  BY <1>1 DEF MscCurrent, MscHalted
<1>8. MscCapacityInv'
  BY <1>1, <1>5, <1>6, <1>7 DEF MscCapacityInv, MscCurrent
<1>9. MscCurrent' /\ (MscHalted \/ MscHasOwnData \/ MscAstray) => MscHalted' \/ MscHasOwnData' \/ MscAstray'
  BY <1>1, <1>7 DEF MscHasOwnData, MscAstray, MscCurrent
<1>10. MscDataInv'
  BY <1>1, <1>5, <1>7, <1>9 DEF MscDataInv, MscCurrent
<1> QED BY <1>2, <1>3, <1>4, <1>8, <1>10

(* After the command the driver queues a transfer for its data.             *)
LEMMA MscDataCore ==
    ASSUME MscTypeInv, MscCoreInv, MscWaiting, mscPhase = "out", Msc!Length(mscJob) > 0, mscPc' = "wait", mscPhase' = "data",
           UNCHANGED <<mscJob, mscTag, mscMem, mscDevice, mscHalted, mscTold>>,
           NEW t \in MscInTransfer, t.buf # "cb", MscPending' = Append(MscPending, t)
    PROVE  MscCoreInv'
<1> USE DEF MscCoreInv, MscTypeInv
<1>1. MscWaiting' /\ MscBusy /\ MscBusy' /\ mscPc # "command" /\ mscPc' # "command" /\ mscPc' # "check" /\ mscJob # "test"
  BY MscLengths DEF MscWaiting, MscBusy, Msc!Waits
<1>2. MscTurned(MscPending) /\ MscPending \in Seq(MscInTransfer) /\ (Len(MscPending) = 0 \/ MscEndsStatus(MscPending))
  BY DEF MscTurnsInv, MscQueueInv
<1>3. /\ MscPending' \in Seq(MscInTransfer) /\ MscTurned(MscPending') /\ ~MscEndsStatus(MscPending') /\ Len(MscPending') >= 1
      /\ MscStartsTwice(MscPending') => MscStartsTwice(MscPending)
      /\ Len(MscPending) = 0 \/ MscStartsData(MscPending) => MscStartsData(MscPending')
      /\ MscStartsStatus(MscPending) => MscStartsStatus(MscPending')
  BY <1>2, MscAppendData
<1>4. MscTurnsInv'
  BY <1>1, <1>3 DEF MscTurnsInv
<1>5. MscCommandInv'
  BY <1>1 DEF MscCommandInv, MscInCb
<1>6. MscOwnInv'
  BY <1>1, <1>3 DEF MscOwnInv, MscOwn, MscHalted, MscInCb
<1>7. MscUnused => MscUnused'
  BY <1>1, <1>3 DEF MscUnused
<1>8. MscCapacityInv'
  BY <1>1, <1>3, <1>7 DEF MscCapacityInv, MscCurrent, MscInCb, MscHalted
<1>9. MscDataInv'
  BY <1>1, <1>3, <1>7 DEF MscDataInv, MscCurrent, MscHasOwnData, MscAstray, MscHalted
<1> QED BY <1>4, <1>5, <1>6, <1>8, <1>9

(* It clears the status and queues a transfer for it.                       *)
LEMMA MscStatusCore ==
    ASSUME MscTypeInv, MscCoreInv, MscWaiting, (mscPhase = "out" /\ mscJob = "test") \/ mscPhase = "data",
           mscPc' = "wait", mscPhase' = "status", mscMem' = [mscMem EXCEPT !["cb"] = Msc!Blank],
           UNCHANGED <<mscJob, mscTag, mscDevice, mscHalted, mscTold>>,
           NEW t \in MscInTransfer, t.buf = "cb", MscPending' = Append(MscPending, t)
    PROVE  MscCoreInv'
<1> USE DEF MscCoreInv, MscTypeInv
<1>1. MscWaiting' /\ MscBusy /\ MscBusy' /\ mscPc # "command" /\ mscPc' # "command" /\ mscPc' # "check"
  BY DEF MscWaiting, MscBusy, Msc!Waits
<1>2. MscTurned(MscPending) /\ MscPending \in Seq(MscInTransfer) /\ ~MscEndsTwice(MscPending)
  BY DEF MscTurnsInv, MscQueueInv, MscEndsTwice, MscEndsStatus
<1>3. mscJob # "test" => ~MscEndsStatus(MscPending) /\ mscPhase = "data"
  BY DEF MscTurnsInv
<1>4. /\ MscPending' \in Seq(MscInTransfer) /\ MscTurned(MscPending') /\ MscEndsStatus(MscPending')
      /\ ~MscEndsStatus(MscPending) => ~MscEndsTwice(MscPending')
      /\ MscStartsTwice(MscPending') => MscStartsTwice(MscPending) \/ MscEndsStatus(MscPending)
      /\ Len(MscPending) >= 1 => Len(MscPending') >= 2
      /\ MscStartsData(MscPending) => MscStartsData(MscPending')
  BY <1>2, MscAppendStatus
<1>5. MscInCb'.kind = "zero" /\ \A b \in {"cmd", "dest"} : mscMem'[b] = mscMem[b]
  BY DEF MscMemInv, MscInCb, Msc!Blank, MscBlock
<1>6. MscTurnsInv'
  BY <1>1, <1>3, <1>4 DEF MscTurnsInv
<1>7. MscCommandInv'
  BY <1>5 DEF MscCommandInv
<1>8. MscOwnInv'
  BY <1>5 DEF MscOwnInv, MscOwn
<1>9. mscJob # "test" /\ MscUnused => MscUnused'
  BY <1>1, <1>3, <1>4 DEF MscUnused
<1>10. MscCapacityInv'
  BY <1>1, <1>5 DEF MscCapacityInv
<1>11. mscJob # "test" /\ (MscHalted \/ MscHasOwnData \/ MscAstray) => MscHalted' \/ MscHasOwnData' \/ MscAstray'
  <2>1. Msc!Target(mscJob) \in {"cmd", "dest"}
    BY MscLengths
  <2> QED BY <1>1, <1>3, <1>4, <1>5, <2>1 DEF MscHasOwnData, MscAstray, MscHalted
<1>12. Msc!Length(mscJob) > 0 => mscJob # "test"
  BY MscLengths
<1>13. MscDataInv'
  BY <1>1, <1>9, <1>11, <1>12 DEF MscDataInv, MscCurrent, MscHalted
<1> QED BY <1>6, <1>7, <1>8, <1>10, <1>13

(* A new command.                                                           *)
LEMMA MscCommandCore ==
    ASSUME MscTypeInv, MscCoreInv, mscPc = "command", mscPc' = "wait", mscPhase' = "out", mscTag' = mscTag + 1,
           MscInCb' = [kind |-> "cbw", tag |-> mscTag', len |-> Msc!Length(mscJob), ok |-> FALSE],
           UNCHANGED <<mscJob, mscDevice, mscHalted, MscPending>>
    PROVE  MscCoreInv'
<1> USE DEF MscCoreInv, MscTypeInv
<1>1. /\ MscWaiting' /\ ~MscWaiting /\ ~MscBusy /\ MscBusy' /\ mscPc' # "check"
      /\ MscInCb'.kind = "cbw" /\ MscInCb'.tag = mscTag' /\ MscInCb'.len = Msc!Length(mscJob)
  BY DEF MscWaiting, MscBusy, Msc!Waits
<1>2. MscTurnsInv'
  BY <1>1 DEF MscTurnsInv
<1>3. MscCommandInv'
  <2>1. mscDevice.phase \in {"data", "status"} => mscDevice.tag <= mscTag + 1
    BY DEF MscCommandInv, MscDeviceType, MscMemInv
  <2> QED BY <1>1, <2>1 DEF MscCommandInv
<1>4. MscOwnInv'
  BY <1>1 DEF MscOwnInv, MscOwn
<1>5. mscDevice.phase \in {"data", "status"} => ~MscCurrent'
  <2>1. mscDevice.tag \in Int /\ mscTag \in Int
    BY DEF MscDeviceType, MscMemInv
  <2> QED BY <2>1 DEF MscCommandInv, MscCurrent
<1>6. MscUnused => MscUnused'
  BY <1>1 DEF MscUnused
<1>7. MscCapacityInv'
  BY <1>1, <1>5, <1>6 DEF MscCapacityInv, MscCurrent, MscHalted
<1>8. MscDataInv'
  BY <1>5 DEF MscDataInv
<1> QED BY <1>2, <1>3, <1>4, <1>7, <1>8

(* What the driver makes of an answer: the capacity is asked for after a    *)
(* status that the device gave for the test.                                *)
LEMMA MscCheckCore ==
    ASSUME MscTypeInv, MscCoreInv, mscPc = "check", mscPc' \in {"command", "reset", "done"},
           mscJob' \in {"inquiry", "test", "sense", "capacity", "read"},
           mscJob' = "test" => mscJob # "test", mscPc' = "command" \/ mscJob' = mscJob,
           mscJob' = "capacity" => MscOwn \/ mscPc' # "command",
           UNCHANGED <<mscPhase, mscTag, mscMem, mscDevice, mscHalted, mscTold, MscPending>>
    PROVE  MscCoreInv'
<1> USE DEF MscCoreInv, MscTypeInv
<1>1. ~MscWaiting' /\ ~MscWaiting /\ MscBusy /\ ~MscBusy' /\ mscPc' # "check" /\ mscPhase = "status"
  BY DEF MscWaiting, MscBusy, Msc!Waits, MscTurnsInv
<1>2. MscTurnsInv'
  BY <1>1 DEF MscTurnsInv
<1>3. MscCommandInv'
  BY <1>1 DEF MscCommandInv, MscInCb
<1>4. MscOwnInv'
  BY <1>1 DEF MscOwnInv, MscOwn
<1>5. ~MscStartsTwice(MscPending) => MscUnused'
  BY <1>1 DEF MscUnused
<1>6. MscCapacityInv'
  BY <1>1, <1>5 DEF MscCapacityInv, MscCurrent, MscOwnInv, MscHalted
<1>7. MscDataInv'
  BY <1>1 DEF MscDataInv, MscCurrent
<1> QED BY <1>2, <1>3, <1>4, <1>6, <1>7

(* The device reads what is in memory for a command.                        *)
LEMMA MscRunOutCore ==
    ASSUME MscTypeInv, MscCoreInv, mscDevice.phase = "cbw",
           mscDevice' = IF MscInCb.kind # "cbw" THEN [mscDevice EXCEPT !.phase = "broken"]
                     ELSE [phase |-> IF MscInCb.len > 0 THEN "data" ELSE "status",
                           tag |-> MscInCb.tag, len |-> MscInCb.len],
           UNCHANGED <<mscPc, mscPhase, mscJob, mscTag, mscMem, mscHalted, mscTold, MscPending>>
    PROVE  MscCoreInv'
<1> USE DEF MscCoreInv, MscTypeInv
<1>1. /\ MscBusy' = MscBusy /\ MscWaiting' = MscWaiting /\ MscInCb' = MscInCb /\ MscHalted' = MscHalted
      /\ MscHasOwnData' = MscHasOwnData /\ MscUnused' = MscUnused /\ MscAstray' = MscAstray /\ MscOwn' = MscOwn
  BY DEF MscBusy, MscWaiting, MscInCb, MscHalted, MscHasOwnData, MscUnused, MscAstray, MscOwn
<1>2. MscTurnsInv'
  BY <1>1 DEF MscTurnsInv
<1>3. CASE MscInCb.kind # "cbw"
  <2>1. mscDevice'.phase = "broken"
    BY <1>3 DEF MscDeviceType
  <2>2. MscCommandInv' /\ MscOwnInv'
    BY <1>1, <2>1 DEF MscCommandInv, MscOwnInv
  <2>3. MscCapacityInv' /\ MscDataInv'
    BY <1>1, <1>3, <2>1 DEF MscCapacityInv, MscDataInv
  <2> QED BY <1>2, <2>2, <2>3
<1>4. CASE MscInCb.kind = "cbw"
  <2>1. /\ MscInCb.tag = mscTag /\ MscInCb.len = Msc!Length(mscJob) /\ mscPc # "command" /\ ~MscOwn /\ mscPhase # "status"
    BY <1>4 DEF MscCommandInv, MscOwn
  <2>2. /\ mscDevice'.tag = mscTag /\ mscDevice'.len = Msc!Length(mscJob)
        /\ mscDevice'.phase = IF Msc!Length(mscJob) > 0 THEN "data" ELSE "status"
    BY <1>4, <2>1
  <2>3. MscCommandInv' /\ MscOwnInv'
    <3>1. mscTag \in Int
      BY DEF MscMemInv
    <3> QED BY <1>1, <2>1, <2>2, <3>1 DEF MscCommandInv, MscOwnInv
  <2>4. mscJob = "capacity" => mscDevice'.phase = "data"
    BY <2>2, MscLengths
  <2>5. MscCapacityInv'
    BY <1>1, <2>1, <2>2, <2>4 DEF MscCapacityInv, MscCurrent
  <2>6. mscJob = "capacity" /\ MscBusy => MscHalted \/ MscUnused
    BY <1>4 DEF MscCapacityInv
  <2>7. MscDataInv'
    BY <1>1, <2>2, <2>6 DEF MscDataInv, MscCurrent
  <2> QED BY <1>2, <2>3, <2>5, <2>7
<1> QED BY <1>3, <1>4

(* The controller halts the endpoint: nothing more is sent.                 *)
LEMMA MscHaltCore ==
    ASSUME MscTypeInv, MscCoreInv, MscPending # <<>>, MscPending' = Tail(MscPending), mscHalted' = {"in"},
           UNCHANGED <<mscPc, mscPhase, mscJob, mscTag, mscMem>>, mscTold \subseteq mscTold',
           mscDevice' = mscDevice \/ (mscDevice.phase = "data" /\ mscDevice' = [mscDevice EXCEPT !.phase = "status"])
             \/ (mscDevice.phase = "status" /\ mscDevice' = [mscDevice EXCEPT !.phase = "cbw"])
    PROVE  MscCoreInv'
<1> USE DEF MscCoreInv, MscTypeInv
<1>1. MscBusy' = MscBusy /\ MscWaiting' = MscWaiting /\ MscInCb' = MscInCb /\ MscHalted' /\ MscOwn' = MscOwn
  BY DEF MscBusy, MscWaiting, MscInCb, MscHalted, MscOwn
<1>2. MscTurned(MscPending) /\ MscPending \in Seq(MscInTransfer)
  BY DEF MscTurnsInv, MscQueueInv
<1>3. /\ MscTurned(MscPending') /\ (MscEndsTwice(MscPending') => MscEndsTwice(MscPending))
      /\ MscEndsStatus(MscPending') => MscEndsStatus(MscPending)
      /\ MscEndsStatus(MscPending) => Len(MscPending') = 0 \/ MscEndsStatus(MscPending')
      /\ MscPending' \in Seq(MscInTransfer)
  BY <1>2, MscTakeFirst
<1>4. Len(MscPending) # 0
  BY <1>2
<1>5. MscTurnsInv'
  BY <1>1, <1>3, <1>4 DEF MscTurnsInv
<1>6. /\ mscDevice'.tag = mscDevice.tag /\ mscDevice'.len = mscDevice.len
      /\ mscDevice'.phase \in {"data", "status"} => mscDevice.phase \in {"data", "status"}
      /\ mscDevice'.phase = "data" => mscDevice.phase = "data"
      /\ mscDevice.phase \in {"cbw", "broken"} => mscDevice'.phase \in {"cbw", "broken"}
  BY DEF MscDeviceType
<1>7. MscCommandInv'
  BY <1>1, <1>6 DEF MscCommandInv
<1>8. MscOwnInv' /\ MscCapacityInv'
  BY <1>1, <1>6 DEF MscOwnInv, MscCapacityInv
<1>9. MscDataInv'
  BY <1>1, <1>6 DEF MscDataInv, MscCurrent
<1> QED BY <1>5, <1>7, <1>8, <1>9

(* The device sends the data of its command.                                *)
LEMMA MscSendDataCore ==
    ASSUME MscTypeInv, MscCoreInv, ~MscHalted, mscDevice.phase = "data", MscPending # <<>>, MscPending' = Tail(MscPending),
           NEW len \in {mscDevice.len - 1, mscDevice.len}, len <= Head(MscPending).len,
           mscTold' = mscTold \cup {Msc!Data(mscDevice.tag, len)},
           mscMem' = IF len > 0 THEN [mscMem EXCEPT ![Head(MscPending).buf] = Msc!Data(mscDevice.tag, len)] ELSE mscMem,
           mscDevice' = [mscDevice EXCEPT !.phase = "status"],
           UNCHANGED <<mscPc, mscPhase, mscJob, mscTag, mscHalted>>
    PROVE  MscCoreInv' /\ MscMemInv' /\ MscDeviceType' /\ ~MscOwn'
<1> USE DEF MscCoreInv, MscTypeInv
<1> DEFINE t == Head(MscPending)
           m == Msc!Data(mscDevice.tag, len)
<1>1. MscBusy' = MscBusy /\ MscWaiting' = MscWaiting
  BY DEF MscBusy, MscWaiting
<1>2. MscTurned(MscPending) /\ MscPending \in Seq(MscInTransfer)
  BY DEF MscTurnsInv, MscQueueInv
<1>3. /\ MscPending' \in Seq(MscInTransfer) /\ MscTurned(MscPending')
      /\ MscEndsTwice(MscPending') => MscEndsTwice(MscPending)
      /\ MscEndsStatus(MscPending') => MscEndsStatus(MscPending)
      /\ MscEndsStatus(MscPending) => Len(MscPending') = 0 \/ MscEndsStatus(MscPending')
      /\ MscStartsStatus(MscPending) /\ ~MscStartsTwice(MscPending) =>
           (Len(MscPending') = 0 /\ MscEndsStatus(MscPending) /\ Len(MscPending) = 1) \/ MscStartsData(MscPending')
      /\ MscStartsData(MscPending) => (Len(MscPending') = 0 /\ ~MscEndsStatus(MscPending)) \/ MscStartsStatus(MscPending')
  BY <1>2, MscTakeFirst
<1>4. Len(MscPending) >= 1 /\ Len(MscPending) # 0 /\ t = MscPending[1] /\ t \in MscInTransfer
  BY <1>2, MscTaken
<1>5. /\ t.len \in Int /\ (t.buf = "cb" => t.len = 13)
      /\ t.buf # "cb" => (t.buf = "cmd" /\ t.len \in {36, 18, 8}) \/ (t.buf = "dest" /\ t.len = 512)
  BY <1>4, MscTransferTypes
<1>6. t.buf = "dest" => mscJob = "read"
  <2>1. 1 \in DOMAIN MscPending
    BY <1>2, <1>4
  <2> QED BY <1>4, <2>1 DEF MscQueueInv
<1>7. /\ (t.buf = "cb") <=> MscStartsStatus(MscPending)
      /\ (t.buf # "cb") <=> MscStartsData(MscPending)
  BY <1>4 DEF MscStartsStatus, MscStartsData, MscIsStatus
<1>8. /\ mscDevice.tag \in Int /\ len \in Int /\ m.kind = "data" /\ m.tag = mscDevice.tag /\ m.len = len
      /\ mscDevice'.phase = "status" /\ mscDevice'.tag = mscDevice.tag /\ mscDevice'.len = mscDevice.len
      /\ m \in MscBlock
  BY DEF MscDeviceType, Msc!Data, MscBlock
<1> HIDE DEF t, m
<1>9. mscMem' = (IF len > 0 THEN [mscMem EXCEPT ![t.buf] = m] ELSE mscMem) /\ mscTold' = mscTold \cup {m} /\ len <= t.len
  BY DEF t, m
<1>10. t.buf \in {"cb", "cmd", "dest"}
  BY <1>5
<1>11. len > 0 => mscMem'[t.buf] = m
  BY <1>9, <1>10 DEF MscMemInv
<1>12. MscInCb' = (IF len > 0 /\ t.buf = "cb" THEN m ELSE MscInCb)
  BY <1>9, <1>10 DEF MscInCb, MscMemInv
<1>13. MscMemInv' /\ MscDeviceType'
  <2>1. mscMem' \in [{"cb", "cmd", "dest"} -> MscBlock]
    <3>1. CASE len > 0
      <4>1. mscMem' = [mscMem EXCEPT ![t.buf] = m] /\ m \in MscBlock
        BY <1>8, <1>9, <3>1
      <4> QED BY <1>10, <4>1 DEF MscMemInv
    <3>2. CASE ~(len > 0)
      BY <1>9, <3>2 DEF MscMemInv
    <3> QED BY <3>1, <3>2
  <2> QED BY <2>1 DEF MscMemInv, MscDeviceType
<1>14. MscInCb' = MscInCb \/ MscInCb'.kind = "data"
  BY <1>8, <1>12
<1>15. ~MscOwn /\ (MscOwn' => MscOwn)
  BY <1>1, <1>14 DEF MscOwn, MscOwnInv
<1>16. MscTurnsInv'
  BY <1>1, <1>3, <1>4 DEF MscTurnsInv
<1>17. MscCommandInv'
  BY <1>1, <1>8, <1>9, <1>14 DEF MscCommandInv
<1>18. MscOwnInv'
  BY <1>15 DEF MscOwnInv
<1>19. MscCurrent' => MscCurrent
  BY <1>1, <1>8 DEF MscCurrent
<1>20. MscCurrent => mscDevice.len = Msc!Length(mscJob) /\ Msc!Length(mscJob) > 0 /\ (mscJob = "capacity" => MscUnused)
  BY DEF MscDataInv
<1>21. MscCurrent => len > 0
  BY <1>8, <1>20, MscLengths
<1>22. MscCapacityInv'
  <2>1. ASSUME mscJob = "capacity", MscBusy, MscInCb'.kind = "cbw" PROVE MscCurrent /\ MscInCb = MscInCb' /\ MscBusy
    BY <1>14, <2>1 DEF MscCapacityInv
  <2>2. ASSUME mscJob = "capacity", mscPc = "command" PROVE FALSE
    <3>1. ~MscCurrent
      BY <2>2 DEF MscCurrent, MscBusy, MscWaiting, Msc!Waits
    <3> QED BY <2>2, <3>1 DEF MscCapacityInv
  <2>3. ASSUME mscJob = "capacity", MscCurrent, MscInCb'.kind = "cbw"
        PROVE  MscStartsStatus(MscPending') \/ (Len(MscPending') = 0 /\ mscPhase = "data")
    <3>1. t.buf # "cb"
      BY <1>8, <1>12, <1>21, <2>3
    <3>2. CASE MscStartsStatus(MscPending')
      BY <3>2
    <3>3. CASE Len(MscPending') = 0 /\ ~MscEndsStatus(MscPending)
      <4>1. ~(MscWaiting /\ mscPhase = "out") /\ ~(MscBusy /\ mscPhase = "status")
        BY <1>4, <3>3 DEF MscTurnsInv
      <4>2. MscBusy
        BY <2>3 DEF MscCurrent
      <4>3. mscPhase = "data"
        BY <4>1, <4>2 DEF MscBusy, MscMemInv, MscTurnsInv
      <4> QED BY <3>3, <4>3
    <3> QED BY <1>3, <1>7, <3>1, <3>2, <3>3
  <2> QED BY <1>1, <1>8, <1>19, <2>1, <2>2, <2>3 DEF MscCapacityInv, MscCurrent
<1>23. ASSUME MscCurrent PROVE MscHasOwnData' \/ MscAstray' \/ MscHalted'
  <2>1. len > 0 /\ mscDevice.len = Msc!Length(mscJob) /\ mscDevice.tag = mscTag /\ MscBusy
    BY <1>20, <1>21, <1>23 DEF MscCurrent
  <2>2. CASE t.buf = Msc!Target(mscJob)
    BY <1>8, <1>9, <1>11, <2>1, <2>2 DEF MscHasOwnData
  <2>3. CASE t.buf # Msc!Target(mscJob)
    <3>1. t.len < 512 /\ mscJob # "read"
      BY <1>5, <1>6, <1>8, <1>9, <2>1, <2>3, MscLengths
    <3>2. t.buf = "cb" /\ t.len = 13
      BY <1>5, <1>6, <2>3, <3>1, MscLengths
    <3>3. mscJob = "capacity"
      BY <1>8, <1>9, <2>1, <3>2, MscLengths
    <3>4. MscUnused /\ MscStartsStatus(MscPending) /\ ~MscStartsTwice(MscPending)
      BY <1>7, <1>20, <1>23, <3>2, <3>3 DEF MscUnused
    <3>5. CASE MscStartsData(MscPending')
      BY <3>3, <3>5 DEF MscAstray
    <3>6. CASE Len(MscPending') = 0 /\ MscEndsStatus(MscPending) /\ Len(MscPending) = 1
      <4>1. ~(MscWaiting /\ mscPhase = "data")
        BY <3>3, <3>6 DEF MscTurnsInv
      <4>2. ~(MscBusy /\ mscPhase = "status")
        BY <3>4, <3>6 DEF MscUnused
      <4>3. MscWaiting /\ mscPhase = "out"
        BY <2>1, <4>1, <4>2 DEF MscBusy, MscMemInv, MscTurnsInv
      <4> QED BY <1>1, <3>3, <3>6, <4>3 DEF MscAstray
    <3> QED BY <1>3, <3>4, <3>5, <3>6
  <2> QED BY <2>2, <2>3
<1>24. MscDataInv'
  BY <1>8, <1>19, <1>23 DEF MscDataInv
<1> QED BY <1>13, <1>15, <1>16, <1>17, <1>18, <1>22, <1>24

(* What is written into memory is a block of it.                            *)
LEMMA MscBlockStored ==
    ASSUME NEW f \in [{"cb", "cmd", "dest"} -> MscBlock], NEW b \in {"cb", "cmd", "dest"}, NEW x \in MscBlock
    PROVE  [f EXCEPT ![b] = x] \in [{"cb", "cmd", "dest"} -> MscBlock]
  OBVIOUS

(* The device sends its status.                                             *)
LEMMA MscSendStatusCore ==
    ASSUME MscTypeInv, MscCoreInv, ~MscHalted, mscDevice.phase = "status", MscPending # <<>>, MscPending' = Tail(MscPending),
           NEW ok \in BOOLEAN, mscTold' = mscTold \cup {Msc!Csw(mscDevice.tag, ok)},
           mscMem' = [mscMem EXCEPT ![Head(MscPending).buf] = Msc!Csw(mscDevice.tag, ok)],
           mscDevice' = [mscDevice EXCEPT !.phase = "cbw"],
           UNCHANGED <<mscPc, mscPhase, mscJob, mscTag, mscHalted>>
    PROVE  MscCoreInv' /\ MscMemInv' /\ MscDeviceType' /\ (MscOwn' /\ Msc!Length(mscJob) > 0 => MscHasOwnData')
<1> USE DEF MscCoreInv, MscTypeInv
<1> DEFINE t == Head(MscPending)
           m == Msc!Csw(mscDevice.tag, ok)
<1>1. MscBusy' = MscBusy /\ MscWaiting' = MscWaiting
  BY DEF MscBusy, MscWaiting
<1>2. MscTurned(MscPending) /\ MscPending \in Seq(MscInTransfer)
  BY DEF MscTurnsInv, MscQueueInv
<1>3. /\ MscPending' \in Seq(MscInTransfer) /\ MscTurned(MscPending')
      /\ MscEndsTwice(MscPending') => MscEndsTwice(MscPending)
      /\ MscEndsStatus(MscPending') => MscEndsStatus(MscPending)
      /\ MscEndsStatus(MscPending) => Len(MscPending') = 0 \/ MscEndsStatus(MscPending')
      /\ MscStartsStatus(MscPending) => ~MscStartsTwice(MscPending')
  BY <1>2, MscTakeFirst
<1>4. Len(MscPending) >= 1 /\ Len(MscPending) # 0 /\ t = MscPending[1] /\ t \in MscInTransfer
  BY <1>2, MscTaken
<1>5. t.buf \in {"cb", "cmd", "dest"}
  BY <1>4, MscTransferTypes
<1>6. /\ (t.buf = "cb") <=> MscStartsStatus(MscPending)
      /\ (t.buf # "cb") <=> MscStartsData(MscPending)
  BY <1>4 DEF MscStartsStatus, MscStartsData, MscIsStatus
<1>7. /\ mscDevice.tag \in Int /\ m.kind = "csw" /\ m.tag = mscDevice.tag /\ m.len = Msc!CswSize
      /\ mscDevice'.phase = "cbw" /\ mscDevice'.tag = mscDevice.tag
      /\ m \in MscBlock
  BY DEF MscDeviceType, Msc!Csw, Msc!CswSize, MscBlock
<1> HIDE DEF t, m
<1>8. mscMem' = [mscMem EXCEPT ![t.buf] = m] /\ mscTold' = mscTold \cup {m}
  BY DEF t, m
<1>9. MscInCb' = (IF t.buf = "cb" THEN m ELSE MscInCb) /\ (t.buf = "cb" => \A b \in {"cmd", "dest"} : mscMem'[b] = mscMem[b])
  BY <1>5, <1>8 DEF MscInCb, MscMemInv
<1>10. MscMemInv' /\ MscDeviceType'
  <2>1. mscMem' \in [{"cb", "cmd", "dest"} -> MscBlock]
    <3>1. t.buf \in {"cb", "cmd", "dest"}
      BY <1>5
    <3>2. m \in MscBlock /\ mscMem \in [{"cb", "cmd", "dest"} -> MscBlock]
      BY <1>7 DEF MscMemInv
    <3> DEFINE after == [mscMem EXCEPT ![t.buf] = m]
    <3>3. after \in [{"cb", "cmd", "dest"} -> MscBlock]
      BY <3>1, <3>2, MscBlockStored
    <3>4. mscMem' = after
      BY <1>8
    <3> HIDE DEF after
    <3> QED BY <3>3, <3>4
  <2> QED BY <2>1 DEF MscMemInv, MscDeviceType
<1>11. ~MscOwn
  BY DEF MscOwnInv
<1>12. MscOwn' => MscStartsStatus(MscPending) /\ MscCurrent
  BY <1>1, <1>6, <1>7, <1>9, <1>11 DEF MscOwn, MscCurrent
<1>13. MscTurnsInv'
  BY <1>1, <1>3, <1>4 DEF MscTurnsInv
<1>14. MscCommandInv'
  BY <1>1, <1>7, <1>8, <1>9 DEF MscCommandInv
<1>15. MscOwnInv'
  BY <1>3, <1>7, <1>12 DEF MscOwnInv
<1>16. MscCapacityInv'
  <2>1. ASSUME mscJob = "capacity", mscPc = "command" PROVE FALSE
    <3>1. ~MscCurrent
      BY <2>1 DEF MscCurrent, MscBusy, MscWaiting, Msc!Waits
    <3> QED BY <2>1, <3>1 DEF MscCapacityInv
  <2>2. ASSUME mscJob = "capacity", MscBusy, MscInCb'.kind = "cbw" PROVE FALSE
    <3>1. MscInCb'= MscInCb /\ ~MscStartsStatus(MscPending)
      BY <1>6, <1>7, <1>9, <2>2
    <3>2. MscCurrent
      BY <2>2, <3>1 DEF MscCapacityInv
    <3> QED BY <1>4, <2>2, <3>1, <3>2 DEF MscCapacityInv
  <2> QED BY <1>1, <1>7, <2>1, <2>2 DEF MscCapacityInv
<1>17. MscDataInv'
  BY <1>7 DEF MscDataInv
<1>18. ASSUME MscOwn', Msc!Length(mscJob) > 0 PROVE MscHasOwnData'
  <2>1. MscStartsStatus(MscPending) /\ MscCurrent
    BY <1>12, <1>18
  <2>2. MscHasOwnData
    BY <1>4, <1>18, <2>1 DEF MscDataInv, MscAstray, MscStartsStatus, MscStartsData
  <2>3. Msc!Target(mscJob) \in {"cmd", "dest"}
    BY MscLengths
  <2> QED BY <1>6, <1>8, <1>9, <2>1, <2>2, <2>3 DEF MscHasOwnData
<1> QED BY <1>10, <1>13, <1>14, <1>15, <1>16, <1>17, <1>18

-----------------------------------------------------------------------------
(* Steps                                                                    *)

(* A transfer is queued for the endpoint that reads.                        *)
LEMMA MscQueuePut ==
    ASSUME MscQueueInv, NEW t \in MscInTransfer, mscQueue' = [mscQueue EXCEPT !["in"] = Append(@, t)], mscJob' = mscJob,
           t.buf = "dest" => mscJob = "read"
    PROVE  MscQueueInv' /\ MscPending' = Append(MscPending, t)
<1>1. t \in MscTransfer
  BY DEF MscInTransfer, MscTransfer
<1>2. mscQueue' \in [{"ctl", "out", "in"} -> Seq(MscTransfer)] /\ MscPending' = Append(MscPending, t)
  BY <1>1 DEF MscPending, MscQueueInv
<1>3. /\ MscPending \in Seq(MscInTransfer) /\ MscPending' \in Seq(MscInTransfer) /\ Len(MscPending') = Len(MscPending) + 1
      /\ MscPending'[Len(MscPending) + 1] = t /\ \A k \in 1 .. Len(MscPending) : MscPending'[k] = MscPending[k]
      /\ DOMAIN MscPending = 1 .. Len(MscPending) /\ DOMAIN MscPending' = 1 .. Len(MscPending) + 1 /\ Len(MscPending) \in Nat
  BY <1>2, MscAppended DEF MscQueueInv
<1>4. ASSUME NEW k \in DOMAIN MscPending', MscPending'[k].buf = "dest" PROVE mscJob' = "read"
  <2>1. CASE k \in DOMAIN MscPending
    BY <1>3, <1>4, <2>1 DEF MscQueueInv
  <2>2. CASE k = Len(MscPending) + 1
    BY <1>3, <1>4, <2>2
  <2> QED BY <1>3, <2>1, <2>2
<1> QED BY <1>2, <1>3, <1>4 DEF MscQueueInv

(* One phase of stor_BBB_transport is followed by the next.                 *)
LEMMA MscAfterCases ==
    ASSUME MscTypeInv, MscTurnsInv, MscWaiting, Msc!After, UNCHANGED <<mscJob, mscTag>>
    PROVE  /\ MscMemInv' /\ MscQueueInv' /\ mscPc' \in {"wait", "check"}
           /\ \/ /\ mscPhase = "out" /\ Msc!Length(mscJob) > 0 /\ mscPc' = "wait" /\ mscPhase' = "data" /\ mscMem' = mscMem
                 /\ \E t \in MscInTransfer : t.buf # "cb" /\ MscPending' = Append(MscPending, t)
              \/ /\ (mscPhase = "out" /\ mscJob = "test") \/ mscPhase = "data"
                 /\ mscPc' = "wait" /\ mscPhase' = "status" /\ mscMem' = [mscMem EXCEPT !["cb"] = Msc!Blank]
                 /\ \E t \in MscInTransfer : t.buf = "cb" /\ MscPending' = Append(MscPending, t)
              \/ mscPhase = "status" /\ mscPc' = "check" /\ UNCHANGED <<mscPhase, mscMem, mscQueue>>
<1> USE DEF MscTypeInv
<1>1. ASSUME NEW t \in MscInTransfer, mscQueue' = [mscQueue EXCEPT !["in"] = Append(@, t)],
             t.buf = "dest" => mscJob = "read"
      PROVE  MscQueueInv' /\ MscPending' = Append(MscPending, t)
  BY <1>1, MscQueuePut
<1>2. CASE mscPhase = "out" /\ Msc!HasData /\ Msc!DataPhase
  <2>1. PICK trbs \in {1, 2} : Msc!Put("in", Msc!Target(mscJob), Msc!Length(mscJob), trbs)
    BY <1>2 DEF Msc!DataPhase
  <2>2. /\ Msc!Target(mscJob) = (IF mscJob = "read" THEN "dest" ELSE "cmd") /\ Msc!Length(mscJob) \in {8, 18, 36, 512}
        /\ (mscJob = "read") <=> (Msc!Length(mscJob) = 512)
    BY <1>2, MscLengths DEF Msc!HasData
  <2>3. /\ Msc!Target(mscJob) \in {"cmd", "dest"} /\ (Msc!Target(mscJob) = "dest" => mscJob = "read")
        /\ [buf |-> Msc!Target(mscJob), len |-> Msc!Length(mscJob), trbs |-> trbs] \in MscInTransfer
    BY <2>2 DEF MscInTransfer, MscTransfer
  <2> DEFINE t == [buf |-> Msc!Target(mscJob), len |-> Msc!Length(mscJob), trbs |-> trbs]
  <2>4. mscQueue' = [mscQueue EXCEPT !["in"] = Append(@, t)] /\ t \in MscInTransfer /\ t.buf = Msc!Target(mscJob)
    BY <2>1, <2>3 DEF Msc!Put
  <2> HIDE DEF t
  <2>5. MscQueueInv' /\ \E x \in MscInTransfer : x.buf # "cb" /\ MscPending' = Append(MscPending, x)
    <3>1. MscQueueInv' /\ MscPending' = Append(MscPending, t)
      BY <1>1, <2>3, <2>4
    <3> QED BY <2>3, <2>4, <3>1
  <2>6. mscPc' = "wait" /\ mscPhase' = "data" /\ mscMem' = mscMem /\ Msc!Length(mscJob) > 0
    BY <1>2 DEF Msc!DataPhase, Msc!HasData
  <2>7. MscMemInv'
    BY <2>6 DEF MscMemInv
  <2> QED BY <1>2, <2>5, <2>6, <2>7
<1>3. CASE ((mscPhase = "out" /\ ~Msc!HasData) \/ mscPhase = "data") /\ Msc!StatusPhase
  <2>1. /\ mscMem' = [mscMem EXCEPT !["cb"] = Msc!Blank] /\ mscPc' = "wait" /\ mscPhase' = "status"
        /\ Msc!Put("in", "cb", 13, 1)
    BY <1>3 DEF Msc!StatusPhase, Msc!CswSize
  <2> DEFINE t == [buf |-> "cb", len |-> 13, trbs |-> 1]
  <2>2. mscQueue' = [mscQueue EXCEPT !["in"] = Append(@, t)] /\ t \in MscInTransfer /\ t.buf = "cb"
    BY <2>1 DEF Msc!Put, MscInTransfer, MscTransfer, Msc!CswSize
  <2> HIDE DEF t
  <2>3. MscQueueInv' /\ \E x \in MscInTransfer : x.buf = "cb" /\ MscPending' = Append(MscPending, x)
    <3>1. MscQueueInv' /\ MscPending' = Append(MscPending, t)
      BY <1>1, <2>2
    <3> QED BY <2>2, <3>1
  <2>4. Msc!Blank \in MscBlock
    BY DEF Msc!Blank, MscBlock
  <2>5. MscMemInv'
    BY <2>1, <2>4 DEF MscMemInv
  <2>6. mscPhase = "out" => mscJob = "test"
    BY <1>3, MscLengths DEF Msc!HasData
  <2> QED BY <1>3, <2>1, <2>3, <2>5, <2>6
<1>4. CASE mscPhase = "status" /\ mscPc' = "check" /\ UNCHANGED <<mscPhase, mscMem, mscQueue>>
  BY <1>4 DEF MscMemInv, MscQueueInv, MscPending
<1> QED BY <1>2, <1>3, <1>4 DEF Msc!After

LEMMA MscAfterInv ==
    ASSUME MscInv, MscWaiting, Msc!After, UNCHANGED <<mscJob, mscTag, mscDevice, mscHalted, mscTold>>, MscEventsInv',
           MscStalls = {} => MscStalls' = {}
    PROVE  MscInv'
<1> USE DEF MscInv
<1>1. /\ MscMemInv' /\ MscQueueInv' /\ mscPc' \in {"wait", "check"}
      /\ \/ /\ mscPhase = "out" /\ Msc!Length(mscJob) > 0 /\ mscPc' = "wait" /\ mscPhase' = "data" /\ mscMem' = mscMem
            /\ \E t \in MscInTransfer : t.buf # "cb" /\ MscPending' = Append(MscPending, t)
         \/ /\ (mscPhase = "out" /\ mscJob = "test") \/ mscPhase = "data"
            /\ mscPc' = "wait" /\ mscPhase' = "status" /\ mscMem' = [mscMem EXCEPT !["cb"] = Msc!Blank]
            /\ \E t \in MscInTransfer : t.buf = "cb" /\ MscPending' = Append(MscPending, t)
         \/ mscPhase = "status" /\ mscPc' = "check" /\ UNCHANGED <<mscPhase, mscMem, mscQueue>>
  BY MscAfterCases
<1>2. MscTypeInv' /\ MscStallInv'
  BY <1>1 DEF MscTypeInv, MscDeviceType, MscStallInv, MscHalted
<1>3. CASE /\ mscPhase = "out" /\ Msc!Length(mscJob) > 0 /\ mscPc' = "wait" /\ mscPhase' = "data" /\ mscMem' = mscMem
           /\ \E t \in MscInTransfer : t.buf # "cb" /\ MscPending' = Append(MscPending, t)
  <2>1. MscCoreInv'
    BY <1>3, MscDataCore DEF MscCoreInv
  <2>2. MscAnswerInv'
    BY <1>3 DEF MscAnswerInv
  <2> QED BY <1>2, <2>1, <2>2 DEF MscCoreInv
<1>4. CASE /\ (mscPhase = "out" /\ mscJob = "test") \/ mscPhase = "data"
           /\ mscPc' = "wait" /\ mscPhase' = "status" /\ mscMem' = [mscMem EXCEPT !["cb"] = Msc!Blank]
           /\ \E t \in MscInTransfer : t.buf = "cb" /\ MscPending' = Append(MscPending, t)
  <2>1. MscCoreInv'
    BY <1>4, MscStatusCore DEF MscCoreInv
  <2>2. MscInCb'.kind = "zero"
    BY <1>4 DEF MscTypeInv, MscMemInv, MscInCb, Msc!Blank
  <2>3. MscAnswerInv'
    BY <2>2 DEF MscAnswerInv, MscOwn
  <2> QED BY <1>2, <2>1, <2>3 DEF MscCoreInv
<1>5. CASE mscPhase = "status" /\ mscPc' = "check" /\ UNCHANGED <<mscPhase, mscMem, mscQueue>>
  <2>1. MscInCb' = MscInCb /\ MscPending' = MscPending
    BY <1>5 DEF MscInCb, MscPending
  <2>2. MscCoreInv'
    BY <1>5, <2>1, MscKeepCore DEF MscCoreInv
  <2>3. ~MscWaiting' /\ (MscOwn' => MscOwn)
    BY <1>5, <2>1 DEF MscWaiting, Msc!Waits, MscOwn, MscBusy
  <2>4. MscHasOwnData => MscHasOwnData'
    BY <1>5 DEF MscHasOwnData
  <2>5. MscAnswerInv'
    BY <1>5, <2>3, <2>4 DEF MscAnswerInv
  <2> QED BY <1>2, <2>2, <2>5 DEF MscCoreInv
<1> QED BY <1>1, <1>3, <1>4, <1>5

(* The driver waits on, and the device is left alone.                       *)
LEMMA MscWaitInv ==
    ASSUME MscInv, MscPending' = MscPending, MscEventsInv', MscTold => MscTold', MscStalls = {} => MscStalls' = {}, MscQueueInv',
           UNCHANGED <<Msc!driver, mscMem, Msc!bus>>
    PROVE  MscInv'
<1> USE DEF MscInv
<1>1. /\ UNCHANGED <<mscPc, mscPhase, mscJob, mscTag, mscMem, mscDevice, mscHalted, mscTold>> /\ MscInCb' = MscInCb
      /\ MscWaiting' = MscWaiting /\ MscOwn' = MscOwn /\ MscHasOwnData' = MscHasOwnData /\ MscHalted' = MscHalted
  BY DEF Msc!driver, Msc!bus, MscInCb, MscWaiting, MscOwn, MscBusy, MscHasOwnData, MscHalted
<1>2. MscTypeInv'
  BY <1>1 DEF MscTypeInv, MscMemInv, MscDeviceType
<1>3. MscCoreInv'
  BY <1>1, MscKeepCore DEF MscCoreInv
<1>4. MscStallInv' /\ MscAnswerInv'
  BY <1>1 DEF MscStallInv, MscAnswerInv
<1> QED BY <1>2, <1>3, <1>4 DEF MscCoreInv

LEMMA MscQueueTaken ==
    ASSUME MscQueueInv, MscPending # <<>>, mscQueue' = [mscQueue EXCEPT !["in"] = Tail(@)], mscJob' = mscJob
    PROVE  MscQueueInv' /\ MscPending' = Tail(MscPending)
<1>1. mscQueue["in"] \in Seq(MscTransfer) /\ mscQueue["in"] # <<>>
  BY DEF MscQueueInv, MscPending
<1>2. Tail(mscQueue["in"]) \in Seq(MscTransfer)
  BY <1>1
<1>3. mscQueue' \in [{"ctl", "out", "in"} -> Seq(MscTransfer)] /\ MscPending' = Tail(MscPending)
  BY <1>2 DEF MscPending, MscQueueInv
<1>4. /\ MscPending' \in Seq(MscInTransfer) /\ Len(MscPending) \in Nat /\ Len(MscPending') = Len(MscPending) - 1
      /\ \A k \in 1 .. Len(MscPending') : MscPending'[k] = MscPending[k + 1]
      /\ DOMAIN MscPending = 1 .. Len(MscPending) /\ DOMAIN MscPending' = 1 .. Len(MscPending')
  BY <1>3, MscTaken DEF MscQueueInv
<1>5. ASSUME NEW k \in DOMAIN MscPending', MscPending'[k].buf = "dest" PROVE mscJob' = "read"
  <2>1. k + 1 \in DOMAIN MscPending /\ MscPending[k + 1].buf = "dest"
    BY <1>4, <1>5
  <2> QED BY <2>1 DEF MscQueueInv
<1> QED BY <1>3, <1>4, <1>5 DEF MscQueueInv

LEMMA MscOtherQueue ==
    ASSUME MscQueueInv, NEW e \in {"ctl", "out"}, NEW s \in Seq(MscTransfer), mscQueue' = [mscQueue EXCEPT ![e] = s],
           mscJob' = mscJob
    PROVE  MscQueueInv' /\ MscPending' = MscPending
<1>1. mscQueue' \in [{"ctl", "out", "in"} -> Seq(MscTransfer)] /\ MscPending' = MscPending
  BY DEF MscPending, MscQueueInv
<1> QED BY <1>1 DEF MscQueueInv

LEMMA MscInitInv ==
    ASSUME Msc!UsbMscAssumption, Msc!Init
    PROVE  MscInv
<1>1. /\ mscPc = "command" /\ mscPhase = "out" /\ mscJob = "inquiry" /\ mscTag = -1 /\ mscEvents = <<>> /\ mscHalted = {}
      /\ mscMem = [b \in {"cb", "cmd", "dest"} |-> Msc!Blank] /\ mscQueue = [e \in {"ctl", "out", "in"} |-> <<>>]
      /\ mscDevice = [phase |-> "cbw", tag |-> 0, len |-> 0]
  BY DEF Msc!Init
<1>2. MscPending = <<>> /\ MscInCb.kind = "zero" /\ ~MscWaiting /\ ~MscBusy
  BY <1>1 DEF MscPending, MscInCb, Msc!Blank, MscWaiting, MscBusy, Msc!Waits
<1>3. MscTypeInv
  BY <1>1, <1>2 DEF MscTypeInv, MscMemInv, MscQueueInv, MscEventsInv, MscDeviceType, Msc!Blank,
     MscBlock
<1>4. MscTurnsInv /\ MscCommandInv /\ MscOwnInv
  BY <1>1, <1>2 DEF MscTurnsInv, MscTurned, MscCommandInv, MscOwnInv, MscOwn, MscEndsTwice
<1>5. MscCapacityInv /\ MscDataInv /\ MscStallInv /\ MscAnswerInv
  BY <1>1, <1>2 DEF MscCapacityInv, MscDataInv, MscStallInv, MscAnswerInv, MscCurrent, MscOwn,
     MscStalls
<1> QED BY <1>3, <1>4, <1>5 DEF MscInv

LEMMA MscCommandKeeps ==
    ASSUME MscInv, Msc!Command
    PROVE  MscInv'
<1> USE DEF MscInv, MscTypeInv
<1> DEFINE b == [kind |-> "cbw", tag |-> mscTag', len |-> Msc!Length(mscJob), ok |-> FALSE]
<1>1. /\ mscPc = "command" /\ mscTag' = mscTag + 1 /\ mscPc' = "wait" /\ mscPhase' = "out"
      /\ mscMem' = [mscMem EXCEPT !["cmd"] = Msc!Blank, !["cb"] = b] /\ Msc!Put("out", "cb", Msc!CbwSize, 1)
      /\ UNCHANGED <<mscJob, mscEvents, mscHalted, mscDevice>>
  BY DEF Msc!Command, Msc!Cbw
<1>2. b \in MscBlock /\ Msc!Blank \in MscBlock /\ b.kind = "cbw" /\ mscTag' \in Int
  BY <1>1, MscLengths DEF MscBlock, Msc!Blank, MscMemInv
<1>3. MscInCb' = b /\ mscMem' \in [{"cb", "cmd", "dest"} -> MscBlock]
  BY <1>1, <1>2 DEF MscMemInv, MscInCb
<1>4. MscMemInv' /\ MscEventsInv' /\ MscDeviceType'
  BY <1>1, <1>2, <1>3 DEF MscMemInv, MscEventsInv, MscDeviceType
<1>5. [buf |-> "cb", len |-> Msc!CbwSize, trbs |-> 1] \in MscTransfer
  BY DEF MscTransfer, Msc!CbwSize
<1>6. MscQueueInv' /\ MscPending' = MscPending
  <2>1. mscQueue["out"] \in Seq(MscTransfer)
    BY DEF MscQueueInv
  <2>2. Append(mscQueue["out"], [buf |-> "cb", len |-> Msc!CbwSize, trbs |-> 1]) \in Seq(MscTransfer)
    BY <1>5, <2>1
  <2> QED BY <1>1, <2>2, MscOtherQueue DEF Msc!Put
<1>7. MscCoreInv'
  BY <1>1, <1>3, <1>6, MscCommandCore DEF MscCoreInv
<1>8. MscStallInv' /\ MscAnswerInv'
  BY <1>1 DEF MscStallInv, MscAnswerInv, MscHalted, MscStalls
<1> QED BY <1>4, <1>6, <1>7, <1>8 DEF MscCoreInv

LEMMA MscGiveUpKeeps ==
    ASSUME MscInv, Msc!Foreign \/ Msc!GiveUp
    PROVE  MscInv'
<1> USE DEF MscInv, MscTypeInv
<1>1. /\ MscWaiting /\ mscEvents # <<>> /\ Head(mscEvents).code = "port" /\ mscEvents' = Tail(mscEvents)
      /\ UNCHANGED <<mscJob, mscTag, mscDevice, mscHalted, mscTold>>
  BY DEF Msc!Foreign, Msc!GiveUp, Msc!bus, MscWaiting
<1>2. MscEventsInv' /\ (MscStalls = {} => MscStalls' = {}) /\ (MscTold => MscTold')
  BY <1>1, MscEventTaken
<1>3. CASE Msc!Foreign
  <2>1. UNCHANGED <<mscPc, mscPhase, mscMem, mscQueue>> /\ MscInCb' = MscInCb /\ MscPending' = MscPending
    BY <1>3 DEF Msc!Foreign, MscInCb, MscPending
  <2>2. MscMemInv' /\ MscQueueInv' /\ MscDeviceType' /\ MscCoreInv'
    BY <1>1, <2>1, MscKeepCore DEF MscMemInv, MscQueueInv, MscDeviceType, MscCoreInv
  <2>3. MscStallInv' /\ MscAnswerInv'
    BY <1>1, <1>2, <2>1 DEF MscStallInv, MscAnswerInv, MscHalted, MscOwn, MscBusy, MscWaiting,
       MscHasOwnData
  <2> QED BY <1>2, <2>2, <2>3 DEF MscCoreInv
<1>4. CASE Msc!GiveUp /\ mscPc = "wait"
  <2>1. Msc!After
    BY <1>4 DEF Msc!GiveUp
  <2> QED BY <1>1, <1>2, <2>1, MscAfterInv
<1>5. CASE Msc!GiveUp /\ mscPc # "wait"
  <2>1. mscPc' = "null" /\ UNCHANGED <<mscPhase, mscMem, mscQueue>> /\ MscInCb' = MscInCb /\ MscPending' = MscPending
    BY <1>5 DEF Msc!GiveUp, MscInCb, MscPending
  <2>2. MscMemInv' /\ MscQueueInv' /\ MscDeviceType' /\ MscCoreInv'
    BY <1>1, <2>1, MscKeepCore DEF MscMemInv, MscQueueInv, MscDeviceType, MscCoreInv
  <2>3. ~MscOwn'
    BY <2>1 DEF MscOwn, MscBusy, MscWaiting, Msc!Waits
  <2>4. MscStallInv' /\ MscAnswerInv'
    BY <1>1, <1>2, <2>1, <2>3 DEF MscStallInv, MscAnswerInv, MscHalted
  <2> QED BY <1>2, <2>2, <2>4 DEF MscCoreInv
<1> QED BY <1>3, <1>4, <1>5

LEMMA MscTakeKeeps ==
    ASSUME MscInv, Msc!Take
    PROVE  MscInv'
<1> USE DEF MscInv, MscTypeInv
<1>1. /\ MscWaiting /\ mscEvents # <<>> /\ mscEvents' = Tail(mscEvents)
      /\ UNCHANGED <<mscJob, mscTag, mscDevice, mscHalted, mscTold>>
      /\ \/ /\ mscPc = "wait" /\ Head(mscEvents).code = "stall"
            /\ Msc!Put("ctl", "cmd", 0, 1) /\ mscMem' = [mscMem EXCEPT !["cmd"] = Msc!Blank]
            /\ mscPc' = "clear" /\ UNCHANGED mscPhase
         \/ mscPc = "clear" /\ mscPc' = "clear2" /\ UNCHANGED <<mscPhase, mscMem, mscQueue>>
         \/ Msc!After
  BY DEF Msc!Take, Msc!bus, MscWaiting
<1>2. /\ MscEventsInv' /\ (MscStalls = {} => MscStalls' = {})
      /\ Head(mscEvents).code = "stall" => ~MscTold /\ MscStalls # {}
  BY <1>1, MscEventTaken
<1>3. CASE /\ mscPc = "wait" /\ Head(mscEvents).code = "stall"
           /\ Msc!Put("ctl", "cmd", 0, 1) /\ mscMem' = [mscMem EXCEPT !["cmd"] = Msc!Blank]
           /\ mscPc' = "clear" /\ UNCHANGED mscPhase
  <2>1. MscHalted /\ ~MscTold /\ MscHalted'
    BY <1>1, <1>2, <1>3 DEF MscStallInv, MscHalted
  <2>2. Msc!Blank \in MscBlock
    BY DEF Msc!Blank, MscBlock
  <2>3. MscInCb' = MscInCb /\ mscMem' \in [{"cb", "cmd", "dest"} -> MscBlock]
    BY <1>3, <2>2 DEF MscMemInv, MscInCb
  <2>4. MscMemInv' /\ MscDeviceType'
    BY <1>1, <1>3, <2>3 DEF MscMemInv, MscDeviceType
  <2>5. MscQueueInv' /\ MscPending' = MscPending
    <3>1. mscQueue["ctl"] \in Seq(MscTransfer) /\ [buf |-> "cmd", len |-> 0, trbs |-> 1] \in MscTransfer
      BY DEF MscQueueInv, MscTransfer
    <3>2. Append(mscQueue["ctl"], [buf |-> "cmd", len |-> 0, trbs |-> 1]) \in Seq(MscTransfer)
      BY <3>1
    <3> QED BY <1>1, <1>3, <3>2, MscOtherQueue DEF Msc!Put
  <2>6. MscWaiting'
    BY <1>3 DEF MscWaiting, Msc!Waits
  <2>7. MscCoreInv'
    BY <1>1, <1>3, <2>1, <2>3, <2>5, <2>6, MscKeepCore DEF MscCoreInv
  <2>8. MscOwn' => MscOwn
    BY <1>1, <2>3 DEF MscOwn, MscBusy
  <2>9. MscStallInv' /\ MscAnswerInv'
    BY <1>1, <1>2, <1>3, <2>1, <2>8 DEF MscStallInv, MscAnswerInv
  <2> QED BY <1>2, <2>4, <2>5, <2>7, <2>9 DEF MscCoreInv
<1>4. CASE mscPc = "clear" /\ mscPc' = "clear2" /\ UNCHANGED <<mscPhase, mscMem, mscQueue>>
  <2>1. MscInCb' = MscInCb /\ MscPending' = MscPending /\ MscWaiting' /\ MscHalted /\ MscHalted'
    BY <1>1, <1>4 DEF MscInCb, MscPending, MscWaiting, Msc!Waits, MscStallInv, MscHalted
  <2>2. MscMemInv' /\ MscQueueInv' /\ MscDeviceType' /\ MscCoreInv'
    BY <1>1, <1>4, <2>1, MscKeepCore DEF MscMemInv, MscQueueInv, MscDeviceType, MscCoreInv
  <2>3. MscOwn' => MscOwn
    BY <1>1, <2>1 DEF MscOwn, MscBusy
  <2>4. MscStallInv' /\ MscAnswerInv'
    BY <1>1, <1>4, <2>1, <2>3 DEF MscStallInv, MscAnswerInv
  <2> QED BY <1>2, <2>2, <2>4 DEF MscCoreInv
<1>5. CASE Msc!After
  BY <1>1, <1>2, <1>5, MscAfterInv
<1> QED BY <1>1, <1>3, <1>4, <1>5

LEMMA MscCheckKeeps ==
    ASSUME MscInv, Msc!Check
    PROVE  MscInv'
<1> USE DEF MscInv, MscTypeInv
<1>1. /\ mscPc = "check" /\ UNCHANGED <<mscPhase, mscTag, mscMem, mscQueue, mscEvents, mscDevice, mscHalted, mscTold>>
  BY DEF Msc!Check, Msc!bus
<1>2. mscJob \in {"inquiry", "test", "sense", "capacity", "read"}
  BY DEF MscMemInv
<1>3. /\ mscJob' \in {"inquiry", "test", "sense", "capacity", "read"}
      /\ mscPc' \in {"command", "reset", "done"}
      /\ mscJob' = "test" => mscJob # "test"
      /\ mscPc' = "command" \/ mscJob' = mscJob
      /\ mscJob = "read" => mscJob' = "read"
      /\ mscJob' = "capacity" => (mscJob = "test" /\ Msc!Accepts) \/ mscPc' # "command"
  BY <1>2 DEF Msc!Check, Msc!Go, Msc!NotReady
<1>4. Msc!Accepts => MscOwn
  BY <1>1 DEF Msc!Accepts, Msc!TagMatches, MscOwn, MscInCb, MscBusy
<1>5. MscInCb' = MscInCb /\ MscPending' = MscPending
  BY <1>1 DEF MscInCb, MscPending
<1>6. MscCoreInv'
  BY <1>1, <1>3, <1>4, <1>5, MscCheckCore DEF MscCoreInv
<1>7. MscTypeInv'
  <2>1. MscMemInv' /\ MscEventsInv' /\ MscDeviceType'
    BY <1>1, <1>3 DEF MscMemInv, MscEventsInv, MscDeviceType
  <2>2. MscQueueInv'
    BY <1>1, <1>3, <1>5 DEF MscQueueInv
  <2> QED BY <2>1, <2>2
<1>8. mscPc' \in {"command", "reset", "done"}
  BY <1>3
<1>9. ~MscOwn'
  <2>1. ~MscBusy'
    BY <1>8 DEF MscBusy, MscWaiting, Msc!Waits
  <2> QED BY <2>1 DEF MscOwn
<1>10. MscStallInv' /\ MscAnswerInv'
  BY <1>1, <1>8, <1>9 DEF MscStallInv, MscAnswerInv, MscHalted, MscStalls
<1> QED BY <1>6, <1>7, <1>10 DEF MscCoreInv

(* One event, or several of one kind, is as good as any sequence of them.   *)
LEMMA MscCompleted ==
    ASSUME MscQueueInv, MscEventsInv, NEW code \in {"ok", "short", "error", "stall"}, NEW residue \in Int,
           NEW n \in Nat \ {0}, MscPending # <<>>, Msc!Complete("in", code, residue, n), mscJob' = mscJob
    PROVE  /\ MscQueueInv' /\ MscPending' = Tail(MscPending) /\ MscEventsInv' /\ (MscTold => MscTold')
           /\ code # "stall" /\ MscStalls = {} => MscStalls' = {} /\ MscTold'
<1>1. /\ mscQueue' = [mscQueue EXCEPT !["in"] = Tail(@)]
      /\ mscEvents' = mscEvents \o [k \in 1 .. n |-> [code |-> code, residue |-> residue]]
  BY DEF Msc!Complete
<1>2. code \in {"port", "ok", "short", "error", "stall"}
  OBVIOUS
<1> QED BY <1>1, <1>2, MscQueueTaken, MscEventsAdded

LEMMA MscOneAdded ==
    ASSUME MscEventsInv, NEW code \in {"ok", "port"},
           mscEvents' = mscEvents \o [k \in 1 .. 1 |-> [code |-> code, residue |-> 0]]
    PROVE  MscEventsInv' /\ (MscStalls = {} => MscStalls' = {}) /\ (MscTold => MscTold')
<1> DEFINE n == 1
           residue == 0
<1>1. n \in Nat \ {0} /\ residue \in Int /\ code \in {"port", "ok", "short", "error", "stall"} /\ code # "stall"
  OBVIOUS
<1>2. mscEvents' = mscEvents \o [k \in 1 .. n |-> [code |-> code, residue |-> residue]]
  OBVIOUS
<1> HIDE DEF n, residue
<1> QED BY <1>1, <1>2, MscEventsAdded

LEMMA MscRunOutKeeps ==
    ASSUME MscInv, Msc!RunOut
    PROVE  MscInv'
<1> USE DEF MscInv, MscTypeInv
<1>1. /\ mscDevice.phase = "cbw" /\ mscQueue["out"] # <<>> /\ Msc!Complete("out", "ok", 0, 1)
      /\ mscDevice' = IF MscInCb.kind # "cbw" THEN [mscDevice EXCEPT !.phase = "broken"]
                   ELSE [phase |-> IF MscInCb.len > 0 THEN "data" ELSE "status",
                         tag |-> MscInCb.tag, len |-> MscInCb.len]
      /\ UNCHANGED <<mscPc, mscPhase, mscJob, mscTag, mscMem, mscHalted, mscTold>>
  BY DEF Msc!RunOut, Msc!driver, MscInCb
<1>2. MscQueueInv' /\ MscPending' = MscPending
  <2>1. mscQueue["out"] \in Seq(MscTransfer) /\ mscQueue["out"] # <<>>
    BY <1>1 DEF MscQueueInv
  <2>2. Tail(mscQueue["out"]) \in Seq(MscTransfer)
    BY <2>1
  <2> QED BY <1>1, <2>2, MscOtherQueue DEF Msc!Complete
<1>3. MscEventsInv' /\ (MscStalls = {} => MscStalls' = {}) /\ (MscTold => MscTold')
  <2>1. mscEvents' = mscEvents \o [k \in 1 .. 1 |-> [code |-> "ok", residue |-> 0]]
    BY <1>1 DEF Msc!Complete
  <2> QED BY <2>1, MscOneAdded
<1>4. MscMemInv' /\ MscDeviceType'
  <2>1. MscInCb.tag \in Int /\ MscInCb.len \in Int
    BY DEF MscMemInv, MscInCb, MscBlock
  <2>2. CASE MscInCb.kind # "cbw"
    BY <1>1, <2>2 DEF MscMemInv, MscDeviceType
  <2>3. CASE MscInCb.kind = "cbw"
    BY <1>1, <2>1, <2>3 DEF MscMemInv, MscDeviceType
  <2> QED BY <2>2, <2>3
<1>5. MscCoreInv'
  BY <1>1, <1>2, MscRunOutCore DEF MscCoreInv
<1>6. MscOwn' = MscOwn /\ MscHasOwnData' = MscHasOwnData /\ MscWaiting' = MscWaiting /\ MscHalted' = MscHalted
  BY <1>1 DEF MscOwn, MscInCb, MscBusy, MscWaiting, MscHasOwnData, MscHalted
<1>7. MscStallInv' /\ MscAnswerInv'
  BY <1>1, <1>3, <1>6 DEF MscStallInv, MscAnswerInv
<1> QED BY <1>2, <1>3, <1>4, <1>5, <1>7 DEF MscCoreInv

(* A stall, or more data than fits, halts the endpoint.                     *)
LEMMA MscHaltInv ==
    ASSUME MscInv, MscPending # <<>>, NEW code \in {"error", "stall"}, Msc!Complete("in", code, 0, 1),
           mscHalted' = {"in"}, UNCHANGED <<Msc!driver, mscMem>>, mscTold \subseteq mscTold',
           \/ mscDevice' = mscDevice /\ mscTold' = mscTold
           \/ mscDevice.phase = "data" /\ mscDevice' = [mscDevice EXCEPT !.phase = "status"]
           \/ mscDevice.phase = "status" /\ mscDevice' = [mscDevice EXCEPT !.phase = "cbw"]
    PROVE  MscInv'
<1> USE DEF MscInv, MscTypeInv
<1>1. UNCHANGED <<mscPc, mscPhase, mscJob, mscTag, mscMem>>
  BY DEF Msc!driver
<1>2. MscQueueInv' /\ MscPending' = Tail(MscPending) /\ MscEventsInv' /\ (MscTold => MscTold')
  <2>1. code \in {"ok", "short", "error", "stall"} /\ 0 \in Int /\ 1 \in Nat \ {0}
    OBVIOUS
  <2> QED BY <1>1, <2>1, MscCompleted
<1>3. MscMemInv' /\ MscDeviceType'
  BY <1>1 DEF MscMemInv, MscDeviceType
<1>4. MscCoreInv'
  BY <1>1, <1>2, MscHaltCore DEF MscCoreInv
<1>5. MscOwn' = MscOwn /\ MscWaiting' = MscWaiting /\ MscHalted'
  BY <1>1 DEF MscOwn, MscInCb, MscBusy, MscWaiting, MscHalted
<1>6. MscOwn => mscTold' = mscTold
  BY DEF MscOwnInv
<1>7. MscOwn => MscHasOwnData' = MscHasOwnData
  BY <1>1, <1>6 DEF MscHasOwnData
<1>8. MscStallInv' /\ MscAnswerInv'
  BY <1>1, <1>2, <1>5, <1>7 DEF MscStallInv, MscAnswerInv
<1> QED BY <1>2, <1>3, <1>4, <1>8 DEF MscCoreInv

(* Where a transfer is carried out, and the event of one that is.           *)
LEMMA MscSentEvents ==
    ASSUME MscInv, ~MscHalted, MscPending # <<>>, NEW m, m.len \in Int, m.len <= Head(MscPending).len, Msc!Send(m), mscJob' = mscJob
    PROVE  /\ mscMem' = IF m.len > 0 THEN [mscMem EXCEPT ![Head(MscPending).buf] = m] ELSE mscMem
           /\ mscTold' = mscTold \cup {m} /\ mscHalted' = mscHalted
           /\ MscQueueInv' /\ MscPending' = Tail(MscPending) /\ MscEventsInv' /\ MscStalls' = {} /\ MscTold'
<1> USE DEF MscInv, MscTypeInv
<1> DEFINE t == Head(MscPending)
<1>1. t \in MscInTransfer
  BY MscTaken DEF MscQueueInv
<1>2. t.len \in Int /\ t.trbs \in {1, 2}
  BY <1>1, MscTransferTypes
<1>3. /\ mscTold' = mscTold \cup {m} /\ mscHalted' = mscHalted
      /\ mscMem' = IF m.len > 0 THEN [mscMem EXCEPT ![t.buf] = m] ELSE mscMem
      /\ \/ Msc!Complete("in", "ok", 0, 1)
         \/ \E k \in 1 .. t.trbs : Msc!Complete("in", "short", t.len - m.len, k)
  BY <1>2 DEF Msc!Send, MscPending
<1> HIDE DEF t
<1>4. MscStalls = {}
  BY DEF MscStallInv
<1>5. CASE Msc!Complete("in", "ok", 0, 1)
  <2>1. MscQueueInv' /\ MscPending' = Tail(MscPending) /\ MscEventsInv' /\ MscStalls' = {} /\ MscTold'
    BY <1>4, <1>5, MscCompleted
  <2> QED BY <1>3, <2>1 DEF t
<1>6. CASE \E k \in 1 .. t.trbs : Msc!Complete("in", "short", t.len - m.len, k)
  <2>1. PICK k \in 1 .. t.trbs : Msc!Complete("in", "short", t.len - m.len, k)
    BY <1>6
  <2>2. k \in Nat \ {0} /\ t.len - m.len \in Int
    BY <1>2
  <2>3. MscQueueInv' /\ MscPending' = Tail(MscPending) /\ MscEventsInv' /\ MscStalls' = {} /\ MscTold'
    BY <1>4, <2>1, <2>2, MscCompleted
  <2> QED BY <1>3, <2>3 DEF t
<1> QED BY <1>3, <1>5, <1>6

LEMMA MscSendTooMuch ==
    ASSUME NEW m, m.len > Head(MscPending).len, Msc!Send(m)
    PROVE  mscTold' = mscTold \cup {m} /\ mscHalted' = {"in"} /\ Msc!Complete("in", "error", 0, 1) /\ mscMem' = mscMem
  BY DEF Msc!Send, MscPending

LEMMA MscRunDataKeeps ==
    ASSUME MscInv, Msc!RunData
    PROVE  MscInv'
<1> USE DEF MscInv, MscTypeInv
<1>1. /\ MscPending # <<>> /\ mscDevice.phase = "data" /\ mscDevice' = [mscDevice EXCEPT !.phase = "status"]
      /\ UNCHANGED Msc!driver /\ "in" \notin mscHalted
      /\ Msc!Stall \/ \E len \in {mscDevice.len - 1, mscDevice.len} : Msc!Send(Msc!Data(mscDevice.tag, len))
  BY DEF Msc!RunData, Msc!In, MscPending
<1>2. ~MscHalted /\ mscDevice.len \in Int /\ UNCHANGED <<mscPc, mscPhase, mscJob, mscTag>>
  BY <1>1 DEF MscStallInv, MscHalted, MscDeviceType, Msc!driver
<1>3. CASE Msc!Stall
  <2>1. mscHalted' = {"in"} /\ Msc!Complete("in", "stall", 0, 1) /\ UNCHANGED <<mscMem, mscTold>>
    BY <1>3 DEF Msc!Stall
  <2> QED BY <1>1, <2>1, MscHaltInv
<1>4. ASSUME NEW len \in {mscDevice.len - 1, mscDevice.len}, Msc!Send(Msc!Data(mscDevice.tag, len)) PROVE MscInv'
  <2> DEFINE m == Msc!Data(mscDevice.tag, len)
  <2>1. m.len = len /\ len \in Int
    BY <1>2 DEF Msc!Data
  <2>2. Head(MscPending).len \in Int
    BY <1>1, MscTaken, MscTransferTypes DEF MscQueueInv
  <2>3. CASE len > Head(MscPending).len
    <3>1. mscTold' = mscTold \cup {m} /\ mscHalted' = {"in"} /\ Msc!Complete("in", "error", 0, 1) /\ mscMem' = mscMem
      BY <1>4, <2>1, <2>3, MscSendTooMuch
    <3> QED BY <1>1, <3>1, MscHaltInv
  <2>4. CASE len <= Head(MscPending).len
    <3>1. /\ mscMem' = IF len > 0 THEN [mscMem EXCEPT ![Head(MscPending).buf] = m] ELSE mscMem
          /\ mscTold' = mscTold \cup {m} /\ mscHalted' = mscHalted
          /\ MscQueueInv' /\ MscPending' = Tail(MscPending) /\ MscEventsInv' /\ MscStalls' = {} /\ MscTold'
      BY <1>1, <1>2, <1>4, <2>1, <2>4, MscSentEvents
    <3>2. MscCoreInv' /\ MscMemInv' /\ MscDeviceType' /\ ~MscOwn'
      BY <1>1, <1>2, <2>4, <3>1, MscSendDataCore DEF MscCoreInv
    <3>3. MscStallInv' /\ MscAnswerInv'
      BY <1>2, <3>1, <3>2 DEF MscStallInv, MscAnswerInv, MscHalted
    <3> QED BY <3>1, <3>2, <3>3 DEF MscCoreInv
  <2> QED BY <2>1, <2>2, <2>3, <2>4
<1> QED BY <1>1, <1>3, <1>4

LEMMA MscRunStatusKeeps ==
    ASSUME MscInv, Msc!RunStatus
    PROVE  MscInv'
<1> USE DEF MscInv, MscTypeInv
<1>1. /\ MscPending # <<>> /\ mscDevice.phase = "status" /\ mscDevice' = [mscDevice EXCEPT !.phase = "cbw"]
      /\ UNCHANGED Msc!driver /\ "in" \notin mscHalted
      /\ \E ok \in BOOLEAN : Msc!Send(Msc!Csw(mscDevice.tag, ok))
  BY DEF Msc!RunStatus, Msc!In, MscPending
<1>2. ~MscHalted /\ UNCHANGED <<mscPc, mscPhase, mscJob, mscTag>>
  BY <1>1 DEF MscStallInv, MscHalted, Msc!driver
<1>3. PICK ok \in BOOLEAN : Msc!Send(Msc!Csw(mscDevice.tag, ok))
  BY <1>1
<1> DEFINE m == Msc!Csw(mscDevice.tag, ok)
<1>4. m.len = 13
  BY DEF Msc!Csw, Msc!CswSize
<1>5. Head(MscPending).len \in Int
  BY <1>1, MscTaken, MscTransferTypes DEF MscQueueInv
<1>6. CASE 13 > Head(MscPending).len
  <2>1. mscTold' = mscTold \cup {m} /\ mscHalted' = {"in"} /\ Msc!Complete("in", "error", 0, 1) /\ mscMem' = mscMem
    BY <1>3, <1>4, <1>6, MscSendTooMuch
  <2> QED BY <1>1, <2>1, MscHaltInv
<1>7. CASE 13 <= Head(MscPending).len
  <2>1. /\ mscMem' = [mscMem EXCEPT ![Head(MscPending).buf] = m]
        /\ mscTold' = mscTold \cup {m} /\ mscHalted' = mscHalted
        /\ MscQueueInv' /\ MscPending' = Tail(MscPending) /\ MscEventsInv' /\ MscStalls' = {} /\ MscTold'
    BY <1>1, <1>2, <1>3, <1>4, <1>7, MscSentEvents
  <2>2. MscCoreInv' /\ MscMemInv' /\ MscDeviceType' /\ (MscOwn' /\ Msc!Length(mscJob) > 0 => MscHasOwnData')
    BY <1>1, <1>2, <2>1, MscSendStatusCore DEF MscCoreInv
  <2>3. MscStallInv'
    BY <1>2, <2>1 DEF MscStallInv, MscHalted
  <2>4. MscWaiting' => mscPc' = "wait"
    BY <1>2 DEF MscWaiting, Msc!Waits, MscStallInv
  <2>5. MscAnswerInv'
    BY <1>2, <2>1, <2>2, <2>4 DEF MscAnswerInv
  <2> QED BY <2>1, <2>2, <2>3, <2>5 DEF MscCoreInv
<1> QED BY <1>5, <1>6, <1>7

LEMMA MscRunBrokenKeeps ==
    ASSUME MscInv, Msc!RunBroken
    PROVE  MscInv'
<1>1. /\ MscPending # <<>> /\ UNCHANGED <<Msc!driver, mscDevice, mscMem, mscTold>>
      /\ mscHalted' = {"in"} /\ Msc!Complete("in", "stall", 0, 1)
  BY DEF Msc!RunBroken, Msc!In, Msc!Stall, MscPending
<1> QED BY <1>1, MscHaltInv

LEMMA MscEventKeeps ==
    ASSUME MscInv, Msc!RunControl \/ Msc!PortEvent
    PROVE  MscInv'
<1> USE DEF MscInv, MscTypeInv
<1>1. UNCHANGED <<Msc!driver, mscMem, Msc!bus>> /\ mscJob' = mscJob
  BY DEF Msc!RunControl, Msc!PortEvent, Msc!driver
<1>2. CASE Msc!RunControl
  <2>1. mscQueue["ctl"] # <<>> /\ Msc!Complete("ctl", "ok", 0, 1)
    BY <1>2 DEF Msc!RunControl
  <2>2. mscQueue["ctl"] \in Seq(MscTransfer) /\ mscQueue["ctl"] # <<>>
    BY <2>1 DEF MscQueueInv
  <2>3. Tail(mscQueue["ctl"]) \in Seq(MscTransfer)
    BY <2>2
  <2>4. MscQueueInv' /\ MscPending' = MscPending
    BY <1>1, <2>1, <2>3, MscOtherQueue DEF Msc!Complete
  <2>5. mscEvents' = mscEvents \o [k \in 1 .. 1 |-> [code |-> "ok", residue |-> 0]]
    BY <2>1 DEF Msc!Complete
  <2>6. MscEventsInv' /\ (MscTold => MscTold') /\ (MscStalls = {} => MscStalls' = {})
    BY <2>5, MscOneAdded
  <2> QED BY <1>1, <2>4, <2>6, MscWaitInv
<1>3. CASE Msc!PortEvent
  <2>1. mscQueue' = mscQueue /\ mscEvents' = Append(mscEvents, [code |-> "port", residue |-> 0])
    BY <1>3 DEF Msc!PortEvent
  <2>2. MscQueueInv' /\ MscPending' = MscPending
    BY <1>1, <2>1 DEF MscQueueInv, MscPending
  <2>3. mscEvents' = mscEvents \o [k \in 1 .. 1 |-> [code |-> "port", residue |-> 0]]
    <3> DEFINE e == [code |-> "port", residue |-> 0]
               Event == [code : {"port", "ok", "short", "error", "stall"}, residue : Int]
    <3>1. e \in Event /\ mscEvents \in Seq(Event)
      BY DEF MscEventsInv
    <3> HIDE DEF e, Event
    <3>2. Append(mscEvents, e) = mscEvents \o [k \in 1 .. 1 |-> e]
      BY <3>1
    <3> QED BY <2>1, <3>2 DEF e
  <2>4. MscEventsInv' /\ (MscTold => MscTold') /\ (MscStalls = {} => MscStalls' = {})
    BY <2>3, MscOneAdded
  <2> QED BY <1>1, <2>2, <2>4, MscWaitInv
<1> QED BY <1>2, <1>3

LEMMA MscNextInv ==
    ASSUME MscInv, [Msc!Next]_(Msc!vars)
    PROVE  MscInv'
<1>1. CASE UNCHANGED Msc!vars
  <2>1. UNCHANGED <<Msc!driver, mscMem, Msc!bus, mscQueue, mscEvents>>
    BY <1>1 DEF Msc!vars
  <2>2. MscPending' = MscPending /\ MscTold' = MscTold /\ MscStalls' = MscStalls
    BY <2>1 DEF MscPending, MscTold, MscStalls
  <2>3. MscEventsInv' /\ MscQueueInv'
    BY <2>1, <2>2 DEF MscInv, MscTypeInv, MscEventsInv, MscQueueInv, Msc!driver
  <2> QED BY <2>1, <2>2, <2>3, MscWaitInv
<1>2. CASE Msc!Poll \/ Msc!Finish
  BY <1>1, <1>2 DEF Msc!Poll, Msc!Finish
<1>3. CASE Msc!Command
  BY <1>3, MscCommandKeeps
<1>4. CASE Msc!Foreign \/ Msc!GiveUp
  BY <1>4, MscGiveUpKeeps
<1>5. CASE Msc!Take
  BY <1>5, MscTakeKeeps
<1>6. CASE Msc!Check
  BY <1>6, MscCheckKeeps
<1>7. CASE Msc!RunOut
  BY <1>7, MscRunOutKeeps
<1>8. CASE Msc!RunIn
  BY <1>8, MscRunDataKeeps, MscRunStatusKeeps, MscRunBrokenKeeps DEF Msc!RunIn
<1>9. CASE Msc!RunControl \/ Msc!PortEvent
  BY <1>9, MscEventKeeps
<1> QED BY <1>1, <1>2, <1>3, <1>4, <1>5, <1>6, <1>7, <1>8, <1>9 DEF Msc!Next, Msc!Driver

(* What the checks need.                                                    *)
LEMMA MscInvSuffices ==
    ASSUME MscInv
    PROVE  Msc!SuccessIsOwn /\ Msc!DataIsOwn
<1> USE DEF MscInv
<1> SUFFICES ASSUME mscPc = "check", Msc!Accepts
             PROVE  /\ Msc!Csw(mscTag, TRUE) \in mscTold
                    /\ Msc!Length(mscJob) > 0 => MscHasOwnData
  BY DEF Msc!SuccessIsOwn, Msc!DataIsOwn, MscHasOwnData
<1>1. MscInCb.kind = "csw" /\ MscInCb.tag = mscTag /\ MscInCb.ok = TRUE /\ MscOwn /\ MscBusy /\ MscInCb \in MscBlock
  BY DEF Msc!Accepts, Msc!TagMatches, Msc!Status, MscInCb, MscOwn, MscBusy, MscTypeInv,
     MscMemInv, MscBlock
<1>2. MscInCb \in mscTold /\ MscInCb.len = Msc!CswSize
  BY <1>1 DEF MscCommandInv
<1>3. MscInCb = Msc!Csw(mscTag, TRUE)
  BY <1>1, <1>2 DEF Msc!Csw, MscBlock
<1>4. mscPhase = "status"
  BY DEF MscTurnsInv
<1> QED BY <1>1, <1>2, <1>3, <1>4 DEF MscAnswerInv

-----------------------------------------------------------------------------
(* SdCard                                                                   *)
(* MAX_SD_READ_RETRY is 32: all the settings, 2 * 8, and once more for a    *)
(* transfer that is disturbed beside.                                       *)
SdRound == 2 * Delays
SdEnoughRetries == Noise * SdRound <= ReadRetries

-----------------------------------------------------------------------------
(* Data lines                                                               *)

(* The card's class is known and it was reset by this try; its lines have   *)
(* not been switched.                                                       *)
SdSelected == {"cmd2", "cmd3", "cmd9", "cmd7", "cmd16", "ext", "ext read", "scr55", "scr", "width55", "acmd6"}
SdEarly == {"cmd0", "cmd1", "cmd8", "cmd55", "acmd41"} \cup SdSelected
SdAt(step, for) == sdPc = step /\ sdCaller = for
SdNarrow == sdCardWidth = 1 /\ sdCtrlWidth = 1
SdEqual == sdCardWidth = sdCtrlWidth
SdAgree ==
    /\ "refused" \notin sdUnsure => sdCtrlWidth <= sdCardWidth
    /\ sdUnsure \subseteq {"refused"} => sdCardWidth <= sdCtrlWidth

SdWidthInv ==
    /\ sdCardWidth \in {1, 4}
    /\ sdState = "idle" => sdCardWidth = 1
    /\ sdPc \in SdEarly => sdCtrlWidth = 1
    /\ sdPc \in SdSelected => sdCardWidth = 1
    /\ SdAt("cmd13", "cmd7") => SdNarrow
    /\ SdAt("switch", "width") => SdNarrow
    /\ SdAt("cmd13", "width") => sdCtrlWidth = 1 /\ ("refused" \notin sdUnsure => sdCardWidth = 4)
    /\ sdPc \in {"switch", "cmd13"} /\ sdCaller \in {"speed", "erase", "config"} => SdAgree
    /\ sdPc \in {"speed", "clock", "read", "stop", "done"} => SdAgree

SdCallerInv ==
    /\ sdPc = "switch" => sdCaller \in {"width", "speed", "erase", "config"}
    /\ sdPc = "cmd13" => sdCaller \in {"cmd7", "width", "speed", "erase", "config"}

-----------------------------------------------------------------------------
(* Sampling                                                                 *)

(* The settings in the order in which they are tried.                       *)
SdPos(s) ==
    (IF s[1] >= Begin THEN s[1] - Begin ELSE s[1] - Begin + Delays) + (IF s[2] THEN Delays ELSE 0)
SdGap(s, g) == IF SdPos(g) >= SdPos(s) THEN SdPos(g) - SdPos(s) ELSE SdPos(g) - SdPos(s) + SdRound
SdAway(g) == SdGap(Sd!setting, g)

SdSettingInv ==
    Sd!setting \in Sd!Settings /\ sdGood \subseteq Sd!Settings /\ sdNoise \in Nat

(* The clock is raised once the card is identified.                         *)
SdReads3 == {"read", "stop", "done", "failed"}
SdClockInv ==
    /\ sdFast => sdPc \in {"switch", "cmd13", "no switch"} \cup SdReads3
    /\ sdFast /\ sdPc \in {"switch", "cmd13"} => sdCaller \in {"erase", "config"}
    /\ sdPc \in {"switch", "cmd13"} /\ sdCaller \in {"erase", "config"} => sdRetry = 0
    /\ sdPc \notin SdReads3 => sdNoise = 0
    /\ sdPc = "done" => sdRetry = 0 /\ sdNoise = 0

(* How many tries are left before each setting that samples rightly was     *)
(* met undisturbed.                                                         *)
SdCalm == sdFast /\ sdNoise < Noise /\ SdEqual
SdSpent == (sdNoise + 1) * SdRound
SdTriesInv ==
    /\ sdPc = "read" => sdRetry \in Nat
    /\ sdPc = "stop" => sdRetry \in Nat \cup {-1}
    /\ sdPc = "read" /\ SdCalm => \A g \in sdGood : sdRetry + SdAway(g) < SdSpent
    /\ sdPc = "stop" /\ SdCalm /\ sdRetry \in Nat => \A g \in sdGood :
         \/ sdRetry + SdRound < SdSpent
         \/ sdState = "data" /\ sdRetry + SdAway(g) + 1 < SdSpent
         \/ sdState = "data" /\ Sd!setting \notin sdGood /\ sdRetry + SdAway(g) < SdSpent

SdSufficient == SdEnoughRetries => Sd!RetriesSuffice

SdCore == SdCallerInv /\ SdWidthInv /\ SdSettingInv /\ SdClockInv /\ SdTriesInv /\ SdSufficient

-----------------------------------------------------------------------------
(* Blocks                                                                   *)

(* The class a card was found to have is its own once it left ACMD41 or     *)
(* CMD1, so that CMD18 addresses the sector asked for; but CMD0 must not    *)
(* have failed.                                                             *)
SdIdentified == "no reset" \notin sdUnsure
SdUnknown == {"chip", "cmd0", "cmd1", "cmd8", "cmd55", "acmd41", "failed", "no switch"}
SdClassInv ==
    /\ sdWhatDev \in {"sdsc", "mmcsc"} => ~Sd!HighCapacity
    /\ sdPc \notin SdUnknown /\ SdIdentified => (sdWhatDev \in {"sdsc", "mmcsc"} <=> ~Sd!HighCapacity)

(* The buffer holds that sector once a try succeeded, which retry tells.    *)
SdBufferInv ==
    /\ sdSector \in 1 .. Reads
    /\ sdPc \notin {"stop", "done"} => sdData = Sd!NoData
    /\ sdPc = "stop" /\ sdRetry # -1 => sdData = Sd!NoData
    /\ sdPc = "done" \/ (sdPc = "stop" /\ sdRetry = -1) => sdData \in 0 .. Reads /\ (SdIdentified => sdData = sdSector)

SdInv == SdCore /\ SdClassInv /\ SdBufferInv

(* The driver as a block device.                                            *)
SdDevPhase ==
    CASE sdPc \in {"read", "stop"} -> "reading" [] sdPc = "done" -> "good"
      [] sdPc \in {"failed", "no switch"} -> "failed" [] OTHER -> "idle"
SdDevFound == IF sdData < 0 THEN 0 ELSE sdData
SdDevSure == SdDevPhase = "idle" \/ SdIdentified

SdDevMoves ==
    \/ UNCHANGED <<SdDevPhase, sdSector, SdDevFound, SdDevSure>>
    \/ /\ SdDevFound' \in {0} \cup 1 .. Reads
       /\ \/ SdDevPhase \in {"idle", "good", "failed"} /\ SdDevPhase' = "reading" /\ sdSector' \in 1 .. Reads
          \/ /\ SdDevPhase = "reading" /\ SdDevPhase' \in {"reading", "good", "failed"} /\ sdSector' = sdSector
             /\ SdDevPhase' = "good" /\ SdDevSure' => SdDevFound' = sdSector'
          \/ SdDevPhase = "idle" /\ SdDevPhase' = "failed" /\ sdSector' = sdSector

-----------------------------------------------------------------------------
(* Arithmetic                                                               *)

LEMMA SdModSmall ==
    ASSUME NEW d \in Nat \ {0}, NEW r \in 0 .. d - 1
    PROVE  (r + 1) % d = IF r = d - 1 THEN 0 ELSE r + 1
<1>1. CASE r = d - 1
  <2>1. (r + 1) % d = d % d
    BY <1>1
  <2>2. d % d = 0
    OBVIOUS
  <2> QED BY <1>1, <2>1, <2>2
<1>2. CASE r < d - 1
  <2>1. r + 1 \in 0 .. d - 1
    BY <1>2
  <2>2. \A x \in 0 .. d - 1 : x % d = x
    OBVIOUS
  <2> QED BY <1>2, <2>1, <2>2
<1> QED BY <1>1, <1>2

LEMMA SdRounds ==
    ASSUME NEW b \in Nat, NEW k \in Nat, NEW n \in Nat
    PROVE  /\ (k + 1) * b \in Nat /\ (k + 2) * b = (k + 1) * b + b
           /\ (0 + 1) * b = b
           /\ k < n => (k + 1) * b <= n * b
<1>1. (k + 1) * b \in Nat /\ (k + 2) * b = (k + 1) * b + b /\ (0 + 1) * b = b
  OBVIOUS
<1>2. ASSUME k < n PROVE (k + 1) * b <= n * b
  <2>1. n - (k + 1) \in Nat
    BY <1>2
  <2>2. (n - (k + 1)) * b \in Nat
    BY <2>1
  <2>3. n * b = (k + 1) * b + (n - (k + 1)) * b
    OBVIOUS
  <2>4. \A x \in Nat, y \in Nat : x <= x + y
    OBVIOUS
  <2>5. (k + 1) * b <= (k + 1) * b + (n - (k + 1)) * b
    BY <1>1, <2>2, <2>4
  <2> QED BY <2>3, <2>5
<1> QED BY <1>1, <1>2

(* A setting is tried after as many steps as it is away.                    *)
LEMMA SdPosRange ==
    ASSUME Sd!SdCardAssumption, NEW s \in Sd!Settings
    PROVE  SdPos(s) \in 0 .. SdRound - 1 /\ s[1] \in 0 .. Delays - 1 /\ s[2] \in BOOLEAN /\ s = <<s[1], s[2]>>
<1>1. Delays \in Nat \ {0} /\ Begin \in 0 .. Delays - 1
  BY DEF Sd!SdCardAssumption
<1>2. s[1] \in 0 .. Delays - 1 /\ s[2] \in BOOLEAN /\ s = <<s[1], s[2]>>
  BY DEF Sd!Settings
<1> QED BY <1>1, <1>2 DEF SdPos, SdRound

LEMMA SdPosUnique ==
    ASSUME Sd!SdCardAssumption, NEW s \in Sd!Settings, NEW t \in Sd!Settings, SdPos(s) = SdPos(t)
    PROVE  s = t
<1>1. Delays \in Nat \ {0} /\ Begin \in 0 .. Delays - 1
  BY DEF Sd!SdCardAssumption
<1>2. /\ s[1] \in 0 .. Delays - 1 /\ s[2] \in BOOLEAN /\ s = <<s[1], s[2]>>
      /\ t[1] \in 0 .. Delays - 1 /\ t[2] \in BOOLEAN /\ t = <<t[1], t[2]>>
  BY SdPosRange
<1>3. s[1] = t[1] /\ s[2] = t[2]
  BY <1>1, <1>2 DEF SdPos
<1> QED BY <1>2, <1>3

LEMMA SdGapRange ==
    ASSUME Sd!SdCardAssumption, NEW s \in Sd!Settings, NEW g \in Sd!Settings
    PROVE  SdGap(s, g) \in 0 .. SdRound - 1 /\ (g # s => SdGap(s, g) # 0)
<1>1. SdPos(g) \in 0 .. SdRound - 1 /\ SdPos(s) \in 0 .. SdRound - 1 /\ SdRound \in Nat
  BY SdPosRange DEF SdRound, Sd!SdCardAssumption
<1>2. g # s => SdPos(g) # SdPos(s)
  BY SdPosUnique
<1> QED BY <1>1, <1>2 DEF SdGap

LEMMA SdNextPos ==
    ASSUME Sd!SdCardAssumption, NEW r \in 0 .. Delays - 1, NEW h \in BOOLEAN,
           NEW n, n = (r + 1) % Delays,
           NEW k \in BOOLEAN, n = Begin => (k <=> ~h), n # Begin => (k <=> h)
    PROVE  /\ <<n, k>> \in Sd!Settings
           /\ \A g \in Sd!Settings : g # <<r, h>> => SdGap(<<n, k>>, g) = SdGap(<<r, h>>, g) - 1
<1>1. Delays \in Nat \ {0} /\ Begin \in 0 .. Delays - 1 /\ SdRound = 2 * Delays
  BY DEF Sd!SdCardAssumption, SdRound
<1>2. n = IF r = Delays - 1 THEN 0 ELSE r + 1
  BY <1>1, SdModSmall
<1>3. n \in 0 .. Delays - 1 /\ k \in BOOLEAN
  BY <1>1, <1>2
<1> DEFINE s == <<r, h>>  t == <<n, k>>
<1>4. s[1] = r /\ s[2] = h /\ t[1] = n /\ t[2] = k
  OBVIOUS
<1>5. s \in Sd!Settings /\ t \in Sd!Settings
  BY <1>3 DEF Sd!Settings
<1> HIDE DEF s, t
<1>6. /\ SdPos(s) = (IF r >= Begin THEN r - Begin ELSE r - Begin + Delays) + (IF h THEN Delays ELSE 0)
      /\ SdPos(t) = (IF n >= Begin THEN n - Begin ELSE n - Begin + Delays) + (IF k THEN Delays ELSE 0)
  BY <1>4 DEF SdPos
<1>7. SdPos(t) = IF SdPos(s) = SdRound - 1 THEN 0 ELSE SdPos(s) + 1
  <2>1. CASE n = Begin
    <3>1. k <=> ~h
      BY <2>1
    <3>2. CASE h
      BY <1>1, <1>2, <1>6, <2>1, <3>1, <3>2
    <3>3. CASE ~h
      BY <1>1, <1>2, <1>6, <2>1, <3>1, <3>3
    <3> QED BY <3>2, <3>3
  <2>2. CASE n # Begin
    <3>1. k <=> h
      BY <2>2
    <3>2. CASE h
      BY <1>1, <1>2, <1>6, <2>2, <3>1, <3>2
    <3>3. CASE ~h
      BY <1>1, <1>2, <1>6, <2>2, <3>1, <3>3
    <3> QED BY <3>2, <3>3
  <2> QED BY <2>1, <2>2
<1>8. ASSUME NEW g \in Sd!Settings, g # s PROVE SdGap(t, g) = SdGap(s, g) - 1
  <2>1. SdPos(g) \in 0 .. SdRound - 1 /\ SdPos(s) \in 0 .. SdRound - 1 /\ SdPos(g) # SdPos(s) /\ SdRound \in Nat
    BY <1>1, <1>5, <1>8, SdPosRange, SdPosUnique
  <2> QED BY <1>7, <2>1 DEF SdGap
<1> QED BY <1>5, <1>8 DEF s, t

LEMMA SdNextSetting ==
    ASSUME Sd!SdCardAssumption, Sd!setting \in Sd!Settings, Sd!sdTryNextReadDelay
    PROVE  /\ Sd!setting' \in Sd!Settings
           /\ \A g \in Sd!Settings : g # Sd!setting => SdGap(Sd!setting', g) = SdGap(Sd!setting, g) - 1
<1>1. sdRd \in 0 .. Delays - 1 /\ sdHs \in BOOLEAN
  BY DEF Sd!setting, Sd!Settings
<1>2. sdRd' = (sdRd + 1) % Delays /\ sdHs' = IF sdRd' = Begin THEN ~sdHs ELSE sdHs
  BY DEF Sd!sdTryNextReadDelay
<1>3. CASE sdRd' = Begin
  <2>1. sdHs' = ~sdHs
    BY <1>2, <1>3
  <2>2. sdHs' \in BOOLEAN
    BY <2>1, Zenon
  <2>3. sdHs' <=> ~sdHs
    BY <2>1, Zenon
  <2> QED BY <1>1, <1>2, <1>3, <2>2, <2>3, SdNextPos DEF Sd!setting
<1>4. CASE sdRd' # Begin
  <2>1. sdHs' = sdHs
    BY <1>2, <1>4
  <2> QED BY <1>1, <1>2, <1>4, <2>1, SdNextPos DEF Sd!setting
<1> QED BY <1>3, <1>4

LEMMA SdReplyFacts ==
    ASSUME NEW obeys \in BOOLEAN, NEW r \in Sd!Replies(obeys)
    PROVE  /\ r.ret \in {"ok", "timeout", "crc", "fail"} /\ r.seen \in BOOLEAN
           /\ r.seen => obeys
           /\ r.ret \in {"ok", "crc"} => r.seen
           /\ r.ret = "ok" => Sd!Sampled
  BY DEF Sd!Replies, Sd!Reply, Sd!wait_response_buff_full

LEMMA SdSampleKeeps ==
    ASSUME Sd!SdCardAssumption, Sd!setting \in Sd!Settings, NEW r, Sd!Sample(r)
    PROVE  Sd!setting' \in Sd!Settings
<1>1. CASE r.ret = "crc"
  BY <1>1, SdNextSetting DEF Sd!Sample
<1>2. CASE r.ret # "crc"
  BY <1>2 DEF Sd!Sample, Sd!setting
<1> QED BY <1>1, <1>2

(* A step that leaves the card on one line, or starts again.                *)
LEMMA SdEarlyStep ==
    ASSUME sdState' = "idle" => sdCardWidth' = 1, sdCardWidth' \in {1, 4},
           sdCtrlWidth' = 1,
           \/ sdPc' \in {"cmd0", "cmd1", "cmd8", "cmd55", "acmd41", "failed"}
           \/ /\ sdCardWidth' = 1
              /\ \/ sdPc' \in SdSelected \cup {"speed"}
                 \/ sdPc' = "cmd13" /\ sdCaller' = "cmd7"
                 \/ sdPc' = "switch" /\ sdCaller' = "width"
    PROVE  SdWidthInv' /\ SdCallerInv'
<1>1. sdCardWidth' = 1 => SdAgree'
  BY DEF SdAgree
<1> QED BY <1>1 DEF SdWidthInv, SdCallerInv, SdAt, SdNarrow, SdEarly, SdSelected

(* A step after the lines of both were switched, or stayed as they were.    *)
LEMMA SdLateStep ==
    ASSUME sdState' = "idle" => sdCardWidth' = 1, sdCardWidth' \in {1, 4},
           \/ sdPc' \in {"speed", "clock", "read", "stop", "done"}
           \/ sdPc' \in {"switch", "cmd13"} /\ sdCaller' \in {"speed", "erase", "config"}
           \/ sdPc' \in {"failed", "no switch"},
           SdAgree' \/ sdPc' \in {"failed", "no switch"}
    PROVE  SdWidthInv' /\ SdCallerInv'
  BY DEF SdWidthInv, SdCallerInv, SdAt, SdNarrow, SdEarly, SdSelected

(* A card that the driver did not identify may only have more lines.        *)
LEMMA SdWiderCard ==
    ASSUME sdCardWidth' \in {1, 4}, sdCtrlWidth' = 1, NEW why \in sdUnsure', why # "refused"
    PROVE  SdAgree'
  BY DEF SdAgree

(* An answer ends a step, or the identification starts again.               *)
LEMMA SdAgainSteps ==
    ASSUME NEW ret, Sd!Again(ret)
    PROVE  sdPc' \in {"cmd0", "failed"}
  BY DEF Sd!Again



LEMMA SdInitChipCtrlWidth ==
    ASSUME SdWidthInv, Sd!InitChipCtrl
    PROVE  SdWidthInv' /\ SdCallerInv'
<1>1. sdCardWidth' \in {1, 4} /\ (sdState' = "idle" => sdCardWidth' = 1)
  BY DEF Sd!InitChipCtrl, Sd!CardReset, SdWidthInv
<1>2. sdCtrlWidth' = 1 /\ sdPc' = "cmd0"
  BY DEF Sd!InitChipCtrl, Sd!hwSdConfig, Sd!Go
<1> QED BY <1>1, <1>2, SdEarlyStep

LEMMA SdCmd0Width ==
    ASSUME SdWidthInv, Sd!Cmd0
    PROVE  SdWidthInv' /\ SdCallerInv'
<1>1. sdCardWidth' \in {1, 4} /\ (sdState' = "idle" => sdCardWidth' = 1)
  BY DEF Sd!Cmd0, Sd!CardReset, SdWidthInv
<1>2. sdCtrlWidth' = 1
  BY DEF Sd!Cmd0, SdWidthInv, SdEarly
<1>3. sdPc' \in {"cmd0", "cmd1", "cmd8", "failed"}
  BY SdAgainSteps DEF Sd!Cmd0, Sd!Go
<1> QED BY <1>1, <1>2, <1>3, SdEarlyStep

LEMMA SdCmd0FailsWidth ==
    ASSUME SdWidthInv, Sd!Cmd0Fails
    PROVE  SdWidthInv' /\ SdCallerInv'
<1>1. sdCardWidth' \in {1, 4} /\ (sdState' = "idle" => sdCardWidth' = 1)
  BY DEF Sd!Cmd0Fails, Sd!CardReset, SdWidthInv
<1>2. sdCtrlWidth' = 1 /\ "no reset" \in sdUnsure'
  BY DEF Sd!Cmd0Fails, SdWidthInv, SdEarly
<1>3. sdPc' = "read" \/ (sdPc' = "switch" /\ sdCaller' = "erase")
  BY DEF Sd!Cmd0Fails, Sd!Initialised
<1>4. SdAgree'
  BY <1>1, <1>2, SdWiderCard
<1> QED BY <1>1, <1>3, <1>4, SdLateStep

LEMMA SdCmd1Width ==
    ASSUME SdWidthInv, Sd!Cmd1
    PROVE  SdWidthInv' /\ SdCallerInv'
<1>1. sdCtrlWidth' = 1 /\ sdCardWidth' = sdCardWidth
  BY DEF Sd!Cmd1, SdWidthInv, SdEarly
<1>2. PICK r \in Sd!Replies(Sd!Mmc /\ sdState = "idle" /\ (Sd!HighCapacity => sdHostHcs)), busy \in BOOLEAN :
        /\ sdState' = IF r.seen /\ ~busy THEN "ready" ELSE sdState
        /\ sdPc' \in {"cmd0", "cmd1", "failed"} \/ (r.ret = "ok" /\ sdPc' = "cmd2")
  BY SdAgainSteps DEF Sd!Cmd1, Sd!Go
<1>3. (r.seen => sdState = "idle") /\ (r.ret = "ok" => r.seen)
  BY SdReplyFacts DEF Sd!Mmc
<1>4. sdCardWidth' \in {1, 4} /\ (sdState' = "idle" => sdCardWidth' = 1)
  BY <1>1, <1>2 DEF SdWidthInv
<1>5. sdPc' = "cmd2" => sdCardWidth' = 1
  BY <1>1, <1>2, <1>3 DEF SdWidthInv
<1> QED BY <1>1, <1>2, <1>4, <1>5, SdEarlyStep DEF SdSelected

LEMMA SdCmd8Width ==
    ASSUME SdWidthInv, Sd!Cmd8
    PROVE  SdWidthInv' /\ SdCallerInv'
<1>1. sdCtrlWidth' = 1 /\ sdCardWidth' = sdCardWidth /\ sdState' = sdState
  BY DEF Sd!Cmd8, SdWidthInv, SdEarly, Sd!card
<1>2. sdPc' \in {"cmd0", "failed", "cmd55"}
  BY SdAgainSteps DEF Sd!Cmd8, Sd!Go
<1>3. sdCardWidth' \in {1, 4} /\ (sdState' = "idle" => sdCardWidth' = 1)
  BY <1>1 DEF SdWidthInv
<1> QED BY <1>1, <1>2, <1>3, SdEarlyStep

LEMMA SdCmd55Width ==
    ASSUME SdWidthInv, Sd!Cmd55
    PROVE  SdWidthInv' /\ SdCallerInv'
<1>1. sdCtrlWidth' = 1 /\ sdCardWidth' = sdCardWidth /\ sdState' = sdState
  BY DEF Sd!Cmd55, SdWidthInv, SdEarly
<1>2. sdPc' \in {"cmd0", "failed", "acmd41"}
  BY SdAgainSteps DEF Sd!Cmd55, Sd!Go
<1>3. sdCardWidth' \in {1, 4} /\ (sdState' = "idle" => sdCardWidth' = 1)
  BY <1>1 DEF SdWidthInv
<1> QED BY <1>1, <1>2, <1>3, SdEarlyStep

LEMMA SdAcmd41Width ==
    ASSUME SdWidthInv, Sd!Acmd41
    PROVE  SdWidthInv' /\ SdCallerInv'
<1>1. sdCtrlWidth' = 1 /\ sdCardWidth' = sdCardWidth
  BY DEF Sd!Acmd41, SdWidthInv, SdEarly
<1>2. PICK r \in Sd!Replies(sdApp /\ sdState = "idle"), busy \in BOOLEAN :
        /\ sdState' \in {"ready", sdState}
        /\ sdPc' \in {"cmd0", "cmd55", "failed"} \/ (r.ret = "ok" /\ sdPc' = "cmd2")
  BY SdAgainSteps DEF Sd!Acmd41, Sd!Go
<1>3. (r.seen => sdState = "idle") /\ (r.ret = "ok" => r.seen)
  BY SdReplyFacts
<1>4. sdCardWidth' \in {1, 4} /\ (sdState' = "idle" => sdCardWidth' = 1)
  BY <1>1, <1>2 DEF SdWidthInv
<1>5. sdPc' = "cmd2" => sdCardWidth' = 1
  BY <1>1, <1>2, <1>3 DEF SdWidthInv
<1> QED BY <1>1, <1>2, <1>4, <1>5, SdEarlyStep DEF SdSelected

(* A step that must succeed.                                                *)
LEMMA SdMustWidth ==
    ASSUME SdWidthInv,
           NEW step \in SdSelected, NEW from, NEW to, to # "idle",
           NEW next, next \in SdSelected \/ next = "cmd13", Sd!Must(step, from, to, next)
    PROVE  SdWidthInv' /\ SdCallerInv'
<1>1. sdCtrlWidth' = 1 /\ sdCardWidth' = 1
  BY DEF Sd!Must, SdWidthInv, SdEarly
<1>2. sdPc' \in {"cmd0", "failed", next}
  BY SdAgainSteps DEF Sd!Must, Sd!Go
<1>3. sdPc' = "cmd13" => sdCaller' = "cmd7"
  BY DEF Sd!Must
<1> QED BY <1>1, <1>2, <1>3, SdEarlyStep

LEMMA SdMustsWidth ==
    ASSUME SdWidthInv,
           \/ Sd!GetAllSendCIDNum \/ Sd!GetSetRelativeAddr \/ Sd!GetSendCSDNum
           \/ Sd!ChangeCardToTransferState \/ Sd!SetBlkLen512B
    PROVE  SdWidthInv' /\ SdCallerInv'
<1>1. CASE Sd!GetAllSendCIDNum
  BY <1>1, SdMustWidth DEF Sd!GetAllSendCIDNum, SdSelected
<1>2. CASE Sd!GetSetRelativeAddr
  BY <1>2, SdMustWidth DEF Sd!GetSetRelativeAddr, SdSelected
<1>3. CASE Sd!GetSendCSDNum
  BY <1>3, SdMustWidth DEF Sd!GetSendCSDNum, SdSelected
<1>4. CASE Sd!ChangeCardToTransferState
  BY <1>4, SdMustWidth DEF Sd!ChangeCardToTransferState, SdSelected
<1>5. CASE Sd!SetBlkLen512B
  <2>1. (IF sdEmmc THEN "ext" ELSE "scr55") \in SdSelected
    BY DEF SdSelected
  <2> QED BY <1>5, <2>1, SdMustWidth DEF Sd!SetBlkLen512B, SdSelected
<1> QED BY <1>1, <1>2, <1>3, <1>4, <1>5

LEMMA SdEarlyReads ==
    ASSUME SdWidthInv, Sd!sdStateCheck \/ Sd!GetMMCExtCSD
    PROVE  SdWidthInv' /\ SdCallerInv'
<1>1. sdCtrlWidth' = 1 /\ sdCardWidth' = 1
  BY DEF Sd!sdStateCheck, Sd!GetMMCExtCSD, SdWidthInv, SdEarly, SdSelected, Sd!card
<1>2. sdPc' = "ext read" \/ (sdPc' = "switch" /\ sdCaller' = "width")
  BY DEF Sd!sdStateCheck, Sd!GetMMCExtCSD, Sd!Go
<1> QED BY <1>1, <1>2, SdEarlyStep DEF SdSelected

LEMMA SdScrWidth ==
    ASSUME SdWidthInv, Sd!ScrCmd55 \/ Sd!ScrRead
    PROVE  SdWidthInv' /\ SdCallerInv'
<1>1. sdCtrlWidth' = 1 /\ sdCardWidth' = 1
  BY DEF Sd!ScrCmd55, Sd!ScrRead, SdWidthInv, SdEarly, SdSelected
<1>2. CASE Sd!ScrCmd55
  <2>1. sdPc' \in {"cmd0", "failed", "scr"}
    BY <1>2, SdAgainSteps DEF Sd!ScrCmd55, Sd!Go
  <2> QED BY <1>1, <2>1, SdEarlyStep DEF SdSelected
<1>3. CASE Sd!ScrRead
  <2>1. sdPc' \in {"cmd0", "failed", "width55", "speed"}
    BY <1>3, SdAgainSteps DEF Sd!ScrRead, Sd!Go
  <2> QED BY <1>1, <2>1, SdEarlyStep DEF SdSelected
<1> QED BY <1>2, <1>3

LEMMA SdWidthCmd55Width ==
    ASSUME SdWidthInv, Sd!WidthCmd55
    PROVE  SdWidthInv' /\ SdCallerInv'
<1>1. sdCtrlWidth' = 1 /\ sdCardWidth' = 1
  BY DEF Sd!WidthCmd55, SdWidthInv, SdEarly, SdSelected
<1>2. sdPc' \in {"cmd0", "failed", "acmd6", "speed"}
  BY SdAgainSteps DEF Sd!WidthCmd55, Sd!WidthError, Sd!Go
<1> QED BY <1>1, <1>2, SdEarlyStep DEF SdSelected

LEMMA SdAcmd6Width ==
    ASSUME SdWidthInv, Sd!Acmd6
    PROVE  SdWidthInv' /\ SdCallerInv'
<1>1. sdCtrlWidth = 1 /\ sdCardWidth = 1 /\ sdState' = sdState
  BY DEF Sd!Acmd6, SdWidthInv, SdEarly, SdSelected
<1>2. PICK r \in Sd!Replies(sdState = "tran" /\ sdApp) :
        /\ sdCardWidth' = IF r.seen THEN 4 ELSE sdCardWidth
        /\ sdCtrlWidth' = IF r.ret = "ok" THEN 4 ELSE sdCtrlWidth
        /\ IF r.ret = "ok" THEN Sd!Go("speed") ELSE Sd!WidthError(r)
        /\ sdUnsure' = sdUnsure \cup IF r.ret \in {"timeout", "fail"} THEN {"lost"} ELSE {}
  BY DEF Sd!Acmd6
<1>3. /\ r.ret \in {"ok", "timeout", "crc", "fail"} /\ (r.seen => sdState = "tran")
      /\ r.ret \in {"ok", "crc"} => r.seen
  BY SdReplyFacts
<1>4. sdCardWidth' \in {1, 4} /\ (sdState' = "idle" => sdCardWidth' = 1)
  BY <1>1, <1>2, <1>3
<1>5. CASE r.ret = "ok"
  <2>1. sdPc' = "speed" /\ sdCardWidth' = 4 /\ sdCtrlWidth' = 4
    BY <1>2, <1>3, <1>5 DEF Sd!Go
  <2> QED BY <1>4, <2>1, SdLateStep DEF SdAgree
<1>6. CASE r.ret = "crc"
  <2>1. sdPc' \in {"cmd0", "failed"} /\ sdCtrlWidth' = 1
    BY <1>1, <1>2, <1>6, SdAgainSteps DEF Sd!WidthError
  <2> QED BY <1>4, <2>1, SdEarlyStep
<1>7. CASE r.ret \in {"timeout", "fail"}
  <2>1. sdPc' = "speed" /\ "lost" \in sdUnsure' /\ sdCtrlWidth' = 1
    BY <1>1, <1>2, <1>7 DEF Sd!WidthError, Sd!Go
  <2>2. SdAgree'
    BY <1>4, <2>1, SdWiderCard
  <2> QED BY <1>4, <2>1, <2>2, SdLateStep
<1> QED BY <1>3, <1>5, <1>6, <1>7

LEMMA SdLateWidth ==
    ASSUME SdWidthInv,
           sdPc \in {"speed", "clock", "read", "stop", "done"},
           sdCtrlWidth' = sdCtrlWidth, sdCardWidth' = sdCardWidth, sdUnsure' = sdUnsure,
           sdState' \in {sdState, "tran", "data"},
           \/ sdPc' \in {"clock", "read", "stop", "done"} \/ sdPc' = "failed"
           \/ sdPc' = "switch" /\ sdCaller' = "erase"
    PROVE  SdWidthInv' /\ SdCallerInv'
<1>1. SdAgree'
  BY DEF SdWidthInv, SdAgree
<1>2. sdCardWidth' \in {1, 4} /\ (sdState' = "idle" => sdCardWidth' = 1)
  BY DEF SdWidthInv
<1> QED BY <1>1, <1>2, SdLateStep

LEMMA SdLateSteps ==
    ASSUME SdWidthInv, Sd!ChangeSDToHiSpeedMode \/ Sd!RaiseClock \/ Sd!NextSector \/ Sd!ReadSDMultipleSector \/ Sd!StopCardTransmission
    PROVE  SdWidthInv' /\ SdCallerInv'
<1>1. CASE Sd!ChangeSDToHiSpeedMode
  BY <1>1, SdLateWidth DEF Sd!ChangeSDToHiSpeedMode, Sd!Go, Sd!card
<1>2. CASE Sd!RaiseClock
  <2>1. sdPc' = "read" \/ (sdPc' = "switch" /\ sdCaller' = "erase")
    BY <1>2 DEF Sd!RaiseClock, Sd!Initialised
  <2> QED BY <1>2, <2>1, SdLateWidth DEF Sd!RaiseClock, Sd!card
<1>3. CASE Sd!NextSector
  BY <1>3, SdLateWidth DEF Sd!NextSector, Sd!card, Sd!driver
<1>4. CASE Sd!ReadSDMultipleSector
  <2>1. sdState' \in {sdState, "data"}
    BY <1>4, Zenon DEF Sd!ReadSDMultipleSector
  <2>2. sdPc = "read" /\ sdPc' = "stop" /\ sdCtrlWidth' = sdCtrlWidth /\ sdCardWidth' = sdCardWidth /\ sdUnsure' = sdUnsure
    BY <1>4, Zenon DEF Sd!ReadSDMultipleSector
  <2> QED BY <2>1, <2>2, SdLateWidth
<1>5. CASE Sd!StopCardTransmission
  <2>1. PICK r \in Sd!Replies(sdState = "data") :
          /\ sdState' = IF r.seen THEN "tran" ELSE sdState
          /\ sdPc' \in {"done", "read", "failed"}
    BY <1>5 DEF Sd!StopCardTransmission
  <2>2. sdPc = "stop" /\ sdCtrlWidth' = sdCtrlWidth /\ sdCardWidth' = sdCardWidth /\ sdUnsure' = sdUnsure
    BY <1>5 DEF Sd!StopCardTransmission
  <2> QED BY <2>1, <2>2, SdLateWidth
<1> QED BY <1>1, <1>2, <1>3, <1>4, <1>5

(* The switch of the lines is on its way.                                   *)
LEMMA SdPendingStep ==
    ASSUME sdState' = "idle" => sdCardWidth' = 1, sdCardWidth' \in {1, 4}, sdPc' = "cmd13", sdCaller' = "width",
           sdCtrlWidth' = 1, "refused" \notin sdUnsure' => sdCardWidth' = 4
    PROVE  SdWidthInv' /\ SdCallerInv'
  BY DEF SdWidthInv, SdCallerInv, SdAt, SdNarrow, SdEarly, SdSelected

(* Where the identification goes on after a switch.                         *)
LEMMA SdSwitchedFacts ==
    ASSUME NEW ok \in BOOLEAN, Sd!Switched(ok)
    PROVE  /\ sdRetry' = sdRetry
           /\ sdCaller = "width" =>
                sdPc' = "switch" /\ sdCaller' = "speed" /\ sdCtrlWidth' = IF ok THEN 4 ELSE sdCtrlWidth
           /\ sdCaller = "speed" => sdPc' = "clock" /\ sdCtrlWidth' = sdCtrlWidth
           /\ sdCaller = "erase" =>
                sdPc' = (IF ok THEN "switch" ELSE "no switch") /\ sdCaller' = "config" /\ sdCtrlWidth' = sdCtrlWidth
           /\ sdCaller = "config" =>
                sdPc' = (IF ok THEN "read" ELSE "no switch") /\ sdCtrlWidth' = sdCtrlWidth
  BY DEF Sd!Switched, Sd!SetMMCBusWidth, Sd!ChangeMMCToHiSpeedMode, Sd!SetMMCEraseGroup2Hi,
     Sd!SetMMCPartitionNum, Sd!hwSdBusWidthSet, Sd!Go

LEMMA SdDoMMCSwitchWidth ==
    ASSUME SdWidthInv, SdCallerInv, Sd!DoMMCSwitch
    PROVE  SdWidthInv' /\ SdCallerInv'
<1>1. PICK r \in Sd!Replies(sdState = "tran"), refuse \in BOOLEAN :
        /\ sdState' = IF r.seen THEN "prg" ELSE sdState
        /\ sdCardWidth' = IF r.seen /\ ~refuse /\ sdCaller = "width" THEN 4 ELSE sdCardWidth
        /\ IF r.ret = "ok"
           THEN /\ Sd!Go("cmd13") /\ sdLoop' = StatusTries /\ UNCHANGED <<sdCaller, sdCtrlWidth>>
                /\ Sd!Doubt(refuse, "refused")
           ELSE Sd!Switched(FALSE) /\ Sd!Doubt(TRUE, "lost")
  BY DEF Sd!DoMMCSwitch
<1>2. r.seen \in BOOLEAN /\ (r.seen => sdState = "tran") /\ (r.ret = "ok" => r.seen)
  BY SdReplyFacts
<1>3. sdCardWidth' \in {1, 4} /\ (sdState' = "idle" => sdCardWidth' = 1)
  BY <1>1, <1>2 DEF SdWidthInv
<1>4. sdCaller \in {"width", "speed", "erase", "config"} /\ sdPc = "switch"
  BY DEF SdCallerInv, Sd!DoMMCSwitch
<1>5. CASE sdCaller = "width"
  <2>1. sdCardWidth = 1 /\ sdCtrlWidth = 1
    BY <1>4, <1>5 DEF SdWidthInv, SdAt, SdNarrow
  <2>2. CASE r.ret = "ok"
    <3>1. sdPc' = "cmd13" /\ sdCaller' = "width" /\ sdCtrlWidth' = 1
      BY <1>1, <1>5, <2>1, <2>2 DEF Sd!Go
    <3>2. "refused" \notin sdUnsure' => sdCardWidth' = 4
      BY <1>1, <1>2, <1>5, <2>2 DEF Sd!Doubt
    <3> QED BY <1>3, <3>1, <3>2, SdPendingStep
  <2>3. CASE r.ret # "ok"
    <3>1. sdPc' = "switch" /\ sdCaller' = "speed" /\ sdCtrlWidth' = 1
      BY <1>1, <1>5, <2>1, <2>3, SdSwitchedFacts
    <3>2. "lost" \in sdUnsure'
      BY <1>1, <1>5, <2>3 DEF Sd!Doubt
    <3>3. SdAgree'
      BY <1>3, <3>1, <3>2, SdWiderCard
    <3> QED BY <1>3, <3>1, <3>3, SdLateStep
  <2> QED BY <2>2, <2>3
<1>6. CASE sdCaller # "width"
  <2>1. sdCardWidth' = sdCardWidth /\ sdCtrlWidth' = sdCtrlWidth
    BY <1>1, <1>4, <1>6, SdSwitchedFacts
  <2>2. sdUnsure' = sdUnsure
    BY <1>1, <1>6 DEF Sd!Doubt
  <2>3. SdAgree'
    BY <1>4, <1>6, <2>1, <2>2 DEF SdWidthInv, SdAgree
  <2>4. \/ sdPc' = "cmd13" /\ sdCaller' \in {"speed", "erase", "config"}
        \/ sdPc' \in {"clock", "no switch"}
    <3>1. CASE r.ret = "ok"
      BY <1>1, <1>4, <1>6, <3>1 DEF Sd!Go
    <3>2. CASE r.ret # "ok"
      BY <1>1, <1>4, <1>6, <3>2, SdSwitchedFacts
    <3> QED BY <3>1, <3>2
  <2> QED BY <1>3, <2>3, <2>4, SdLateStep
<1> QED BY <1>5, <1>6

(* What CMD13 tells, and where the identification goes on.                  *)
SdStatusStep(r) ==
    \/ r.ret = "ok" /\ sdLoop > 1 /\ Sd!StatusFor
    \/ /\ r.ret # "ok" /\ sdLoop > 1 /\ sdLoop' = sdLoop - 1
       /\ Sd!Go("cmd13") /\ UNCHANGED <<sdCtrlWidth, sdCaller, sdUnsure>>
    \/ sdLoop = 1 /\ Sd!StatusLost

LEMMA SdStatusFacts ==
    ASSUME NEW r, SdStatusStep(r), sdPc = "cmd13"
    PROVE  \/ /\ sdPc' = "cmd13" /\ sdCaller' = sdCaller /\ sdCtrlWidth' = sdCtrlWidth /\ sdRetry' = sdRetry
              /\ sdUnsure' = sdUnsure
           \/ /\ sdCaller = "cmd7" /\ sdPc' \in {"cmd16", "cmd0", "failed"}
              /\ sdCaller' = sdCaller /\ sdCtrlWidth' = sdCtrlWidth
           \/ /\ sdCaller # "cmd7"
              /\ \E ok \in BOOLEAN : \E why \in {"urgent", "lost"} : Sd!Switched(ok) /\ Sd!Doubt(~ok, why)
<1>1. CASE r.ret = "ok" /\ sdLoop > 1 /\ Sd!StatusFor
  <2>1. CASE sdCaller = "cmd7"
    BY <1>1, <2>1 DEF Sd!StatusFor, Sd!Go
  <2>2. CASE sdCaller # "cmd7" /\ sdState = "prg"
    BY <1>1, <2>2 DEF Sd!StatusFor, Sd!Go
  <2>3. CASE sdCaller # "cmd7" /\ sdState # "prg"
    <3>1. PICK urgent \in BOOLEAN : Sd!Switched(~urgent) /\ Sd!Doubt(urgent, "urgent")
      BY <1>1, <2>3 DEF Sd!StatusFor
    <3>2. Sd!Doubt(~(~urgent), "urgent")
      BY <3>1 DEF Sd!Doubt
    <3>3. (~urgent) \in BOOLEAN
      OBVIOUS
    <3> QED BY <2>3, <3>1, <3>2, <3>3
  <2> QED BY <2>1, <2>2, <2>3
<1>2. CASE r.ret # "ok" /\ sdLoop > 1 /\ sdLoop' = sdLoop - 1 /\ Sd!Go("cmd13") /\ UNCHANGED <<sdCtrlWidth, sdCaller, sdUnsure>>
  BY <1>2 DEF Sd!Go
<1>3. CASE sdLoop = 1 /\ Sd!StatusLost
  <2>1. CASE sdCaller = "cmd7"
    BY <1>3, <2>1, SdAgainSteps DEF Sd!StatusLost
  <2>2. CASE sdCaller # "cmd7"
    <3>1. Sd!Switched(FALSE) /\ Sd!Doubt(TRUE, "lost")
      BY <1>3, <2>2 DEF Sd!StatusLost
    <3>2. Sd!Doubt(~FALSE, "lost")
      BY <3>1 DEF Sd!Doubt
    <3> QED BY <1>3, <2>2, <3>1, <3>2
  <2> QED BY <2>1, <2>2
<1> QED BY <1>1, <1>2, <1>3 DEF SdStatusStep

LEMMA SdCheckCardStatusWidth ==
    ASSUME SdWidthInv, SdCallerInv, Sd!CheckCardStatus
    PROVE  SdWidthInv' /\ SdCallerInv'
<1>1. PICK r \in Sd!Replies(sdAddressed /\ sdState \in {"stby", "tran", "prg"}) : SdStatusStep(r)
  BY DEF Sd!CheckCardStatus, SdStatusStep
<1>2. sdPc = "cmd13" /\ sdState' = sdState /\ sdCardWidth' = sdCardWidth
  BY DEF Sd!CheckCardStatus, Sd!card
<1>3. sdCaller \in {"cmd7", "width", "speed", "erase", "config"}
  BY <1>2 DEF SdCallerInv
<1>4. sdCardWidth' \in {1, 4} /\ (sdState' = "idle" => sdCardWidth' = 1)
  BY <1>2 DEF SdWidthInv
<1>5. CASE sdCaller = "cmd7"
  <2>1. sdCardWidth = 1 /\ sdCtrlWidth = 1
    BY <1>2, <1>5 DEF SdWidthInv, SdAt, SdNarrow
  <2>2. sdCaller' = "cmd7" /\ sdCtrlWidth' = 1 /\ sdPc' \in {"cmd13", "cmd16", "cmd0", "failed"}
    BY <1>1, <1>2, <1>5, <2>1, SdStatusFacts
  <2> QED BY <1>2, <1>4, <2>1, <2>2, SdEarlyStep DEF SdSelected
<1>6. CASE sdCaller = "width"
  <2>1. sdCtrlWidth = 1 /\ ("refused" \notin sdUnsure => sdCardWidth = 4)
    BY <1>2, <1>6 DEF SdWidthInv, SdAt
  <2>2. CASE sdPc' = "cmd13" /\ sdCaller' = sdCaller /\ sdCtrlWidth' = sdCtrlWidth /\ sdUnsure' = sdUnsure
    BY <1>2, <1>4, <1>6, <2>1, <2>2, SdPendingStep
  <2>3. CASE ~(sdPc' = "cmd13" /\ sdCaller' = sdCaller /\ sdCtrlWidth' = sdCtrlWidth /\ sdUnsure' = sdUnsure)
    <3>1. PICK ok \in BOOLEAN, why \in {"urgent", "lost"} : Sd!Switched(ok) /\ Sd!Doubt(~ok, why)
      BY <1>1, <1>2, <1>6, <2>3, SdStatusFacts
    <3>2. sdPc' = "switch" /\ sdCaller' = "speed" /\ sdCtrlWidth' = IF ok THEN 4 ELSE 1
      BY <1>6, <2>1, <3>1, SdSwitchedFacts
    <3>3. sdUnsure' = IF ok THEN sdUnsure ELSE sdUnsure \cup {why}
      BY <1>6, <3>1 DEF Sd!Doubt
    <3>4. CASE ok
      BY <1>2, <1>4, <2>1, <3>2, <3>3, <3>4, SdLateStep DEF SdAgree
    <3>5. CASE ~ok
      <4>1. why \in sdUnsure' /\ why # "refused" /\ sdCtrlWidth' = 1
        BY <3>2, <3>3, <3>5
      <4>2. SdAgree'
        BY <1>4, <4>1, SdWiderCard
      <4> QED BY <1>4, <3>2, <4>2, SdLateStep
    <3> QED BY <3>4, <3>5
  <2> QED BY <2>2, <2>3
<1>7. CASE sdCaller \in {"speed", "erase", "config"}
  <2>1. SdAgree
    BY <1>2, <1>7 DEF SdWidthInv
  <2>2. /\ sdCtrlWidth' = sdCtrlWidth /\ sdUnsure' = sdUnsure
        /\ \/ sdPc' = "cmd13" /\ sdCaller' = sdCaller
           \/ sdPc' \in {"clock", "read", "no switch"}
           \/ sdPc' = "switch" /\ sdCaller' = "config"
    BY <1>1, <1>2, <1>7, SdStatusFacts, SdSwitchedFacts DEF Sd!Doubt
  <2>3. SdAgree'
    BY <1>2, <2>1, <2>2 DEF SdAgree
  <2> QED BY <1>4, <1>7, <2>2, <2>3, SdLateStep
<1> QED BY <1>3, <1>5, <1>6, <1>7

LEMMA SdWidthStep ==
    ASSUME SdWidthInv, SdCallerInv, [Sd!Next]_(Sd!vars)
    PROVE  SdWidthInv' /\ SdCallerInv'
<1>1. ASSUME UNCHANGED Sd!vars PROVE SdWidthInv' /\ SdCallerInv'
  BY <1>1 DEF Sd!vars, Sd!driver, Sd!card, SdWidthInv, SdCallerInv, SdAt, SdNarrow, SdAgree
<1>2. ASSUME Sd!CardReady PROVE SdWidthInv' /\ SdCallerInv'
  <2>1. /\ sdPc' = sdPc /\ sdCaller' = sdCaller /\ sdCtrlWidth' = sdCtrlWidth /\ sdCardWidth' = sdCardWidth
        /\ sdUnsure' = sdUnsure /\ sdState' = "tran"
    BY <1>2 DEF Sd!CardReady, Sd!driver
  <2> QED BY <2>1 DEF SdWidthInv, SdCallerInv, SdAt, SdNarrow, SdAgree
<1>3. ASSUME Sd!Identify PROVE SdWidthInv' /\ SdCallerInv'
  BY <1>3, SdInitChipCtrlWidth, SdCmd0Width, SdCmd0FailsWidth, SdCmd1Width, SdCmd8Width,
     SdCmd55Width, SdAcmd41Width, SdMustsWidth, SdEarlyReads, SdScrWidth, SdWidthCmd55Width,
     SdAcmd6Width, SdLateSteps, SdDoMMCSwitchWidth, SdCheckCardStatusWidth DEF Sd!Identify
<1>4. ASSUME Sd!Read PROVE SdWidthInv' /\ SdCallerInv'
  BY <1>4, SdLateSteps DEF Sd!Read
<1> QED BY <1>1, <1>2, <1>3, <1>4 DEF Sd!Next, Sd!Finish

-----------------------------------------------------------------------------
(* The settings                                                             *)

LEMMA SdReadingKept ==
    ASSUME Sd!SdCardAssumption, SdSettingInv, sdGood' = sdGood, sdNoise' = sdNoise,
           Sd!setting' = Sd!setting \/ Sd!sdTryNextReadDelay \/ Sd!AnySetting \/ \E r : Sd!Sample(r)
    PROVE  SdSettingInv'
<1>1. CASE Sd!setting' = Sd!setting
  BY <1>1 DEF SdSettingInv
<1>2. CASE Sd!sdTryNextReadDelay
  BY <1>2, SdNextSetting DEF SdSettingInv
<1>3. CASE Sd!AnySetting
  BY <1>3 DEF SdSettingInv, Sd!AnySetting, Sd!setting, Sd!Settings
<1>4. CASE \E r : Sd!Sample(r)
  BY <1>4, SdSampleKeeps DEF SdSettingInv
<1> QED BY <1>1, <1>2, <1>3, <1>4

LEMMA SdInitChipCtrlSetting ==
    ASSUME Sd!SdCardAssumption, SdSettingInv, Sd!InitChipCtrl
    PROVE  SdSettingInv'
<1>1. sdGood' = sdGood /\ sdNoise' = sdNoise
  BY DEF Sd!InitChipCtrl, Sd!reading
<1>2. Sd!AnySetting
  <2>1. sdRd' = Begin /\ sdHs' = FALSE
    BY DEF Sd!InitChipCtrl
  <2>2. Begin \in 0 .. Delays - 1
    BY DEF Sd!SdCardAssumption
  <2> QED BY <2>1, <2>2 DEF Sd!AnySetting
<1> QED BY <1>1, <1>2, SdReadingKept

LEMMA SdMustSetting ==
    ASSUME Sd!SdCardAssumption, SdSettingInv, NEW step, NEW from, NEW to, NEW next, Sd!Must(step, from, to, next)
    PROVE  SdSettingInv'
<1>1. sdGood' = sdGood /\ sdNoise' = sdNoise
  BY DEF Sd!Must, Sd!reading
<1>2. \E r : Sd!Sample(r)
  BY DEF Sd!Must
<1> QED BY <1>1, <1>2, SdReadingKept

LEMMA SdIdentifySetting ==
    ASSUME Sd!SdCardAssumption, SdSettingInv, Sd!Identify, ~Sd!RaiseClock
    PROVE  SdSettingInv' /\ sdNoise' = sdNoise /\ sdGood' = sdGood
<1>1. CASE Sd!InitChipCtrl
  <2>1. sdGood' = sdGood /\ sdNoise' = sdNoise
    BY <1>1, SMT DEF Sd!InitChipCtrl, Sd!reading
  <2> QED BY <1>1, <2>1, SdInitChipCtrlSetting
<1>2. CASE Sd!Cmd0 \/ Sd!Cmd0Fails \/ Sd!ScrRead \/ Sd!GetMMCExtCSD
  <2>1. sdGood' = sdGood /\ sdNoise' = sdNoise
    BY <1>2 DEF Sd!Cmd0, Sd!Cmd0Fails, Sd!ScrRead, Sd!GetMMCExtCSD, Sd!reading
  <2>2. Sd!setting' = Sd!setting \/ Sd!sdTryNextReadDelay
    BY <1>2 DEF Sd!Cmd0, Sd!Cmd0Fails, Sd!ScrRead, Sd!GetMMCExtCSD
  <2> QED BY <2>1, <2>2, SdReadingKept
<1>7. CASE Sd!Cmd1
  <2>1. sdGood' = sdGood /\ sdNoise' = sdNoise
    BY <1>7 DEF Sd!Cmd1, Sd!reading
  <2>2. Sd!setting' = Sd!setting \/ Sd!sdTryNextReadDelay
    BY <1>7 DEF Sd!Cmd1
  <2> QED BY <2>1, <2>2, SdReadingKept
<1>3. CASE Sd!Cmd8 \/ Sd!Cmd55 \/ Sd!Acmd41 \/ Sd!ScrCmd55 \/ Sd!WidthCmd55 \/ Sd!Acmd6
  <2>1. CASE Sd!Cmd8
    <3>1. sdGood' = sdGood /\ sdNoise' = sdNoise /\ \E r : Sd!Sample(r)
      BY <2>1 DEF Sd!Cmd8, Sd!reading
    <3> QED BY <3>1, SdReadingKept
  <2>2. CASE Sd!Cmd55
    <3>1. sdGood' = sdGood /\ sdNoise' = sdNoise /\ \E r : Sd!Sample(r)
      BY <2>2 DEF Sd!Cmd55, Sd!reading
    <3> QED BY <3>1, SdReadingKept
  <2>3. CASE Sd!Acmd41
    <3>1. sdGood' = sdGood /\ sdNoise' = sdNoise /\ \E r : Sd!Sample(r)
      BY <2>3 DEF Sd!Acmd41, Sd!reading
    <3> QED BY <3>1, SdReadingKept
  <2>4. CASE Sd!ScrCmd55
    <3>1. sdGood' = sdGood /\ sdNoise' = sdNoise /\ \E r : Sd!Sample(r)
      BY <2>4 DEF Sd!ScrCmd55, Sd!reading
    <3> QED BY <3>1, SdReadingKept
  <2>5. CASE Sd!WidthCmd55
    <3>1. sdGood' = sdGood /\ sdNoise' = sdNoise /\ \E r : Sd!Sample(r)
      BY <2>5 DEF Sd!WidthCmd55, Sd!reading
    <3> QED BY <3>1, SdReadingKept
  <2>6. CASE Sd!Acmd6
    <3>1. sdGood' = sdGood /\ sdNoise' = sdNoise /\ \E r : Sd!Sample(r)
      BY <2>6 DEF Sd!Acmd6, Sd!reading
    <3> QED BY <3>1, SdReadingKept
  <2> QED BY <1>3, <2>1, <2>2, <2>3, <2>4, <2>5, <2>6
<1>4. CASE Sd!DoMMCSwitch \/ Sd!CheckCardStatus
  <2>1. CASE Sd!DoMMCSwitch
    <3>1. sdGood' = sdGood /\ sdNoise' = sdNoise /\ \E r : Sd!Sample(r)
      BY <2>1 DEF Sd!DoMMCSwitch, Sd!reading
    <3> QED BY <3>1, SdReadingKept
  <2>2. CASE Sd!CheckCardStatus
    <3>1. sdGood' = sdGood /\ sdNoise' = sdNoise /\ \E r : Sd!Sample(r)
      BY <2>2 DEF Sd!CheckCardStatus, Sd!reading
    <3> QED BY <3>1, SdReadingKept
  <2> QED BY <1>4, <2>1, <2>2
<1>5. CASE Sd!sdStateCheck \/ Sd!ChangeSDToHiSpeedMode
  <2>1. sdGood' = sdGood /\ sdNoise' = sdNoise
    BY <1>5 DEF Sd!sdStateCheck, Sd!ChangeSDToHiSpeedMode, Sd!reading
  <2>2. Sd!AnySetting
    BY <1>5 DEF Sd!sdStateCheck, Sd!ChangeSDToHiSpeedMode, Sd!sdStateGet
  <2> QED BY <2>1, <2>2, SdReadingKept
<1>6. CASE Sd!GetAllSendCIDNum \/ Sd!GetSetRelativeAddr \/ Sd!GetSendCSDNum \/ Sd!ChangeCardToTransferState \/ Sd!SetBlkLen512B
  <2>1. PICK step, from, to, next : Sd!Must(step, from, to, next)
    BY <1>6 DEF Sd!GetAllSendCIDNum, Sd!GetSetRelativeAddr, Sd!GetSendCSDNum,
       Sd!ChangeCardToTransferState, Sd!SetBlkLen512B
  <2>2. sdGood' = sdGood /\ sdNoise' = sdNoise
    BY <2>1 DEF Sd!Must, Sd!reading
  <2>3. SdSettingInv'
    BY <2>1, SdMustSetting
  <2> QED BY <2>2, <2>3
<1> QED BY <1>1, <1>2, <1>3, <1>4, <1>5, <1>6, <1>7 DEF Sd!Identify

(* Before the clock is raised nothing is read.                              *)
LEMMA SdSlowStep ==
    ASSUME ~sdFast', sdNoise' = 0, sdPc' \notin {"read", "stop", "done"},
           sdPc' \in {"switch", "cmd13"} => sdCaller' \notin {"erase", "config"}
    PROVE  SdClockInv' /\ SdTriesInv' /\ Sd!RetriesSuffice'
  BY DEF SdClockInv, SdTriesInv, Sd!RetriesSuffice, SdCalm

SdFirstSteps ==
    {"chip", "cmd0", "cmd1", "cmd8", "cmd55", "acmd41", "cmd2", "cmd3", "cmd9", "cmd7", "cmd16", "ext", "ext read",
     "scr55", "scr", "width55", "acmd6", "speed"}

LEMMA SdMustSlow ==
    ASSUME NEW step, NEW from, NEW to, NEW next, next \in SdFirstSteps \cup {"cmd13"}, Sd!Must(step, from, to, next)
    PROVE  /\ sdPc = step /\ sdFast' = sdFast
           /\ sdPc' \in SdFirstSteps \cup {"failed"} \/ (sdPc' = "cmd13" /\ sdCaller' = "cmd7")
<1>1. sdPc = step /\ sdFast' = sdFast
  BY DEF Sd!Must
<1>2. sdPc' \in {"cmd0", "failed", next}
  BY SdAgainSteps DEF Sd!Must, Sd!Go
<1>3. sdPc' = "cmd13" => sdCaller' = "cmd7"
  BY DEF Sd!Must
<1> QED BY <1>1, <1>2, <1>3 DEF SdFirstSteps

LEMMA SdFirstSlow ==
    ASSUME SdClockInv, Sd!Identify, ~Sd!RaiseClock, ~Sd!Cmd0Fails, ~Sd!CheckCardStatus, ~Sd!DoMMCSwitch
    PROVE  /\ ~sdFast' /\ sdNoise = 0
           /\ \/ sdPc' \in SdFirstSteps \cup {"failed", "clock"}
              \/ sdPc' = "cmd13" /\ sdCaller' = "cmd7"
              \/ sdPc' = "switch" /\ sdCaller' = "width"
<1>1. CASE Sd!InitChipCtrl
  <2>1. sdPc = "chip" /\ sdPc' = "cmd0"
    BY <1>1, SMT DEF Sd!InitChipCtrl, Sd!Go
  <2> DEFINE Fast == 200000 > 400000
  <2>2. sdFast' = Fast /\ ~Fast
    BY <1>1, SMT DEF Sd!InitChipCtrl, Sd!SetChipCtrlClk
  <2> HIDE DEF Fast
  <2>3. ~sdFast'
    BY <2>2, Zenon
  <2> QED BY <2>1, <2>3 DEF SdClockInv, SdReads3, SdFirstSteps
<1>2. CASE Sd!Cmd0 \/ Sd!Cmd1 \/ Sd!Cmd8 \/ Sd!Cmd55 \/ Sd!Acmd41
  <2> DEFINE To == sdPc' \in {"cmd0", "failed", "cmd1", "cmd8", "cmd55", "acmd41", "cmd2"}
  <2>1. CASE Sd!Cmd0
    <3>1. sdPc = "cmd0" /\ sdFast' = sdFast /\ To
      BY <2>1, SdAgainSteps DEF Sd!Cmd0, Sd!Go
    <3> QED BY <3>1 DEF SdClockInv, SdReads3, SdFirstSteps
  <2>2. CASE Sd!Cmd1
    <3>1. sdPc = "cmd1" /\ sdFast' = sdFast /\ To
      BY <2>2, SdAgainSteps DEF Sd!Cmd1, Sd!Go
    <3> QED BY <3>1 DEF SdClockInv, SdReads3, SdFirstSteps
  <2>3. CASE Sd!Cmd8
    <3>1. sdPc = "cmd8" /\ sdFast' = sdFast /\ To
      BY <2>3, SdAgainSteps DEF Sd!Cmd8, Sd!Go
    <3> QED BY <3>1 DEF SdClockInv, SdReads3, SdFirstSteps
  <2>4. CASE Sd!Cmd55
    <3>1. sdPc = "cmd55" /\ sdFast' = sdFast /\ To
      BY <2>4, SdAgainSteps DEF Sd!Cmd55, Sd!Go
    <3> QED BY <3>1 DEF SdClockInv, SdReads3, SdFirstSteps
  <2>5. CASE Sd!Acmd41
    <3>1. sdPc = "acmd41" /\ sdFast' = sdFast /\ To
      BY <2>5, SdAgainSteps DEF Sd!Acmd41, Sd!Go
    <3> QED BY <3>1 DEF SdClockInv, SdReads3, SdFirstSteps
  <2> QED BY <1>2, <2>1, <2>2, <2>3, <2>4, <2>5
<1>3. CASE Sd!GetAllSendCIDNum \/ Sd!GetSetRelativeAddr \/ Sd!GetSendCSDNum \/ Sd!ChangeCardToTransferState \/ Sd!SetBlkLen512B
  <2>1. PICK step, from, to, next :
          /\ Sd!Must(step, from, to, next)
          /\ step \in {"cmd2", "cmd3", "cmd9", "cmd7", "cmd16"}
          /\ next \in SdFirstSteps \cup {"cmd13"}
    <3>1. {"cmd3", "cmd9", "cmd7", IF sdEmmc THEN "ext" ELSE "scr55"} \subseteq SdFirstSteps
      BY DEF SdFirstSteps
    <3>2. CASE Sd!GetAllSendCIDNum
      BY <3>1, <3>2 DEF Sd!GetAllSendCIDNum
    <3>3. CASE Sd!GetSetRelativeAddr
      BY <3>1, <3>3 DEF Sd!GetSetRelativeAddr
    <3>4. CASE Sd!GetSendCSDNum
      BY <3>1, <3>4 DEF Sd!GetSendCSDNum
    <3>5. CASE Sd!ChangeCardToTransferState
      BY <3>5 DEF Sd!ChangeCardToTransferState
    <3>6. CASE Sd!SetBlkLen512B
      BY <3>1, <3>6 DEF Sd!SetBlkLen512B
    <3> QED BY <1>3, <3>2, <3>3, <3>4, <3>5, <3>6
  <2>2. /\ sdPc = step /\ sdFast' = sdFast
        /\ sdPc' \in SdFirstSteps \cup {"failed"} \/ (sdPc' = "cmd13" /\ sdCaller' = "cmd7")
    BY <2>1, SdMustSlow
  <2> QED BY <2>1, <2>2 DEF SdClockInv, SdReads3
<1>4. CASE Sd!sdStateCheck \/ Sd!GetMMCExtCSD
  <2>1. sdPc \in {"ext", "ext read"} /\ sdFast' = sdFast
    BY <1>4 DEF Sd!sdStateCheck, Sd!GetMMCExtCSD
  <2>2. sdPc' = "ext read" \/ (sdPc' = "switch" /\ sdCaller' = "width")
    BY <1>4 DEF Sd!sdStateCheck, Sd!GetMMCExtCSD, Sd!Go
  <2> QED BY <2>1, <2>2 DEF SdClockInv, SdReads3, SdFirstSteps
<1>5. CASE Sd!ScrCmd55 \/ Sd!ScrRead \/ Sd!WidthCmd55 \/ Sd!Acmd6
  <2> DEFINE To == sdPc' \in {"cmd0", "failed", "scr", "width55", "acmd6", "speed"}
  <2>1. CASE Sd!ScrCmd55
    <3>1. sdPc = "scr55" /\ sdFast' = sdFast /\ To
      BY <2>1, SdAgainSteps DEF Sd!ScrCmd55, Sd!Go
    <3> QED BY <3>1 DEF SdClockInv, SdReads3, SdFirstSteps
  <2>2. CASE Sd!ScrRead
    <3>1. sdPc = "scr" /\ sdFast' = sdFast /\ To
      BY <2>2, SdAgainSteps DEF Sd!ScrRead, Sd!Go
    <3> QED BY <3>1 DEF SdClockInv, SdReads3, SdFirstSteps
  <2>3. CASE Sd!WidthCmd55
    <3>1. sdPc = "width55" /\ sdFast' = sdFast /\ To
      BY <2>3, SdAgainSteps DEF Sd!WidthCmd55, Sd!WidthError, Sd!Go
    <3> QED BY <3>1 DEF SdClockInv, SdReads3, SdFirstSteps
  <2>4. CASE Sd!Acmd6
    <3>1. sdPc = "acmd6" /\ sdFast' = sdFast /\ To
      BY <2>4, SdAgainSteps DEF Sd!Acmd6, Sd!WidthError, Sd!Go
    <3> QED BY <3>1 DEF SdClockInv, SdReads3, SdFirstSteps
  <2> QED BY <1>5, <2>1, <2>2, <2>3, <2>4
<1>6. CASE Sd!ChangeSDToHiSpeedMode
  BY <1>6 DEF Sd!ChangeSDToHiSpeedMode, Sd!Go, SdClockInv, SdReads3
<1> QED BY <1>1, <1>2, <1>3, <1>4, <1>5, <1>6 DEF Sd!Identify

(* The tries of a read start anew.                                          *)
LEMMA SdStarts ==
    ASSUME Sd!SdCardAssumption, SdSettingInv', sdPc' = "read", sdRetry' = 0, sdNoise' = 0
    PROVE  SdClockInv' /\ SdTriesInv' /\ Sd!RetriesSuffice'
<1>1. SdRound \in Nat
  BY DEF SdRound, Sd!SdCardAssumption
<1>2. (0 + 1) * SdRound = SdRound
  BY <1>1
<1>3. ASSUME NEW g \in sdGood' PROVE 0 + SdGap(Sd!setting', g) < SdRound
  BY <1>1, <1>3, SdGapRange DEF SdSettingInv
<1>4. SdTriesInv'
  <2>1. SdSpent' = SdRound
    BY <1>2 DEF SdSpent
  <2>2. \A g \in sdGood' : sdRetry' + SdAway(g)' < SdSpent'
    BY <1>3, <2>1 DEF SdAway
  <2> QED BY <2>2 DEF SdTriesInv
<1> QED BY <1>4 DEF SdClockInv, Sd!RetriesSuffice, SdReads3

LEMMA SdRaiseClockKeeps ==
    ASSUME Sd!SdCardAssumption, SdSettingInv, SdClockInv, Sd!RaiseClock
    PROVE  SdSettingInv' /\ SdClockInv' /\ SdTriesInv' /\ Sd!RetriesSuffice'
<1>1. sdNoise = 0 /\ sdNoise' = 0 /\ Sd!setting' = Sd!setting /\ sdGood' \in GoodSets /\ sdRetry' = 0
  BY DEF Sd!RaiseClock, Sd!Initialised, Sd!reading, SdClockInv, SdReads3
<1>2. SdSettingInv'
  <2>1. sdGood' \subseteq Sd!Settings
    BY <1>1, Zenon DEF Sd!SdCardAssumption
  <2> QED BY <1>1, <2>1 DEF SdSettingInv
<1>3. CASE sdPc' = "read"
  BY <1>1, <1>2, <1>3, SdStarts
<1>4. CASE sdPc' = "switch" /\ sdCaller' = "erase"
  BY <1>1, <1>2, <1>4 DEF SdClockInv, SdTriesInv, Sd!RetriesSuffice, SdReads3
<1>5. sdPc' = "read" \/ (sdPc' = "switch" /\ sdCaller' = "erase")
  BY DEF Sd!RaiseClock, Sd!Initialised
<1> QED BY <1>2, <1>3, <1>4, <1>5

LEMMA SdCmd0FailsKeeps ==
    ASSUME Sd!SdCardAssumption, SdSettingInv', SdClockInv, Sd!Cmd0Fails, sdNoise' = sdNoise
    PROVE  SdClockInv' /\ SdTriesInv' /\ Sd!RetriesSuffice'
<1>1. ~sdFast' /\ sdNoise' = 0 /\ sdRetry' = 0
  BY DEF Sd!Cmd0Fails, Sd!Initialised, SdClockInv, SdReads3
<1>2. CASE sdPc' = "read"
  BY <1>1, <1>2, SdStarts
<1>3. CASE sdPc' = "switch" /\ sdCaller' = "erase"
  BY <1>1, <1>3 DEF SdClockInv, SdTriesInv, Sd!RetriesSuffice, SdReads3
<1>4. sdPc' = "read" \/ (sdPc' = "switch" /\ sdCaller' = "erase")
  BY DEF Sd!Cmd0Fails, Sd!Initialised
<1> QED BY <1>2, <1>3, <1>4

LEMMA SdDoMMCSwitchTries ==
    ASSUME SdCallerInv, SdClockInv, Sd!DoMMCSwitch, sdNoise' = sdNoise
    PROVE  SdClockInv' /\ SdTriesInv' /\ Sd!RetriesSuffice'
<1>1. PICK r \in Sd!Replies(sdState = "tran") :
        IF r.ret = "ok" THEN Sd!Go("cmd13") /\ sdLoop' = StatusTries /\ UNCHANGED <<sdCaller, sdCtrlWidth>> ELSE Sd!Switched(FALSE)
  BY DEF Sd!DoMMCSwitch
<1>2. sdPc = "switch" /\ sdFast' = sdFast /\ sdNoise' = 0
  BY DEF Sd!DoMMCSwitch, SdClockInv, SdReads3
<1>3. sdCaller \in {"width", "speed", "erase", "config"}
  BY <1>2 DEF SdCallerInv
<1>4. CASE sdCaller \in {"width", "speed"}
  <2>1. ~sdFast'
    BY <1>2, <1>4 DEF SdClockInv, SdReads3
  <2>2. \/ sdPc' = "cmd13" /\ sdCaller' = sdCaller
        \/ sdPc' = "switch" /\ sdCaller' = "speed"
        \/ sdPc' = "clock"
    BY <1>1, <1>4, SdSwitchedFacts DEF Sd!Go
  <2> QED BY <1>2, <1>4, <2>1, <2>2, SdSlowStep
<1>5. CASE sdCaller \in {"erase", "config"}
  <2>1. sdRetry = 0
    BY <1>2, <1>5 DEF SdClockInv
  <2>2. sdRetry' = 0 /\ ((sdPc' = "cmd13" /\ sdCaller' = sdCaller) \/ sdPc' = "no switch")
    BY <1>1, <1>5, <2>1, SdSwitchedFacts DEF Sd!Go
  <2> QED BY <1>2, <1>5, <2>2 DEF SdClockInv, SdTriesInv, Sd!RetriesSuffice, SdReads3
<1> QED BY <1>3, <1>4, <1>5

LEMMA SdCheckCardStatusTries ==
    ASSUME Sd!SdCardAssumption, SdSettingInv', SdCallerInv, SdClockInv, Sd!CheckCardStatus, sdNoise' = sdNoise
    PROVE  SdClockInv' /\ SdTriesInv' /\ Sd!RetriesSuffice'
<1>1. PICK r \in Sd!Replies(sdAddressed /\ sdState \in {"stby", "tran", "prg"}) : SdStatusStep(r)
  BY DEF Sd!CheckCardStatus, SdStatusStep
<1>2. sdPc = "cmd13" /\ sdFast' = sdFast /\ sdNoise' = 0
  BY DEF Sd!CheckCardStatus, SdClockInv, SdReads3
<1>3. sdCaller \in {"cmd7", "width", "speed", "erase", "config"}
  BY <1>2 DEF SdCallerInv
<1>4. CASE sdCaller \in {"cmd7", "width", "speed"}
  <2>1. ~sdFast'
    BY <1>2, <1>4 DEF SdClockInv, SdReads3
  <2>2. \/ sdPc' = "cmd13" /\ sdCaller' = sdCaller
        \/ sdPc' = "switch" /\ sdCaller' = "speed"
        \/ sdPc' \in {"clock", "cmd16", "cmd0", "failed"}
    BY <1>1, <1>2, <1>4, SdStatusFacts, SdSwitchedFacts
  <2> QED BY <1>2, <1>4, <2>1, <2>2, SdSlowStep
<1>5. CASE sdCaller \in {"erase", "config"}
  <2>1. sdRetry = 0
    BY <1>2, <1>5 DEF SdClockInv
  <2>2. /\ sdRetry' = 0
        /\ \/ sdPc' = "cmd13" /\ sdCaller' = sdCaller
           \/ sdPc' = "switch" /\ sdCaller' = "config"
           \/ sdPc' \in {"no switch", "read"}
    BY <1>1, <1>2, <1>5, <2>1, SdStatusFacts, SdSwitchedFacts
  <2>3. CASE sdPc' = "read"
    BY <1>2, <2>2, <2>3, SdStarts
  <2>4. CASE sdPc' # "read"
    BY <1>2, <1>5, <2>2, <2>4 DEF SdClockInv, SdTriesInv, Sd!RetriesSuffice, SdReads3
  <2> QED BY <2>3, <2>4
<1> QED BY <1>3, <1>4, <1>5

-----------------------------------------------------------------------------
(* The tries                                                                *)

(* Another disturbed transfer is worth a round of settings.                 *)
LEMMA SdCounted ==
    ASSUME Sd!SdCardAssumption, sdNoise \in Nat, NEW k \in {0, 1}, Sd!Count(k), sdNoise' < Noise
    PROVE  /\ sdNoise < Noise /\ sdNoise' = sdNoise + k /\ SdSpent \in Nat /\ SdRound \in Nat
           /\ SdSpent' = SdSpent + (IF k = 1 THEN SdRound ELSE 0)
           /\ SdSpent' <= Noise * SdRound
<1>1. SdRound \in Nat /\ Noise \in Nat
  BY DEF SdRound, Sd!SdCardAssumption
<1>2. sdNoise' = sdNoise + k /\ sdNoise < Noise
  BY <1>1 DEF Sd!Count
<1>3. /\ (sdNoise + 1) * SdRound \in Nat /\ (sdNoise + 2) * SdRound = (sdNoise + 1) * SdRound + SdRound
      /\ sdNoise < Noise => (sdNoise + 1) * SdRound <= Noise * SdRound
  BY <1>1, SdRounds
<1>4. sdNoise + 1 \in Nat
  OBVIOUS
<1>5. sdNoise + 1 < Noise => ((sdNoise + 1) + 1) * SdRound <= Noise * SdRound
  BY <1>1, <1>4, SdRounds
<1>6. (sdNoise + 1) + 1 = sdNoise + 2
  OBVIOUS
<1>7. CASE k = 0
  <2>1. sdNoise' = sdNoise
    BY <1>2, <1>7
  <2>2. SdSpent' = SdSpent
    BY <2>1 DEF SdSpent
  <2> QED BY <1>1, <1>2, <1>3, <1>7, <2>2 DEF SdSpent
<1>8. CASE k = 1
  <2>1. sdNoise' = sdNoise + 1 /\ sdNoise + 1 < Noise
    BY <1>2, <1>8
  <2>2. SdSpent' = (sdNoise + 2) * SdRound
    BY <1>6, <2>1 DEF SdSpent
  <2>3. (sdNoise + 2) * SdRound <= Noise * SdRound
    BY <1>5, <1>6, <2>1
  <2> DEFINE a == (sdNoise + 1) * SdRound  b == (sdNoise + 2) * SdRound  c == Noise * SdRound
  <2>4. a \in Nat /\ b = a + SdRound /\ b <= c /\ SdSpent = a /\ SdSpent' = b
    BY <1>3, <2>2, <2>3 DEF SdSpent
  <2> HIDE DEF a, b
  <2> QED BY <1>1, <1>2, <1>8, <2>4
<1> QED BY <1>7, <1>8

(* Of the tries a read needs at most the settings, and a round for each     *)
(* disturbed transfer beside.                                               *)
LEMMA SdReadTries ==
    ASSUME Sd!SdCardAssumption, SdSettingInv, SdClockInv, SdTriesInv, Sd!ReadSDMultipleSector
    PROVE  SdSettingInv' /\ SdClockInv' /\ SdTriesInv' /\ Sd!RetriesSuffice'
<1>1. sdPc = "read" /\ sdPc' = "stop" /\ sdGood' = sdGood /\ sdCardWidth' = sdCardWidth /\ sdCtrlWidth' = sdCtrlWidth
  BY Zenon DEF Sd!ReadSDMultipleSector
<1>2. sdRetry \in Nat /\ sdNoise \in Nat
  BY <1>1 DEF SdTriesInv, SdSettingInv
<1>3. \/ sdRetry' = -1 /\ UNCHANGED <<Sd!setting, sdFast, sdNoise>>
      \/ \E seen \in {sdState = "tran", FALSE} :
           /\ sdState' = IF seen THEN "data" ELSE sdState
           /\ sdRetry' = sdRetry /\ Sd!Count(IF seen /\ ~Sd!Sampled THEN 0 ELSE 1)
           /\ \/ seen /\ Sd!sdTryNextReadDelay /\ UNCHANGED sdFast
              \/ UNCHANGED <<Sd!setting, sdFast>>
              \/ sdFast' \in {sdFast, FALSE} /\ UNCHANGED Sd!setting
  BY Zenon DEF Sd!ReadSDMultipleSector
<1>4. CASE sdRetry' = -1 /\ UNCHANGED <<Sd!setting, sdFast, sdNoise>>
  <2>1. SdSettingInv'
    BY <1>1, <1>4 DEF SdSettingInv
  <2>2. SdClockInv' /\ Sd!RetriesSuffice'
    BY <1>1, <1>4 DEF SdClockInv, Sd!RetriesSuffice, SdReads3
  <2>3. SdTriesInv'
    BY <1>1, <1>4 DEF SdTriesInv
  <2> QED BY <2>1, <2>2, <2>3
<1>5. ASSUME NEW seen,
             sdState' = IF seen THEN "data" ELSE sdState,
             sdRetry' = sdRetry, Sd!Count(IF seen /\ ~Sd!Sampled THEN 0 ELSE 1),
             \/ seen /\ Sd!sdTryNextReadDelay /\ UNCHANGED sdFast
             \/ UNCHANGED <<Sd!setting, sdFast>>
             \/ sdFast' \in {sdFast, FALSE} /\ UNCHANGED Sd!setting
      PROVE  SdSettingInv' /\ SdClockInv' /\ SdTriesInv' /\ Sd!RetriesSuffice'
  <2> DEFINE k == IF seen /\ ~Sd!Sampled THEN 0 ELSE 1
  <2>1. Sd!Count(k) /\ k \in {0, 1} /\ (k = 0 => seen /\ ~Sd!Sampled)
    BY <1>5
  <2> HIDE DEF k
  <2>2. Sd!setting \in Sd!Settings /\ sdGood \subseteq Sd!Settings
    BY DEF SdSettingInv
  <2>3. sdNoise' \in Nat
    <3>1. Noise \in Nat
      BY DEF Sd!SdCardAssumption
    <3> QED BY <1>2, <2>1, <3>1 DEF Sd!Count
  <2>4. Sd!setting' \in Sd!Settings
    BY <1>5, <2>2, SdNextSetting DEF Sd!setting
  <2>5. SdSettingInv'
    BY <1>1, <2>2, <2>3, <2>4 DEF SdSettingInv
  <2>6. SdClockInv' /\ Sd!RetriesSuffice'
    BY <1>1 DEF SdClockInv, Sd!RetriesSuffice, SdReads3
  <2>7. SdTriesInv'
    <3> SUFFICES ASSUME SdCalm', NEW g \in sdGood
                 PROVE  \/ sdRetry' + SdRound < SdSpent'
                        \/ sdState' = "data" /\ sdRetry' + SdGap(Sd!setting', g) + 1 < SdSpent'
                        \/ sdState' = "data" /\ Sd!setting' \notin sdGood /\ sdRetry' + SdGap(Sd!setting', g) < SdSpent'
      BY <1>1, <1>2, <1>5 DEF SdTriesInv, SdAway
    <3>1. /\ sdNoise < Noise /\ SdSpent \in Nat /\ SdRound \in Nat
          /\ SdSpent' = SdSpent + (IF k = 1 THEN SdRound ELSE 0)
      BY <1>2, <2>1, SdCounted DEF SdCalm
    <3>2. sdFast /\ SdCalm
      BY <1>1, <1>5, <3>1 DEF SdCalm, SdEqual
    <3>3. sdRetry + SdGap(Sd!setting, g) < SdSpent
      BY <1>1, <3>2 DEF SdTriesInv, SdAway
    <3>4. SdGap(Sd!setting, g) \in 0 .. SdRound - 1
      BY <2>2, SdGapRange
    <3>5. CASE k = 1
      <4>1. sdRetry' + SdRound < SdSpent'
        BY <1>2, <1>5, <3>1, <3>3, <3>4, <3>5
      <4> QED BY <4>1
    <3>6. CASE k = 0
      <4>1. sdState' = "data" /\ Sd!setting \notin sdGood /\ g # Sd!setting
        BY <1>5, <2>1, <3>6 DEF Sd!Sampled
      <4>2. CASE Sd!sdTryNextReadDelay
        <5>1. SdGap(Sd!setting', g) = SdGap(Sd!setting, g) - 1
          BY <2>2, <4>1, <4>2, SdNextSetting
        <5>2. sdRetry' + SdGap(Sd!setting', g) + 1 < SdSpent'
          BY <1>2, <1>5, <3>1, <3>3, <3>4, <3>6, <5>1
        <5> QED BY <4>1, <5>2
      <4>3. CASE Sd!setting' = Sd!setting
        <5>1. sdRetry' + SdGap(Sd!setting', g) < SdSpent'
          BY <1>2, <1>5, <3>1, <3>3, <3>4, <3>6, <4>3
        <5> QED BY <4>1, <4>3, <5>1
      <4> QED BY <1>5, <4>2, <4>3
    <3> QED BY <2>1, <3>5, <3>6
  <2> QED BY <2>5, <2>6, <2>7
<1> QED BY <1>3, <1>4, <1>5

LEMMA SdStopTries ==
    ASSUME Sd!SdCardAssumption, SdSettingInv, SdClockInv, SdTriesInv, Sd!StopCardTransmission
    PROVE  SdSettingInv' /\ SdClockInv' /\ SdTriesInv' /\ SdSufficient'
<1>1. sdPc = "stop" /\ sdGood' = sdGood /\ sdCardWidth' = sdCardWidth /\ sdCtrlWidth' = sdCtrlWidth /\ sdFast' = sdFast
  BY DEF Sd!StopCardTransmission
<1>2. sdRetry \in Nat \cup {-1} /\ sdNoise \in Nat /\ Sd!setting \in Sd!Settings /\ sdGood \subseteq Sd!Settings
  BY <1>1 DEF SdTriesInv, SdSettingInv
<1>3. PICK r \in Sd!Replies(sdState = "data") :
        /\ Sd!Sample(r)
        /\ IF sdRetry = -1
           THEN /\ sdPc' = "done" /\ sdRetry' = 0 /\ sdNoise' = 0
           ELSE /\ IF Sd!MoreTries THEN sdRetry' = sdRetry + 1 /\ sdPc' = "read"
                   ELSE sdPc' = "failed" /\ UNCHANGED sdRetry
                /\ Sd!Count(IF r.ret = (IF Sd!Sampled THEN "ok" ELSE "crc") \/ ~(sdState = "data") THEN 0 ELSE 1)
  BY DEF Sd!StopCardTransmission
<1>4. Sd!setting' \in Sd!Settings
  BY <1>2, <1>3, SdSampleKeeps
<1>5. CASE sdRetry = -1
  <2>1. sdPc' = "done" /\ sdRetry' = 0 /\ sdNoise' = 0
    BY <1>3, <1>5
  <2> QED BY <1>1, <1>2, <1>4, <2>1 DEF SdSettingInv, SdClockInv, SdTriesInv, SdSufficient,
     Sd!RetriesSuffice, SdReads3
<1>6. CASE sdRetry # -1
  <2> DEFINE k == IF r.ret = (IF Sd!Sampled THEN "ok" ELSE "crc") \/ ~(sdState = "data") THEN 0 ELSE 1
  <2>1. /\ Sd!Count(k) /\ k \in {0, 1}
        /\ k = 0 /\ sdState = "data" => r.ret = (IF Sd!Sampled THEN "ok" ELSE "crc")
    BY <1>3, <1>6
  <2> HIDE DEF k
  <2>2. IF Sd!MoreTries THEN sdRetry' = sdRetry + 1 /\ sdPc' = "read" ELSE sdPc' = "failed" /\ sdRetry' = sdRetry
    BY <1>3, <1>6
  <2>3. sdNoise' \in Nat
    <3>1. Noise \in Nat
      BY DEF Sd!SdCardAssumption
    <3> QED BY <1>2, <2>1, <3>1 DEF Sd!Count
  <2>4. SdSettingInv'
    BY <1>1, <1>2, <1>4, <2>3 DEF SdSettingInv
  <2>5. SdClockInv'
    BY <2>2 DEF SdClockInv, SdReads3
  <2>6. ASSUME SdCalm', NEW g \in sdGood
        PROVE  /\ sdRetry < SdSpent' /\ SdSpent' <= Noise * SdRound /\ SdSpent' \in Nat
               /\ sdRetry + 1 + SdGap(Sd!setting', g) < SdSpent'
    <3>1. /\ sdNoise < Noise /\ SdSpent \in Nat /\ SdRound \in Nat
          /\ SdSpent' = SdSpent + (IF k = 1 THEN SdRound ELSE 0)
          /\ SdSpent' <= Noise * SdRound
      BY <1>2, <2>1, <2>6, SdCounted DEF SdCalm
    <3>2. SdCalm
      BY <1>1, <2>6, <3>1 DEF SdCalm, SdEqual
    <3>3. \/ sdRetry + SdRound < SdSpent
          \/ sdState = "data" /\ sdRetry + SdGap(Sd!setting, g) + 1 < SdSpent
          \/ sdState = "data" /\ Sd!setting \notin sdGood /\ sdRetry + SdGap(Sd!setting, g) < SdSpent
      BY <1>1, <1>2, <1>6, <2>6, <3>2 DEF SdTriesInv, SdAway
    <3>4. /\ SdGap(Sd!setting, g) \in 0 .. SdRound - 1 /\ SdGap(Sd!setting', g) \in 0 .. SdRound - 1
          /\ SdSpent' \in Nat /\ sdRetry \in Nat
      BY <1>2, <1>4, <1>6, <3>1, SdGapRange
    <3>5. sdRetry < SdSpent'
      BY <3>1, <3>3, <3>4
    <3>6. CASE k = 1
      BY <3>1, <3>3, <3>4, <3>5, <3>6
    <3>7. CASE k = 0
      <4>1. CASE sdRetry + SdRound < SdSpent
        BY <3>1, <3>4, <3>5, <3>7, <4>1
      <4>2. CASE sdState = "data" /\ Sd!setting \in sdGood /\ sdRetry + SdGap(Sd!setting, g) + 1 < SdSpent
        <5>1. r.ret = "ok"
          BY <2>1, <3>7, <4>2 DEF Sd!Sampled
        <5>2. Sd!setting' = Sd!setting
          BY <1>3, <5>1 DEF Sd!Sample
        <5> QED BY <3>1, <3>4, <3>5, <3>7, <4>2, <5>2
      <4>3. CASE sdState = "data" /\ Sd!setting \notin sdGood /\ sdRetry + SdGap(Sd!setting, g) < SdSpent
        <5>1. r.ret = "crc"
          BY <2>1, <3>2, <3>7, <4>3 DEF Sd!Sampled, SdCalm
        <5>2. g # Sd!setting
          BY <2>6, <4>3
        <5>3. SdGap(Sd!setting', g) = SdGap(Sd!setting, g) - 1
          BY <1>2, <1>3, <5>1, <5>2, SdNextSetting DEF Sd!Sample
        <5> QED BY <3>1, <3>4, <3>5, <3>7, <4>3, <5>3
      <4> QED BY <3>1, <3>3, <3>4, <4>1, <4>2, <4>3
    <3> QED BY <2>1, <3>6, <3>7
  <2>7. SdTriesInv'
    <3>1. CASE Sd!MoreTries
      <4>1. sdPc' = "read" /\ sdRetry' = sdRetry + 1 /\ sdRetry' \in Nat
        BY <1>2, <1>6, <2>2, <3>1
      <4>2. ASSUME SdCalm', NEW g \in sdGood PROVE sdRetry' + SdGap(Sd!setting', g) < SdSpent'
        BY <2>6, <4>1, <4>2
      <4> QED BY <1>1, <4>1, <4>2 DEF SdTriesInv, SdAway
    <3>2. CASE ~Sd!MoreTries
      BY <2>2, <3>2 DEF SdTriesInv
    <3> QED BY <3>1, <3>2
  <2>8. SdSufficient'
    <3> SUFFICES ASSUME SdEnoughRetries, sdPc' = "failed", sdFast', sdGood' # {}, sdNoise' < Noise,
                        sdCardWidth' = sdCtrlWidth'
                 PROVE  FALSE
      BY DEF SdSufficient, Sd!RetriesSuffice
    <3>1. SdCalm'
      BY DEF SdCalm, SdEqual
    <3>2. PICK g \in sdGood : TRUE
      BY <1>1
    <3> DEFINE All == Noise * SdRound
    <3>3. sdRetry < SdSpent' /\ SdSpent' <= All /\ SdSpent' \in Nat
      BY <2>6, <3>1, <3>2
    <3>4. All <= ReadRetries
      BY DEF SdEnoughRetries
    <3>5. All \in Nat /\ ReadRetries \in Nat
      BY DEF Sd!SdCardAssumption, SdRound
    <3> HIDE DEF All
    <3>6. ~(sdRetry < ReadRetries)
      BY <2>2 DEF Sd!MoreTries
    <3> QED BY <1>2, <1>6, <3>3, <3>4, <3>5, <3>6
  <2> QED BY <2>4, <2>5, <2>7, <2>8
<1> QED BY <1>5, <1>6

LEMMA SdNextSectorTries ==
    ASSUME Sd!SdCardAssumption, SdSettingInv, SdClockInv, Sd!NextSector
    PROVE  SdSettingInv' /\ SdClockInv' /\ SdTriesInv' /\ Sd!RetriesSuffice'
<1>1. sdPc = "done" /\ sdPc' = "read" /\ sdRetry' = sdRetry /\ sdNoise' = sdNoise /\ Sd!setting' = Sd!setting /\ sdGood' = sdGood
  BY DEF Sd!NextSector, Sd!driver
<1>2. sdRetry' = 0 /\ sdNoise' = 0
  BY <1>1 DEF SdClockInv
<1>3. SdSettingInv'
  BY <1>1 DEF SdSettingInv
<1> QED BY <1>1, <1>2, <1>3, SdStarts

LEMMA SdCardReadyTries ==
    ASSUME SdSettingInv, SdClockInv, SdTriesInv, SdSufficient, Sd!CardReady
    PROVE  SdSettingInv' /\ SdClockInv' /\ SdTriesInv' /\ SdSufficient'
<1>1. /\ sdPc' = sdPc /\ sdRetry' = sdRetry /\ sdCaller' = sdCaller /\ sdCtrlWidth' = sdCtrlWidth /\ sdFast' = sdFast
      /\ Sd!setting' = Sd!setting /\ sdCardWidth' = sdCardWidth /\ sdGood' = sdGood /\ sdNoise' = sdNoise
      /\ sdState = "prg"
  BY DEF Sd!CardReady, Sd!driver, Sd!reading
<1>2. SdSettingInv' /\ SdClockInv' /\ SdSufficient'
  BY <1>1 DEF SdSettingInv, SdClockInv, SdSufficient, Sd!RetriesSuffice, SdReads3
<1>3. (SdCalm' <=> SdCalm) /\ SdSpent' = SdSpent
  BY <1>1 DEF SdCalm, SdEqual, SdSpent
<1>4. \A g : SdAway(g)' = SdAway(g)
  BY <1>1 DEF SdAway
<1>5. SdTriesInv'
  BY <1>1, <1>3, <1>4 DEF SdTriesInv
<1> QED BY <1>2, <1>5

LEMMA SdTriesStep ==
    ASSUME Sd!SdCardAssumption, SdCallerInv, SdSettingInv, SdClockInv, SdTriesInv, SdSufficient, [Sd!Next]_(Sd!vars)
    PROVE  SdSettingInv' /\ SdClockInv' /\ SdTriesInv' /\ SdSufficient'
<1>1. CASE UNCHANGED Sd!vars
  <2>1. /\ sdPc' = sdPc /\ sdRetry' = sdRetry /\ sdCaller' = sdCaller /\ sdCtrlWidth' = sdCtrlWidth /\ sdFast' = sdFast
        /\ Sd!setting' = Sd!setting /\ sdCardWidth' = sdCardWidth /\ sdGood' = sdGood /\ sdNoise' = sdNoise /\ sdState' = sdState
    BY <1>1 DEF Sd!vars, Sd!driver, Sd!card, Sd!reading
  <2>2. SdSettingInv' /\ SdClockInv' /\ SdSufficient'
    BY <2>1 DEF SdSettingInv, SdClockInv, SdSufficient, Sd!RetriesSuffice, SdReads3
  <2>3. (SdCalm' <=> SdCalm) /\ SdSpent' = SdSpent
    BY <2>1 DEF SdCalm, SdEqual, SdSpent
  <2>4. \A g : SdAway(g)' = SdAway(g)
    BY <2>1 DEF SdAway
  <2>5. SdTriesInv'
    BY <2>1, <2>3, <2>4 DEF SdTriesInv
  <2> QED BY <2>2, <2>5
<1>2. CASE Sd!Identify
  <2>1. CASE Sd!RaiseClock
    BY <2>1, SdRaiseClockKeeps DEF SdSufficient
  <2>2. CASE ~Sd!RaiseClock
    <3>1. SdSettingInv' /\ sdNoise' = sdNoise
      BY <1>2, <2>2, SdIdentifySetting
    <3>2. CASE Sd!DoMMCSwitch
      BY <3>1, <3>2, SdDoMMCSwitchTries DEF SdSufficient
    <3>3. CASE Sd!CheckCardStatus
      BY <3>1, <3>3, SdCheckCardStatusTries DEF SdSufficient
    <3>4. CASE Sd!Cmd0Fails
      BY <3>1, <3>4, SdCmd0FailsKeeps DEF SdSufficient
    <3>5. CASE ~Sd!DoMMCSwitch /\ ~Sd!CheckCardStatus /\ ~Sd!Cmd0Fails
      <4>1. /\ ~sdFast' /\ sdNoise = 0
            /\ \/ sdPc' \in SdFirstSteps \cup {"failed", "clock"}
               \/ sdPc' = "cmd13" /\ sdCaller' = "cmd7"
               \/ sdPc' = "switch" /\ sdCaller' = "width"
        BY <1>2, <2>2, <3>5, SdFirstSlow
      <4>2. /\ sdPc' \notin {"read", "stop", "done"}
            /\ sdPc' \in {"switch", "cmd13"} => sdCaller' \notin {"erase", "config"}
        BY <4>1 DEF SdFirstSteps
      <4> QED BY <3>1, <4>1, <4>2, SdSlowStep DEF SdSufficient
    <3> QED BY <3>2, <3>3, <3>4, <3>5
  <2> QED BY <2>1, <2>2
<1>3. CASE Sd!Read
  BY <1>3, SdReadTries, SdStopTries, SdNextSectorTries DEF Sd!Read, SdSufficient
<1>4. CASE Sd!CardReady
  BY <1>4, SdCardReadyTries
<1> QED BY <1>1, <1>2, <1>3, <1>4 DEF Sd!Next, Sd!Finish

LEMMA SdCoreInit ==
    ASSUME Sd!SdCardAssumption, Sd!Init
    PROVE  SdCore
<1>1. sdPc = "chip" /\ sdCaller = "none" /\ (sdState = "idle" => sdCardWidth = 1) /\ sdCardWidth \in {1, 4} /\ ~sdFast /\ sdNoise = 0 /\ sdGood = {}
  BY DEF Sd!Init
<1>2. Sd!setting \in Sd!Settings
  <2>1. sdRd \in {0, Begin} /\ sdHs \in BOOLEAN
    BY DEF Sd!Init
  <2>2. {0, Begin} \subseteq 0 .. Delays - 1
    BY DEF Sd!SdCardAssumption
  <2> QED BY <2>1, <2>2 DEF Sd!setting, Sd!Settings
<1>3. SdCallerInv /\ SdWidthInv
  BY <1>1 DEF SdCallerInv, SdWidthInv, SdAt, SdEarly, SdSelected
<1>4. SdSettingInv /\ SdClockInv /\ SdTriesInv /\ Sd!RetriesSuffice
  BY <1>1, <1>2 DEF SdSettingInv, SdClockInv, SdTriesInv, Sd!RetriesSuffice, SdReads3
<1> QED BY <1>3, <1>4 DEF SdCore, SdSufficient

LEMMA SdCoreNext ==
    ASSUME Sd!SdCardAssumption, SdCore, [Sd!Next]_(Sd!vars)
    PROVE  SdCore'
  BY SdWidthStep, SdTriesStep DEF SdCore

(* Before the first read.                                                   *)
SdRead5 == {"read", "stop", "done", "failed", "no switch"}
SdStarting == sdPc \notin SdRead5 /\ sdPc' \notin {"stop", "done"} /\ sdSector' = sdSector /\ sdData' = sdData

(* What the driver may not know is not forgotten.                           *)
LEMMA SdRemembered ==
    ASSUME Sd!Identify
    PROVE  sdUnsure \subseteq sdUnsure'
<1>1. CASE Sd!Cmd0Fails
  BY <1>1 DEF Sd!Cmd0Fails
<1>2. CASE Sd!InitChipCtrl \/ Sd!Cmd0 \/ Sd!Cmd1 \/ Sd!Cmd8 \/ Sd!Cmd55 \/ Sd!Acmd41
  <2>1. sdUnsure' = sdUnsure
    <3>1. CASE Sd!InitChipCtrl
      BY <3>1 DEF Sd!InitChipCtrl
    <3>2. CASE Sd!Cmd0
      BY <3>2 DEF Sd!Cmd0
    <3>3. CASE Sd!Cmd1
      BY <3>3 DEF Sd!Cmd1
    <3>4. CASE Sd!Cmd8
      BY <3>4 DEF Sd!Cmd8
    <3>5. CASE Sd!Cmd55
      BY <3>5 DEF Sd!Cmd55
    <3>6. CASE Sd!Acmd41
      BY <3>6 DEF Sd!Acmd41
    <3> QED BY <1>2, <3>1, <3>2, <3>3, <3>4, <3>5, <3>6
  <2> QED BY <2>1
<1>3. CASE Sd!GetAllSendCIDNum \/ Sd!GetSetRelativeAddr \/ Sd!GetSendCSDNum \/ Sd!ChangeCardToTransferState \/ Sd!SetBlkLen512B
  <2>1. sdUnsure' = sdUnsure
    <3>1. CASE Sd!GetAllSendCIDNum
      BY <3>1 DEF Sd!GetAllSendCIDNum, Sd!Must
    <3>2. CASE Sd!GetSetRelativeAddr
      BY <3>2 DEF Sd!GetSetRelativeAddr, Sd!Must
    <3>3. CASE Sd!GetSendCSDNum
      BY <3>3 DEF Sd!GetSendCSDNum, Sd!Must
    <3>4. CASE Sd!ChangeCardToTransferState
      BY <3>4 DEF Sd!ChangeCardToTransferState, Sd!Must
    <3>5. CASE Sd!SetBlkLen512B
      BY <3>5 DEF Sd!SetBlkLen512B, Sd!Must
    <3> QED BY <1>3, <3>1, <3>2, <3>3, <3>4, <3>5
  <2> QED BY <2>1
<1>4. CASE Sd!sdStateCheck \/ Sd!GetMMCExtCSD \/ Sd!ScrCmd55 \/ Sd!ScrRead \/ Sd!WidthCmd55 \/ Sd!ChangeSDToHiSpeedMode \/ Sd!RaiseClock
  <2>1. sdUnsure' = sdUnsure
    <3>1. CASE Sd!sdStateCheck
      BY <3>1 DEF Sd!sdStateCheck
    <3>2. CASE Sd!GetMMCExtCSD
      BY <3>2 DEF Sd!GetMMCExtCSD
    <3>3. CASE Sd!ScrCmd55
      BY <3>3 DEF Sd!ScrCmd55
    <3>4. CASE Sd!ScrRead
      BY <3>4 DEF Sd!ScrRead
    <3>5. CASE Sd!WidthCmd55
      BY <3>5 DEF Sd!WidthCmd55
    <3>6. CASE Sd!ChangeSDToHiSpeedMode
      BY <3>6 DEF Sd!ChangeSDToHiSpeedMode
    <3>7. CASE Sd!RaiseClock
      BY <3>7 DEF Sd!RaiseClock
    <3> QED BY <1>4, <3>1, <3>2, <3>3, <3>4, <3>5, <3>6, <3>7
  <2> QED BY <2>1
<1>5. CASE Sd!Acmd6
  BY <1>5 DEF Sd!Acmd6
<1>6. \A when \in BOOLEAN, why \in Sd!Doubts : Sd!Doubt(when, why) => sdUnsure \subseteq sdUnsure'
  BY DEF Sd!Doubt
<1>7. CASE Sd!DoMMCSwitch
  <2>1. PICK refuse \in BOOLEAN : sdUnsure' = sdUnsure \/ Sd!Doubt(refuse, "refused") \/ Sd!Doubt(TRUE, "lost")
    BY <1>7 DEF Sd!DoMMCSwitch
  <2> QED BY <1>6, <2>1 DEF Sd!Doubts
<1>8. CASE Sd!CheckCardStatus
  <2>1. PICK r \in Sd!Replies(sdAddressed /\ sdState \in {"stby", "tran", "prg"}) : SdStatusStep(r)
    BY <1>8 DEF Sd!CheckCardStatus, SdStatusStep
  <2>2. CASE Sd!StatusFor
    <3>1. sdUnsure' = sdUnsure \/ \E urgent \in BOOLEAN : Sd!Doubt(urgent, "urgent")
      BY <2>2 DEF Sd!StatusFor
    <3> QED BY <1>6, <3>1 DEF Sd!Doubts
  <2>3. CASE Sd!StatusLost
    <3>1. sdUnsure' = sdUnsure \/ Sd!Doubt(TRUE, "lost")
      BY <2>3 DEF Sd!StatusLost
    <3> QED BY <1>6, <3>1 DEF Sd!Doubts
  <2> QED BY <2>1, <2>2, <2>3 DEF SdStatusStep
<1> QED BY <1>1, <1>2, <1>3, <1>4, <1>5, <1>7, <1>8 DEF Sd!Identify

LEMMA SdClassKept ==
    ASSUME SdClassInv, sdWhatDev' = sdWhatDev, sdKind' = sdKind, sdUnsure \subseteq sdUnsure',
           sdPc \notin SdUnknown \/ sdPc' \in SdUnknown
    PROVE  SdClassInv'
  BY DEF SdClassInv, Sd!HighCapacity, SdIdentified

LEMMA SdMustStarts ==
    ASSUME SdClassInv, NEW step, step \notin SdUnknown \cup SdRead5, NEW from, NEW to,
           NEW next, next \notin {"stop", "done"}, Sd!Must(step, from, to, next)
    PROVE  SdStarting /\ SdClassInv'
<1>1. sdPc = step /\ sdWhatDev' = sdWhatDev /\ sdKind' = sdKind /\ sdSector' = sdSector /\ sdData' = sdData /\ sdUnsure' = sdUnsure
  BY DEF Sd!Must, Sd!medium, Sd!reading
<1>2. sdPc' \in {"cmd0", "failed", next}
  BY SdAgainSteps DEF Sd!Must, Sd!Go
<1> QED BY <1>1, <1>2, SdClassKept DEF SdStarting, SdUnknown

LEMMA SdMustsStart ==
    ASSUME SdClassInv,
           \/ Sd!GetAllSendCIDNum \/ Sd!GetSetRelativeAddr \/ Sd!GetSendCSDNum
           \/ Sd!ChangeCardToTransferState \/ Sd!SetBlkLen512B
    PROVE  SdStarting /\ SdClassInv'
<1>0. /\ {"cmd2", "cmd3", "cmd9", "cmd7", "cmd16"} \cap (SdUnknown \cup SdRead5) = {}
      /\ {"cmd3", "cmd9", "cmd7", "cmd13"} \cap {"stop", "done"} = {}
  BY DEF SdUnknown, SdRead5
<1>1. CASE Sd!GetAllSendCIDNum
  BY <1>0, <1>1, SdMustStarts DEF Sd!GetAllSendCIDNum
<1>2. CASE Sd!GetSetRelativeAddr
  BY <1>0, <1>2, SdMustStarts DEF Sd!GetSetRelativeAddr
<1>3. CASE Sd!GetSendCSDNum
  BY <1>0, <1>3, SdMustStarts DEF Sd!GetSendCSDNum
<1>4. CASE Sd!ChangeCardToTransferState
  BY <1>0, <1>4, SdMustStarts DEF Sd!ChangeCardToTransferState
<1>5. CASE Sd!SetBlkLen512B
  <2>1. (IF sdEmmc THEN "ext" ELSE "scr55") \notin {"stop", "done"}
    OBVIOUS
  <2> QED BY <1>5, <2>1, SdMustStarts DEF Sd!SetBlkLen512B, SdUnknown, SdRead5
<1> QED BY <1>1, <1>2, <1>3, <1>4, <1>5

(* CMD1 and ACMD41 tell the class.                                          *)
LEMMA SdCmd1Starts ==
    ASSUME SdClassInv, Sd!Cmd1
    PROVE  SdStarting /\ SdClassInv'
<1>1. sdPc = "cmd1" /\ sdKind' = sdKind /\ sdSector' = sdSector /\ sdData' = sdData
  BY DEF Sd!Cmd1, Sd!medium, Sd!reading
<1>2. PICK r \in Sd!Replies(Sd!Mmc /\ sdState = "idle" /\ (Sd!HighCapacity => sdHostHcs)) :
        \/ sdPc' \in {"cmd0", "cmd1", "failed"} /\ sdWhatDev' = sdWhatDev
        \/ /\ r.ret = "ok" /\ sdPc' = "cmd2"
           /\ sdWhatDev' = IF sdHostHcs /\ Sd!HighCapacity THEN "mmchc" ELSE "mmcsc"
  BY SdAgainSteps DEF Sd!Cmd1, Sd!Go
<1>3. (r.seen => (Sd!HighCapacity => sdHostHcs)) /\ (r.ret = "ok" => r.seen)
  BY SdReplyFacts DEF Sd!Mmc
<1>4. sdPc' = "cmd2" => (sdWhatDev' \in {"sdsc", "mmcsc"} <=> ~Sd!HighCapacity)
  BY <1>2, <1>3
<1>5. Sd!HighCapacity' <=> Sd!HighCapacity
  BY <1>1 DEF Sd!HighCapacity
<1> QED BY <1>1, <1>2, <1>4, <1>5 DEF SdStarting, SdClassInv, SdUnknown, SdRead5

LEMMA SdAcmd41Starts ==
    ASSUME SdClassInv, Sd!Acmd41
    PROVE  SdStarting /\ SdClassInv'
<1>1. sdPc = "acmd41" /\ sdKind' = sdKind /\ sdSector' = sdSector /\ sdData' = sdData
  BY DEF Sd!Acmd41, Sd!medium, Sd!reading
<1>2. \/ sdPc' \in {"cmd0", "cmd55", "failed"} /\ sdWhatDev' = sdWhatDev
      \/ (Sd!HighCapacity => sdHostHcs) /\ sdPc' = "cmd2" /\ sdWhatDev' = Sd!ClassOf(Sd!HighCapacity)
  BY SdAgainSteps DEF Sd!Acmd41, Sd!Go
<1>3. sdPc' = "cmd2" => (sdWhatDev' \in {"sdsc", "mmcsc"} <=> ~Sd!HighCapacity)
  BY <1>2 DEF Sd!ClassOf
<1>4. Sd!HighCapacity' <=> Sd!HighCapacity
  BY <1>1 DEF Sd!HighCapacity
<1> QED BY <1>1, <1>2, <1>3, <1>4 DEF SdStarting, SdClassInv, SdUnknown, SdRead5

LEMMA SdResetStarts ==
    ASSUME SdClassInv, Sd!InitChipCtrl \/ Sd!Cmd0 \/ Sd!Cmd0Fails \/ Sd!Cmd8 \/ Sd!Cmd55
    PROVE  SdStarting /\ SdClassInv'
<1>1. CASE Sd!InitChipCtrl
  <2>1. sdPc = "chip" /\ sdPc' = "cmd0" /\ sdSector' = sdSector /\ sdData' = sdData /\ sdWhatDev' = sdWhatDev /\ sdKind' = sdKind
    BY <1>1, SMT DEF Sd!InitChipCtrl, Sd!Go, Sd!reading, Sd!medium
  <2> QED BY <2>1 DEF SdStarting, SdClassInv, Sd!HighCapacity, SdUnknown, SdRead5
<1>2. CASE Sd!Cmd0
  <2>1. /\ sdPc = "cmd0" /\ sdPc' \in {"cmd0", "cmd1", "cmd8", "failed"} /\ sdSector' = sdSector /\ sdData' = sdData
        /\ sdWhatDev' \in {sdWhatDev, "none"} /\ sdKind' = sdKind
    BY <1>2, SdAgainSteps DEF Sd!Cmd0, Sd!Go, Sd!reading, Sd!medium
  <2> QED BY <2>1 DEF SdStarting, SdClassInv, Sd!HighCapacity, SdUnknown, SdRead5
<1>3. CASE Sd!Cmd8
  <2>1. /\ sdPc = "cmd8" /\ sdPc' \in {"cmd0", "failed", "cmd55"} /\ sdSector' = sdSector /\ sdData' = sdData
        /\ sdWhatDev' = sdWhatDev /\ sdKind' = sdKind
    BY <1>3, SdAgainSteps DEF Sd!Cmd8, Sd!Go, Sd!reading, Sd!medium
  <2> QED BY <2>1 DEF SdStarting, SdClassInv, Sd!HighCapacity, SdUnknown, SdRead5
<1>4. CASE Sd!Cmd55
  <2>1. /\ sdPc = "cmd55" /\ sdPc' \in {"cmd0", "failed", "acmd41"} /\ sdSector' = sdSector /\ sdData' = sdData
        /\ sdWhatDev' = sdWhatDev /\ sdKind' = sdKind
    BY <1>4, SdAgainSteps DEF Sd!Cmd55, Sd!Go, Sd!reading, Sd!medium
  <2> QED BY <2>1 DEF SdStarting, SdClassInv, Sd!HighCapacity, SdUnknown, SdRead5
<1>5. CASE Sd!Cmd0Fails
  <2>1. /\ sdPc = "cmd0" /\ sdPc' \in {"switch", "read"} /\ sdSector' = sdSector /\ sdData' = sdData
        /\ sdWhatDev' = sdWhatDev /\ sdKind' = sdKind /\ ~SdIdentified'
    BY <1>5 DEF Sd!Cmd0Fails, Sd!Initialised, Sd!reading, Sd!medium, SdIdentified
  <2> QED BY <2>1 DEF SdStarting, SdClassInv, Sd!HighCapacity, SdUnknown, SdRead5
<1> QED BY <1>1, <1>2, <1>3, <1>4, <1>5

LEMMA SdStepKeeps ==
    ASSUME SdClassInv, sdPc \in {"ext", "ext read", "scr55", "scr", "width55", "acmd6", "speed", "switch", "cmd13", "clock"},
           sdPc' \notin {"stop", "done"},
           sdUnsure \subseteq sdUnsure', UNCHANGED <<sdKind, sdWhatDev, sdSector, sdData>>
    PROVE  SdStarting /\ SdClassInv'
<1>1. sdPc \notin SdUnknown
  BY DEF SdUnknown
<1>2. SdClassInv'
  BY <1>1, SdClassKept
<1> QED BY <1>2 DEF SdStarting, SdRead5

LEMMA SdRegisterStarts ==
    ASSUME SdClassInv,
           Sd!sdStateCheck \/ Sd!GetMMCExtCSD \/ Sd!ScrCmd55 \/ Sd!ScrRead \/ Sd!WidthCmd55 \/ Sd!Acmd6 \/ Sd!ChangeSDToHiSpeedMode
    PROVE  SdStarting /\ SdClassInv'
<1>0. sdUnsure \subseteq sdUnsure'
  BY SdRemembered DEF Sd!Identify
<1>1. CASE Sd!sdStateCheck
  <2>1. sdPc = "ext" /\ sdPc' \in {"ext read", "switch"}
    BY <1>1 DEF Sd!sdStateCheck, Sd!Go
  <2>2. UNCHANGED <<sdKind, sdWhatDev, sdSector, sdData>>
    BY <1>1 DEF Sd!sdStateCheck, Sd!medium, Sd!reading
  <2> QED BY <2>1, <2>2, <1>0, SdStepKeeps
<1>2. CASE Sd!GetMMCExtCSD
  <2>1. sdPc = "ext read" /\ sdPc' \in {"switch"}
    BY <1>2 DEF Sd!GetMMCExtCSD, Sd!Go
  <2>2. UNCHANGED <<sdKind, sdWhatDev, sdSector, sdData>>
    BY <1>2 DEF Sd!GetMMCExtCSD, Sd!medium, Sd!reading
  <2> QED BY <2>1, <2>2, <1>0, SdStepKeeps
<1>3. CASE Sd!ScrCmd55
  <2>1. sdPc = "scr55" /\ sdPc' \in {"cmd0", "failed", "scr"}
    BY <1>3, SdAgainSteps DEF Sd!ScrCmd55, Sd!Go
  <2>2. UNCHANGED <<sdKind, sdWhatDev, sdSector, sdData>>
    BY <1>3 DEF Sd!ScrCmd55, Sd!medium, Sd!reading
  <2> QED BY <2>1, <2>2, <1>0, SdStepKeeps
<1>4. CASE Sd!ScrRead
  <2>1. sdPc = "scr" /\ sdPc' \in {"cmd0", "failed", "width55", "speed"}
    BY <1>4, SdAgainSteps DEF Sd!ScrRead, Sd!Go
  <2>2. UNCHANGED <<sdKind, sdWhatDev, sdSector, sdData>>
    BY <1>4 DEF Sd!ScrRead, Sd!medium, Sd!reading
  <2> QED BY <2>1, <2>2, <1>0, SdStepKeeps
<1>5. CASE Sd!WidthCmd55
  <2>1. sdPc = "width55" /\ sdPc' \in {"cmd0", "failed", "acmd6", "speed"}
    BY <1>5, SdAgainSteps DEF Sd!WidthCmd55, Sd!WidthError, Sd!Go
  <2>2. UNCHANGED <<sdKind, sdWhatDev, sdSector, sdData>>
    BY <1>5 DEF Sd!WidthCmd55, Sd!medium, Sd!reading
  <2> QED BY <2>1, <2>2, <1>0, SdStepKeeps
<1>6. CASE Sd!Acmd6
  <2>1. sdPc = "acmd6" /\ sdPc' \in {"cmd0", "failed", "speed"}
    BY <1>6, SdAgainSteps DEF Sd!Acmd6, Sd!WidthError, Sd!Go
  <2>2. UNCHANGED <<sdKind, sdWhatDev, sdSector, sdData>>
    BY <1>6 DEF Sd!Acmd6, Sd!medium, Sd!reading
  <2> QED BY <2>1, <2>2, <1>0, SdStepKeeps
<1>7. CASE Sd!ChangeSDToHiSpeedMode
  <2>1. sdPc = "speed" /\ sdPc' \in {"clock"}
    BY <1>7 DEF Sd!ChangeSDToHiSpeedMode, Sd!Go
  <2>2. UNCHANGED <<sdKind, sdWhatDev, sdSector, sdData>>
    BY <1>7 DEF Sd!ChangeSDToHiSpeedMode, Sd!medium, Sd!reading
  <2> QED BY <2>1, <2>2, <1>0, SdStepKeeps
<1> QED BY <1>1, <1>2, <1>3, <1>4, <1>5, <1>6, <1>7

LEMMA SdSwitchStarts ==
    ASSUME SdClassInv, Sd!DoMMCSwitch \/ Sd!CheckCardStatus \/ Sd!RaiseClock
    PROVE  SdStarting /\ SdClassInv'
<1>0. sdUnsure \subseteq sdUnsure'
  BY SdRemembered DEF Sd!Identify
<1>1. ASSUME NEW ok, Sd!Switched(ok) PROVE sdPc' \in {"switch", "clock", "no switch", "read"}
  BY <1>1 DEF Sd!Switched, Sd!SetMMCBusWidth, Sd!ChangeMMCToHiSpeedMode, Sd!SetMMCEraseGroup2Hi,
     Sd!SetMMCPartitionNum, Sd!Go
<1>2. CASE Sd!DoMMCSwitch
  <2>1. sdPc = "switch" /\ (sdPc' = "cmd13" \/ Sd!Switched(FALSE))
    BY <1>2 DEF Sd!DoMMCSwitch, Sd!Go
  <2>2. UNCHANGED <<sdKind, sdWhatDev, sdSector, sdData>>
    BY <1>2 DEF Sd!DoMMCSwitch, Sd!medium, Sd!reading
  <2> QED BY <1>1, <2>1, <2>2, <1>0, SdStepKeeps
<1>3. CASE Sd!CheckCardStatus
  <2>1. sdPc = "cmd13" /\ \E r \in Sd!Replies(sdAddressed /\ sdState \in {"stby", "tran", "prg"}) : SdStatusStep(r)
    BY <1>3 DEF Sd!CheckCardStatus, SdStatusStep
  <2>2. UNCHANGED <<sdKind, sdWhatDev, sdSector, sdData>>
    BY <1>3 DEF Sd!CheckCardStatus, Sd!medium, Sd!reading
  <2>3. sdPc' \in {"cmd13", "cmd16", "cmd0", "failed"} \/ \E ok \in BOOLEAN : Sd!Switched(ok)
    BY <2>1, SdStatusFacts
  <2> QED BY <1>1, <2>1, <2>2, <2>3, <1>0, SdStepKeeps
<1>4. CASE Sd!RaiseClock
  <2>1. sdPc = "clock" /\ sdPc' \in {"switch", "read"}
    BY <1>4 DEF Sd!RaiseClock, Sd!Initialised
  <2>2. UNCHANGED <<sdKind, sdWhatDev, sdSector, sdData>>
    BY <1>4 DEF Sd!RaiseClock, Sd!medium, Sd!reading
  <2> QED BY <2>1, <2>2, <1>0, SdStepKeeps
<1> QED BY <1>2, <1>3, <1>4

LEMMA SdIdentifyStarts ==
    ASSUME SdClassInv, Sd!Identify
    PROVE  SdStarting /\ SdClassInv'
  BY SdCmd1Starts, SdAcmd41Starts, SdResetStarts, SdMustsStart, SdRegisterStarts, SdSwitchStarts
     DEF Sd!Identify

(* A try that ended well left the sector asked for, if the card was         *)
(* identified; else it may be an earlier one.                               *)
LEMMA SdAddressedIsAsked ==
    ASSUME SdClassInv, sdSector \in Nat, sdPc = "read"
    PROVE  Sd!Addressed \in 0 .. sdSector /\ (SdIdentified => Sd!Addressed = sdSector)
<1>1. (sdSector * 512) \div 512 = sdSector /\ sdSector \div 512 \in 0 .. sdSector
  OBVIOUS
<1>2. CASE sdWhatDev \in {"sdsc", "mmcsc"}
  <2>1. ~Sd!HighCapacity
    BY <1>2 DEF SdClassInv
  <2>2. Sd!Addressed = sdSector
    BY <1>1, <1>2, <2>1 DEF Sd!Addressed, Sd!Argument
  <2> QED BY <2>2
<1>3. CASE sdWhatDev \notin {"sdsc", "mmcsc"}
  <2>1. Sd!Addressed = IF Sd!HighCapacity THEN sdSector ELSE sdSector \div 512
    BY <1>3 DEF Sd!Addressed, Sd!Argument
  <2>2. SdIdentified => Sd!HighCapacity
    BY <1>3 DEF SdClassInv, SdUnknown
  <2> QED BY <1>1, <2>1, <2>2
<1> QED BY <1>2, <1>3

LEMMA SdReadBlocks ==
    ASSUME Sd!SdCardAssumption, SdInv, Sd!ReadSDMultipleSector
    PROVE  /\ SdClassInv' /\ SdBufferInv' /\ sdSector' = sdSector /\ sdUnsure' = sdUnsure
           /\ sdPc = "read" /\ sdPc' = "stop"
<1>1. sdPc = "read" /\ sdPc' = "stop" /\ sdSector' = sdSector /\ UNCHANGED <<sdKind, sdWhatDev, sdUnsure>>
  BY Zenon DEF Sd!ReadSDMultipleSector, Sd!medium
<1>2. (sdData' = Sd!Addressed /\ sdRetry' = -1) \/ (sdData' = Sd!NoData /\ sdRetry' = sdRetry)
  BY Zenon DEF Sd!ReadSDMultipleSector
<1>3. sdRetry \in Nat /\ sdSector \in 1 .. Reads /\ Reads \in Nat /\ SdClassInv
  BY <1>1 DEF SdInv, SdCore, SdTriesInv, SdBufferInv, Sd!SdCardAssumption
<1>4. Sd!Addressed \in 0 .. sdSector /\ (SdIdentified => Sd!Addressed = sdSector)
  BY <1>1, <1>3, SdAddressedIsAsked
<1>5. Sd!Addressed \in 0 .. Reads
  BY <1>3, <1>4
<1>6. SdIdentified' = SdIdentified
  BY <1>1 DEF SdIdentified
<1>7. SdBufferInv'
  BY <1>1, <1>2, <1>3, <1>4, <1>5, <1>6 DEF SdBufferInv
<1>8. SdClassInv'
  BY <1>1, <1>3, SdClassKept DEF SdUnknown
<1> QED BY <1>1, <1>7, <1>8

LEMMA SdStopBlocks ==
    ASSUME Sd!SdCardAssumption, SdInv, Sd!StopCardTransmission
    PROVE  /\ SdClassInv' /\ SdBufferInv' /\ sdSector' = sdSector /\ sdData' = sdData /\ sdUnsure' = sdUnsure
           /\ sdPc = "stop" /\ sdPc' \in {"done", "read", "failed"}
<1>1. sdPc = "stop" /\ UNCHANGED <<sdSector, sdData, sdKind, sdWhatDev, sdUnsure>>
  BY DEF Sd!StopCardTransmission, Sd!medium
<1>2. IF sdRetry = -1 THEN sdPc' = "done" ELSE sdPc' \in {"read", "failed"}
  BY DEF Sd!StopCardTransmission
<1>3. /\ sdSector \in 1 .. Reads /\ SdClassInv
      /\ sdRetry # -1 => sdData = Sd!NoData
      /\ sdRetry = -1 => sdData \in 0 .. Reads /\ (SdIdentified => sdData = sdSector)
  BY <1>1 DEF SdInv, SdBufferInv
<1>4. SdIdentified' = SdIdentified
  BY <1>1 DEF SdIdentified
<1>5. SdBufferInv'
  BY <1>1, <1>2, <1>3, <1>4 DEF SdBufferInv
<1>6. SdClassInv'
  BY <1>1, <1>3, SdClassKept DEF SdUnknown
<1> QED BY <1>1, <1>2, <1>5, <1>6

LEMMA SdNextBlocks ==
    ASSUME Sd!SdCardAssumption, SdInv, Sd!NextSector
    PROVE  SdClassInv' /\ SdBufferInv' /\ sdPc = "done" /\ sdPc' = "read"
<1>1. /\ sdPc = "done" /\ sdPc' = "read" /\ sdSector < Reads /\ sdSector' = sdSector + 1 /\ sdData' = Sd!NoData
      /\ UNCHANGED <<sdKind, sdWhatDev, sdUnsure>>
  BY DEF Sd!NextSector, Sd!medium, Sd!driver
<1>2. sdSector \in 1 .. Reads /\ Reads \in Nat
  BY DEF SdInv, SdBufferInv, Sd!SdCardAssumption
<1>3. SdBufferInv'
  BY <1>1, <1>2 DEF SdBufferInv
<1>4. SdClassInv'
  BY <1>1, SdClassKept DEF SdInv, SdUnknown
<1> QED BY <1>1, <1>3, <1>4

LEMMA SdBlocksStep ==
    ASSUME Sd!SdCardAssumption, SdInv, [Sd!Next]_(Sd!vars)
    PROVE  SdClassInv' /\ SdBufferInv'
<1>1. ASSUME UNCHANGED <<sdPc, sdRetry, sdSector, sdData, sdKind, sdWhatDev, sdUnsure>> PROVE SdClassInv' /\ SdBufferInv'
  BY <1>1 DEF SdInv, SdClassInv, SdBufferInv, Sd!HighCapacity, SdIdentified
<1>2. CASE UNCHANGED Sd!vars
  BY <1>1, <1>2 DEF Sd!vars, Sd!medium, Sd!driver, Sd!reading
<1>3. CASE Sd!Identify
  <2>1. SdStarting /\ SdClassInv'
    BY <1>3, SdIdentifyStarts DEF SdInv
  <2>2. sdSector \in 1 .. Reads /\ sdData = Sd!NoData
    BY <2>1 DEF SdInv, SdBufferInv, SdStarting, SdRead5
  <2> QED BY <2>1, <2>2 DEF SdBufferInv, SdStarting
<1>4. CASE Sd!Read
  BY <1>4, SdReadBlocks, SdStopBlocks, SdNextBlocks DEF Sd!Read
<1>5. CASE Sd!CardReady
  BY <1>1, <1>5 DEF Sd!CardReady, Sd!medium, Sd!driver, Sd!reading
<1> QED BY <1>2, <1>3, <1>4, <1>5 DEF Sd!Next, Sd!Finish

LEMMA SdInitInv ==
    ASSUME Sd!SdCardAssumption, Sd!Init
    PROVE  SdInv
<1>1. sdPc = "chip" /\ sdSector = 1 /\ sdData = Sd!NoData /\ 1 \in 1 .. Reads /\ sdWhatDev = "none"
  BY DEF Sd!Init, Sd!SdCardAssumption
<1>2. SdClassInv /\ SdBufferInv
  BY <1>1 DEF SdClassInv, SdBufferInv, SdUnknown
<1> QED BY <1>2, SdCoreInit DEF SdInv

LEMMA SdNextInv ==
    ASSUME Sd!SdCardAssumption, SdInv, [Sd!Next]_(Sd!vars)
    PROVE  SdInv'
<1>1. SdCore'
  BY SdCoreNext DEF SdInv
<1> QED BY <1>1, SdBlocksStep DEF SdInv

(* What each step is for the block device.                                  *)
LEMMA SdDevFoundHeld ==
    ASSUME Sd!SdCardAssumption, SdInv'
    PROVE  SdDevFound' \in {0} \cup 1 .. Reads
<1>1. sdData' \in {Sd!NoData} \cup 0 .. Reads /\ Reads \in Nat
  BY DEF SdInv, SdBufferInv, Sd!SdCardAssumption
<1> QED BY <1>1 DEF SdDevFound, Sd!NoData

LEMMA SdDevStep ==
    ASSUME Sd!SdCardAssumption, SdInv, SdInv', [Sd!Next]_(Sd!vars)
    PROVE  SdDevMoves
<1>1. ASSUME UNCHANGED <<sdPc, sdSector, sdData, sdUnsure>> PROVE SdDevMoves
  BY <1>1 DEF SdDevMoves, SdDevPhase, SdDevFound, SdDevSure, SdIdentified
<1>2. CASE UNCHANGED Sd!vars \/ Sd!Finish
  BY <1>1, <1>2 DEF Sd!vars, Sd!reading, Sd!Finish
<1>3. CASE Sd!Identify
  <2>1. SdStarting
    BY <1>3, SdIdentifyStarts DEF SdInv
  <2>2. SdDevPhase = "idle" /\ SdDevPhase' \in {"idle", "reading", "failed"}
    BY <2>1 DEF SdDevPhase, SdStarting, SdRead5
  <2>3. sdSector' = sdSector /\ sdSector \in 1 .. Reads /\ SdDevFound' = SdDevFound
    BY <2>1 DEF SdStarting, SdDevFound, SdInv, SdBufferInv
  <2> QED BY <2>2, <2>3, SdDevFoundHeld DEF SdDevMoves, SdDevSure
<1>4. CASE Sd!Read
  <2>1. CASE Sd!ReadSDMultipleSector
    <3>1. sdPc = "read" /\ sdPc' = "stop" /\ sdSector' = sdSector
      BY <2>1, SdReadBlocks
    <3>2. SdDevPhase = "reading" /\ SdDevPhase' = "reading"
      BY <3>1 DEF SdDevPhase
    <3> QED BY <3>1, <3>2, SdDevFoundHeld DEF SdDevMoves
  <2>2. CASE Sd!StopCardTransmission
    <3>1. sdPc = "stop" /\ sdPc' \in {"done", "read", "failed"} /\ sdSector' = sdSector
      BY <2>2, SdStopBlocks
    <3>2. SdDevPhase = "reading" /\ SdDevPhase' \in {"reading", "good", "failed"} /\ (SdDevPhase' = "good" => sdPc' = "done")
      BY <3>1 DEF SdDevPhase
    <3>3. sdPc' = "done" /\ SdDevSure' => SdDevFound' = sdSector'
      <4>1. sdPc' = "done" /\ SdIdentified' => sdData' = sdSector' /\ sdSector' \in 1 .. Reads
        BY DEF SdInv, SdBufferInv
      <4>2. sdPc' = "done" /\ SdDevSure' => SdIdentified'
        BY DEF SdDevSure, SdDevPhase
      <4>3. Reads \in Nat
        BY DEF Sd!SdCardAssumption
      <4> QED BY <4>1, <4>2, <4>3 DEF SdDevFound
    <3> QED BY <3>1, <3>2, <3>3, SdDevFoundHeld DEF SdDevMoves
  <2>3. CASE Sd!NextSector
    <3>1. sdPc = "done" /\ sdPc' = "read" /\ sdSector' \in 1 .. Reads
      BY <2>3, SdNextBlocks DEF SdBufferInv
    <3>2. SdDevPhase = "good" /\ SdDevPhase' = "reading"
      BY <3>1 DEF SdDevPhase
    <3> QED BY <3>1, <3>2, SdDevFoundHeld DEF SdDevMoves
  <2> QED BY <1>4, <2>1, <2>2, <2>3 DEF Sd!Read
<1>5. CASE Sd!CardReady
  BY <1>1, <1>5 DEF Sd!CardReady, Sd!reading
<1> QED BY <1>2, <1>3, <1>4, <1>5 DEF Sd!Next

-----------------------------------------------------------------------------
(* Theorems                                                                 *)

-----------------------------------------------------------------------------
(* The parts in Media.                                                       *)

LEMMA SpiSteps ==
    ASSUME [Next]_vars
    PROVE  [Spi!Next]_(Spi!vars)
<1>1. Spi!Next \/ UNCHANGED spiVars
  BY DEF Next, vars, SdStep, SpiStep, ParaStep, EnumStep, BotStep, MscStep
<1>2. UNCHANGED spiVars => UNCHANGED Spi!vars
  BY DEF spiVars, Spi!vars, Spi!request, Spi!flash
<1> QED BY <1>1, <1>2

LEMMA ParaSteps ==
    ASSUME [Next]_vars
    PROVE  [Para!Next]_(Para!vars)
<1>1. Para!Next \/ UNCHANGED paraVars
  BY DEF Next, vars, SdStep, SpiStep, ParaStep, EnumStep, BotStep, MscStep
<1>2. UNCHANGED paraVars => UNCHANGED Para!vars
  BY DEF paraVars, Para!vars, Para!request, Para!controller, Para!bounds
<1> QED BY <1>1, <1>2

(* Whatever fails or comes too late: PNAND_ReadPage leaves with the ECC     *)
(* engine on, which a second read had switched off.                         *)
THEOREM EccStaysOn == Spec => []EccRestored
<1>1. Para!ParaNandAssumption
  BY MediaAssumption DEF MediaAssumption
<1>2. Init => ParaInv
  BY <1>1, ParaInitInv DEF Init
<1>3. ParaInv /\ [Next]_vars => ParaInv'
  BY <1>1, ParaNextInv, ParaSteps
<1>4. ParaInv => EccRestored
  BY <1>1 DEF ParaInv, ParaCore, ParaEccInv, Para!EccRestored, EccRestored
<1> QED BY <1>2, <1>3, <1>4, PTL DEF Spec

(* PNANDReadNANDPage_1K60 returns ROM_SUCCESS only with the page asked for, *)
(* unless an earlier read left something over or a wait of this one ended   *)
(* with nothing, which the driver does not take for an error.               *)
THEOREM PageIsRead == Spec => [](Para!ReadsPage)
<1>1. Para!ParaNandAssumption
  BY MediaAssumption DEF MediaAssumption
<1>2. Init => ParaInv
  BY <1>1, ParaInitInv DEF Init
<1>3. ParaInv /\ [Next]_vars => ParaInv'
  BY <1>1, ParaNextInv, ParaSteps
<1>4. ParaInv => Para!ReadsPage
  BY <1>1 DEF ParaInv, ParaCore, ParaTrackInv, ParaTracked, Para!ReadsPage
<1> QED BY <1>2, <1>3, <1>4, PTL DEF Spec

LEMMA EnumSteps ==
    ASSUME [Next]_vars
    PROVE  [Enum!Next]_(Enum!vars)
<1>1. Enum!Next \/ UNCHANGED enumVars
  BY DEF Next, vars, SdStep, SpiStep, ParaStep, EnumStep, BotStep, MscStep
<1>2. UNCHANGED enumVars => UNCHANGED Enum!vars
  BY DEF enumVars, Enum!vars, Enum!scan
<1> QED BY <1>1, <1>2

(* No device ever answers to the hub's address, and no two to one address   *)
(* unless the reset of a port outlasted the driver's wait, however many     *)
(* ports the hub has and however often usb2_init is called again.           *)
THEOREM AddressesApart == Spec => []AddressesUnique
<1>1. Enum!EhciEnumAssumption
  BY MediaAssumption DEF MediaAssumption
<1>2. Init => EnumInv
  BY <1>1, EnumInitInv DEF Init
<1>3. EnumInv /\ [Next]_vars => EnumInv'
  BY <1>1, EnumNextInv, EnumSteps
<1>4. EnumInv => AddressesUnique
  BY <1>1, EnumAddrApart DEF EnumInv, AddressesUnique
<1> QED BY <1>2, <1>3, <1>4, PTL DEF Spec

(* Requests for the hub are sent to the hub, whatever device was asked      *)
(* before.                                                                  *)
THEOREM HubIsAsked == Spec => []AsksTheHub
<1>1. Enum!EhciEnumAssumption
  BY MediaAssumption DEF MediaAssumption
<1>2. Init => EnumInv
  BY <1>1, EnumInitInv DEF Init
<1>3. EnumInv /\ [Next]_vars => EnumInv'
  BY <1>1, EnumNextInv, EnumSteps
<1>4. EnumInv => AsksTheHub
  BY <1>1 DEF EnumInv, EnumAskedInv, EnumHubReady, EnumAsksHub, Enum!AsksTheHub, AsksTheHub
<1> QED BY <1>2, <1>3, <1>4, PTL DEF Spec

(* usb2_init says that there is no disk only when every disk it could see   *)
(* has been handed on by a call before, up to the first port whose reset    *)
(* outlasted the driver's wait.                                             *)
THEOREM DisksFound == Spec => []NoDiskMissed
<1>1. Enum!EhciEnumAssumption
  BY MediaAssumption DEF MediaAssumption
<1>2. Init => EnumInv
  BY <1>1, EnumInitInv DEF Init
<1>3. EnumInv /\ [Next]_vars => EnumInv'
  BY <1>1, EnumNextInv, EnumSteps
<1>4. EnumInv => NoDiskMissed
  BY <1>1 DEF EnumInv, EnumSeenInv, NoDiskMissed
<1> QED BY <1>2, <1>3, <1>4, PTL DEF Spec

LEMMA BotSteps ==
    ASSUME [Next]_vars
    PROVE  [Bot!Next]_(Bot!vars)
<1>1. Bot!Next \/ UNCHANGED botVars
  BY DEF Next, vars, SdStep, SpiStep, ParaStep, EnumStep, BotStep, MscStep
<1>2. UNCHANGED botVars => UNCHANGED Bot!vars
  BY DEF botVars, Bot!vars, Bot!progress
<1> QED BY <1>1, <1>2

(* Driver and device agree on the data toggle before every command, however *)
(* many packets the transfers before it had.                                *)
THEOREM TogglesKept ==
    ASSUME BotLongSectorsEven
    PROVE  Spec => []TogglesAgree
<1>1. Bot!EhciMscAssumption
  BY MediaAssumption DEF MediaAssumption
<1>2. Init => BotInv
  BY <1>1, BotInitInv DEF Init
<1>3. BotInv /\ [Next]_vars => BotInv'
  BY <1>1, BotNextInv, BotSteps
<1>4. BotInv => TogglesAgree
  BY <1>1 DEF BotInv, BotCore, BotPhaseInv, Bot!TogglesAgree, TogglesAgree
<1> QED BY <1>2, <1>3, <1>4, PTL DEF Spec

(* usb2_readSector returns only when the device has passed this very read   *)
(* and its data is in memory, or the device had less of it, although no tag *)
(* is compared.                                                             *)
THEOREM ReadIsOwn ==
    ASSUME BotLongSectorsEven
    PROVE  Spec => [](Bot!SuccessIsOwn)
<1>1. Bot!EhciMscAssumption
  BY MediaAssumption DEF MediaAssumption
<1>2. Init => BotInv
  BY <1>1, BotInitInv DEF Init
<1>3. BotInv /\ [Next]_vars => BotInv'
  BY <1>1, BotNextInv, BotSteps
<1>4. BotInv => Bot!SuccessIsOwn
  BY <1>1 DEF BotInv, BotCore, BotDataInv, Bot!SuccessIsOwn
<1> QED BY <1>2, <1>3, <1>4, PTL DEF Spec

LEMMA MscSteps ==
    ASSUME [Next]_vars
    PROVE  [Msc!Next]_(Msc!vars)
<1>1. Msc!Next \/ UNCHANGED mscVars
  BY DEF Next, vars, SdStep, SpiStep, ParaStep, EnumStep, BotStep, MscStep
<1>2. UNCHANGED mscVars => UNCHANGED Msc!vars
  BY DEF mscVars, Msc!vars, Msc!driver, Msc!bus
<1> QED BY <1>1, <1>2

(* stor_BBB_transport returns 0 only when the device has passed this very   *)
(* command, however far events and transfers are out of step.               *)
THEOREM OwnSuccess == Spec => []SuccessIsOwn
<1>1. Msc!UsbMscAssumption
  BY MediaAssumption DEF MediaAssumption
<1>2. Init => MscInv
  BY <1>1, MscInitInv DEF Init
<1>3. MscInv /\ [Next]_vars => MscInv'
  BY <1>1, MscNextInv, MscSteps
<1>4. MscInv => SuccessIsOwn
  BY <1>1, MscInvSuffices DEF SuccessIsOwn
<1> QED BY <1>2, <1>3, <1>4, PTL DEF Spec

(* And then the data of this very command is where the caller looks for it. *)
THEOREM OwnData == Spec => []DataIsOwn
<1>1. Msc!UsbMscAssumption
  BY MediaAssumption DEF MediaAssumption
<1>2. Init => MscInv
  BY <1>1, MscInitInv DEF Init
<1>3. MscInv /\ [Next]_vars => MscInv'
  BY <1>1, MscNextInv, MscSteps
<1>4. MscInv => DataIsOwn
  BY <1>1, MscInvSuffices DEF DataIsOwn
<1> QED BY <1>2, <1>3, <1>4, PTL DEF Spec

LEMMA SdSteps ==
    ASSUME [Next]_vars
    PROVE  [Sd!Next]_(Sd!vars)
<1>1. Sd!Next \/ UNCHANGED sdVars
  BY DEF Next, vars, SdStep, SpiStep, ParaStep, EnumStep, BotStep, MscStep
<1>2. UNCHANGED sdVars => UNCHANGED Sd!vars
  BY DEF sdVars, Sd!vars, Sd!medium, Sd!driver, Sd!setting, Sd!card, Sd!reading
<1> QED BY <1>1, <1>2

(* Whenever something is read, the controller has no more data lines than   *)
(* the card unless the card refused the switch of DoMMCSwitch, and no fewer *)
(* unless an answer to a switch got lost, background operations were urgent *)
(* or CMD0 failed, for any number of tries.                                 *)
THEOREM LinesAgree == Spec => []WidthsAgree
<1>1. Sd!SdCardAssumption
  BY MediaAssumption DEF MediaAssumption
<1>2. Init => SdInv
  BY <1>1, SdInitInv DEF Init
<1>3. SdInv /\ [Next]_vars => SdInv'
  BY <1>1, SdNextInv, SdSteps
<1>4. SdInv => WidthsAgree
  BY <1>1 DEF SdInv, SdCore, SdWidthInv, Sd!WidthsAgree, SdAgree, WidthsAgree
<1> QED BY <1>2, <1>3, <1>4, PTL DEF Spec

(* A read does not fail while one setting samples rightly and fewer than    *)
(* Noise transfers were disturbed beside: with ReadRetries rounds enough,   *)
(* ReadSDMultipleSector moves to another setting each time the setting is   *)
(* to blame, and meets the right one before the tries run out.              *)
THEOREM ReadsGetThrough ==
    ASSUME SdEnoughRetries
    PROVE  Spec => []RetriesSuffice
<1>1. Sd!SdCardAssumption
  BY MediaAssumption DEF MediaAssumption
<1>2. Init => SdInv
  BY <1>1, SdInitInv DEF Init
<1>3. SdInv /\ [Next]_vars => SdInv'
  BY <1>1, SdNextInv, SdSteps
<1>4. SdInv => RetriesSuffice
  BY <1>1, SdEnoughRetries DEF SdInv, SdCore, SdSufficient, RetriesSuffice
<1> QED BY <1>2, <1>3, <1>4, PTL DEF Spec

-----------------------------------------------------------------------------
(* The drivers as one block device                                          *)

Stored == 1 .. Reads \cup SpiPages \cup ParaPages

(* What a driver may do, said of the block device they all are.             *)
Moves ==
    \/ UNCHANGED <<Phase, Asked, Found, Sure>>
    \/ /\ Found' \in Stored \cup {Nothing} /\ Sure' \in BOOLEAN
       /\ \/ Phase \in {"idle", "good", "failed"} /\ Phase' = "reading" /\ Asked' \in Stored
          \/ /\ Phase = "reading" /\ Phase' \in {"reading", "good", "failed"} /\ Asked' = Asked
             /\ Phase' = "good" /\ Sure' => Found' = Asked'
          \/ Phase = "idle" /\ Phase' = "failed" /\ Asked' = Asked
          \/ /\ Phase = "failed" \/ (Phase = "good" /\ ~Sure)
             /\ Phase' = Phase /\ Asked' = Asked /\ Sure' = Sure

LEMMA MovesAreSteps ==
    ASSUME Moves
    PROVE  [Device!Next]_(Device!vars)
<1>1. CASE UNCHANGED <<Phase, Asked, Found, Sure>>
  BY <1>1 DEF Device!vars
<1>2. ASSUME Found' \in Stored \cup {Nothing}, Sure' \in BOOLEAN PROVE Device!Unsettled
  BY <1>2 DEF Device!Unsettled, Stored
<1>3. ASSUME Device!Unsettled, Phase \in {"idle", "good", "failed"}, Phase' = "reading", Asked' \in Stored
      PROVE  Device!Next
  BY <1>3 DEF Device!Next, Device!Start, Stored
<1>4. ASSUME Device!Unsettled, Phase = "reading", Phase' \in {"reading", "good", "failed"}, Asked' = Asked,
             Phase' = "good" /\ Sure' => Found' = Asked'
      PROVE  Device!Next
  <2>1. CASE Phase' = "reading"
    BY <1>4, <2>1 DEF Device!Next, Device!Work
  <2>2. CASE Phase' = "good"
    BY <1>4, <2>2 DEF Device!Next, Device!Succeed
  <2>3. CASE Phase' = "failed"
    BY <1>4, <2>3 DEF Device!Next, Device!Fail
  <2> QED BY <1>4, <2>1, <2>2, <2>3
<1>5. ASSUME Device!Unsettled, Phase = "idle", Phase' = "failed", Asked' = Asked PROVE Device!Next
  BY <1>5 DEF Device!Next, Device!Fail
<1>6. ASSUME Found' \in Stored \cup {Nothing}, Phase = "failed" \/ (Phase = "good" /\ ~Sure),
             Phase' = Phase, Asked' = Asked, Sure' = Sure
      PROVE  Device!Next
  BY <1>6 DEF Device!Next, Device!Disturb, Stored
<1> QED BY <1>1, <1>2, <1>3, <1>4, <1>5, <1>6 DEF Moves

(* SD and eMMC.                                                             *)
LEMMA SdMoves ==
    ASSUME MediaAssumption, SdInv, SdInv', [Next]_vars, medium = "sd"
    PROVE  Moves
<1>1. medium' = "sd"
  BY DEF Next, vars, SdStep, SpiStep, ParaStep, EnumStep, BotStep, MscStep
<1>2. SdDevMoves
  BY SdSteps, SdDevStep DEF MediaAssumption
<1>3. Phase = SdDevPhase /\ Phase' = SdDevPhase'
  BY <1>1 DEF Phase, SdDevPhase
<1>4. Asked = sdSector /\ Asked' = sdSector'
  BY <1>1 DEF Asked
<1>5. Found = SdDevFound /\ Found' = SdDevFound'
  BY <1>1 DEF Found, SdDevFound, Nothing
<1>6. Sure = SdDevSure /\ Sure' = SdDevSure'
  BY <1>1, <1>3 DEF Sure, SdDevSure, SdIdentified
<1>7. Sure' \in BOOLEAN
  BY <1>6 DEF SdDevSure, SdIdentified
<1>8. {0} \cup 1 .. Reads \subseteq Stored \cup {Nothing} /\ 1 .. Reads \subseteq Stored
  BY DEF Stored, Nothing
<1> QED BY <1>2, <1>3, <1>4, <1>5, <1>6, <1>7, <1>8 DEF Moves, SdDevMoves

(* SPI NAND.                                                                *)
LEMMA SpiMoves ==
    ASSUME MediaAssumption, SpiInv, SpiInv', [Next]_vars, medium = "spi"
    PROVE  Moves
<1>1. medium' = "spi"
  BY DEF Next, vars, SdStep, SpiStep, ParaStep, EnumStep, BotStep, MscStep
<1>2. SpiDevMoves
  BY SpiSteps, SpiDevStep DEF MediaAssumption
<1>3. Phase = SpiDevPhase /\ Phase' = SpiDevPhase'
  BY <1>1 DEF Phase, SpiDevPhase, Ended, Nothing, Spi!None
<1>4. Asked = spiRow /\ Asked' = spiRow'
  BY <1>1 DEF Asked
<1>5. Found = SpiDevFound /\ Found' = SpiDevFound'
  BY <1>1 DEF Found, SpiDevFound, Nothing, Spi!None
<1>6. Sure = SpiDevSure /\ Sure' = SpiDevSure'
  BY <1>1, <1>3 DEF Sure, SpiDevSure
<1>7. Sure' \in BOOLEAN
  BY <1>6 DEF SpiDevSure
<1>8. SpiHeld \subseteq Stored \cup {Nothing} /\ SpiPages \subseteq Stored
  BY DEF Stored, SpiHeld, Nothing, Spi!None
<1> QED BY <1>2, <1>3, <1>4, <1>5, <1>6, <1>7, <1>8 DEF Moves, SpiDevMoves

(* Parallel NAND.                                                           *)
LEMMA ParaMoves ==
    ASSUME MediaAssumption, ParaInv, ParaInv', [Next]_vars, medium = "para"
    PROVE  Moves
<1>1. medium' = "para"
  BY DEF Next, vars, SdStep, SpiStep, ParaStep, EnumStep, BotStep, MscStep
<1>2. ParaDevMoves
  BY ParaSteps, ParaDevStep DEF MediaAssumption
<1>3. Phase = ParaDevPhase /\ Phase' = ParaDevPhase'
  BY <1>1 DEF Phase, ParaDevPhase, ParaDevEnded, Ended, Nothing, Para!None
<1>4. Asked = ParaDevAsked /\ Asked' = ParaDevAsked'
  BY <1>1 DEF Asked, ParaDevAsked, Nothing, Para!None
<1>5. Found = ParaDevFound /\ Found' = ParaDevFound'
  BY <1>1 DEF Found, ParaDevFound, Nothing, Para!None
<1>6. Sure = ParaDevSure /\ Sure' = ParaDevSure'
  BY <1>1, <1>3 DEF Sure, ParaDevSure
<1>7. Sure' \in BOOLEAN
  BY <1>6 DEF ParaDevSure
<1>8. ParaPages \cup {Para!None} \subseteq Stored \cup {Nothing} /\ ParaPages \subseteq Stored
  BY DEF Stored, Nothing, Para!None
<1> QED BY <1>2, <1>3, <1>4, <1>5, <1>6, <1>7, <1>8 DEF Moves, ParaDevMoves

(* A disk at the USB 2 host.                                                *)
LEMMA BotMoves ==
    ASSUME MediaAssumption, BotInv, BotInv', [Next]_vars, medium = "ehci storage"
    PROVE  Moves
<1>1. medium' = "ehci storage"
  BY DEF Next, vars, SdStep, SpiStep, ParaStep, EnumStep, BotStep, MscStep
<1>2. BotDevMoves
  BY BotSteps, BotDevStep DEF MediaAssumption
<1>3. Phase = BotDevPhase /\ Phase' = BotDevPhase'
  BY <1>1 DEF Phase, BotDevPhase
<1>4. Asked = BotDevAsked /\ Asked' = BotDevAsked'
  BY <1>1 DEF Asked, BotDevAsked
<1>5. Found = BotDevFound /\ Found' = BotDevFound'
  BY <1>1 DEF Found, BotDevFound, Nothing
<1>6. Sure = BotDevSure /\ Sure' = BotDevSure'
  BY <1>1 DEF Sure, BotDevSure
<1>7. Sure' \in BOOLEAN
  BY <1>6 DEF BotDevSure
<1>8. {0} \cup 1 .. Reads \subseteq Stored \cup {Nothing} /\ 1 .. Reads \subseteq Stored
  BY DEF Stored, Nothing
<1>9. CASE UNCHANGED <<BotDevPhase, BotDevAsked, BotDevFound, BotDevSure>>
  BY <1>3, <1>4, <1>5, <1>6, <1>9 DEF Moves
<1>10. CASE ~UNCHANGED <<BotDevPhase, BotDevAsked, BotDevFound, BotDevSure>>
  <2>1. BotDevFound' \in {0} \cup 1 .. Reads
    BY <1>2, <1>10 DEF BotDevMoves
  <2>2. Found' \in Stored \cup {Nothing}
    BY <2>1, <1>5, <1>8
  <2>3. CASE BotDevPhase \in {"idle", "good", "failed"} /\ BotDevPhase' = "reading" /\ BotDevAsked' \in 1 .. Reads
    BY <1>3, <1>4, <1>7, <1>8, <2>2, <2>3 DEF Moves
  <2>4. CASE /\ BotDevPhase = "reading" /\ BotDevPhase' \in {"reading", "good", "failed"} /\ BotDevAsked' = BotDevAsked
             /\ BotDevPhase' = "good" /\ BotDevSure' => BotDevFound' = BotDevAsked'
    BY <1>3, <1>4, <1>5, <1>6, <1>7, <2>2, <2>4 DEF Moves
  <2>5. CASE BotDevPhase = "idle" /\ BotDevPhase' = "failed" /\ BotDevAsked' = BotDevAsked
    BY <1>3, <1>4, <1>7, <2>2, <2>5 DEF Moves
  <2> QED BY <1>2, <1>10, <2>3, <2>4, <2>5 DEF BotDevMoves
<1> QED BY <1>9, <1>10

(* What reads no blocks stays idle.                                         *)
LEMMA OtherMoves ==
    ASSUME [Next]_vars, medium \in {"ehci enum", "xhci storage"}
    PROVE  Moves
<1>1. medium' \in {"ehci enum", "xhci storage"}
  BY DEF Next, vars, SdStep, SpiStep, ParaStep, EnumStep, BotStep, MscStep
<1>2. Phase = "idle" /\ Phase' = "idle"
  BY <1>1 DEF Phase
<1>3. Asked = Nothing /\ Asked' = Nothing /\ Found = Nothing /\ Found' = Nothing
  BY <1>1 DEF Asked, Found, Nothing
<1>4. Sure = TRUE /\ Sure' = TRUE
  BY <1>1 DEF Sure
<1> QED BY <1>2, <1>3, <1>4 DEF Moves

LEMMA DeviceInit ==
    ASSUME MediaAssumption, Init
    PROVE  Device!Init
<1>1. medium \in Drivers
  BY DEF Init, MediaAssumption
<1>2. ASSUME Phase = "idle", Asked \in Stored \cup {Nothing}, Found = Nothing, Sure = TRUE PROVE Device!Init
  BY <1>2 DEF Device!Init, Stored
<1>3. CASE medium = "sd"
  <2>1. sdPc = "chip" /\ sdSector = 1 /\ sdData < 0 /\ 1 \in 1 .. Reads
    <3>1. sdPc = "chip" /\ sdSector = 1
      BY DEF Init, Sd!Init
    <3>2. sdData = Sd!NoData
      BY DEF Init, Sd!Init
    <3>3. Sd!NoData < 0
      BY DEF Sd!NoData
    <3>4. Reads \in Nat \ {0}
      BY DEF MediaAssumption, Sd!SdCardAssumption
    <3>5. 1 \in 1 .. Reads
      BY <3>4
    <3> QED BY <3>1, <3>2, <3>3, <3>5
  <2>2. Phase = "idle"
    BY <1>3, <2>1 DEF Phase
  <2>3. Asked \in Stored \cup {Nothing}
    BY <1>3, <2>1 DEF Asked, Stored
  <2>4. Found = Nothing
    BY <1>3, <2>1 DEF Found, Nothing
  <2>5. Sure = TRUE
    BY <1>3, <2>2 DEF Sure
  <2> QED BY <1>2, <2>2, <2>3, <2>4, <2>5
<1>4. CASE medium = "spi"
  <2>1. /\ spiPc = "reset" /\ spiRow = 0 /\ spiResult = "none" /\ spiSlot \in Slots
        /\ spiMem = [s \in Slots |-> [data |-> 0, parity |-> 0]]
    BY DEF Init, Spi!Init, Spi!None
  <2>2. Phase = "idle"
    BY <1>4, <2>1 DEF Phase, Ended, Nothing
  <2>3. Asked \in Stored \cup {Nothing}
    BY <1>4, <2>1 DEF Asked, Nothing
  <2>4. Found = Nothing
    <3>1. spiMem[spiSlot] = [data |-> 0, parity |-> 0]
      BY <2>1
    <3>2. Found = IF 0 \notin SpiWeak THEN 0 ELSE 0
      BY <1>4, <3>1 DEF Found, Nothing
    <3> QED BY <3>2 DEF Nothing
  <2>5. Sure = TRUE
    BY <1>4, <2>2 DEF Sure
  <2> QED BY <1>2, <2>2, <2>3, <2>4, <2>5
<1>5. CASE medium = "para"
  <2>1. paraRow = 0 /\ paraBuf = 0 /\ paraResult = "none"
    BY DEF Init, Para!Init, Para!None
  <2>2. Phase = "idle"
    BY <1>5, <2>1 DEF Phase, Ended, Nothing
  <2>3. Asked \in Stored \cup {Nothing}
    BY <1>5, <2>1 DEF Asked, Nothing
  <2>4. Found = Nothing
    BY <1>5, <2>1 DEF Found, Nothing
  <2>5. Sure = TRUE
    BY <1>5, <2>2 DEF Sure
  <2> QED BY <1>2, <2>2, <2>3, <2>4, <2>5
<1>6. CASE medium = "ehci storage"
  <2>1. /\ botPc = "command" /\ botLeft = Reads /\ botJob = "test" /\ botTries = 0 /\ botPassed = FALSE
        /\ botStale = FALSE /\ botCut = FALSE /\ Reads \in Nat /\ TestTries \in Nat \ {0}
    BY DEF Init, Bot!Init, MediaAssumption, Bot!EhciMscAssumption
  <2>6. botTries < TestTries /\ Reads - botLeft = 0
    BY <2>1
  <2>7. botPc # "reset" /\ botLeft = Reads /\ botJob # "read"
    BY <2>1
  <2>2. Phase = "idle"
    BY <1>6, <2>6, <2>7 DEF Phase
  <2>3. Asked = 0
    BY <1>6, <2>6 DEF Asked
  <2>4. Found = Nothing
    BY <1>6, <2>1 DEF Found
  <2>5. Sure = TRUE
    BY <1>6, <2>1 DEF Sure
  <2> QED BY <1>2, <2>2, <2>3, <2>4, <2>5 DEF Nothing
<1>7. CASE medium \in {"ehci enum", "xhci storage"}
  <2>1. Phase = "idle"
    BY <1>7 DEF Phase
  <2>2. Asked = Nothing /\ Found = Nothing
    BY <1>7 DEF Asked, Found
  <2>3. Sure = TRUE
    BY <1>7 DEF Sure
  <2> QED BY <1>2, <2>1, <2>2, <2>3
<1> QED BY <1>1, <1>3, <1>4, <1>5, <1>6, <1>7 DEF Drivers

DriversInv == medium \in Drivers /\ SdInv /\ SpiInv /\ ParaInv /\ BotInv

(* ReadSDSector, SPINANDReadNANDPage_1K60, PNANDReadNANDPage_1K60 and       *)
(* usb2_readSector are the block device the loaders take them for: a read   *)
(* that reports success has left the block asked for in memory, if nothing  *)
(* of an earlier one was left over, no CMD0 failed while the card was       *)
(* identified, and the disk sent the whole block.                           *)
THEOREM DriversAreDevices ==
    ASSUME BotLongSectorsEven
    PROVE  Spec => ImplementsDevice
<1>1. /\ Sd!SdCardAssumption /\ Spi!SpiNandAssumption /\ Para!ParaNandAssumption /\ Bot!EhciMscAssumption
      /\ MediaTypes \subseteq Drivers
  BY MediaAssumption DEF MediaAssumption
<1>2. Init => DriversInv
  BY <1>1, SdInitInv, SpiInitInv, ParaInitInv, BotInitInv DEF Init, DriversInv
<1>3. DriversInv /\ [Next]_vars => DriversInv'
  <2> SUFFICES ASSUME DriversInv, [Next]_vars PROVE DriversInv'
    OBVIOUS
  <2>1. medium' \in Drivers
    BY DEF DriversInv, Next, vars, SdStep, SpiStep, ParaStep, EnumStep, BotStep, MscStep
  <2>2. SdInv'
    BY <1>1, SdSteps, SdNextInv DEF DriversInv
  <2>3. SpiInv'
    BY <1>1, SpiSteps, SpiNextInv DEF DriversInv
  <2>4. ParaInv'
    BY <1>1, ParaSteps, ParaNextInv DEF DriversInv
  <2>5. BotInv'
    BY <1>1, BotSteps, BotNextInv DEF DriversInv
  <2> QED BY <2>1, <2>2, <2>3, <2>4, <2>5 DEF DriversInv
<1>4. Init => Device!Init
  BY DeviceInit, MediaAssumption
<1>5. DriversInv /\ DriversInv' /\ [Next]_vars => [Device!Next]_(Device!vars)
  <2> SUFFICES ASSUME DriversInv, DriversInv', [Next]_vars PROVE Moves
    BY MovesAreSteps
  <2>1. CASE medium = "sd"
    BY <2>1, SdMoves, MediaAssumption DEF DriversInv
  <2>2. CASE medium = "spi"
    BY <2>2, SpiMoves, MediaAssumption DEF DriversInv
  <2>3. CASE medium = "para"
    BY <2>3, ParaMoves, MediaAssumption DEF DriversInv
  <2>4. CASE medium = "ehci storage"
    BY <2>4, BotMoves, MediaAssumption DEF DriversInv
  <2>5. CASE medium \in {"ehci enum", "xhci storage"}
    BY <2>5, OtherMoves
  <2> QED BY <2>1, <2>2, <2>3, <2>4, <2>5 DEF DriversInv, Drivers
<1> QED BY <1>2, <1>3, <1>4, <1>5, PTL DEF Spec, ImplementsDevice, Device!Spec
=============================================================================
