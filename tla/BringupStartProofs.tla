-------------------- MODULE BringupStartProofs --------------------
(***************************************************************************)
(* Proofs about cores, signatures, voltage, firmware and shell in Bringup,  *)
(* for every value of their constants.                                      *)
(* Each part has its invariant, and its steps are those of Bringup or leave *)
(* its variables alone.                                                     *)
(***************************************************************************)
EXTENDS Bringup, Sequences, TLAPS

-----------------------------------------------------------------------------
(* CpuWake                                                                  *)
CpuTwo == cpuPlat \in {"q628", "i143"}
CpuFour == cpuPlat \in Cpu!Cold \cup {"warm"}
CpuRiscv == {Cpu!Boss} \cup Harts

CpuPcsOfB == {"start", "xboot", "next set", "woke A", "wait B", "spin", "taken", "run"}
CpuHartPcs == {"start", "spin", "taken", "run"}
CpuPcsOfA == {"reset", "rom", "abio", "run", "done"}
CpuPcsOfBoss == {"xboot", "close", "copy", "vectors", "warm reset", "clear", "wake", "bl31", "run"}
CpuPcsOfSmp == {"rom", "warm reset", "bl31", "run"}
CpuAllPcs == CpuPcsOfB \cup CpuPcsOfA \cup CpuPcsOfBoss \cup CpuPcsOfSmp \cup {"off"}

CpuValues == Cpu!Addresses \cup {Cpu!INITIAL, "0"}

CpuTypeInv ==
    /\ cpuPlat \in Cpu!AllPlatforms /\ cpuBoth \in BOOLEAN
    /\ cpuPc \in [Cpu!Cores -> CpuAllPcs] /\ cpuRan \in [Cpu!Cores -> CpuValues] /\ cpuT1 \in [Cpu!Cores -> CpuValues]
    /\ cpuWord \in [{"A", "B", "next", "mail"} -> CpuValues]
    /\ cpuPos \in [{Cpu!Boss} \cup Cpu!Smp -> {Cpu!INITIAL, Cpu!A64, Cpu!ForA, Cpu!Saved}]
    /\ cpuVector \in [{Cpu!Boss} \cup Cpu!Smp -> {"junk", "old", "a64"}]
    /\ cpuPlat = "q628" => cpuBoth
    /\ cpuPlat \notin Cpu!Cold => cpuTable = "whole"

(* B and A: A is woken only when there is something for it to run, and it   *)
(* hands B an address only when B has cleared the place for it.             *)
CpuWakeInv ==
    /\ cpuPc[Cpu!Boss] \in CpuPcsOfB /\ cpuPc[Cpu!A] \in CpuPcsOfA
    /\ cpuPlat = "q628" => cpuPc[Cpu!Boss] \notin {"start", "spin", "taken"}
    /\ cpuPc[Cpu!Boss] \in {"next set", "woke A", "wait B"} => cpuBoth
    /\ cpuBoth /\ cpuPc[Cpu!Boss] \notin {"start", "xboot"} => cpuWord["next"] = Cpu!ForA
    /\ cpuWord["A"] = "boot_next_no_stack" => cpuBoth /\ cpuPc[Cpu!Boss] \notin {"start", "xboot", "next set"}
    /\ cpuPlat = "i143" /\ cpuPc[Cpu!A] = "reset" => cpuWord["A"] = "junk"
    /\ cpuPlat = "q628" \/ cpuPc[Cpu!A] # "reset" => cpuWord["A"] \in {Cpu!INITIAL, "boot_next_no_stack"}
    /\ cpuPc[Cpu!A] \in {"abio", "run", "done"} => cpuWord["A"] = "boot_next_no_stack"
    /\ cpuPc[Cpu!A] \in {"run", "done"} => cpuPc[Cpu!Boss] # "woke A" /\ cpuRan[Cpu!A] = Cpu!ForA
    /\ cpuPc[Cpu!A] \notin {"run", "done"} => cpuRan[Cpu!A] = "none"
    /\ cpuPc[Cpu!Boss] = "wait B" => cpuWord["B"] \in {Cpu!INITIAL, Cpu!TargetOfB}
    /\ cpuRan[Cpu!Boss] \in {"none", Cpu!TargetOfB}

(* The harts' mailbox: nothing but the address goes round, as all harts     *)
(* have emptied it before that is put in.                                   *)
CpuMailInv ==
    /\ \A h \in CpuRiscv : cpuPc[h] \in CpuPcsOfB /\ (h # Cpu!Boss => cpuPc[h] \in CpuHartPcs)
    /\ cpuPc[Cpu!Boss] \notin {"start", "xboot"} => \A h \in Harts : cpuPc[h] # "start"
    /\ \A h \in CpuRiscv : cpuPc[h] # "start" => cpuWord["mail"] \in {"0", Cpu!TargetOfB}
    /\ \A h \in CpuRiscv : cpuPc[h] = "taken" => cpuT1[h] = Cpu!TargetOfB
    /\ \A h \in CpuRiscv : cpuRan[h] \in {"none", Cpu!TargetOfB}

(* The four CA55: a core leaves the boot ROM only when its vector and the   *)
(* code there are set.                                                      *)
CpuLate == {"warm reset", "clear", "wake", "bl31", "run"}
CpuSmpInv ==
    /\ cpuPc[Cpu!Boss] \in CpuPcsOfBoss /\ \A c \in Cpu!Smp : cpuPc[c] \in CpuPcsOfSmp
    /\ cpuTable = "whole" /\ (cpuPlat = "warm" \/ cpuPc[Cpu!Boss] # "xboot") => "bl31" \in cpuCode
    /\ cpuPlat # "q645" /\ cpuPc[Cpu!Boss] \notin {"xboot", "close"} => cpuClosed
    /\ cpuPc[Cpu!Boss] = "close" => cpuPlat \in Cpu!Cold
    /\ cpuPc[Cpu!Boss] \in CpuLate \cup {"vectors"} => "a64" \in cpuCode
    /\ cpuPc[Cpu!Boss] \in CpuLate => \A c \in {Cpu!Boss} \cup Cpu!Smp : cpuVector[c] = "a64"
    /\ \A c \in Cpu!Smp : cpuPos[c] = Cpu!A64 \/ cpuPc[c] # "rom" => cpuPc[Cpu!Boss] \in CpuLate
    /\ \A c \in {Cpu!Boss} \cup Cpu!Smp : cpuRan[c] # "none" => cpuPc[Cpu!Boss] \in CpuLate /\ (cpuTable = "whole" => cpuRan[c] = "bl31")

CpuInv ==
    /\ CpuTypeInv
    /\ CpuTwo => CpuWakeInv
    /\ cpuPlat = "i143" => CpuMailInv
    /\ CpuFour => CpuSmpInv

-----------------------------------------------------------------------------
LEMMA CpuCoresApart ==
    ASSUME Cpu!CpuWakeAssumption
    PROVE  /\ Cpu!A # Cpu!Boss /\ Cpu!A \notin Harts /\ Cpu!Boss \notin Harts /\ Cpu!Boss \notin Cpu!Smp /\ Cpu!A \notin Cpu!Smp
           /\ {Cpu!A, Cpu!Boss} \cup Cpu!Smp \cup Harts \subseteq Cpu!Cores
           /\ Cpu!AllPlatforms = {"q628", "i143", "warm"} \cup Cpu!Cold
BY DEF Cpu!CpuWakeAssumption, Cpu!A, Cpu!Boss, Cpu!Smp, Cpu!Cores, Cpu!AllPlatforms

LEMMA CpuUsedIs ==
    ASSUME cpuPlat \in Cpu!AllPlatforms
    PROVE  /\ cpuPlat = "q628" => Cpu!Used = {Cpu!A, Cpu!Boss}
           /\ cpuPlat = "i143" => Cpu!Used = {Cpu!A, Cpu!Boss} \cup Harts
           /\ CpuFour => Cpu!Used = {Cpu!Boss} \cup Cpu!Smp
BY DEF Cpu!AllPlatforms, Cpu!Used, CpuFour, Cpu!Cold

LEMMA CpuInitInv ==
    ASSUME Cpu!CpuWakeAssumption, Cpu!Init
    PROVE  CpuInv
<1>0. cpuPlat \in Cpu!AllPlatforms
  BY DEF Cpu!Init, Cpu!CpuWakeAssumption
<1>1. /\ cpuPc[Cpu!A] = "reset" /\ cpuPc[Cpu!Boss] = IF cpuPlat = "i143" THEN "start" ELSE "xboot"
      /\ cpuPlat = "i143" => \A h \in Harts : cpuPc[h] = "start"
      /\ CpuFour => \A c \in Cpu!Smp : cpuPc[c] = "rom"
      /\ cpuPc \in [Cpu!Cores -> CpuAllPcs]
  <2>1. \A c \in Cpu!Cores : cpuPc[c] = CASE c = Cpu!A -> "reset"
                               [] c \in Harts /\ cpuPlat = "i143" -> "start"
                               [] c \in Cpu!Smp /\ cpuPlat \in Cpu!Cold \cup {"warm"} -> "rom"
                               [] c = Cpu!Boss -> IF cpuPlat = "i143" THEN "start" ELSE "xboot"
                               [] OTHER -> "off"
    BY DEF Cpu!Init
  <2>2. cpuPc[Cpu!A] = "reset"
    BY <2>1, CpuCoresApart
  <2>3. cpuPc[Cpu!Boss] = IF cpuPlat = "i143" THEN "start" ELSE "xboot"
    BY <2>1, CpuCoresApart
  <2>4. cpuPlat = "i143" => \A h \in Harts : cpuPc[h] = "start"
    BY <2>1, CpuCoresApart DEF Cpu!Cold
  <2>5. CpuFour => \A c \in Cpu!Smp : cpuPc[c] = "rom"
    BY <2>1, CpuCoresApart DEF CpuFour
  <2>6. \A c \in Cpu!Cores : cpuPc[c] \in CpuAllPcs
    BY <2>1 DEF CpuAllPcs, CpuPcsOfA, CpuPcsOfB, CpuPcsOfSmp
  <2>7. cpuPc = [c \in Cpu!Cores |-> cpuPc[c]]
    BY DEF Cpu!Init
  <2> QED BY <2>2, <2>3, <2>4, <2>5, <2>6, <2>7
<1>2. /\ \A c \in Cpu!Cores : cpuRan[c] = "none" /\ cpuT1[c] = "0"
      /\ cpuRan \in [Cpu!Cores -> CpuValues] /\ cpuT1 \in [Cpu!Cores -> CpuValues]
  BY DEF Cpu!Init, CpuValues, Cpu!Addresses
<1>3. /\ cpuWord \in [{"A", "B", "next", "mail"} -> CpuValues]
      /\ cpuWord["A"] = IF cpuPlat = "q628" THEN Cpu!INITIAL ELSE "junk"
  BY DEF Cpu!Init, CpuValues, Cpu!Addresses
<1>4. /\ cpuPos \in [{Cpu!Boss} \cup Cpu!Smp -> {Cpu!INITIAL, Cpu!A64, Cpu!ForA, Cpu!Saved}]
      /\ cpuVector \in [{Cpu!Boss} \cup Cpu!Smp -> {"junk", "old", "a64"}]
      /\ \A c \in Cpu!Smp : cpuPos[c] # Cpu!A64
  BY DEF Cpu!Init, Cpu!INITIAL, Cpu!A64
<1>5. CpuTypeInv
  BY <1>0, <1>1, <1>2, <1>3, <1>4 DEF Cpu!Init, CpuTypeInv
<1>6. CpuTwo => CpuWakeInv
  BY <1>1, <1>2, <1>3, CpuCoresApart DEF CpuTwo, CpuWakeInv, CpuPcsOfA, CpuPcsOfB, Cpu!INITIAL
<1>7. cpuPlat = "i143" => CpuMailInv
  BY <1>1, <1>2, CpuCoresApart DEF CpuMailInv, CpuRiscv, CpuPcsOfB, CpuHartPcs
<1>8. CpuFour => CpuSmpInv
  BY <1>1, <1>2, <1>4, CpuCoresApart DEF CpuFour, CpuSmpInv, CpuPcsOfBoss, CpuPcsOfSmp, CpuLate,
     Cpu!Init, Cpu!Cold
<1> QED BY <1>5, <1>6, <1>7, <1>8 DEF CpuInv

(* What a step of one core can change: its own place and what it stores.    *)
LEMMA CpuOneCore ==
    ASSUME CpuTypeInv, NEW c \in Cpu!Cores, NEW there, cpuPc' = [cpuPc EXCEPT ![c] = there]
    PROVE  cpuPc'[c] = there /\ \A d \in Cpu!Cores \ {c} : cpuPc'[d] = cpuPc[d]
BY DEF CpuTypeInv
(* Steps by platform: where another platform's core would be, none is.      *)
LEMMA CpuPlaces ==
    ASSUME Cpu!CpuWakeAssumption, CpuInv
    PROVE  /\ CpuTwo \/ CpuFour
           /\ CpuFour => ~CpuTwo /\ cpuPlat # "i143"
           /\ \A c \in Cpu!Used : c \in Cpu!Cores
           /\ cpuPlat = "q628" => /\ \A c \in Cpu!Used : c = Cpu!A \/ c = Cpu!Boss
                                  /\ \A c \in Cpu!Used : cpuPc[c] \notin {"start", "spin", "taken", "warm reset", "bl31"}
           /\ cpuPlat = "i143" => /\ \A c \in Cpu!Used : c = Cpu!A \/ c \in CpuRiscv
                                  /\ \A c \in Cpu!Used : cpuPc[c] \notin {"warm reset", "bl31"}
                                  /\ \A c \in CpuRiscv : cpuPc[c] # "rom"
           /\ CpuFour => /\ \A c \in Cpu!Used : c = Cpu!Boss \/ c \in Cpu!Smp
                         /\ \A c \in Cpu!Used : cpuPc[c] \notin {"start", "spin", "taken"}
<1>1. cpuPlat \in Cpu!AllPlatforms
  BY DEF CpuInv, CpuTypeInv
<1>2. CpuTwo \/ CpuFour
  BY <1>1 DEF CpuTwo, CpuFour, Cpu!AllPlatforms
<1>3. CpuFour => ~CpuTwo /\ cpuPlat # "i143"
  BY DEF CpuTwo, CpuFour, Cpu!Cold
<1>4. \A c \in Cpu!Used : c \in Cpu!Cores
  BY <1>1, <1>2, CpuUsedIs, CpuCoresApart DEF CpuTwo, CpuFour
<1>5. ASSUME cpuPlat = "q628"
      PROVE  /\ \A c \in Cpu!Used : c = Cpu!A \/ c = Cpu!Boss
             /\ \A c \in Cpu!Used : cpuPc[c] \notin {"start", "spin", "taken", "warm reset", "bl31"}
  BY <1>1, <1>5, CpuUsedIs DEF CpuInv, CpuTwo, CpuWakeInv, CpuPcsOfA, CpuPcsOfB
<1>6. ASSUME cpuPlat = "i143"
      PROVE  /\ \A c \in Cpu!Used : c = Cpu!A \/ c \in CpuRiscv
             /\ \A c \in Cpu!Used : cpuPc[c] \notin {"warm reset", "bl31"}
             /\ \A c \in CpuRiscv : cpuPc[c] # "rom"
  <2>1. \A c \in Cpu!Used : c = Cpu!A \/ c \in CpuRiscv
    BY <1>1, <1>6, CpuUsedIs DEF CpuRiscv
  <2>2. cpuPc[Cpu!A] \in CpuPcsOfA
    BY <1>6 DEF CpuInv, CpuTwo, CpuWakeInv
  <2>3. \A h \in CpuRiscv : cpuPc[h] \in {"start", "xboot", "next set", "woke A", "wait B", "spin", "taken", "run"}
    BY <1>6 DEF CpuInv, CpuMailInv, CpuPcsOfB, CpuHartPcs
  <2> QED BY <2>1, <2>2, <2>3 DEF CpuPcsOfA
<1>7. ASSUME CpuFour
      PROVE  /\ \A c \in Cpu!Used : c = Cpu!Boss \/ c \in Cpu!Smp
             /\ \A c \in Cpu!Used : cpuPc[c] \notin {"start", "spin", "taken"}
  BY <1>1, <1>7, CpuUsedIs DEF CpuInv, CpuSmpInv, CpuPcsOfBoss, CpuPcsOfSmp
<1> QED BY <1>2, <1>3, <1>4, <1>5, <1>6, <1>7

(* A step that one hart takes keeps the mailbox clean.                      *)
LEMMA CpuHartStep ==
    ASSUME Cpu!CpuWakeAssumption, CpuMailInv, NEW h \in CpuRiscv,
           \A g \in CpuRiscv \ {h} : cpuPc'[g] = cpuPc[g] /\ cpuT1'[g] = cpuT1[g] /\ cpuRan'[g] = cpuRan[g],
           cpuPc'[h] # "start",
           cpuPc'[h] \in CpuPcsOfB, h # Cpu!Boss => cpuPc'[h] \in CpuHartPcs,
           cpuPc'[h] = "taken" => cpuT1'[h] = Cpu!TargetOfB,
           cpuRan'[h] \in {"none", Cpu!TargetOfB},
           cpuWord'["mail"] \in {"0", Cpu!TargetOfB},
           cpuPc'[Cpu!Boss] \notin {"start", "xboot"} => \A g \in Harts : cpuPc[g] # "start"
    PROVE  CpuMailInv'
<1>0. Cpu!Boss \in CpuRiscv /\ Harts \subseteq CpuRiscv
  BY DEF CpuRiscv
<1>1. \A g \in CpuRiscv : cpuPc'[g] \in CpuPcsOfB /\ (g # Cpu!Boss => cpuPc'[g] \in CpuHartPcs)
  <2> TAKE g \in CpuRiscv
  <2>1. CASE g = h
    BY <2>1
  <2>2. CASE g # h
    BY <2>2 DEF CpuMailInv
  <2> QED BY <2>1, <2>2
<1>2. cpuPc'[Cpu!Boss] \notin {"start", "xboot"} => \A g \in Harts : cpuPc'[g] # "start"
  <2> SUFFICES ASSUME cpuPc'[Cpu!Boss] \notin {"start", "xboot"}, NEW g \in Harts PROVE cpuPc'[g] # "start"
    OBVIOUS
  <2>1. CASE g = h
    BY <2>1
  <2>2. CASE g # h
    BY <2>2, <1>0
  <2> QED BY <2>1, <2>2
<1>3. \A g \in CpuRiscv : cpuPc'[g] = "taken" => cpuT1'[g] = Cpu!TargetOfB
  BY DEF CpuMailInv
<1>4. \A g \in CpuRiscv : cpuRan'[g] \in {"none", Cpu!TargetOfB}
  BY DEF CpuMailInv
<1> QED BY <1>1, <1>2, <1>3, <1>4 DEF CpuMailInv

(* A step of B or A, by what it does to places, words and cores.            *)
LEMMA CpuStepOfTwo ==
    ASSUME Cpu!CpuWakeAssumption, CpuInv, CpuTwo, CpuTypeInv', UNCHANGED Cpu!fixed,
           Cpu!StepOfBoss \/ Cpu!StepOfA \/ \E c \in Cpu!Cores : Cpu!StepOf(c)
    PROVE  CpuWakeInv' /\ (cpuPlat = "i143" => CpuMailInv')
<1> USE DEF CpuInv
<1>0. /\ cpuPlat' = cpuPlat /\ cpuBoth' = cpuBoth /\ Cpu!A \in Cpu!Cores /\ Cpu!Boss \in Cpu!Cores /\ Harts \subseteq Cpu!Cores /\ CpuRiscv \subseteq Cpu!Cores
      /\ Cpu!A # Cpu!Boss /\ Cpu!A \notin CpuRiscv /\ Cpu!Boss \in CpuRiscv /\ CpuWakeInv /\ CpuTypeInv
      /\ cpuPlat = "i143" => CpuMailInv
  BY CpuCoresApart DEF Cpu!fixed, CpuRiscv
<1>1. CASE Cpu!SetNext
  <2>1. /\ cpuPc[Cpu!Boss] = "xboot" /\ Cpu!AllHartsHere /\ UNCHANGED cpuT1
        /\ \/ cpuBoth /\ cpuWord' = [cpuWord EXCEPT !["next"] = Cpu!ForA] /\ cpuPc' = [cpuPc EXCEPT ![Cpu!Boss] = "next set"] /\ UNCHANGED cpuRan
           \/ ~cpuBoth /\ Cpu!ExitBootROM(Cpu!TargetOfB)
    BY <1>1, <1>0 DEF Cpu!SetNext, Cpu!At, Cpu!Set, Cpu!Goto
  <2>2. CASE cpuBoth
    <3>1. cpuPc'[Cpu!Boss] = "next set" /\ \A d \in Cpu!Cores \ {Cpu!Boss} : cpuPc'[d] = cpuPc[d]
      BY <1>0, <2>1, <2>2, CpuOneCore
    <3>2. cpuWord'["next"] = Cpu!ForA /\ \A x \in {"A", "B", "mail"} : cpuWord'[x] = cpuWord[x]
      <4>1. cpuWord' = [cpuWord EXCEPT !["next"] = Cpu!ForA]
        BY <2>1, <2>2
      <4>2. cpuWord \in [{"A", "B", "next", "mail"} -> CpuValues]
        BY <1>0 DEF CpuTypeInv
      <4> QED BY <4>1, <4>2
    <3>3. CpuWakeInv'
      BY <1>0, <2>1, <2>2, <3>1, <3>2 DEF CpuWakeInv, CpuPcsOfB
    <3>4. cpuPlat = "i143" => CpuMailInv'
      <4> SUFFICES ASSUME cpuPlat = "i143" PROVE CpuMailInv'
        OBVIOUS
      <4>1. \A g \in CpuRiscv \ {Cpu!Boss} : cpuPc'[g] = cpuPc[g] /\ cpuT1'[g] = cpuT1[g] /\ cpuRan'[g] = cpuRan[g]
        BY <1>0, <2>1, <2>2, <3>1, <3>2
      <4>2. /\ cpuPc'[Cpu!Boss] # "start"
            /\ cpuPc'[Cpu!Boss] \in CpuPcsOfB /\ (Cpu!Boss # Cpu!Boss => cpuPc'[Cpu!Boss] \in CpuHartPcs)
            /\ cpuPc'[Cpu!Boss] = "taken" => cpuT1'[Cpu!Boss] = Cpu!TargetOfB
            /\ cpuRan'[Cpu!Boss] \in {"none", Cpu!TargetOfB}
            /\ cpuWord'["mail"] \in {"0", Cpu!TargetOfB}
        <5>1. CpuMailInv /\ Cpu!Boss \in CpuRiscv /\ cpuPc[Cpu!Boss] # "start"
          BY <1>0, <2>1, <2>2, <3>1, <3>2
        <5>2. cpuWord["mail"] \in {"0", Cpu!TargetOfB} /\ cpuRan[Cpu!Boss] \in {"none", Cpu!TargetOfB} /\ (cpuPc[Cpu!Boss] = "taken" => cpuT1[Cpu!Boss] = Cpu!TargetOfB)
          BY <5>1 DEF CpuMailInv
        <5>3. cpuPc'[Cpu!Boss] # "start" /\ cpuPc'[Cpu!Boss] \in CpuPcsOfB /\ (Cpu!Boss # Cpu!Boss => cpuPc'[Cpu!Boss] \in CpuHartPcs)
          BY <1>0, <2>1, <2>2, <3>1, <3>2 DEF CpuPcsOfB, CpuHartPcs
        <5>4. cpuPc'[Cpu!Boss] = "taken" => cpuT1'[Cpu!Boss] = Cpu!TargetOfB
          BY <1>0, <2>1, <2>2, <3>1, <3>2
        <5>5. cpuRan'[Cpu!Boss] \in {"none", Cpu!TargetOfB} /\ cpuWord'["mail"] \in {"0", Cpu!TargetOfB}
          BY <1>0, <2>1, <2>2, <3>1, <3>2, <5>2
        <5> QED BY <5>3, <5>4, <5>5
      <4>3. cpuPc'[Cpu!Boss] \notin {"start", "xboot"} => \A g \in Harts : cpuPc[g] # "start"
        BY <1>0, <2>1, <2>2, <3>1, <3>2 DEF CpuMailInv, Cpu!AllHartsHere
      <4> QED BY <1>0, <2>1, <4>1, <4>2, <4>3, CpuHartStep
    <3> QED BY <3>3, <3>4
  <2>3. CASE ~cpuBoth /\ cpuPlat = "i143"
    <3>1. cpuWord' = [cpuWord EXCEPT !["mail"] = Cpu!TargetOfB] /\ cpuPc' = [cpuPc EXCEPT ![Cpu!Boss] = "spin"] /\ UNCHANGED cpuRan
      BY <2>1, <2>3 DEF Cpu!ExitBootROM, Cpu!Set, Cpu!Goto
    <3>2. cpuPc'[Cpu!Boss] = "spin" /\ \A d \in Cpu!Cores \ {Cpu!Boss} : cpuPc'[d] = cpuPc[d]
      BY <1>0, <3>1, CpuOneCore
    <3>3. cpuWord'["mail"] = Cpu!TargetOfB /\ \A x \in {"A", "B", "next"} : cpuWord'[x] = cpuWord[x]
      BY <1>0, <3>1 DEF CpuTypeInv
    <3>4. CpuWakeInv'
      BY <1>0, <2>1, <2>3, <3>1, <3>2, <3>3 DEF CpuWakeInv, CpuPcsOfB
    <3>5. CpuMailInv'
      <4>1. \A g \in CpuRiscv \ {Cpu!Boss} : cpuPc'[g] = cpuPc[g] /\ cpuT1'[g] = cpuT1[g] /\ cpuRan'[g] = cpuRan[g]
        BY <1>0, <2>1, <2>3, <3>1, <3>2, <3>3
      <4>2. /\ cpuPc'[Cpu!Boss] # "start"
            /\ cpuPc'[Cpu!Boss] \in CpuPcsOfB /\ (Cpu!Boss # Cpu!Boss => cpuPc'[Cpu!Boss] \in CpuHartPcs)
            /\ cpuPc'[Cpu!Boss] = "taken" => cpuT1'[Cpu!Boss] = Cpu!TargetOfB
            /\ cpuRan'[Cpu!Boss] \in {"none", Cpu!TargetOfB}
            /\ cpuWord'["mail"] \in {"0", Cpu!TargetOfB}
        <5>1. CpuMailInv /\ Cpu!Boss \in CpuRiscv /\ cpuPc[Cpu!Boss] # "start"
          BY <1>0, <2>1, <2>3, <3>1, <3>2, <3>3
        <5>2. cpuWord["mail"] \in {"0", Cpu!TargetOfB} /\ cpuRan[Cpu!Boss] \in {"none", Cpu!TargetOfB} /\ (cpuPc[Cpu!Boss] = "taken" => cpuT1[Cpu!Boss] = Cpu!TargetOfB)
          BY <5>1 DEF CpuMailInv
        <5>3. cpuPc'[Cpu!Boss] # "start" /\ cpuPc'[Cpu!Boss] \in CpuPcsOfB /\ (Cpu!Boss # Cpu!Boss => cpuPc'[Cpu!Boss] \in CpuHartPcs)
          BY <1>0, <2>1, <2>3, <3>1, <3>2, <3>3 DEF CpuPcsOfB, CpuHartPcs
        <5>4. cpuPc'[Cpu!Boss] = "taken" => cpuT1'[Cpu!Boss] = Cpu!TargetOfB
          BY <1>0, <2>1, <2>3, <3>1, <3>2, <3>3
        <5>5. cpuRan'[Cpu!Boss] \in {"none", Cpu!TargetOfB} /\ cpuWord'["mail"] \in {"0", Cpu!TargetOfB}
          BY <1>0, <2>1, <2>3, <3>1, <3>2, <3>3, <5>2
        <5> QED BY <5>3, <5>4, <5>5
      <4>3. cpuPc'[Cpu!Boss] \notin {"start", "xboot"} => \A g \in Harts : cpuPc[g] # "start"
        BY <1>0, <2>1, <2>3, <3>1, <3>2, <3>3 DEF CpuMailInv, Cpu!AllHartsHere
      <4> QED BY <1>0, <2>1, <2>3, <4>1, <4>2, <4>3, CpuHartStep
    <3> QED BY <3>4, <3>5
  <2>4. ~cpuBoth => cpuPlat = "i143"
    BY <1>0 DEF CpuTypeInv, CpuTwo
  <2> QED BY <2>2, <2>3, <2>4
<1>2. CASE Cpu!WakeA
  <2>1. /\ cpuPc[Cpu!Boss] = "next set" /\ Cpu!WaitForA /\ cpuWord' = [cpuWord EXCEPT !["A"] = "boot_next_no_stack"]
        /\ cpuPc' = [cpuPc EXCEPT ![Cpu!Boss] = "woke A"] /\ UNCHANGED <<cpuT1, cpuRan>>
    BY <1>2 DEF Cpu!WakeA, Cpu!At, Cpu!Set, Cpu!Goto
  <2>2. cpuPc'[Cpu!Boss] = "woke A" /\ \A d \in Cpu!Cores \ {Cpu!Boss} : cpuPc'[d] = cpuPc[d]
    BY <1>0, <2>1, CpuOneCore
  <2>3. cpuWord'["A"] = "boot_next_no_stack" /\ \A x \in {"B", "next", "mail"} : cpuWord'[x] = cpuWord[x]
    BY <1>0, <2>1 DEF CpuTypeInv
  <2>4. cpuWord["A"] # "boot_next_no_stack" /\ cpuPc[Cpu!A] \notin {"abio", "run", "done"}
    BY <1>0, <2>1 DEF CpuWakeInv
  <2>5. cpuPlat = "i143" => cpuPc[Cpu!A] # "reset"
    BY <1>0, <2>1 DEF CpuWakeInv, Cpu!WaitForA, Cpu!INITIAL
  <2>6. CpuWakeInv'
    BY <1>0, <2>1, <2>2, <2>3, <2>4, <2>5 DEF CpuWakeInv, CpuPcsOfB
  <2>7. cpuPlat = "i143" => CpuMailInv'
    <3> SUFFICES ASSUME cpuPlat = "i143" PROVE CpuMailInv'
      OBVIOUS
    <3>1. \A g \in CpuRiscv \ {Cpu!Boss} : cpuPc'[g] = cpuPc[g] /\ cpuT1'[g] = cpuT1[g] /\ cpuRan'[g] = cpuRan[g]
      BY <1>0, <2>1, <2>2, <2>3
    <3>2. /\ cpuPc'[Cpu!Boss] # "start"
          /\ cpuPc'[Cpu!Boss] \in CpuPcsOfB /\ (Cpu!Boss # Cpu!Boss => cpuPc'[Cpu!Boss] \in CpuHartPcs)
          /\ cpuPc'[Cpu!Boss] = "taken" => cpuT1'[Cpu!Boss] = Cpu!TargetOfB
          /\ cpuRan'[Cpu!Boss] \in {"none", Cpu!TargetOfB}
          /\ cpuWord'["mail"] \in {"0", Cpu!TargetOfB}
      <4>1. CpuMailInv /\ Cpu!Boss \in CpuRiscv /\ cpuPc[Cpu!Boss] # "start"
        BY <1>0, <2>1, <2>2, <2>3
      <4>2. cpuWord["mail"] \in {"0", Cpu!TargetOfB} /\ cpuRan[Cpu!Boss] \in {"none", Cpu!TargetOfB} /\ (cpuPc[Cpu!Boss] = "taken" => cpuT1[Cpu!Boss] = Cpu!TargetOfB)
        BY <4>1 DEF CpuMailInv
      <4>3. cpuPc'[Cpu!Boss] # "start" /\ cpuPc'[Cpu!Boss] \in CpuPcsOfB /\ (Cpu!Boss # Cpu!Boss => cpuPc'[Cpu!Boss] \in CpuHartPcs)
        BY <1>0, <2>1, <2>2, <2>3 DEF CpuPcsOfB, CpuHartPcs
      <4>4. cpuPc'[Cpu!Boss] = "taken" => cpuT1'[Cpu!Boss] = Cpu!TargetOfB
        BY <1>0, <2>1, <2>2, <2>3
      <4>5. cpuRan'[Cpu!Boss] \in {"none", Cpu!TargetOfB} /\ cpuWord'["mail"] \in {"0", Cpu!TargetOfB}
        BY <1>0, <2>1, <2>2, <2>3, <4>2
      <4> QED BY <4>3, <4>4, <4>5
    <3>3. cpuPc'[Cpu!Boss] \notin {"start", "xboot"} => \A g \in Harts : cpuPc[g] # "start"
      BY <1>0, <2>1, <2>2, <2>3 DEF CpuMailInv, Cpu!AllHartsHere
    <3> QED BY <1>0, <2>1, <3>1, <3>2, <3>3, CpuHartStep
  <2> QED BY <2>6, <2>7
<1>3. CASE Cpu!ResetB
  <2>1. /\ cpuPc[Cpu!Boss] = "woke A" /\ cpuWord' = [cpuWord EXCEPT !["B"] = Cpu!INITIAL]
        /\ cpuPc' = [cpuPc EXCEPT ![Cpu!Boss] = "wait B"] /\ UNCHANGED <<cpuT1, cpuRan>>
    BY <1>3 DEF Cpu!ResetB, Cpu!At, Cpu!Set, Cpu!Goto
  <2>2. cpuPc'[Cpu!Boss] = "wait B" /\ \A d \in Cpu!Cores \ {Cpu!Boss} : cpuPc'[d] = cpuPc[d]
    BY <1>0, <2>1, CpuOneCore
  <2>3. cpuWord'["B"] = Cpu!INITIAL /\ \A x \in {"A", "next", "mail"} : cpuWord'[x] = cpuWord[x]
    BY <1>0, <2>1 DEF CpuTypeInv
  <2>4. CpuWakeInv'
    BY <1>0, <2>1, <2>2, <2>3 DEF CpuWakeInv, CpuPcsOfB
  <2>5. cpuPlat = "i143" => CpuMailInv'
    <3> SUFFICES ASSUME cpuPlat = "i143" PROVE CpuMailInv'
      OBVIOUS
    <3>1. \A g \in CpuRiscv \ {Cpu!Boss} : cpuPc'[g] = cpuPc[g] /\ cpuT1'[g] = cpuT1[g] /\ cpuRan'[g] = cpuRan[g]
      BY <1>0, <2>1, <2>2, <2>3
    <3>2. /\ cpuPc'[Cpu!Boss] # "start"
          /\ cpuPc'[Cpu!Boss] \in CpuPcsOfB /\ (Cpu!Boss # Cpu!Boss => cpuPc'[Cpu!Boss] \in CpuHartPcs)
          /\ cpuPc'[Cpu!Boss] = "taken" => cpuT1'[Cpu!Boss] = Cpu!TargetOfB
          /\ cpuRan'[Cpu!Boss] \in {"none", Cpu!TargetOfB}
          /\ cpuWord'["mail"] \in {"0", Cpu!TargetOfB}
      <4>1. CpuMailInv /\ Cpu!Boss \in CpuRiscv /\ cpuPc[Cpu!Boss] # "start"
        BY <1>0, <2>1, <2>2, <2>3
      <4>2. cpuWord["mail"] \in {"0", Cpu!TargetOfB} /\ cpuRan[Cpu!Boss] \in {"none", Cpu!TargetOfB} /\ (cpuPc[Cpu!Boss] = "taken" => cpuT1[Cpu!Boss] = Cpu!TargetOfB)
        BY <4>1 DEF CpuMailInv
      <4>3. cpuPc'[Cpu!Boss] # "start" /\ cpuPc'[Cpu!Boss] \in CpuPcsOfB /\ (Cpu!Boss # Cpu!Boss => cpuPc'[Cpu!Boss] \in CpuHartPcs)
        BY <1>0, <2>1, <2>2, <2>3 DEF CpuPcsOfB, CpuHartPcs
      <4>4. cpuPc'[Cpu!Boss] = "taken" => cpuT1'[Cpu!Boss] = Cpu!TargetOfB
        BY <1>0, <2>1, <2>2, <2>3
      <4>5. cpuRan'[Cpu!Boss] \in {"none", Cpu!TargetOfB} /\ cpuWord'["mail"] \in {"0", Cpu!TargetOfB}
        BY <1>0, <2>1, <2>2, <2>3, <4>2
      <4> QED BY <4>3, <4>4, <4>5
    <3>3. cpuPc'[Cpu!Boss] \notin {"start", "xboot"} => \A g \in Harts : cpuPc[g] # "start"
      BY <1>0, <2>1, <2>2, <2>3 DEF CpuMailInv, Cpu!AllHartsHere
    <3> QED BY <1>0, <2>1, <3>1, <3>2, <3>3, CpuHartStep
  <2> QED BY <2>4, <2>5
<1>4. CASE Cpu!FollowB
  <2>1. cpuPc[Cpu!Boss] = "wait B" /\ Cpu!ExitBootROM(Cpu!TargetOfB) /\ UNCHANGED cpuT1
    BY <1>0, <1>4 DEF Cpu!FollowB, Cpu!At, CpuWakeInv
  <2>2. CASE cpuPlat = "i143"
    <3>1. cpuWord' = [cpuWord EXCEPT !["mail"] = Cpu!TargetOfB] /\ cpuPc' = [cpuPc EXCEPT ![Cpu!Boss] = "spin"] /\ UNCHANGED cpuRan
      BY <2>1, <2>2 DEF Cpu!ExitBootROM, Cpu!Set, Cpu!Goto
    <3>2. cpuPc'[Cpu!Boss] = "spin" /\ \A d \in Cpu!Cores \ {Cpu!Boss} : cpuPc'[d] = cpuPc[d]
      BY <1>0, <3>1, CpuOneCore
    <3>3. cpuWord'["mail"] = Cpu!TargetOfB /\ \A x \in {"A", "B", "next"} : cpuWord'[x] = cpuWord[x]
      BY <1>0, <3>1 DEF CpuTypeInv
    <3>4. CpuWakeInv'
      BY <1>0, <2>1, <2>2, <3>1, <3>2, <3>3 DEF CpuWakeInv, CpuPcsOfB
    <3>5. CpuMailInv'
      <4>1. \A g \in CpuRiscv \ {Cpu!Boss} : cpuPc'[g] = cpuPc[g] /\ cpuT1'[g] = cpuT1[g] /\ cpuRan'[g] = cpuRan[g]
        BY <1>0, <2>1, <2>2, <3>1, <3>2, <3>3
      <4>2. /\ cpuPc'[Cpu!Boss] # "start"
            /\ cpuPc'[Cpu!Boss] \in CpuPcsOfB /\ (Cpu!Boss # Cpu!Boss => cpuPc'[Cpu!Boss] \in CpuHartPcs)
            /\ cpuPc'[Cpu!Boss] = "taken" => cpuT1'[Cpu!Boss] = Cpu!TargetOfB
            /\ cpuRan'[Cpu!Boss] \in {"none", Cpu!TargetOfB}
            /\ cpuWord'["mail"] \in {"0", Cpu!TargetOfB}
        <5>1. CpuMailInv /\ Cpu!Boss \in CpuRiscv /\ cpuPc[Cpu!Boss] # "start"
          BY <1>0, <2>1, <2>2, <3>1, <3>2, <3>3
        <5>2. cpuWord["mail"] \in {"0", Cpu!TargetOfB} /\ cpuRan[Cpu!Boss] \in {"none", Cpu!TargetOfB} /\ (cpuPc[Cpu!Boss] = "taken" => cpuT1[Cpu!Boss] = Cpu!TargetOfB)
          BY <5>1 DEF CpuMailInv
        <5>3. cpuPc'[Cpu!Boss] # "start" /\ cpuPc'[Cpu!Boss] \in CpuPcsOfB /\ (Cpu!Boss # Cpu!Boss => cpuPc'[Cpu!Boss] \in CpuHartPcs)
          BY <1>0, <2>1, <2>2, <3>1, <3>2, <3>3 DEF CpuPcsOfB, CpuHartPcs
        <5>4. cpuPc'[Cpu!Boss] = "taken" => cpuT1'[Cpu!Boss] = Cpu!TargetOfB
          BY <1>0, <2>1, <2>2, <3>1, <3>2, <3>3
        <5>5. cpuRan'[Cpu!Boss] \in {"none", Cpu!TargetOfB} /\ cpuWord'["mail"] \in {"0", Cpu!TargetOfB}
          BY <1>0, <2>1, <2>2, <3>1, <3>2, <3>3, <5>2
        <5> QED BY <5>3, <5>4, <5>5
      <4>3. cpuPc'[Cpu!Boss] \notin {"start", "xboot"} => \A g \in Harts : cpuPc[g] # "start"
        BY <1>0, <2>1, <2>2, <3>1, <3>2, <3>3 DEF CpuMailInv, Cpu!AllHartsHere
      <4> QED BY <1>0, <2>1, <2>2, <4>1, <4>2, <4>3, CpuHartStep
    <3> QED BY <3>4, <3>5
  <2>3. CASE cpuPlat # "i143"
    <3>1. UNCHANGED cpuWord /\ cpuPc' = [cpuPc EXCEPT ![Cpu!Boss] = "run"] /\ cpuRan' = [cpuRan EXCEPT ![Cpu!Boss] = Cpu!TargetOfB]
      BY <2>1, <2>3 DEF Cpu!ExitBootROM, Cpu!Goto, Cpu!Run
    <3>2. cpuPc'[Cpu!Boss] = "run" /\ \A d \in Cpu!Cores \ {Cpu!Boss} : cpuPc'[d] = cpuPc[d]
      BY <1>0, <3>1, CpuOneCore
    <3>3. cpuRan'[Cpu!Boss] = Cpu!TargetOfB /\ cpuRan'[Cpu!A] = cpuRan[Cpu!A]
      BY <1>0, <3>1 DEF CpuTypeInv
    <3> QED BY <1>0, <2>1, <2>3, <3>1, <3>2, <3>3 DEF CpuWakeInv, CpuPcsOfB
  <2> QED BY <2>2, <2>3
<1>5. CASE Cpu!RomOfA
  <2>1. /\ cpuPc[Cpu!A] = "reset" /\ cpuPc' = [cpuPc EXCEPT ![Cpu!A] = "rom"] /\ UNCHANGED <<cpuT1, cpuRan>>
        /\ IF cpuPlat = "i143" THEN cpuWord' = [cpuWord EXCEPT !["A"] = Cpu!INITIAL] ELSE UNCHANGED cpuWord
    BY <1>5 DEF Cpu!RomOfA, Cpu!At, Cpu!Set, Cpu!Goto
  <2>2. cpuPc'[Cpu!A] = "rom" /\ \A d \in Cpu!Cores \ {Cpu!A} : cpuPc'[d] = cpuPc[d]
    BY <1>0, <2>1, CpuOneCore
  <2>3. (cpuPlat = "i143" => cpuWord'["A"] = Cpu!INITIAL) /\ \A x \in {"B", "next", "mail"} : cpuWord'[x] = cpuWord[x]
    BY <1>0, <2>1 DEF CpuTypeInv
  <2>4. cpuPlat # "i143" => cpuPlat = "q628" /\ cpuWord' = cpuWord
    BY <2>1 DEF CpuTwo
  <2>5. CpuWakeInv'
    BY <1>0, <2>1, <2>2, <2>3, <2>4 DEF CpuWakeInv, CpuPcsOfA, Cpu!INITIAL
  <2>6. cpuPlat = "i143" => CpuMailInv'
    BY <1>0, <2>1, <2>2, <2>3 DEF CpuMailInv, CpuRiscv
  <2> QED BY <2>5, <2>6
<1>6. CASE Cpu!RomLeft
  <2>1. /\ cpuPc[Cpu!A] = "rom" /\ cpuWord["A"] = "boot_next_no_stack" /\ cpuPc' = [cpuPc EXCEPT ![Cpu!A] = "abio"]
        /\ UNCHANGED <<cpuWord, cpuT1, cpuRan>>
    BY <1>0, <1>6 DEF Cpu!RomLeft, Cpu!At, Cpu!Goto, CpuWakeInv, CpuTwo
  <2>2. cpuPc'[Cpu!A] = "abio" /\ \A d \in Cpu!Cores \ {Cpu!A} : cpuPc'[d] = cpuPc[d]
    BY <1>0, <2>1, CpuOneCore
  <2>3. CpuWakeInv'
    BY <1>0, <2>1, <2>2 DEF CpuWakeInv, CpuPcsOfA
  <2>4. cpuPlat = "i143" => CpuMailInv'
    BY <1>0, <2>1, <2>2 DEF CpuMailInv, CpuRiscv
  <2> QED BY <2>3, <2>4
<1>7. CASE Cpu!BootNextNoStack
  <2>1. /\ cpuPc[Cpu!A] = "abio" /\ Cpu!PastDelay /\ cpuPc' = [cpuPc EXCEPT ![Cpu!A] = "run"] /\ cpuRan' = [cpuRan EXCEPT ![Cpu!A] = cpuWord["next"]]
        /\ UNCHANGED <<cpuWord, cpuT1>>
    BY <1>7 DEF Cpu!BootNextNoStack, Cpu!At, Cpu!Goto, Cpu!Run
  <2>2. cpuPc'[Cpu!A] = "run" /\ \A d \in Cpu!Cores \ {Cpu!A} : cpuPc'[d] = cpuPc[d]
    BY <1>0, <2>1, CpuOneCore
  <2>3. cpuWord["next"] = Cpu!ForA
    BY <1>0, <2>1 DEF CpuWakeInv
  <2>4. cpuRan'[Cpu!A] = Cpu!ForA /\ \A d \in Cpu!Cores \ {Cpu!A} : cpuRan'[d] = cpuRan[d]
    BY <1>0, <2>1, <2>3 DEF CpuTypeInv
  <2>5. CpuWakeInv'
    BY <1>0, <2>1, <2>2, <2>4 DEF CpuWakeInv, CpuPcsOfA, Cpu!PastDelay
  <2>6. cpuPlat = "i143" => CpuMailInv'
    BY <1>0, <2>1, <2>2, <2>4 DEF CpuMailInv, CpuRiscv
  <2> QED BY <2>5, <2>6
<1>8. CASE Cpu!HandsOver
  <2>1. /\ cpuPc[Cpu!A] = "run" /\ cpuWord' = [cpuWord EXCEPT !["B"] = Cpu!TargetOfB] /\ cpuPc' = [cpuPc EXCEPT ![Cpu!A] = "done"]
        /\ UNCHANGED <<cpuT1, cpuRan>>
    BY <1>8 DEF Cpu!HandsOver, Cpu!At, Cpu!Set, Cpu!Goto
  <2>2. cpuPc'[Cpu!A] = "done" /\ \A d \in Cpu!Cores \ {Cpu!A} : cpuPc'[d] = cpuPc[d]
    BY <1>0, <2>1, CpuOneCore
  <2>3. cpuWord'["B"] = Cpu!TargetOfB /\ \A x \in {"A", "next", "mail"} : cpuWord'[x] = cpuWord[x]
    BY <1>0, <2>1 DEF CpuTypeInv
  <2>4. CpuWakeInv'
    BY <1>0, <2>1, <2>2, <2>3 DEF CpuWakeInv, CpuPcsOfA
  <2>5. cpuPlat = "i143" => CpuMailInv'
    BY <1>0, <2>1, <2>2, <2>3 DEF CpuMailInv, CpuRiscv
  <2> QED BY <2>4, <2>5
<1>9. ASSUME NEW h \in Cpu!Cores, Cpu!HartStart(h)
      PROVE  CpuWakeInv' /\ (cpuPlat = "i143" => CpuMailInv')
  <2>1. /\ cpuPlat = "i143" /\ h \in CpuRiscv /\ cpuPc[h] = "start" /\ cpuWord' = [cpuWord EXCEPT !["mail"] = "0"]
        /\ cpuPc' = [cpuPc EXCEPT ![h] = IF h = Cpu!Boss THEN "xboot" ELSE "spin"] /\ UNCHANGED <<cpuT1, cpuRan>>
    BY <1>0, <1>9, CpuPlaces DEF Cpu!HartStart, Cpu!At, Cpu!Set, Cpu!Goto, CpuWakeInv, CpuPcsOfA
  <2>2. cpuPc'[h] = (IF h = Cpu!Boss THEN "xboot" ELSE "spin") /\ \A d \in Cpu!Cores \ {h} : cpuPc'[d] = cpuPc[d]
    BY <1>0, <2>1, CpuOneCore
  <2>3. cpuWord'["mail"] = "0" /\ \A x \in {"A", "B", "next"} : cpuWord'[x] = cpuWord[x]
    BY <1>0, <2>1 DEF CpuTypeInv
  <2>4. CpuWakeInv'
    <3>1. h # Cpu!A /\ cpuPc'[Cpu!A] = cpuPc[Cpu!A] /\ cpuRan' = cpuRan /\ cpuPc[Cpu!Boss] \in CpuPcsOfB
      BY <1>0, <2>1, <2>2 DEF CpuWakeInv
    <3>2. CASE h = Cpu!Boss
      <4>1. cpuPc[Cpu!Boss] = "start" /\ cpuPc'[Cpu!Boss] = "xboot"
        BY <2>1, <2>2, <3>2
      <4>2. cpuWord["A"] # "boot_next_no_stack" /\ cpuPc[Cpu!A] \notin {"abio", "run", "done"}
        BY <1>0, <4>1 DEF CpuWakeInv
      <4> QED BY <1>0, <2>1, <2>3, <3>1, <4>1, <4>2 DEF CpuWakeInv, CpuPcsOfB
    <3>3. CASE h # Cpu!Boss
      <4>1. cpuPc'[Cpu!Boss] = cpuPc[Cpu!Boss]
        BY <1>0, <2>2, <3>3
      <4> QED BY <1>0, <2>1, <2>3, <3>1, <4>1 DEF CpuWakeInv
    <3> QED BY <3>2, <3>3
  <2>5. CpuMailInv'
    <3>1. \A g \in CpuRiscv \ {h} : cpuPc'[g] = cpuPc[g] /\ cpuT1'[g] = cpuT1[g] /\ cpuRan'[g] = cpuRan[g]
      BY <1>0, <2>1, <2>2, <2>3
    <3>2. /\ cpuPc'[h] # "start"
          /\ cpuPc'[h] \in CpuPcsOfB /\ (h # Cpu!Boss => cpuPc'[h] \in CpuHartPcs)
          /\ cpuPc'[h] = "taken" => cpuT1'[h] = Cpu!TargetOfB
          /\ cpuRan'[h] \in {"none", Cpu!TargetOfB}
          /\ cpuWord'["mail"] \in {"0", Cpu!TargetOfB}
      <4>1. CpuMailInv /\ h \in CpuRiscv /\ cpuPc[h] = "start"
        BY <1>0, <2>1, <2>2, <2>3
      <4>2. cpuRan[h] \in {"none", Cpu!TargetOfB}
        BY <4>1 DEF CpuMailInv
      <4>3. cpuPc'[h] # "start" /\ cpuPc'[h] \in CpuPcsOfB /\ (h # Cpu!Boss => cpuPc'[h] \in CpuHartPcs)
        <5>1. h = Cpu!Boss => cpuPc'[h] = "xboot"
          BY <2>2
        <5>2. h # Cpu!Boss => cpuPc'[h] = "spin"
          BY <2>2
        <5> QED BY <5>1, <5>2 DEF CpuPcsOfB, CpuHartPcs
      <4>4. cpuPc'[h] = "taken" => cpuT1'[h] = Cpu!TargetOfB
        BY <1>0, <2>1, <2>2, <2>3
      <4>5. cpuRan'[h] \in {"none", Cpu!TargetOfB} /\ cpuWord'["mail"] \in {"0", Cpu!TargetOfB}
        BY <1>0, <2>1, <2>2, <2>3, <4>2
      <4> QED BY <4>3, <4>4, <4>5
    <3>3. cpuPc'[Cpu!Boss] \notin {"start", "xboot"} => \A g \in Harts : cpuPc[g] # "start"
      BY <1>0, <2>1, <2>2, <2>3 DEF CpuMailInv, Cpu!AllHartsHere
    <3> QED BY <1>0, <2>1, <3>1, <3>2, <3>3, CpuHartStep
  <2> QED BY <2>4, <2>5
<1>10. ASSUME NEW h \in Cpu!Cores, Cpu!TakeMail(h)
       PROVE  CpuWakeInv' /\ (cpuPlat = "i143" => CpuMailInv')
  <2>1. /\ cpuPlat = "i143" /\ h \in CpuRiscv /\ cpuPc[h] = "spin" /\ cpuWord["mail"] # "0"
        /\ cpuT1' = [cpuT1 EXCEPT ![h] = cpuWord["mail"]] /\ cpuWord' = [cpuWord EXCEPT !["mail"] = "0"]
        /\ cpuPc' = [cpuPc EXCEPT ![h] = "taken"] /\ UNCHANGED cpuRan
    BY <1>0, <1>10, CpuPlaces DEF Cpu!TakeMail, Cpu!At, Cpu!Set, Cpu!Goto, CpuWakeInv,
       CpuPcsOfA, CpuTwo
  <2>2. cpuPc'[h] = "taken" /\ \A d \in Cpu!Cores \ {h} : cpuPc'[d] = cpuPc[d]
    BY <1>0, <2>1, CpuOneCore
  <2>3. cpuWord'["mail"] = "0" /\ \A x \in {"A", "B", "next"} : cpuWord'[x] = cpuWord[x]
    BY <1>0, <2>1 DEF CpuTypeInv
  <2>4. cpuT1'[h] = Cpu!TargetOfB /\ \A d \in Cpu!Cores \ {h} : cpuT1'[d] = cpuT1[d]
    BY <1>0, <2>1 DEF CpuTypeInv, CpuMailInv
  <2>5. CpuWakeInv'
    <3>1. /\ h # Cpu!A /\ cpuPc'[Cpu!A] = cpuPc[Cpu!A] /\ cpuRan'[Cpu!A] = cpuRan[Cpu!A]
          /\ cpuWord'["A"] = cpuWord["A"] /\ cpuWord'["B"] = cpuWord["B"] /\ cpuWord'["next"] = cpuWord["next"]
      BY <1>0, <2>1, <2>2, <2>3 DEF CpuWakeInv, CpuPcsOfA
    <3>2. CASE h = Cpu!Boss
      <4>1. cpuPc[Cpu!Boss] = "spin" /\ cpuPc'[Cpu!Boss] = "taken" /\ cpuRan'[Cpu!Boss] = cpuRan[Cpu!Boss]
        BY <2>1, <2>2, <3>2
      <4> QED BY <1>0, <2>1, <3>1, <4>1 DEF CpuWakeInv, CpuPcsOfB
    <3>3. CASE h # Cpu!Boss
      <4>1. cpuPc'[Cpu!Boss] = cpuPc[Cpu!Boss] /\ cpuRan'[Cpu!Boss] = cpuRan[Cpu!Boss]
        BY <1>0, <2>1, <2>2, <3>3
      <4> QED BY <1>0, <2>1, <3>1, <4>1 DEF CpuWakeInv
    <3> QED BY <3>2, <3>3
  <2>6. CpuMailInv'
    <3>1. \A g \in CpuRiscv \ {h} : cpuPc'[g] = cpuPc[g] /\ cpuT1'[g] = cpuT1[g] /\ cpuRan'[g] = cpuRan[g]
      BY <1>0, <2>1, <2>2, <2>3, <2>4
    <3>2. /\ cpuPc'[h] # "start"
          /\ cpuPc'[h] \in CpuPcsOfB /\ (h # Cpu!Boss => cpuPc'[h] \in CpuHartPcs)
          /\ cpuPc'[h] = "taken" => cpuT1'[h] = Cpu!TargetOfB
          /\ cpuRan'[h] \in {"none", Cpu!TargetOfB}
          /\ cpuWord'["mail"] \in {"0", Cpu!TargetOfB}
      <4>1. CpuMailInv /\ h \in CpuRiscv /\ cpuPc[h] # "start"
        BY <1>0, <2>1, <2>2, <2>3, <2>4
      <4>2. cpuWord["mail"] \in {"0", Cpu!TargetOfB} /\ cpuRan[h] \in {"none", Cpu!TargetOfB} /\ (cpuPc[h] = "taken" => cpuT1[h] = Cpu!TargetOfB)
        BY <4>1 DEF CpuMailInv
      <4>3. cpuPc'[h] # "start" /\ cpuPc'[h] \in CpuPcsOfB /\ (h # Cpu!Boss => cpuPc'[h] \in CpuHartPcs)
        BY <1>0, <2>1, <2>2, <2>3, <2>4 DEF CpuPcsOfB, CpuHartPcs
      <4>4. cpuPc'[h] = "taken" => cpuT1'[h] = Cpu!TargetOfB
        BY <1>0, <2>1, <2>2, <2>3, <2>4
      <4>5. cpuRan'[h] \in {"none", Cpu!TargetOfB} /\ cpuWord'["mail"] \in {"0", Cpu!TargetOfB}
        BY <1>0, <2>1, <2>2, <2>3, <2>4, <4>2
      <4> QED BY <4>3, <4>4, <4>5
    <3>3. cpuPc'[Cpu!Boss] \notin {"start", "xboot"} => \A g \in Harts : cpuPc[g] # "start"
      BY <1>0, <2>1, <2>2, <2>3, <2>4 DEF CpuMailInv, Cpu!AllHartsHere
    <3> QED BY <1>0, <2>1, <3>1, <3>2, <3>3, CpuHartStep
  <2> QED BY <2>5, <2>6
<1>11. ASSUME NEW h \in Cpu!Cores, Cpu!PutMailBack(h)
       PROVE  CpuWakeInv' /\ (cpuPlat = "i143" => CpuMailInv')
  <2>1. /\ cpuPlat = "i143" /\ h \in CpuRiscv /\ cpuPc[h] = "taken"
        /\ cpuWord' = [cpuWord EXCEPT !["mail"] = cpuT1[h]] /\ cpuPc' = [cpuPc EXCEPT ![h] = "run"]
        /\ cpuRan' = [cpuRan EXCEPT ![h] = cpuT1[h]] /\ UNCHANGED cpuT1
    BY <1>0, <1>11, CpuPlaces DEF Cpu!PutMailBack, Cpu!At, Cpu!Set, Cpu!Goto, Cpu!Run,
       CpuWakeInv, CpuPcsOfA, CpuTwo
  <2>2. cpuPc'[h] = "run" /\ \A d \in Cpu!Cores \ {h} : cpuPc'[d] = cpuPc[d]
    BY <1>0, <2>1, CpuOneCore
  <2>3. cpuT1[h] = Cpu!TargetOfB
    BY <1>0, <2>1 DEF CpuMailInv
  <2>4. cpuWord'["mail"] = Cpu!TargetOfB /\ \A x \in {"A", "B", "next"} : cpuWord'[x] = cpuWord[x]
    BY <1>0, <2>1, <2>3 DEF CpuTypeInv
  <2>5. cpuRan'[h] = Cpu!TargetOfB /\ \A d \in Cpu!Cores \ {h} : cpuRan'[d] = cpuRan[d]
    BY <1>0, <2>1, <2>3 DEF CpuTypeInv
  <2>6. CpuWakeInv'
    <3>1. /\ h # Cpu!A /\ cpuPc'[Cpu!A] = cpuPc[Cpu!A] /\ cpuRan'[Cpu!A] = cpuRan[Cpu!A]
          /\ cpuWord'["A"] = cpuWord["A"] /\ cpuWord'["B"] = cpuWord["B"] /\ cpuWord'["next"] = cpuWord["next"]
      BY <1>0, <2>1, <2>2, <2>4, <2>5 DEF CpuWakeInv, CpuPcsOfA
    <3>2. CASE h = Cpu!Boss
      <4>1. cpuPc[Cpu!Boss] = "taken" /\ cpuPc'[Cpu!Boss] = "run" /\ cpuRan'[Cpu!Boss] = Cpu!TargetOfB
        BY <2>1, <2>2, <2>5, <3>2
      <4> QED BY <1>0, <2>1, <3>1, <4>1 DEF CpuWakeInv, CpuPcsOfB
    <3>3. CASE h # Cpu!Boss
      <4>1. cpuPc'[Cpu!Boss] = cpuPc[Cpu!Boss] /\ cpuRan'[Cpu!Boss] = cpuRan[Cpu!Boss]
        BY <1>0, <2>1, <2>2, <2>5, <3>3
      <4> QED BY <1>0, <2>1, <3>1, <4>1 DEF CpuWakeInv
    <3> QED BY <3>2, <3>3
  <2>7. CpuMailInv'
    <3>1. \A g \in CpuRiscv \ {h} : cpuPc'[g] = cpuPc[g] /\ cpuT1'[g] = cpuT1[g] /\ cpuRan'[g] = cpuRan[g]
      BY <1>0, <2>1, <2>2, <2>4, <2>5
    <3>2. /\ cpuPc'[h] # "start"
          /\ cpuPc'[h] \in CpuPcsOfB /\ (h # Cpu!Boss => cpuPc'[h] \in CpuHartPcs)
          /\ cpuPc'[h] = "taken" => cpuT1'[h] = Cpu!TargetOfB
          /\ cpuRan'[h] \in {"none", Cpu!TargetOfB}
          /\ cpuWord'["mail"] \in {"0", Cpu!TargetOfB}
      <4>1. CpuMailInv /\ h \in CpuRiscv /\ cpuPc[h] # "start"
        BY <1>0, <2>1, <2>2, <2>4, <2>5
      <4>2. cpuWord["mail"] \in {"0", Cpu!TargetOfB} /\ cpuRan[h] \in {"none", Cpu!TargetOfB} /\ (cpuPc[h] = "taken" => cpuT1[h] = Cpu!TargetOfB)
        BY <4>1 DEF CpuMailInv
      <4>3. cpuPc'[h] # "start" /\ cpuPc'[h] \in CpuPcsOfB /\ (h # Cpu!Boss => cpuPc'[h] \in CpuHartPcs)
        BY <1>0, <2>1, <2>2, <2>4, <2>5 DEF CpuPcsOfB, CpuHartPcs
      <4>4. cpuPc'[h] = "taken" => cpuT1'[h] = Cpu!TargetOfB
        BY <1>0, <2>1, <2>2, <2>4, <2>5
      <4>5. cpuRan'[h] \in {"none", Cpu!TargetOfB} /\ cpuWord'["mail"] \in {"0", Cpu!TargetOfB}
        BY <1>0, <2>1, <2>2, <2>4, <2>5, <4>2
      <4> QED BY <4>3, <4>4, <4>5
    <3>3. cpuPc'[Cpu!Boss] \notin {"start", "xboot"} => \A g \in Harts : cpuPc[g] # "start"
      BY <1>0, <2>1, <2>2, <2>4, <2>5 DEF CpuMailInv, Cpu!AllHartsHere
    <3> QED BY <1>0, <2>1, <3>1, <3>2, <3>3, CpuHartStep
  <2> QED BY <2>6, <2>7
<1>12. ~Cpu!LoadTfaOptee /\ ~Cpu!CloseAndTell /\ ~Cpu!Restore /\ ~Cpu!CopyA64 /\ ~Cpu!SetVectors /\ ~Cpu!ClearXboot /\ ~Cpu!WakeCpuN
  BY <1>0 DEF Cpu!LoadTfaOptee, Cpu!CloseAndTell, Cpu!Restore, Cpu!CopyA64, Cpu!SetVectors,
     Cpu!ClearXboot, Cpu!WakeCpuN, Cpu!At, CpuWakeInv, CpuPcsOfB, CpuTwo, Cpu!Cold
<1>13. \A c \in Cpu!Cores : ~Cpu!Restart(c) /\ ~Cpu!RomSmp(c) /\ ~Cpu!BootCpuN(c)
  <2>1. \A c \in Cpu!Cores : ~Cpu!Restart(c) /\ ~Cpu!BootCpuN(c)
    BY <1>0, CpuPlaces DEF Cpu!Restart, Cpu!BootCpuN, Cpu!At, CpuTwo
  <2>2. ASSUME NEW c \in Cpu!Cores, Cpu!RomSmp(c) PROVE FALSE
    <3>1. c \in Cpu!Smp /\ c \in Cpu!Used /\ cpuPc[c] = "rom"
      BY <2>2 DEF Cpu!RomSmp, Cpu!At
    <3> QED BY <1>0, <3>1, CpuCoresApart, CpuPlaces DEF CpuTwo
  <2> QED BY <2>1, <2>2
<1> QED
  BY <1>1, <1>2, <1>3, <1>4, <1>5, <1>6, <1>7, <1>8, <1>9, <1>10, <1>11, <1>12, <1>13
  DEF Cpu!StepOfBoss, Cpu!StepOfA, Cpu!StepOf

(* A step of one of the four CA55.                                          *)
LEMMA CpuStepOfFour ==
    ASSUME Cpu!CpuWakeAssumption, CpuInv, CpuFour, CpuTypeInv', UNCHANGED Cpu!fixed,
           Cpu!StepOfBoss \/ Cpu!StepOfA \/ \E c \in Cpu!Cores : Cpu!StepOf(c)
    PROVE  CpuSmpInv'
<1>0. /\ cpuPlat' = cpuPlat /\ cpuTable' = cpuTable /\ Cpu!Boss \in Cpu!Cores /\ Cpu!Smp \subseteq Cpu!Cores /\ Cpu!Boss \notin Cpu!Smp
      /\ CpuSmpInv /\ CpuTypeInv /\ ~CpuTwo /\ cpuPlat # "i143"
  BY CpuCoresApart, CpuPlaces DEF Cpu!fixed, CpuInv
<1>cold. cpuPc[Cpu!Boss] = "close" /\ cpuPlat # "q645" => cpuPlat = "sp7350"
  BY <1>0 DEF CpuSmpInv, Cpu!Cold
<1>early. ASSUME cpuPc[Cpu!Boss] \notin CpuLate, cpuPc'[Cpu!Boss] \in CpuPcsOfBoss \ CpuLate,
                 \A d \in Cpu!Smp : cpuPc'[d] = cpuPc[d] /\ (cpuPos'[d] = Cpu!A64 => cpuPos[d] = Cpu!A64), cpuRan' = cpuRan,
                 cpuTable = "whole" /\ (cpuPlat = "warm" \/ cpuPc'[Cpu!Boss] # "xboot") => "bl31" \in cpuCode',
                 cpuPlat # "q645" /\ cpuPc'[Cpu!Boss] \notin {"xboot", "close"} => cpuClosed',
                 cpuPc'[Cpu!Boss] = "close" => cpuPlat \in Cpu!Cold,
                 cpuPc'[Cpu!Boss] = "vectors" => "a64" \in cpuCode'
          PROVE  CpuSmpInv'
  <2>1. \A d \in Cpu!Smp : cpuPc[d] = "rom" /\ cpuPos[d] # Cpu!A64
    BY <1>0, <1>early DEF CpuSmpInv
  <2>2. \A d \in {Cpu!Boss} \cup Cpu!Smp : cpuRan[d] = "none"
    BY <1>0, <1>early DEF CpuSmpInv
  <2>3. \A d \in Cpu!Smp : cpuPc'[d] \in CpuPcsOfSmp /\ cpuPc'[d] = "rom" /\ cpuPos'[d] # Cpu!A64
    BY <1>early, <2>1 DEF CpuPcsOfSmp
  <2>4. cpuTable' = "whole" /\ (cpuPlat' = "warm" \/ cpuPc'[Cpu!Boss] # "xboot") => "bl31" \in cpuCode'
    BY <1>0, <1>early
  <2> QED BY <1>0, <1>early, <2>2, <2>3, <2>4 DEF CpuSmpInv
<1>1. CASE Cpu!LoadTfaOptee
  <2>1. /\ cpuPc[Cpu!Boss] = "xboot" /\ cpuPlat \in Cpu!Cold /\ cpuCode' = cpuCode \cup (IF cpuTable = "whole" THEN {"bl31"} ELSE {})
        /\ cpuPc' = [cpuPc EXCEPT ![Cpu!Boss] = "close"] /\ UNCHANGED <<cpuPos, cpuVector, cpuClosed, cpuRan>>
    BY <1>1 DEF Cpu!LoadTfaOptee, Cpu!At, Cpu!Goto
  <2>2. cpuPc'[Cpu!Boss] = "close" /\ \A d \in Cpu!Cores \ {Cpu!Boss} : cpuPc'[d] = cpuPc[d]
    BY <1>0, <2>1, CpuOneCore
  <2>3. cpuPc[Cpu!Boss] \notin CpuLate /\ cpuPc'[Cpu!Boss] \in CpuPcsOfBoss \ CpuLate
    BY <2>1, <2>2 DEF CpuPcsOfBoss, CpuLate
  <2>4. cpuTable = "whole" => "bl31" \in cpuCode'
    BY <2>1
  <2> QED BY <1>0, <1>early, <2>1, <2>2, <2>3, <2>4
<1>2. CASE Cpu!CloseAndTell
  <2>1. /\ cpuPc[Cpu!Boss] = "close" /\ cpuClosed' = (cpuPlat = "sp7350") /\ cpuPos' = [cpuPos EXCEPT ![Cpu!Boss] = Cpu!ForA]
        /\ cpuPc' = [cpuPc EXCEPT ![Cpu!Boss] = "copy"] /\ UNCHANGED <<cpuVector, cpuCode, cpuRan>>
    BY <1>2 DEF Cpu!CloseAndTell, Cpu!At, Cpu!Goto
  <2>2. cpuPc'[Cpu!Boss] = "copy" /\ \A d \in Cpu!Cores \ {Cpu!Boss} : cpuPc'[d] = cpuPc[d]
    BY <1>0, <2>1, CpuOneCore
  <2>3. \A c \in Cpu!Smp : cpuPos'[c] = cpuPos[c]
    BY <1>0, <2>1 DEF CpuTypeInv
  <2>4. cpuPc[Cpu!Boss] \notin CpuLate /\ cpuPc'[Cpu!Boss] \in CpuPcsOfBoss \ CpuLate
    BY <2>1, <2>2 DEF CpuPcsOfBoss, CpuLate
  <2>5. cpuTable = "whole" => "bl31" \in cpuCode'
    BY <1>0, <2>1 DEF CpuSmpInv
  <2> QED BY <1>0, <1>cold, <1>early, <2>1, <2>2, <2>3, <2>4, <2>5
<1>3. CASE Cpu!Restore
  <2>1. /\ cpuPc[Cpu!Boss] = "xboot" /\ cpuPlat = "warm" /\ cpuClosed' = TRUE
        /\ cpuPos' = [cpuPos EXCEPT ![2] = Cpu!Saved, ![3] = Cpu!Saved]
        /\ cpuPc' = [cpuPc EXCEPT ![Cpu!Boss] = "copy"] /\ UNCHANGED <<cpuCode, cpuRan>>
    BY <1>3 DEF Cpu!Restore, Cpu!At, Cpu!Goto
  <2>2. cpuPc'[Cpu!Boss] = "copy" /\ \A d \in Cpu!Cores \ {Cpu!Boss} : cpuPc'[d] = cpuPc[d]
    BY <1>0, <2>1, CpuOneCore
  <2>3. \A c \in Cpu!Smp : cpuPos'[c] = Cpu!A64 => cpuPos[c] = Cpu!A64
    BY <1>0, <2>1 DEF CpuTypeInv, Cpu!A64, Cpu!Saved
  <2>4. cpuPc[Cpu!Boss] \notin CpuLate /\ cpuPc'[Cpu!Boss] \in CpuPcsOfBoss \ CpuLate
    BY <2>1, <2>2 DEF CpuPcsOfBoss, CpuLate
  <2>5. cpuTable = "whole" => "bl31" \in cpuCode'
    BY <1>0, <2>1 DEF CpuSmpInv
  <2> QED BY <1>0, <1>early, <2>1, <2>2, <2>3, <2>4, <2>5
<1>4. CASE Cpu!CopyA64
  <2>1. /\ cpuPc[Cpu!Boss] = "copy" /\ cpuCode' = cpuCode \cup {"a64"}
        /\ cpuPc' = [cpuPc EXCEPT ![Cpu!Boss] = "vectors"] /\ UNCHANGED <<cpuPos, cpuVector, cpuClosed, cpuRan>>
    BY <1>4 DEF Cpu!CopyA64, Cpu!At, Cpu!Goto
  <2>2. cpuPc'[Cpu!Boss] = "vectors" /\ \A d \in Cpu!Cores \ {Cpu!Boss} : cpuPc'[d] = cpuPc[d]
    BY <1>0, <2>1, CpuOneCore
  <2>3. cpuPc[Cpu!Boss] \notin CpuLate /\ cpuPc'[Cpu!Boss] \in CpuPcsOfBoss \ CpuLate
    BY <2>1, <2>2 DEF CpuPcsOfBoss, CpuLate
  <2>4. (cpuPlat # "q645" => cpuClosed') /\ "a64" \in cpuCode' /\ (cpuTable = "whole" => "bl31" \in cpuCode')
    BY <1>0, <2>1 DEF CpuSmpInv
  <2> QED BY <1>0, <1>early, <2>1, <2>2, <2>3, <2>4
<1>5. CASE Cpu!SetVectors
  <2>1. /\ cpuPc[Cpu!Boss] = "vectors" /\ cpuVector' = Cpu!StartOfAll
        /\ cpuPc' = [cpuPc EXCEPT ![Cpu!Boss] = "warm reset"] /\ UNCHANGED <<cpuPos, cpuCode, cpuClosed, cpuRan>>
    BY <1>5 DEF Cpu!SetVectors, Cpu!At, Cpu!Goto
  <2>2. cpuPc'[Cpu!Boss] = "warm reset" /\ \A d \in Cpu!Cores \ {Cpu!Boss} : cpuPc'[d] = cpuPc[d]
    BY <1>0, <2>1, CpuOneCore
  <2>3. \A c \in {Cpu!Boss} \cup Cpu!Smp : cpuVector'[c] = "a64"
    BY <1>0, <2>1 DEF CpuTypeInv, Cpu!StartOfAll
  <2> QED BY <1>0, <2>1, <2>2, <2>3 DEF CpuSmpInv, CpuPcsOfBoss, CpuPcsOfSmp, CpuLate
<1>6. CASE Cpu!ClearXboot
  <2>1. /\ cpuPc[Cpu!Boss] = "clear" /\ cpuCode' = cpuCode \ {"xboot"}
        /\ cpuPc' = [cpuPc EXCEPT ![Cpu!Boss] = "wake"] /\ UNCHANGED <<cpuPos, cpuVector, cpuClosed, cpuRan>>
    BY <1>6 DEF Cpu!ClearXboot, Cpu!At, Cpu!Goto
  <2>2. cpuPc'[Cpu!Boss] = "wake" /\ \A d \in Cpu!Cores \ {Cpu!Boss} : cpuPc'[d] = cpuPc[d]
    BY <1>0, <2>1, CpuOneCore
  <2> QED BY <1>0, <2>1, <2>2 DEF CpuSmpInv, CpuPcsOfBoss, CpuPcsOfSmp, CpuLate
<1>7. CASE Cpu!WakeCpuN
  <2>1. cpuPc[Cpu!Boss] = "wake" /\ UNCHANGED <<cpuVector, cpuCode, cpuClosed, cpuRan>>
    BY <1>7 DEF Cpu!WakeCpuN, Cpu!At
  <2>2. CASE UNCHANGED cpuPc
    BY <1>0, <2>1, <2>2 DEF CpuSmpInv, CpuPcsOfBoss, CpuPcsOfSmp, CpuLate
  <2>3. CASE cpuPc' = [cpuPc EXCEPT ![Cpu!Boss] = "bl31"]
    <3>1. cpuPc'[Cpu!Boss] = "bl31" /\ \A d \in Cpu!Cores \ {Cpu!Boss} : cpuPc'[d] = cpuPc[d]
      BY <1>0, <2>3, CpuOneCore
    <3> QED BY <1>0, <2>1, <3>1 DEF CpuSmpInv, CpuPcsOfBoss, CpuPcsOfSmp, CpuLate
  <2> QED BY <1>7, <2>2, <2>3 DEF Cpu!WakeCpuN, Cpu!Goto
<1>8. ASSUME NEW c \in Cpu!Cores, Cpu!Restart(c)
      PROVE  CpuSmpInv'
  <2>1. /\ cpuPc[c] = "warm reset" /\ c \in {Cpu!Boss} \cup Cpu!Smp
        /\ UNCHANGED <<cpuPos, cpuVector, cpuCode, cpuClosed>>
    BY <1>0, <1>8, CpuPlaces DEF Cpu!Restart, Cpu!At, Cpu!a64
  <2>2. cpuPc[Cpu!Boss] \in CpuLate /\ cpuVector[c] = "a64" /\ "a64" \in cpuCode
    BY <1>0, <2>1 DEF CpuSmpInv, CpuPcsOfBoss, CpuLate
  <2>3. /\ cpuPc' = [cpuPc EXCEPT ![c] = IF c # Cpu!Boss THEN "bl31" ELSE IF cpuPlat \in Cpu!Cold THEN "clear" ELSE "wake"]
        /\ UNCHANGED cpuRan
    BY <1>8, <2>2 DEF Cpu!Restart, Cpu!Goto
  <2>4. /\ cpuPc'[c] = IF c # Cpu!Boss THEN "bl31" ELSE IF cpuPlat \in Cpu!Cold THEN "clear" ELSE "wake"
        /\ \A d \in Cpu!Cores \ {c} : cpuPc'[d] = cpuPc[d]
    BY <1>0, <2>3, CpuOneCore
  <2>5. CASE c = Cpu!Boss
    <3>1. cpuPc'[Cpu!Boss] \in {"clear", "wake"} /\ \A d \in Cpu!Smp : cpuPc'[d] = cpuPc[d]
      BY <1>0, <2>4, <2>5
    <3> QED BY <1>0, <2>1, <2>2, <2>3, <2>5, <3>1 DEF CpuSmpInv, CpuPcsOfBoss, CpuPcsOfSmp,
       CpuLate
  <2>6. CASE c # Cpu!Boss
    <3>1. c \in Cpu!Smp /\ cpuPc'[c] = "bl31" /\ cpuPc'[Cpu!Boss] = cpuPc[Cpu!Boss] /\ \A d \in Cpu!Smp \ {c} : cpuPc'[d] = cpuPc[d]
      BY <1>0, <2>1, <2>4, <2>6
    <3>2. \A d \in Cpu!Smp : cpuPc'[d] \in CpuPcsOfSmp
      BY <1>0, <3>1 DEF CpuSmpInv, CpuPcsOfSmp
    <3> QED BY <1>0, <2>1, <2>2, <2>3, <3>1, <3>2 DEF CpuSmpInv
  <2> QED BY <2>5, <2>6
<1>9. ASSUME NEW c \in Cpu!Cores, Cpu!RomSmp(c)
      PROVE  CpuSmpInv'
  <2>1. /\ cpuPc[c] = "rom" /\ c \in Cpu!Smp /\ cpuPos[c] = Cpu!A64 /\ cpuPc' = [cpuPc EXCEPT ![c] = "warm reset"]
        /\ UNCHANGED <<cpuPos, cpuVector, cpuCode, cpuClosed, cpuRan>>
    BY <1>9 DEF Cpu!RomSmp, Cpu!At, Cpu!Goto, Cpu!a64
  <2>2. cpuPc'[c] = "warm reset" /\ cpuPc'[Cpu!Boss] = cpuPc[Cpu!Boss] /\ \A d \in Cpu!Smp \ {c} : cpuPc'[d] = cpuPc[d]
    BY <1>0, <2>1, CpuOneCore
  <2>3. cpuPc[Cpu!Boss] \in CpuLate
    BY <1>0, <2>1 DEF CpuSmpInv
  <2>4. \A d \in Cpu!Smp : cpuPc'[d] \in CpuPcsOfSmp
    BY <1>0, <2>2 DEF CpuSmpInv, CpuPcsOfSmp
  <2> QED BY <1>0, <2>1, <2>2, <2>3, <2>4 DEF CpuSmpInv
<1>10. ASSUME NEW c \in Cpu!Cores, Cpu!BootCpuN(c)
       PROVE  CpuSmpInv'
  <2>1. /\ cpuPc[c] = "bl31" /\ c \in {Cpu!Boss} \cup Cpu!Smp /\ cpuPc' = [cpuPc EXCEPT ![c] = "run"]
        /\ cpuRan' = [cpuRan EXCEPT ![c] = IF "bl31" \in cpuCode THEN "bl31" ELSE "junk"]
        /\ UNCHANGED <<cpuPos, cpuVector, cpuCode, cpuClosed>>
    BY <1>0, <1>10, CpuPlaces DEF Cpu!BootCpuN, Cpu!At, Cpu!Goto, Cpu!Run, Cpu!a64
  <2>2. cpuPc'[c] = "run" /\ \A d \in Cpu!Cores \ {c} : cpuPc'[d] = cpuPc[d]
    BY <1>0, <2>1, CpuOneCore
  <2>3. cpuPc[Cpu!Boss] \in CpuLate
    BY <1>0, <2>1 DEF CpuSmpInv, CpuPcsOfBoss, CpuLate
  <2>4. cpuTable = "whole" => "bl31" \in cpuCode
    BY <1>0, <2>3 DEF CpuSmpInv, CpuLate
  <2>5. (cpuTable = "whole" => cpuRan'[c] = "bl31") /\ \A d \in Cpu!Cores \ {c} : cpuRan'[d] = cpuRan[d]
    BY <1>0, <2>1, <2>4 DEF CpuTypeInv
  <2>6. cpuPc'[Cpu!Boss] \in CpuLate /\ cpuPc'[Cpu!Boss] \in CpuPcsOfBoss
    BY <1>0, <2>2, <2>3 DEF CpuSmpInv, CpuPcsOfBoss, CpuLate
  <2>7. \A d \in Cpu!Smp : cpuPc'[d] \in CpuPcsOfSmp
    BY <1>0, <2>2 DEF CpuSmpInv, CpuPcsOfSmp
  <2>8. \A d \in {Cpu!Boss} \cup Cpu!Smp : cpuRan'[d] # "none" => cpuPc'[Cpu!Boss] \in CpuLate /\ (cpuTable = "whole" => cpuRan'[d] = "bl31")
    BY <1>0, <2>5, <2>6 DEF CpuSmpInv
  <2>9. /\ cpuTable = "whole" => "bl31" \in cpuCode
        /\ (cpuPlat # "q645" => cpuClosed) /\ "a64" \in cpuCode /\ \A d \in {Cpu!Boss} \cup Cpu!Smp : cpuVector[d] = "a64"
    BY <1>0, <2>3, <2>4 DEF CpuSmpInv, CpuLate
  <2> QED BY <1>0, <2>1, <2>6, <2>7, <2>8, <2>9 DEF CpuSmpInv
<1>11. ~Cpu!SetNext /\ ~Cpu!WakeA /\ ~Cpu!ResetB /\ ~Cpu!FollowB
  BY <1>0 DEF Cpu!SetNext, Cpu!WakeA, Cpu!ResetB, Cpu!FollowB, Cpu!At, CpuSmpInv, CpuPcsOfBoss,
     CpuTwo
<1>12. ~Cpu!RomOfA /\ ~Cpu!RomLeft /\ ~Cpu!BootNextNoStack /\ ~Cpu!HandsOver
  BY <1>0, CpuCoresApart, CpuPlaces DEF Cpu!RomOfA, Cpu!RomLeft, Cpu!BootNextNoStack,
     Cpu!HandsOver, Cpu!At
<1>13. \A c \in Cpu!Cores : ~Cpu!HartStart(c) /\ ~Cpu!TakeMail(c) /\ ~Cpu!PutMailBack(c)
  BY <1>0, CpuPlaces DEF Cpu!HartStart, Cpu!TakeMail, Cpu!PutMailBack, Cpu!At
<1> QED
  BY <1>1, <1>2, <1>3, <1>4, <1>5, <1>6, <1>7, <1>8, <1>9, <1>10, <1>11, <1>12, <1>13
  DEF Cpu!StepOfBoss, Cpu!StepOfA, Cpu!StepOf

(* Every step keeps every variable within its values.                       *)
LEMMA CpuTyped ==
    ASSUME Cpu!CpuWakeAssumption, CpuTypeInv,
           Cpu!StepOfBoss \/ Cpu!StepOfA \/ \E c \in Cpu!Cores : Cpu!StepOf(c)
    PROVE  CpuTypeInv' /\ UNCHANGED Cpu!fixed
<1>0. /\ Cpu!A \in Cpu!Cores /\ Cpu!Boss \in Cpu!Cores /\ Cpu!Boss \in {Cpu!Boss} \cup Cpu!Smp
      /\ cpuPc \in [Cpu!Cores -> CpuAllPcs] /\ cpuRan \in [Cpu!Cores -> CpuValues] /\ cpuT1 \in [Cpu!Cores -> CpuValues]
      /\ cpuWord \in [{"A", "B", "next", "mail"} -> CpuValues]
      /\ cpuPos \in [{Cpu!Boss} \cup Cpu!Smp -> {Cpu!INITIAL, Cpu!A64, Cpu!ForA, Cpu!Saved}]
      /\ cpuVector \in [{Cpu!Boss} \cup Cpu!Smp -> {"junk", "old", "a64"}]
  BY CpuCoresApart DEF CpuTypeInv
<1>1. /\ CpuPcsOfB \cup CpuPcsOfA \cup CpuPcsOfBoss \cup CpuPcsOfSmp \subseteq CpuAllPcs
      /\ {Cpu!ForA, Cpu!TargetOfB, Cpu!INITIAL, "0", "junk", "bl31", "boot_next_no_stack"} \subseteq CpuValues
  BY DEF CpuAllPcs, CpuValues, Cpu!Addresses
<1>2. ASSUME UNCHANGED Cpu!fixed,
             cpuPc' \in [Cpu!Cores -> CpuAllPcs], cpuRan' \in [Cpu!Cores -> CpuValues], cpuT1' \in [Cpu!Cores -> CpuValues],
             cpuWord' \in [{"A", "B", "next", "mail"} -> CpuValues],
             cpuPos' \in [{Cpu!Boss} \cup Cpu!Smp -> {Cpu!INITIAL, Cpu!A64, Cpu!ForA, Cpu!Saved}],
             cpuVector' \in [{Cpu!Boss} \cup Cpu!Smp -> {"junk", "old", "a64"}]
      PROVE  CpuTypeInv' /\ UNCHANGED Cpu!fixed
  BY <1>2 DEF CpuTypeInv, Cpu!fixed
<1>3. ASSUME NEW address \in CpuValues, Cpu!ExitBootROM(address)
      PROVE  cpuPc' \in [Cpu!Cores -> CpuAllPcs] /\ cpuRan' \in [Cpu!Cores -> CpuValues] /\ cpuWord' \in [{"A", "B", "next", "mail"} -> CpuValues]
  <2>1. CASE cpuPlat = "i143"
    <3>1. /\ cpuPc' = [cpuPc EXCEPT ![Cpu!Boss] = "spin"] /\ cpuRan' = cpuRan
          /\ cpuWord' = [cpuWord EXCEPT !["mail"] = address]
      BY <1>3, <2>1 DEF Cpu!ExitBootROM, Cpu!Set, Cpu!Goto
    <3>2. "spin" \in CpuAllPcs
      BY <1>1 DEF CpuPcsOfB
    <3>3. cpuPc' \in [Cpu!Cores -> CpuAllPcs]
      BY <1>0, <3>1, <3>2
    <3>4. cpuWord' \in [{"A", "B", "next", "mail"} -> CpuValues]
      BY <1>0, <1>3, <3>1
    <3> QED BY <1>0, <3>1, <3>3, <3>4
  <2>2. CASE cpuPlat # "i143"
    <3>1. cpuPc' = [cpuPc EXCEPT ![Cpu!Boss] = "run"] /\ cpuRan' = [cpuRan EXCEPT ![Cpu!Boss] = address] /\ cpuWord' = cpuWord
      BY <1>3, <2>2 DEF Cpu!ExitBootROM, Cpu!Goto, Cpu!Run
    <3>2. "run" \in CpuAllPcs
      BY <1>1 DEF CpuPcsOfB
    <3>3. cpuPc' \in [Cpu!Cores -> CpuAllPcs]
      BY <1>0, <3>1, <3>2
    <3>4. cpuRan' \in [Cpu!Cores -> CpuValues]
      BY <1>0, <1>3, <3>1
    <3> QED BY <1>0, <3>1, <3>3, <3>4
  <2> QED BY <2>1, <2>2
<1>4. CASE Cpu!SetNext
  <2>1. UNCHANGED Cpu!fixed /\ cpuT1' = cpuT1 /\ cpuPos' = cpuPos /\ cpuVector' = cpuVector
    BY <1>4 DEF Cpu!SetNext, Cpu!At, Cpu!a64
  <2>2. CASE cpuBoth
    <3>1. /\ cpuPc' = [cpuPc EXCEPT ![Cpu!Boss] = "next set"] /\ cpuRan' = cpuRan
          /\ cpuWord' = [cpuWord EXCEPT !["next"] = Cpu!ForA]
      BY <1>4, <2>2 DEF Cpu!SetNext, Cpu!Set, Cpu!Goto
    <3>2. "next set" \in CpuAllPcs /\ Cpu!ForA \in CpuValues
      BY <1>1 DEF CpuPcsOfB
    <3>3. cpuPc' \in [Cpu!Cores -> CpuAllPcs]
      BY <1>0, <3>1, <3>2
    <3>4. cpuWord' \in [{"A", "B", "next", "mail"} -> CpuValues]
      BY <1>0, <3>1, <3>2
    <3> QED BY <1>0, <1>2, <2>1, <3>1, <3>3, <3>4
  <2>3. CASE ~cpuBoth
    <3>1. Cpu!ExitBootROM(Cpu!TargetOfB) /\ Cpu!TargetOfB \in CpuValues
      BY <1>1, <1>4, <2>3 DEF Cpu!SetNext
    <3> QED BY <1>0, <1>2, <1>3, <2>1, <3>1
  <2> QED BY <2>2, <2>3
<1>5. CASE Cpu!WakeA
  BY <1>0, <1>1, <1>2, <1>3, <1>5 DEF Cpu!WakeA, Cpu!At, Cpu!a64, CpuPcsOfB, Cpu!Set, Cpu!Goto
<1>6. CASE Cpu!ResetB
  BY <1>0, <1>1, <1>2, <1>3, <1>6 DEF Cpu!ResetB, Cpu!At, Cpu!a64, CpuPcsOfB, Cpu!Set, Cpu!Goto
<1>7. CASE Cpu!FollowB
  BY <1>0, <1>1, <1>2, <1>3, <1>7 DEF Cpu!FollowB, Cpu!At, Cpu!a64
<1>8. CASE Cpu!LoadTfaOptee
  BY <1>0, <1>1, <1>2, <1>3, <1>8 DEF Cpu!LoadTfaOptee, Cpu!At, Cpu!a64, CpuPcsOfBoss, Cpu!Goto
<1>9. CASE Cpu!CloseAndTell
  BY <1>0, <1>1, <1>2, <1>3, <1>9 DEF Cpu!CloseAndTell, Cpu!At, Cpu!a64, CpuPcsOfBoss, Cpu!Goto
<1>10. CASE Cpu!Restore
  BY <1>0, <1>1, <1>2, <1>3, <1>10 DEF Cpu!Restore, Cpu!At, Cpu!a64, CpuPcsOfBoss, Cpu!Goto,
     Cpu!Smp
<1>11. CASE Cpu!CopyA64
  BY <1>0, <1>1, <1>2, <1>3, <1>11 DEF Cpu!CopyA64, Cpu!At, Cpu!a64, CpuPcsOfBoss, Cpu!Goto
<1>12. CASE Cpu!SetVectors
  BY <1>0, <1>1, <1>2, <1>3, <1>12 DEF Cpu!SetVectors, Cpu!At, Cpu!a64, CpuPcsOfBoss, Cpu!Goto,
     Cpu!StartOfAll
<1>13. CASE Cpu!ClearXboot
  BY <1>0, <1>1, <1>2, <1>3, <1>13 DEF Cpu!ClearXboot, Cpu!At, Cpu!a64, CpuPcsOfBoss, Cpu!Goto
<1>14. CASE Cpu!WakeCpuN
  BY <1>0, <1>1, <1>2, <1>3, <1>14 DEF Cpu!WakeCpuN, Cpu!At, Cpu!a64, CpuPcsOfBoss, Cpu!Goto
<1>15. CASE Cpu!RomOfA
  BY <1>0, <1>1, <1>2, <1>3, <1>15 DEF Cpu!RomOfA, Cpu!At, Cpu!a64, CpuPcsOfA, Cpu!Set, Cpu!Goto
<1>16. CASE Cpu!RomLeft
  BY <1>0, <1>1, <1>2, <1>3, <1>16 DEF Cpu!RomLeft, Cpu!At, Cpu!a64, CpuPcsOfA, Cpu!Goto,
     Cpu!Run
<1>17. CASE Cpu!BootNextNoStack
  BY <1>0, <1>1, <1>2, <1>3, <1>17 DEF Cpu!BootNextNoStack, Cpu!At, Cpu!a64, CpuPcsOfA,
     Cpu!Goto, Cpu!Run
<1>18. CASE Cpu!HandsOver
  BY <1>0, <1>1, <1>2, <1>3, <1>18 DEF Cpu!HandsOver, Cpu!At, Cpu!a64, CpuPcsOfA, Cpu!Set,
     Cpu!Goto
<1>19. ASSUME NEW c \in Cpu!Cores, Cpu!HartStart(c) PROVE CpuTypeInv' /\ UNCHANGED Cpu!fixed
  BY <1>0, <1>1, <1>2, <1>19 DEF Cpu!HartStart, Cpu!At, Cpu!a64, CpuPcsOfB, Cpu!Set, Cpu!Goto
<1>20. ASSUME NEW c \in Cpu!Cores, Cpu!TakeMail(c) PROVE CpuTypeInv' /\ UNCHANGED Cpu!fixed
  BY <1>0, <1>1, <1>2, <1>20 DEF Cpu!TakeMail, Cpu!At, Cpu!a64, CpuPcsOfB, Cpu!Set, Cpu!Goto
<1>21. ASSUME NEW c \in Cpu!Cores, Cpu!PutMailBack(c) PROVE CpuTypeInv' /\ UNCHANGED Cpu!fixed
  BY <1>0, <1>1, <1>2, <1>21 DEF Cpu!PutMailBack, Cpu!At, Cpu!a64, CpuPcsOfB, Cpu!Set, Cpu!Goto,
     Cpu!Run
<1>22. ASSUME NEW c \in Cpu!Cores, Cpu!Restart(c) PROVE CpuTypeInv' /\ UNCHANGED Cpu!fixed
  BY <1>0, <1>1, <1>2, <1>22 DEF Cpu!Restart, Cpu!At, Cpu!a64, CpuPcsOfSmp, CpuPcsOfBoss,
     Cpu!Goto, Cpu!Run
<1>23. ASSUME NEW c \in Cpu!Cores, Cpu!RomSmp(c) PROVE CpuTypeInv' /\ UNCHANGED Cpu!fixed
  BY <1>0, <1>1, <1>2, <1>23 DEF Cpu!RomSmp, Cpu!At, Cpu!a64, CpuPcsOfSmp, Cpu!Goto
<1>24. ASSUME NEW c \in Cpu!Cores, Cpu!BootCpuN(c) PROVE CpuTypeInv' /\ UNCHANGED Cpu!fixed
  BY <1>0, <1>1, <1>2, <1>24 DEF Cpu!BootCpuN, Cpu!At, Cpu!a64, CpuPcsOfSmp, Cpu!Goto, Cpu!Run
<1> QED BY <1>4, <1>5, <1>6, <1>7, <1>8, <1>9, <1>10, <1>11, <1>12, <1>13, <1>14, <1>15, <1>16,
   <1>17, <1>18, <1>19, <1>20, <1>21, <1>22, <1>23, <1>24 DEF Cpu!StepOfBoss, Cpu!StepOfA,
   Cpu!StepOf

-----------------------------------------------------------------------------
LEMMA CpuNextInv ==
    ASSUME Cpu!CpuWakeAssumption, CpuInv, [Cpu!Next]_(Cpu!vars)
    PROVE  CpuInv'
<1>1. CASE Cpu!Next
  <2>1. Cpu!StepOfBoss \/ Cpu!StepOfA \/ \E c \in Cpu!Cores : Cpu!StepOf(c)
    BY <1>1 DEF Cpu!Next
  <2>2. CpuTypeInv' /\ UNCHANGED Cpu!fixed
    BY <2>1, CpuTyped DEF CpuInv
  <2>3. (CpuTwo' <=> CpuTwo) /\ (CpuFour' <=> CpuFour) /\ cpuPlat' = cpuPlat
    BY <2>2 DEF Cpu!fixed, CpuTwo, CpuFour
  <2>4. CpuTwo => CpuWakeInv' /\ (cpuPlat = "i143" => CpuMailInv')
    BY <2>1, <2>2, CpuStepOfTwo
  <2>5. CpuFour => CpuSmpInv'
    BY <2>1, <2>2, CpuStepOfFour
  <2> QED BY <2>2, <2>3, <2>4, <2>5 DEF CpuInv, CpuTwo
<1>2. CASE UNCHANGED Cpu!vars
  <2>1. /\ UNCHANGED <<cpuPlat, cpuTable, cpuBoth>> /\ UNCHANGED <<cpuPc, cpuWord, cpuT1, cpuRan>>
        /\ UNCHANGED <<cpuPos, cpuVector, cpuCode, cpuClosed>>
    BY <1>2 DEF Cpu!vars, Cpu!fixed, Cpu!a64
  <2>2. CpuTypeInv' <=> CpuTypeInv
    BY <2>1 DEF CpuTypeInv
  <2>3. (CpuWakeInv' <=> CpuWakeInv) /\ (CpuMailInv' <=> CpuMailInv)
    BY <2>1 DEF CpuWakeInv, CpuMailInv
  <2>4. CpuSmpInv' <=> CpuSmpInv
    BY <2>1 DEF CpuSmpInv
  <2> QED BY <2>1, <2>2, <2>3, <2>4 DEF CpuInv, CpuTwo, CpuFour
<1> QED BY <1>1, <1>2

LEMMA CpuInvSuffices ==
    ASSUME Cpu!CpuWakeAssumption, CpuInv
    PROVE  Cpu!StartsWhereTold
<1>1. cpuPlat \in Cpu!AllPlatforms /\ (cpuPlat \notin Cpu!Cold => cpuTable = "whole") /\ (cpuPlat = "q628" => cpuBoth)
  BY DEF CpuInv, CpuTypeInv
<1>2. CASE cpuPlat = "q628"
  <2>1. cpuRan[Cpu!A] \in {"none", Cpu!ForA} /\ cpuRan[Cpu!Boss] \in {"none", Cpu!TargetOfB}
    BY <1>2 DEF CpuInv, CpuTwo, CpuWakeInv
  <2>2. Cpu!Used = {Cpu!A, Cpu!Boss} /\ Cpu!A # Cpu!Boss /\ Cpu!Told(Cpu!A) = Cpu!ForA /\ Cpu!Told(Cpu!Boss) = Cpu!TargetOfB
    BY <1>1, <1>2, CpuUsedIs, CpuCoresApart DEF Cpu!Told
  <2> QED BY <2>1, <2>2 DEF Cpu!StartsWhereTold, Cpu!ForA, Cpu!TargetOfB
<1>3. CASE cpuPlat = "i143"
  <2>1. cpuRan[Cpu!A] \in {"none", Cpu!ForA} /\ \A h \in CpuRiscv : cpuRan[h] \in {"none", Cpu!TargetOfB}
    BY <1>3 DEF CpuInv, CpuTwo, CpuWakeInv, CpuMailInv
  <2>2. /\ \A c \in Cpu!Used : c = Cpu!A \/ c \in CpuRiscv
        /\ Cpu!Told(Cpu!A) = Cpu!ForA /\ \A c \in CpuRiscv : Cpu!Told(c) = Cpu!TargetOfB
    BY <1>1, <1>3, CpuUsedIs, CpuCoresApart DEF Cpu!Told, CpuRiscv
  <2> QED BY <2>1, <2>2 DEF Cpu!StartsWhereTold, Cpu!ForA, Cpu!TargetOfB
<1>4. CASE CpuFour
  <2>1. \A c \in {Cpu!Boss} \cup Cpu!Smp : cpuRan[c] # "none" => (cpuPlat # "q645" => cpuClosed) /\ (cpuTable = "whole" => cpuRan[c] = "bl31")
    BY <1>4 DEF CpuInv, CpuSmpInv, CpuLate
  <2>2. Cpu!Used = {Cpu!Boss} \cup Cpu!Smp /\ \A c \in Cpu!Used : Cpu!Told(c) = "bl31"
    BY <1>1, <1>4, CpuUsedIs DEF Cpu!Told, CpuFour, Cpu!Cold
  <2> QED BY <2>1, <2>2 DEF Cpu!StartsWhereTold
<1> QED BY <1>1, <1>2, <1>3, <1>4 DEF Cpu!AllPlatforms, CpuFour

-----------------------------------------------------------------------------
(* ImageVerify                                                              *)
VerFixedInv ==
    /\ verChip \in {"q628", "q645", "sp7350"} /\ verBuild \in BOOLEAN /\ verSecure \in BOOLEAN
    /\ verEncrypted \in [Ver!Images -> BOOLEAN]
    /\ verChip # "sp7350" => ~verEncrypted["uboot"]
    /\ verChip = "q628" => verBuild /\ ~verEncrypted["fip"]
    /\ verChip = "sp7350" => verBuild
    /\ VerifyPieces \in Nat \ {0}

VerMatter == {"cipher", "clear", "spoilt"}
VerTyped ==
    /\ verImg \in Ver!Images /\ verN \in 0 .. VerifyPieces
    /\ verBody \in [Ver!Images -> [1 .. VerifyPieces -> VerMatter]]
    /\ verSign \in [Ver!Images -> {"sign", "zero", "padding"}]
    /\ verRet \in [Ver!Images -> {"none", "ok", "fail"}]
    /\ verHash \in Seq(VerMatter \cup {"sign", "zero", "padding"})

(* An image as it was sent, and one nobody has looked at.                   *)
VerAsSent(k) == [p \in 1 .. VerifyPieces |-> Ver!Shipped(k)]
VerFresh(k) == verBody[k] = VerAsSent(k) /\ verSign[k] = "sign" /\ verRet[k] = "none"
VerFreshInv ==
    /\ verImg = "uboot" => VerFresh("fip")
    /\ verPc = "verify" => VerFresh(verImg)
    /\ verPc # "over" => verRet[verImg] = "none"

VerDecided(k) ==
    verRet[k] # "none" =>
        /\ verRet[k] = "ok" <=> Ver!Accepted(k)
        /\ verRet[k] = "ok" /\ verBuild => \A p \in 1 .. VerifyPieces : verBody[k][p] = "clear"
VerDecidedInv == \A k \in Ver!Images : VerDecided(k)

VerIdleInv == verPc \in {"verify", "over"} => ~verDcache /\ verJob = "none" /\ verSECIF = {}

VerQ628Inv ==
    verChip = "q628" =>
        /\ verPc \in {"verify", "rom", "over"} /\ verJob = "none" /\ verSECIF = {}
        /\ verPc = "rom" => verSecure /\ ~Ver!Has("no info") /\ verBody[verImg] = VerAsSent(verImg)
        /\ verImg = "uboot"

VerQ645Inv ==
    verChip = "q645" =>
        /\ verPc \in {"verify", "key", "hash", "signature", "session", "decrypt", "over"}
        /\ verJob = "none" /\ verSECIF = {}
        /\ verPc \in {"key", "hash", "signature", "session", "decrypt"} =>
               verBuild /\ verSecure /\ ~Ver!Has("no info") /\ ~Ver!Has("unsigned") /\ verBody[verImg] = VerAsSent(verImg)
        /\ verPc = "key" => verSign[verImg] = "sign"
        /\ verPc \in {"hash", "signature", "session", "decrypt"} =>
               verKept = "sign" /\ verSign[verImg] = "zero" /\ verSbKpub = "right" /\ ~Ver!Has("foreign key")
        /\ verPc = "signature" => verHash = Append(VerAsSent(verImg), "zero")
        /\ verPc \in {"session", "decrypt"} => ~Ver!Has("altered") /\ verImg = "fip" /\ verEncrypted[verImg]
        /\ verPc = "decrypt" => verDevKpriv = "right" /\ ~Ver!Has("foreign device") /\ ~Ver!Has("session")

(* The engine is at work on what the core waits for, or has done it.        *)
VerWorking(unit) == verJob = unit /\ verSECIF = {}
VerWorkDone(unit) == verJob = "none" /\ verSECIF = {unit}
VerQuiet == verJob = "none" /\ verSECIF = {}

VerHashedTo(k) == Len(verHash) = k /\ \A p \in 1 .. k : verHash[p] = Ver!Shipped(verImg)
VerClearTo(k) == \A p \in 1 .. VerifyPieces : verBody[verImg][p] = IF p <= k THEN "clear" ELSE "cipher"

VerSp7350Inv ==
    verChip = "sp7350" =>
        /\ verPc \in {"verify", "rsa", "pad", "hash", "hashing", "decrypting", "decrypt", "result", "over"}
        /\ ~verDcache
        /\ verPc = "rsa" => /\ VerWorking("RSA") \/ (VerWorkDone("RSA") /\ verDst = "hash")
                            /\ VerFresh(verImg)
        /\ verPc = "pad" => VerQuiet /\ verDst = "hash" /\ verBody[verImg] = VerAsSent(verImg)
        /\ verPc = "hash" => VerQuiet /\ verDst = "hash" /\ verBody[verImg] = VerAsSent(verImg) /\ VerHashedTo(verN)
        /\ verPc = "hashing" =>
               /\ verN >= 1 /\ verDst = "hash" /\ verBody[verImg] = VerAsSent(verImg)
               /\ \/ VerWorking("HASH") /\ VerHashedTo(verN - 1)
                  \/ VerWorkDone("HASH") /\ VerHashedTo(verN)
        /\ verPc \in {"decrypting", "decrypt", "result"} => (verGood <=> ~Ver!Has("altered"))
        /\ verPc \in {"decrypting", "decrypt"} => verEncrypted[verImg]
        /\ verPc = "decrypting" =>
               \/ VerWorking("AES") /\ VerClearTo(verN - 1)
               \/ VerWorkDone("AES") /\ VerClearTo(verN)
        /\ verPc = "decrypt" => VerQuiet /\ VerClearTo(verN)
        /\ verPc = "result" => VerQuiet /\ VerClearTo(VerifyPieces)

VerInv == VerFixedInv /\ VerTyped /\ VerFreshInv /\ VerDecidedInv /\ VerIdleInv /\ VerQ628Inv /\ VerQ645Inv /\ VerSp7350Inv

-----------------------------------------------------------------------------
LEMMA VerSteady ==
    ASSUME UNCHANGED Ver!fixed, NEW k \in Ver!Images
    PROVE  /\ Ver!Accepted(k)' <=> Ver!Accepted(k)
           /\ Ver!Shipped(k)' = Ver!Shipped(k)
           /\ VerAsSent(k)' = VerAsSent(k)
  BY DEF Ver!fixed, Ver!Accepted, Ver!Free, Ver!Shipped, VerAsSent

LEMMA VerSentTyped ==
    ASSUME VerFixedInv, NEW k \in Ver!Images
    PROVE  /\ Ver!Shipped(k) \in {"cipher", "clear"}
           /\ VerAsSent(k) \in [1 .. VerifyPieces -> VerMatter]
  BY DEF VerFixedInv, Ver!Shipped, VerAsSent, VerMatter, Ver!Images

LEMMA VerInitInv ==
    ASSUME Ver!ImageVerifyAssumption, Ver!Init
    PROVE  VerInv
<1>1. VerFixedInv
  BY DEF VerFixedInv, Ver!Init, Ver!ImageVerifyAssumption
<1>2. VerifyPieces \in Nat \ {0}
  BY DEF Ver!ImageVerifyAssumption
<1>3. \A k \in Ver!Images : VerFresh(k)
  BY DEF Ver!Init, VerFresh, VerAsSent
<1>4. \A k \in Ver!Images : Ver!Shipped(k) \in VerMatter
  BY DEF Ver!Shipped, VerMatter
<1>5. verBody \in [Ver!Images -> [1 .. VerifyPieces -> VerMatter]]
  BY <1>4 DEF Ver!Init
<1>6. verSign \in [Ver!Images -> {"sign", "zero", "padding"}] /\ verRet \in [Ver!Images -> {"none", "ok", "fail"}]
  BY DEF Ver!Init
<1>7. verHash \in Seq(VerMatter \cup {"sign", "zero", "padding"})
  BY DEF Ver!Init
<1>8. VerTyped
  BY <1>2, <1>5, <1>6, <1>7 DEF VerTyped, Ver!Init, Ver!Images
<1>9. VerFreshInv
  BY <1>3 DEF VerFreshInv, Ver!Init, Ver!Images, VerFresh
<1>10. VerDecidedInv
  BY <1>3 DEF VerDecidedInv, VerDecided, VerFresh
<1>11. verPc = "verify" /\ verJob = "none" /\ verSECIF = {} /\ verDcache = FALSE /\ verImg = "uboot"
  BY DEF Ver!Init
<1>12. VerIdleInv /\ VerQ628Inv /\ VerQ645Inv
  BY <1>11 DEF VerIdleInv, VerQ628Inv, VerQ645Inv
<1>13. VerSp7350Inv
  BY <1>11 DEF VerSp7350Inv
<1> QED
  BY <1>1, <1>8, <1>9, <1>10, <1>12, <1>13 DEF VerInv

(* The types of what a step may write.                                      *)
VerKinds ==
    /\ verN \in 0 .. VerifyPieces
    /\ verBody \in [Ver!Images -> [1 .. VerifyPieces -> VerMatter]]
    /\ verSign \in [Ver!Images -> {"sign", "zero", "padding"}]
    /\ verHash \in Seq(VerMatter \cup {"sign", "zero", "padding"})

(* A step that goes on with the image looked at.                            *)
LEMMA VerGoingOn ==
    ASSUME VerInv, UNCHANGED <<Ver!fixed, verImg, verRet>>, verPc # "over", verPc' \notin {"verify", "over"}, VerKinds',
           \A k \in Ver!Images \ {verImg} : verBody'[k] = verBody[k] /\ verSign'[k] = verSign[k]
    PROVE  VerFixedInv' /\ VerTyped' /\ VerFreshInv' /\ VerDecidedInv' /\ VerIdleInv'
<1> USE DEF VerInv
<1>1. VerFixedInv'
  BY DEF VerFixedInv, Ver!fixed
<1>2. VerTyped'
  BY DEF VerTyped, VerKinds
<1>3. verRet[verImg] = "none"
  BY DEF VerFreshInv
<1>4. VerFreshInv'
  <2>1. ASSUME verImg = "uboot" PROVE VerFresh("fip")'
    <3>1. VerFresh("fip")
      BY <2>1 DEF VerFreshInv
    <3>2. verBody'["fip"] = verBody["fip"] /\ verSign'["fip"] = verSign["fip"]
      BY <2>1 DEF Ver!Images
    <3> QED
      BY <3>1, <3>2, VerSteady DEF VerFresh, Ver!Images
  <2> QED
    BY <1>3, <2>1 DEF VerFreshInv
<1>5. VerDecidedInv'
  <2> SUFFICES ASSUME NEW k \in Ver!Images, verRet'[k] # "none"
               PROVE  VerDecided(k)'
    BY DEF VerDecidedInv, VerDecided
  <2>1. k # verImg /\ verBody'[k] = verBody[k]
    BY <1>3
  <2>2. VerDecided(k)
    BY DEF VerDecidedInv
  <2> QED
    BY <2>1, <2>2, VerSteady DEF VerDecided, Ver!fixed
<1> QED
  BY <1>1, <1>2, <1>4, <1>5 DEF VerIdleInv

(* A verdict, if it is the right one.                                       *)
LEMMA VerRightVerdict ==
    ASSUME VerInv, UNCHANGED Ver!fixed, verPc # "over", NEW v \in {"ok", "fail"}, Ver!Verdict(v), VerKinds',
           v = "ok" <=> Ver!Accepted(verImg),
           v = "ok" /\ verBuild => \A p \in 1 .. VerifyPieces : verBody'[verImg][p] = "clear",
           \A k \in Ver!Images \ {verImg} : verBody'[k] = verBody[k] /\ verSign'[k] = verSign[k],
           verJob' = "none", verSECIF' = {}, verDcache' = FALSE
    PROVE  VerInv'
<1> USE DEF VerInv
<1>1. VerFixedInv'
  BY DEF VerFixedInv, Ver!fixed
<1>2. /\ verImg \in Ver!Images /\ verImg' \in Ver!Images /\ verPc' \in {"verify", "over"}
      /\ verChip' = verChip /\ (verChip = "q628" => verPc' = "over" /\ verImg' = verImg)
      /\ verPc' = "verify" => verImg = "uboot" /\ verImg' = "fip"
      /\ verPc' = "over" => verImg' = verImg
  BY DEF Ver!Verdict, VerTyped, Ver!Images, Ver!fixed
<1>3. verRet' = [verRet EXCEPT ![verImg] = v]
  BY DEF Ver!Verdict
<1>4. VerTyped'
  BY <1>2, <1>3 DEF VerTyped, VerKinds
<1>5. VerFreshInv'
  <2>1. ASSUME verImg = "uboot" PROVE VerFresh("fip")'
    <3>1. VerFresh("fip")
      BY <2>1 DEF VerFreshInv
    <3>2. verBody'["fip"] = verBody["fip"] /\ verSign'["fip"] = verSign["fip"] /\ verRet'["fip"] = verRet["fip"]
      BY <2>1, <1>3 DEF Ver!Images, VerTyped
    <3> QED
      BY <3>1, <3>2, VerSteady DEF VerFresh, Ver!Images
  <2> QED
    BY <1>2, <2>1 DEF VerFreshInv, Ver!Images, VerFresh
<1>6. VerDecidedInv'
  <2> SUFFICES ASSUME NEW k \in Ver!Images
               PROVE  VerDecided(k)'
    BY DEF VerDecidedInv
  <2>1. CASE k = verImg
    BY <2>1, <1>3, VerSteady DEF VerDecided, Ver!fixed, VerTyped
  <2>2. CASE k # verImg
    <3>1. verBody'[k] = verBody[k] /\ verRet'[k] = verRet[k]
      BY <2>2, <1>3 DEF VerTyped
    <3>2. VerDecided(k)
      BY DEF VerDecidedInv
    <3> QED
      BY <3>1, <3>2, VerSteady DEF VerDecided, Ver!fixed
  <2> QED
    BY <2>1, <2>2
<1>7. VerIdleInv' /\ VerQ628Inv' /\ VerQ645Inv'
  BY <1>2 DEF VerIdleInv, VerQ628Inv, VerQ645Inv
<1>8. VerSp7350Inv'
  BY <1>2 DEF VerSp7350Inv
<1> QED
  BY <1>1, <1>4, <1>5, <1>6, <1>7, <1>8

LEMMA VerKindsStay ==
    ASSUME VerInv, UNCHANGED <<verN, verBody, verSign, verHash>>
    PROVE  VerKinds'
  BY DEF VerInv, VerTyped, VerKinds

(* The engine is a part of SP7350 only.                                     *)
LEMMA VerNoEngine ==
    ASSUME VerInv, verChip # "sp7350"
    PROVE  verJob = "none" /\ verSECIF = {}
  BY DEF VerInv, VerFixedInv, VerQ628Inv, VerQ645Inv

LEMMA VerOtherChip ==
    ASSUME verChip' \in {"q628", "q645", "sp7350"}
    PROVE  /\ verChip' # "q628" => VerQ628Inv'
           /\ verChip' # "q645" => VerQ645Inv'
           /\ verChip' # "sp7350" => VerSp7350Inv'
  BY DEF VerQ628Inv, VerQ645Inv, VerSp7350Inv

LEMMA VerGoingOnFor ==
    ASSUME VerFixedInv', VerTyped', VerFreshInv', VerDecidedInv', VerIdleInv',
           \/ verChip' = "q628" /\ VerQ628Inv'
           \/ verChip' = "q645" /\ VerQ645Inv'
           \/ verChip' = "sp7350" /\ VerSp7350Inv'
    PROVE  VerInv'
<1>1. verChip' \in {"q628", "q645", "sp7350"}
  BY DEF VerFixedInv
<1> QED
  BY <1>1, VerOtherChip DEF VerInv

-----------------------------------------------------------------------------
LEMMA VerQ628Step ==
    ASSUME VerInv, Ver!Q628
    PROVE  VerInv'
<1>1. /\ verChip = "q628" /\ verPc = "verify" /\ UNCHANGED Ver!fixed /\ UNCHANGED Ver!memory /\ UNCHANGED Ver!engine
      /\ verJob = "none" /\ verSECIF = {} /\ ~verDcache /\ verBuild /\ verChip' = verChip
      /\ verImg \in Ver!Images /\ verImg = "uboot" /\ ~verEncrypted[verImg]
  BY VerNoEngine DEF Ver!Q628, Ver!At, VerInv, VerIdleInv, VerQ628Inv, VerFixedInv, Ver!fixed,
     Ver!Images
<1>2. VerKinds'
  BY <1>1, VerKindsStay DEF Ver!memory, Ver!engine
<1>3. verBody[verImg] = VerAsSent(verImg)
  BY <1>1 DEF VerInv, VerFreshInv, VerFresh
<1>4. CASE verSecure /\ ~Ver!Has("no info")
  <2>1. verPc' = "rom" /\ UNCHANGED <<verRet, verImg>>
    BY <1>4 DEF Ver!Q628
  <2>2. VerFixedInv' /\ VerTyped' /\ VerFreshInv' /\ VerDecidedInv' /\ VerIdleInv'
    BY <1>1, <1>2, <2>1, VerGoingOn DEF Ver!memory
  <2>3. VerQ628Inv'
    BY <1>1, <1>3, <1>4, <2>1, VerSteady DEF VerQ628Inv, Ver!memory, Ver!engine, Ver!fixed,
       Ver!Has
  <2> QED
    BY <1>1, <2>2, <2>3, VerGoingOnFor
<1>5. CASE ~(verSecure /\ ~Ver!Has("no info"))
  <2> DEFINE v == IF verSecure THEN "fail" ELSE "ok"
  <2>1. Ver!Verdict(v) /\ UNCHANGED verDcache /\ v \in {"ok", "fail"}
    BY <1>5 DEF Ver!Q628
  <2>2. verDcache' = FALSE
    BY <1>1, <2>1
  <2>3. v = "ok" <=> Ver!Accepted(verImg)
    BY <1>1, <1>5 DEF Ver!Accepted, Ver!Free, Ver!Has
  <2>4. \A p \in 1 .. VerifyPieces : verBody'[verImg][p] = "clear"
    BY <1>1, <1>3 DEF VerAsSent, Ver!Shipped, Ver!memory
  <2> HIDE DEF v
  <2> QED
    BY <1>1, <1>2, <2>1, <2>2, <2>3, <2>4, VerRightVerdict DEF Ver!memory, Ver!engine
<1> QED
  BY <1>4, <1>5

LEMMA VerQ628RomStep ==
    ASSUME VerInv, Ver!Q628Rom
    PROVE  VerInv'
<1>1. /\ verChip = "q628" /\ verPc = "rom" /\ UNCHANGED Ver!fixed /\ UNCHANGED Ver!memory /\ UNCHANGED Ver!engine
      /\ verJob = "none" /\ verSECIF = {} /\ verBuild /\ verSecure /\ ~Ver!Has("no info") /\ verDcache' = FALSE
      /\ verImg \in Ver!Images /\ verImg = "uboot" /\ ~verEncrypted[verImg] /\ verBody[verImg] = VerAsSent(verImg)
  BY VerNoEngine DEF Ver!Q628Rom, Ver!At, VerInv, VerQ628Inv, VerFixedInv, Ver!Images
<1>2. VerKinds'
  BY <1>1, VerKindsStay DEF Ver!memory, Ver!engine
<1> DEFINE v == IF verSbKpub = "right" /\ ~Ver!Has("altered") /\ ~Ver!Has("foreign key") THEN "ok" ELSE "fail"
<1>3. Ver!Verdict(v) /\ v \in {"ok", "fail"}
  BY DEF Ver!Q628Rom
<1>4. v = "ok" <=> Ver!Accepted(verImg)
  BY <1>1 DEF Ver!Accepted, Ver!Free, Ver!Has
<1>5. \A p \in 1 .. VerifyPieces : verBody'[verImg][p] = "clear"
  BY <1>1 DEF VerAsSent, Ver!Shipped, Ver!memory
<1> HIDE DEF v
<1> QED
  BY <1>1, <1>2, <1>3, <1>4, <1>5, VerRightVerdict DEF Ver!memory, Ver!engine

-----------------------------------------------------------------------------
(* A way out of q645_image_verify_decrypt that leaves the image as it is.   *)
LEMMA VerQ645Out ==
    ASSUME VerInv, verChip = "q645", verPc # "over", UNCHANGED Ver!fixed, VerKinds', UNCHANGED <<verBody, verSign>>, UNCHANGED Ver!engine,
           NEW v \in {"ok", "fail"}, Ver!Verdict(v), verDcache' = FALSE, v = "ok" <=> Ver!Accepted(verImg),
           v = "ok" /\ verBuild => ~verEncrypted[verImg] /\ verBody[verImg] = VerAsSent(verImg)
    PROVE  VerInv'
<1>1. verJob' = "none" /\ verSECIF' = {}
  BY VerNoEngine DEF Ver!engine
<1>2. v = "ok" /\ verBuild => \A p \in 1 .. VerifyPieces : verBody'[verImg][p] = "clear"
  BY DEF VerAsSent, Ver!Shipped
<1> QED
  BY <1>1, <1>2, VerRightVerdict

LEMMA VerQ645Step ==
    ASSUME VerInv, Ver!Q645
    PROVE  VerInv'
<1>1. /\ verChip = "q645" /\ verPc = "verify" /\ UNCHANGED Ver!fixed /\ UNCHANGED Ver!memory /\ UNCHANGED Ver!engine
      /\ verJob = "none" /\ verSECIF = {} /\ ~verDcache /\ verChip' = verChip /\ verImg \in Ver!Images
      /\ verBody[verImg] = VerAsSent(verImg) /\ verSign[verImg] = "sign" /\ verBuild \in BOOLEAN /\ verSecure \in BOOLEAN
  BY VerNoEngine DEF Ver!Q645, Ver!At, VerInv, VerIdleInv, VerFixedInv, Ver!fixed, VerTyped,
     VerFreshInv, VerFresh
<1>2. VerKinds' /\ UNCHANGED <<verBody, verSign>>
  BY <1>1, VerKindsStay DEF Ver!memory, Ver!engine
<1>3. CASE ~verBuild
  <2>1. Ver!Verdict("ok") /\ verDcache' = FALSE
    <3>1. Ver!Verdict("ok") /\ UNCHANGED verDcache
      BY <1>3 DEF Ver!Q645
    <3> QED
      BY <1>1, <3>1
  <2>2. Ver!Accepted(verImg)
    BY <1>1, <1>3 DEF Ver!Accepted
  <2> QED
    BY <1>1, <1>2, <1>3, <2>1, <2>2, VerQ645Out
<1>4. CASE verBuild /\ (~verSecure \/ Ver!Has("no info") \/ Ver!Has("unsigned"))
  <2>1. Ver!Verdict("fail") /\ verDcache' = FALSE
    <3>1. Ver!Verdict("fail") /\ UNCHANGED verDcache
      BY <1>4 DEF Ver!Q645
    <3> QED
      BY <1>1, <3>1
  <2>2. ~Ver!Accepted(verImg)
    BY <1>1, <1>4 DEF Ver!Accepted, Ver!Free, Ver!Has
  <2> QED
    BY <1>1, <1>2, <2>1, <2>2, VerQ645Out
<1>5. CASE verBuild /\ verSecure /\ ~Ver!Has("no info") /\ ~Ver!Has("unsigned")
  <2>1. verDcache' = TRUE /\ verPc' = "key" /\ UNCHANGED <<verRet, verImg>>
    BY <1>5 DEF Ver!Q645
  <2>2. VerFixedInv' /\ VerTyped' /\ VerFreshInv' /\ VerDecidedInv' /\ VerIdleInv'
    BY <1>1, <1>2, <2>1, VerGoingOn
  <2>3. VerQ645Inv'
    BY <1>1, <1>2, <1>5, <2>1, VerSteady DEF VerQ645Inv, Ver!engine, Ver!fixed, Ver!Has
  <2> QED
    BY <1>1, <2>2, <2>3, VerGoingOnFor
<1> QED
  BY <1>1, <1>3, <1>4, <1>5

LEMMA VerLoadKeyStep ==
    ASSUME VerInv, Ver!LoadKey
    PROVE  VerInv'
<1>1. /\ verChip = "q645" /\ verPc = "key" /\ UNCHANGED Ver!fixed /\ UNCHANGED <<verBody, verHash, verDst, verGood>> /\ UNCHANGED Ver!engine
      /\ verJob = "none" /\ verSECIF = {} /\ verChip' = verChip /\ verImg \in Ver!Images
      /\ verBody[verImg] = VerAsSent(verImg) /\ verSign[verImg] = "sign"
      /\ verBuild /\ verSecure /\ ~Ver!Has("no info") /\ ~Ver!Has("unsigned")
  BY VerNoEngine DEF Ver!LoadKey, Ver!At, VerInv, VerFixedInv, Ver!fixed, VerTyped, VerQ645Inv
<1>2. CASE verSbKpub = "right" /\ ~Ver!Has("foreign key")
  <2>1. /\ verKept' = "sign" /\ verSign' = [verSign EXCEPT ![verImg] = "zero"] /\ verPc' = "hash"
        /\ UNCHANGED <<verDcache, verRet, verImg>>
    BY <1>1, <1>2 DEF Ver!LoadKey, Ver!SignatureTakenOut
  <2>2. VerKinds' /\ verSign'[verImg] = "zero" /\ \A k \in Ver!Images \ {verImg} : verSign'[k] = verSign[k]
    BY <1>1, <2>1 DEF VerKinds, VerInv, VerTyped, Ver!engine
  <2>3. VerFixedInv' /\ VerTyped' /\ VerFreshInv' /\ VerDecidedInv' /\ VerIdleInv'
    BY <1>1, <2>1, <2>2, VerGoingOn
  <2>4. VerQ645Inv'
    BY <1>1, <1>2, <2>1, <2>2, VerSteady DEF VerQ645Inv, Ver!engine, Ver!fixed, Ver!Has
  <2> QED
    BY <1>1, <2>3, <2>4, VerGoingOnFor
<1>3. CASE ~(verSbKpub = "right" /\ ~Ver!Has("foreign key"))
  <2>1. Ver!Verdict("fail") /\ verDcache' = FALSE /\ UNCHANGED <<verBody, verSign>>
    BY <1>1, <1>3 DEF Ver!LoadKey, Ver!Out
  <2>2. ~Ver!Accepted(verImg)
    BY <1>1, <1>3 DEF Ver!Accepted, Ver!Free, Ver!Has
  <2>3. VerKinds'
    BY <1>1, <2>1, VerKindsStay DEF Ver!engine
  <2> QED
    BY <1>1, <2>1, <2>2, <2>3, VerQ645Out
<1> QED
  BY <1>2, <1>3

(* What the ROM says of an image on Q645 once its hash is made.             *)
VerQ645Ready ==
    /\ verChip = "q645" /\ verBuild /\ verSecure /\ verImg \in Ver!Images /\ ~Ver!Has("no info") /\ ~Ver!Has("unsigned")
    /\ verBody[verImg] = VerAsSent(verImg) /\ verKept = "sign" /\ verSign[verImg] = "zero"
    /\ verSbKpub = "right" /\ ~Ver!Has("foreign key")

LEMMA VerHashStep ==
    ASSUME VerInv, Ver!Hash
    PROVE  VerInv'
<1>1. /\ VerQ645Ready /\ verPc = "hash" /\ UNCHANGED Ver!fixed /\ UNCHANGED <<verImg, verBody, verSign, verKept, verDst, verGood, verDcache, verRet>>
      /\ UNCHANGED Ver!engine /\ verJob = "none" /\ verSECIF = {} /\ verChip' = verChip /\ verPc' = "signature"
  BY VerNoEngine DEF Ver!Hash, Ver!At, VerInv, VerFixedInv, Ver!fixed, VerTyped, VerQ645Inv,
     VerQ645Ready
<1>2. verHash' = Append(VerAsSent(verImg), "zero")
  BY <1>1 DEF Ver!Hash, VerQ645Ready
<1>3. VerifyPieces \in Nat /\ VerAsSent(verImg) \in [1 .. VerifyPieces -> VerMatter]
  <2>1. VerifyPieces \in Nat
    BY DEF VerInv, VerFixedInv
  <2> QED
    BY <1>1, <2>1, VerSentTyped DEF VerInv, VerQ645Ready
<1>4. VerAsSent(verImg) \in Seq(VerMatter \cup {"sign", "zero", "padding"})
  BY <1>3
<1>5. verHash' \in Seq(VerMatter \cup {"sign", "zero", "padding"})
  BY <1>2, <1>4
<1>6. VerKinds'
  BY <1>1, <1>5 DEF VerKinds, VerInv, VerTyped, Ver!engine
<1>7. VerFixedInv' /\ VerTyped' /\ VerFreshInv' /\ VerDecidedInv' /\ VerIdleInv'
  BY <1>1, <1>6, VerGoingOn
<1>8. VerQ645Inv'
  BY <1>1, <1>2, VerSteady DEF VerQ645Inv, Ver!engine, Ver!fixed, Ver!Has, VerQ645Ready
<1> QED
  BY <1>1, <1>7, <1>8, VerGoingOnFor DEF VerQ645Ready

(* What was signed ends in the image's sb_info, the signature taken out.    *)
LEMMA VerAppendIsConcat ==
    ASSUME NEW m \in Nat, NEW S, NEW s \in [1 .. m -> S], NEW e \in S
    PROVE  Append(s, e) = s \o <<e>>
<1>1. s \in Seq(S) /\ Len(s) = m
  OBVIOUS
<1>2. Len(Append(s, e)) = m + 1 /\ Len(s \o <<e>>) = m + 1
  BY <1>1
<1>3. \A i \in 1 .. m + 1 : Append(s, e)[i] = (s \o <<e>>)[i]
  BY <1>1
<1>4. Append(s, e) \in Seq(S) /\ s \o <<e>> \in Seq(S)
  BY <1>1
<1> QED
  BY <1>2, <1>3, <1>4

LEMMA VerVerifyStep ==
    ASSUME VerInv, Ver!Verify
    PROVE  VerInv'
<1>1. /\ VerQ645Ready /\ verPc = "signature" /\ UNCHANGED Ver!fixed /\ UNCHANGED Ver!memory /\ UNCHANGED Ver!engine
      /\ verJob = "none" /\ verSECIF = {} /\ verChip' = verChip /\ verHash = Append(VerAsSent(verImg), "zero")
      /\ verEncrypted["uboot"] = FALSE /\ verImg \in Ver!Images /\ verEncrypted[verImg] \in BOOLEAN
  BY VerNoEngine DEF Ver!Verify, Ver!At, VerInv, VerFixedInv, Ver!fixed, VerTyped, VerQ645Inv,
     VerQ645Ready, Ver!Images
<1>2. VerKinds' /\ UNCHANGED <<verBody, verSign>>
  BY <1>1, VerKindsStay DEF Ver!memory, Ver!engine
<1>3. VerifyPieces \in Nat /\ VerAsSent(verImg) \in [1 .. VerifyPieces -> VerMatter]
  <2>1. VerifyPieces \in Nat
    BY DEF VerInv, VerFixedInv
  <2> QED
    BY <1>1, <2>1, VerSentTyped DEF VerInv
<1>4. VerAsSent(verImg) \in [1 .. VerifyPieces -> VerMatter \cup {"zero"}]
  BY <1>3
<1>5. verHash = VerAsSent(verImg) \o <<"zero">>
  <2>1. "zero" \in VerMatter \cup {"zero"}
    OBVIOUS
  <2>2. Append(VerAsSent(verImg), "zero") = VerAsSent(verImg) \o <<"zero">>
    BY <1>3, <1>4, <2>1, VerAppendIsConcat
  <2> QED BY <1>1, <2>2
<1>6. Ver!Signed <=> ~Ver!Has("altered")
  BY <1>1, <1>5 DEF Ver!Signed, VerAsSent, VerQ645Ready
<1>7. CASE Ver!Has("altered")
  <2>1. Ver!Verdict("fail") /\ verDcache' = FALSE
    BY <1>1, <1>6, <1>7 DEF Ver!Verify, Ver!Out
  <2>2. ~Ver!Accepted(verImg)
    BY <1>1, <1>7 DEF Ver!Accepted, Ver!Free, Ver!Has, VerQ645Ready
  <2> QED
    BY <1>1, <1>2, <2>1, <2>2, VerQ645Out DEF VerQ645Ready
<1>8. CASE ~Ver!Has("altered") /\ (verImg = "uboot" \/ ~verEncrypted[verImg])
  <2>1. Ver!Verdict("ok") /\ verDcache' = FALSE
    BY <1>1, <1>6, <1>8 DEF Ver!Verify, Ver!Out, VerQ645Ready
  <2>2. Ver!Accepted(verImg) /\ ~verEncrypted[verImg]
    BY <1>1, <1>8 DEF Ver!Accepted, Ver!Free, Ver!Has, VerQ645Ready
  <2> QED
    BY <1>1, <1>2, <2>1, <2>2, VerQ645Out DEF VerQ645Ready
<1>9. CASE ~Ver!Has("altered") /\ verImg # "uboot" /\ verEncrypted[verImg]
  <2>1. verPc' = "session" /\ UNCHANGED <<verDcache, verRet, verImg>> /\ verImg = "fip"
    BY <1>1, <1>6, <1>9 DEF Ver!Verify, Ver!Out, VerQ645Ready, Ver!Images
  <2>2. VerFixedInv' /\ VerTyped' /\ VerFreshInv' /\ VerDecidedInv' /\ VerIdleInv'
    BY <1>1, <1>2, <2>1, VerGoingOn
  <2>3. VerQ645Inv'
    BY <1>1, <1>9, <2>1, VerSteady DEF VerQ645Inv, Ver!engine, Ver!memory, Ver!fixed, Ver!Has,
       VerQ645Ready
  <2> QED
    BY <1>1, <2>2, <2>3, VerGoingOnFor DEF VerQ645Ready
<1> QED
  BY <1>1, <1>7, <1>8, <1>9

LEMMA VerSessionStep ==
    ASSUME VerInv, Ver!Session
    PROVE  VerInv'
<1>1. /\ VerQ645Ready /\ verPc = "session" /\ UNCHANGED Ver!fixed /\ UNCHANGED Ver!memory /\ UNCHANGED Ver!engine
      /\ verJob = "none" /\ verSECIF = {} /\ verChip' = verChip
      /\ verImg = "fip" /\ verEncrypted[verImg] /\ ~Ver!Has("altered")
  BY VerNoEngine DEF Ver!Session, Ver!At, VerInv, VerFixedInv, Ver!fixed, VerTyped, VerQ645Inv,
     VerQ645Ready
<1>2. VerKinds' /\ UNCHANGED <<verBody, verSign>>
  BY <1>1, VerKindsStay DEF Ver!memory, Ver!engine
<1>3. CASE verDevKpriv = "right" /\ ~Ver!Has("foreign device") /\ ~Ver!Has("session")
  <2>1. verPc' = "decrypt" /\ UNCHANGED <<verDcache, verRet, verImg>>
    BY <1>3 DEF Ver!Session
  <2>2. VerFixedInv' /\ VerTyped' /\ VerFreshInv' /\ VerDecidedInv' /\ VerIdleInv'
    BY <1>1, <1>2, <2>1, VerGoingOn
  <2>3. VerQ645Inv'
    BY <1>1, <1>3, <2>1, VerSteady DEF VerQ645Inv, Ver!engine, Ver!memory, Ver!fixed, Ver!Has,
       VerQ645Ready
  <2> QED
    BY <1>1, <2>2, <2>3, VerGoingOnFor DEF VerQ645Ready
<1>4. CASE ~(verDevKpriv = "right" /\ ~Ver!Has("foreign device") /\ ~Ver!Has("session"))
  <2>1. Ver!Verdict("fail") /\ verDcache' = FALSE
    BY <1>4 DEF Ver!Session, Ver!Out
  <2>2. ~Ver!Accepted(verImg)
    BY <1>1, <1>4 DEF Ver!Accepted, Ver!Free, Ver!Has, VerQ645Ready
  <2> QED
    BY <1>1, <1>2, <2>1, <2>2, VerQ645Out DEF VerQ645Ready
<1> QED
  BY <1>3, <1>4

LEMMA VerDecryptStep ==
    ASSUME VerInv, Ver!Decrypt
    PROVE  VerInv'
<1>1. /\ VerQ645Ready /\ verPc = "decrypt" /\ UNCHANGED Ver!fixed /\ UNCHANGED <<verSign, verKept, verHash, verDst, verGood>>
      /\ UNCHANGED Ver!engine /\ verJob = "none" /\ verSECIF = {} /\ verChip' = verChip
      /\ verImg = "fip" /\ verEncrypted[verImg] /\ ~Ver!Has("altered")
      /\ verDevKpriv = "right" /\ ~Ver!Has("foreign device") /\ ~Ver!Has("session")
  BY VerNoEngine DEF Ver!Decrypt, Ver!At, VerInv, VerFixedInv, Ver!fixed, VerTyped, VerQ645Inv,
     VerQ645Ready
<1> DEFINE v == IF Ver!Has("cut") THEN "fail" ELSE "ok"
           plain == [p \in 1 .. VerifyPieces |-> IF Ver!Has("cut") THEN "spoilt" ELSE Ver!Decrypted(verBody[verImg][p])]
<1>2. verBody' = [verBody EXCEPT ![verImg] = plain] /\ Ver!Verdict(v) /\ verDcache' = FALSE /\ v \in {"ok", "fail"}
  BY DEF Ver!Decrypt, Ver!Out
<1>3. \A p \in 1 .. VerifyPieces : verBody[verImg][p] = "cipher"
  BY <1>1 DEF VerQ645Ready, VerAsSent, Ver!Shipped
<1>4. /\ plain \in [1 .. VerifyPieces -> VerMatter]
      /\ v = "ok" => \A p \in 1 .. VerifyPieces : plain[p] = "clear"
  BY <1>3 DEF Ver!Decrypted, VerMatter
<1>5. v = "ok" <=> Ver!Accepted(verImg)
  BY <1>1 DEF Ver!Accepted, Ver!Free, Ver!Has, VerQ645Ready
<1> HIDE DEF v, plain
<1>6. verBody' \in [Ver!Images -> [1 .. VerifyPieces -> VerMatter]] /\ verBody'[verImg] = plain /\ \A k \in Ver!Images \ {verImg} : verBody'[k] = verBody[k]
  BY <1>1, <1>2, <1>4 DEF VerInv, VerTyped
<1>7. VerKinds'
  BY <1>1, <1>6 DEF VerKinds, VerInv, VerTyped, Ver!engine
<1> QED
  BY <1>1, <1>2, <1>4, <1>5, <1>6, <1>7, VerRightVerdict DEF Ver!engine

-----------------------------------------------------------------------------
LEMMA VerAppended ==
    ASSUME NEW S, NEW s \in Seq(S), NEW e \in S
    PROVE  /\ Append(s, e) \in Seq(S) /\ Len(Append(s, e)) = Len(s) + 1
           /\ \A p \in 1 .. Len(s) : Append(s, e)[p] = s[p]
           /\ Append(s, e)[Len(s) + 1] = e
  OBVIOUS

LEMMA VerSameSequence ==
    ASSUME NEW S, NEW m \in Nat, NEW s \in Seq(S), Len(s) = m, NEW e \in S, \A p \in 1 .. m : s[p] = e
    PROVE  s = [p \in 1 .. m |-> e] \o << >>
<1>1. [p \in 1 .. m |-> e] \in Seq(S) /\ Len([p \in 1 .. m |-> e]) = m
  OBVIOUS
<1>2. s = [p \in 1 .. m |-> e]
  BY <1>1
<1> QED
  BY <1>1, <1>2

(* A step of SP7350 that goes on with the image.                            *)
LEMMA VerEngineChip ==
    ASSUME VerInv, verChip = "sp7350", UNCHANGED Ver!fixed, VerKinds', UNCHANGED <<verImg, verRet>>,
           verPc # "over", verPc' \notin {"verify", "over"}, VerSp7350Inv',
           \A k \in Ver!Images \ {verImg} : verBody'[k] = verBody[k] /\ verSign'[k] = verSign[k]
    PROVE  VerInv'
<1>1. VerFixedInv' /\ VerTyped' /\ VerFreshInv' /\ VerDecidedInv' /\ VerIdleInv'
  BY VerGoingOn
<1>2. verChip' = "sp7350"
  BY DEF Ver!fixed
<1> QED
  BY <1>1, <1>2, VerGoingOnFor

LEMMA VerQ654Step ==
    ASSUME VerInv, Ver!Q654
    PROVE  VerInv'
<1>1. /\ verChip = "sp7350" /\ verPc = "verify" /\ verPc' = "rsa" /\ verDst' = "junk" /\ verJob' = "RSA"
      /\ UNCHANGED Ver!fixed /\ UNCHANGED <<verImg, verBody, verSign, verKept, verHash, verGood, verN, verSECIF, verDcache, verRet>>
      /\ verSECIF = {} /\ ~verDcache /\ verChip' = verChip /\ verImg \in Ver!Images /\ VerFresh(verImg)
  BY DEF Ver!Q654, Ver!At, Ver!Give, VerInv, VerIdleInv, VerTyped, VerFreshInv, Ver!fixed
<1>2. VerKinds'
  BY <1>1, VerKindsStay
<1>3. VerFresh(verImg)'
  BY <1>1, VerSteady DEF VerFresh
<1>4. VerSp7350Inv'
  BY <1>1, <1>3 DEF VerSp7350Inv, VerWorking
<1> QED
  BY <1>1, <1>2, <1>4, VerEngineChip

LEMMA VerWaitRsa ==
    ASSUME VerInv, Ver!Wait("RSA", "rsa", "pad")
    PROVE  VerInv'
<1>1. /\ verChip = "sp7350" /\ verPc = "rsa" /\ verPc' = "pad" /\ verSECIF' = verSECIF \ {"RSA"} /\ "RSA" \in verSECIF
      /\ UNCHANGED Ver!fixed /\ UNCHANGED Ver!memory /\ UNCHANGED <<verImg, verN, verJob, verDcache, verRet>> /\ verChip' = verChip
      /\ ~verDcache /\ VerWorkDone("RSA") /\ verDst = "hash" /\ VerFresh(verImg) /\ verImg \in Ver!Images
  BY DEF Ver!Wait, Ver!At, Ver!FlagCleared, VerInv, VerSp7350Inv, VerTyped, Ver!fixed,
     VerWorking
<1>2. VerKinds'
  BY <1>1, VerKindsStay DEF Ver!memory
<1>3. VerSp7350Inv'
  BY <1>1, VerSteady DEF VerSp7350Inv, VerWorkDone, VerQuiet, Ver!memory, VerFresh
<1> QED
  BY <1>1, <1>2, <1>3, VerEngineChip DEF Ver!memory

LEMMA VerPadStep ==
    ASSUME VerInv, Ver!Pad
    PROVE  VerInv'
<1>1. /\ verChip = "sp7350" /\ verPc = "pad" /\ verPc' = "hash" /\ verSign' = [verSign EXCEPT ![verImg] = "padding"]
      /\ verHash' = << >> /\ verN' = 0 /\ UNCHANGED Ver!fixed /\ UNCHANGED <<verImg, verBody, verKept, verDst, verGood, verJob, verSECIF, verDcache, verRet>>
      /\ ~verDcache /\ VerQuiet /\ verDst = "hash" /\ verBody[verImg] = VerAsSent(verImg) /\ verImg \in Ver!Images /\ verChip' = verChip
  BY DEF Ver!Pad, Ver!At, VerInv, VerSp7350Inv, VerTyped, Ver!fixed
<1>2. VerKinds' /\ \A k \in Ver!Images \ {verImg} : verSign'[k] = verSign[k]
  BY <1>1 DEF VerKinds, VerInv, VerTyped, VerFixedInv
<1>3. VerHashedTo(verN)'
  BY <1>1 DEF VerHashedTo
<1>4. VerSp7350Inv'
  BY <1>1, <1>3, VerSteady DEF VerSp7350Inv, VerQuiet
<1> QED
  BY <1>1, <1>2, <1>4, VerEngineChip

LEMMA VerHashPieceStep ==
    ASSUME VerInv, Ver!HashPiece
    PROVE  VerInv'
<1>1. /\ verChip = "sp7350" /\ verPc = "hash" /\ verPc' = "hashing" /\ verN' = verN + 1 /\ verN < VerifyPieces /\ verJob' = "HASH"
      /\ UNCHANGED Ver!fixed /\ UNCHANGED Ver!memory /\ UNCHANGED <<verImg, verSECIF, verDcache, verRet>>
      /\ ~verDcache /\ VerQuiet /\ verDst = "hash" /\ verBody[verImg] = VerAsSent(verImg) /\ verImg \in Ver!Images /\ verChip' = verChip
      /\ VerHashedTo(verN) /\ verN \in 0 .. VerifyPieces /\ VerifyPieces \in Nat
  BY DEF Ver!HashPiece, Ver!At, Ver!Give, VerInv, VerSp7350Inv, VerTyped, VerFixedInv, Ver!fixed
<1>2. VerKinds'
  BY <1>1 DEF VerKinds, VerInv, VerTyped, Ver!memory
<1>3. verN' - 1 = verN /\ verN' >= 1
  BY <1>1
<1>4. VerWorking("HASH")' /\ (Len(verHash') = verN' - 1 /\ \A p \in 1 .. verN' - 1 : verHash'[p] = Ver!Shipped(verImg)')
  BY <1>1, <1>3, VerSteady DEF VerHashedTo, VerWorking, VerQuiet, Ver!memory
<1>5. VerSp7350Inv'
  BY <1>1, <1>3, <1>4, VerSteady DEF VerSp7350Inv, VerHashedTo, Ver!memory
<1> QED
  BY <1>1, <1>2, <1>5, VerEngineChip DEF Ver!memory

LEMMA VerWaitHash ==
    ASSUME VerInv, Ver!Wait("HASH", "hashing", "hash")
    PROVE  VerInv'
<1>1. /\ verChip = "sp7350" /\ verPc = "hashing" /\ verPc' = "hash" /\ verSECIF' = verSECIF \ {"HASH"} /\ "HASH" \in verSECIF
      /\ UNCHANGED Ver!fixed /\ UNCHANGED Ver!memory /\ UNCHANGED <<verImg, verN, verJob, verDcache, verRet>> /\ verChip' = verChip
      /\ ~verDcache /\ VerWorkDone("HASH") /\ verDst = "hash" /\ verBody[verImg] = VerAsSent(verImg) /\ VerHashedTo(verN) /\ verImg \in Ver!Images
  BY DEF Ver!Wait, Ver!At, Ver!FlagCleared, VerInv, VerSp7350Inv, VerTyped, Ver!fixed,
     VerWorking
<1>2. VerKinds'
  BY <1>1, VerKindsStay DEF Ver!memory
<1>3. VerHashedTo(verN)' /\ VerQuiet'
  BY <1>1, VerSteady DEF VerHashedTo, Ver!memory, VerWorkDone, VerQuiet
<1>4. VerSp7350Inv'
  BY <1>1, <1>3, VerSteady DEF VerSp7350Inv, Ver!memory
<1> QED
  BY <1>1, <1>2, <1>4, VerEngineChip DEF Ver!memory

LEMMA VerCompareStep ==
    ASSUME VerInv, Ver!Compare
    PROVE  VerInv'
<1>1. /\ verChip = "sp7350" /\ verPc = "hash" /\ verN = VerifyPieces /\ verN' = 0 /\ verGood' = (verDst = "hash" /\ Ver!Signed)
      /\ UNCHANGED Ver!fixed /\ UNCHANGED <<verImg, verBody, verSign, verKept, verHash, verDst, verSECIF, verDcache, verRet>>
      /\ ~verDcache /\ VerQuiet /\ verDst = "hash" /\ verBody[verImg] = VerAsSent(verImg) /\ verImg \in Ver!Images /\ verChip' = verChip
      /\ VerHashedTo(VerifyPieces) /\ VerifyPieces \in Nat
      /\ IF verEncrypted[verImg] THEN verJob' = "AES" /\ verPc' = "decrypting" ELSE verPc' = "result" /\ UNCHANGED verJob
  BY DEF Ver!Compare, Ver!At, Ver!Give, VerInv, VerSp7350Inv, VerTyped, VerFixedInv, Ver!fixed
<1>2. VerKinds'
  BY <1>1 DEF VerKinds, VerInv, VerTyped
<1>3. verHash = [p \in 1 .. VerifyPieces |-> Ver!Shipped(verImg)] \o << >>
  <2> DEFINE e == Ver!Shipped(verImg)
             S == VerMatter \cup {"sign", "zero", "padding"}
  <2>1. e \in S /\ verHash \in Seq(S)
    BY <1>1, VerSentTyped DEF VerInv, VerTyped, VerMatter
  <2>2. Len(verHash) = VerifyPieces /\ \A p \in 1 .. VerifyPieces : verHash[p] = e
    BY <1>1 DEF VerHashedTo
  <2> HIDE DEF e, S
  <2>3. verHash = [p \in 1 .. VerifyPieces |-> e] \o << >>
    BY <1>1, <2>1, <2>2, VerSameSequence
  <2> QED
    BY <2>3 DEF e
<1>4. verGood' <=> ~Ver!Has("altered")
  BY <1>1, <1>3 DEF Ver!Signed
<1>5. CASE verEncrypted[verImg]
  <2>1. VerClearTo(verN - 1)'
    BY <1>1, <1>5 DEF VerClearTo, VerAsSent, Ver!Shipped
  <2>2. VerSp7350Inv'
    BY <1>1, <1>4, <1>5, <2>1 DEF VerSp7350Inv, VerWorking, VerQuiet, Ver!fixed, Ver!Has
  <2> QED
    BY <1>1, <1>2, <1>5, <2>2, VerEngineChip
<1>6. CASE ~verEncrypted[verImg]
  <2>1. VerClearTo(VerifyPieces)'
    BY <1>1, <1>6 DEF VerClearTo, VerAsSent, Ver!Shipped
  <2>2. VerSp7350Inv'
    BY <1>1, <1>4, <1>6, <2>1 DEF VerSp7350Inv, VerQuiet, Ver!fixed, Ver!Has
  <2> QED
    BY <1>1, <1>2, <1>6, <2>2, VerEngineChip
<1> QED
  BY <1>5, <1>6

LEMMA VerWaitAes ==
    ASSUME VerInv, Ver!Wait("AES", "decrypting", "decrypt")
    PROVE  VerInv'
<1>1. /\ verChip = "sp7350" /\ verPc = "decrypting" /\ verPc' = "decrypt" /\ verSECIF' = verSECIF \ {"AES"} /\ "AES" \in verSECIF
      /\ UNCHANGED Ver!fixed /\ UNCHANGED Ver!memory /\ UNCHANGED <<verImg, verN, verJob, verDcache, verRet>> /\ verChip' = verChip
      /\ ~verDcache /\ VerWorkDone("AES") /\ VerClearTo(verN) /\ (verGood <=> ~Ver!Has("altered")) /\ verEncrypted[verImg] /\ verImg \in Ver!Images
  BY DEF Ver!Wait, Ver!At, Ver!FlagCleared, VerInv, VerSp7350Inv, VerTyped, Ver!fixed,
     VerWorking
<1>2. VerKinds'
  BY <1>1, VerKindsStay DEF Ver!memory
<1>3. VerClearTo(verN)' /\ VerQuiet' /\ verGood' = verGood
  BY <1>1 DEF VerClearTo, Ver!memory, VerWorkDone, VerQuiet
<1>4. VerSp7350Inv'
  BY <1>1, <1>3 DEF VerSp7350Inv, Ver!fixed, Ver!Has
<1> QED
  BY <1>1, <1>2, <1>4, VerEngineChip DEF Ver!memory

LEMMA VerAesPieceStep ==
    ASSUME VerInv, Ver!AesPiece
    PROVE  VerInv'
<1>1. /\ verChip = "sp7350" /\ verPc = "decrypt" /\ verPc' = "decrypting" /\ verN' = verN + 1 /\ verN < VerifyPieces /\ verJob' = "AES"
      /\ UNCHANGED Ver!fixed /\ UNCHANGED Ver!memory /\ UNCHANGED <<verImg, verSECIF, verDcache, verRet>>
      /\ ~verDcache /\ VerQuiet /\ VerClearTo(verN) /\ (verGood <=> ~Ver!Has("altered")) /\ verEncrypted[verImg]
      /\ verImg \in Ver!Images /\ verChip' = verChip /\ verN \in 0 .. VerifyPieces /\ VerifyPieces \in Nat
  BY DEF Ver!AesPiece, Ver!At, Ver!Give, VerInv, VerSp7350Inv, VerTyped, VerFixedInv, Ver!fixed
<1>2. VerKinds'
  BY <1>1 DEF VerKinds, VerInv, VerTyped, Ver!memory
<1>3. verN' - 1 = verN
  BY <1>1
<1>4. VerWorking("AES")' /\ VerClearTo(verN - 1)' /\ verGood' = verGood
  BY <1>1, <1>3 DEF VerClearTo, VerWorking, VerQuiet, Ver!memory
<1>5. VerSp7350Inv'
  BY <1>1, <1>4 DEF VerSp7350Inv, Ver!fixed, Ver!Has
<1> QED
  BY <1>1, <1>2, <1>5, VerEngineChip DEF Ver!memory

LEMMA VerResultStep ==
    ASSUME VerInv, Ver!Result
    PROVE  VerInv'
<1> DEFINE v == IF verGood THEN "ok" ELSE "fail"
<1>1. /\ verChip = "sp7350" /\ verPc # "over" /\ UNCHANGED Ver!fixed /\ UNCHANGED Ver!memory /\ UNCHANGED Ver!engine
      /\ UNCHANGED verDcache /\ Ver!Verdict(v) /\ v \in {"ok", "fail"}
      /\ ~verDcache /\ VerQuiet /\ VerClearTo(VerifyPieces) /\ (verGood <=> ~Ver!Has("altered")) /\ verImg \in Ver!Images
  BY DEF Ver!Result, Ver!At, VerInv, VerSp7350Inv, VerTyped
<1>2. VerKinds'
  BY <1>1, VerKindsStay DEF Ver!memory, Ver!engine
<1>3. v = "ok" <=> Ver!Accepted(verImg)
  BY <1>1 DEF Ver!Accepted, Ver!Free, Ver!Has
<1>4. \A p \in 1 .. VerifyPieces : verBody'[verImg][p] = "clear"
  BY <1>1 DEF VerClearTo, Ver!memory
<1>5. verDcache' = FALSE /\ verJob' = "none" /\ verSECIF' = {}
  BY <1>1 DEF VerQuiet, Ver!engine
<1> HIDE DEF v
<1> QED
  BY <1>1, <1>2, <1>3, <1>4, <1>5, VerRightVerdict DEF Ver!memory

(* The engine finishes a piece: only while the core waits for its flag.     *)
LEMMA VerEngineDoneStep ==
    ASSUME VerInv, Ver!EngineDone
    PROVE  VerInv'
<1>1. /\ verChip = "sp7350" /\ verChip' = verChip /\ UNCHANGED Ver!fixed
      /\ UNCHANGED <<verImg, verPc, verSign, verKept, verGood, verN, verDcache, verRet>>
      /\ verJob' = "none" /\ verSECIF' = verSECIF \cup {verJob} /\ ~verDcache /\ verImg \in Ver!Images
      /\ verN \in 0 .. VerifyPieces /\ VerifyPieces \in Nat
  BY VerNoEngine DEF Ver!EngineDone, VerInv, VerSp7350Inv, VerFixedInv, VerTyped, Ver!fixed
<1>2. \/ verPc = "rsa" /\ VerWorking("RSA")
      \/ verPc = "hashing" /\ VerWorking("HASH") /\ VerHashedTo(verN - 1)
      \/ verPc = "decrypting" /\ VerWorking("AES") /\ VerClearTo(verN - 1)
  BY <1>1 DEF Ver!EngineDone, VerInv, VerSp7350Inv, VerQuiet, VerWorkDone, VerWorking,
     VerIdleInv
<1>3. CASE verPc = "rsa" /\ VerWorking("RSA")
  <2>1. VerFresh(verImg) /\ verJob = "RSA" /\ verSECIF = {}
    BY <1>1, <1>3 DEF VerInv, VerSp7350Inv, VerWorking
  <2>2. verDst' = "hash" /\ UNCHANGED <<verHash, verBody>> /\ verSECIF' = {"RSA"}
    BY <1>1, <2>1 DEF Ver!EngineDone, VerFresh
  <2>3. VerKinds'
    BY <1>1, <2>2, VerKindsStay
  <2>4. VerFresh(verImg)'
    BY <1>1, <2>1, <2>2, VerSteady DEF VerFresh
  <2>5. VerSp7350Inv'
    BY <1>1, <1>3, <2>2, <2>4 DEF VerSp7350Inv, VerWorkDone
  <2> QED
    BY <1>1, <1>3, <2>2, <2>3, <2>5, VerEngineChip
<1>4. CASE verPc = "hashing" /\ VerWorking("HASH") /\ VerHashedTo(verN - 1)
  <2> DEFINE e == verBody[verImg][verN]
             S == VerMatter \cup {"sign", "zero", "padding"}
  <2>1. verN >= 1 /\ verDst = "hash" /\ verBody[verImg] = VerAsSent(verImg) /\ verJob = "HASH" /\ verSECIF = {} /\ verHash \in Seq(S)
    BY <1>1, <1>4 DEF VerInv, VerSp7350Inv, VerWorking, VerTyped
  <2>2. verDst' = verDst /\ verHash' = Append(verHash, e) /\ UNCHANGED verBody /\ verSECIF' = {"HASH"}
    BY <1>1, <2>1 DEF Ver!EngineDone
  <2>3. e = Ver!Shipped(verImg) /\ e \in S
    BY <1>1, <2>1, VerSentTyped DEF VerAsSent, VerInv, VerMatter
  <2>4. Len(verHash) = verN - 1 /\ \A p \in 1 .. verN - 1 : verHash[p] = Ver!Shipped(verImg)
    BY <1>4 DEF VerHashedTo
  <2> HIDE DEF e, S
  <2>5. /\ verHash' \in Seq(S) /\ Len(verHash') = verN
        /\ \A p \in 1 .. verN - 1 : verHash'[p] = Ver!Shipped(verImg)
        /\ verHash'[verN] = Ver!Shipped(verImg)
    <3>1. Len(verHash) + 1 = verN /\ 1 .. Len(verHash) = 1 .. verN - 1
      BY <1>1, <2>4
    <3> QED
      BY <2>1, <2>2, <2>3, <2>4, <3>1, VerAppended
  <2>6. VerHashedTo(verN)'
    BY <1>1, <2>5, VerSteady DEF VerHashedTo
  <2>7. VerKinds'
    BY <1>1, <2>2, <2>5 DEF VerKinds, VerInv, VerTyped, S
  <2>8. VerSp7350Inv'
    BY <1>1, <1>4, <2>1, <2>2, <2>6, VerSteady DEF VerSp7350Inv, VerWorkDone
  <2> QED
    BY <1>1, <1>4, <2>2, <2>7, <2>8, VerEngineChip
<1>5. CASE verPc = "decrypting" /\ VerWorking("AES") /\ VerClearTo(verN - 1)
  <2>1. verJob = "AES" /\ verSECIF = {} /\ verEncrypted[verImg] /\ (verGood <=> ~Ver!Has("altered"))
    BY <1>1, <1>5 DEF VerInv, VerSp7350Inv, VerWorking
  <2>2. UNCHANGED <<verDst, verHash>> /\ verSECIF' = {"AES"}
    BY <1>1, <2>1 DEF Ver!EngineDone
  <2>3. verBody' = IF verN > 0 THEN [verBody EXCEPT ![verImg][verN] = Ver!Decrypted(verBody[verImg][verN])] ELSE verBody
    BY <2>1 DEF Ver!EngineDone
  <2>4. verBody \in [Ver!Images -> [1 .. VerifyPieces -> VerMatter]]
    BY DEF VerInv, VerTyped
  <2>5. Ver!Decrypted(verBody[verImg][verN]) \in VerMatter
    BY DEF Ver!Decrypted, VerMatter
  <2>6. verBody' \in [Ver!Images -> [1 .. VerifyPieces -> VerMatter]] /\ \A k \in Ver!Images \ {verImg} : verBody'[k] = verBody[k]
    BY <2>3, <2>4, <2>5
  <2>7. \A p \in 1 .. VerifyPieces : verBody'[verImg][p] = IF p <= verN THEN "clear" ELSE "cipher"
    BY <1>1, <1>5, <2>3, <2>4 DEF VerClearTo, Ver!Decrypted
  <2>8. VerClearTo(verN)' /\ VerKinds'
    BY <1>1, <2>2, <2>6, <2>7 DEF VerClearTo, VerKinds, VerInv, VerTyped
  <2>9. VerSp7350Inv'
    BY <1>1, <1>5, <2>1, <2>2, <2>8 DEF VerSp7350Inv, VerWorkDone, Ver!fixed, Ver!Has
  <2> QED
    BY <1>1, <1>5, <2>6, <2>8, <2>9, VerEngineChip
<1> QED
  BY <1>2, <1>3, <1>4, <1>5

-----------------------------------------------------------------------------
LEMMA VerNextInv ==
    ASSUME VerInv, [Ver!Next]_(Ver!vars)
    PROVE  VerInv'
<1>1. CASE Ver!Q628 \/ Ver!Q628Rom
  BY <1>1, VerQ628Step, VerQ628RomStep
<1>2. CASE Ver!Q645 \/ Ver!LoadKey \/ Ver!Hash
  BY <1>2, VerQ645Step, VerLoadKeyStep, VerHashStep
<1>3. CASE Ver!Verify \/ Ver!Session \/ Ver!Decrypt
  BY <1>3, VerVerifyStep, VerSessionStep, VerDecryptStep
<1>4. CASE Ver!Q654 \/ Ver!Wait("RSA", "rsa", "pad") \/ Ver!Pad
  BY <1>4, VerQ654Step, VerWaitRsa, VerPadStep
<1>5. CASE Ver!HashPiece \/ Ver!Wait("HASH", "hashing", "hash") \/ Ver!Compare
  BY <1>5, VerHashPieceStep, VerWaitHash, VerCompareStep
<1>6. CASE Ver!Wait("AES", "decrypting", "decrypt") \/ Ver!AesPiece \/ Ver!Result
  BY <1>6, VerWaitAes, VerAesPieceStep, VerResultStep
<1>7. CASE Ver!EngineDone
  BY <1>7, VerEngineDoneStep
<1>8. CASE UNCHANGED Ver!vars
  <2>1. UNCHANGED Ver!fixed /\ UNCHANGED <<verImg, verPc, Ver!memory, Ver!engine, verDcache, verRet>>
    BY <1>8 DEF Ver!vars
  <2>2. VerFixedInv' /\ VerTyped'
    BY <2>1 DEF Ver!fixed, Ver!memory, Ver!engine, VerInv, VerFixedInv, VerTyped
  <2>3. VerFreshInv' /\ VerDecidedInv'
    <3>1. verImg \in Ver!Images /\ \A k \in Ver!Images : (VerFresh(k)' <=> VerFresh(k)) /\ (VerDecided(k)' <=> VerDecided(k))
      BY <2>1, VerSteady DEF Ver!memory, VerInv, VerTyped, VerFresh, VerDecided, Ver!fixed
    <3>2. VerFreshInv'
      BY <2>1, <3>1 DEF VerInv, VerFreshInv, Ver!Images
    <3>3. VerDecidedInv'
      BY <3>1 DEF VerInv, VerDecidedInv
    <3> QED
      BY <3>2, <3>3
  <2>4. VerIdleInv' /\ VerQ628Inv'
    BY <2>1, VerSteady DEF Ver!fixed, Ver!memory, Ver!engine, VerInv, VerTyped, VerIdleInv,
       VerQ628Inv, Ver!Has
  <2>5. VerQ645Inv'
    BY <2>1, VerSteady DEF Ver!fixed, Ver!memory, Ver!engine, VerInv, VerTyped, VerQ645Inv,
       Ver!Has
  <2>6. UNCHANGED <<verChip, verPc, verDcache, verDst, verGood, verBody, verImg, verEncrypted, verJob, verSECIF, verN, verHash, verSign>> /\ verImg \in Ver!Images
    BY <2>1 DEF Ver!fixed, Ver!memory, Ver!engine, VerInv, VerTyped
  <2>7. /\ \A u : (VerWorking(u)' <=> VerWorking(u)) /\ (VerWorkDone(u)' <=> VerWorkDone(u))
        /\ VerQuiet' <=> VerQuiet
    BY <2>6 DEF VerWorking, VerWorkDone, VerQuiet
  <2>8. /\ VerHashedTo(verN)' <=> VerHashedTo(verN)
        /\ VerHashedTo(verN - 1)' <=> VerHashedTo(verN - 1)
        /\ VerClearTo(verN)' <=> VerClearTo(verN)
        /\ VerClearTo(verN - 1)' <=> VerClearTo(verN - 1)
        /\ VerClearTo(VerifyPieces)' <=> VerClearTo(VerifyPieces)
        /\ VerFresh(verImg)' <=> VerFresh(verImg)
        /\ Ver!Has("altered")' <=> Ver!Has("altered")
    BY <2>1, <2>6, VerSteady DEF VerHashedTo, VerClearTo, VerFresh, Ver!Has, Ver!fixed
  <2>9. VerSp7350Inv'
    BY <2>6, <2>7, <2>8, VerSteady, <2>1 DEF VerInv, VerSp7350Inv, Ver!fixed
  <2> QED
    BY <2>2, <2>3, <2>4, <2>5, <2>9 DEF VerInv
<1> QED
  BY <1>1, <1>2, <1>3, <1>4, <1>5, <1>6, <1>7, <1>8 DEF Ver!Next, Ver!Core

LEMMA VerVerdicts ==
    ASSUME VerInv
    PROVE  Ver!VerdictRight
<1>1. ASSUME NEW k \in Ver!Images, verRet[k] # "none"
      PROVE  /\ (verRet[k] = "ok") = Ver!Accepted(k)
             /\ verRet[k] = "ok" /\ verBuild => \A p \in 1 .. VerifyPieces : verBody[k][p] = "clear"
  <2>1. Ver!Accepted(k) \in BOOLEAN
    <3>1. verChip = "q628" \/ verChip = "q645" \/ verChip = "sp7350"
      BY DEF VerInv, VerFixedInv
    <3>2. CASE verChip = "q628"
      BY <3>2 DEF Ver!Accepted
    <3>3. CASE verChip = "q645"
      BY <3>3 DEF Ver!Accepted
    <3>4. CASE verChip = "sp7350"
      BY <3>4 DEF Ver!Accepted, Ver!Free
    <3> QED
      BY <3>1, <3>2, <3>3, <3>4
  <2>2. verRet[k] = "ok" <=> Ver!Accepted(k)
    BY <1>1 DEF VerInv, VerDecidedInv, VerDecided
  <2> QED
    BY <1>1, <2>1, <2>2 DEF VerInv, VerDecidedInv, VerDecided
<1> QED
  BY <1>1 DEF Ver!VerdictRight, VerInv, VerIdleInv

-----------------------------------------------------------------------------
(* PmicI2c                                                                  *)
PmicRT == pmicChip = "RT5759"

PmicTyped ==
    /\ pmicChip \in Pmic!AllChips /\ pmicJob \in {"point", "id", "set"}
    /\ pmicPc \in {"start", "fill", "await", "look", "finish", "collect", "disable", "over"}
    /\ pmicBus \in {"off", "idle", "address", "data", "shift"}
    /\ pmicPointer \in {0, 2} /\ pmicNacks \in Nat

(* The chip's registers: only the transfer that sets the voltage writes.    *)
PmicRegsInv ==
    /\ pmicRegs \in [{0, 2} -> {0, Pmic!VID, Pmic!ID}]
    /\ PmicRT => pmicRegs[0] = Pmic!ID
    /\ ~PmicRT => pmicRegs[0] = 0
    /\ pmicJob = "set" => PmicRT /\ pmicRegs[2] \in {0, Pmic!VID}
    /\ pmicJob # "set" => pmicRegs[2] = 0

(* What is read from a register, where it arrives and where it is put.      *)
PmicBufInv ==
    /\ pmicRx \in Seq({0, Pmic!ID}) /\ (~PmicRT => \A k \in 1 .. Len(pmicRx) : pmicRx[k] = 0)
    /\ pmicJob = "point" => pmicBuf = <<0, 0>>
    /\ pmicJob = "id" => pmicBuf \in [1 .. 2 -> {0, Pmic!ID}] /\ (~PmicRT => pmicBuf[1] = 0)
    /\ pmicJob = "set" => pmicBuf = <<2, Pmic!VID>>
    /\ pmicPc = "collect" => pmicJob = "id"

(* What a transfer sends, and what is so when all of it has arrived.        *)
PmicSends == IF pmicJob = "point" THEN <<0>> ELSE IF pmicJob = "id" THEN <<Pmic!READ_TX>> ELSE <<2, Pmic!VID>>
PmicEffect ==
    /\ pmicJob = "point" => pmicPointer = 0
    /\ pmicJob = "set" => pmicRegs[2] = Pmic!VID

PmicBefore == pmicFifo = PmicSends /\ ~pmicTold
PmicFirst == pmicShift = PmicSends[1] /\ pmicFifo = Tail(PmicSends) /\ ~pmicTold
PmicBetween == pmicJob = "set" /\ pmicFifo = <<Pmic!VID>> /\ pmicTold /\ pmicPointer = 2
PmicSecond == pmicJob = "set" /\ pmicShift = Pmic!VID /\ pmicFifo = << >> /\ pmicTold /\ pmicPointer = 2
PmicAfter == pmicFifo = << >> /\ PmicEffect

PmicBusInv ==
    /\ pmicPc \in {"start", "over"} <=> pmicBus = "off"
    /\ pmicBus = "off" => pmicFifo = << >>
    /\ pmicPc = "fill" => pmicBus = "idle" /\ pmicFifo = << >>
    /\ pmicBus = "idle" => pmicFifo = << >> \/ pmicFifo = PmicSends
    /\ pmicBus = "address" => pmicFifo = PmicSends
    /\ pmicBus = "data" => PmicBefore \/ PmicBetween \/ PmicAfter
    /\ pmicBus = "shift" => PmicFirst \/ PmicSecond

(* As long as nothing was refused and no wait was given up.                 *)
PmicSmooth == PmicRT /\ pmicNacks = 0 /\ ~pmicHasty
PmicIdRead == \A k \in 1 .. Len(pmicRx) : pmicRx[k] = Pmic!ID
PmicSmoothInv ==
    PmicSmooth =>
        /\ ~pmicAbrt
        /\ pmicPc \notin {"start", "fill", "over"} /\ pmicBus = "idle" /\ pmicFifo = << >> => PmicEffect
        /\ pmicBus = "idle" /\ pmicFifo # << >> => pmicPc = "await"
        /\ pmicPc = "disable" /\ pmicJob # "id" => PmicEffect
        /\ pmicJob = "id" => /\ pmicPointer = 0 /\ PmicIdRead
                             /\ pmicPc # "start" /\ pmicTodo # 1 => pmicBuf[1] = Pmic!ID
                             /\ pmicPc = "disable" => pmicBuf[1] = Pmic!ID
        /\ pmicPc = "over" => pmicJob = "set" /\ pmicRegs[2] = Pmic!VID

PmicInv == PmicTyped /\ PmicRegsInv /\ PmicBufInv /\ PmicBusInv /\ PmicSmoothInv

-----------------------------------------------------------------------------
LEMMA PmicSendings ==
    ASSUME PmicTyped
    PROVE  /\ pmicJob = "point" => PmicSends = <<0>> /\ Tail(PmicSends) = << >> /\ PmicSends[1] = 0
           /\ pmicJob = "id" => PmicSends = <<Pmic!READ_TX>> /\ Tail(PmicSends) = << >> /\ PmicSends[1] = Pmic!READ_TX
           /\ pmicJob = "set" => PmicSends = <<2, Pmic!VID>> /\ Tail(PmicSends) = <<Pmic!VID>> /\ PmicSends[1] = 2
           /\ PmicSends # << >> /\ Head(PmicSends) = PmicSends[1]
  BY DEF PmicTyped, PmicSends, Pmic!READ_TX, Pmic!VID

LEMMA PmicDifferent ==
    /\ Pmic!ID # Pmic!VID /\ Pmic!ID # Pmic!READ_TX /\ Pmic!VID # Pmic!READ_TX /\ 0 # Pmic!READ_TX /\ 2 # Pmic!READ_TX /\ Pmic!ID # 0 /\ Pmic!VID # 0 /\ Pmic!ID # 2
  BY DEF Pmic!ID, Pmic!VID, Pmic!READ_TX

LEMMA PmicInitInv ==
    ASSUME Pmic!PmicI2cAssumption, Pmic!Init
    PROVE  PmicInv
<1>1. pmicChip \in Pmic!AllChips /\ pmicPointer \in {0, 2}
  BY DEF Pmic!Init, Pmic!PmicI2cAssumption
<1>2. PmicTyped
  BY <1>1 DEF Pmic!Init, PmicTyped
<1>3. PmicRegsInv
  BY DEF Pmic!Init, PmicRegsInv, PmicRT, Pmic!ID, Pmic!VID
<1>4. PmicBufInv
  <2>1. pmicRx = << >> /\ pmicJob = "point" /\ pmicBuf = <<0, 0>> /\ pmicPc = "start"
    BY DEF Pmic!Init
  <2> QED
    BY <2>1 DEF PmicBufInv
<1>5. PmicBusInv /\ PmicSmoothInv
  BY DEF Pmic!Init, PmicBusInv, PmicSmoothInv
<1> QED
  BY <1>2, <1>3, <1>4, <1>5 DEF PmicInv

(* A step that changes neither the transfer nor what has been    *)
(* read and written.                                                        *)
LEMMA PmicKeepsRegs ==
    ASSUME PmicInv, UNCHANGED <<pmicChip, pmicRegs, pmicJob>>
    PROVE  PmicRegsInv'
  BY DEF PmicInv, PmicRegsInv, PmicRT

LEMMA PmicKeepsBuf ==
    ASSUME PmicInv, UNCHANGED <<pmicChip, pmicRx, pmicJob, pmicBuf>>, pmicPc' # "collect" \/ pmicPc' = pmicPc
    PROVE  PmicBufInv'
  BY DEF PmicInv, PmicBufInv, PmicRT

LEMMA PmicKeepsBus ==
    ASSUME PmicInv, UNCHANGED <<pmicBus, pmicFifo, pmicShift, pmicTold, pmicPointer, pmicRegs, pmicJob>>,
           pmicPc \notin {"start", "fill", "over"}, pmicPc' \notin {"start", "fill", "over"}
    PROVE  PmicBusInv'
  BY DEF PmicInv, PmicBusInv, PmicBefore, PmicFirst, PmicBetween, PmicSecond, PmicAfter,
     PmicEffect, PmicSends

-----------------------------------------------------------------------------
LEMMA PmicStartStep ==
    ASSUME PmicInv, Pmic!Start
    PROVE  PmicInv'
<1>1. /\ pmicPc = "start" /\ pmicPc' = "fill" /\ pmicBus' = "idle" /\ pmicAbrt' = FALSE /\ pmicBus = "off"
      /\ UNCHANGED <<pmicChip, pmicJob, pmicBuf, pmicFifo, pmicRx, pmicShift, pmicPointer, pmicTold, pmicRegs, pmicNacks, pmicHasty>>
  BY DEF Pmic!Start, Pmic!device, PmicInv, PmicBusInv
<1>2. pmicFifo = << >>
  BY <1>1 DEF PmicInv, PmicBusInv
<1>3. pmicJob = "id" => pmicTodo' = 1
  BY DEF Pmic!Start, Pmic!Bytes
<1>4. PmicTyped'
  BY <1>1 DEF PmicInv, PmicTyped
<1>5. PmicRegsInv' /\ PmicBufInv'
  BY <1>1, PmicKeepsRegs, PmicKeepsBuf
<1>6. PmicBusInv'
  BY <1>1, <1>2 DEF PmicBusInv
<1>7. PmicSmoothInv'
  BY <1>1, <1>2, <1>3 DEF PmicInv, PmicSmoothInv, PmicSmooth, PmicRT, PmicIdRead
<1> QED
  BY <1>4, <1>5, <1>6, <1>7 DEF PmicInv

LEMMA PmicFillStep ==
    ASSUME PmicInv, Pmic!Fill
    PROVE  PmicInv'
<1>1. /\ pmicPc = "fill" /\ pmicPc' = "await" /\ pmicBus = "idle" /\ pmicFifo' = Pmic!Bytes
      /\ UNCHANGED <<pmicChip, pmicJob, pmicBuf, pmicTodo, pmicRx, pmicBus, pmicShift, pmicAbrt, pmicPointer, pmicTold, pmicRegs, pmicNacks, pmicHasty>>
  BY DEF Pmic!Fill, Pmic!device, PmicInv, PmicBusInv
<1>2. Pmic!Bytes = PmicSends
  BY DEF Pmic!Bytes, PmicSends, PmicInv, PmicBufInv, PmicTyped
<1>3. PmicSends' = PmicSends /\ PmicSends # << >>
  BY <1>1, PmicSendings DEF PmicSends, PmicInv
<1>4. PmicTyped'
  BY <1>1 DEF PmicInv, PmicTyped
<1>5. PmicRegsInv' /\ PmicBufInv'
  BY <1>1, PmicKeepsRegs, PmicKeepsBuf
<1>6. PmicBusInv'
  BY <1>1, <1>2, <1>3 DEF PmicBusInv
<1>7. PmicSmoothInv'
  BY <1>1, <1>2, <1>3 DEF PmicInv, PmicSmoothInv, PmicSmooth, PmicRT, PmicIdRead
<1> QED
  BY <1>4, <1>5, <1>6, <1>7 DEF PmicInv

(* A step of the driver's polls, which leaves the controller alone.         *)
LEMMA PmicPolls ==
    ASSUME PmicInv, UNCHANGED <<pmicChip, pmicJob, pmicFifo, pmicBus, pmicShift, pmicPointer, pmicTold, pmicRegs, pmicNacks>>,
           pmicPc \notin {"start", "fill", "over"},
           pmicPc' \in {"await", "look", "finish", "collect", "disable"}
    PROVE  PmicTyped' /\ PmicRegsInv' /\ PmicBusInv'
<1>1. PmicTyped'
  BY DEF PmicInv, PmicTyped
<1> QED
  BY <1>1, PmicKeepsRegs, PmicKeepsBus

LEMMA PmicAwaitStep ==
    ASSUME PmicInv, Pmic!Await
    PROVE  PmicInv'
<1>1. /\ pmicPc = "await" /\ pmicPc' = "look" /\ pmicBus \in {"address", "data", "shift"}
      /\ UNCHANGED <<pmicChip, pmicJob, pmicBuf, pmicTodo, pmicFifo, pmicRx, pmicBus, pmicShift, pmicAbrt, pmicPointer, pmicTold, pmicRegs, pmicNacks, pmicHasty>>
  BY DEF Pmic!Await, Pmic!Begun, Pmic!Active, Pmic!controller, Pmic!device
<1>2. PmicTyped' /\ PmicRegsInv' /\ PmicBusInv' /\ PmicBufInv'
  BY <1>1, PmicPolls, PmicKeepsBuf
<1>3. PmicSmoothInv'
  BY <1>1 DEF PmicInv, PmicSmoothInv, PmicSmooth, PmicRT, PmicIdRead, PmicEffect
<1> QED
  BY <1>2, <1>3 DEF PmicInv

LEMMA PmicAwaitEndsStep ==
    ASSUME PmicInv, Pmic!AwaitEnds
    PROVE  PmicInv'
<1>1. /\ pmicPc = "await" /\ pmicPc' = "look" /\ pmicHasty' = (pmicHasty \/ Pmic!Unsent) /\ ~Pmic!Active
      /\ UNCHANGED <<pmicChip, pmicJob, pmicBuf, pmicTodo, pmicFifo, pmicRx, pmicBus, pmicShift, pmicAbrt, pmicPointer, pmicTold, pmicRegs, pmicNacks>>
  BY DEF Pmic!AwaitEnds, Pmic!controller, Pmic!device
<1>2. PmicTyped' /\ PmicRegsInv' /\ PmicBusInv' /\ PmicBufInv'
  BY <1>1, PmicPolls, PmicKeepsBuf
<1>3. ~pmicHasty' => ~pmicHasty /\ pmicFifo = << >>
  BY <1>1 DEF Pmic!Unsent
<1>4. PmicSmoothInv'
  BY <1>1, <1>3 DEF PmicInv, PmicSmoothInv, PmicSmooth, PmicRT, PmicIdRead, PmicEffect
<1> QED
  BY <1>2, <1>4 DEF PmicInv

(* A byte taken is one that the id's register was read as.                  *)
LEMMA PmicTakes ==
    ASSUME PmicInv, Pmic!Take, pmicJob = "id", UNCHANGED <<pmicChip, pmicJob>>
    PROVE  /\ PmicBufInv'
           /\ PmicRT /\ PmicIdRead => PmicIdRead'
           /\ PmicRT /\ PmicIdRead /\ pmicTodo' # pmicTodo => pmicBuf'[1] = Pmic!ID
           /\ pmicTodo' = pmicTodo => pmicBuf' = pmicBuf
           /\ pmicTodo' = pmicTodo \/ pmicTodo' = pmicTodo - 1
           /\ PmicRT /\ PmicIdRead /\ pmicRx # << >> => pmicBuf'[1] = Pmic!ID
           /\ PmicRT /\ PmicIdRead /\ pmicBuf[1] = Pmic!ID => pmicBuf'[1] = Pmic!ID
<1>1. pmicRx \in Seq({0, Pmic!ID}) /\ pmicBuf \in [1 .. 2 -> {0, Pmic!ID}] /\ (~PmicRT => pmicBuf[1] = 0 /\ \A k \in 1 .. Len(pmicRx) : pmicRx[k] = 0)
  BY DEF PmicInv, PmicBufInv
<1>2. CASE pmicRx = << >>
  <2>1. UNCHANGED <<pmicBuf, pmicRx, pmicTodo>>
    BY <1>2 DEF Pmic!Take
  <2> QED
    BY <1>1, <1>2, <2>1 DEF PmicBufInv, PmicIdRead, PmicRT
<1>3. CASE pmicRx # << >>
  <2>1. pmicBuf' = [pmicBuf EXCEPT ![1] = Head(pmicRx)] /\ pmicRx' = Tail(pmicRx) /\ pmicTodo' = pmicTodo - 1
    BY <1>3 DEF Pmic!Take
  <2>2. /\ Head(pmicRx) = pmicRx[1] /\ 1 \in 1 .. Len(pmicRx) /\ pmicRx[1] \in {0, Pmic!ID} /\ Tail(pmicRx) \in Seq({0, Pmic!ID})
        /\ \A k \in 1 .. Len(Tail(pmicRx)) : k + 1 \in 1 .. Len(pmicRx) /\ Tail(pmicRx)[k] = pmicRx[k + 1]
    BY <1>1, <1>3
  <2>3. pmicBuf' \in [1 .. 2 -> {0, Pmic!ID}] /\ pmicBuf'[1] = pmicRx[1]
    BY <1>1, <2>1, <2>2
  <2>4. pmicRx' \in Seq({0, Pmic!ID}) /\ \A k \in 1 .. Len(pmicRx') : k + 1 \in 1 .. Len(pmicRx) /\ pmicRx'[k] = pmicRx[k + 1]
    BY <2>1, <2>2
  <2>5. PmicBufInv'
    BY <1>1, <2>2, <2>3, <2>4 DEF PmicBufInv, PmicRT
  <2>6. PmicRT /\ PmicIdRead => PmicIdRead' /\ pmicBuf'[1] = Pmic!ID
    BY <2>2, <2>3, <2>4 DEF PmicIdRead
  <2> QED
    BY <1>3, <2>1, <2>5, <2>6
<1> QED
  BY <1>2, <1>3

LEMMA PmicLookStep ==
    ASSUME PmicInv, Pmic!Look
    PROVE  PmicInv'
<1>1. /\ pmicPc = "look" /\ pmicAbrt' = FALSE /\ pmicPc' = (IF pmicAbrt THEN "disable" ELSE "finish")
      /\ UNCHANGED <<pmicChip, pmicJob, pmicFifo, pmicBus, pmicShift, pmicPointer, pmicTold, pmicRegs, pmicNacks, pmicHasty>>
  BY DEF Pmic!Look, Pmic!device
<1>2. PmicTyped' /\ PmicRegsInv' /\ PmicBusInv'
  BY <1>1, PmicPolls
<1>3. CASE pmicJob = "id"
  <2>1. Pmic!Take
    BY <1>3 DEF Pmic!Look
  <2>2. PmicBufInv'
    BY <1>1, <1>3, <2>1, PmicTakes
  <2>3. PmicSmoothInv'
    BY <1>1, <1>3, <2>1, PmicTakes DEF PmicInv, PmicSmoothInv, PmicSmooth, PmicRT, PmicEffect
  <2> QED
    BY <1>2, <2>2, <2>3 DEF PmicInv
<1>4. CASE pmicJob # "id"
  <2>1. UNCHANGED <<pmicBuf, pmicRx, pmicTodo>>
    BY <1>4 DEF Pmic!Look
  <2>2. PmicBufInv'
    BY <1>1, <2>1, PmicKeepsBuf
  <2>3. PmicSmoothInv'
    BY <1>1, <1>4, <2>1 DEF PmicInv, PmicSmoothInv, PmicSmooth, PmicRT, PmicEffect
  <2> QED
    BY <1>2, <2>2, <2>3 DEF PmicInv
<1> QED
  BY <1>3, <1>4

LEMMA PmicFinishWriteStep ==
    ASSUME PmicInv, Pmic!FinishWrite
    PROVE  PmicInv'
<1>1. /\ pmicPc = "finish" /\ pmicPc' = "disable" /\ pmicJob # "id" /\ (~Pmic!Active \/ pmicAbrt) /\ pmicAbrt' = (pmicAbrt /\ ~Pmic!Active)
      /\ UNCHANGED <<pmicChip, pmicJob, pmicBuf, pmicTodo, pmicFifo, pmicRx, pmicBus, pmicShift, pmicPointer, pmicTold, pmicRegs, pmicNacks, pmicHasty>>
  BY DEF Pmic!FinishWrite, Pmic!device
<1>2. PmicTyped' /\ PmicRegsInv' /\ PmicBusInv' /\ PmicBufInv'
  BY <1>1, PmicPolls, PmicKeepsBuf
<1>3. PmicSmooth => pmicBus = "idle" /\ pmicFifo = << >>
  <2>1. pmicBus # "off" /\ pmicBus \in {"off", "idle", "address", "data", "shift"}
    BY <1>1 DEF PmicInv, PmicTyped, PmicBusInv
  <2> QED
    BY <1>1, <2>1 DEF PmicInv, PmicSmoothInv, Pmic!Active
<1>4. PmicSmoothInv'
  BY <1>1, <1>3 DEF PmicInv, PmicSmoothInv, PmicSmooth, PmicRT, PmicEffect
<1> QED
  BY <1>2, <1>4 DEF PmicInv

LEMMA PmicFinishReadStep ==
    ASSUME PmicInv, Pmic!FinishRead
    PROVE  PmicInv'
<1>1. /\ pmicPc = "finish" /\ pmicPc' = (IF pmicAbrt THEN "disable" ELSE "collect") /\ pmicJob = "id" /\ pmicAbrt' = FALSE
      /\ UNCHANGED <<pmicChip, pmicJob, pmicBuf, pmicTodo, pmicFifo, pmicRx, pmicBus, pmicShift, pmicPointer, pmicTold, pmicRegs, pmicNacks, pmicHasty>>
  BY DEF Pmic!FinishRead, Pmic!device
<1>2. PmicTyped' /\ PmicRegsInv' /\ PmicBusInv'
  BY <1>1, PmicPolls
<1>3. PmicBufInv'
  BY <1>1 DEF PmicInv, PmicBufInv, PmicRT
<1>4. PmicSmoothInv'
  BY <1>1 DEF PmicInv, PmicSmoothInv, PmicSmooth, PmicRT, PmicEffect, PmicIdRead
<1> QED
  BY <1>2, <1>3, <1>4 DEF PmicInv

LEMMA PmicCollectStep ==
    ASSUME PmicInv, Pmic!Collect
    PROVE  PmicInv'
<1>1. /\ pmicPc = "collect" /\ pmicJob = "id" /\ pmicAbrt' = FALSE /\ pmicPc' \in {"collect", "disable"}
      /\ (pmicAbrt => pmicPc' = "disable" /\ UNCHANGED <<pmicBuf, pmicRx, pmicTodo>>) /\ (~pmicAbrt => Pmic!Take /\ pmicPc' = pmicPc)
      /\ UNCHANGED <<pmicChip, pmicJob, pmicFifo, pmicBus, pmicShift, pmicPointer, pmicTold, pmicRegs, pmicNacks, pmicHasty>>
  BY DEF Pmic!Collect, Pmic!device, PmicInv, PmicBufInv
<1>2. PmicTyped' /\ PmicRegsInv' /\ PmicBusInv'
  BY <1>1, PmicPolls
<1>3. CASE pmicAbrt
  <2>1. PmicBufInv'
    BY <1>1, <1>3, PmicKeepsBuf
  <2>2. PmicSmoothInv'
    BY <1>1, <1>3 DEF PmicInv, PmicSmoothInv, PmicSmooth, PmicRT, PmicEffect, PmicIdRead
  <2> QED
    BY <1>2, <2>1, <2>2 DEF PmicInv
<1>4. CASE ~pmicAbrt
  <2>1. PmicBufInv'
    BY <1>1, <1>4, PmicTakes
  <2>2. PmicSmoothInv'
    BY <1>1, <1>4, PmicTakes DEF PmicInv, PmicSmoothInv, PmicSmooth, PmicRT, PmicEffect
  <2> QED
    BY <1>2, <2>1, <2>2 DEF PmicInv
<1> QED
  BY <1>3, <1>4

LEMMA PmicCollectEndsStep ==
    ASSUME PmicInv, Pmic!CollectEnds
    PROVE  PmicInv'
<1>1. /\ pmicPc = "collect" /\ pmicPc' = "disable" /\ pmicJob = "id" /\ pmicHasty' = (pmicHasty \/ pmicTodo > 0)
      /\ UNCHANGED <<pmicChip, pmicJob, pmicBuf, pmicTodo, pmicFifo, pmicRx, pmicBus, pmicShift, pmicAbrt, pmicPointer, pmicTold, pmicRegs, pmicNacks>>
  BY DEF Pmic!CollectEnds, Pmic!controller, Pmic!device, PmicInv, PmicBufInv
<1>2. PmicTyped' /\ PmicRegsInv' /\ PmicBusInv'
  BY <1>1, PmicPolls
<1>3. PmicBufInv'
  BY <1>1, PmicKeepsBuf
<1>4. ~pmicHasty' => ~pmicHasty /\ pmicTodo # 1
  <2>1. pmicTodo = 1 => pmicTodo > 0
    OBVIOUS
  <2> QED
    BY <1>1, <2>1
<1>5. PmicSmoothInv'
  BY <1>1, <1>4 DEF PmicInv, PmicSmoothInv, PmicSmooth, PmicRT, PmicEffect, PmicIdRead
<1> QED
  BY <1>2, <1>3, <1>5 DEF PmicInv

LEMMA PmicDisableStep ==
    ASSUME PmicInv, Pmic!Disable
    PROVE  PmicInv'
<1>1. /\ pmicPc = "disable" /\ pmicBus' = "off" /\ pmicFifo' = << >> /\ pmicRx' = << >> /\ pmicAbrt' = FALSE
      /\ UNCHANGED <<pmicChip, pmicTodo, pmicPointer, pmicTold, pmicRegs, pmicNacks, pmicHasty>>
  BY DEF Pmic!Disable, Pmic!device
<1>2. CASE pmicJob = "point"
  <2>1. pmicJob' = "id" /\ pmicPc' = "start" /\ pmicBuf' = <<0, 0>>
    BY <1>2 DEF Pmic!Disable, PmicInv, PmicBufInv
  <2>2. PmicTyped' /\ PmicRegsInv' /\ PmicBusInv'
    BY <1>1, <1>2, <2>1 DEF PmicInv, PmicTyped, PmicRegsInv, PmicBusInv, PmicRT
  <2>3. PmicBufInv'
    BY <1>1, <2>1 DEF PmicBufInv
  <2>4. PmicSmoothInv'
    BY <1>1, <1>2, <2>1 DEF PmicInv, PmicSmoothInv, PmicSmooth, PmicRT, PmicEffect, PmicIdRead
  <2> QED
    BY <2>2, <2>3, <2>4 DEF PmicInv
<1>3. CASE pmicJob = "id" /\ Pmic!IsRT5759
  <2>1. pmicJob' = "set" /\ pmicPc' = "start" /\ pmicBuf' = <<2, Pmic!VID>>
    BY <1>3 DEF Pmic!Disable
  <2>2. PmicRT
    BY <1>3, PmicDifferent DEF Pmic!IsRT5759, PmicInv, PmicBufInv
  <2>3. PmicTyped' /\ PmicBusInv'
    BY <1>1, <2>1 DEF PmicInv, PmicTyped, PmicBusInv
  <2>4. PmicRegsInv'
    BY <1>1, <1>3, <2>1, <2>2 DEF PmicInv, PmicRegsInv, PmicRT
  <2>5. PmicBufInv'
    BY <1>1, <2>1, <2>2 DEF PmicBufInv, PmicRT
  <2>6. PmicSmoothInv'
    BY <1>1, <1>3, <2>1 DEF PmicInv, PmicSmoothInv, PmicSmooth, PmicRT, PmicEffect, PmicIdRead
  <2> QED
    BY <2>3, <2>4, <2>5, <2>6 DEF PmicInv
<1>4. CASE pmicJob = "set" \/ (pmicJob = "id" /\ ~Pmic!IsRT5759)
  <2>1. pmicJob' = pmicJob /\ pmicPc' = "over" /\ pmicBuf' = pmicBuf
    BY <1>4 DEF Pmic!Disable
  <2>2. PmicTyped' /\ PmicBusInv' /\ PmicRegsInv'
    BY <1>1, <2>1 DEF PmicInv, PmicTyped, PmicBusInv, PmicRegsInv, PmicRT
  <2>3. PmicBufInv'
    BY <1>1, <2>1 DEF PmicInv, PmicBufInv, PmicRT
  <2>4. PmicSmoothInv'
    BY <1>1, <1>4, <2>1 DEF PmicInv, PmicSmoothInv, PmicSmooth, PmicRT, PmicEffect, PmicIdRead,
       Pmic!IsRT5759
  <2> QED
    BY <2>2, <2>3, <2>4 DEF PmicInv
<1> QED
  BY <1>2, <1>3, <1>4 DEF PmicInv, PmicTyped

-----------------------------------------------------------------------------
LEMMA PmicBeginStep ==
    ASSUME PmicInv, Pmic!Begin
    PROVE  PmicInv'
<1>1. /\ pmicBus = "idle" /\ pmicFifo # << >> /\ pmicBus' = "address"
      /\ UNCHANGED <<pmicChip, pmicPc, pmicJob, pmicBuf, pmicTodo, pmicFifo, pmicRx, pmicShift, pmicAbrt, pmicPointer, pmicTold, pmicRegs, pmicNacks, pmicHasty>>
  BY DEF Pmic!Begin, Pmic!device, Pmic!driver
<1>2. PmicTyped' /\ PmicRegsInv' /\ PmicBufInv'
  BY <1>1, PmicKeepsRegs, PmicKeepsBuf DEF PmicInv, PmicTyped
<1>3. PmicBusInv'
  BY <1>1 DEF PmicInv, PmicBusInv, PmicSends
<1>4. PmicSmoothInv'
  BY <1>1 DEF PmicInv, PmicSmoothInv, PmicSmooth, PmicRT, PmicEffect, PmicIdRead
<1> QED
  BY <1>2, <1>3, <1>4 DEF PmicInv

LEMMA PmicNackStep ==
    ASSUME PmicInv, Pmic!Nack
    PROVE  PmicInv'
<1>1. /\ pmicBus \in {"address", "shift"} /\ pmicBus' = "idle" /\ pmicFifo' = << >>
      /\ pmicNacks' = (IF pmicChip = "none" THEN pmicNacks ELSE pmicNacks + 1)
      /\ UNCHANGED <<pmicChip, pmicPc, pmicJob, pmicBuf, pmicTodo, pmicRx, pmicPointer, pmicTold, pmicRegs, pmicHasty>>
  BY DEF Pmic!Nack, Pmic!driver
<1>2. PmicTyped' /\ PmicRegsInv' /\ PmicBufInv'
  BY <1>1, PmicKeepsRegs, PmicKeepsBuf DEF PmicInv, PmicTyped
<1>3. PmicBusInv'
  BY <1>1 DEF PmicInv, PmicBusInv
<1>4. ~PmicSmooth'
  BY <1>1 DEF PmicSmooth, PmicRT, PmicInv, PmicTyped
<1> QED
  BY <1>2, <1>3, <1>4 DEF PmicInv, PmicSmoothInv

LEMMA PmicAcknowledgeStep ==
    ASSUME PmicInv, Pmic!Acknowledge
    PROVE  PmicInv'
<1>1. /\ pmicBus = "address" /\ pmicBus' = "data" /\ pmicTold' = FALSE
      /\ UNCHANGED <<pmicChip, pmicPc, pmicJob, pmicBuf, pmicTodo, pmicFifo, pmicRx, pmicShift, pmicAbrt, pmicPointer, pmicRegs, pmicNacks, pmicHasty>>
  BY DEF Pmic!Acknowledge, Pmic!driver
<1>2. PmicTyped' /\ PmicRegsInv' /\ PmicBufInv'
  BY <1>1, PmicKeepsRegs, PmicKeepsBuf DEF PmicInv, PmicTyped
<1>3. PmicBusInv'
  BY <1>1 DEF PmicInv, PmicBusInv, PmicBefore, PmicSends
<1>4. PmicSmoothInv'
  BY <1>1 DEF PmicInv, PmicSmoothInv, PmicSmooth, PmicRT, PmicEffect, PmicIdRead
<1> QED
  BY <1>2, <1>3, <1>4 DEF PmicInv

LEMMA PmicSendStep ==
    ASSUME PmicInv, Pmic!Send
    PROVE  PmicInv'
<1>1. /\ pmicBus = "data" /\ pmicBus' = "shift" /\ pmicFifo # << >> /\ pmicShift' = Head(pmicFifo) /\ pmicFifo' = Tail(pmicFifo)
      /\ UNCHANGED <<pmicChip, pmicPc, pmicJob, pmicBuf, pmicTodo, pmicRx, pmicAbrt, pmicPointer, pmicTold, pmicRegs, pmicNacks, pmicHasty>>
  BY DEF Pmic!Send, Pmic!driver, Pmic!device
<1>2. PmicTyped' /\ PmicRegsInv' /\ PmicBufInv'
  BY <1>1, PmicKeepsRegs, PmicKeepsBuf DEF PmicInv, PmicTyped
<1>3. PmicBusInv'
  <2>1. pmicPc \notin {"start", "over", "fill"} /\ (PmicBefore \/ PmicBetween)
    BY <1>1 DEF PmicInv, PmicBusInv, PmicAfter
  <2>2. CASE PmicBefore
    <3>1. PmicSends' = PmicSends /\ Head(PmicSends) = PmicSends[1]
      BY <1>1, PmicSendings DEF PmicSends, PmicInv
    <3>2. PmicFirst'
      BY <1>1, <2>2, <3>1 DEF PmicBefore, PmicFirst
    <3> QED
      BY <1>1, <2>1, <3>2 DEF PmicBusInv
  <2>3. CASE PmicBetween
    <3>1. Head(<<Pmic!VID>>) = Pmic!VID /\ Tail(<<Pmic!VID>>) = << >>
      OBVIOUS
    <3>2. PmicSecond'
      BY <1>1, <2>3, <3>1 DEF PmicBetween, PmicSecond
    <3> QED
      BY <1>1, <2>1, <3>2 DEF PmicBusInv
  <2> QED
    BY <2>1, <2>2, <2>3
<1>4. PmicSmoothInv'
  BY <1>1 DEF PmicInv, PmicSmoothInv, PmicSmooth, PmicRT, PmicEffect, PmicIdRead
<1> QED
  BY <1>2, <1>3, <1>4 DEF PmicInv

LEMMA PmicSentStep ==
    ASSUME PmicInv, Pmic!Sent
    PROVE  PmicInv'
<1>1. /\ pmicBus = "shift" /\ pmicBus' = "data"
      /\ UNCHANGED <<pmicChip, pmicPc, pmicJob, pmicBuf, pmicTodo, pmicFifo, pmicAbrt, pmicNacks, pmicHasty>>
      /\ pmicPc \notin {"start", "over", "fill"} /\ (PmicFirst \/ PmicSecond)
  BY DEF Pmic!Sent, Pmic!driver, PmicInv, PmicBusInv
<1>2. PmicSends' = PmicSends
  BY <1>1 DEF PmicSends
<1>3. CASE pmicJob = "id"
  <2>1. pmicShift = Pmic!READ_TX /\ pmicFifo = << >>
    BY <1>1, <1>3, PmicSendings DEF PmicFirst, PmicSecond, PmicInv
  <2>2. pmicRx' = Append(pmicRx, pmicRegs[pmicPointer]) /\ UNCHANGED <<pmicPointer, pmicTold, pmicRegs>>
    BY <2>1 DEF Pmic!Sent
  <2>3. PmicTyped' /\ PmicRegsInv'
    BY <1>1, <2>2, PmicKeepsRegs DEF PmicInv, PmicTyped
  <2>4. PmicBusInv'
    BY <1>1, <1>3, <2>1, <2>2 DEF PmicBusInv, PmicAfter, PmicEffect
  <2>5. pmicRegs[pmicPointer] \in {0, Pmic!ID} /\ (~PmicRT => pmicRegs[pmicPointer] = 0) /\ (PmicRT /\ pmicPointer = 0 => pmicRegs[pmicPointer] = Pmic!ID)
    BY <1>3 DEF PmicInv, PmicRegsInv, PmicTyped, Pmic!AllChips
  <2>6. pmicRx \in Seq({0, Pmic!ID})
    BY DEF PmicInv, PmicBufInv
  <2>7. /\ pmicRx' \in Seq({0, Pmic!ID}) /\ Len(pmicRx') = Len(pmicRx) + 1 /\ pmicRx'[Len(pmicRx) + 1] = pmicRegs[pmicPointer]
        /\ \A k \in 1 .. Len(pmicRx) : pmicRx'[k] = pmicRx[k]
    BY <2>2, <2>5, <2>6
  <2>8. \A k \in 1 .. Len(pmicRx') : k \in 1 .. Len(pmicRx) \/ k = Len(pmicRx) + 1
    BY <2>6, <2>7
  <2>9. PmicBufInv'
    BY <1>1, <1>3, <2>5, <2>7, <2>8 DEF PmicInv, PmicBufInv, PmicRT
  <2>10. PmicIdRead /\ PmicRT /\ pmicPointer = 0 => PmicIdRead'
    BY <2>5, <2>7, <2>8 DEF PmicIdRead
  <2>11. PmicSmoothInv'
    BY <1>1, <1>3, <2>2, <2>10 DEF PmicInv, PmicSmoothInv, PmicSmooth, PmicRT, PmicEffect
  <2> QED
    BY <2>3, <2>4, <2>9, <2>11 DEF PmicInv
<1>4. CASE pmicJob # "id" /\ PmicFirst
  <2>1. ~pmicTold /\ pmicShift \in {0, 2} /\ (pmicJob = "point" => pmicShift = 0 /\ pmicFifo = << >>)
        /\ (pmicJob = "set" => pmicShift = 2 /\ pmicFifo = <<Pmic!VID>>)
    BY <1>4, PmicSendings DEF PmicFirst, PmicInv, PmicTyped
  <2>2. pmicPointer' = pmicShift /\ pmicTold' = TRUE /\ UNCHANGED <<pmicRx, pmicRegs>>
    BY <2>1, PmicDifferent DEF Pmic!Sent
  <2>3. PmicTyped' /\ PmicRegsInv' /\ PmicBufInv'
    BY <1>1, <2>1, <2>2, PmicKeepsRegs, PmicKeepsBuf DEF PmicInv, PmicTyped
  <2>4. pmicJob = "point" \/ pmicJob = "set"
    BY <1>4 DEF PmicInv, PmicTyped
  <2>5. PmicBusInv'
    BY <1>1, <2>1, <2>2, <2>4 DEF PmicBusInv, PmicAfter, PmicBetween, PmicEffect
  <2>6. PmicSmoothInv'
    BY <1>1, <1>4, <2>1, <2>2, <2>4 DEF PmicInv, PmicSmoothInv, PmicSmooth, PmicRT, PmicEffect
  <2> QED
    BY <2>3, <2>5, <2>6 DEF PmicInv
<1>5. CASE pmicJob # "id" /\ PmicSecond
  <2>1. pmicJob = "set" /\ pmicShift = Pmic!VID /\ pmicFifo = << >> /\ pmicTold /\ pmicPointer = 2
    BY <1>5 DEF PmicSecond
  <2>2. pmicRegs' = [pmicRegs EXCEPT ![2] = Pmic!VID] /\ UNCHANGED <<pmicRx, pmicPointer, pmicTold>>
    BY <2>1, PmicDifferent DEF Pmic!Sent
  <2>3. PmicTyped' /\ PmicBufInv'
    BY <1>1, <2>2, PmicKeepsBuf DEF PmicInv, PmicTyped
  <2>4. pmicRegs' \in [{0, 2} -> {0, Pmic!VID, Pmic!ID}] /\ pmicRegs'[0] = pmicRegs[0] /\ pmicRegs'[2] = Pmic!VID
    BY <2>2 DEF PmicInv, PmicRegsInv
  <2>5. PmicRegsInv'
    BY <1>1, <2>1, <2>4 DEF PmicInv, PmicRegsInv, PmicRT
  <2>6. PmicBusInv'
    BY <1>1, <2>1, <2>4 DEF PmicBusInv, PmicAfter, PmicEffect
  <2>7. PmicSmoothInv'
    BY <1>1, <2>1, <2>2, <2>4 DEF PmicInv, PmicSmoothInv, PmicSmooth, PmicRT, PmicEffect
  <2> QED
    BY <2>3, <2>5, <2>6, <2>7 DEF PmicInv
<1> QED
  BY <1>1, <1>3, <1>4, <1>5

LEMMA PmicStopStep ==
    ASSUME PmicInv, Pmic!Stop
    PROVE  PmicInv'
<1>1. /\ pmicBus = "data" /\ pmicFifo = << >> /\ pmicBus' = "idle"
      /\ UNCHANGED <<pmicChip, pmicPc, pmicJob, pmicBuf, pmicTodo, pmicFifo, pmicRx, pmicShift, pmicAbrt, pmicPointer, pmicTold, pmicRegs, pmicNacks, pmicHasty>>
  BY DEF Pmic!Stop, Pmic!driver, Pmic!device
<1>2. PmicTyped' /\ PmicRegsInv' /\ PmicBufInv'
  BY <1>1, PmicKeepsRegs, PmicKeepsBuf DEF PmicInv, PmicTyped
<1>3. PmicBusInv'
  BY <1>1 DEF PmicInv, PmicBusInv
<1>4. PmicEffect
  BY <1>1, PmicSendings DEF PmicInv, PmicBusInv, PmicBefore, PmicBetween, PmicAfter
<1>5. PmicSmoothInv'
  BY <1>1, <1>4 DEF PmicInv, PmicSmoothInv, PmicSmooth, PmicRT, PmicEffect, PmicIdRead
<1> QED
  BY <1>2, <1>3, <1>5 DEF PmicInv

-----------------------------------------------------------------------------
LEMMA PmicNextInv ==
    ASSUME PmicInv, [Pmic!Next]_(Pmic!vars)
    PROVE  PmicInv'
<1>1. CASE Pmic!Start \/ Pmic!Fill \/ Pmic!Await \/ Pmic!AwaitEnds \/ Pmic!Look
  BY <1>1, PmicStartStep, PmicFillStep, PmicAwaitStep, PmicAwaitEndsStep, PmicLookStep
<1>2. CASE Pmic!FinishWrite \/ Pmic!FinishRead \/ Pmic!Collect \/ Pmic!CollectEnds \/ Pmic!Disable
  BY <1>2, PmicFinishWriteStep, PmicFinishReadStep, PmicCollectStep, PmicCollectEndsStep,
     PmicDisableStep
<1>3. CASE Pmic!Begin \/ Pmic!Nack \/ Pmic!Acknowledge \/ Pmic!Send \/ Pmic!Sent \/ Pmic!Stop
  BY <1>3, PmicBeginStep, PmicNackStep, PmicAcknowledgeStep, PmicSendStep, PmicSentStep,
     PmicStopStep
<1>4. CASE UNCHANGED Pmic!vars
  <2>1. UNCHANGED <<pmicChip, pmicPc, pmicJob, pmicBuf, pmicTodo, pmicFifo, pmicRx, pmicBus, pmicShift, pmicAbrt, pmicPointer, pmicTold, pmicRegs, pmicNacks, pmicHasty>>
    BY <1>4 DEF Pmic!vars, Pmic!driver, Pmic!controller, Pmic!device
  <2>2. PmicTyped' /\ PmicRegsInv' /\ PmicBufInv'
    BY <2>1, PmicKeepsRegs, PmicKeepsBuf DEF PmicInv, PmicTyped
  <2>3. PmicBusInv'
    BY <2>1 DEF PmicInv, PmicBusInv, PmicBefore, PmicFirst, PmicBetween, PmicSecond, PmicAfter,
       PmicEffect, PmicSends
  <2>4. PmicSmoothInv'
    BY <2>1 DEF PmicInv, PmicSmoothInv, PmicSmooth, PmicRT, PmicEffect, PmicIdRead
  <2> QED
    BY <2>2, <2>3, <2>4 DEF PmicInv
<1> QED
  BY <1>1, <1>2, <1>3, <1>4 DEF Pmic!Next, Pmic!Driver, Pmic!Controller

LEMMA PmicVoltage ==
    ASSUME PmicInv
    PROVE  Pmic!VoltageSet
<1>1. pmicJob \in {"point", "id", "set"} /\ pmicRegs[2] \in {0, Pmic!VID} /\ (~PmicRT => pmicRegs[2] = 0)
  BY DEF PmicInv, PmicTyped, PmicRegsInv
<1>2. pmicRegs[0] = IF PmicRT THEN Pmic!ID ELSE 0
  BY DEF PmicInv, PmicRegsInv
<1>3. PmicRT /\ pmicPc = "over" /\ pmicNacks = 0 /\ ~pmicHasty => pmicRegs[2] = Pmic!VID
  BY DEF PmicInv, PmicSmoothInv, PmicSmooth
<1>4. CASE PmicRT
  BY <1>1, <1>2, <1>3, <1>4 DEF Pmic!VoltageSet, PmicRT
<1>5. CASE ~PmicRT
  BY <1>1, <1>2, <1>5 DEF Pmic!VoltageSet, PmicRT
<1> QED
  BY <1>4, <1>5

-----------------------------------------------------------------------------
(* TrainingFw                                                               *)
FwInfoTyped ==
    /\ fwInfo.chain \in Seq(FwClusters) /\ Len(fwInfo.chain) >= 1
    /\ \A x, y \in 1 .. Len(fwInfo.chain) : fwInfo.chain[x] = fwInfo.chain[y] => x = y
    /\ fwInfo.spc \in Nat \ {0} /\ fwInfo.end \in Nat /\ 65528 <= fwInfo.end

FwTyped ==
    /\ fwPc \in {"idle", "walk", "next", "done"} /\ fwResult \in {"none", "pass", "fail"}
    /\ fwStartLba \in Nat /\ fwI \in Nat /\ fwMaxLba \in Nat /\ fwLost \in Nat
    /\ DOMAIN fwTable = 0 .. MaxFwLen - 1

(* The walk is j clusters on, at the file's cluster, or behind its end.     *)
FwAt(j) ==
    /\ fwI = (j - 1) * fwInfo.spc
    /\ j <= Len(fwInfo.chain) => fwCluster = fwInfo.chain[j]
    /\ fwInfo.end = Fw!LastCluster => j <= Len(fwInfo.chain)

FwWalkInv == fwPc = "walk" /\ fwLost = 0 => fwI < Fw!FirstBehind /\ \E j \in Nat \ {0} : FwAt(j)
FwNextStepInv ==
    fwPc = "next" /\ fwLost = 0 =>
        /\ fwI < Fw!FirstBehind
        /\ \E j \in Nat \ {0} :
               /\ fwI = j * fwInfo.spc
               /\ j <= Len(fwInfo.chain) => fwCluster = fwInfo.chain[j]
               /\ fwInfo.end = Fw!LastCluster => j <= Len(fwInfo.chain)
FwDoneInv ==
    fwPc = "done" /\ fwLost = 0 =>
        /\ fwI <= Fw!FirstBehind
        /\ fwI = Fw!FirstBehind \/ fwI >= Fw!FwSectors
        /\ fwInfo.end = Fw!LastCluster => fwI <= Fw!FwSectors

(* The table is right as far as the walk has come.                          *)
FwTableInv ==
    fwPc # "idle" /\ fwLost = 0 =>
        \A k \in 0 .. MaxFwLen - 1 :
            fwStartLba + k < fwI /\ fwStartLba + k < Fw!FwSectors => fwTable[k] = Fw!SectorOf(fwStartLba + k)

FwInv == FwInfoTyped /\ FwTyped /\ FwWalkInv /\ FwNextStepInv /\ FwDoneInv /\ FwTableInv /\ Fw!TableRight

-----------------------------------------------------------------------------
LEMMA FwFwDivMod ==
    ASSUME NEW x \in Nat, NEW b \in Nat \ {0}
    PROVE  x \div b \in Nat /\ x % b \in 0 .. b - 1 /\ x = (x \div b) * b + (x % b)
OBVIOUS

LEMMA FwFwSmall ==
    ASSUME NEW b \in Nat \ {0}, NEW e \in Int, e * b < b, e * b > -b
    PROVE  e = 0
OBVIOUS

LEMMA FwFwUnique ==
    ASSUME NEW b \in Nat \ {0}, NEW q \in Nat, NEW r \in 0 .. b - 1
    PROVE  (q * b + r) \div b = q /\ (q * b + r) % b = r
<1> DEFINE x == q * b + r
           d == x \div b
           m == x % b
<1>1. x \in Nat
  OBVIOUS
<1>2. d \in Nat /\ m \in 0 .. b - 1 /\ x = d * b + m
  BY <1>1, FwFwDivMod
<1> HIDE DEF d, m
<1>3. (q - d) * b = m - r
  BY <1>2
<1>4. q - d = 0
  BY <1>2, <1>3, FwFwSmall
<1> QED BY <1>2, <1>4 DEF d, m

LEMMA FwFwTimes ==
    ASSUME NEW b \in Nat \ {0}, NEW j \in Nat, NEW n \in Nat
    PROVE  /\ j * b \in Nat /\ (j + 1) * b = j * b + b
           /\ j >= n => j * b >= n * b
           /\ j * b < n * b => j < n
           /\ j >= 1 => (j - 1) * b = j * b - b
OBVIOUS

LEMMA FwFacts ==
    ASSUME Fw!TrainingFwAssumption, FwInfoTyped
    PROVE  /\ MaxFwLen \in Nat \ {0} /\ fwInfo.spc \in Nat \ {0} /\ Len(fwInfo.chain) \in Nat \ {0}
           /\ Fw!FwSectors \in Nat /\ Fw!FwSectors = Len(fwInfo.chain) * fwInfo.spc
           /\ \A x \in 1 .. Len(fwInfo.chain) : fwInfo.chain[x] \in FwClusters /\ fwInfo.chain[x] # Fw!LastCluster
<1>1. MaxFwLen \in Nat \ {0} /\ (\A c \in FwClusters : c \in Nat /\ c <= 65524)
  BY DEF Fw!TrainingFwAssumption
<1>2. fwInfo.spc \in Nat \ {0} /\ fwInfo.chain \in Seq(FwClusters) /\ Len(fwInfo.chain) \in Nat /\ Len(fwInfo.chain) >= 1
  BY DEF FwInfoTyped
<1>3. Len(fwInfo.chain) * fwInfo.spc \in Nat
  BY <1>2
<1>4. \A x \in 1 .. Len(fwInfo.chain) : fwInfo.chain[x] \in FwClusters
  BY <1>2
<1>5. \A c \in FwClusters : c # Fw!LastCluster
  <2> SUFFICES ASSUME NEW c \in FwClusters PROVE c # Fw!LastCluster
    OBVIOUS
  <2>1. c \in Nat /\ c <= 65524
    BY <1>1
  <2> QED BY <2>1, SMT DEF Fw!LastCluster
<1> QED BY <1>1, <1>2, <1>3, <1>4, <1>5 DEF Fw!FwSectors

LEMMA FwInitInv ==
    ASSUME Fw!TrainingFwAssumption, Fw!Init
    PROVE  FwInv
<1>1. fwInfo \in [chain : Fw!Chains, spc : FwSectsPerClus, end : FwEnds]
  BY DEF Fw!Init
<1>2. fwInfo.chain \in Fw!Chains /\ fwInfo.spc \in FwSectsPerClus /\ fwInfo.end \in FwEnds
  BY <1>1
<1>3. PICK k \in 1 .. FwLength : fwInfo.chain \in [1 .. k -> FwClusters]
  BY <1>2 DEF Fw!Chains
<1>4. k \in Nat /\ k >= 1
  BY <1>3 DEF Fw!TrainingFwAssumption
<1>5. fwInfo.chain \in Seq(FwClusters) /\ Len(fwInfo.chain) = k /\ DOMAIN fwInfo.chain = 1 .. k
  BY <1>3, <1>4
<1>6. \A x, y \in DOMAIN fwInfo.chain : fwInfo.chain[x] = fwInfo.chain[y] => x = y
  BY <1>2 DEF Fw!Chains
<1>7. FwInfoTyped
  <2>1. fwInfo.spc \in Nat \ {0}
    <3>1. FwSectsPerClus \subseteq Nat \ {0}
      BY SMT DEF Fw!TrainingFwAssumption
    <3>2. fwInfo.spc \in FwSectsPerClus
      BY <1>2
    <3> QED BY <3>1, <3>2
  <2>2. fwInfo.end \in Nat /\ 65528 <= fwInfo.end
    <3>1. \A e \in FwEnds : e \in Nat /\ 65528 <= e
      BY SMT DEF Fw!TrainingFwAssumption
    <3>2. fwInfo.end \in FwEnds
      BY <1>2
    <3> QED BY <3>1, <3>2
  <2> QED BY <1>4, <1>5, <1>6, <2>1, <2>2 DEF FwInfoTyped
<1> QED BY <1>7 DEF Fw!Init, FwInv, FwTyped, FwWalkInv, FwNextStepInv, FwDoneInv, FwTableInv,
   Fw!TableRight

LEMMA FwAskStep ==
    ASSUME Fw!TrainingFwAssumption, FwInv, Fw!Ask
    PROVE  FwInv'
<1>1. /\ fwStartLba' \in Nat /\ fwI' = 0 /\ fwCluster' = fwInfo.chain[1] /\ fwPc' = "walk" /\ fwResult' = "none"
      /\ UNCHANGED <<fwInfo, fwTable, fwMaxLba, fwLost>>
  BY DEF Fw!Ask, Fw!TrainingFwAssumption
<1>2. FwInfoTyped'
  BY <1>1 DEF FwInv, FwInfoTyped
<1>3. FwTyped'
  BY <1>1 DEF FwInv, FwTyped
<1>4. FwWalkInv'
  <2>1. MaxFwLen \in Nat \ {0} /\ fwInfo.spc \in Nat \ {0} /\ Len(fwInfo.chain) \in Nat \ {0}
    BY FwFacts DEF FwInv
  <2>2. (1 - 1) * fwInfo.spc = 0
    BY <2>1
  <2>3. FwAt(1)'
    <3>1. fwI' = (1 - 1) * fwInfo'.spc /\ fwCluster' = fwInfo'.chain[1] /\ 1 <= Len(fwInfo'.chain)
      BY <1>1, <2>1, <2>2
    <3> QED BY <3>1 DEF FwAt
  <2>4. fwI' < Fw!FirstBehind'
    <3> DEFINE s == fwStartLba'
    <3>1. s \in Nat
      BY <1>1
    <3> HIDE DEF s
    <3>2. 0 < s + MaxFwLen
      BY <2>1, <3>1
    <3> QED BY <1>1, <3>2 DEF Fw!FirstBehind, s
  <2> QED BY <2>3, <2>4 DEF FwWalkInv
<1>5. FwNextStepInv' /\ FwDoneInv' /\ Fw!TableRight'
  BY <1>1 DEF FwNextStepInv, FwDoneInv, Fw!TableRight
<1>6. FwTableInv'
  BY <1>1 DEF FwTableInv
<1> QED BY <1>2, <1>3, <1>4, <1>5, <1>6 DEF FwInv

(* The sectors of the j-th cluster, when they are the file's.               *)
LEMMA FwSectorInCluster ==
    ASSUME Fw!TrainingFwAssumption, FwInfoTyped, NEW j \in Nat \ {0}, NEW s \in Nat,
           (j - 1) * fwInfo.spc <= s, s < (j - 1) * fwInfo.spc + fwInfo.spc, s < Fw!FwSectors
    PROVE  j <= Len(fwInfo.chain) /\ Fw!SectorOf(s) = <<fwInfo.chain[j], s - (j - 1) * fwInfo.spc>>
<1> DEFINE b == fwInfo.spc
           q == j - 1
           r == s - q * b
           n == Len(fwInfo.chain)
<1>1. b \in Nat \ {0} /\ n \in Nat /\ Fw!FwSectors = n * b /\ q \in Nat /\ j = q + 1
  BY FwFacts
<1>2. s >= q * b /\ s < q * b + b /\ s < n * b
  BY <1>1
<1> HIDE DEF q, b, n
<1>3. q * b \in Nat
  BY <1>1
<1>4. q < n
  <2>1. q * b < n * b
    <3>1. n * b \in Nat
      BY <1>1
    <3> QED BY <1>2, <1>3, <3>1
  <2> QED BY <1>1, <2>1, FwFwTimes
<1>5. r \in 0 .. b - 1 /\ s = q * b + r
  BY <1>1, <1>2, <1>3
<1> HIDE DEF r
<1>6. s \div b = q /\ s % b = r
  BY <1>1, <1>5, FwFwUnique
<1>7. Fw!SectorOf(s) = <<fwInfo.chain[q + 1], r>>
  BY <1>6 DEF Fw!SectorOf, b
<1>8. r = s - (j - 1) * fwInfo.spc
  BY DEF r, q, b
<1> QED BY <1>1, <1>4, <1>7, <1>8 DEF n

LEMMA FwWalkEffect ==
    ASSUME Fw!TrainingFwAssumption, FwInv, Fw!Walk
    PROVE  /\ fwPc = "walk" /\ UNCHANGED <<fwInfo, fwResult, fwStartLba, fwCluster, fwMaxLba, fwLost>>
           /\ fwI \in Nat /\ fwStartLba \in Nat /\ Fw!FirstBehind \in Nat /\ fwInfo.spc \in Nat \ {0}
           /\ fwI' = IF fwI + fwInfo.spc >= Fw!FirstBehind THEN Fw!FirstBehind ELSE fwI + fwInfo.spc
           /\ fwI' \in Nat /\ fwI' <= Fw!FirstBehind /\ fwI' <= fwI + fwInfo.spc
           /\ fwPc' = IF fwI' = Fw!FirstBehind THEN "done" ELSE "next"
           /\ DOMAIN fwTable' = 0 .. MaxFwLen - 1
           /\ \A k \in 0 .. MaxFwLen - 1 :
                 /\ fwStartLba + k >= fwI /\ fwStartLba + k < fwI' => fwTable'[k] = <<fwCluster, fwStartLba + k - fwI>>
                 /\ ~(fwStartLba + k >= fwI /\ fwStartLba + k < fwI') => fwTable'[k] = fwTable[k]
<1>1. fwInfo.spc \in Nat \ {0} /\ MaxFwLen \in Nat \ {0}
  BY FwFacts DEF FwInv
<1>2. fwI \in Nat /\ fwStartLba \in Nat /\ Fw!FirstBehind \in Nat /\ DOMAIN fwTable = 0 .. MaxFwLen - 1
  BY <1>1 DEF FwInv, FwTyped, Fw!FirstBehind
<1>3. /\ fwPc = "walk" /\ UNCHANGED <<fwInfo, fwResult, fwStartLba, fwCluster, fwMaxLba, fwLost>>
      /\ fwI' = IF fwI + fwInfo.spc >= Fw!FirstBehind THEN Fw!FirstBehind ELSE fwI + fwInfo.spc
      /\ fwPc' = IF fwI' = Fw!FirstBehind THEN "done" ELSE "next"
  BY DEF Fw!Walk
<1>4. fwI' \in Nat /\ fwI' <= Fw!FirstBehind /\ fwI' <= fwI + fwInfo.spc
  BY <1>1, <1>2, <1>3
<1>5. fwTable' = [k \in DOMAIN fwTable |->
                    IF fwStartLba + k \in fwI .. fwI' - 1 THEN <<fwCluster, fwStartLba + k - fwI>> ELSE fwTable[k]]
  BY DEF Fw!Walk
<1>6. \A k \in 0 .. MaxFwLen - 1 : fwStartLba + k \in fwI .. fwI' - 1 <=> fwStartLba + k >= fwI /\ fwStartLba + k < fwI'
  <2> SUFFICES ASSUME NEW k \in 0 .. MaxFwLen - 1
               PROVE  fwStartLba + k \in fwI .. fwI' - 1 <=> fwStartLba + k >= fwI /\ fwStartLba + k < fwI'
    OBVIOUS
  <2>1. k \in Nat /\ fwStartLba + k \in Nat
    BY <1>1, <1>2
  <2>2. \A s \in Nat : s \in fwI .. fwI' - 1 <=> s >= fwI /\ s < fwI'
    <3> DEFINE e == fwI'
    <3>1. e \in Nat /\ fwI \in Nat
      BY <1>2, <1>4
    <3> HIDE DEF e
    <3>2. \A s \in Nat : s \in fwI .. e - 1 <=> s >= fwI /\ s < e
      BY <3>1
    <3> QED BY <3>2 DEF e
  <2> QED BY <2>1, <2>2
<1> QED BY <1>1, <1>2, <1>3, <1>4, <1>5, <1>6

LEMMA FwWalkStep ==
    ASSUME Fw!TrainingFwAssumption, FwInv, Fw!Walk
    PROVE  FwInv'
<1>1. /\ fwPc = "walk" /\ UNCHANGED <<fwInfo, fwResult, fwStartLba, fwCluster, fwMaxLba, fwLost>>
      /\ fwI \in Nat /\ fwStartLba \in Nat /\ Fw!FirstBehind \in Nat /\ fwInfo.spc \in Nat \ {0}
      /\ fwI' = IF fwI + fwInfo.spc >= Fw!FirstBehind THEN Fw!FirstBehind ELSE fwI + fwInfo.spc
      /\ fwI' \in Nat /\ fwI' <= Fw!FirstBehind /\ fwI' <= fwI + fwInfo.spc
      /\ fwPc' = IF fwI' = Fw!FirstBehind THEN "done" ELSE "next"
      /\ DOMAIN fwTable' = 0 .. MaxFwLen - 1
  BY FwWalkEffect
<1>2. /\ MaxFwLen \in Nat \ {0} /\ Len(fwInfo.chain) \in Nat \ {0}
      /\ Fw!FwSectors \in Nat /\ Fw!FwSectors = Len(fwInfo.chain) * fwInfo.spc
  BY FwFacts DEF FwInv
<1>3. FwInfoTyped'
  BY <1>1 DEF FwInv, FwInfoTyped
<1>4. FwTyped'
  BY <1>1 DEF FwInv, FwTyped
<1>5. Fw!FirstBehind' = Fw!FirstBehind /\ Fw!FwSectors' = Fw!FwSectors /\ \A s : Fw!SectorOf(s)' = Fw!SectorOf(s)
  BY <1>1 DEF Fw!FirstBehind, Fw!FwSectors, Fw!SectorOf
<1>6. FwWalkInv' /\ Fw!TableRight'
  BY <1>1 DEF FwWalkInv, Fw!TableRight
<1>7. ASSUME fwLost = 0 PROVE FwNextStepInv' /\ FwDoneInv' /\ FwTableInv'
  <2>1. PICK j \in Nat \ {0} : FwAt(j)
    BY <1>1, <1>7 DEF FwInv, FwWalkInv
  <2> DEFINE before == (j - 1) * fwInfo.spc
             through == j * fwInfo.spc
  <2>2. fwI = before /\ before \in Nat /\ through = before + fwInfo.spc
        /\ (j <= Len(fwInfo.chain) => fwCluster = fwInfo.chain[j])
        /\ (fwInfo.end = Fw!LastCluster => j <= Len(fwInfo.chain))
    <3>1. j - 1 \in Nat /\ j \in Nat
      BY <2>1
    <3>2. before \in Nat /\ through = before + fwInfo.spc
      BY <1>1, <2>1, <3>1, FwFwTimes
    <3> QED BY <2>1, <3>2 DEF FwAt
  <2>3. /\ j >= Len(fwInfo.chain) => through >= Fw!FwSectors
        /\ j <= Len(fwInfo.chain) => through <= Fw!FwSectors
    BY <1>1, <1>2, <2>1, FwFwTimes
  <2> HIDE DEF before, through
  <2>4. ASSUME fwI + fwInfo.spc >= Fw!FirstBehind PROVE FwNextStepInv' /\ FwDoneInv'
    <3>1. fwI' = Fw!FirstBehind /\ fwPc' = "done"
      BY <1>1, <2>4
    <3>2. fwInfo.end = Fw!LastCluster => Fw!FirstBehind <= Fw!FwSectors
      BY <1>1, <1>2, <2>2, <2>3, <2>4
    <3>3. fwI' = Fw!FirstBehind' /\ Fw!FirstBehind' \in Nat /\ fwI' <= Fw!FirstBehind'
      BY <1>1, <1>5, <3>1
    <3>4. fwInfo'.end = Fw!LastCluster => fwI' <= Fw!FwSectors'
      BY <1>1, <1>5, <3>1, <3>2
    <3> QED BY <3>1, <3>3, <3>4 DEF FwNextStepInv, FwDoneInv
  <2>5. ASSUME ~(fwI + fwInfo.spc >= Fw!FirstBehind) PROVE FwNextStepInv' /\ FwDoneInv'
    <3>1. fwI' = through /\ fwI' < Fw!FirstBehind /\ fwPc' = "next"
      BY <1>1, <2>2, <2>5
    <3>2. fwI' = j * fwInfo'.spc /\ (j <= Len(fwInfo'.chain) => fwCluster' = fwInfo'.chain[j])
          /\ (fwInfo'.end = Fw!LastCluster => j <= Len(fwInfo'.chain))
      BY <1>1, <2>2, <3>1 DEF through
    <3>3. fwI' < Fw!FirstBehind'
      BY <1>5, <3>1
    <3> QED BY <2>1, <3>1, <3>2, <3>3 DEF FwNextStepInv, FwDoneInv
  <2>6. FwTableInv'
    <3> SUFFICES ASSUME NEW k \in 0 .. MaxFwLen - 1, fwStartLba + k < fwI', fwStartLba + k < Fw!FwSectors
                 PROVE  fwTable'[k] = Fw!SectorOf(fwStartLba + k)
      BY <1>1, <1>5 DEF FwTableInv
    <3>1. fwStartLba + k \in Nat
      BY <1>1, <1>2
    <3> DEFINE s == fwStartLba + k
    <3>2. CASE s < fwI
      <4>1. fwTable'[k] = fwTable[k]
        BY <1>1, <3>1, <3>2, FwWalkEffect
      <4> QED BY <1>1, <1>7, <3>2, <4>1 DEF FwInv, FwTableInv
    <3>3. CASE ~(s < fwI)
      <4>1. fwTable'[k] = <<fwCluster, s - fwI>>
        BY <1>1, <3>1, <3>3, FwWalkEffect
      <4>2. before <= s /\ s < before + fwInfo.spc /\ s < Fw!FwSectors
        BY <1>1, <2>2, <3>1, <3>3
      <4> HIDE DEF s
      <4>3. j <= Len(fwInfo.chain) /\ Fw!SectorOf(s) = <<fwInfo.chain[j], s - before>>
        BY <3>1, <4>2, FwSectorInCluster DEF before, FwInv, s
      <4> QED BY <2>2, <4>1, <4>3 DEF s
    <3> QED BY <3>2, <3>3
  <2> QED BY <2>4, <2>5, <2>6
<1>8. FwNextStepInv' /\ FwDoneInv' /\ FwTableInv'
  BY <1>1, <1>7 DEF FwNextStepInv, FwDoneInv, FwTableInv
<1> QED BY <1>3, <1>4, <1>6, <1>8 DEF FwInv

(* The chain goes on to its next cluster, or ends with its mark.            *)
LEMMA FwEntryFacts ==
    ASSUME Fw!TrainingFwAssumption, FwInfoTyped, NEW j \in 1 .. Len(fwInfo.chain), NEW e \in Fw!Entry(fwInfo.chain[j])
    PROVE  e = IF j = Len(fwInfo.chain) THEN fwInfo.end ELSE fwInfo.chain[j + 1]
<1> DEFINE at == {k \in DOMAIN fwInfo.chain : fwInfo.chain[k] = fwInfo.chain[j]}
<1>1. DOMAIN fwInfo.chain = 1 .. Len(fwInfo.chain)
  BY DEF FwInfoTyped
<1>2. at = {j}
  BY <1>1 DEF FwInfoTyped
<1>3. Fw!Entry(fwInfo.chain[j]) = {IF k = Len(fwInfo.chain) THEN fwInfo.end ELSE fwInfo.chain[k + 1] : k \in {j}}
  BY <1>2 DEF Fw!Entry
<1> QED BY <1>3

LEMMA FwNextClusterStep ==
    ASSUME Fw!TrainingFwAssumption, FwInv, Fw!NextCluster
    PROVE  FwInv'
<1>1. /\ fwPc = "next" /\ UNCHANGED <<fwInfo, fwResult, fwStartLba, fwI, fwTable, fwMaxLba>>
      /\ \/ fwCluster' \in Fw!Entry(fwCluster) /\ fwLost' = fwLost
         \/ fwLost' = fwLost + 1
      /\ fwPc' = IF fwCluster' = Fw!LastCluster THEN "done" ELSE "walk"
  BY DEF Fw!NextCluster
<1>2. fwLost \in Nat /\ fwLost' \in Nat
  BY <1>1 DEF FwInv, FwTyped
<1>3. FwInfoTyped' /\ FwTyped'
  BY <1>1, <1>2 DEF FwInv, FwInfoTyped, FwTyped
<1>4. Fw!FirstBehind' = Fw!FirstBehind /\ Fw!FwSectors' = Fw!FwSectors /\ \A s : Fw!SectorOf(s)' = Fw!SectorOf(s)
  BY <1>1 DEF Fw!FirstBehind, Fw!FwSectors, Fw!SectorOf
<1>5. FwNextStepInv' /\ Fw!TableRight'
  BY <1>1 DEF FwNextStepInv, Fw!TableRight
<1>6. FwTableInv'
  BY <1>1, <1>2, <1>4 DEF FwInv, FwTableInv
<1>7. ASSUME fwLost' = 0 PROVE FwWalkInv' /\ FwDoneInv'
  <2>1. fwLost = 0 /\ fwCluster' \in Fw!Entry(fwCluster)
    BY <1>1, <1>2, <1>7
  <2>2. PICK j \in Nat \ {0} :
               /\ fwI = j * fwInfo.spc
               /\ j <= Len(fwInfo.chain) => fwCluster = fwInfo.chain[j]
               /\ fwInfo.end = Fw!LastCluster => j <= Len(fwInfo.chain)
    BY <1>1, <2>1 DEF FwInv, FwNextStepInv
  <2>3. fwI < Fw!FirstBehind
    BY <1>1, <2>1 DEF FwInv, FwNextStepInv
  <2>4. /\ fwInfo.spc \in Nat \ {0} /\ Len(fwInfo.chain) \in Nat \ {0}
        /\ Fw!FwSectors \in Nat /\ Fw!FwSectors = Len(fwInfo.chain) * fwInfo.spc
        /\ \A x \in 1 .. Len(fwInfo.chain) : fwInfo.chain[x] # Fw!LastCluster
    BY FwFacts DEF FwInv
  <2>5. j <= Len(fwInfo.chain) => fwCluster' = IF j = Len(fwInfo.chain) THEN fwInfo.end ELSE fwInfo.chain[j + 1]
    <3>1. ASSUME j <= Len(fwInfo.chain) PROVE j \in 1 .. Len(fwInfo.chain) /\ fwCluster' \in Fw!Entry(fwInfo.chain[j])
      BY <2>1, <2>2, <2>4, <3>1
    <3> QED BY <3>1, FwEntryFacts DEF FwInv
  <2>6. CASE fwCluster' # Fw!LastCluster
    <3>1. fwPc' = "walk"
      BY <1>1, <2>6
    <3>2. (j + 1) - 1 = j /\ j + 1 \in Nat \ {0}
      BY <2>2
    <3>3. j + 1 <= Len(fwInfo.chain) => fwCluster' = fwInfo.chain[j + 1]
      BY <2>2, <2>4, <2>5
    <3>4. fwInfo.end = Fw!LastCluster => j + 1 <= Len(fwInfo.chain)
      BY <2>2, <2>4, <2>5, <2>6
    <3>5. fwI' = ((j + 1) - 1) * fwInfo'.spc
      BY <1>1, <2>2, <3>2
    <3>6. FwAt(j + 1)'
      BY <1>1, <3>3, <3>4, <3>5 DEF FwAt
    <3> QED BY <1>1, <1>4, <2>3, <3>1, <3>2, <3>6 DEF FwWalkInv, FwDoneInv
  <2>7. CASE fwCluster' = Fw!LastCluster
    <3>1. fwPc' = "done"
      BY <1>1, <2>7
    <3>2. j >= Len(fwInfo.chain)
      <4>1. ASSUME j < Len(fwInfo.chain) PROVE FALSE
        <5>1. j + 1 \in 1 .. Len(fwInfo.chain) /\ fwCluster' = fwInfo.chain[j + 1]
          BY <2>2, <2>4, <2>5, <4>1
        <5> QED BY <2>4, <2>7, <5>1
      <4> QED BY <2>2, <2>4, <4>1
    <3>3. fwI >= Fw!FwSectors
      BY <2>2, <2>4, <3>2, FwFwTimes
    <3>4. fwInfo.end = Fw!LastCluster => fwI = Fw!FwSectors
      BY <2>2, <2>4, <3>2
    <3>5. Fw!FirstBehind \in Nat /\ fwI \in Nat
      BY FwFacts DEF FwInv, FwTyped, Fw!FirstBehind
    <3> QED BY <1>1, <1>4, <2>3, <2>4, <3>1, <3>3, <3>4, <3>5 DEF FwWalkInv, FwDoneInv
  <2> QED BY <2>6, <2>7
<1>8. FwWalkInv' /\ FwDoneInv'
  BY <1>7 DEF FwWalkInv, FwDoneInv
<1> QED BY <1>3, <1>5, <1>6, <1>8 DEF FwInv

LEMMA FwReturnStep ==
    ASSUME Fw!TrainingFwAssumption, FwInv, Fw!Return
    PROVE  FwInv'
<1>1. /\ fwPc = "done" /\ fwPc' = "idle" /\ UNCHANGED <<fwInfo, fwStartLba, fwI, fwCluster, fwTable, fwLost>>
      /\ IF fwI >= fwStartLba + 1 THEN fwResult' = "pass" /\ fwMaxLba' = fwI - fwStartLba - 1
                               ELSE fwResult' = "fail" /\ fwMaxLba' = 0
  BY DEF Fw!Return, Fw!LastOfTable
<1>2. fwI \in Nat /\ fwStartLba \in Nat /\ fwLost \in Nat /\ MaxFwLen \in Nat \ {0} /\ Fw!FwSectors \in Nat
  BY FwFacts DEF FwInv, FwTyped
<1>3. FwInfoTyped'
  BY <1>1 DEF FwInv, FwInfoTyped
<1>4. FwTyped'
  <2>1. fwMaxLba' \in Nat
    <3>1. fwI >= fwStartLba + 1 => fwI - fwStartLba - 1 \in Nat
      BY <1>2
    <3> QED BY <1>1, <3>1
  <2>2. fwResult' \in {"pass", "fail"}
    BY <1>1
  <2> QED BY <1>1, <2>1, <2>2 DEF FwInv, FwTyped
<1>5. FwWalkInv' /\ FwNextStepInv' /\ FwDoneInv' /\ FwTableInv'
  BY <1>1 DEF FwWalkInv, FwNextStepInv, FwDoneInv, FwTableInv
<1>6. Fw!FwSectors' = Fw!FwSectors /\ \A s : Fw!SectorOf(s)' = Fw!SectorOf(s)
  BY <1>1 DEF Fw!FwSectors, Fw!SectorOf
<1>7. ASSUME fwLost = 0
      PROVE  /\ fwResult' = "pass" =>
                 \A lba \in 0 .. MaxFwLen - 1 : fwStartLba + lba < Fw!FwSectors =>
                     fwTable[IF lba > fwMaxLba' THEN fwMaxLba' ELSE lba] = Fw!SectorOf(fwStartLba + lba)
             /\ fwResult' = "pass" /\ fwInfo.end = Fw!LastCluster => fwStartLba + fwMaxLba' < Fw!FwSectors
             /\ fwResult' = "fail" => fwStartLba >= Fw!FwSectors
  <2>1. /\ fwI = fwStartLba + MaxFwLen \/ fwI >= Fw!FwSectors
        /\ fwInfo.end = Fw!LastCluster => fwI <= Fw!FwSectors
    BY <1>1, <1>7 DEF FwInv, FwDoneInv, Fw!FirstBehind
  <2>2. ASSUME fwResult' = "pass" PROVE fwMaxLba' = fwI - fwStartLba - 1 /\ fwI >= fwStartLba + 1
    BY <1>1, <2>2
  <2>3. ASSUME fwResult' = "fail" PROVE ~(fwI >= fwStartLba + 1)
    BY <1>1, <2>3
  <2>4. ASSUME fwResult' = "pass", NEW lba \in 0 .. MaxFwLen - 1, fwStartLba + lba < Fw!FwSectors
        PROVE  fwTable[IF lba > fwMaxLba' THEN fwMaxLba' ELSE lba] = Fw!SectorOf(fwStartLba + lba)
    <3> DEFINE m == fwI - fwStartLba - 1
    <3>1. fwMaxLba' = m /\ lba \in Nat /\ lba < MaxFwLen
      BY <1>2, <2>2, <2>4
    <3>2. fwStartLba + lba < fwI
      BY <1>2, <2>1, <2>4, <3>1
    <3>3. ~(lba > m)
      BY <1>2, <3>1, <3>2
    <3> HIDE DEF m
    <3>4. fwTable[lba] = Fw!SectorOf(fwStartLba + lba)
      BY <1>1, <1>7, <2>4, <3>2 DEF FwInv, FwTableInv
    <3> QED BY <3>1, <3>3, <3>4
  <2>5. fwResult' = "pass" /\ fwInfo.end = Fw!LastCluster => fwStartLba + fwMaxLba' < Fw!FwSectors
    <3>1. fwStartLba + (fwI - fwStartLba - 1) = fwI - 1
      BY <1>2
    <3> QED BY <1>2, <2>1, <2>2, <3>1
  <2>6. fwResult' = "fail" => fwStartLba >= Fw!FwSectors
    BY <1>2, <2>1, <2>3
  <2> QED BY <2>4, <2>5, <2>6
<1>8. Fw!TableRight'
  BY <1>1, <1>6, <1>7 DEF Fw!TableRight, Fw!Lba2sec
<1> QED BY <1>3, <1>4, <1>5, <1>8 DEF FwInv

LEMMA FwNextInv ==
    ASSUME Fw!TrainingFwAssumption, FwInv, [Fw!Next]_(Fw!vars)
    PROVE  FwInv'
<1>1. CASE UNCHANGED Fw!vars
  <2>1. UNCHANGED <<fwInfo, fwPc, fwResult, fwStartLba, fwI, fwCluster, fwTable, fwMaxLba, fwTables, fwLost>>
    BY <1>1 DEF Fw!vars
  <2>2. FwInfoTyped' /\ FwTyped'
    BY <2>1 DEF FwInv, FwInfoTyped, FwTyped
  <2>3. FwWalkInv' /\ FwNextStepInv' /\ FwDoneInv' /\ FwTableInv' /\ Fw!TableRight'
    BY <2>1 DEF FwInv, FwWalkInv, FwNextStepInv, FwDoneInv, FwTableInv, Fw!TableRight, FwAt,
       Fw!FirstBehind, Fw!FwSectors, Fw!SectorOf, Fw!Lba2sec
  <2> QED BY <2>2, <2>3 DEF FwInv
<1> QED BY <1>1, FwAskStep, FwWalkStep, FwNextClusterStep, FwReturnStep DEF Fw!Next, Fw!Driver

-----------------------------------------------------------------------------
(* MonShell                                                                 *)
(* The digits that are counted come after zeros, which are not.             *)
MonZeros == Len(monLine) - monCount
MonBefore(k) == IF k = 1 THEN 0 ELSE monLine[k - 1]
MonPower(k) == HexBase ^ k

MonFaithful ==
    /\ monLine \in Seq(Nat) /\ monCount \in 0 .. MaxDigits /\ monCount <= Len(monLine)
    /\ monResult = Mon!Typed
    /\ \A k \in 1 .. Len(monLine) : \E d \in 0 .. Mon!Base - 1 : monLine[k] = MonBefore(k) * Mon!Base + d
    /\ \A k \in 1 .. Len(monLine) : monLine[k] < MonPower(IF k <= MonZeros THEN 0 ELSE k - MonZeros)

MonExcused == monUnder \/ monNoise

MonWordInv ==
    /\ monPc = "word" => monCommand \in DOMAIN Mon!Words /\ monN \in 1 .. Len(Mon!Words[monCommand])
    /\ monPc = "word" /\ ~MonExcused => monSame /\ MonFaithful

MonInv == MonWordInv /\ Mon!StoresAsTyped

-----------------------------------------------------------------------------
LEMMA MonPowers ==
    ASSUME Mon!MonShellAssumption
    PROVE  /\ MonPower(0) = 1
           /\ \A k \in 0 .. MaxDigits : MonPower(k) \in Nat /\ MonPower(k) <= Mon!Width
           /\ \A k \in 0 .. MaxDigits - 1 : MonPower(k + 1) = HexBase * MonPower(k)
  BY DEF Mon!MonShellAssumption, Mon!PowersOfBase, MonPower, Mon!Width

LEMMA MonWordBase ==
    ASSUME Mon!MonShellAssumption, monCommand \in DOMAIN Mon!Words, monN \in 1 .. Len(Mon!Words[monCommand])
    PROVE  Mon!Base \in Nat /\ 2 <= Mon!Base /\ Mon!Base <= HexBase
<1>1. HexBase \in Nat /\ 2 < HexBase /\ DecBase \in Nat /\ 2 <= DecBase /\ DecBase < HexBase
  BY DEF Mon!MonShellAssumption
<1>2. Mon!Base \in {HexBase, DecBase}
  BY DEF Mon!Base, Mon!Words
<1> QED BY <1>1, <1>2

LEMMA MonShortWords ==
    ASSUME NEW c \in DOMAIN Mon!Words
    PROVE  Len(Mon!Words[c]) \in Nat \ {0}
  BY DEF Mon!Words

LEMMA MonEmptyIsFaithful ==
    ASSUME Mon!MonShellAssumption, Mon!BeginWord
    PROVE  MonFaithful'
<1>1. monLine' = <<>> /\ monCount' = 0 /\ monResult' = 0
  BY DEF Mon!BeginWord
<1>2. MaxDigits \in Nat
  BY DEF Mon!MonShellAssumption
<1>3. Len(<<>>) = 0 /\ <<>> \in Seq(Nat)
  OBVIOUS
<1> QED BY <1>1, <1>2, <1>3 DEF MonFaithful, Mon!Typed

(* A digit more keeps a number below the next power.                        *)
LEMMA MonDigitBelow ==
    ASSUME NEW v \in Nat, NEW p \in Nat, v < p, NEW b \in Nat, NEW h \in Nat, b <= h, NEW d \in 0 .. b - 1
    PROVE  v * b + d \in Nat /\ v * b + d < h * p
<1>1. v * b \in Nat /\ p * b \in Nat /\ p * h \in Nat /\ h * p = p * h
  OBVIOUS
<1>2. \E x \in Nat : p = v + 1 + x
  <2>1. p - (v + 1) \in Nat /\ p = v + 1 + (p - (v + 1))
    OBVIOUS
  <2> QED BY <2>1
<1>3. PICK x \in Nat : p = v + 1 + x
  BY <1>2
<1>4. p * b = v * b + b + x * b /\ x * b \in Nat
  BY <1>3
<1>5. \E y \in Nat : h = b + y
  <2>1. h - b \in Nat /\ h = b + (h - b)
    OBVIOUS
  <2> QED BY <2>1
<1>6. PICK y \in Nat : h = b + y
  BY <1>5
<1>7. p * h = p * b + p * y /\ p * y \in Nat
  BY <1>6
<1> DEFINE vb == v * b  pb == p * b  ph == p * h  xb == x * b  py == p * y
<1>8. vb \in Nat /\ pb = vb + b + xb /\ xb \in Nat /\ ph = pb + py /\ py \in Nat /\ h * p = ph
  BY <1>1, <1>4, <1>7
<1> HIDE DEF vb, pb, ph, xb, py
<1>9. vb + d \in Nat /\ vb + d < ph
  BY <1>8
<1> QED BY <1>8, <1>9 DEF vb

LEMMA MonDigitOff ==
    ASSUME NEW v \in Nat, NEW b \in Nat, 0 < b, NEW d \in 0 .. b - 1
    PROVE  (v * b + d) \div b = v
  OBVIOUS

LEMMA MonFaithfulNumber ==
    ASSUME MonFaithful
    PROVE  /\ Mon!Typed \in Nat /\ Len(monLine) \in Nat /\ MonZeros \in 0 .. Len(monLine)
           /\ monLine # <<>> => Mon!Typed = monLine[Len(monLine)]
           /\ monLine = <<>> <=> Len(monLine) = 0
  BY DEF MonFaithful, Mon!Typed, MonZeros, Mon!Last

(* The number on the line is below the power of the digits counted.         *)
LEMMA MonTypedBelow ==
    ASSUME Mon!MonShellAssumption, MonFaithful
    PROVE  Mon!Typed < MonPower(monCount)
<1>1. /\ Mon!Typed \in Nat /\ Len(monLine) \in Nat /\ MonZeros \in 0 .. Len(monLine)
      /\ monLine # <<>> => Mon!Typed = monLine[Len(monLine)]
      /\ monLine = <<>> <=> Len(monLine) = 0
  BY MonFaithfulNumber
<1>2. monCount \in 0 .. MaxDigits /\ MaxDigits \in Nat
  BY DEF MonFaithful, Mon!MonShellAssumption
<1>3. CASE monLine = <<>>
  <2>1. monCount = 0 /\ Mon!Typed = 0
    BY <1>1, <1>2, <1>3 DEF MonFaithful, Mon!Typed
  <2> QED BY <2>1, MonPowers
<1>4. CASE monLine # <<>>
  <2>1. monLine[Len(monLine)] < MonPower(IF Len(monLine) <= MonZeros THEN 0 ELSE Len(monLine) - MonZeros)
    BY <1>1, <1>4 DEF MonFaithful
  <2>2. (IF Len(monLine) <= MonZeros THEN 0 ELSE Len(monLine) - MonZeros) = monCount
    BY <1>1, <1>2 DEF MonZeros
  <2> QED BY <1>1, <1>4, <2>1, <2>2
<1> QED BY <1>3, <1>4

LEMMA MonLineGrows ==
    ASSUME MonFaithful, NEW x \in Nat, NEW m \in Nat, m = Len(monLine)
    PROVE  /\ Append(monLine, x) \in Seq(Nat) /\ Len(Append(monLine, x)) = m + 1
           /\ Append(monLine, x) # <<>> /\ Append(monLine, x)[m + 1] = x
           /\ \A k \in 1 .. m : Append(monLine, x)[k] = monLine[k]
  BY DEF MonFaithful

LEMMA MonLineShrinks ==
    ASSUME MonFaithful, NEW m \in Nat, m = Len(monLine), m # 0
    PROVE  /\ Mon!Front(monLine) \in Seq(Nat) /\ Len(Mon!Front(monLine)) = m - 1
           /\ m - 1 \in Nat /\ (m = 1 => Mon!Front(monLine) = <<>>) /\ (m # 1 => Mon!Front(monLine) # <<>>)
           /\ \A k \in 1 .. m - 1 : Mon!Front(monLine)[k] = monLine[k]
<1>1. monLine \in Seq(Nat)
  BY DEF MonFaithful
<1>2. Mon!Front(monLine) = SubSeq(monLine, 1, m - 1)
  BY DEF Mon!Front
<1> DEFINE f == SubSeq(monLine, 1, m - 1)
<1>3. f \in Seq(Nat) /\ Len(f) = m - 1
  BY <1>1
<1>4. \A k \in 1 .. m - 1 : f[k] = monLine[k]
  BY <1>1
<1>5. f = <<>> <=> Len(f) = 0
  <2>1. \A t \in Seq(Nat) : t = <<>> <=> Len(t) = 0
    OBVIOUS
  <2> HIDE DEF f
  <2> QED BY <1>3, <2>1
<1> HIDE DEF f
<1>6. m - 1 \in Nat /\ (m = 1 <=> m - 1 = 0)
  OBVIOUS
<1> QED BY <1>2, <1>3, <1>4, <1>5, <1>6 DEF f

(* get_word_ex takes a digit.                                               *)
LEMMA MonDigitKeeps ==
    ASSUME Mon!MonShellAssumption, MonFaithful, Mon!Base' = Mon!Base, Mon!Base \in Nat, 2 <= Mon!Base, Mon!Base <= HexBase,
           NEW b \in 0 .. Mon!Base - 1, monLine' = Mon!LineWith(b),
           \/ monCount = 0 /\ b = 0 /\ monCount' = monCount /\ monResult' = monResult
           \/ /\ ~(monCount = 0 /\ b = 0) /\ ~Mon!TooMany
              /\ monCount' = (monCount + 1) % CountMod /\ monResult' = (monResult * Mon!Base + b) % Mon!Width
    PROVE  MonFaithful'
<1> DEFINE L == Len(monLine)
<1>1. /\ Mon!Typed \in Nat /\ L \in Nat /\ MonZeros \in 0 .. L
      /\ monLine # <<>> => Mon!Typed = monLine[L]
      /\ monLine = <<>> <=> L = 0
  BY MonFaithfulNumber
<1>0. L = Len(monLine)
  OBVIOUS
<1> HIDE DEF L
<1>2. /\ monCount \in 0 .. MaxDigits /\ monCount <= L /\ monResult = Mon!Typed /\ MaxDigits \in Nat
      /\ CountMod \in Nat /\ CountMod > MaxDigits + 1 /\ HexBase \in Nat /\ MonZeros = L - monCount
  BY <1>0 DEF MonFaithful, Mon!MonShellAssumption, MonZeros
<1>3. Mon!Typed < MonPower(monCount) /\ MonPower(monCount) \in Nat
  BY <1>2, MonTypedBelow, MonPowers
<1> DEFINE x == Mon!Typed * Mon!Base + b
<1>4. x \in Nat /\ x < HexBase * MonPower(monCount)
  BY <1>1, <1>2, <1>3, MonDigitBelow
<1>5. monLine' = Append(monLine, x)
  BY DEF Mon!LineWith
<1>6. x = Mon!Typed * Mon!Base + b
  OBVIOUS
<1> HIDE DEF x
<1>7. /\ monLine' \in Seq(Nat) /\ Len(monLine') = L + 1 /\ monLine' # <<>> /\ monLine'[L + 1] = x
      /\ \A k \in 1 .. L : monLine'[k] = monLine[k]
  BY <1>0, <1>1, <1>4, <1>5, MonLineGrows
<1>8. Mon!Typed' = x
  <2>1. Mon!Typed' = monLine'[Len(monLine')]
    BY <1>7 DEF Mon!Typed, Mon!Last
  <2> QED BY <1>7, <2>1
<1>9. (IF L + 1 = 1 THEN 0 ELSE monLine'[(L + 1) - 1]) = Mon!Typed
  <2>1. CASE L = 0
    BY <1>1, <2>1 DEF Mon!Typed
  <2>2. CASE L # 0
    <3>1. L \in 1 .. L /\ L + 1 # 1 /\ (L + 1) - 1 = L
      BY <1>1, <2>2
    <3> QED BY <1>1, <1>7, <2>2, <3>1
  <2> QED BY <2>1, <2>2
<1>10. \A k \in 1 .. L : (IF k = 1 THEN 0 ELSE monLine'[k - 1]) = MonBefore(k)
  <2>1. ASSUME NEW k \in 1 .. L PROVE (IF k = 1 THEN 0 ELSE monLine'[k - 1]) = MonBefore(k)
    <3>1. CASE k = 1
      BY <3>1 DEF MonBefore
    <3>2. CASE k # 1
      <4>1. k - 1 \in 1 .. L
        BY <1>1, <3>2
      <4> QED BY <1>7, <3>2, <4>1 DEF MonBefore
    <3> QED BY <3>1, <3>2
  <2> QED BY <2>1
<1> DEFINE D(k) == \E d \in 0 .. Mon!Base - 1 : monLine'[k] = (IF k = 1 THEN 0 ELSE monLine'[k - 1]) * Mon!Base + d
<1>11. \A k \in 1 .. L + 1 : D(k)
  <2>1. ASSUME NEW k \in 1 .. L PROVE D(k)
    <3>1. PICK d \in 0 .. Mon!Base - 1 : monLine[k] = MonBefore(k) * Mon!Base + d
      BY <1>0 DEF MonFaithful
    <3>2. monLine'[k] = (IF k = 1 THEN 0 ELSE monLine'[k - 1]) * Mon!Base + d
      BY <1>7, <1>10, <3>1
    <3> QED BY <3>2
  <2>2. D(L + 1)
    <3>1. monLine'[L + 1] = (IF L + 1 = 1 THEN 0 ELSE monLine'[(L + 1) - 1]) * Mon!Base + b
      BY <1>6, <1>7, <1>9
    <3> QED BY <3>1, Zenon
  <2> HIDE DEF D
  <2> QED BY <1>1, <2>1, <2>2
<1>12. CASE monCount = 0 /\ b = 0 /\ monCount' = monCount /\ monResult' = monResult
  <2>1. Mon!Typed = 0
    <3>1. MonPower(0) = 1
      BY MonPowers
    <3> QED BY <1>1, <1>3, <1>12, <3>1
  <2>2. x = 0
    <3>1. x = Mon!Typed * Mon!Base + 0
      BY <1>6, <1>12
    <3>2. \A y \in Nat : 0 * y + 0 = 0
      OBVIOUS
    <3> QED BY <2>1, <3>1, <3>2
  <2>3. MonZeros' = L + 1 /\ MonZeros = L
    BY <1>1, <1>2, <1>7, <1>12 DEF MonZeros
  <2>4. \A k \in 1 .. L + 1 : monLine'[k] < MonPower(IF k <= MonZeros' THEN 0 ELSE k - MonZeros')
    <3>1. MonPower(0) = 1
      BY MonPowers
    <3>2. \A k \in 1 .. L : monLine[k] < MonPower(0)
      <4>1. ASSUME NEW k \in 1 .. L PROVE monLine[k] < MonPower(0)
        <5>1. monLine[k] < MonPower(IF k <= MonZeros THEN 0 ELSE k - MonZeros)
          BY <1>0 DEF MonFaithful
        <5>2. k <= MonZeros
          BY <1>1, <2>3
        <5> QED BY <5>1, <5>2
      <4> QED BY <4>1
    <3>3. ASSUME NEW k \in 1 .. L + 1 PROVE monLine'[k] < MonPower(IF k <= MonZeros' THEN 0 ELSE k - MonZeros')
      <4>1. (IF k <= MonZeros' THEN 0 ELSE k - MonZeros') = 0
        BY <1>1, <2>3
      <4>2. CASE k \in 1 .. L
        BY <1>7, <3>2, <4>1, <4>2
      <4>3. CASE k = L + 1
        BY <1>7, <2>2, <3>1, <4>1, <4>3
      <4> QED BY <1>1, <4>2, <4>3
    <3> QED BY <3>3
  <2> QED BY <1>1, <1>2, <1>7, <1>8, <1>11, <1>12, <2>1, <2>2, <2>4 DEF MonFaithful, MonBefore
<1>13. CASE /\ ~(monCount = 0 /\ b = 0) /\ ~Mon!TooMany
            /\ monCount' = (monCount + 1) % CountMod /\ monResult' = (monResult * Mon!Base + b) % Mon!Width
  <2>1. (monCount + 1) % CountMod = monCount + 1
    <3>1. \A m \in Nat : \A a \in 0 .. m - 1 : a % m = a
      OBVIOUS
    <3>2. monCount + 1 \in 0 .. CountMod - 1
      BY <1>2
    <3> QED BY <1>2, <3>1, <3>2
  <2>2. monCount' = monCount + 1 /\ monCount + 1 <= MaxDigits
    BY <1>2, <1>13, <2>1 DEF Mon!TooMany
  <2>3. x < MonPower(monCount + 1) /\ MonPower(monCount + 1) <= Mon!Width /\ MonPower(monCount + 1) \in Nat
    BY <1>2, <1>4, <2>2, MonPowers
  <2>4. monResult' = x
    <3>1. \A m \in Nat : \A a \in 0 .. m - 1 : a % m = a
      OBVIOUS
    <3>2. Mon!Width \in Nat
      BY <1>2, MonPowers DEF Mon!Width, MonPower
    <3>3. x \in 0 .. Mon!Width - 1
      BY <1>4, <2>3, <3>2
    <3>4. monResult' = x % Mon!Width
      BY <1>2, <1>6, <1>13
    <3>5. x % Mon!Width = x
      BY <3>1, <3>2, <3>3
    <3> QED BY <3>4, <3>5
  <2>5. MonZeros' = MonZeros
    BY <1>1, <1>2, <1>7, <2>2 DEF MonZeros
  <2>6. ASSUME NEW k \in 1 .. L + 1 PROVE monLine'[k] < MonPower(IF k <= MonZeros' THEN 0 ELSE k - MonZeros')
    <3>1. CASE k \in 1 .. L
      BY <1>0, <1>7, <2>5, <3>1 DEF MonFaithful
    <3>2. CASE k = L + 1
      <4>1. (IF k <= MonZeros' THEN 0 ELSE k - MonZeros') = monCount + 1
        BY <1>1, <1>2, <2>5, <3>2
      <4> QED BY <1>7, <2>3, <3>2, <4>1
    <3> QED BY <1>1, <3>1, <3>2
  <2> QED BY <1>1, <1>2, <1>7, <1>8, <1>11, <2>2, <2>4, <2>6 DEF MonFaithful, MonBefore
<1> QED BY <1>12, <1>13

(* It takes one back.                                                       *)
LEMMA MonBackspaceKeeps ==
    ASSUME Mon!MonShellAssumption, MonFaithful, Mon!Base' = Mon!Base, Mon!Base \in Nat, 2 <= Mon!Base,
           monCount # 0, monCount' = (monCount - 1) % CountMod, monResult' = monResult \div Mon!Base,
           monLine' = IF monLine = <<>> THEN monLine ELSE Mon!Front(monLine)
    PROVE  MonFaithful'
<1> DEFINE L == Len(monLine)
<1>1. /\ Mon!Typed \in Nat /\ L \in Nat /\ MonZeros \in 0 .. L
      /\ monLine # <<>> => Mon!Typed = monLine[L]
      /\ monLine = <<>> <=> L = 0
  BY MonFaithfulNumber
<1>0. L = Len(monLine)
  OBVIOUS
<1> HIDE DEF L
<1>2. /\ monCount \in 1 .. MaxDigits /\ monCount <= L /\ monResult = Mon!Typed /\ MaxDigits \in Nat
      /\ CountMod \in Nat /\ CountMod > MaxDigits + 1 /\ MonZeros = L - monCount
  BY <1>0 DEF MonFaithful, Mon!MonShellAssumption, MonZeros
<1>3. L # 0 /\ monLine # <<>>
  BY <1>1, <1>2
<1>4. /\ monLine' \in Seq(Nat) /\ Len(monLine') = L - 1 /\ L - 1 \in Nat
      /\ (L = 1 => monLine' = <<>>) /\ (L # 1 => monLine' # <<>>)
      /\ \A k \in 1 .. L - 1 : monLine'[k] = monLine[k]
  BY <1>0, <1>1, <1>3, MonLineShrinks
<1>5. Mon!Typed' = MonBefore(L)
  <2>1. CASE L = 1
    BY <1>4, <2>1 DEF Mon!Typed, MonBefore
  <2>2. CASE L # 1
    <3>1. Mon!Typed' = monLine'[L - 1] /\ L - 1 \in 1 .. L - 1
      <4>1. L - 1 \in 1 .. L - 1
        BY <1>1, <1>3, <2>2
      <4>2. monLine' # <<>> /\ Len(monLine') = L - 1
        BY <1>4, <2>2
      <4>3. Mon!Typed' = monLine'[Len(monLine')]
        BY <4>2 DEF Mon!Typed, Mon!Last
      <4> QED BY <4>1, <4>2, <4>3
    <3> QED BY <1>4, <2>2, <3>1 DEF MonBefore
  <2> QED BY <2>1, <2>2
<1>6. MonBefore(L) \in Nat
  <2>1. CASE L = 1
    BY <2>1 DEF MonBefore
  <2>2. CASE L # 1
    <3>1. L - 1 \in 1 .. Len(monLine) /\ monLine \in Seq(Nat)
      <4>1. L \in Nat /\ L # 0 /\ L # 1
        BY <1>1, <1>3, <2>2
      <4>2. L - 1 \in 1 .. L
        BY <4>1
      <4>3. monLine \in Seq(Nat)
        BY DEF MonFaithful
      <4> QED BY <1>0, <4>2, <4>3
    <3>2. monLine[L - 1] \in Nat
      BY <3>1
    <3> QED BY <2>2, <3>2 DEF MonBefore
  <2> QED BY <2>1, <2>2
<1>7. monResult' = MonBefore(L)
  <2>1. PICK d \in 0 .. Mon!Base - 1 : monLine[L] = MonBefore(L) * Mon!Base + d
    <3>1. L \in 1 .. Len(monLine)
      BY <1>0, <1>1, <1>3
    <3> QED BY <3>1 DEF MonFaithful
  <2> DEFINE v == MonBefore(L)
  <2>2. v \in Nat /\ monResult' = (v * Mon!Base + d) \div Mon!Base
    BY <1>1, <1>2, <1>3, <1>6, <2>1
  <2> HIDE DEF v
  <2>3. (v * Mon!Base + d) \div Mon!Base = v
    BY <2>2, MonDigitOff
  <2> QED BY <2>2, <2>3 DEF v
<1>8. monCount' = monCount - 1
  <2>1. \A m \in Nat : \A a \in 0 .. m - 1 : a % m = a
    OBVIOUS
  <2>2. monCount - 1 \in 0 .. CountMod - 1
    BY <1>2
  <2>3. (monCount - 1) % CountMod = monCount - 1
    BY <1>2, <2>1, <2>2
  <2> QED BY <2>3
<1>9. MonZeros' = MonZeros
  BY <1>1, <1>2, <1>4, <1>8 DEF MonZeros
<1>10. ASSUME NEW k \in 1 .. L - 1
       PROVE  \E d \in 0 .. Mon!Base' - 1 : monLine'[k] = (IF k = 1 THEN 0 ELSE monLine'[k - 1]) * Mon!Base' + d
  <2>1. k \in 1 .. Len(monLine)
    BY <1>0, <1>1
  <2>2. PICK d \in 0 .. Mon!Base - 1 : monLine[k] = MonBefore(k) * Mon!Base + d
    BY <2>1 DEF MonFaithful
  <2>3. (IF k = 1 THEN 0 ELSE monLine'[k - 1]) = MonBefore(k)
    <3>1. CASE k = 1
      BY <3>1 DEF MonBefore
    <3>2. CASE k # 1
      <4>1. k - 1 \in 1 .. L - 1
        BY <1>1, <3>2
      <4> QED BY <1>4, <3>2, <4>1 DEF MonBefore
    <3> QED BY <3>1, <3>2
  <2> QED BY <1>4, <2>2, <2>3
<1>11. ASSUME NEW k \in 1 .. L - 1 PROVE monLine'[k] < MonPower(IF k <= MonZeros' THEN 0 ELSE k - MonZeros')
  <2>1. k \in 1 .. Len(monLine)
    BY <1>0, <1>1
  <2> QED BY <1>4, <1>9, <2>1 DEF MonFaithful
<1>12. monCount' \in 0 .. MaxDigits /\ monCount' <= Len(monLine')
  BY <1>1, <1>2, <1>4, <1>8
<1>13. /\ \A k \in 1 .. Len(monLine') : \E d \in 0 .. Mon!Base' - 1 :
              monLine'[k] = (IF k = 1 THEN 0 ELSE monLine'[k - 1]) * Mon!Base' + d
       /\ \A k \in 1 .. Len(monLine') : monLine'[k] < MonPower(IF k <= MonZeros' THEN 0 ELSE k - MonZeros')
  <2>1. 1 .. Len(monLine') = 1 .. L - 1
    BY <1>4
  <2> QED BY <1>10, <1>11, <2>1, Zenon
<1> QED BY <1>4, <1>5, <1>7, <1>12, <1>13 DEF MonFaithful, MonBefore

-----------------------------------------------------------------------------
(* Steps                                                                    *)

LEMMA MonGivenUp ==
    ASSUME Mon!GiveUp
    PROVE  MonInv'
  BY DEF Mon!GiveUp, MonInv, MonWordInv, Mon!StoresAsTyped

LEMMA MonDigitStep ==
    ASSUME Mon!MonShellAssumption, MonInv, monPc = "word",
           NEW b \in 0 .. HexBase - 1, NEW typed \in Nat, Mon!Digit(b, typed),
           (typed = b /\ monNoise' = monNoise) \/ monNoise' = TRUE
    PROVE  MonInv'
<1>1. CASE Mon!GiveUp
  BY <1>1, MonGivenUp
<1>2. CASE ~Mon!GiveUp
  <2>1. /\ monLine' = Mon!LineWith(typed) /\ UNCHANGED <<monPc, monCommand, monN, monSame, monUnder>>
        /\ \/ monCount = 0 /\ b = 0 /\ monCount' = monCount /\ monResult' = monResult
           \/ /\ ~(monCount = 0 /\ b = 0) /\ ~Mon!TooMany /\ b < Mon!Base
              /\ monCount' = (monCount + 1) % CountMod /\ monResult' = (monResult * Mon!Base + b) % Mon!Width
    <3>1. CASE monCount = 0 /\ b = 0
      BY <3>1 DEF Mon!Digit
    <3>2. CASE ~(monCount = 0 /\ b = 0)
      <4>1. ~(b >= Mon!Base \/ Mon!TooMany)
        BY <1>2, <3>2 DEF Mon!Digit
      <4>2. Mon!Base \in Nat
        BY MonWordBase DEF MonInv, MonWordInv
      <4> QED BY <3>2, <4>1, <4>2 DEF Mon!Digit
    <3> QED BY <3>1, <3>2
  <2>2. monCommand \in DOMAIN Mon!Words /\ monN \in 1 .. Len(Mon!Words[monCommand])
    BY DEF MonInv, MonWordInv
  <2>3. Mon!Base \in Nat /\ 2 <= Mon!Base /\ Mon!Base <= HexBase /\ Mon!Base' = Mon!Base
    BY <2>1, <2>2, MonWordBase DEF Mon!Base
  <2>4. ASSUME ~MonExcused' PROVE monSame' /\ MonFaithful'
    <3>1. typed = b /\ ~MonExcused
      BY <2>1, <2>4 DEF MonExcused
    <3>2. monSame /\ MonFaithful
      BY <3>1 DEF MonInv, MonWordInv
    <3>3. b \in 0 .. Mon!Base - 1
      BY <2>1, <2>3
    <3>4. monLine' = Mon!LineWith(b)
      BY <2>1, <3>1
    <3>5. MonFaithful'
      BY <2>1, <2>3, <3>2, <3>3, <3>4, MonDigitKeeps
    <3> QED BY <2>1, <3>2, <3>5
  <2> QED BY <2>1, <2>2, <2>4 DEF MonInv, MonWordInv, Mon!StoresAsTyped
<1> QED BY <1>1, <1>2

LEMMA MonCommandStep ==
    ASSUME Mon!MonShellAssumption, NEW c \in Mon!Letters, Mon!Command(c)
    PROVE  MonInv'
<1>1. MonFaithful' /\ monSame'
  BY MonEmptyIsFaithful DEF Mon!Command
<1>2. CASE c \in DOMAIN Mon!Words
  <2>1. monPc' = "word" /\ monN' = 1 /\ monCommand' = c
    <3>1. (CASE c \in DOMAIN Mon!Words -> monPc' = "word" /\ monN' = 1
             [] c \in {"q", "K"} -> monPc' = "quit" /\ monN' = 0
             [] OTHER -> UNCHANGED monPc /\ monN' = 0)
      BY DEF Mon!Command
    <3>2. ~(c \in {"q", "K"})
      BY <1>2 DEF Mon!Words
    <3> QED BY <1>2, <3>1, <3>2 DEF Mon!Command
  <2>2. 1 \in 1 .. Len(Mon!Words[c])
    BY <1>2, MonShortWords
  <2> QED BY <1>1, <1>2, <2>1, <2>2 DEF MonInv, MonWordInv, Mon!StoresAsTyped
<1>3. CASE c \notin DOMAIN Mon!Words
  <2>1. monPc' \in {"quit", "command"}
    BY <1>3 DEF Mon!Command
  <2> QED BY <2>1 DEF MonInv, MonWordInv, Mon!StoresAsTyped
<1> QED BY <1>2, <1>3

LEMMA MonBackspaceStep ==
    ASSUME Mon!MonShellAssumption, MonInv, Mon!Backspace
    PROVE  MonInv'
<1>1. /\ monPc = "word" /\ UNCHANGED <<monPc, monCommand, monN, monSame, monNoise>>
      /\ monCommand \in DOMAIN Mon!Words /\ monN \in 1 .. Len(Mon!Words[monCommand])
  BY DEF Mon!Backspace, MonInv, MonWordInv
<1>2. Mon!Base \in Nat /\ 2 <= Mon!Base /\ Mon!Base' = Mon!Base
  BY <1>1, MonWordBase DEF Mon!Base
<1>3. ASSUME ~MonExcused' PROVE monSame' /\ MonFaithful'
  <2>1. monCount # 0 /\ ~MonExcused
    <3>1. monUnder' = (monUnder \/ monCount = 0)
      BY DEF Mon!Backspace
    <3> QED BY <1>1, <1>3, <3>1, Zenon DEF MonExcused
  <2>2. monSame /\ MonFaithful
    BY <1>1, <2>1 DEF MonInv, MonWordInv
  <2>3. /\ monCount' = (monCount - 1) % CountMod /\ monResult' = monResult \div Mon!Base
        /\ monLine' = IF monLine = <<>> THEN monLine ELSE Mon!Front(monLine)
    BY DEF Mon!Backspace
  <2>4. MonFaithful'
    BY <1>2, <2>1, <2>2, <2>3, MonBackspaceKeeps
  <2> QED BY <1>1, <2>2, <2>4
<1> QED BY <1>1, <1>3 DEF MonInv, MonWordInv, Mon!StoresAsTyped

LEMMA MonEndWordStep ==
    ASSUME Mon!MonShellAssumption, MonInv, Mon!EndWord
    PROVE  MonInv'
<1>1. /\ monPc = "word" /\ UNCHANGED <<monCommand, monUnder, monNoise>> /\ monSame' = (monSame /\ monResult = Mon!Typed)
      /\ monCommand \in DOMAIN Mon!Words /\ monN \in 1 .. Len(Mon!Words[monCommand])
  BY DEF Mon!EndWord, MonInv, MonWordInv
<1>2. ~MonExcused' => monSame'
  BY <1>1 DEF MonExcused, MonInv, MonWordInv, MonFaithful
<1>3. CASE monN < Len(Mon!Words[monCommand])
  <2>1. monN' = monN + 1 /\ Mon!BeginWord /\ monPc' = monPc
    BY <1>3 DEF Mon!EndWord
  <2>2. Len(Mon!Words[monCommand]) \in Nat
    BY <1>1, MonShortWords
  <2>3. monN' \in 1 .. Len(Mon!Words[monCommand'])
    BY <1>1, <1>3, <2>1, <2>2
  <2> QED BY <1>1, <1>2, <2>1, <2>3, MonEmptyIsFaithful DEF MonInv, MonWordInv,
     Mon!StoresAsTyped
<1>4. CASE ~(monN < Len(Mon!Words[monCommand]))
  <2>1. monPc' \in {"store", "command"}
    BY <1>4 DEF Mon!EndWord
  <2> QED BY <1>2, <2>1 DEF MonInv, MonWordInv, Mon!StoresAsTyped, MonExcused
<1> QED BY <1>3, <1>4

LEMMA MonInitInv ==
    ASSUME Mon!MonShellAssumption, Mon!Init
    PROVE  MonInv
  BY DEF Mon!Init, MonInv, MonWordInv, Mon!StoresAsTyped

LEMMA MonNextInv ==
    ASSUME Mon!MonShellAssumption, MonInv, [Mon!Next]_(Mon!vars)
    PROVE  MonInv'
<1>1. ASSUME UNCHANGED Mon!vars PROVE MonInv'
  <2>1. UNCHANGED <<monPc, monCommand, monN, monCount, monResult, monLine, monSame, monUnder, monNoise>>
    BY <1>1 DEF Mon!vars
  <2>2. MonFaithful' = MonFaithful
    BY <2>1 DEF MonFaithful, MonZeros, MonBefore, Mon!Base, Mon!Typed
  <2> QED BY <2>1, <2>2 DEF MonInv, MonWordInv, Mon!StoresAsTyped, MonExcused
<1>2. ASSUME NEW c \in Mon!Letters, Mon!Command(c) PROVE MonInv'
  BY <1>2, MonCommandStep
<1>3. ASSUME NEW b \in 0 .. HexBase - 1, Mon!TypeDigit(b) PROVE MonInv'
  <2>1. b \in Nat /\ HexBase \in Nat
    BY DEF Mon!MonShellAssumption
  <2> QED BY <1>3, <2>1, MonDigitStep DEF Mon!TypeDigit
<1>4. ASSUME NEW b \in 0 .. HexBase - 1, Mon!ReceiveError(b) PROVE MonInv'
  <2>1. b \in Nat /\ Mon!LetterE \in 0 .. HexBase - 1
    BY DEF Mon!MonShellAssumption, Mon!LetterE
  <2>2. CASE Mon!GiveUp
    BY <2>2, MonGivenUp
  <2>3. CASE Mon!Digit(Mon!LetterE, b)
    BY <1>4, <2>1, <2>3, MonDigitStep DEF Mon!ReceiveError
  <2> QED BY <1>4, <2>2, <2>3 DEF Mon!ReceiveError
<1>5. ASSUME Mon!Backspace PROVE MonInv'
  BY <1>5, MonBackspaceStep
<1>6. ASSUME Mon!EndWord PROVE MonInv'
  BY <1>6, MonEndWordStep
<1>7. ASSUME Mon!BadCharacter PROVE MonInv'
  BY <1>7, MonGivenUp DEF Mon!BadCharacter
<1>8. ASSUME Mon!Store PROVE MonInv'
  BY <1>8 DEF Mon!Store, MonInv, MonWordInv, Mon!StoresAsTyped
<1> QED BY <1>1, <1>2, <1>3, <1>4, <1>5, <1>6, <1>7, <1>8 DEF Mon!Next

-----------------------------------------------------------------------------
(* The parts in Bringup.                                                     *)

LEMMA CpuSteps ==
    ASSUME [Next]_vars
    PROVE  [Cpu!Next]_(Cpu!vars)
<1>1. Cpu!Next \/ UNCHANGED cpuVars
  BY DEF Next, vars, start, usb, CpuStep, OtpStep, PmicStep, VerStep, FwStep, ConfStep,
     RootStep, TdStep, DramStep, MonStep
<1>2. UNCHANGED cpuVars => UNCHANGED Cpu!vars
  BY DEF cpuVars, Cpu!vars, Cpu!fixed, Cpu!a64
<1> QED BY <1>1, <1>2

(* Whatever the order in which the cores go, none of them runs at an        *)
(* address nobody has put there for it, in code that is not in memory yet,  *)
(* or, on SP7350 and after sleep, in BL31 with OP-TEE's memory open         *)
(* (boot_next_in_A, boot_other_hart, wake_cpuN): for any number of harts.   *)
THEOREM CoresAreTold == Spec => []StartsWhereTold
<1>1. Cpu!CpuWakeAssumption
  BY BringupAssumption DEF BringupAssumption
<1>2. Init => CpuInv
  BY <1>1, CpuInitInv DEF Init
<1>3. CpuInv /\ [Next]_vars => CpuInv'
  BY <1>1, CpuNextInv, CpuSteps
<1>4. CpuInv => StartsWhereTold
  BY <1>1, CpuInvSuffices DEF StartsWhereTold
<1> QED BY <1>2, <1>3, <1>4, PTL DEF Spec

LEMMA VerSteps ==
    ASSUME [Next]_vars
    PROVE  [Ver!Next]_(Ver!vars)
<1>1. Ver!Next \/ UNCHANGED verVars
  BY DEF Next, vars, start, usb, CpuStep, OtpStep, PmicStep, VerStep, FwStep, ConfStep,
     RootStep, TdStep, DramStep, MonStep
<1>2. UNCHANGED verVars => UNCHANGED Ver!vars
  BY DEF verVars, Ver!vars, Ver!fixed, Ver!memory, Ver!engine
<1> QED BY <1>1, <1>2

(* Each verdict is the one about the image as it was sent, an image that is *)
(* accepted is in clear, and boot_uboot goes on without caches and with no  *)
(* engine at work: for any number of pieces an image is taken in, on each   *)
(* of the three chips (xboot_verify_next_image).                            *)
THEOREM VerdictsAreRight == Spec => []VerdictRight
<1>1. Ver!ImageVerifyAssumption
  BY BringupAssumption DEF BringupAssumption
<1>2. Init => VerInv
  BY <1>1, VerInitInv DEF Init
<1>3. VerInv /\ [Next]_vars => VerInv'
  BY <1>1, VerNextInv, VerSteps
<1>4. VerInv => VerdictRight
  BY <1>1, VerVerdicts DEF VerdictRight
<1> QED BY <1>2, <1>3, <1>4, PTL DEF Spec

LEMMA PmicSteps ==
    ASSUME [Next]_vars
    PROVE  [Pmic!Next]_(Pmic!vars)
<1>1. Pmic!Next \/ UNCHANGED pmicVars
  BY DEF Next, vars, start, usb, CpuStep, OtpStep, PmicStep, VerStep, FwStep, ConfStep,
     RootStep, TdStep, DramStep, MonStep
<1>2. UNCHANGED pmicVars => UNCHANGED Pmic!vars
  BY DEF pmicVars, Pmic!vars, Pmic!driver, Pmic!controller, Pmic!device
<1> QED BY <1>1, <1>2

(* The core voltage is set unless a byte was refused or a wait given up, no *)
(* chip but an RT5759 is written, and it in no register but the voltage's:  *)
(* for any number of refusals (init_hw, sp_i2c_write, sp_i2c_read).         *)
THEOREM VoltageIsSet == Spec => []VoltageSet
<1>1. Pmic!PmicI2cAssumption
  BY BringupAssumption DEF BringupAssumption
<1>2. Init => PmicInv
  BY <1>1, PmicInitInv DEF Init
<1>3. PmicInv /\ [Next]_vars => PmicInv'
  BY <1>1, PmicNextInv, PmicSteps
<1>4. PmicInv => VoltageSet
  BY <1>1, PmicVoltage DEF VoltageSet
<1> QED BY <1>2, <1>3, <1>4, PTL DEF Spec

LEMMA FwSteps ==
    ASSUME [Next]_vars
    PROVE  [Fw!Next]_(Fw!vars)
<1>1. Fw!Next \/ UNCHANGED fwVars
  BY DEF Next, vars, start, usb, CpuStep, OtpStep, PmicStep, VerStep, FwStep, ConfStep,
     RootStep, TdStep, DramStep, MonStep
<1>2. UNCHANGED fwVars => UNCHANGED Fw!vars
  BY DEF fwVars, Fw!vars
<1> QED BY <1>1, <1>2

(* A table made without an error has each sector of the firmware it covers, *)
(* and no other when the chain ends with 0FFFFFFF, for any chain, any size  *)
(* of clusters and any number of tables (fat_read_fat_for_training_fw,      *)
(* lba2sec_for_training_fw).                                                *)
THEOREM TableIsRight == Spec => []TableRight
<1>1. Fw!TrainingFwAssumption
  BY BringupAssumption DEF BringupAssumption
<1>2. Init => FwInv
  BY <1>1, FwInitInv DEF Init
<1>3. FwInv /\ [Next]_vars => FwInv'
  BY <1>1, FwNextInv, FwSteps
<1>4. FwInv => TableRight
  BY <1>1 DEF FwInv, TableRight
<1> QED BY <1>2, <1>3, <1>4, PTL DEF Spec

LEMMA MonSteps ==
    ASSUME [Next]_vars
    PROVE  [Mon!Next]_(Mon!vars)
<1>1. Mon!Next \/ UNCHANGED monVars
  BY DEF Next, vars, start, usb, CpuStep, OtpStep, PmicStep, VerStep, FwStep, ConfStep,
     RootStep, TdStep, DramStep, MonStep
<1>2. UNCHANGED monVars => UNCHANGED Mon!vars
  BY DEF monVars, Mon!vars
<1> QED BY <1>1, <1>2

(* What "w" and "W" of the monitor shell store, and where, is what was      *)
(* typed: neither the eight-bit count of the digits of get_word_ex nor the  *)
(* width of a word loses one, whatever is typed and taken back.             *)
THEOREM TypedIsStored == Spec => []StoresAsTyped
<1>1. Mon!MonShellAssumption
  BY BringupAssumption DEF BringupAssumption
<1>2. Init => MonInv
  BY <1>1, MonInitInv DEF Init
<1>3. MonInv /\ [Next]_vars => MonInv'
  BY <1>1, MonNextInv, MonSteps
<1>4. MonInv => StoresAsTyped
  BY <1>1 DEF MonInv, StoresAsTyped
<1> QED BY <1>2, <1>3, <1>4, PTL DEF Spec
=============================================================================
