-------------------- MODULE BringupDataProofs --------------------
(***************************************************************************)
(* Proofs about the parts of Bringup that move data and fill the USB tables,*)
(* for every value of their constants.                                      *)
(* Each part has its invariant, and its steps are those of Bringup or leave *)
(* its variables alone.                                                     *)
(***************************************************************************)
EXTENDS Bringup, Sequences, FiniteSetTheorems, WellFoundedInduction, TLAPS

-----------------------------------------------------------------------------
(* DramTest                                                                 *)
DramTyped ==
    /\ dramFault \in Dram!StuckBits \cup Dram!StuckLines \cup {Dram!Faultless}
    /\ dramPc \in {"write", "verify", "out"} /\ dramFlip \in {1, 2, 3} /\ dramAddr \in Dram!Addresses
DramMemoryTyped == dramMemory \in [Dram!Addresses -> Dram!Words]

(* What a tested word is to be in a round; the words a pass is done with.   *)
DramWanted(a, round) == IF round % 2 = 1 THEN Dram!Complement(Dram!BitsOf(a)) ELSE Dram!BitsOf(a)
DramDone == IF Dram!InRange THEN {a \in Dram!Tested : a > dramAddr} ELSE Dram!Tested

(* The last word written to a cell is in it, but for a bit that is stuck.   *)
DramLastIn(a, among) == \A c \in among : c < a => Dram!Cell(c) # Dram!Cell(a)
DramHasLast(among) == \A a \in among : DramLastIn(a, among) => dramMemory[Dram!Cell(a)] = Dram!Kept(Dram!Cell(a), DramWanted(a, dramFlip))

DramStuckInv == dramFault.kind = "bit" => dramMemory[dramFault.cell][dramFault.bit] = dramFault.is
DramWriteInv == dramPc = "write" => dramFlip \in {1, 2} /\ DramHasLast(DramDone)
DramVerifyInv ==
    dramPc = "verify" =>
        /\ dramFlip \in {1, 2} /\ DramHasLast(Dram!Tested)
        /\ \A a \in DramDone : dramMemory[Dram!Cell(a)] = DramWanted(a, dramFlip)

(* What a round that was passed has shown.                                  *)
DramShown(round) ==
    /\ \A a, c \in Dram!Tested : Dram!Cell(a) = Dram!Cell(c) => a = c
    /\ dramFault.kind = "bit" /\ dramFault.cell \in Dram!Tested => DramWanted(dramFault.cell, round)[dramFault.bit] = dramFault.is
DramPassedInv == dramFlip # 1 => DramShown(1)

DramOutInv ==
    /\ dramPc # "out" => dramBad = 0
    /\ dramPc = "out" => (dramBad = 1 <=> Dram!Faulty) /\ dramBad \in {0, 1}

DramInv == DramTyped /\ DramMemoryTyped /\ DramStuckInv /\ DramWriteInv /\ DramVerifyInv /\ DramPassedInv /\ DramOutInv

-----------------------------------------------------------------------------
LEMMA DramDramDivMod ==
    ASSUME NEW x \in Int, NEW b \in Nat \ {0}
    PROVE  x \div b \in Int /\ x % b \in 0 .. b - 1 /\ x = (x \div b) * b + (x % b)
OBVIOUS

LEMMA DramDramSmall ==
    ASSUME NEW b \in Nat \ {0}, NEW e \in Int, e * b < b, e * b > -b
    PROVE  e = 0
OBVIOUS

LEMMA DramDramUnique ==
    ASSUME NEW b \in Nat \ {0}, NEW q \in Int, NEW r \in 0 .. b - 1
    PROVE  (q * b + r) % b = r
<1> DEFINE x == q * b + r
           d == x \div b
           m == x % b
<1>1. x \in Int
  OBVIOUS
<1>2. d \in Int /\ m \in 0 .. b - 1 /\ x = d * b + m
  BY <1>1, DramDramDivMod
<1> HIDE DEF d, m
<1>3. (q - d) * b = m - r
  BY <1>2
<1>4. q - d = 0
  BY <1>2, <1>3, DramDramSmall
<1> QED BY <1>2, <1>4 DEF m

LEMMA DramEven ==
    ASSUME NEW a \in Int
    PROVE  /\ a % 2 \in {0, 1}
           /\ \A b \in Int : b % 2 = 0 => (a + b) % 2 = a % 2 /\ (a - b) % 2 = a % 2
           /\ (2 * a) % 2 = 0
OBVIOUS

LEMMA DramTop ==
    ASSUME Dram!DramTestAssumption
    PROVE  /\ 2 ^ AddrBits \in Nat \ {0, 1} /\ (2 ^ AddrBits) % 2 = 0 /\ 0 \in Dram!Bits
           /\ \A k \in Dram!Bits : 2 ^ k \in Nat \ {0} /\ (k # 0 => (2 ^ k) % 2 = 0)
<1> DEFINE n == 2 ^ AddrBits
           p == 2 ^ 0
           r == 2 ^ (AddrBits - 1 - 0)
<1>1. 0 \in Dram!Bits
  BY DEF Dram!DramTestAssumption, Dram!Bits
<1>2. n \in Nat /\ p \in Nat \ {0} /\ r \in Nat \ {0} /\ n = 2 * r * p
  BY <1>1 DEF Dram!DramTestAssumption, Dram!PowersOfTwo
<1>3. \A k \in Dram!Bits : 2 ^ k \in Nat \ {0} /\ (k # 0 => 2 ^ k = 2 * 2 ^ (k - 1) /\ 2 ^ (k - 1) \in Nat)
  <2> SUFFICES ASSUME NEW k \in Dram!Bits
               PROVE  2 ^ k \in Nat \ {0} /\ (k # 0 => 2 ^ k = 2 * 2 ^ (k - 1) /\ 2 ^ (k - 1) \in Nat)
    OBVIOUS
  <2>1. 2 ^ k \in Nat \ {0} /\ (k # 0 => 2 ^ k = 2 * 2 ^ (k - 1))
    BY DEF Dram!DramTestAssumption, Dram!PowersOfTwo
  <2>2. k # 0 => k - 1 \in Dram!Bits
    BY DEF Dram!DramTestAssumption, Dram!Bits
  <2>3. k # 0 => 2 ^ (k - 1) \in Nat
    BY <2>2 DEF Dram!DramTestAssumption, Dram!PowersOfTwo
  <2> QED BY <2>1, <2>3
<1> HIDE DEF n, p, r
<1>4. r * p \in Nat \ {0} /\ n = 2 * (r * p)
  BY <1>2
<1>5. n \in Nat \ {0, 1} /\ n % 2 = 0
  BY <1>4, DramEven
<1>6. \A k \in Dram!Bits : k # 0 => (2 ^ k) % 2 = 0
  BY <1>3, DramEven
<1> QED BY <1>1, <1>3, <1>5, <1>6 DEF n

LEMMA DramAddressFacts ==
    ASSUME Dram!DramTestAssumption
    PROVE  /\ \A a : a \in Dram!Addresses <=> a \in Nat /\ a < 2 ^ AddrBits /\ a % 2 = 0
           /\ \A a : a \in Dram!Tested <=> a \in Dram!Addresses /\ DramBegin <= a /\ a < DramEnd
           /\ DramBegin \in Dram!Addresses /\ DramEnd \in Dram!Addresses /\ Dram!Last \in Dram!Addresses /\ Dram!Last = DramEnd - 2
           /\ DramBegin <= Dram!Last
<1>1. 2 ^ AddrBits \in Nat \ {0, 1} /\ (2 ^ AddrBits) % 2 = 0
  BY DramTop
<1> DEFINE n == 2 ^ AddrBits
<1> HIDE DEF n
<1>2. \A a : a \in Dram!Addresses <=> a \in Nat /\ a < n /\ a % 2 = 0
  <2>1. n \in Nat /\ Dram!Addresses = {a \in 0 .. n - 1 : a % 2 = 0}
    BY <1>1 DEF n, Dram!Addresses, Dram!WordSize
  <2> QED BY <2>1
<1>3. DramBegin \in Dram!Addresses /\ DramEnd \in Dram!Addresses /\ DramBegin < DramEnd
  BY DEF Dram!DramTestAssumption
<1>4. DramBegin \in Nat /\ DramEnd \in Nat /\ DramBegin % 2 = 0 /\ DramEnd % 2 = 0 /\ DramEnd < n
  BY <1>2, <1>3
<1>5. DramBegin <= DramEnd - 2 /\ DramEnd - 2 \in Nat /\ (DramEnd - 2) % 2 = 0 /\ DramEnd - 2 < n
  <2>1. DramBegin < DramEnd /\ n \in Nat
    BY <1>1, <1>3 DEF n
  <2>2. DramBegin <= DramEnd - 2
    BY <1>4, <2>1
  <2>3. DramEnd - 2 \in Nat /\ DramEnd - 2 < n
    BY <1>4, <2>1, <2>2
  <2>4. (DramEnd - 2) % 2 = 0
    BY <1>4, DramEven
  <2> QED BY <2>2, <2>3, <2>4
<1>6. Dram!Last = DramEnd - 2 /\ Dram!Last \in Dram!Addresses
  BY <1>2, <1>5 DEF Dram!Last, Dram!WordSize
<1>7. \A a : a \in Dram!Tested <=> a \in Dram!Addresses /\ DramBegin <= a /\ a < DramEnd
  <2>1. \A a \in Dram!Addresses : a \in Nat
    BY <1>2
  <2> QED BY <1>4, <2>1 DEF Dram!Tested
<1> QED BY <1>2, <1>3, <1>5, <1>6, <1>7 DEF n

(* One word further down.                                                   *)
LEMMA DramDownFacts ==
    ASSUME Dram!DramTestAssumption, dramAddr \in Dram!Addresses
    PROVE  /\ Dram!Down \in Dram!Addresses
           /\ dramAddr >= 2 => Dram!Down = dramAddr - 2
           /\ dramAddr < 2 => dramAddr = 0 /\ Dram!Down = 2 ^ AddrBits - 2
<1> DEFINE n == 2 ^ AddrBits
<1>1. n \in Nat \ {0, 1} /\ n % 2 = 0
  BY DramTop
<1>2. /\ \A a : a \in Dram!Addresses <=> a \in Nat /\ a < n /\ a % 2 = 0
  BY DramAddressFacts
<1>3. Dram!Down = (dramAddr - 2) % n
  BY DEF Dram!Down, Dram!WordSize
<1> HIDE DEF n
<1>4. dramAddr \in Nat /\ dramAddr < n /\ dramAddr % 2 = 0
  BY <1>2
<1>5. CASE dramAddr >= 2
  <2>1. dramAddr - 2 \in 0 .. n - 1 /\ (dramAddr - 2) % 2 = 0
    BY <1>1, <1>4, <1>5
  <2>2. (0 * n + (dramAddr - 2)) % n = dramAddr - 2
    BY <1>1, <2>1, DramDramUnique
  <2>3. 0 * n + (dramAddr - 2) = dramAddr - 2
    BY <1>1, <1>4
  <2>4. Dram!Down = dramAddr - 2
    BY <1>3, <2>2, <2>3
  <2>5. dramAddr - 2 \in Nat /\ dramAddr - 2 < n
    BY <1>1, <1>4, <1>5
  <2> QED BY <1>2, <1>4, <1>5, <2>1, <2>4, <2>5
<1>6. CASE dramAddr < 2
  <2>1. dramAddr = 0 /\ n - 2 \in 0 .. n - 1 /\ (n - 2) % 2 = 0
    BY <1>1, <1>4, <1>6
  <2>2. (-1 * n + (n - 2)) % n = n - 2
    BY <1>1, <2>1, DramDramUnique
  <2>3. -1 * n + (n - 2) = dramAddr - 2
    BY <1>1, <1>4, <2>1
  <2>4. Dram!Down = n - 2
    BY <1>3, <2>2, <2>3
  <2> QED BY <1>1, <1>2, <1>4, <1>6, <2>1, <2>4 DEF n
<1> QED BY <1>4, <1>5, <1>6

(* A pass begins with nothing and each step adds the word it is at, which   *)
(* is below the others; one that has left the range is done with it.        *)
LEMMA DramDoneFacts ==
    ASSUME Dram!DramTestAssumption, dramAddr \in Dram!Addresses
    PROVE  /\ DramDone \subseteq Dram!Tested
           /\ ~Dram!InRange => DramDone = Dram!Tested
           /\ Dram!InRange => /\ dramAddr \in Dram!Tested /\ dramAddr \notin DramDone
                              /\ \A a \in DramDone : a > dramAddr
                              /\ dramAddr' = Dram!Down => DramDone' = DramDone \cup {dramAddr}
           /\ dramAddr' = Dram!Last => DramDone' = {}
<1>1. \A a : a \in Dram!Addresses <=> a \in Nat /\ a < 2 ^ AddrBits /\ a % 2 = 0
  BY DramAddressFacts
<1>2. \A a : a \in Dram!Tested <=> a \in Dram!Addresses /\ DramBegin <= a /\ a < DramEnd
  BY DramAddressFacts
<1>3. DramBegin \in Dram!Addresses /\ DramEnd \in Dram!Addresses /\ Dram!Last \in Dram!Addresses /\ Dram!Last = DramEnd - 2 /\ DramBegin <= Dram!Last
  BY DramAddressFacts
<1>4. Dram!Down \in Dram!Addresses /\ (dramAddr >= 2 => Dram!Down = dramAddr - 2) /\ (dramAddr < 2 => dramAddr = 0 /\ Dram!Down = 2 ^ AddrBits - 2)
  BY DramDownFacts
<1>5. 2 ^ AddrBits \in Nat \ {0, 1} /\ (2 ^ AddrBits) % 2 = 0
  BY DramTop
<1> DEFINE n == 2 ^ AddrBits
<1> HIDE DEF n
<1>6. \A a \in Dram!Addresses : a \in Nat /\ a % 2 = 0 /\ a < n
  BY <1>1 DEF n
<1>7. ASSUME Dram!InRange, dramAddr' = Dram!Down PROVE DramDone' = DramDone \cup {dramAddr}
  <2>1. DramBegin <= dramAddr /\ dramAddr < DramEnd
    BY <1>7 DEF Dram!InRange
  <2>2. dramAddr \in Dram!Tested
    BY <1>2, <2>1
  <2>3. CASE dramAddr > DramBegin
    <3>1. dramAddr >= 2 /\ dramAddr' = dramAddr - 2 /\ dramAddr - 2 >= DramBegin
      BY <1>3, <1>4, <1>6, <1>7, <2>3
    <3>2. Dram!InRange'
      BY <1>3, <1>6, <2>1, <3>1 DEF Dram!InRange
    <3>3. \A a \in Dram!Tested : a > dramAddr - 2 <=> a > dramAddr \/ a = dramAddr
      <4> SUFFICES ASSUME NEW a \in Dram!Tested PROVE a > dramAddr - 2 <=> a > dramAddr \/ a = dramAddr
        OBVIOUS
      <4>1. a \in Nat /\ a % 2 = 0 /\ dramAddr \in Nat /\ dramAddr % 2 = 0
        BY <1>2, <1>6
      <4> QED BY <4>1
    <3> QED BY <1>7, <2>2, <3>1, <3>2, <3>3 DEF DramDone
  <2>4. CASE dramAddr = DramBegin
    <3>1. ~Dram!InRange'
      <4>1. CASE dramAddr >= 2
        <5>1. dramAddr' = dramAddr - 2
          BY <1>4, <1>7, <4>1
        <5> QED BY <1>3, <1>6, <2>4, <5>1 DEF Dram!InRange
      <4>2. CASE dramAddr < 2
        <5>1. dramAddr' = n - 2 /\ n \in Nat /\ n % 2 = 0
          BY <1>4, <1>5, <1>7, <4>2 DEF n
        <5>2. DramEnd < n /\ DramEnd % 2 = 0 /\ DramEnd \in Nat
          BY <1>3, <1>6
        <5>3. n - 2 >= DramEnd
          BY <5>1, <5>2
        <5> QED BY <5>1, <5>2, <5>3 DEF Dram!InRange
      <4> QED BY <1>6, <4>1, <4>2
    <3>2. \A a \in Dram!Tested : a > dramAddr \/ a = dramAddr
      <4> SUFFICES ASSUME NEW a \in Dram!Tested PROVE a > dramAddr \/ a = dramAddr
        OBVIOUS
      <4>1. a \in Nat /\ dramAddr \in Nat /\ dramAddr <= a
        BY <1>2, <1>6, <2>4
      <4> QED BY <4>1
    <3> QED BY <1>7, <2>2, <3>1, <3>2 DEF DramDone
  <2> QED BY <1>3, <1>6, <2>1, <2>3, <2>4
<1>8. ASSUME dramAddr' = Dram!Last PROVE DramDone' = {}
  <2>1. Dram!InRange'
    BY <1>3, <1>6, <1>8 DEF Dram!InRange
  <2>2. \A a \in Dram!Tested : ~(a > Dram!Last)
    <3> SUFFICES ASSUME NEW a \in Dram!Tested PROVE ~(a > Dram!Last)
      OBVIOUS
    <3>1. a \in Nat /\ a % 2 = 0 /\ a < DramEnd /\ DramEnd \in Nat /\ DramEnd % 2 = 0
      BY <1>2, <1>3, <1>6
    <3> QED BY <1>3, <3>1
  <2> QED BY <1>8, <2>1, <2>2 DEF DramDone
<1>9. Dram!InRange => dramAddr \in Dram!Tested /\ dramAddr \notin DramDone /\ \A a \in DramDone : a > dramAddr
  BY <1>2, <1>6 DEF Dram!InRange, DramDone
<1> QED BY <1>7, <1>8, <1>9 DEF DramDone

LEMMA DramFaultFacts ==
    ASSUME dramFault \in Dram!StuckBits \cup Dram!StuckLines \cup {Dram!Faultless}
    PROVE  /\ dramFault.kind \in {"bit", "line", "none"}
           /\ dramFault.kind = "bit" => dramFault.cell \in Dram!Addresses /\ dramFault.bit \in Dram!Bits /\ dramFault.is \in BOOLEAN
           /\ dramFault.kind = "line" => dramFault.bit \in Dram!Bits \ {0} /\ dramFault.is \in BOOLEAN
BY DEF Dram!StuckBits, Dram!StuckLines, Dram!Faultless

(* The cell of an address is there, and two addresses that share one differ *)
(* in the bit of the line that is stuck.                                    *)
LEMMA DramCellFacts ==
    ASSUME Dram!DramTestAssumption, dramFault \in Dram!StuckBits \cup Dram!StuckLines \cup {Dram!Faultless}
    PROVE  /\ \A a \in Dram!Addresses : Dram!Cell(a) \in Dram!Addresses
           /\ dramFault.kind # "line" => \A a : Dram!Cell(a) = a
           /\ \A a, c \in Dram!Addresses : a # c /\ Dram!Cell(a) = Dram!Cell(c) =>
                  \E k \in Dram!Bits : Dram!BitsOf(a)[k] # Dram!BitsOf(c)[k]
<1>1. CASE dramFault.kind # "line"
  BY <1>1 DEF Dram!Cell
<1>2. CASE dramFault.kind = "line"
  <2> DEFINE b == dramFault.bit
             up == 2 ^ b
             n == 2 ^ AddrBits
             high == 2 ^ (AddrBits - 1 - b)
  <2>1. b \in Dram!Bits /\ b # 0 /\ dramFault.is \in BOOLEAN
    BY <1>2, DramFaultFacts
  <2>2. up \in Nat \ {0} /\ up % 2 = 0 /\ high \in Nat \ {0} /\ n = 2 * high * up /\ n \in Nat \ {0}
    BY <2>1, DramTop DEF Dram!DramTestAssumption, Dram!PowersOfTwo
  <2>3. \A a : a \in Dram!Addresses <=> a \in Nat /\ a < n /\ a % 2 = 0
    BY DramAddressFacts
  <2>4. \A a : Dram!BitsOf(a)[b] = ((a \div up) % 2 = 1)
    BY <2>1 DEF Dram!BitsOf
  <2>5. \A a : Dram!Cell(a) = CASE dramFault.is /\ ~Dram!BitsOf(a)[b] -> a + up
                           [] ~dramFault.is /\ Dram!BitsOf(a)[b] -> a - up
                           [] OTHER -> a
    BY <1>2 DEF Dram!Cell
  <2> HIDE DEF b, up, n, high
  <2>6. ASSUME NEW a \in Dram!Addresses PROVE Dram!Cell(a) \in Dram!Addresses
    <3>1. a \in Nat /\ a < n /\ a % 2 = 0
      BY <2>3
    <3> DEFINE q == a \div up
               r == a % up
    <3>2. q \in Int /\ r \in 0 .. up - 1 /\ a = q * up + r
      BY <2>2, <3>1, DramDramDivMod
    <3>3. Dram!BitsOf(a)[b] = (q % 2 = 1)
      BY <2>4
    <3> HIDE DEF q, r
    <3>4. ASSUME q % 2 # 1 PROVE a + up \in Dram!Addresses
      <4>1. (q + 1) * up <= n
        <5>1. q < 2 * high
          <6>1. q * up < (2 * high) * up
            BY <2>2, <3>1, <3>2
          <6> QED BY <2>2, <3>2, <6>1
        <5>2. q + 1 <= 2 * high
          BY <2>2, <3>2, <5>1
        <5>3. (q + 1) * up <= (2 * high) * up
          BY <2>2, <3>2, <5>2
        <5> QED BY <2>2, <5>3
      <4>2. (q + 2) * up <= n
        <5>1. q < 2 * high
          <6>1. q * up < (2 * high) * up
            BY <2>2, <3>1, <3>2
          <6> QED BY <2>2, <3>2, <6>1
        <5>2. q + 2 <= 2 * high
          BY <2>2, <3>2, <3>4, <5>1
        <5>3. (q + 2) * up <= (2 * high) * up
          BY <2>2, <3>2, <5>2
        <5> QED BY <2>2, <5>3
      <4>3. (q + 2) * up = q * up + 2 * up
        BY <2>2, <3>2
      <4>4. q * up \in Int
        BY <2>2, <3>2
      <4>5. a + up < n
        BY <2>2, <3>1, <3>2, <4>2, <4>3, <4>4
      <4>6. (a + up) % 2 = 0
        BY <2>2, <3>1, DramEven
      <4> QED BY <2>2, <2>3, <3>1, <4>5, <4>6
    <3>5. ASSUME q % 2 = 1 PROVE a - up \in Dram!Addresses
      <4>1. q >= 1
        <5>1. q * up > (-1) * up
          BY <2>2, <3>1, <3>2
        <5>2. q > -1
          BY <2>2, <3>2, <5>1
        <5> QED BY <3>2, <3>5, <5>2
      <4>2. q * up >= up
        BY <2>2, <3>2, <4>1
      <4>3. a - up \in Nat
        BY <2>2, <3>1, <3>2, <4>2
      <4>4. (a - up) % 2 = 0
        BY <2>2, <3>1, DramEven
      <4> QED BY <2>2, <2>3, <3>1, <4>3, <4>4
    <3> QED BY <2>1, <2>5, <3>3, <3>4, <3>5
  <2>7. ASSUME NEW a \in Dram!Addresses, NEW c \in Dram!Addresses, a # c, Dram!Cell(a) = Dram!Cell(c)
        PROVE  Dram!BitsOf(a)[b] # Dram!BitsOf(c)[b]
    <3>1. a \in Nat /\ c \in Nat
      BY <2>3
    <3> SUFFICES ASSUME Dram!BitsOf(a)[b] = Dram!BitsOf(c)[b] PROVE FALSE
      OBVIOUS
    <3>2. \/ Dram!Cell(a) = a + up /\ Dram!Cell(c) = c + up
          \/ Dram!Cell(a) = a - up /\ Dram!Cell(c) = c - up
          \/ Dram!Cell(a) = a /\ Dram!Cell(c) = c
      BY <2>1, <2>5
    <3> QED BY <2>2, <2>7, <3>1, <3>2
  <2> QED BY <1>2, <2>1, <2>6, <2>7
<1> QED BY <1>1, <1>2

LEMMA DramWordFacts ==
    ASSUME Dram!DramTestAssumption, dramFault \in Dram!StuckBits \cup Dram!StuckLines \cup {Dram!Faultless}
    PROVE  /\ \A a : Dram!BitsOf(a) \in Dram!Words
           /\ \A a, round : DramWanted(a, round) \in Dram!Words
           /\ \A c, w : w \in Dram!Words => Dram!Kept(c, w) \in Dram!Words
           /\ \A c, w : w \in Dram!Words /\ dramFault.kind = "bit" /\ dramFault.cell = c => Dram!Kept(c, w)[dramFault.bit] = dramFault.is
<1>1. \A a : Dram!BitsOf(a) \in Dram!Words
  BY DEF Dram!BitsOf, Dram!Words
<1>2. \A w \in Dram!Words : Dram!Complement(w) \in Dram!Words
  BY DEF Dram!Complement, Dram!Words
<1>3. \A a, round : DramWanted(a, round) \in Dram!Words
  BY <1>1, <1>2 DEF DramWanted
<1>4. \A c, w : w \in Dram!Words => Dram!Kept(c, w) \in Dram!Words
  <2> SUFFICES ASSUME NEW c, NEW w \in Dram!Words PROVE Dram!Kept(c, w) \in Dram!Words
    OBVIOUS
  <2>1. dramFault.kind = "bit" => dramFault.bit \in Dram!Bits /\ dramFault.is \in BOOLEAN
    BY DramFaultFacts
  <2> QED BY <2>1 DEF Dram!Kept, Dram!Words
<1>5. \A c, w : w \in Dram!Words /\ dramFault.kind = "bit" /\ dramFault.cell = c => Dram!Kept(c, w)[dramFault.bit] = dramFault.is
  <2> SUFFICES ASSUME NEW c, NEW w \in Dram!Words, dramFault.kind = "bit", dramFault.cell = c
               PROVE  Dram!Kept(c, w)[dramFault.bit] = dramFault.is
    OBVIOUS
  <2>1. dramFault.bit \in Dram!Bits
    BY DramFaultFacts
  <2> QED BY <2>1 DEF Dram!Kept, Dram!Words
<1> QED BY <1>1, <1>3, <1>4, <1>5

(* What is wanted in the two rounds differs in every bit, and in one round  *)
(* for two addresses of one cell.                                           *)
LEMMA DramWantedFacts ==
    ASSUME Dram!DramTestAssumption, dramFault \in Dram!StuckBits \cup Dram!StuckLines \cup {Dram!Faultless}
    PROVE  /\ \A a : \A k \in Dram!Bits : DramWanted(a, 1)[k] # DramWanted(a, 2)[k]
           /\ \A a, c \in Dram!Addresses : \A round : Dram!Cell(a) = Dram!Cell(c) /\ DramWanted(a, round) = DramWanted(c, round) => a = c
<1>1. \A a : DramWanted(a, 1) = Dram!Complement(Dram!BitsOf(a)) /\ DramWanted(a, 2) = Dram!BitsOf(a)
  BY DEF DramWanted
<1>2. \A a : \A k \in Dram!Bits : DramWanted(a, 1)[k] # DramWanted(a, 2)[k]
  <2> SUFFICES ASSUME NEW a, NEW k \in Dram!Bits PROVE DramWanted(a, 1)[k] # DramWanted(a, 2)[k]
    OBVIOUS
  <2>1. Dram!Complement(Dram!BitsOf(a))[k] = ~Dram!BitsOf(a)[k] /\ Dram!BitsOf(a)[k] \in BOOLEAN
    BY DEF Dram!Complement, Dram!BitsOf
  <2> QED BY <1>1, <2>1
<1>3. ASSUME NEW a \in Dram!Addresses, NEW c \in Dram!Addresses, NEW round,
             Dram!Cell(a) = Dram!Cell(c), DramWanted(a, round) = DramWanted(c, round)
      PROVE  a = c
  <2> SUFFICES ASSUME a # c PROVE FALSE
    OBVIOUS
  <2>1. PICK k \in Dram!Bits : Dram!BitsOf(a)[k] # Dram!BitsOf(c)[k]
    BY <1>3, DramCellFacts
  <2>2. /\ Dram!Complement(Dram!BitsOf(a))[k] = ~Dram!BitsOf(a)[k] /\ Dram!BitsOf(a)[k] \in BOOLEAN
        /\ Dram!Complement(Dram!BitsOf(c))[k] = ~Dram!BitsOf(c)[k] /\ Dram!BitsOf(c)[k] \in BOOLEAN
    BY DEF Dram!Complement, Dram!BitsOf
  <2> QED BY <1>3, <2>1, <2>2 DEF DramWanted
<1> QED BY <1>2, <1>3

-----------------------------------------------------------------------------
LEMMA DramInitInv ==
    ASSUME Dram!DramTestAssumption, Dram!Init
    PROVE  DramInv
<1>1. DramTyped
  BY DramAddressFacts DEF Dram!Init, DramTyped
<1>2. PICK b \in BOOLEAN : dramMemory = [c \in Dram!Addresses |-> Dram!Kept(c, [k \in Dram!Bits |-> b])]
  BY DEF Dram!Init
<1>3. [k \in Dram!Bits |-> b] \in Dram!Words
  BY DEF Dram!Words
<1>4. DramMemoryTyped
  BY <1>1, <1>2, <1>3, DramWordFacts DEF DramMemoryTyped, DramTyped
<1>5. DramStuckInv
  BY <1>1, <1>2, <1>3, DramWordFacts, DramFaultFacts DEF DramStuckInv, DramTyped
<1>6. DramWriteInv
  <2>1. dramAddr = Dram!Last /\ Dram!Last \in Dram!Addresses /\ DramBegin <= Dram!Last /\ Dram!Last = DramEnd - 2 /\ DramEnd \in Dram!Addresses
        /\ DramBegin \in Dram!Addresses
    BY DramAddressFacts DEF Dram!Init
  <2>2. \A a \in Dram!Addresses : a \in Nat /\ a % 2 = 0
    BY DramAddressFacts
  <2>3. Dram!InRange
    BY <2>1, <2>2 DEF Dram!InRange
  <2>4. DramDone = {}
    <3> SUFFICES ASSUME NEW a \in Dram!Tested PROVE ~(a > dramAddr)
      BY <2>3 DEF DramDone
    <3>1. a \in Nat /\ a % 2 = 0 /\ a < DramEnd /\ DramEnd \in Nat /\ DramEnd % 2 = 0
      BY <2>1, <2>2, DramAddressFacts
    <3> QED BY <2>1, <3>1
  <2> QED BY <2>4 DEF Dram!Init, DramWriteInv, DramHasLast
<1>7. DramVerifyInv /\ DramPassedInv /\ DramOutInv
  BY DEF Dram!Init, DramVerifyInv, DramPassedInv, DramOutInv
<1> QED BY <1>1, <1>4, <1>5, <1>6, <1>7 DEF DramInv

LEMMA DramWriteStep ==
    ASSUME Dram!DramTestAssumption, DramInv, Dram!Write
    PROVE  DramInv'
<1> DEFINE w == Dram!Kept(Dram!Cell(dramAddr), DramWanted(dramAddr, dramFlip))
<1>1. /\ dramPc = "write" /\ Dram!InRange /\ UNCHANGED <<dramFault, dramPc, dramFlip, dramBad>> /\ dramAddr' = Dram!Down
      /\ dramMemory' = [dramMemory EXCEPT ![Dram!Cell(dramAddr)] = w]
  BY DEF Dram!Write, Dram!Expect, DramWanted
<1>2. dramFault \in Dram!StuckBits \cup Dram!StuckLines \cup {Dram!Faultless} /\ dramAddr \in Dram!Addresses /\ dramMemory \in [Dram!Addresses -> Dram!Words]
  BY DEF DramInv, DramTyped, DramMemoryTyped
<1>3. Dram!Cell(dramAddr) \in Dram!Addresses /\ w \in Dram!Words
  BY <1>2, DramCellFacts, DramWordFacts
<1>4. (dramFault.kind = "bit" /\ dramFault.cell = Dram!Cell(dramAddr)) => w[dramFault.bit] = dramFault.is
  BY <1>2, DramWordFacts
<1>5. \A c : dramMemory'[Dram!Cell(c)] = IF Dram!Cell(c) = Dram!Cell(dramAddr) THEN w ELSE dramMemory[Dram!Cell(c)]
  BY <1>1, <1>2, <1>3
<1>6. DramDone \subseteq Dram!Tested /\ dramAddr \in Dram!Tested /\ dramAddr \notin DramDone /\ (\A a \in DramDone : a > dramAddr)
      /\ DramDone' = DramDone \cup {dramAddr}
  BY <1>1, <1>2, DramDoneFacts
<1>7. DramTyped'
  BY <1>1, <1>2, DramDownFacts DEF DramInv, DramTyped
<1>8. DramMemoryTyped'
  BY <1>1, <1>2, <1>3 DEF DramMemoryTyped
<1> HIDE DEF w
<1>9. DramStuckInv'
  <2> SUFFICES ASSUME dramFault.kind = "bit" PROVE dramMemory'[dramFault.cell][dramFault.bit] = dramFault.is
    BY <1>1 DEF DramStuckInv
  <2>1. dramMemory[dramFault.cell][dramFault.bit] = dramFault.is /\ dramFault.cell \in Dram!Addresses
    BY <1>2, DramFaultFacts DEF DramInv, DramStuckInv
  <2> QED BY <1>1, <1>2, <1>3, <1>4, <2>1
<1>10. \A a, round : Dram!Kept(a, DramWanted(a, round))' = Dram!Kept(a, DramWanted(a, round)) /\ Dram!Cell(a)' = Dram!Cell(a)
  BY <1>1 DEF Dram!Kept, Dram!Cell
<1>11. DramWriteInv'
  <2>1. dramFlip' \in {1, 2}
    BY <1>1 DEF DramInv, DramWriteInv
  <2>2. ASSUME NEW a \in DramDone \cup {dramAddr}, \A c \in DramDone \cup {dramAddr} : c < a => Dram!Cell(c) # Dram!Cell(a)
        PROVE  dramMemory'[Dram!Cell(a)] = Dram!Kept(Dram!Cell(a), DramWanted(a, dramFlip))
    <3>1. CASE a = dramAddr
      BY <1>5, <3>1 DEF w
    <3>2. CASE a # dramAddr
      <4>1. a \in DramDone /\ Dram!Cell(a) # Dram!Cell(dramAddr)
        <5>1. a > dramAddr /\ a \in Nat /\ dramAddr \in Nat
          BY <1>2, <1>6, <2>2, <3>2, DramAddressFacts
        <5>2. dramAddr < a
          BY <5>1
        <5> QED BY <2>2, <3>2, <5>2
      <4>2. DramLastIn(a, DramDone)
        BY <2>2 DEF DramLastIn
      <4>3. dramMemory[Dram!Cell(a)] = Dram!Kept(Dram!Cell(a), DramWanted(a, dramFlip))
        BY <1>1, <4>1, <4>2 DEF DramInv, DramWriteInv, DramHasLast
      <4> QED BY <1>5, <4>1, <4>3
    <3> QED BY <3>1, <3>2
  <2>3. \A a : Dram!Cell(a)' = Dram!Cell(a)
    BY <1>1 DEF Dram!Cell
  <2>4. \A a : Dram!Kept(Dram!Cell(a), DramWanted(a, dramFlip))' = Dram!Kept(Dram!Cell(a), DramWanted(a, dramFlip))
    BY <1>1, <2>3 DEF Dram!Kept, DramWanted
  <2>5. DramHasLast(DramDone)'
    BY <1>6, <2>2, <2>3, <2>4 DEF DramHasLast, DramLastIn
  <2> QED BY <2>1, <2>5 DEF DramWriteInv
<1>12. DramVerifyInv' /\ DramOutInv'
  BY <1>1 DEF DramInv, DramVerifyInv, DramOutInv
<1>13. DramPassedInv'
  BY <1>1 DEF DramInv, DramPassedInv, DramShown, Dram!Cell
<1> QED BY <1>7, <1>8, <1>9, <1>11, <1>12, <1>13 DEF DramInv

LEMMA DramWrittenStep ==
    ASSUME Dram!DramTestAssumption, DramInv, Dram!Written
    PROVE  DramInv'
<1>1. /\ dramPc = "write" /\ ~Dram!InRange /\ dramPc' = "verify" /\ dramAddr' = Dram!Last /\ UNCHANGED <<dramFault, dramMemory, dramFlip, dramBad>>
  BY DEF Dram!Written
<1>2. dramFault \in Dram!StuckBits \cup Dram!StuckLines \cup {Dram!Faultless} /\ dramAddr \in Dram!Addresses
  BY DEF DramInv, DramTyped
<1>3. DramDone = Dram!Tested /\ DramDone' = {}
  BY <1>1, <1>2, DramDoneFacts
<1>4. DramTyped' /\ DramMemoryTyped'
  BY <1>1, DramAddressFacts DEF DramInv, DramTyped, DramMemoryTyped
<1>5. DramStuckInv' /\ DramWriteInv' /\ DramOutInv'
  BY <1>1 DEF DramInv, DramStuckInv, DramWriteInv, DramOutInv
<1>6. DramVerifyInv'
  <2>1. DramHasLast(Dram!Tested) /\ dramFlip \in {1, 2}
    BY <1>1, <1>3 DEF DramInv, DramWriteInv
  <2>2. DramHasLast(Dram!Tested)'
    <3>1. UNCHANGED <<dramFault, dramMemory, dramFlip>>
      BY <1>1
    <3>2. \A a : Dram!Cell(a)' = Dram!Cell(a) /\ DramWanted(a, dramFlip)' = DramWanted(a, dramFlip)
      BY <3>1 DEF Dram!Cell, DramWanted
    <3>3. \A a : Dram!Kept(Dram!Cell(a), DramWanted(a, dramFlip))' = Dram!Kept(Dram!Cell(a), DramWanted(a, dramFlip))
      BY <3>1, <3>2 DEF Dram!Kept
    <3>4. \A a : DramLastIn(a, Dram!Tested)' <=> DramLastIn(a, Dram!Tested)
      BY <3>2 DEF DramLastIn
    <3> QED BY <2>1, <3>1, <3>2, <3>3, <3>4 DEF DramHasLast
  <2> QED BY <1>1, <1>3, <2>1, <2>2 DEF DramVerifyInv
<1>7. DramPassedInv'
  BY <1>1 DEF DramInv, DramPassedInv, DramShown, Dram!Cell
<1> QED BY <1>4, <1>5, <1>6, <1>7 DEF DramInv

(* The first word that is not what it should be: another one of its cell    *)
(* came after it, or a bit is stuck.                                        *)
LEMMA DramMismatchStep ==
    ASSUME Dram!DramTestAssumption, DramInv, Dram!Verify, dramMemory[Dram!Cell(dramAddr)] # DramWanted(dramAddr, dramFlip)
    PROVE  DramInv'
<1>1. /\ dramPc = "verify" /\ Dram!InRange /\ dramBad' = 1 /\ dramPc' = "out" /\ UNCHANGED <<dramFault, dramMemory, dramFlip, dramAddr>>
  BY DEF Dram!Verify, Dram!Expect, DramWanted
<1>2. dramFault \in Dram!StuckBits \cup Dram!StuckLines \cup {Dram!Faultless} /\ dramAddr \in Dram!Addresses
  BY DEF DramInv, DramTyped
<1>3. dramAddr \in Dram!Tested
  BY <1>1, <1>2, DramDoneFacts
<1>4. Dram!Faulty
  <2>1. DramHasLast(Dram!Tested)
    BY <1>1 DEF DramInv, DramVerifyInv
  <2>2. CASE DramLastIn(dramAddr, Dram!Tested)
    <3>1. dramMemory[Dram!Cell(dramAddr)] = Dram!Kept(Dram!Cell(dramAddr), DramWanted(dramAddr, dramFlip))
      BY <1>3, <2>1, <2>2 DEF DramHasLast
    <3>2. dramFault.kind = "bit" /\ dramFault.cell = Dram!Cell(dramAddr)
      BY <3>1 DEF Dram!Kept
    <3>3. Dram!Cell(dramAddr) = dramAddr
      BY <3>2, <1>2, DramCellFacts
    <3> QED BY <1>3, <3>2, <3>3 DEF Dram!Faulty
  <2>3. CASE ~DramLastIn(dramAddr, Dram!Tested)
    <3>1. PICK c \in Dram!Tested : c < dramAddr /\ Dram!Cell(c) = Dram!Cell(dramAddr)
      BY <2>3 DEF DramLastIn
    <3>2. c # dramAddr
      <4>1. c \in Nat /\ dramAddr \in Nat
        BY <1>2, DramAddressFacts
      <4> QED BY <3>1, <4>1
    <3> QED BY <1>3, <3>1, <3>2 DEF Dram!Faulty
  <2> QED BY <2>2, <2>3
<1>5. Dram!Faulty'
  BY <1>1, <1>4 DEF Dram!Faulty, Dram!Cell
<1>6. DramTyped' /\ DramMemoryTyped'
  BY <1>1 DEF DramInv, DramTyped, DramMemoryTyped
<1>7. DramStuckInv' /\ DramWriteInv' /\ DramVerifyInv' /\ DramOutInv'
  BY <1>1, <1>5 DEF DramInv, DramStuckInv, DramWriteInv, DramVerifyInv, DramOutInv
<1>8. DramPassedInv'
  BY <1>1 DEF DramInv, DramPassedInv, DramShown, Dram!Cell
<1> QED BY <1>6, <1>7, <1>8 DEF DramInv

LEMMA DramMatchStep ==
    ASSUME Dram!DramTestAssumption, DramInv, Dram!Verify, dramMemory[Dram!Cell(dramAddr)] = DramWanted(dramAddr, dramFlip)
    PROVE  DramInv'
<1>1. /\ dramPc = "verify" /\ Dram!InRange /\ dramAddr' = Dram!Down /\ UNCHANGED <<dramFault, dramMemory, dramFlip, dramPc, dramBad>>
  BY DEF Dram!Verify, Dram!Expect, DramWanted
<1>2. dramFault \in Dram!StuckBits \cup Dram!StuckLines \cup {Dram!Faultless} /\ dramAddr \in Dram!Addresses
  BY DEF DramInv, DramTyped
<1>3. DramDone' = DramDone \cup {dramAddr}
  BY <1>1, <1>2, DramDoneFacts
<1>4. DramTyped' /\ DramMemoryTyped'
  BY <1>1, <1>2, DramDownFacts DEF DramInv, DramTyped, DramMemoryTyped
<1>5. DramStuckInv' /\ DramWriteInv' /\ DramOutInv'
  BY <1>1 DEF DramInv, DramStuckInv, DramWriteInv, DramOutInv
<1>6. DramVerifyInv'
  <2>1. DramHasLast(Dram!Tested) /\ dramFlip \in {1, 2} /\ \A a \in DramDone : dramMemory[Dram!Cell(a)] = DramWanted(a, dramFlip)
    BY <1>1 DEF DramInv, DramVerifyInv
  <2>2. DramHasLast(Dram!Tested)'
    <3>1. UNCHANGED <<dramFault, dramMemory, dramFlip>>
      BY <1>1
    <3>2. \A a : Dram!Cell(a)' = Dram!Cell(a) /\ DramWanted(a, dramFlip)' = DramWanted(a, dramFlip)
      BY <3>1 DEF Dram!Cell, DramWanted
    <3>3. \A a : Dram!Kept(Dram!Cell(a), DramWanted(a, dramFlip))' = Dram!Kept(Dram!Cell(a), DramWanted(a, dramFlip))
      BY <3>1, <3>2 DEF Dram!Kept
    <3>4. \A a : DramLastIn(a, Dram!Tested)' <=> DramLastIn(a, Dram!Tested)
      BY <3>2 DEF DramLastIn
    <3> QED BY <2>1, <3>1, <3>2, <3>3, <3>4 DEF DramHasLast
  <2>3. \A a \in DramDone \cup {dramAddr} : dramMemory[Dram!Cell(a)] = DramWanted(a, dramFlip)
    BY <2>1
  <2>4. (\A a \in DramDone : dramMemory[Dram!Cell(a)] = DramWanted(a, dramFlip))'
    BY <1>1, <1>3, <2>3 DEF Dram!Cell, DramWanted
  <2> QED BY <1>1, <2>1, <2>2, <2>4 DEF DramVerifyInv
<1>7. DramPassedInv'
  BY <1>1 DEF DramInv, DramPassedInv, DramShown, Dram!Cell
<1> QED BY <1>4, <1>5, <1>6, <1>7 DEF DramInv

(* A round that is passed shows that no two words share a cell, and how the *)
(* bit that is stuck happens to be right.                                   *)
LEMMA DramVerifiedStep ==
    ASSUME Dram!DramTestAssumption, DramInv, Dram!Verified
    PROVE  DramInv'
<1>1. /\ dramPc = "verify" /\ ~Dram!InRange /\ dramFlip' = dramFlip + 1 /\ UNCHANGED <<dramFault, dramMemory, dramBad>>
      /\ IF dramFlip < 2 THEN dramPc' = "write" /\ dramAddr' = Dram!Last ELSE dramPc' = "out" /\ UNCHANGED dramAddr
  BY DEF Dram!Verified, Dram!Flips
<1>2. /\ dramFault \in Dram!StuckBits \cup Dram!StuckLines \cup {Dram!Faultless} /\ dramAddr \in Dram!Addresses /\ dramFlip \in {1, 2}
      /\ \A a \in Dram!Tested : a \in Dram!Addresses
  BY DramAddressFacts DEF DramInv, DramTyped, DramVerifyInv, Dram!Verified
<1>3. DramDone = Dram!Tested
  BY <1>1, <1>2, DramDoneFacts
<1>4. \A a \in Dram!Tested : dramMemory[Dram!Cell(a)] = DramWanted(a, dramFlip)
  BY <1>1, <1>3 DEF DramInv, DramVerifyInv
<1>5. DramShown(dramFlip)
  <2>1. ASSUME NEW a \in Dram!Tested, NEW c \in Dram!Tested, Dram!Cell(a) = Dram!Cell(c) PROVE a = c
    BY <1>2, <1>4, <2>1, DramWantedFacts
  <2>2. ASSUME dramFault.kind = "bit", dramFault.cell \in Dram!Tested PROVE DramWanted(dramFault.cell, dramFlip)[dramFault.bit] = dramFault.is
    <3>1. Dram!Cell(dramFault.cell) = dramFault.cell
      BY <1>2, <2>2, DramCellFacts
    <3>2. dramMemory[dramFault.cell][dramFault.bit] = dramFault.is
      BY <2>2 DEF DramInv, DramStuckInv
    <3> QED BY <1>4, <2>2, <3>1, <3>2
  <2> QED BY <2>1, <2>2 DEF DramShown
<1>6. DramMemoryTyped' /\ DramStuckInv' /\ DramVerifyInv'
  BY <1>1 DEF DramInv, DramMemoryTyped, DramStuckInv, DramVerifyInv
<1>7. DramShown(1)
  BY <1>2, <1>5 DEF DramInv, DramPassedInv
<1>8. DramPassedInv'
  BY <1>1, <1>7 DEF DramPassedInv, DramShown, Dram!Cell
<1>9. DramTyped'
  BY <1>1, <1>2, DramAddressFacts DEF DramTyped
<1>10. CASE dramFlip = 1
  <2>1. dramPc' = "write" /\ dramAddr' = Dram!Last /\ dramFlip' = 2
    BY <1>1, <1>10
  <2>2. DramDone' = {}
    BY <1>2, <2>1, DramDoneFacts
  <2>3. DramWriteInv'
    BY <2>1, <2>2 DEF DramWriteInv, DramHasLast
  <2>4. DramOutInv'
    BY <1>1, <2>1 DEF DramInv, DramOutInv
  <2> QED BY <1>6, <1>8, <1>9, <2>3, <2>4 DEF DramInv
<1>11. CASE dramFlip = 2
  <2>1. dramPc' = "out" /\ dramBad = 0
    BY <1>1, <1>11 DEF DramInv, DramOutInv
  <2>2. ~(dramFault.kind = "bit" /\ dramFault.cell \in Dram!Tested)
    <3> SUFFICES ASSUME dramFault.kind = "bit", dramFault.cell \in Dram!Tested PROVE FALSE
      OBVIOUS
    <3>1. DramWanted(dramFault.cell, 1)[dramFault.bit] = dramFault.is /\ DramWanted(dramFault.cell, 2)[dramFault.bit] = dramFault.is
      BY <1>5, <1>7, <1>11 DEF DramShown
    <3>2. dramFault.bit \in Dram!Bits
      BY <1>2, DramFaultFacts
    <3> QED BY <1>2, <3>1, <3>2, DramWantedFacts
  <2>3. ~Dram!Faulty
    BY <1>7, <2>2 DEF Dram!Faulty, DramShown
  <2>4. ~Dram!Faulty'
    BY <1>1, <2>3 DEF Dram!Faulty, Dram!Cell
  <2>5. DramWriteInv' /\ DramOutInv'
    BY <1>1, <2>1, <2>4 DEF DramWriteInv, DramOutInv
  <2> QED BY <1>6, <1>8, <1>9, <2>5 DEF DramInv
<1> QED BY <1>2, <1>10, <1>11

LEMMA DramNextInv ==
    ASSUME Dram!DramTestAssumption, DramInv, [Dram!Next]_(Dram!vars)
    PROVE  DramInv'
<1>1. CASE UNCHANGED Dram!vars
  <2>1. UNCHANGED <<dramFault, dramMemory, dramPc, dramFlip, dramAddr, dramBad>>
    BY <1>1 DEF Dram!vars
  <2>2. DramTyped' /\ DramMemoryTyped' /\ DramStuckInv'
    BY <2>1 DEF DramInv, DramTyped, DramMemoryTyped, DramStuckInv
  <2>3. DramDone' = DramDone
    BY <2>1 DEF DramDone, Dram!InRange
  <2>4. DramWriteInv' /\ DramVerifyInv'
    BY <2>1, <2>3 DEF DramInv, DramWriteInv, DramVerifyInv, DramHasLast, DramLastIn, Dram!Kept,
       Dram!Cell, DramWanted
  <2>5. DramPassedInv' /\ DramOutInv'
    BY <2>1 DEF DramInv, DramPassedInv, DramShown, Dram!Cell, DramOutInv, Dram!Faulty
  <2> QED BY <2>2, <2>4, <2>5 DEF DramInv
<1> QED BY <1>1, DramWriteStep, DramWrittenStep, DramMismatchStep, DramMatchStep,
   DramVerifiedStep DEF Dram!Next

-----------------------------------------------------------------------------
(* RootHub                                                                  *)
RootTyped ==
    /\ rootPlugged \in [Root!Ports -> Speeds \cup {"none"}]
    /\ rootPortsc \in [Root!Ports -> Root!Portsc]
    /\ rootAt \in {"read", "write"} /\ rootPort \in Root!Ports
    /\ rootReg \in Root!Portsc /\ rootSpeed \in Speeds \cup {"none"}
    /\ rootLate \in BOOLEAN /\ rootGone \in BOOLEAN

RootBegun == {"halt", "wait_halt"}
RootAsking == {"power", "status", "old_reset", "connection", "reset_port", "status_reset", "new_reset", "found", "no_device"}

(* Where the controller is while no handshake has given up.                 *)
RootSetUpInv ==
    ~rootLate =>
        /\ rootPc = "halt" => rootHc \in {"running", "halted"}
        /\ rootPc = "wait_halt" => rootHc \in {"halting", "halted"}
        /\ rootPc = "reset" => rootHc = "halted"
        /\ rootPc = "wait_reset" => rootHc \in {"resetting", "notready", "halted"}
        /\ rootPc = "wait_ready" => rootHc \in {"notready", "halted"}
        /\ rootPc = "slots" => rootHc = "halted"
        /\ rootPc = "mem_init" => rootHc = "halted" /\ rootMemory = "slots"
        /\ rootPc \in {"force", "run"} => rootHc = "halted" /\ rootMemory = "all"
        /\ rootPc = "wait_run" => rootHc \in {"starting", "running"} /\ rootMemory = "all"
        /\ rootPc \in RootAsking => rootHc = "running" /\ rootMemory = "all"

RootPlaces ==
    /\ rootPc \in RootBegun \cup RootAsking
          \cup {"reset", "wait_reset", "wait_ready", "slots", "mem_init", "force", "run", "wait_run"}
    /\ rootPc = "status_reset" => rootAt = "read"

(* A port has its device, powers it, and is not enabled while it is reset;  *)
(* when it is enabled it knows its speed.                                   *)
RootSound(s, device) ==
    /\ s.pe => s.ccs /\ ~s.pr /\ s.speed = device
    /\ s.pr => s.ccs
    /\ s.ccs => s.pp /\ device # "none"
RootPortInv == \A p \in Root!Ports : RootSound(rootPortsc[p], rootPlugged[p])

(* The port the driver has taken.                                           *)
RootTakenInv ==
    rootPc \in {"new_reset", "found"} /\ ~rootGone /\ ~rootLate =>
        /\ rootPortsc[rootPort].pe /\ rootPortsc[rootPort].speed = rootSpeed
        /\ rootPc = "new_reset" /\ rootAt = "write" => rootReg.pp /\ ~rootReg.pe /\ ~rootReg.pr
        /\ rootPc = "found" => ~rootPortsc[rootPort].prc

RootInv == RootTyped /\ RootPlaces /\ RootSetUpInv /\ RootPortInv /\ RootTakenInv

-----------------------------------------------------------------------------
LEMMA RootOffFacts ==
    ASSUME Root!RootHubAssumption
    PROVE  Root!PortOff \in Root!Portsc /\ ~Root!PortOff.pe /\ ~Root!PortOff.pr /\ ~Root!PortOff.ccs
BY DEF Root!RootHubAssumption, Root!PortOff, Root!Portsc

LEMMA RootNeutralFacts ==
    ASSUME NEW s \in Root!Portsc
    PROVE  /\ Root!Neutral(s) \in Root!Portsc
           /\ ~Root!Neutral(s).pe /\ ~Root!Neutral(s).pr /\ ~Root!Neutral(s).csc /\ ~Root!Neutral(s).prc
           /\ Root!Neutral(s).pp = s.pp
BY DEF Root!Neutral, Root!Portsc

(* Whatever is written, the port is not worse off.                          *)
LEMMA RootWrittenFacts ==
    ASSUME Root!RootHubAssumption, NEW old \in Root!Portsc, NEW v \in Root!Portsc, NEW device, RootSound(old, device)
    PROVE  Root!Written(old, v) \in Root!Portsc /\ RootSound(Root!Written(old, v), device)
<1>1. CASE PortPower /\ ~v.pp
  BY <1>1, RootOffFacts DEF Root!Written, RootSound
<1>2. CASE ~(PortPower /\ ~v.pp)
  <2> DEFINE pr == old.pr \/ (v.pr /\ old.ccs)
             pe == old.pe /\ ~v.pe /\ ~(v.pr /\ old.ccs)
             csc == old.csc /\ ~v.csc
             prc == old.prc /\ ~v.prc
             w == [old EXCEPT !.pp = TRUE, !.pr = pr, !.pe = pe, !.csc = csc, !.prc = prc]
  <2>1. Root!Written(old, v) = w
    BY <1>2 DEF Root!Written
  <2>2. pr \in BOOLEAN /\ pe \in BOOLEAN /\ csc \in BOOLEAN /\ prc \in BOOLEAN
    BY DEF Root!Portsc
  <2>3. (pe => old.pe /\ ~pr) /\ (pr => old.ccs) /\ (pe => old.ccs)
    BY DEF Root!Portsc, RootSound
  <2> HIDE DEF pr, pe, csc, prc
  <2>4. w \in Root!Portsc
    BY <2>2 DEF Root!Portsc
  <2>5. w.pr = pr /\ w.pe = pe /\ w.pp /\ w.ccs = old.ccs /\ w.speed = old.speed
    BY <2>2, SMTT(30) DEF Root!Portsc
  <2> HIDE DEF w
  <2> QED BY <2>1, <2>3, <2>4, <2>5 DEF RootSound
<1> QED BY <1>1, <1>2

LEMMA RootWrittenType ==
    ASSUME Root!RootHubAssumption, NEW old \in Root!Portsc, NEW v \in Root!Portsc
    PROVE  Root!Written(old, v) \in Root!Portsc
<1>1. CASE PortPower /\ ~v.pp
  BY <1>1, RootOffFacts DEF Root!Written
<1>2. CASE ~(PortPower /\ ~v.pp)
  <2> DEFINE pr == old.pr \/ (v.pr /\ old.ccs)
             pe == old.pe /\ ~v.pe /\ ~(v.pr /\ old.ccs)
             csc == old.csc /\ ~v.csc
             prc == old.prc /\ ~v.prc
  <2>1. Root!Written(old, v) = [old EXCEPT !.pp = TRUE, !.pr = pr, !.pe = pe, !.csc = csc, !.prc = prc]
    BY <1>2 DEF Root!Written
  <2>2. pr \in BOOLEAN /\ pe \in BOOLEAN /\ csc \in BOOLEAN /\ prc \in BOOLEAN
    BY DEF Root!Portsc
  <2> HIDE DEF pr, pe, csc, prc
  <2> QED BY <2>1, <2>2 DEF Root!Portsc
<1> QED BY <1>1, <1>2

(* A neutral value with power leaves it as it is, but for the change that   *)
(* is cleared.                                                              *)
LEMMA RootCleared ==
    ASSUME Root!RootHubAssumption, NEW old \in Root!Portsc, NEW v \in Root!Portsc, v.pp, ~v.pe, ~v.pr, old.pe, ~old.pr
    PROVE  LET w == Root!Written(Root!Written(old, [v EXCEPT !.prc = TRUE]), v)
           IN  w.pe /\ ~w.prc /\ ~w.pr /\ w.ccs = old.ccs /\ w.speed = old.speed
<1> DEFINE v1 == [v EXCEPT !.prc = TRUE]
           w1 == Root!Written(old, v1)
<1>1. v1.pp /\ ~v1.pe /\ ~v1.pr /\ v1.prc
  BY DEF Root!Portsc
<1> HIDE DEF v1
<1>2. w1.pe /\ ~w1.prc /\ ~w1.pr /\ w1.ccs = old.ccs /\ w1.speed = old.speed
  BY <1>1 DEF Root!Written, Root!Portsc
<1>3. Root!Written(w1, v).pe /\ ~Root!Written(w1, v).prc /\ ~Root!Written(w1, v).pr
      /\ Root!Written(w1, v).ccs = w1.ccs /\ Root!Written(w1, v).speed = w1.speed
  <2>1. v1 \in Root!Portsc
    BY DEF v1, Root!Portsc
  <2>2. w1 \in Root!Portsc
    BY <2>1, RootWrittenType
  <2> HIDE DEF w1
  <2> QED BY <1>2, <2>2 DEF Root!Written, Root!Portsc
<1> QED BY <1>2, <1>3 DEF v1

-----------------------------------------------------------------------------
(* Setting the controller up.                                               *)

LEMMA RootSetUpPart ==
    ASSUME RootInv, UNCHANGED <<Root!OfPorts, Root!OfWorld>>, rootPc' \notin {"new_reset", "found"}, RootPlaces', RootSetUpInv', rootLate' \in BOOLEAN
    PROVE  RootInv'
<1>1. UNCHANGED <<rootPortsc, rootAt, rootPort, rootTries, rootReg, rootSpeed, rootGone, rootPlugged, rootPlugs>>
  BY DEF Root!OfPorts, Root!OfWorld
<1>2. RootTyped'
  BY <1>1 DEF RootInv, RootTyped
<1>3. RootPortInv'
  BY <1>1 DEF RootInv, RootPortInv
<1>4. RootTakenInv'
  BY <1>1 DEF RootInv, RootTakenInv
<1> QED BY <1>2, <1>3, <1>4 DEF RootInv

LEMMA RootCommandStep ==
    ASSUME RootInv, Root!Halt \/ Root!Reset \/ Root!Run
    PROVE  RootInv'
<1>1. UNCHANGED <<Root!OfPorts, Root!OfWorld>> /\ rootLate' = rootLate
  BY DEF Root!Halt, Root!Reset, Root!Run, Root!Command
<1>2. rootPc' \notin {"new_reset", "found"} /\ RootPlaces'
  BY DEF Root!Halt, Root!Reset, Root!Run, Root!Command, Root!Goto, RootPlaces, RootBegun
<1>3. RootSetUpInv'
  BY DEF RootInv, RootSetUpInv, Root!Halt, Root!Reset, Root!Run, Root!Command, Root!Goto,
     RootAsking
<1> QED BY <1>1, <1>2, <1>3, RootSetUpPart DEF RootInv, RootTyped

LEMMA RootHandshakeStep ==
    ASSUME RootInv, Root!WaitHalt \/ Root!WaitReset \/ Root!WaitReady \/ Root!WaitRun
    PROVE  RootInv'
<1>1. UNCHANGED <<rootHc, rootMemory, Root!OfPorts, Root!OfWorld>> /\ rootLate' \in BOOLEAN /\ (rootLate => rootLate')
  BY DEF Root!WaitHalt, Root!WaitReset, Root!WaitReady, Root!WaitRun, Root!Handshake, RootInv,
     RootTyped
<1>2. rootPc' \notin {"new_reset", "found"} /\ RootPlaces'
  BY DEF Root!WaitHalt, Root!WaitReset, Root!WaitReady, Root!WaitRun, Root!Handshake, Root!Goto,
     RootPlaces, RootAsking
<1>3. \/ rootPc = "wait_halt" /\ rootPc' = "reset" /\ (rootHc = "halted" \/ rootLate')
      \/ rootPc = "wait_reset" /\ rootPc' = "wait_ready" /\ (rootHc # "resetting" \/ rootLate')
      \/ rootPc = "wait_ready" /\ rootPc' = "slots" /\ (rootHc # "notready" \/ rootLate')
      \/ rootPc = "wait_run" /\ rootPc' = "power" /\ (rootHc = "running" \/ rootLate')
  BY DEF Root!WaitHalt, Root!WaitReset, Root!WaitReady, Root!WaitRun, Root!Handshake, Root!Goto
<1>4. RootSetUpInv'
  BY <1>1, <1>3 DEF RootInv, RootSetUpInv, RootAsking
<1> QED BY <1>1, <1>2, <1>4, RootSetUpPart

LEMMA RootGiveStep ==
    ASSUME RootInv, Root!Slots \/ Root!MemInit
    PROVE  RootInv'
<1>1. UNCHANGED <<Root!OfPorts, Root!OfWorld>> /\ rootLate' = rootLate /\ rootHc' = rootHc
  BY DEF Root!Slots, Root!MemInit, Root!Give
<1>2. \/ rootPc = "slots" /\ rootPc' = "mem_init" /\ (rootHc = "halted" => rootMemory' = "slots")
      \/ /\ rootPc = "mem_init" /\ rootPc' \in {"force", "run"}
         /\ rootHc = "halted" /\ rootMemory = "slots" => rootMemory' = "all"
  BY DEF Root!Slots, Root!MemInit, Root!Give, Root!Goto
<1>3. rootPc' \notin {"new_reset", "found"} /\ RootPlaces'
  BY <1>2 DEF RootPlaces
<1>4. RootSetUpInv'
  BY <1>1, <1>2 DEF RootInv, RootSetUpInv, RootAsking
<1> QED BY <1>1, <1>3, <1>4, RootSetUpPart DEF RootInv, RootTyped

-----------------------------------------------------------------------------
(* The requests.                                                            *)

(* A port is written, or none is, before or after one is taken.             *)
LEMMA RootElsewhere ==
    ASSUME RootInv, RootPortInv', rootPortsc' \in [Root!Ports -> Root!Portsc], UNCHANGED <<rootHc, rootMemory, rootLate, rootPlugged, rootGone>>,
           rootReg' \in Root!Portsc, rootAt' \in {"read", "write"}, rootPort' \in Root!Ports, rootSpeed' \in Speeds \cup {"none"},
           rootPc' \notin {"new_reset", "found"}, RootPlaces', RootSetUpInv'
    PROVE  RootInv'
<1>1. RootTyped'
  BY DEF RootInv, RootTyped
<1>2. RootTakenInv'
  BY DEF RootTakenInv
<1> QED BY <1>1, <1>2 DEF RootInv

LEMMA RootReadEffect ==
    ASSUME Root!RootHubAssumption, RootInv, NEW v \in Root!Portsc, Root!ReadPort(v), rootPc # "status_reset"
    PROVE  /\ rootAt = "read" /\ rootAt' = "write" /\ rootReg' = v
           /\ UNCHANGED <<rootPc, rootPortsc, rootPort, rootTries, rootSpeed, rootGone, rootHc, rootMemory, rootLate, rootPlugged, rootPlugs>>
           /\ RootTyped' /\ RootPlaces' /\ RootSetUpInv' /\ RootPortInv'
<1>1. /\ rootAt = "read" /\ rootAt' = "write" /\ rootReg' = v
      /\ UNCHANGED <<rootPc, rootPortsc, rootPort, rootTries, rootSpeed, rootGone, rootHc, rootMemory, rootLate, rootPlugged, rootPlugs>>
  BY DEF Root!ReadPort, Root!OfSetUp, Root!OfWorld
<1>2. RootTyped'
  BY <1>1 DEF RootInv, RootTyped
<1>3. RootPlaces' /\ RootSetUpInv'
  BY <1>1 DEF RootInv, RootPlaces, RootSetUpInv
<1>4. RootPortInv'
  BY <1>1 DEF RootInv, RootPortInv
<1> QED BY <1>1, <1>2, <1>3, <1>4

LEMMA RootReadStep ==
    ASSUME Root!RootHubAssumption, RootInv, NEW v \in Root!Portsc, Root!ReadPort(v), rootPc \notin {"new_reset", "found", "status_reset"}
    PROVE  RootInv'
<1>1. RootTakenInv'
  BY RootReadEffect DEF RootTakenInv
<1> QED BY <1>1, RootReadEffect DEF RootInv

(* One port is written, once.                                               *)
LEMMA RootWriteEffect ==
    ASSUME Root!RootHubAssumption, RootInv, NEW p \in Root!Ports, NEW v \in Root!Portsc, Root!Write(p, v), UNCHANGED rootPlugged
    PROVE  RootPortInv' /\ rootPortsc' \in [Root!Ports -> Root!Portsc]
<1>1. rootPortsc \in [Root!Ports -> Root!Portsc] /\ \A q \in Root!Ports : RootSound(rootPortsc[q], rootPlugged[q])
  BY DEF RootInv, RootTyped, RootPortInv
<1>2. rootPortsc' = [rootPortsc EXCEPT ![p] = Root!Written(rootPortsc[p], v)]
  BY DEF Root!Write
<1>3. Root!Written(rootPortsc[p], v) \in Root!Portsc /\ RootSound(Root!Written(rootPortsc[p], v), rootPlugged[p])
  BY <1>1, RootWrittenFacts
<1>4. \A q \in Root!Ports : rootPortsc'[q] = IF q = p THEN Root!Written(rootPortsc[p], v) ELSE rootPortsc[q]
  BY <1>1, <1>2
<1>5. rootPortsc' \in [Root!Ports -> Root!Portsc]
  BY <1>1, <1>2, <1>3
<1>6. \A q \in Root!Ports : RootSound(rootPortsc'[q], rootPlugged'[q])
  BY <1>1, <1>3, <1>4
<1> QED BY <1>5, <1>6 DEF RootPortInv

LEMMA RootForceStep ==
    ASSUME Root!RootHubAssumption, RootInv, Root!Force
    PROVE  RootInv'
<1>1. rootPc = "force"
  BY DEF Root!Force
<1>2. CASE 2 \notin Root!Ports
  <2>1. rootPc' = "run" /\ UNCHANGED <<Root!OfPorts, Root!OfSetUp, Root!OfWorld>>
    BY <1>2 DEF Root!Force, Root!Goto
  <2>2. RootPlaces' /\ RootSetUpInv'
    BY <1>1, <2>1 DEF RootInv, RootPlaces, RootSetUpInv, Root!OfSetUp, RootAsking
  <2> QED BY <2>1, <2>2, RootSetUpPart DEF RootInv, RootTyped, Root!OfSetUp
<1>3. CASE 2 \in Root!Ports /\ Root!ReadPort(rootPortsc[2])
  <2>1. rootPortsc[2] \in Root!Portsc
    BY <1>3 DEF RootInv, RootTyped
  <2> QED BY <1>1, <1>3, <2>1, RootReadStep
<1>4. CASE 2 \in Root!Ports /\ rootAt = "write" /\ rootAt' = "read" /\ Root!Write(2, [rootReg EXCEPT !.pe = TRUE]) /\ rootPc' = "run"
           /\ UNCHANGED <<rootPort, rootTries, rootReg, rootSpeed, rootGone, Root!OfSetUp, Root!OfWorld>>
  <2>1. [rootReg EXCEPT !.pe = TRUE] \in Root!Portsc
    BY DEF RootInv, RootTyped, Root!Portsc
  <2>2. UNCHANGED <<rootHc, rootMemory, rootLate, rootPlugged, rootGone, rootPort, rootReg, rootSpeed>>
    BY <1>4 DEF Root!OfSetUp, Root!OfWorld
  <2>3. RootPortInv' /\ rootPortsc' \in [Root!Ports -> Root!Portsc]
    BY <1>4, <2>1, <2>2, RootWriteEffect
  <2>4. RootPlaces' /\ RootSetUpInv'
    BY <1>1, <1>4, <2>2 DEF RootInv, RootPlaces, RootSetUpInv, RootAsking
  <2>5. rootReg' \in Root!Portsc /\ rootAt' \in {"read", "write"} /\ rootPort' \in Root!Ports /\ rootSpeed' \in Speeds \cup {"none"}
        /\ rootPc' \notin {"new_reset", "found"}
    BY <1>4, <2>2 DEF RootInv, RootTyped
  <2> QED BY <2>2, <2>3, <2>4, <2>5, RootElsewhere
<1> QED BY <1>2, <1>3, <1>4 DEF Root!Force, Root!Goto

(* A request by which a bit is set: it is read, or written.                 *)
LEMMA RootSetEffect ==
    ASSUME Root!RootHubAssumption, RootInv, NEW bit \in {"pp", "pr"}, Root!SetFeature(bit), rootPc \notin {"new_reset", "found", "status_reset"}
    PROVE  \/ rootAt = "read" /\ rootAt' = "write" /\ RootInv'
           \/ /\ rootAt = "write" /\ rootAt' = "read"
              /\ RootPortInv' /\ rootPortsc' \in [Root!Ports -> Root!Portsc]
              /\ UNCHANGED <<rootHc, rootMemory, rootLate, rootPlugged, rootGone, rootReg, rootSpeed>>
<1>1. rootPortsc[rootPort] \in Root!Portsc /\ rootReg \in Root!Portsc /\ rootPort \in Root!Ports
  BY DEF RootInv, RootTyped
<1>2. CASE Root!ReadPort(Root!Neutral(rootPortsc[rootPort]))
  <2>1. Root!Neutral(rootPortsc[rootPort]) \in Root!Portsc
    BY <1>1, RootNeutralFacts
  <2> QED BY <1>2, <2>1, RootReadStep, RootReadEffect
<1>3. CASE rootAt = "write" /\ rootAt' = "read" /\ Root!Write(rootPort, [rootReg EXCEPT ![bit] = TRUE])
           /\ UNCHANGED <<rootReg, rootSpeed, rootGone, Root!OfSetUp, Root!OfWorld>>
  <2>1. [rootReg EXCEPT ![bit] = TRUE] \in Root!Portsc
    BY <1>1 DEF Root!Portsc
  <2>2. UNCHANGED <<rootHc, rootMemory, rootLate, rootPlugged, rootGone, rootReg, rootSpeed>>
    BY <1>3 DEF Root!OfSetUp, Root!OfWorld
  <2> QED BY <1>1, <1>3, <2>1, <2>2, RootWriteEffect
<1> QED BY <1>2, <1>3 DEF Root!SetFeature

LEMMA RootNextPortEffect ==
    ASSUME Root!RootHubAssumption, rootPort \in Root!Ports, Root!NextPort
    PROVE  rootPort' \in Root!Ports /\ rootPc' \in {"status", "no_device"}
BY DEF Root!NextPort, Root!Goto, Root!Ports, Root!RootHubAssumption

LEMMA RootAskingPlaces ==
    ASSUME RootInv, rootPc \in RootAsking, rootPc' \in RootAsking, UNCHANGED <<rootHc, rootMemory, rootLate>>,
           rootPc' = "status_reset" => rootAt' = "read"
    PROVE  RootPlaces' /\ RootSetUpInv'
BY DEF RootInv, RootPlaces, RootSetUpInv, RootAsking

LEMMA RootPowerStep ==
    ASSUME Root!RootHubAssumption, RootInv, Root!Power
    PROVE  RootInv'
<1>1. rootPc = "power" /\ Root!SetFeature("pp")
  BY DEF Root!Power
<1>2. \/ rootAt = "read" /\ rootAt' = "write" /\ RootInv'
      \/ /\ rootAt = "write" /\ rootAt' = "read"
         /\ RootPortInv' /\ rootPortsc' \in [Root!Ports -> Root!Portsc]
         /\ UNCHANGED <<rootHc, rootMemory, rootLate, rootPlugged, rootGone, rootReg, rootSpeed>>
  BY <1>1, RootSetEffect
<1>3. ASSUME rootAt = "write", rootAt' = "read", RootPortInv', rootPortsc' \in [Root!Ports -> Root!Portsc],
             UNCHANGED <<rootHc, rootMemory, rootLate, rootPlugged, rootGone, rootReg, rootSpeed>>
      PROVE  RootInv'
  <2>1. rootPort' \in Root!Ports /\ rootPc' \in {"power", "status"}
    BY <1>1, <1>3 DEF Root!Power, Root!Goto, RootInv, RootTyped, Root!Ports,
       Root!RootHubAssumption
  <2>2. RootPlaces' /\ RootSetUpInv'
    BY <1>1, <1>3, <2>1, RootAskingPlaces DEF RootAsking
  <2>3. rootReg' \in Root!Portsc /\ rootSpeed' \in Speeds \cup {"none"}
    BY <1>3 DEF RootInv, RootTyped
  <2> QED BY <1>3, <2>1, <2>2, <2>3, RootElsewhere
<1> QED BY <1>2, <1>3

LEMMA RootStatusStep ==
    ASSUME Root!RootHubAssumption, RootInv, Root!Status
    PROVE  RootInv'
<1>1. UNCHANGED <<rootPortsc, rootAt, rootReg, rootGone, rootHc, rootMemory, rootLate, rootPlugged, rootPlugs, rootTries, rootSpeed>> /\ rootPc = "status"
  BY DEF Root!Status, Root!Asked, Root!OfSetUp, Root!OfWorld
<1>2. rootPort \in Root!Ports
  BY DEF RootInv, RootTyped
<1>3. rootPort' \in Root!Ports /\ rootPc' \in {"status", "no_device", "old_reset", "connection"}
  BY <1>2, RootNextPortEffect DEF Root!Status, Root!Goto
<1>4. RootPlaces' /\ RootSetUpInv'
  BY <1>1, <1>3, RootAskingPlaces DEF RootAsking
<1>5. RootPortInv' /\ rootPortsc' \in [Root!Ports -> Root!Portsc] /\ rootReg' \in Root!Portsc /\ rootAt' \in {"read", "write"}
      /\ rootSpeed' \in Speeds \cup {"none"}
  BY <1>1 DEF RootInv, RootPortInv, RootTyped
<1> QED BY <1>1, <1>3, <1>4, <1>5, RootElsewhere

(* A request by which a change is cleared: it is read, or written twice.    *)
LEMMA RootClearEffect ==
    ASSUME Root!RootHubAssumption, RootInv, NEW bit \in {"prc", "csc"}, Root!ClearFeature(bit)
    PROVE  \/ /\ Root!ReadPort(Root!Neutral(rootPortsc[rootPort])) /\ Root!Neutral(rootPortsc[rootPort]) \in Root!Portsc
              /\ rootAt = "read" /\ rootAt' = "write"
           \/ /\ rootAt = "write" /\ rootAt' = "read"
              /\ RootPortInv' /\ rootPortsc' \in [Root!Ports -> Root!Portsc]
              /\ rootPortsc' = [rootPortsc EXCEPT ![rootPort] = Root!Written(Root!Written(rootPortsc[rootPort], [rootReg EXCEPT ![bit] = TRUE]), rootReg)]
              /\ UNCHANGED <<rootHc, rootMemory, rootLate, rootPlugged, rootGone, rootReg>>
<1>1. rootPortsc[rootPort] \in Root!Portsc /\ rootReg \in Root!Portsc /\ rootPort \in Root!Ports /\ RootSound(rootPortsc[rootPort], rootPlugged[rootPort])
      /\ rootPortsc \in [Root!Ports -> Root!Portsc] /\ (\A q \in Root!Ports : RootSound(rootPortsc[q], rootPlugged[q]))
  BY DEF RootInv, RootTyped, RootPortInv
<1>2. CASE Root!ReadPort(Root!Neutral(rootPortsc[rootPort]))
  <2>1. Root!Neutral(rootPortsc[rootPort]) \in Root!Portsc
    BY <1>1, RootNeutralFacts
  <2> QED BY <1>2, <2>1 DEF Root!ReadPort
<1>3. CASE rootAt = "write" /\ rootAt' = "read"
           /\ rootPortsc' = [rootPortsc EXCEPT ![rootPort] = Root!Written(Root!Written(@, [rootReg EXCEPT ![bit] = TRUE]), rootReg)]
           /\ UNCHANGED <<rootReg, rootGone, Root!OfSetUp, Root!OfWorld>>
  <2> DEFINE v == [rootReg EXCEPT ![bit] = TRUE]
             w1 == Root!Written(rootPortsc[rootPort], v)
             w2 == Root!Written(w1, rootReg)
  <2>1. v \in Root!Portsc
    BY <1>1 DEF Root!Portsc
  <2>2. rootPortsc' = [rootPortsc EXCEPT ![rootPort] = w2]
    BY <1>3
  <2> HIDE DEF v
  <2>3. w1 \in Root!Portsc /\ RootSound(w1, rootPlugged[rootPort])
    BY <1>1, <2>1, RootWrittenFacts
  <2> HIDE DEF w1
  <2>4. w2 \in Root!Portsc /\ RootSound(w2, rootPlugged[rootPort])
    BY <1>1, <2>3, RootWrittenFacts
  <2> HIDE DEF w2
  <2>5. rootPortsc' \in [Root!Ports -> Root!Portsc] /\ \A q \in Root!Ports : rootPortsc'[q] = IF q = rootPort THEN w2 ELSE rootPortsc[q]
    BY <1>1, <2>2, <2>4
  <2>6. rootPlugged' = rootPlugged
    BY <1>3 DEF Root!OfWorld
  <2>7. RootPortInv'
    BY <1>1, <2>4, <2>5, <2>6 DEF RootPortInv
  <2>8. UNCHANGED <<rootHc, rootMemory, rootLate, rootPlugged, rootGone, rootReg>>
    BY <1>3 DEF Root!OfSetUp, Root!OfWorld
  <2>9. rootPortsc' = [rootPortsc EXCEPT ![rootPort] = Root!Written(Root!Written(rootPortsc[rootPort], [rootReg EXCEPT ![bit] = TRUE]), rootReg)]
    BY <1>3
  <2> QED BY <1>3, <2>5, <2>7, <2>8, <2>9
<1> QED BY <1>2, <1>3 DEF Root!ClearFeature

LEMMA RootClearStep ==
    ASSUME Root!RootHubAssumption, RootInv, Root!ClearOldReset \/ Root!ClearConnection
    PROVE  RootInv'
<1>1. rootPc \in {"old_reset", "connection"} /\ \E bit \in {"prc", "csc"} : Root!ClearFeature(bit)
  BY DEF Root!ClearOldReset, Root!ClearConnection
<1>2. PICK bit \in {"prc", "csc"} : Root!ClearFeature(bit)
  BY <1>1
<1>3. CASE Root!ReadPort(Root!Neutral(rootPortsc[rootPort])) /\ Root!Neutral(rootPortsc[rootPort]) \in Root!Portsc
  BY <1>1, <1>3, RootReadStep
<1>4. CASE /\ rootAt = "write" /\ rootAt' = "read"
           /\ RootPortInv' /\ rootPortsc' \in [Root!Ports -> Root!Portsc]
           /\ UNCHANGED <<rootHc, rootMemory, rootLate, rootPlugged, rootGone, rootReg>>
  <2>1. rootPc' \in {"connection", "reset_port"} /\ rootPort' = rootPort /\ rootSpeed' = rootSpeed
    BY <1>4 DEF Root!ClearOldReset, Root!ClearConnection, Root!Goto
  <2>2. RootPlaces' /\ RootSetUpInv'
    BY <1>1, <1>4, <2>1, RootAskingPlaces DEF RootAsking
  <2>3. rootReg' \in Root!Portsc /\ rootSpeed' \in Speeds \cup {"none"} /\ rootPort' \in Root!Ports
    BY <1>4, <2>1 DEF RootInv, RootTyped
  <2> QED BY <1>4, <2>1, <2>2, <2>3, RootElsewhere
<1> QED BY <1>2, <1>3, <1>4, RootClearEffect

LEMMA RootResetPortStep ==
    ASSUME Root!RootHubAssumption, RootInv, Root!ResetPort
    PROVE  RootInv'
<1>1. rootPc = "reset_port" /\ Root!SetFeature("pr")
  BY DEF Root!ResetPort
<1>2. \/ rootAt = "read" /\ rootAt' = "write" /\ RootInv'
      \/ /\ rootAt = "write" /\ rootAt' = "read"
         /\ RootPortInv' /\ rootPortsc' \in [Root!Ports -> Root!Portsc]
         /\ UNCHANGED <<rootHc, rootMemory, rootLate, rootPlugged, rootGone, rootReg, rootSpeed>>
  BY <1>1, RootSetEffect
<1>3. ASSUME rootAt = "write", rootAt' = "read", RootPortInv', rootPortsc' \in [Root!Ports -> Root!Portsc],
             UNCHANGED <<rootHc, rootMemory, rootLate, rootPlugged, rootGone, rootReg, rootSpeed>>
      PROVE  RootInv'
  <2>1. rootPort' = rootPort /\ rootPc' = "status_reset"
    BY <1>3 DEF Root!ResetPort, Root!Goto
  <2>2. RootPlaces' /\ RootSetUpInv'
    BY <1>1, <1>3, <2>1, RootAskingPlaces DEF RootAsking
  <2>3. rootReg' \in Root!Portsc /\ rootSpeed' \in Speeds \cup {"none"} /\ rootPort' \in Root!Ports
    BY <1>3, <2>1 DEF RootInv, RootTyped
  <2> QED BY <1>3, <2>1, <2>2, <2>3, RootElsewhere
<1> QED BY <1>2, <1>3

(* The port is taken when its reset has enabled it.                         *)
LEMMA RootStatusOfResetStep ==
    ASSUME Root!RootHubAssumption, RootInv, Root!StatusOfReset
    PROVE  RootInv'
<1>1. UNCHANGED <<rootPortsc, rootAt, rootReg, rootGone, rootHc, rootMemory, rootLate, rootPlugged, rootPlugs>> /\ rootPc = "status_reset"
  BY DEF Root!StatusOfReset, Root!Asked, Root!OfSetUp, Root!OfWorld
<1>2. rootPort \in Root!Ports /\ rootPortsc[rootPort] \in Root!Portsc
  BY DEF RootInv, RootTyped
<1>3. RootPortInv' /\ rootPortsc' \in [Root!Ports -> Root!Portsc] /\ rootReg' \in Root!Portsc /\ rootAt' \in {"read", "write"}
  BY <1>1 DEF RootInv, RootPortInv, RootTyped
<1>4. CASE rootPortsc[rootPort].pe /\ rootSpeed' = rootPortsc[rootPort].speed /\ rootPc' = "new_reset" /\ rootPort' = rootPort
  <2>1. rootSpeed' \in Speeds \cup {"none"}
    BY <1>2, <1>4 DEF Root!Portsc
  <2>2. RootTyped'
    BY <1>1, <1>2, <1>4, <2>1 DEF RootInv, RootTyped
  <2>3. RootPlaces' /\ RootSetUpInv'
    BY <1>1, <1>4, RootAskingPlaces DEF RootAsking
  <2>4. RootTakenInv'
    <3>1. rootAt' = "read"
      BY <1>1 DEF RootInv, RootPlaces
    <3> QED BY <1>1, <1>2, <1>4, <3>1 DEF RootTakenInv
  <2> QED BY <1>3, <2>2, <2>3, <2>4 DEF RootInv
<1>5. CASE Root!NextPort /\ rootSpeed' = rootSpeed
  <2>1. rootPort' \in Root!Ports /\ rootPc' \in {"status", "no_device"}
    BY <1>2, <1>5, RootNextPortEffect
  <2>2. RootPlaces' /\ RootSetUpInv'
    BY <1>1, <2>1, RootAskingPlaces DEF RootAsking
  <2>3. rootSpeed' \in Speeds \cup {"none"}
    BY <1>5 DEF RootInv, RootTyped
  <2> QED BY <1>1, <1>3, <2>1, <2>2, <2>3, RootElsewhere
<1>6. CASE rootPc' = "reset_port" /\ rootPort' = rootPort /\ rootSpeed' = rootSpeed
  <2>1. RootPlaces' /\ RootSetUpInv'
    BY <1>1, <1>6, RootAskingPlaces DEF RootAsking
  <2>2. rootSpeed' \in Speeds \cup {"none"}
    BY <1>6 DEF RootInv, RootTyped
  <2> QED BY <1>1, <1>2, <1>3, <1>6, <2>1, <2>2, RootElsewhere
<1> QED BY <1>4, <1>5, <1>6 DEF Root!StatusOfReset, Root!Goto

LEMMA RootNewResetStep ==
    ASSUME Root!RootHubAssumption, RootInv, Root!ClearNewReset
    PROVE  RootInv'
<1>1. rootPc = "new_reset" /\ Root!ClearFeature("prc")
  BY DEF Root!ClearNewReset
<1>2. rootPort \in Root!Ports /\ rootPortsc[rootPort] \in Root!Portsc /\ rootReg \in Root!Portsc /\ RootSound(rootPortsc[rootPort], rootPlugged[rootPort])
      /\ rootPortsc \in [Root!Ports -> Root!Portsc]
  BY DEF RootInv, RootTyped, RootPortInv
<1>3. CASE Root!ReadPort(Root!Neutral(rootPortsc[rootPort])) /\ Root!Neutral(rootPortsc[rootPort]) \in Root!Portsc
  <2>1. rootReg' = Root!Neutral(rootPortsc[rootPort]) /\ UNCHANGED <<rootPc, rootPort, rootPortsc, rootSpeed, rootGone, rootLate>>
        /\ RootTyped' /\ RootPlaces' /\ RootSetUpInv' /\ RootPortInv'
    BY <1>1, <1>3, RootReadEffect
  <2>2. rootPortsc[rootPort].pe => rootReg'.pp /\ ~rootReg'.pe /\ ~rootReg'.pr
    BY <1>2, <2>1, RootNeutralFacts DEF RootSound
  <2>3. RootTakenInv'
    BY <1>1, <2>1, <2>2 DEF RootInv, RootTakenInv
  <2> QED BY <2>1, <2>3 DEF RootInv
<1>4. CASE /\ rootAt = "write" /\ rootAt' = "read"
           /\ RootPortInv' /\ rootPortsc' \in [Root!Ports -> Root!Portsc]
           /\ rootPortsc' = [rootPortsc EXCEPT ![rootPort] = Root!Written(Root!Written(rootPortsc[rootPort], [rootReg EXCEPT !.prc = TRUE]), rootReg)]
           /\ UNCHANGED <<rootHc, rootMemory, rootLate, rootPlugged, rootGone, rootReg>>
  <2>1. rootPc' = "found" /\ rootPort' = rootPort /\ rootSpeed' = rootSpeed
    BY <1>4 DEF Root!ClearNewReset, Root!Goto
  <2>2. RootPlaces' /\ RootSetUpInv'
    BY <1>1, <1>4, <2>1, RootAskingPlaces DEF RootAsking
  <2>3. RootTyped'
    BY <1>4, <2>1 DEF RootInv, RootTyped
  <2>4. RootTakenInv'
    <3> SUFFICES ASSUME ~rootGone, ~rootLate
                 PROVE  rootPortsc'[rootPort].pe /\ rootPortsc'[rootPort].speed = rootSpeed /\ ~rootPortsc'[rootPort].prc
      BY <1>4, <2>1 DEF RootTakenInv
    <3>1. rootPortsc[rootPort].pe /\ rootPortsc[rootPort].speed = rootSpeed /\ rootReg.pp /\ ~rootReg.pe /\ ~rootReg.pr
      BY <1>1, <1>4 DEF RootInv, RootTakenInv
    <3> DEFINE w == Root!Written(Root!Written(rootPortsc[rootPort], [rootReg EXCEPT !.prc = TRUE]), rootReg)
    <3>2. rootPortsc'[rootPort] = w
      BY <1>2, <1>4
    <3>3. w.pe /\ ~w.prc /\ w.speed = rootPortsc[rootPort].speed
      BY <1>2, <3>1, RootCleared DEF RootSound
    <3> HIDE DEF w
    <3> QED BY <3>1, <3>2, <3>3
  <2> QED BY <1>4, <2>2, <2>3, <2>4 DEF RootInv
<1> QED BY <1>1, <1>3, <1>4, RootClearEffect

LEMMA RootDriverStep ==
    ASSUME Root!RootHubAssumption, RootInv, Root!Driver
    PROVE  RootInv'
BY RootCommandStep, RootHandshakeStep, RootGiveStep, RootForceStep, RootPowerStep,
   RootStatusStep, RootClearStep, RootResetPortStep, RootStatusOfResetStep, RootNewResetStep DEF
   Root!Driver

-----------------------------------------------------------------------------
(* The controller and its ports.                                            *)

LEMMA RootControllerStep ==
    ASSUME Root!RootHubAssumption, RootInv, Root!Controller
    PROVE  RootInv'
<1>1. /\ UNCHANGED <<rootPc, rootAt, rootPort, rootTries, rootReg, rootSpeed, rootLate, rootPlugged, rootPlugs, rootGone>>
      /\ rootHc' # rootHc
      /\ rootPortsc' = IF rootHc = "resetting" THEN [p \in Root!Ports |-> Root!AfterReset(rootPortsc[p])] ELSE rootPortsc
      /\ rootMemory' = IF rootHc = "resetting" THEN "none" ELSE rootMemory
  BY DEF Root!Controller, Root!OfDriver, Root!OfWorld
<1>2. /\ rootHc = "halting" => rootHc' = "halted"
      /\ rootHc = "resetting" => rootHc' = "notready"
      /\ rootHc = "notready" => rootHc' = "halted"
      /\ rootHc = "starting" => rootHc' = "running"
      /\ rootHc \in {"halting", "resetting", "notready", "starting"}
  BY DEF Root!Controller
<1>3. RootPlaces'
  BY <1>1 DEF RootInv, RootPlaces
<1>4. RootSetUpInv'
  BY <1>1, <1>2 DEF RootInv, RootSetUpInv, RootAsking
<1>5. \A p \in Root!Ports : Root!AfterReset(rootPortsc[p]) \in Root!Portsc /\ RootSound(Root!AfterReset(rootPortsc[p]), rootPlugged[p])
  <2> SUFFICES ASSUME NEW p \in Root!Ports
               PROVE  Root!AfterReset(rootPortsc[p]) \in Root!Portsc /\ RootSound(Root!AfterReset(rootPortsc[p]), rootPlugged[p])
    OBVIOUS
  <2>1. rootPortsc[p] \in Root!Portsc
    BY DEF RootInv, RootTyped
  <2> QED BY <2>1, RootOffFacts DEF Root!AfterReset, RootSound, Root!Portsc
<1>6. RootTyped' /\ RootPortInv'
  BY <1>1, <1>5 DEF RootInv, RootTyped, RootPortInv
<1>7. RootTakenInv'
  BY <1>1, <1>2 DEF RootInv, RootTakenInv, RootSetUpInv, RootAsking
<1> QED BY <1>3, <1>4, <1>6, <1>7 DEF RootInv

(* Something happens at one port, while the driver does nothing.            *)
LEMMA RootPortEvent ==
    ASSUME Root!RootHubAssumption, RootInv, NEW p \in Root!Ports, NEW s \in Root!Portsc,
           rootPortsc' = [rootPortsc EXCEPT ![p] = s], rootPlugged' \in [Root!Ports -> Speeds \cup {"none"}],
           \A q \in Root!Ports : q # p => rootPlugged'[q] = rootPlugged[q],
           RootSound(s, rootPlugged'[p]), UNCHANGED <<Root!OfDriver, Root!OfSetUp>>, rootGone' \in BOOLEAN, rootGone => rootGone',
           ~rootGone' /\ p = rootPort /\ rootPc \in {"new_reset", "found"} /\ rootPortsc[p].pe =>
               s.pe /\ s.speed = rootPortsc[p].speed /\ (~rootPortsc[p].prc => ~s.prc)
    PROVE  RootInv'
<1>1. UNCHANGED <<rootPc, rootAt, rootPort, rootTries, rootReg, rootSpeed, rootLate, rootHc, rootMemory>>
  BY DEF Root!OfDriver, Root!OfSetUp
<1>2. \A q \in Root!Ports : rootPortsc'[q] = IF q = p THEN s ELSE rootPortsc[q]
  BY DEF RootInv, RootTyped
<1>3. rootPortsc' \in [Root!Ports -> Root!Portsc] /\ rootPort \in Root!Ports
  BY DEF RootInv, RootTyped
<1>4. RootTyped'
  BY <1>1, <1>3 DEF RootInv, RootTyped
<1>5. RootPlaces' /\ RootSetUpInv'
  BY <1>1 DEF RootInv, RootPlaces, RootSetUpInv
<1>6. RootPortInv'
  BY <1>2 DEF RootInv, RootPortInv
<1>7. RootTakenInv'
  <2> SUFFICES ASSUME rootPc \in {"new_reset", "found"}, ~rootGone', ~rootLate
               PROVE  /\ rootPortsc'[rootPort].pe /\ rootPortsc'[rootPort].speed = rootSpeed
                      /\ rootPc = "new_reset" /\ rootAt = "write" => rootReg.pp /\ ~rootReg.pe /\ ~rootReg.pr
                      /\ rootPc = "found" => ~rootPortsc'[rootPort].prc
    BY <1>1 DEF RootTakenInv
  <2>1. /\ rootPortsc[rootPort].pe /\ rootPortsc[rootPort].speed = rootSpeed
        /\ rootPc = "new_reset" /\ rootAt = "write" => rootReg.pp /\ ~rootReg.pe /\ ~rootReg.pr
        /\ rootPc = "found" => ~rootPortsc[rootPort].prc
    BY DEF RootInv, RootTakenInv, RootTyped
  <2>2. CASE p = rootPort
    BY <1>2, <1>3, <2>1, <2>2
  <2>3. CASE p # rootPort
    BY <1>2, <1>3, <2>1, <2>3
  <2> QED BY <2>2, <2>3
<1> QED BY <1>4, <1>5, <1>6, <1>7 DEF RootInv

LEMMA RootDetectStep ==
    ASSUME Root!RootHubAssumption, RootInv, NEW p \in Root!Ports, Root!Detect(p)
    PROVE  RootInv'
<1> DEFINE super == rootPlugged[p] = "super"
           s == [rootPortsc[p] EXCEPT !.ccs = TRUE, !.csc = TRUE, !.pe = super, !.speed = IF super THEN "super" ELSE "none"]
<1>1. rootPortsc[p] \in Root!Portsc /\ rootPortsc \in [Root!Ports -> Root!Portsc] /\ RootSound(rootPortsc[p], rootPlugged[p])
      /\ rootPlugged \in [Root!Ports -> Speeds \cup {"none"}] /\ rootGone \in BOOLEAN
  BY DEF RootInv, RootTyped, RootPortInv
<1>2. rootPortsc[p].pp /\ ~rootPortsc[p].ccs /\ rootPlugged[p] # "none"
      /\ UNCHANGED <<Root!OfDriver, Root!OfWorld, Root!OfSetUp, rootGone, rootPlugged>>
  BY DEF Root!Detect, Root!OfWorld
<1>3. rootPortsc' = [rootPortsc EXCEPT ![p] = s]
  <2>1. rootPortsc' = [rootPortsc EXCEPT ![p].ccs = TRUE, ![p].csc = TRUE, ![p].pe = super,
                                 ![p].speed = IF super THEN "super" ELSE "none"]
    BY DEF Root!Detect
  <2> QED BY <1>1, <2>1
<1>4. s \in Root!Portsc /\ RootSound(s, rootPlugged[p])
  BY <1>1, <1>2 DEF Root!Portsc, RootSound
<1>5. ~rootPortsc[p].pe
  BY <1>1, <1>2 DEF RootSound
<1> HIDE DEF s
<1> QED BY <1>1, <1>2, <1>3, <1>4, <1>5, RootPortEvent

LEMMA RootResetEndsStep ==
    ASSUME Root!RootHubAssumption, RootInv, NEW p \in Root!Ports, Root!ResetEnds(p)
    PROVE  RootInv'
<1>1. rootPortsc[p] \in Root!Portsc /\ rootPortsc \in [Root!Ports -> Root!Portsc] /\ RootSound(rootPortsc[p], rootPlugged[p])
      /\ rootPlugged \in [Root!Ports -> Speeds \cup {"none"}] /\ rootGone \in BOOLEAN
  BY DEF RootInv, RootTyped, RootPortInv
<1>2. rootPortsc[p].pr /\ UNCHANGED <<Root!OfDriver, Root!OfWorld, Root!OfSetUp, rootGone, rootPlugged>>
  BY DEF Root!ResetEnds, Root!OfWorld
<1>3. PICK ok \in BOOLEAN :
          rootPortsc' = [rootPortsc EXCEPT ![p].pr = FALSE, ![p].prc = TRUE, ![p].pe = ok,
                                   ![p].speed = IF ok THEN rootPlugged[p] ELSE @]
  BY DEF Root!ResetEnds
<1> DEFINE s == [rootPortsc[p] EXCEPT !.pr = FALSE, !.prc = TRUE, !.pe = ok, !.speed = IF ok THEN rootPlugged[p] ELSE @]
<1>4. rootPortsc' = [rootPortsc EXCEPT ![p] = s]
  BY <1>1, <1>3
<1>5. s \in Root!Portsc /\ RootSound(s, rootPlugged[p])
  BY <1>1, <1>2 DEF Root!Portsc, RootSound
<1>6. ~rootPortsc[p].pe
  BY <1>1, <1>2 DEF RootSound
<1> HIDE DEF s
<1> QED BY <1>1, <1>2, <1>4, <1>5, <1>6, RootPortEvent

LEMMA RootPlugStep ==
    ASSUME Root!RootHubAssumption, RootInv, NEW p \in Root!Ports, Root!Plug(p)
    PROVE  RootInv'
<1>1. rootPortsc[p] \in Root!Portsc /\ rootPortsc \in [Root!Ports -> Root!Portsc] /\ RootSound(rootPortsc[p], rootPlugged[p])
      /\ rootPlugged \in [Root!Ports -> Speeds \cup {"none"}] /\ rootGone \in BOOLEAN
  BY DEF RootInv, RootTyped, RootPortInv
<1>2. /\ UNCHANGED <<Root!OfDriver, Root!OfSetUp>>
      /\ rootGone' = (rootGone \/ (p = rootPort /\ rootPc \in {"new_reset", "found"}))
  BY DEF Root!Plug
<1>3. PICK d \in Speeds \cup {"none"} :
          /\ (rootPlugged[p] = "none") # (d = "none")
          /\ rootPlugged' = [rootPlugged EXCEPT ![p] = d]
  BY DEF Root!Plug
<1> DEFINE s == IF rootPortsc[p].ccs
                THEN [rootPortsc[p] EXCEPT !.ccs = FALSE, !.pe = FALSE, !.pr = FALSE, !.speed = "none", !.csc = TRUE]
                ELSE rootPortsc[p]
<1>4. rootPortsc' = [rootPortsc EXCEPT ![p] = s]
  BY DEF Root!Plug
<1>5. s \in Root!Portsc /\ ~s.ccs /\ ~s.pe /\ ~s.pr
  BY <1>1 DEF Root!Portsc, RootSound
<1> HIDE DEF s
<1>6. RootSound(s, rootPlugged'[p])
  BY <1>5 DEF RootSound
<1>7. rootPlugged' \in [Root!Ports -> Speeds \cup {"none"}] /\ \A q \in Root!Ports : q # p => rootPlugged'[q] = rootPlugged[q]
  BY <1>1, <1>3
<1> QED BY <1>1, <1>2, <1>4, <1>5, <1>6, <1>7, RootPortEvent

LEMMA RootInitInv ==
    ASSUME Root!RootHubAssumption, Root!Init
    PROVE  RootInv
<1>1. 1 \in Root!Ports
  BY DEF Root!RootHubAssumption, Root!Ports
<1>2. \A p \in Root!Ports : rootPortsc[p] = [Root!PortOff EXCEPT !.prc = rootPlugged[p] # "none"]
  BY DEF Root!Init
<1>3. \A p \in Root!Ports : rootPortsc[p] \in Root!Portsc /\ RootSound(rootPortsc[p], rootPlugged[p])
  <2> SUFFICES ASSUME NEW p \in Root!Ports
               PROVE  rootPortsc[p] \in Root!Portsc /\ RootSound(rootPortsc[p], rootPlugged[p])
    OBVIOUS
  <2> DEFINE b == rootPlugged[p] # "none"
             s == [Root!PortOff EXCEPT !.prc = b]
  <2>1. rootPortsc[p] = s
    BY <1>2
  <2>2. b \in BOOLEAN
    OBVIOUS
  <2> HIDE DEF b
  <2>3. Root!PortOff \in Root!Portsc /\ ~Root!PortOff.pe /\ ~Root!PortOff.pr /\ ~Root!PortOff.ccs
    BY RootOffFacts
  <2>4. s \in Root!Portsc
    BY <2>2, <2>3 DEF Root!Portsc
  <2>5. ~s.pe /\ ~s.pr /\ ~s.ccs
    BY <2>3 DEF Root!Portsc
  <2> HIDE DEF s
  <2>6. RootSound(s, rootPlugged[p])
    BY <2>4, <2>5 DEF RootSound
  <2> QED BY <2>1, <2>4, <2>6
<1>4. RootTyped
  BY <1>1, <1>3, RootOffFacts DEF Root!Init, RootTyped
<1> QED BY <1>3, <1>4 DEF Root!Init, RootInv, RootPlaces, RootBegun, RootSetUpInv, RootPortInv,
   RootTakenInv, RootAsking

LEMMA RootNextInv ==
    ASSUME Root!RootHubAssumption, RootInv, [Root!Next]_(Root!vars)
    PROVE  RootInv'
<1>1. CASE UNCHANGED Root!vars
  BY <1>1 DEF Root!vars, RootInv, RootTyped, RootPlaces, RootSetUpInv, RootPortInv, RootTakenInv
<1> QED BY <1>1, RootDriverStep, RootControllerStep, RootDetectStep, RootResetEndsStep,
   RootPlugStep DEF Root!Next

LEMMA RootReady ==
    ASSUME RootInv
    PROVE  Root!PortReady
<1>1. Root!SetUpKept
  BY DEF RootInv, RootSetUpInv, RootPlaces, RootBegun, RootAsking, Root!SetUpKept
<1>2. ASSUME rootPc = "found", ~rootGone, ~rootLate
      PROVE  LET s == rootPortsc[rootPort] IN
             s.ccs /\ s.pe /\ ~s.pr /\ ~s.prc /\ s.speed = rootSpeed /\ rootPlugged[rootPort] = rootSpeed
  BY <1>2 DEF RootInv, RootTyped, RootPortInv, RootSound, RootTakenInv
<1> QED BY <1>1, <1>2 DEF Root!PortReady

-----------------------------------------------------------------------------
(* BulkTd                                                                   *)
TdTyped ==
    /\ tdBuffer \in Nat /\ tdLength \in Nat /\ tdMaxpacketsize \in 1 .. Boundary
    /\ tdPc \in {"count", "queue", "done"} /\ tdNumTrbs \in Nat /\ tdRunningTotal \in Nat
    /\ tdTrbBuffLen \in 0 .. Boundary /\ tdAddr \in Nat

TdTrbType == [addr : Nat, length : Nat, chain : BOOLEAN, ioc : BOOLEAN, remainder : Int]
TdTrbsTyped == tdTrbs \in Seq(TdTrbType)

(* The pieces counted so far reach to running_total.                        *)
TdCountInv ==
    tdPc = "count" =>
        /\ tdTrbs = <<>> /\ tdAddr = tdBuffer /\ tdTrbBuffLen = Td!FirstPiece
        /\ tdRunningTotal + Td!FirstTrb * Boundary = (Td!FirstPiece % Boundary) + tdNumTrbs * Boundary
        /\ \/ tdRunningTotal = Td!FirstPiece % Boundary
           \/ tdRunningTotal - Boundary < tdLength /\ tdRunningTotal >= Boundary

(* As many pieces are left as the rest of the data needs, with the next one *)
(* as long as it is.                                                        *)
TdLeft == tdLength - tdRunningTotal
TdLeftInv ==
    tdPc = "queue" =>
        /\ tdTrbBuffLen <= TdLeft /\ tdNumTrbs >= 1
        /\ tdTrbBuffLen + (tdNumTrbs - 1) * Boundary >= TdLeft
        /\ tdNumTrbs > 1 => tdTrbBuffLen + (tdNumTrbs - 2) * Boundary < TdLeft

(* What is queued and what is next follow on from the buffer; pieces after  *)
(* the first begin at a boundary.                                           *)
TdPlaceInv ==
    tdPc \in {"queue", "done"} =>
        /\ tdRunningTotal <= tdLength /\ tdAddr = tdBuffer + tdRunningTotal
        /\ tdTrbs = <<>> => tdPc = "queue" /\ tdRunningTotal = 0 /\ tdTrbBuffLen = Td!Lesser(Td!FirstPiece, tdLength)
        /\ tdTrbs # <<>> => tdAddr = tdTrbs[Len(tdTrbs)].addr + tdTrbs[Len(tdTrbs)].length
        /\ tdTrbs # <<>> /\ tdPc = "queue" =>
              /\ tdTrbBuffLen = Td!Lesser(TdLeft, Boundary) /\ tdAddr % Boundary = 0
        /\ tdPc = "done" => tdRunningTotal = tdLength /\ tdNumTrbs = 0

TdTrbsInv == Td!Pieces /\ Td!OneTd

TdInv == TdTyped /\ TdTrbsTyped /\ TdCountInv /\ TdLeftInv /\ TdPlaceInv /\ TdTrbsInv
-----------------------------------------------------------------------------
LEMMA TdTdDivMod ==
    ASSUME NEW x \in Nat, NEW b \in Nat \ {0}
    PROVE  x \div b \in Nat /\ x % b \in 0 .. b - 1 /\ x = (x \div b) * b + (x % b)
OBVIOUS

LEMMA TdTdSmall ==
    ASSUME NEW b \in Nat \ {0}, NEW e \in Int, e * b < b, e * b > -b
    PROVE  e = 0
OBVIOUS

LEMMA TdTdUnique ==
    ASSUME NEW b \in Nat \ {0}, NEW q \in Nat, NEW r \in 0 .. b - 1
    PROVE  (q * b + r) \div b = q /\ (q * b + r) % b = r
<1> DEFINE x == q * b + r
           d == x \div b
           m == x % b
<1>1. x \in Nat
  OBVIOUS
<1>2. d \in Nat /\ m \in 0 .. b - 1 /\ x = d * b + m
  BY <1>1, TdTdDivMod
<1> HIDE DEF d, m
<1>3. (q - d) * b = m - r
  BY <1>2
<1>4. q - d = 0
  BY <1>2, <1>3, TdTdSmall
<1> QED BY <1>2, <1>4 DEF d, m

LEMMA TdTimes ==
    ASSUME NEW b \in Nat, NEW k \in Nat
    PROVE  /\ k * b \in Nat /\ (k + 1) * b = k * b + b
           /\ k >= 1 => (k - 1) * b = k * b - b /\ k * b >= b
           /\ k >= 2 => (k - 2) * b = k * b - 2 * b
           /\ k >= 3 => (k - 3) * b = k * b - 3 * b
OBVIOUS

(* After the first piece one is at a boundary.                              *)
LEMMA TdToBoundary ==
    ASSUME NEW b \in Nat \ {0}, NEW x \in Nat
    PROVE  (x + (b - (x % b))) % b = 0
<1> DEFINE q == x \div b
           r == x % b
<1>1. q \in Nat /\ r \in 0 .. b - 1 /\ x = q * b + r
  BY TdTdDivMod
<1> HIDE DEF q, r
<1>2. x + (b - r) = (q + 1) * b + 0
  BY <1>1, TdTimes
<1>3. ((q + 1) * b + 0) % b = 0
  BY <1>1, TdTdUnique
<1> QED BY <1>2, <1>3 DEF r

LEMMA TdNextBoundary ==
    ASSUME NEW b \in Nat \ {0}, NEW x \in Nat, x % b = 0
    PROVE  (x + b) % b = 0
<1>1. x + (b - (x % b)) = x + b
  OBVIOUS
<1> QED BY <1>1, TdToBoundary

LEMMA TdLeast ==
    ASSUME NEW a \in Int, NEW b \in Int
    PROVE  /\ Td!Lesser(a, b) \in {a, b} /\ Td!Lesser(a, b) <= a /\ Td!Lesser(a, b) <= b
           /\ a <= b => Td!Lesser(a, b) = a
           /\ b <= a => Td!Lesser(a, b) = b
BY DEF Td!Lesser

LEMMA TdFirstFacts ==
    ASSUME Td!BulkTdAssumption, tdBuffer \in Nat
    PROVE  /\ Boundary \in Nat \ {0} /\ Td!FirstPiece \in 1 .. Boundary
           /\ (tdBuffer % Boundary) + Td!FirstPiece = Boundary /\ Td!FirstPiece % Boundary \in Nat
           /\ Td!FirstPiece # Boundary => Td!FirstPiece % Boundary = Td!FirstPiece
           /\ Td!FirstPiece = Boundary => Td!FirstPiece % Boundary = 0
           /\ (tdBuffer + Td!FirstPiece) % Boundary = 0
<1>1. Boundary \in Nat \ {0}
  BY DEF Td!BulkTdAssumption
<1>2. tdBuffer % Boundary \in 0 .. Boundary - 1
  BY <1>1, TdTdDivMod
<1>3. Td!FirstPiece \in 1 .. Boundary /\ (tdBuffer % Boundary) + Td!FirstPiece = Boundary
  BY <1>1, <1>2 DEF Td!FirstPiece
<1>4. ASSUME Td!FirstPiece # Boundary PROVE Td!FirstPiece % Boundary = Td!FirstPiece
  <2>1. Td!FirstPiece \in 0 .. Boundary - 1
    BY <1>1, <1>3, <1>4
  <2>2. (0 * Boundary + Td!FirstPiece) % Boundary = Td!FirstPiece
    BY <1>1, <2>1, TdTdUnique
  <2> QED BY <1>1, <1>3, <2>2
<1>5. ASSUME Td!FirstPiece = Boundary PROVE Td!FirstPiece % Boundary = 0
  <2>1. (1 * Boundary + 0) % Boundary = 0
    BY <1>1, TdTdUnique
  <2> QED BY <1>1, <1>5, <2>1
<1>6. (tdBuffer + Td!FirstPiece) % Boundary = 0
  BY <1>1, TdToBoundary DEF Td!FirstPiece
<1>7. Td!FirstPiece % Boundary \in Nat
  BY <1>1, <1>3, <1>4, <1>5
<1> QED BY <1>1, <1>3, <1>4, <1>5, <1>6, <1>7

(* The packets that end behind a place are the last ones.                   *)
LEMMA TdBehind ==
    ASSUME NEW l \in Nat, NEW p \in Nat \ {0}, NEW e \in Nat, e < l
    PROVE  LET t == (l + p - 1) \div p
               m == t - (e \div p)
           IN  t \in Nat /\ m \in 0 .. t /\ {k \in 1 .. t : k * p > e} = t - m + 1 .. t
<1> DEFINE t == (l + p - 1) \div p
           u == (l + p - 1) % p
           d == e \div p
           v == e % p
<1>0. l + p - 1 \in Nat
  OBVIOUS
<1>1. t \in Nat /\ u \in 0 .. p - 1 /\ l + p - 1 = t * p + u
  BY <1>0, TdTdDivMod
<1>2. d \in Nat /\ v \in 0 .. p - 1 /\ e = d * p + v
  BY TdTdDivMod
<1> HIDE DEF t, u, d, v
<1>3. d * p < t * p
  <2>1. t * p \in Nat /\ d * p \in Nat
    BY <1>1, <1>2
  <2> QED BY <1>1, <1>2, <2>1
<1>4. d < t
  BY <1>1, <1>2, <1>3
<1>5. \A k \in Nat : k * p > e <=> k > d
  <2> SUFFICES ASSUME NEW k \in Nat PROVE k * p > e <=> k > d
    OBVIOUS
  <2>1. ASSUME k <= d PROVE k * p <= d * p
    BY <2>1, <1>2
  <2>2. ASSUME k > d PROVE k * p >= d * p + p
    <3>1. k >= d + 1
      BY <2>2, <1>2
    <3>2. k * p >= (d + 1) * p
      BY <3>1, <1>2
    <3> QED BY <3>2, <1>2, TdTimes
  <2>3. k * p \in Nat /\ d * p \in Nat
    BY <1>2
  <2> QED BY <1>2, <2>1, <2>2, <2>3
<1>6. {k \in 1 .. t : k * p > e} = d + 1 .. t
  BY <1>1, <1>2, <1>5
<1>7. t - (t - d) + 1 = d + 1
  BY <1>1, <1>2
<1> QED BY <1>1, <1>2, <1>4, <1>6, <1>7 DEF t, d

-----------------------------------------------------------------------------
LEMMA TdInitInv ==
    ASSUME Td!BulkTdAssumption, Td!Init
    PROVE  TdInv
<1>1. tdBuffer \in Nat /\ tdLength \in Nat /\ tdMaxpacketsize \in 1 .. Boundary
  BY DEF Td!BulkTdAssumption, Td!Init
<1>2. Boundary \in Nat \ {0} /\ Td!FirstPiece \in 1 .. Boundary /\ Td!FirstPiece % Boundary \in Nat
  BY <1>1, TdFirstFacts
<1>3. TdTyped
  BY <1>1, <1>2 DEF Td!Init, TdTyped, Td!FirstTrb
<1>4. TdTrbsTyped
  BY DEF Td!Init, TdTrbsTyped
<1>5. TdCountInv
  <2>1. Td!FirstTrb \in 0 .. 1
    BY DEF Td!FirstTrb
  <2>2. Td!FirstTrb * Boundary \in Nat
    BY <1>2, <2>1
  <2> QED BY <1>2, <2>2 DEF Td!Init, TdCountInv
<1>6. TdLeftInv /\ TdPlaceInv
  BY DEF Td!Init, TdLeftInv, TdPlaceInv
<1>7. TdTrbsInv
  BY DEF Td!Init, TdTrbsInv, Td!Pieces, Td!OneTd
<1> QED BY <1>3, <1>4, <1>5, <1>6, <1>7 DEF TdInv

LEMMA TdCountStep ==
    ASSUME Td!BulkTdAssumption, TdInv, Td!Count
    PROVE  TdInv'
<1>1. tdBuffer \in Nat /\ tdLength \in Nat /\ tdNumTrbs \in Nat /\ tdRunningTotal \in Nat
  BY DEF TdInv, TdTyped
<1>2. Boundary \in Nat \ {0} /\ Td!FirstPiece \in 1 .. Boundary /\ Td!FirstPiece % Boundary \in Nat
  BY <1>1, TdFirstFacts
<1>3. UNCHANGED <<tdBuffer, tdLength, tdMaxpacketsize, tdPc, tdTrbBuffLen, tdAddr, tdTrbs>> /\ tdPc = "count"
  BY DEF Td!Count, Td!Fixed
<1>4. tdNumTrbs' = tdNumTrbs + 1 /\ tdRunningTotal' = tdRunningTotal + Boundary /\ tdRunningTotal < tdLength
  BY DEF Td!Count
<1>5. TdTyped'
  BY <1>1, <1>2, <1>3, <1>4 DEF TdInv, TdTyped
<1>6. TdTrbsTyped'
  BY <1>3 DEF TdInv, TdTrbsTyped
<1>7. Td!FirstPiece' = Td!FirstPiece /\ Td!FirstTrb' = Td!FirstTrb /\ Td!FirstTrb \in 0 .. 1
  BY <1>3 DEF Td!FirstPiece, Td!FirstTrb
<1>8. TdCountInv'
  <2>1. (tdNumTrbs + 1) * Boundary = tdNumTrbs * Boundary + Boundary /\ tdNumTrbs * Boundary \in Nat
    BY <1>1, <1>2, TdTimes
  <2>2. Td!FirstTrb * Boundary \in Nat
    BY <1>2, <1>7
  <2>3. tdRunningTotal + Td!FirstTrb * Boundary = (Td!FirstPiece % Boundary) + tdNumTrbs * Boundary
    BY <1>3 DEF TdInv, TdCountInv
  <2>4. (tdRunningTotal + Td!FirstTrb * Boundary = (Td!FirstPiece % Boundary) + tdNumTrbs * Boundary)'
    BY <1>1, <1>2, <1>3, <1>4, <1>7, <2>1, <2>2, <2>3
  <2> QED BY <1>1, <1>2, <1>3, <1>4, <1>7, <2>4 DEF TdInv, TdCountInv
<1>9. TdLeftInv' /\ TdPlaceInv'
  BY <1>3 DEF TdLeftInv, TdPlaceInv
<1>10. TdTrbsInv'
  BY <1>3 DEF TdInv, TdCountInv, TdTrbsInv, Td!Pieces, Td!OneTd
<1> QED BY <1>5, <1>6, <1>8, <1>9, <1>10 DEF TdInv

LEMMA TdCountedStep ==
    ASSUME Td!BulkTdAssumption, TdInv, Td!Counted
    PROVE  TdInv'
<1>1. tdBuffer \in Nat /\ tdLength \in Nat /\ tdNumTrbs \in Nat /\ tdRunningTotal \in Nat /\ tdAddr \in Nat
      /\ tdMaxpacketsize \in 1 .. Boundary
  BY DEF TdInv, TdTyped
<1>2. Boundary \in Nat \ {0} /\ Td!FirstPiece \in 1 .. Boundary
      /\ (Td!FirstPiece # Boundary => Td!FirstPiece % Boundary = Td!FirstPiece)
      /\ (Td!FirstPiece = Boundary => Td!FirstPiece % Boundary = 0)
  BY <1>1, TdFirstFacts
<1>3. UNCHANGED <<tdBuffer, tdLength, tdMaxpacketsize, tdNumTrbs, tdAddr, tdTrbs>> /\ tdPc = "count" /\ tdPc' = "queue"
  BY DEF Td!Counted, Td!Fixed
<1>4. tdRunningTotal >= tdLength /\ tdRunningTotal' = 0
  BY DEF Td!Counted
<1>5. /\ tdTrbs = <<>> /\ tdAddr = tdBuffer /\ tdTrbBuffLen = Td!FirstPiece
      /\ \/ tdRunningTotal = Td!FirstPiece % Boundary
         \/ tdRunningTotal - Boundary < tdLength /\ tdRunningTotal >= Boundary
  BY <1>3 DEF TdInv, TdCountInv
<1>6. tdRunningTotal + Td!FirstTrb * Boundary = (Td!FirstPiece % Boundary) + tdNumTrbs * Boundary
  BY <1>3 DEF TdInv, TdCountInv
<1>7. tdTrbBuffLen' = Td!Lesser(Td!FirstPiece, tdLength)
  BY <1>5 DEF Td!Counted
<1>8. /\ tdTrbBuffLen' \in 0 .. Boundary /\ tdTrbBuffLen' <= tdLength /\ tdTrbBuffLen' <= Td!FirstPiece
      /\ tdTrbBuffLen' = tdLength \/ tdTrbBuffLen' = Td!FirstPiece
  BY <1>1, <1>2, <1>7 DEF Td!Lesser
<1>9. TdTyped'
  BY <1>1, <1>3, <1>4, <1>8 DEF TdTyped
<1>10. TdTrbsTyped'
  BY <1>3 DEF TdInv, TdTrbsTyped
<1>11. TdCountInv'
  BY <1>3 DEF TdCountInv
<1>12. TdLeftInv'
  <2> DEFINE nb == tdNumTrbs * Boundary
             one == (tdNumTrbs - 1) * Boundary
             two == (tdNumTrbs - 2) * Boundary
             w == tdTrbBuffLen'
  <2>1. /\ nb \in Nat
        /\ tdNumTrbs >= 1 => one = nb - Boundary /\ nb >= Boundary
        /\ tdNumTrbs >= 2 => two = nb - 2 * Boundary /\ two \in Nat
        /\ tdNumTrbs = 0 => nb = 0
        /\ tdNumTrbs = 1 => nb = Boundary
    BY <1>1, <1>2, TdTimes
  <2>2. \/ Td!FirstTrb = 1 /\ Td!FirstTrb * Boundary = Boundary
        \/ Td!FirstTrb = 0 /\ Td!FirstTrb * Boundary = 0
    BY <1>2 DEF Td!FirstTrb
  <2>3. tdRunningTotal + Td!FirstTrb * Boundary = (Td!FirstPiece % Boundary) + nb
    BY <1>6
  <2>4. Td!FirstTrb = 1 => Td!FirstPiece # Boundary \/ tdLength = 0
    BY <1>2 DEF Td!FirstTrb
  <2>5. Td!FirstTrb = 0 => Td!FirstPiece = Boundary /\ tdLength # 0
    BY <1>2 DEF Td!FirstTrb
  <2>0. /\ w \in 0 .. Boundary /\ w <= tdLength /\ w <= Td!FirstPiece
        /\ w = tdLength \/ w = Td!FirstPiece
    BY <1>8
  <2> HIDE DEF nb, one, two, w
  <2>6. CASE Td!FirstTrb = 1 /\ Td!FirstPiece # Boundary
    <3>1. tdRunningTotal + Boundary = Td!FirstPiece + nb
      BY <2>6, <2>2, <2>3, <1>2
    <3>2. tdNumTrbs >= 1
      BY <3>1, <2>1, <2>6, <1>1, <1>2
    <3>3. tdRunningTotal = Td!FirstPiece => tdNumTrbs = 1
      BY <3>1, <3>2, <2>1, <1>1, <1>2
    <3>4. /\ w + one >= tdLength
          /\ tdNumTrbs > 1 => w + two < tdLength
      BY <3>1, <3>2, <3>3, <2>0, <2>1, <1>1, <1>2, <1>4, <1>5, <2>6
    <3> QED BY <1>1, <1>3, <1>4, <1>8, <3>2, <3>4 DEF TdLeftInv, TdLeft, one, two, w
  <2>7. CASE Td!FirstTrb = 1 /\ Td!FirstPiece = Boundary
    <3>1. tdRunningTotal + Boundary = nb /\ tdLength = 0
      BY <2>7, <2>2, <2>3, <2>4, <1>1, <1>2, <2>1
    <3>2. tdRunningTotal = 0
      BY <3>1, <1>1, <1>2, <1>5, <2>7
    <3>3. tdNumTrbs = 1
      BY <3>1, <3>2, <2>1, <1>1, <1>2
    <3>4. w + one >= tdLength
      BY <3>1, <3>3, <2>0, <2>1, <1>2
    <3> QED BY <1>1, <1>3, <1>4, <1>8, <3>3, <3>4 DEF TdLeftInv, TdLeft, one, two, w
  <2>8. CASE Td!FirstTrb = 0
    <3>1. tdRunningTotal = nb /\ Td!FirstPiece = Boundary /\ tdLength # 0
      BY <2>8, <2>2, <2>3, <2>5, <1>1, <1>2, <2>1
    <3>2. tdNumTrbs >= 1
      BY <3>1, <2>1, <1>1, <1>4
    <3>3. /\ w + one >= tdLength
          /\ tdNumTrbs > 1 => w + two < tdLength
      BY <3>1, <3>2, <2>0, <2>1, <1>1, <1>2, <1>4, <1>5
    <3> QED BY <1>1, <1>3, <1>4, <1>8, <3>2, <3>3 DEF TdLeftInv, TdLeft, one, two, w
  <2> QED BY <2>2, <2>6, <2>7, <2>8
<1>13. TdPlaceInv'
  <2>1. Td!FirstPiece' = Td!FirstPiece
    BY <1>3 DEF Td!FirstPiece
  <2> QED BY <1>1, <1>3, <1>4, <1>5, <1>7, <2>1 DEF TdPlaceInv
<1>14. TdTrbsInv'
  BY <1>3, <1>5 DEF TdTrbsInv, Td!Pieces, Td!OneTd
<1> QED BY <1>9, <1>10, <1>11, <1>12, <1>13, <1>14 DEF TdInv

(* What a step of the loop does.                                            *)
LEMMA TdQueueEffect ==
    ASSUME Td!BulkTdAssumption, TdInv, Td!Queue
    PROVE  /\ UNCHANGED <<tdBuffer, tdLength, tdMaxpacketsize>> /\ tdPc = "queue"
           /\ tdBuffer \in Nat /\ tdLength \in Nat /\ tdMaxpacketsize \in Nat \ {0} /\ Boundary \in Nat \ {0}
           /\ tdNumTrbs \in Nat \ {0} /\ tdRunningTotal \in Nat /\ tdRunningTotal <= tdLength
           /\ tdTrbBuffLen \in 0 .. Boundary /\ tdTrbBuffLen <= tdLength - tdRunningTotal
           /\ tdAddr = tdBuffer + tdRunningTotal
           /\ tdTrbs' = Append(tdTrbs, Td!Trb) /\ Td!Trb.addr = tdAddr /\ Td!Trb.length = tdTrbBuffLen
           /\ Td!Trb.chain = (tdNumTrbs > 1) /\ Td!Trb.ioc = (tdNumTrbs <= 1)
           /\ Td!Trb.remainder = IF Old THEN Td!OldRemainder ELSE Td!Remainder
           /\ tdNumTrbs' = tdNumTrbs - 1
           /\ tdRunningTotal' = tdRunningTotal + tdTrbBuffLen /\ tdRunningTotal' \in Nat
           /\ tdRunningTotal' <= tdLength
           /\ tdAddr' = tdAddr + tdTrbBuffLen
           /\ tdTrbBuffLen' = Td!Lesser(tdLength - tdRunningTotal', Boundary)
           /\ tdTrbBuffLen' \in 0 .. Boundary
           /\ tdPc' = IF tdRunningTotal' < tdLength THEN "queue" ELSE "done"
<1>1. tdPc = "queue" /\ Boundary \in Nat \ {0}
  BY DEF Td!Queue, Td!BulkTdAssumption
<1>2. /\ tdBuffer \in Nat /\ tdLength \in Nat /\ tdMaxpacketsize \in Nat \ {0}
      /\ tdNumTrbs \in Nat /\ tdRunningTotal \in Nat /\ tdTrbBuffLen \in 0 .. Boundary
  BY <1>1 DEF TdInv, TdTyped
<1>3. /\ tdTrbBuffLen <= tdLength - tdRunningTotal /\ tdNumTrbs >= 1
      /\ tdRunningTotal <= tdLength /\ tdAddr = tdBuffer + tdRunningTotal
  BY <1>1 DEF TdInv, TdLeftInv, TdLeft, TdPlaceInv
<1>4. (0 * (2 * Boundary) + tdTrbBuffLen) % (2 * Boundary) = tdTrbBuffLen
  <2>1. 2 * Boundary \in Nat \ {0} /\ tdTrbBuffLen \in 0 .. 2 * Boundary - 1
    BY <1>1, <1>2
  <2> QED BY <2>1, TdTdUnique
<1>5. tdTrbBuffLen % (2 * Boundary) = tdTrbBuffLen
  <2>1. 0 * (2 * Boundary) + tdTrbBuffLen = tdTrbBuffLen
    BY <1>1, <1>2
  <2> QED BY <1>4, <2>1
<1>6. /\ Td!Trb.addr = tdAddr /\ Td!Trb.length = tdTrbBuffLen
      /\ Td!Trb.chain = (tdNumTrbs > 1) /\ Td!Trb.ioc = (tdNumTrbs <= 1)
      /\ Td!Trb.remainder = IF Old THEN Td!OldRemainder ELSE Td!Remainder
  BY <1>5 DEF Td!Trb
<1>7. tdRunningTotal' = tdRunningTotal + tdTrbBuffLen
  BY DEF Td!Queue
<1>8. tdRunningTotal' \in Nat /\ tdRunningTotal' <= tdLength
  BY <1>2, <1>3, <1>7
<1>9. tdTrbBuffLen' = Td!Lesser(tdLength - tdRunningTotal', Boundary)
  BY DEF Td!Queue
<1>10. tdTrbBuffLen' \in 0 .. Boundary
  <2> DEFINE d == tdLength - (tdRunningTotal + tdTrbBuffLen)
  <2>1. d \in Nat
    BY <1>1, <1>2, <1>3
  <2> HIDE DEF d
  <2>2. Td!Lesser(d, Boundary) \in 0 .. Boundary
    BY <1>1, <2>1 DEF Td!Lesser
  <2> QED BY <1>7, <1>9, <2>2 DEF d
<1>11. /\ UNCHANGED <<tdBuffer, tdLength, tdMaxpacketsize>>
       /\ tdTrbs' = Append(tdTrbs, Td!Trb) /\ tdNumTrbs' = tdNumTrbs - 1 /\ tdAddr' = tdAddr + tdTrbBuffLen
       /\ tdPc' = IF tdRunningTotal' < tdLength THEN "queue" ELSE "done"
  BY DEF Td!Queue, Td!Fixed
<1> QED BY <1>1, <1>2, <1>3, <1>6, <1>7, <1>8, <1>9, <1>10, <1>11

(* The TRB that is queued is the last one exactly if the data end with it.  *)
LEMMA TdLastOne ==
    ASSUME Td!BulkTdAssumption, TdInv, Td!Queue
    PROVE  /\ tdNumTrbs <= 1 <=> tdRunningTotal + tdTrbBuffLen = tdLength
           /\ tdNumTrbs > 1 => tdTrbBuffLen > 0
           /\ tdRunningTotal + tdTrbBuffLen < tdLength =>
                  (tdAddr + tdTrbBuffLen) % Boundary = 0
<1>1. /\ tdPc = "queue" /\ tdLength \in Nat /\ Boundary \in Nat \ {0} /\ tdNumTrbs \in Nat \ {0}
      /\ tdRunningTotal \in Nat /\ tdTrbBuffLen \in 0 .. Boundary /\ tdBuffer \in Nat
      /\ tdTrbBuffLen <= tdLength - tdRunningTotal /\ tdAddr = tdBuffer + tdRunningTotal
  BY TdQueueEffect
<1> DEFINE one == (tdNumTrbs - 1) * Boundary
           two == (tdNumTrbs - 2) * Boundary
<1>2. /\ tdNumTrbs = 1 => one = 0
      /\ tdNumTrbs > 1 => two \in Nat
  BY <1>1
<1>3. /\ tdTrbBuffLen + one >= tdLength - tdRunningTotal
      /\ tdNumTrbs > 1 => tdTrbBuffLen + two < tdLength - tdRunningTotal
  BY <1>1 DEF TdInv, TdLeftInv, TdLeft
<1> HIDE DEF one, two
<1>4. tdNumTrbs <= 1 <=> tdRunningTotal + tdTrbBuffLen = tdLength
  BY <1>1, <1>2, <1>3
<1>5. Td!FirstPiece \in 1 .. Boundary /\ (tdBuffer + Td!FirstPiece) % Boundary = 0
  BY <1>1, TdFirstFacts
<1>6. CASE tdTrbs = <<>>
  <2>1. tdTrbBuffLen = Td!Lesser(Td!FirstPiece, tdLength) /\ tdRunningTotal = 0
    BY <1>1, <1>6 DEF TdInv, TdPlaceInv
  <2>2. tdRunningTotal + tdTrbBuffLen < tdLength => tdTrbBuffLen = Td!FirstPiece
    BY <1>1, <1>5, <2>1 DEF Td!Lesser
  <2> QED BY <1>1, <1>4, <1>5, <2>1, <2>2
<1>7. CASE tdTrbs # <<>>
  <2>1. tdTrbBuffLen = Td!Lesser(tdLength - tdRunningTotal, Boundary) /\ tdAddr % Boundary = 0
    BY <1>1, <1>7 DEF TdInv, TdPlaceInv, TdLeft
  <2>2. tdRunningTotal + tdTrbBuffLen < tdLength => tdTrbBuffLen = Boundary
    BY <1>1, <2>1 DEF Td!Lesser
  <2>3. tdAddr \in Nat
    BY <1>1
  <2>4. (tdAddr + Boundary) % Boundary = 0
    BY <1>1, <2>1, <2>3, TdNextBoundary
  <2> QED BY <1>1, <1>4, <2>2, <2>4
<1> QED BY <1>6, <1>7

LEMMA TdQueueLeft ==
    ASSUME Td!BulkTdAssumption, TdInv, Td!Queue
    PROVE  TdLeftInv' /\ (tdPc' = "done" => tdRunningTotal' = tdLength /\ tdNumTrbs' = 0)
<1>1. /\ tdPc = "queue" /\ tdLength \in Nat /\ Boundary \in Nat \ {0} /\ tdNumTrbs \in Nat \ {0}
      /\ tdRunningTotal \in Nat /\ tdTrbBuffLen \in 0 .. Boundary
      /\ tdTrbBuffLen <= tdLength - tdRunningTotal
      /\ tdNumTrbs' = tdNumTrbs - 1 /\ tdRunningTotal' = tdRunningTotal + tdTrbBuffLen
      /\ tdTrbBuffLen' = Td!Lesser(tdLength - tdRunningTotal', Boundary) /\ tdLength' = tdLength
      /\ tdRunningTotal' <= tdLength
      /\ tdPc' = IF tdRunningTotal' < tdLength THEN "queue" ELSE "done"
  BY TdQueueEffect
<1>2. tdNumTrbs <= 1 <=> tdRunningTotal + tdTrbBuffLen = tdLength
  BY TdLastOne
<1> DEFINE nb == tdNumTrbs * Boundary
           one == (tdNumTrbs - 1) * Boundary
           two == (tdNumTrbs - 2) * Boundary
           three == (tdNumTrbs - 3) * Boundary
<1>3. /\ tdNumTrbs >= 2 => one = nb - Boundary /\ two = nb - 2 * Boundary
      /\ tdNumTrbs >= 3 => three = nb - 3 * Boundary
      /\ nb \in Nat
  BY <1>1, TdTimes
<1>4. /\ tdTrbBuffLen + one >= tdLength - tdRunningTotal
      /\ tdNumTrbs > 1 => tdTrbBuffLen + two < tdLength - tdRunningTotal
  BY <1>1 DEF TdInv, TdLeftInv, TdLeft
<1>5. (tdNumTrbs' - 1) * Boundary = two /\ (tdNumTrbs' - 2) * Boundary = three
  <2>1. tdNumTrbs' - 1 = tdNumTrbs - 2 /\ tdNumTrbs' - 2 = tdNumTrbs - 3
    BY <1>1
  <2> QED BY <2>1
<1> HIDE DEF nb, one, two, three
<1>6. tdPc' = "done" => tdRunningTotal' = tdLength /\ tdNumTrbs' = 0
  <2>1. tdPc' = "done" => ~(tdRunningTotal' < tdLength)
    BY <1>1
  <2> QED BY <1>1, <1>2, <2>1
<1>7. ASSUME tdPc' = "queue"
      PROVE  /\ tdTrbBuffLen' <= tdLength' - tdRunningTotal' /\ tdNumTrbs' >= 1
             /\ tdTrbBuffLen' + two >= tdLength' - tdRunningTotal'
             /\ tdNumTrbs' > 1 => tdTrbBuffLen' + three < tdLength' - tdRunningTotal'
  <2> DEFINE r == tdRunningTotal + tdTrbBuffLen
             w == Td!Lesser(tdLength - r, Boundary)
  <2>1. r < tdLength /\ r \in Nat /\ tdNumTrbs >= 2
    <3>1. tdRunningTotal' < tdLength
      BY <1>1, <1>7
    <3>2. r < tdLength
      BY <1>1, <3>1
    <3>3. r # tdLength /\ r \in Nat
      BY <1>1, <3>2
    <3> QED BY <1>1, <1>2, <3>2, <3>3
  <2>2. one >= tdLength - r /\ two < tdLength - r
    <3>0. tdLength \in Nat /\ tdRunningTotal \in Nat /\ tdTrbBuffLen \in Nat /\ tdNumTrbs \in Nat
      BY <1>1
    <3>1. tdLength - r = (tdLength - tdRunningTotal) - tdTrbBuffLen
      BY <3>0
    <3>2. tdTrbBuffLen + one >= tdLength - tdRunningTotal /\ tdTrbBuffLen + two < tdLength - tdRunningTotal
      BY <1>4, <2>1, <3>0
    <3>3. one \in Nat /\ two \in Nat
      BY <1>1, <2>1 DEF one, two
    <3> HIDE DEF r
    <3> QED BY <3>0, <3>1, <3>2, <3>3, <2>1
  <2>3. w \in {tdLength - r, Boundary} /\ w <= tdLength - r /\ w <= Boundary
    BY <1>1, <2>1 DEF Td!Lesser
  <2> HIDE DEF r
  <2>4. w + two >= tdLength - r
    <3>1. two \in Nat
      BY <1>1, <2>1 DEF two
    <3> QED BY <1>1, <1>3, <2>1, <2>2, <2>3, <3>1
  <2>5. tdNumTrbs >= 3 => w + three < tdLength - r
    BY <1>1, <1>3, <2>1, <2>2, <2>3
  <2>6. tdRunningTotal' = r /\ tdTrbBuffLen' = w
    BY <1>1 DEF r
  <2> HIDE DEF w
  <2>7. tdNumTrbs' >= 1 /\ (tdNumTrbs' > 1 => tdNumTrbs >= 3)
    BY <1>1, <2>1
  <2> QED BY <1>1, <2>3, <2>4, <2>5, <2>6, <2>7
<1> QED BY <1>5, <1>6, <1>7 DEF TdLeftInv, TdLeft

LEMMA TdQueuePlace ==
    ASSUME Td!BulkTdAssumption, TdInv, Td!Queue
    PROVE  TdPlaceInv'
<1>1. /\ tdAddr = tdBuffer + tdRunningTotal /\ tdTrbs' = Append(tdTrbs, Td!Trb) /\ tdBuffer \in Nat
      /\ tdRunningTotal \in Nat /\ tdTrbBuffLen \in 0 .. Boundary /\ Boundary \in Nat \ {0}
      /\ Td!Trb.addr = tdAddr /\ Td!Trb.length = tdTrbBuffLen /\ tdLength' = tdLength /\ tdBuffer' = tdBuffer
      /\ tdRunningTotal' = tdRunningTotal + tdTrbBuffLen /\ tdRunningTotal' <= tdLength
      /\ tdAddr' = tdAddr + tdTrbBuffLen /\ tdTrbBuffLen' = Td!Lesser(tdLength - tdRunningTotal', Boundary)
      /\ tdPc' = IF tdRunningTotal' < tdLength THEN "queue" ELSE "done"
  BY TdQueueEffect
<1>2. tdTrbs \in Seq(TdTrbType)
  BY DEF TdInv, TdTrbsTyped
<1>3. tdTrbs' # <<>> /\ Len(tdTrbs') = Len(tdTrbs) + 1 /\ tdTrbs'[Len(tdTrbs')] = Td!Trb
  <2>1. tdTrbs' = Append(tdTrbs, Td!Trb)
    BY <1>1
  <2> QED
    BY <1>2, <2>1
<1>4. tdAddr' = tdBuffer' + tdRunningTotal'
  BY <1>1
<1>5. tdPc' = "queue" => tdAddr' % Boundary = 0
  BY <1>1, TdLastOne
<1>6. tdPc' = "done" => tdRunningTotal' = tdLength /\ tdNumTrbs' = 0
  BY TdQueueLeft
<1> QED BY <1>1, <1>3, <1>4, <1>5, <1>6 DEF TdPlaceInv, TdLeft

(* What a TRB with data behind it tells of the packets there.               *)
LEMMA TdQueueTells ==
    ASSUME Td!BulkTdAssumption, TdInv, Td!Queue, ~Old
    PROVE  LET e == tdRunningTotal + tdTrbBuffLen IN
           /\ e = tdLength => Td!Trb.remainder = 0
           /\ e # tdLength => \E m \in 0 .. Td!TotalPackets :
                  /\ Td!Trb.remainder = Td!Lesser(m, MaxTdSize)
                  /\ {k \in 1 .. Td!TotalPackets : k * tdMaxpacketsize > e} = Td!TotalPackets - m + 1 .. Td!TotalPackets
<1> DEFINE e == tdRunningTotal + tdTrbBuffLen
           m == Td!TotalPackets - (e \div tdMaxpacketsize)
<1>1. /\ tdLength \in Nat /\ tdMaxpacketsize \in Nat \ {0} /\ tdNumTrbs \in Nat \ {0}
      /\ e \in Nat /\ e <= tdLength /\ Td!Trb.remainder = Td!Remainder
      /\ tdTrbBuffLen \in Nat /\ tdRunningTotal \in Nat
  BY TdQueueEffect
<1>2. tdNumTrbs <= 1 <=> e = tdLength
  BY TdLastOne
<1>3. ASSUME e = tdLength PROVE Td!Trb.remainder = 0
  <2>1. tdNumTrbs - 1 = 0
    BY <1>1, <1>2, <1>3
  <2> QED BY <1>1, <2>1 DEF Td!Remainder
<1>4. ASSUME e # tdLength
      PROVE  /\ m \in 0 .. Td!TotalPackets /\ Td!Trb.remainder = Td!Lesser(m, MaxTdSize)
             /\ {k \in 1 .. Td!TotalPackets : k * tdMaxpacketsize > e} = Td!TotalPackets - m + 1 .. Td!TotalPackets
  <2>1. tdNumTrbs > 1 /\ tdTrbBuffLen > 0
    BY <1>1, <1>2, <1>4, TdLastOne
  <2>2. Td!Trb.remainder = Td!Lesser(m, MaxTdSize)
    BY <1>1, <2>1 DEF Td!Remainder
  <2>3. e < tdLength
    BY <1>1, <1>4
  <2> HIDE DEF e
  <2>4. m \in 0 .. Td!TotalPackets
        /\ {k \in 1 .. Td!TotalPackets : k * tdMaxpacketsize > e} = Td!TotalPackets - m + 1 .. Td!TotalPackets
    BY <1>1, <2>3, TdBehind DEF Td!TotalPackets
  <2> QED BY <2>2, <2>4
<1> QED BY <1>3, <1>4

LEMMA TdQueueTrbs ==
    ASSUME Td!BulkTdAssumption, TdInv, Td!Queue
    PROVE  TdTrbsTyped' /\ TdTrbsInv'
<1> DEFINE e == tdRunningTotal + tdTrbBuffLen
           l == Len(tdTrbs) + 1
<1>1. /\ UNCHANGED <<tdBuffer, tdLength, tdMaxpacketsize>> /\ tdBuffer \in Nat /\ tdLength \in Nat
      /\ tdMaxpacketsize \in Nat \ {0} /\ tdNumTrbs \in Nat \ {0}
      /\ tdAddr = tdBuffer + tdRunningTotal /\ tdTrbs' = Append(tdTrbs, Td!Trb)
      /\ tdRunningTotal \in Nat /\ tdTrbBuffLen \in 0 .. Boundary /\ Boundary \in Nat \ {0}
      /\ Td!Trb.addr = tdAddr /\ Td!Trb.length = tdTrbBuffLen
      /\ Td!Trb.chain = (tdNumTrbs > 1) /\ Td!Trb.ioc = (tdNumTrbs <= 1) /\ tdPc = "queue"
  BY TdQueueEffect
<1>2. tdTrbs \in Seq(TdTrbType)
  BY DEF TdInv, TdTrbsTyped
<1>3. Td!Trb \in TdTrbType
  <2>1. Td!OldRemainder \in Int
    <3>1. TdUnit \in Nat \ {0} /\ MaxTdSize \in Nat
      BY DEF Td!BulkTdAssumption
    <3>2. tdLength \in Nat /\ tdRunningTotal \in Nat /\ tdRunningTotal <= tdLength
      BY TdQueueEffect
    <3>3. (tdLength - tdRunningTotal) \in Nat
      BY <3>2
    <3>4. (tdLength - tdRunningTotal) \div TdUnit \in Nat
      BY <3>1, <3>3, TdTdDivMod
    <3> QED BY <3>1, <3>4 DEF Td!OldRemainder, Td!Lesser
  <2>2. Td!Remainder \in Int
    <3>1. tdLength + tdMaxpacketsize - 1 \in Nat /\ e \in Nat /\ MaxTdSize \in Nat
      BY <1>1 DEF Td!BulkTdAssumption
    <3>2. Td!TotalPackets \in Nat /\ e \div tdMaxpacketsize \in Nat
      BY <1>1, <3>1, TdTdDivMod DEF Td!TotalPackets
    <3> QED BY <3>1, <3>2 DEF Td!Remainder, Td!Lesser
  <2>3. (IF Old THEN Td!OldRemainder ELSE Td!Remainder) \in Int
    BY <2>1, <2>2
  <2>4. tdTrbBuffLen % (2 * Boundary) \in Nat
    BY <1>1 DEF Td!Trb
  <2> QED BY <1>1, <2>3, <2>4 DEF Td!Trb, TdTrbType
<1>4. TdTrbsTyped'
  BY <1>1, <1>2, <1>3 DEF TdTrbsTyped
<1>5. /\ l \in Nat \ {0} /\ Len(tdTrbs') = l /\ tdTrbs'[l] = Td!Trb /\ DOMAIN tdTrbs' = 1 .. l
      /\ DOMAIN tdTrbs = 1 .. l - 1
      /\ \A k \in 1 .. l - 1 : tdTrbs'[k] = tdTrbs[k]
  BY <1>1, <1>2, <1>3
<1> HIDE DEF l
<1>6. Td!TotalPackets' = Td!TotalPackets
  BY <1>1 DEF Td!TotalPackets
<1>7. Td!Pieces'
  <2> SUFFICES ASSUME NEW k \in 1 .. l
               PROVE  /\ tdTrbs'[k].addr = IF k = 1 THEN tdBuffer ELSE tdTrbs'[k - 1].addr + tdTrbs'[k - 1].length
                      /\ (tdTrbs'[k].addr % Boundary) + tdTrbs'[k].length <= Boundary
    BY <1>1, <1>5 DEF Td!Pieces
  <2>1. CASE k # l
    <3>1. k \in 1 .. l - 1 /\ (k # 1 => k - 1 \in 1 .. l - 1)
      BY <1>5, <2>1
    <3>2. tdTrbs'[k] = tdTrbs[k] /\ (k # 1 => tdTrbs'[k - 1] = tdTrbs[k - 1])
      BY <1>5, <3>1
    <3> QED BY <1>5, <3>1, <3>2 DEF TdInv, TdTrbsInv, Td!Pieces
  <2>2. CASE k = l
    <3>1. CASE tdTrbs = <<>>
      <4>1. l = 1
        BY <1>2, <3>1 DEF l
      <4>2. tdRunningTotal = 0 /\ tdTrbBuffLen = Td!Lesser(Td!FirstPiece, tdLength)
        BY <1>1, <3>1 DEF TdInv, TdPlaceInv
      <4>3. Td!FirstPiece \in 1 .. Boundary /\ (tdBuffer % Boundary) + Td!FirstPiece = Boundary
        BY <1>1, TdFirstFacts
      <4>4. tdTrbBuffLen <= Td!FirstPiece
        BY <1>1, <4>2, <4>3 DEF Td!Lesser
      <4>5. tdBuffer % Boundary \in Nat
        BY <1>1, TdTdDivMod
      <4>6. tdAddr = tdBuffer
        BY <1>1, <4>2
      <4> QED BY <1>1, <1>5, <2>2, <4>1, <4>3, <4>4, <4>5, <4>6
    <3>2. CASE tdTrbs # <<>>
      <4>1. l # 1 /\ l - 1 \in 1 .. l - 1 /\ l - 1 = Len(tdTrbs)
        BY <1>2, <1>5, <3>2 DEF l
      <4>2. tdAddr = tdTrbs[Len(tdTrbs)].addr + tdTrbs[Len(tdTrbs)].length /\ tdAddr % Boundary = 0
        BY <1>1, <3>2 DEF TdInv, TdPlaceInv
      <4>3. tdTrbs'[l - 1] = tdTrbs[Len(tdTrbs)]
        BY <1>5, <4>1
      <4> QED BY <1>1, <1>5, <2>2, <4>1, <4>2, <4>3
    <3> QED BY <3>1, <3>2
  <2> QED BY <2>1, <2>2
<1>8. Td!OneTd'
  <2> SUFFICES ASSUME NEW k \in 1 .. l
               PROVE  LET last == Td!EndOf(k)' = tdLength IN
                      /\ tdTrbs'[k].ioc = last /\ tdTrbs'[k].chain = ~last
                      /\ ~Old /\ last => tdTrbs'[k].remainder = 0
                      /\ ~Old /\ ~last => \E m \in 0 .. Td!TotalPackets :
                             /\ tdTrbs'[k].remainder = Td!Lesser(m, MaxTdSize)
                             /\ Td!PacketsBehind(k)' = Td!TotalPackets - m + 1 .. Td!TotalPackets
    BY <1>1, <1>5, <1>6 DEF Td!OneTd
  <2>1. CASE k # l
    <3>1. k \in 1 .. l - 1
      BY <1>5, <2>1
    <3>2. tdTrbs'[k] = tdTrbs[k]
      BY <1>5, <3>1
    <3>3. Td!EndOf(k)' = Td!EndOf(k)
      BY <1>1, <3>2 DEF Td!EndOf
    <3>4. Td!PacketsBehind(k)' = Td!PacketsBehind(k)
      BY <1>1, <1>6, <3>3 DEF Td!PacketsBehind
    <3>5. k \in DOMAIN tdTrbs
      BY <1>5, <3>1
    <3> QED BY <3>2, <3>3, <3>4, <3>5 DEF TdInv, TdTrbsInv, Td!OneTd
  <2>2. CASE k = l
    <3>1. tdTrbs'[k] = Td!Trb
      BY <1>5, <2>2
    <3>2. Td!EndOf(k)' = e
      BY <1>1, <3>1 DEF Td!EndOf
    <3>3. tdNumTrbs <= 1 <=> e = tdLength
      BY TdLastOne
    <3>4. tdTrbs'[k].ioc = (e = tdLength) /\ tdTrbs'[k].chain = ~(e = tdLength)
      BY <1>1, <3>1, <3>3
    <3>5. /\ ~Old /\ e = tdLength => tdTrbs'[k].remainder = 0
          /\ ~Old /\ ~(e = tdLength) => \E m \in 0 .. Td!TotalPackets :
                  /\ tdTrbs'[k].remainder = Td!Lesser(m, MaxTdSize)
                  /\ {j \in 1 .. Td!TotalPackets : j * tdMaxpacketsize > e} = Td!TotalPackets - m + 1 .. Td!TotalPackets
      BY <3>1, TdQueueTells
    <3>6. Td!PacketsBehind(k)' = {j \in 1 .. Td!TotalPackets : j * tdMaxpacketsize > e}
      BY <1>1, <1>6, <3>2 DEF Td!PacketsBehind
    <3> HIDE DEF e
    <3> QED BY <3>2, <3>4, <3>5, <3>6
  <2> QED BY <2>1, <2>2
<1> QED BY <1>4, <1>7, <1>8 DEF TdTrbsInv

LEMMA TdQueueStep ==
    ASSUME Td!BulkTdAssumption, TdInv, Td!Queue
    PROVE  TdInv'
<1>1. TdTyped'
  <2>1. tdMaxpacketsize \in 1 .. Boundary
    BY DEF TdInv, TdTyped
  <2>2. /\ UNCHANGED <<tdBuffer, tdLength, tdMaxpacketsize>> /\ tdBuffer \in Nat /\ tdLength \in Nat
        /\ tdNumTrbs \in Nat \ {0} /\ tdNumTrbs' = tdNumTrbs - 1 /\ tdRunningTotal' \in Nat
        /\ tdRunningTotal \in Nat /\ tdAddr = tdBuffer + tdRunningTotal /\ tdAddr' = tdAddr + tdTrbBuffLen
        /\ tdTrbBuffLen \in 0 .. Boundary /\ Boundary \in Nat \ {0}
        /\ tdTrbBuffLen' \in 0 .. Boundary
    BY TdQueueEffect
  <2>3. tdPc' \in {"queue", "done"}
    BY TdQueueEffect
  <2> QED BY <2>1, <2>2, <2>3 DEF TdTyped
<1>2. TdCountInv'
  BY TdQueueEffect DEF TdCountInv
<1> QED BY <1>1, <1>2, TdQueueLeft, TdQueuePlace, TdQueueTrbs DEF TdInv

LEMMA TdNextInv ==
    ASSUME Td!BulkTdAssumption, TdInv, [Td!Next]_(Td!vars)
    PROVE  TdInv'
<1>1. ASSUME UNCHANGED Td!vars PROVE TdInv'
  <2> USE <1>1 DEF Td!vars, TdInv
  <2>1. TdTyped' /\ TdTrbsTyped'
    BY DEF TdTyped, TdTrbsTyped
  <2>2. TdCountInv'
    BY DEF TdCountInv, Td!FirstPiece, Td!FirstTrb
  <2>3. TdLeftInv' /\ TdPlaceInv'
    BY DEF TdLeftInv, TdPlaceInv, Td!FirstPiece, TdLeft
  <2>4. Td!Pieces'
    BY DEF TdTrbsInv, Td!Pieces
  <2>5. Td!OneTd'
    BY DEF TdTrbsInv, Td!OneTd, Td!EndOf, Td!PacketsBehind, Td!TotalPackets
  <2> QED
    BY <2>1, <2>2, <2>3, <2>4, <2>5 DEF TdTrbsInv
<1> QED BY <1>1, TdCountStep, TdCountedStep, TdQueueStep DEF Td!Next

LEMMA TdAllSent ==
    ASSUME Td!BulkTdAssumption, TdInv
    PROVE  Td!TdWhole
<1>1. ASSUME tdPc = "done" PROVE Td!EndOf(Len(tdTrbs)) = tdLength /\ tdNumTrbs = 0
  <2>1. /\ tdRunningTotal = tdLength /\ tdNumTrbs = 0 /\ tdTrbs # <<>>
        /\ tdAddr = tdTrbs[Len(tdTrbs)].addr + tdTrbs[Len(tdTrbs)].length /\ tdAddr = tdBuffer + tdRunningTotal
    BY <1>1 DEF TdInv, TdPlaceInv
  <2>2. tdBuffer \in Nat /\ tdRunningTotal \in Nat
    BY DEF TdInv, TdTyped
  <2>3. tdTrbs[Len(tdTrbs)] \in TdTrbType
    BY <2>1 DEF TdInv, TdTrbsTyped
  <2> QED BY <2>1, <2>2, <2>3 DEF Td!EndOf, TdTrbType
<1> QED BY <1>1 DEF TdInv, TdTrbsInv, Td!TdWhole

-----------------------------------------------------------------------------
(* UsbConfig                                                                *)
ConfDescriptor == Conf!InterfaceSet \cup Conf!EndpointSet \cup Conf!OtherSet

-----------------------------------------------------------------------------
(* The largest and the least of a set                                       *)

LEMMA ConfLeastOf ==
    ASSUME NEW S \in SUBSET Nat, S # {}, IsFiniteSet(S)
    PROVE  \E x \in S : \A y \in S : x <= y
<1> DEFINE below(x) == {y \in S : y < x}
           T == {below(x) : x \in S}
<1>1. T # {}
  OBVIOUS
<1>2. T \subseteq FiniteSubsetsOf(Nat)
  <2> SUFFICES ASSUME NEW x \in S PROVE below(x) \in FiniteSubsetsOf(Nat)
    OBVIOUS
  <2>1. below(x) \in SUBSET S
    OBVIOUS
  <2>2. IsFiniteSet(below(x))
    BY <2>1, FS_Subset
  <2> QED BY <2>1, <2>2 DEF FiniteSubsetsOf
<1>3. \E m \in T : \A t \in T : ~(<<t, m>> \in StrictSubsetOrdering(Nat))
  BY <1>1, <1>2, FS_StrictSubsetOrderingWellFounded, WFMin
<1>4. PICK x \in S : \A y \in S : ~(<<below(y), below(x)>> \in StrictSubsetOrdering(Nat))
  BY <1>3
<1>5. \A y \in S : x <= y
  <2> SUFFICES ASSUME NEW y \in S, y < x PROVE FALSE
    OBVIOUS
  <2>0. x \in Nat /\ y \in Nat /\ \A z \in S : z \in Nat
    OBVIOUS
  <2>1. \A z \in S : z < y => z < x
    BY <2>0
  <2>2. y \in below(x) /\ y \notin below(y)
    OBVIOUS
  <2>3. below(y) \in SUBSET Nat /\ below(x) \in SUBSET Nat
    OBVIOUS
  <2>4. <<below(y), below(x)>> \in StrictSubsetOrdering(Nat)
    BY <2>1, <2>2, <2>3 DEF StrictSubsetOrdering
  <2> QED BY <1>4, <2>4
<1> HIDE DEF T, below
<1> QED BY <1>4, <1>5

LEMMA ConfLargestOf ==
    ASSUME NEW S \in SUBSET Nat, S # {}, IsFiniteSet(S)
    PROVE  \E x \in S : \A y \in S : x >= y
<1> DEFINE above(x) == {y \in S : y > x}
           T == {above(x) : x \in S}
<1>1. T # {}
  OBVIOUS
<1>2. T \subseteq FiniteSubsetsOf(Nat)
  <2> SUFFICES ASSUME NEW x \in S PROVE above(x) \in FiniteSubsetsOf(Nat)
    OBVIOUS
  <2>1. above(x) \in SUBSET S
    OBVIOUS
  <2>2. IsFiniteSet(above(x))
    BY <2>1, FS_Subset
  <2> QED BY <2>1, <2>2 DEF FiniteSubsetsOf
<1>3. \E m \in T : \A t \in T : ~(<<t, m>> \in StrictSubsetOrdering(Nat))
  BY <1>1, <1>2, FS_StrictSubsetOrderingWellFounded, WFMin
<1>4. PICK x \in S : \A y \in S : ~(<<above(y), above(x)>> \in StrictSubsetOrdering(Nat))
  BY <1>3
<1>5. \A y \in S : x >= y
  <2> SUFFICES ASSUME NEW y \in S, y > x PROVE FALSE
    OBVIOUS
  <2>0. x \in Nat /\ y \in Nat /\ \A z \in S : z \in Nat
    OBVIOUS
  <2>1. \A z \in S : z > y => z > x
    BY <2>0
  <2>2. y \in above(x) /\ y \notin above(y)
    OBVIOUS
  <2>3. above(y) \in SUBSET Nat /\ above(x) \in SUBSET Nat
    OBVIOUS
  <2>4. <<above(y), above(x)>> \in StrictSubsetOrdering(Nat)
    BY <2>1, <2>2, <2>3 DEF StrictSubsetOrdering
  <2> QED BY <1>4, <2>4
<1> HIDE DEF T, above
<1> QED BY <1>4, <1>5

LEMMA ConfMinIs ==
    ASSUME NEW S \in SUBSET Nat, S # {}, IsFiniteSet(S)
    PROVE  Conf!Min(S) \in S /\ \A y \in S : Conf!Min(S) <= y
  BY ConfLeastOf DEF Conf!Min

LEMMA ConfMaxIs ==
    ASSUME NEW S \in SUBSET Nat, S # {}, IsFiniteSet(S)
    PROVE  Conf!Max(S) \in S /\ \A y \in S : Conf!Max(S) >= y
  BY ConfLargestOf DEF Conf!Max

LEMMA ConfFiniteBelow ==
    ASSUME NEW S \in SUBSET Nat, NEW n \in Nat, \A s \in S : s <= n
    PROVE  IsFiniteSet(S)
  BY FS_BoundedSetOfNaturals

LEMMA ConfSizesAre ==
    /\ 0 \in Conf!EndpointSizes /\ 64 \in Conf!EndpointSizes
    /\ \A s \in Conf!EndpointSizes : s \in Nat
    /\ \E n \in Nat : \A s \in Conf!EndpointSizes : s <= n
  BY SMT DEF Conf!EndpointSizes

LEMMA ConfLargestSize ==
    ASSUME NEW S \in SUBSET Conf!EndpointSizes, S # {}
    PROVE  Conf!Max(S) \in S /\ \A y \in S : Conf!Max(S) >= y
<1>1. S \in SUBSET Nat
  BY ConfSizesAre
<1>2. PICK n \in Nat : \A s \in S : s <= n
  BY ConfSizesAre
<1>3. IsFiniteSet(S)
  BY <1>1, <1>2, ConfFiniteBelow
<1> QED BY <1>1, <1>3, ConfMaxIs

-----------------------------------------------------------------------------
(* Lists of descriptors                                                     *)

LEMMA ConfListed ==
    ASSUME Conf!UsbConfigAssumption, NEW d \in Devices
    PROVE  /\ d.list \in Seq(ConfDescriptor) /\ Len(d.list) \in Nat \ {0} /\ DOMAIN d.list = 1 .. Len(d.list)
           /\ 1 \in DOMAIN d.list
           /\ \A k \in DOMAIN d.list : d.list[k] \in ConfDescriptor
           /\ Conf!Ordered(d.list) /\ Conf!Unique(d.list) /\ Conf!Alike(d.list)
<1>1. d.list \in Seq(ConfDescriptor) /\ d.list # <<>> /\ Conf!Ordered(d.list) /\ Conf!Unique(d.list) /\ Conf!Alike(d.list)
  BY DEF Conf!UsbConfigAssumption, ConfDescriptor
<1>2. Len(d.list) \in Nat /\ DOMAIN d.list = 1 .. Len(d.list) /\ \A k \in 1 .. Len(d.list) : d.list[k] \in ConfDescriptor
  BY <1>1
<1>3. Len(d.list) # 0
  BY <1>1
<1> QED BY <1>1, <1>2, <1>3

LEMMA ConfKindsApart ==
    ASSUME NEW e \in ConfDescriptor
    PROVE  /\ e.kind = "interface" => e \in Conf!InterfaceSet
           /\ e.kind = "endpoint" => e \in Conf!EndpointSet
  BY DEF ConfDescriptor, Conf!InterfaceSet, Conf!EndpointSet, Conf!OtherSet

LEMMA ConfInterfaceIs ==
    ASSUME NEW list, NEW k \in Nat \ {0}, list[1].kind = "interface"
    PROVE  \E j \in 1 .. k : list[j].kind = "interface" /\ Conf!InterfaceOf(list, k) = list[j]
<1> DEFINE at == {j \in 1 .. k : list[j].kind = "interface"}
<1>1. 1 \in at /\ at \in SUBSET Nat
  OBVIOUS
<1>2. IsFiniteSet(at)
  <2>1. \A s \in at : s <= k
    OBVIOUS
  <2> QED BY <1>1, <2>1, ConfFiniteBelow
<1>3. Conf!Max(at) \in at
  BY <1>1, <1>2, ConfMaxIs
<1>4. Conf!InterfaceOf(list, k) = list[Conf!Max(at)]
  BY DEF Conf!InterfaceOf
<1> QED BY <1>3, <1>4

LEMMA ConfInterfaceHere ==
    ASSUME NEW list, NEW k \in Nat \ {0}, list[k].kind = "interface"
    PROVE  Conf!InterfaceOf(list, k) = list[k]
<1> DEFINE at == {j \in 1 .. k : list[j].kind = "interface"}
<1>1. k \in at /\ at \in SUBSET Nat /\ \A s \in at : s <= k
  OBVIOUS
<1>2. IsFiniteSet(at)
  BY <1>1, ConfFiniteBelow
<1>3. Conf!Max(at) \in at /\ Conf!Max(at) >= k
  BY <1>1, <1>2, ConfMaxIs
<1>4. Conf!Max(at) = k
  BY <1>1, <1>3
<1> QED BY <1>4 DEF Conf!InterfaceOf

LEMMA ConfInterfaceBefore ==
    ASSUME NEW list, NEW k \in Nat \ {0}, list[k + 1].kind # "interface"
    PROVE  Conf!InterfaceOf(list, k + 1) = Conf!InterfaceOf(list, k)
<1>1. {j \in 1 .. k + 1 : list[j].kind = "interface"} = {j \in 1 .. k : list[j].kind = "interface"}
  OBVIOUS
<1> QED BY <1>1 DEF Conf!InterfaceOf
-----------------------------------------------------------------------------
(* The invariant                                                            *)

ConfList == confDev.list
ConfLatest == Conf!InterfaceOf(ConfList, confIndex - 1)
ConfReading == confPc \in {"parse", "pipes", "configure"}

(* Device d has endpoint e.                                                 *)
ConfHas(d, e) == e.kind = "endpoint" /\ \E j \in DOMAIN d.list : d.list[j] = e
ConfKnown(e) == e = Conf!NoEndpoint \/ ConfHas(confDev, e) \/ \E b \in DOMAIN confBefore : ConfHas(confBefore[b], e)

ConfIfDesc == [announced : 0 .. MaxEndpoints, no_of_ep : 0 .. MaxEndpoints,
           ep_desc : [0 .. MaxEndpoints - 1 -> Conf!EndpointSet \cup {Conf!NoEndpoint}],
           burst : [0 .. MaxEndpoints - 1 -> 0 .. 15]]
ConfSlot == [speed : {"high", "super"}, hub : BOOLEAN, last : Nat]

ConfStateInv ==
    /\ confDev \in Devices /\ confBefore \in Seq(Devices)
    /\ confPc \in {"parse", "pipes", "configure", "hub", "ready"}
    /\ confIndex \in 1 .. Len(ConfList) + 1 /\ confRefused \in BOOLEAN

ConfTableInv == confIfDesc \in [0 .. MaxInterfaces - 1 -> ConfIfDesc]

(* The tables keep what earlier devices left, and nothing else.             *)
ConfKnownInv == \A i \in 0 .. MaxInterfaces - 1 : \A k \in 0 .. MaxEndpoints - 1 : ConfKnown(confIfDesc[i].ep_desc[k])

(* The interface being filled is the one the list is at.                    *)
ConfWalkInv ==
    /\ confPc # "parse" => confIndex = Len(ConfList) + 1
    /\ confNoOfIf \in 0 .. MaxInterfaces /\ confIfno = confNoOfIf - 1 /\ confEpno \in -1 .. MaxEndpoints - 1
    /\ confIndex = 1 => confCurrIfNum = -1 /\ confNoOfIf = 0
    /\ confIndex > 1 => /\ confNoOfIf >= 1 /\ confCurrIfNum = ConfLatest.number
                        /\ confNoOfIf = 1 <=> Conf!InFirst(ConfList, confIndex - 1)

(* The first table holds the first interface's endpoints up to there in     *)
(* their order, those of its first setting in front.                        *)
ConfRank(k) == Cardinality({j \in Conf!AllOf(ConfList) : j < k})
ConfSeen == {j \in Conf!AllOf(ConfList) : j < confIndex}
ConfFilled == 0 .. confIfDesc[0].no_of_ep - 1
ConfEntry(i, k) == confIfDesc[0].ep_desc[i] = ConfList[k] /\ (i < confIfDesc[0].announced <=> k \in Conf!Own) /\ i = ConfRank(k)
ConfFirstInv ==
    confNoOfIf >= 1 =>
        /\ confIfDesc[0].announced = Cardinality(Conf!Own)
        /\ confIfDesc[0].no_of_ep = Cardinality(ConfSeen)
        /\ \A i \in ConfFilled : \E k \in ConfSeen : ConfEntry(i, k)
        /\ \A k \in ConfSeen : \E i \in ConfFilled : ConfEntry(i, k)

(* Where the sizes transfers are cut by come from.                          *)
ConfPacketType == confEpmaxpacket \in [Conf!Dirs -> [0 .. 3 -> Conf!EndpointSizes]]
ConfFrom(x, b) ==
    \/ confEpmaxpacket[x][b] = 0
    \/ confEpmaxpacket[x][b] \in Conf!SizesBefore(x, b)
    \/ confPc \notin {"parse", "pipes"} /\ confEpmaxpacket[x][b] \in Conf!Sizes(confDev, x, b)
ConfPacketInv == ConfPacketType /\ \A x \in Conf!Dirs : \A b \in Conf!Numbers : ConfFrom(x, b)

ConfPipeInv ==
    confPc \notin {"parse", "pipes"} /\ confDev.interfaces = 1 /\ ~confDev.hub => \A x \in Conf!Dirs : Conf!Piped(x)

ConfSlotInv ==
    /\ confOutSlot \in ConfSlot /\ confOutSlot.speed = confDev.speed
    /\ ConfReading => confOutCtx = <<>> /\ ~confRefused /\ ~confOutSlot.hub
    /\ confPc = "hub" => confDev.hub
    /\ confPc = "ready" /\ ~confRefused => confOutSlot.hub = confDev.hub
    /\ ~ConfReading /\ ~confRefused => \A k \in Conf!Own : Conf!Taken(k)
    /\ Conf!ContextsOwn

ConfInv == ConfStateInv /\ ConfTableInv /\ ConfKnownInv /\ ConfWalkInv /\ ConfFirstInv /\ ConfPacketInv /\ ConfPipeInv /\ ConfSlotInv

-----------------------------------------------------------------------------
(* Places in a list                                                         *)

LEMMA ConfFirstHere ==
    ASSUME Conf!UsbConfigAssumption, NEW d \in Devices
    PROVE  Conf!InterfaceOf(d.list, 1) = d.list[1] /\ Conf!InFirst(d.list, 1) /\ d.list[1] \in Conf!InterfaceSet
<1>1. d.list[1].kind = "interface" /\ d.list[1] \in ConfDescriptor
  BY ConfListed DEF Conf!Ordered
<1>2. Conf!InterfaceOf(d.list, 1) = d.list[1]
  BY <1>1, ConfInterfaceHere
<1> QED BY <1>1, <1>2, ConfKindsApart DEF Conf!InFirst

LEMMA ConfEarlierFirst ==
    ASSUME Conf!UsbConfigAssumption, NEW d \in Devices, NEW k \in DOMAIN d.list, NEW j \in 1 .. k
    PROVE  /\ j \in DOMAIN d.list
           /\ Conf!InFirst(d.list, k) => Conf!InFirst(d.list, j)
           /\ Conf!InSetting(d.list, k) => Conf!InSetting(d.list, j)
<1>1. Conf!Ordered(d.list) /\ DOMAIN d.list = 1 .. Len(d.list) /\ Len(d.list) \in Nat
  BY ConfListed
<1> QED BY <1>1 DEF Conf!Ordered

LEMMA ConfOwnFirst ==
    ASSUME Conf!UsbConfigAssumption, NEW d \in Devices, NEW k \in Conf!AllOf(d.list)
    PROVE  /\ k \in Conf!OwnOf(d.list) => \A j \in Conf!AllOf(d.list) : j < k => j \in Conf!OwnOf(d.list)
           /\ k \notin Conf!OwnOf(d.list) => \A j \in Conf!OwnOf(d.list) : j < k
<1>1. DOMAIN d.list = 1 .. Len(d.list) /\ Len(d.list) \in Nat
  BY ConfListed
<1>2. k \in DOMAIN d.list /\ Conf!AllOf(d.list) \subseteq DOMAIN d.list /\ Conf!OwnOf(d.list) \subseteq DOMAIN d.list
  BY DEF Conf!AllOf, Conf!OwnOf
<1>3. ASSUME k \in Conf!OwnOf(d.list), NEW j \in Conf!AllOf(d.list), j < k PROVE j \in Conf!OwnOf(d.list)
  <2>1. j \in 1 .. k /\ Conf!InSetting(d.list, k)
    BY <1>1, <1>2, <1>3 DEF Conf!OwnOf
  <2>2. Conf!InSetting(d.list, j)
    BY <1>2, <2>1, ConfEarlierFirst
  <2> QED BY <2>2 DEF Conf!OwnOf, Conf!AllOf
<1>4. ASSUME k \notin Conf!OwnOf(d.list), NEW j \in Conf!OwnOf(d.list) PROVE j < k
  <2> SUFFICES ASSUME ~(j < k) PROVE FALSE
    OBVIOUS
  <2>1. k \in 1 .. j /\ Conf!InSetting(d.list, j) /\ j \in DOMAIN d.list
    BY <1>1, <1>2 DEF Conf!OwnOf
  <2>2. Conf!InSetting(d.list, k)
    BY <2>1, ConfEarlierFirst
  <2> QED BY <1>4, <2>2 DEF Conf!OwnOf, Conf!AllOf
<1> QED BY <1>3, <1>4

LEMMA ConfSetsOf ==
    ASSUME Conf!UsbConfigAssumption, NEW d \in Devices
    PROVE  /\ Conf!OwnOf(d.list) \subseteq Conf!AllOf(d.list) /\ Conf!AllOf(d.list) \in SUBSET (DOMAIN d.list)
           /\ IsFiniteSet(Conf!AllOf(d.list)) /\ IsFiniteSet(Conf!OwnOf(d.list))
           /\ \A k \in Conf!AllOf(d.list) : d.list[k] \in Conf!EndpointSet
<1>1. DOMAIN d.list = 1 .. Len(d.list) /\ Len(d.list) \in Nat /\ \A k \in DOMAIN d.list : d.list[k] \in ConfDescriptor
  BY ConfListed
<1>2. Conf!OwnOf(d.list) \subseteq Conf!AllOf(d.list) /\ Conf!AllOf(d.list) \in SUBSET (DOMAIN d.list)
  BY DEF Conf!OwnOf, Conf!AllOf, Conf!InSetting
<1>3. IsFiniteSet(Conf!AllOf(d.list))
  <2>1. IsFiniteSet(1 .. Len(d.list))
    BY <1>1, FS_Interval
  <2> QED BY <1>1, <1>2, <2>1, FS_Subset
<1>4. IsFiniteSet(Conf!OwnOf(d.list))
  BY <1>2, <1>3, FS_Subset
<1>5. ASSUME NEW k \in Conf!AllOf(d.list) PROVE d.list[k] \in Conf!EndpointSet
  BY <1>1, ConfKindsApart DEF Conf!AllOf
<1> QED BY <1>2, <1>3, <1>4, <1>5

LEMMA ConfHasSize ==
    ASSUME NEW d, NEW e, ConfHas(d, e)
    PROVE  e.size \in Conf!Sizes(d, e.dir, e.number)
  BY DEF ConfHas, Conf!Sizes

-----------------------------------------------------------------------------
(* Reading the list                                                         *)

ConfReader == Conf!NewInterface \/ Conf!OtherSetting \/ Conf!Endpoint \/ Conf!Companion \/ Conf!Other

(* The instance's Cardinality is FiniteSets'.                               *)
LEMMA ConfCount ==
    ASSUME NEW S
    PROVE  Conf!Cardinality(S) = Cardinality(S)
  BY DEF Conf!Cardinality, Cardinality

LEMMA ConfListIs ==
    ASSUME Conf!UsbConfigAssumption, ConfStateInv
    PROVE  /\ confDev \in Devices /\ DOMAIN ConfList = 1 .. Len(ConfList) /\ Len(ConfList) \in Nat \ {0}
           /\ \A k \in DOMAIN ConfList : ConfList[k] \in ConfDescriptor
           /\ ConfList[1].kind = "interface" /\ ConfList[1].endpoints = Cardinality(Conf!Own)
           /\ Conf!Own = Conf!OwnOf(ConfList) /\ confIndex \in Nat \ {0}
  BY ConfListed, ConfCount DEF ConfStateInv, ConfList, Conf!Ordered, Conf!Own

LEMMA ConfSizesMax ==
    ASSUME Conf!UsbConfigAssumption
    PROVE  MaxInterfaces \in Nat \ {0} /\ MaxEndpoints \in Nat \ {0} /\ MaxDevices \in Nat
  BY DEF Conf!UsbConfigAssumption

LEMMA ConfReaderKeeps ==
    ASSUME ConfReader
    PROVE  /\ confPc = "parse" /\ confPc' = "parse" /\ confIndex \in DOMAIN ConfList /\ confIndex' = confIndex + 1
           /\ confDev' = confDev /\ confBefore' = confBefore /\ ConfList' = ConfList /\ Conf!Own' = Conf!Own
           /\ UNCHANGED Conf!udev /\ UNCHANGED Conf!input /\ UNCHANGED Conf!output
  BY DEF ConfReader, Conf!NewInterface, Conf!OtherSetting, Conf!Endpoint, Conf!Companion,
     Conf!Other, Conf!Parsing, Conf!NextDescriptor, ConfList, Conf!Own

LEMMA ConfPacketKept ==
    ASSUME ConfPacketInv, UNCHANGED <<confDev, confBefore, confEpmaxpacket>>,
           confPc' \notin {"parse", "pipes"} \/ confPc \in {"parse", "pipes"}
    PROVE  ConfPacketInv'
<1>1. ConfPacketType'
  BY DEF ConfPacketInv, ConfPacketType
<1>2. \A x, b : Conf!SizesBefore(x, b)' = Conf!SizesBefore(x, b) /\ Conf!Sizes(confDev, x, b)' = Conf!Sizes(confDev, x, b)
  BY DEF Conf!SizesBefore, Conf!Sizes
<1>3. ASSUME NEW x, NEW b, ConfFrom(x, b)
      PROVE  ConfFrom(x, b)'
  <2>1. CASE confEpmaxpacket[x][b] = 0 \/ confEpmaxpacket[x][b] \in Conf!SizesBefore(x, b)
    BY <1>2, <2>1 DEF ConfFrom
  <2>2. CASE confPc \notin {"parse", "pipes"} /\ confEpmaxpacket[x][b] \in Conf!Sizes(confDev, x, b)
    BY <1>2, <2>2 DEF ConfFrom
  <2> QED BY <1>3, <2>1, <2>2 DEF ConfFrom
<1> QED BY <1>1, <1>3 DEF ConfPacketInv

LEMMA ConfReaderState ==
    ASSUME Conf!UsbConfigAssumption, ConfInv, ConfReader
    PROVE  ConfStateInv' /\ ConfPacketInv' /\ ConfPipeInv' /\ ConfSlotInv'
<1>1. ConfStateInv'
  <2>1. confIndex \in 1 .. Len(ConfList) /\ Len(ConfList) \in Nat
    BY ConfReaderKeeps, ConfListIs DEF ConfInv
  <2> QED BY <2>1, ConfReaderKeeps DEF ConfStateInv, ConfInv, Conf!output
<1>2. ConfPacketInv'
  BY ConfReaderKeeps, ConfPacketKept DEF Conf!udev, ConfInv
<1>3. ConfPipeInv'
  BY ConfReaderKeeps DEF ConfPipeInv
<1>4. ConfSlotInv'
  BY ConfReaderKeeps DEF ConfSlotInv, ConfInv, Conf!output, ConfReading, Conf!ContextsOwn
<1> QED BY <1>1, <1>2, <1>3, <1>4

LEMMA ConfFillingAt ==
    ASSUME Conf!UsbConfigAssumption, ConfInv, confIndex > 1
    PROVE  confIfno \in 0 .. MaxInterfaces - 1
  BY ConfSizesMax DEF ConfInv, ConfWalkInv

LEMMA ConfNotAtFirst ==
    ASSUME Conf!UsbConfigAssumption, ConfInv, Conf!Parsing("endpoint") \/ Conf!Parsing("companion") \/ Conf!Parsing("other")
    PROVE  confIndex > 1
<1>1. confIndex \in Nat \ {0} /\ ConfList[1].kind = "interface"
  BY ConfListIs DEF ConfInv
<1>2. ConfList[confIndex].kind # "interface"
  BY DEF Conf!Parsing, ConfList
<1> QED BY <1>1, <1>2

LEMMA ConfThisIs ==
    ASSUME Conf!UsbConfigAssumption, ConfInv, NEW kind, Conf!Parsing(kind)
    PROVE  Conf!This = ConfList[confIndex] /\ Conf!This \in ConfDescriptor /\ confIndex \in DOMAIN ConfList /\ Conf!This.kind = kind
  BY ConfListIs DEF ConfInv, Conf!Parsing, Conf!This, ConfList

LEMMA ConfInterfacePut ==
    ASSUME Conf!UsbConfigAssumption, ConfInv, Conf!NewInterface
    PROVE  /\ ConfTableInv' /\ confNoOfIf \in 0 .. MaxInterfaces - 1
           /\ confIfDesc'[confNoOfIf].announced = Conf!This.endpoints /\ confIfDesc'[confNoOfIf].no_of_ep = 0
           /\ \A i \in 0 .. MaxInterfaces - 1 :
                  /\ confIfDesc'[i].ep_desc = confIfDesc[i].ep_desc
                  /\ i # confNoOfIf => confIfDesc'[i] = confIfDesc[i]
<1>1. confNoOfIf \in 0 .. MaxInterfaces - 1
  BY ConfSizesMax DEF ConfInv, ConfWalkInv, Conf!NewInterface
<1>2. Conf!This.endpoints \in 0 .. MaxEndpoints /\ 0 \in 0 .. MaxEndpoints
  <2>1. Conf!This \in Conf!InterfaceSet
    BY ConfThisIs, ConfKindsApart DEF Conf!NewInterface
  <2> QED BY <2>1, ConfSizesMax DEF Conf!InterfaceSet
<1> DEFINE new == [confIfDesc[confNoOfIf] EXCEPT !.announced = Conf!This.endpoints, !.no_of_ep = 0]
<1>3. confIfDesc \in [0 .. MaxInterfaces - 1 -> ConfIfDesc]
  BY DEF ConfInv, ConfTableInv
<1>4. confIfDesc' = [confIfDesc EXCEPT ![confNoOfIf] = new]
  BY <1>1, <1>3 DEF Conf!NewInterface, Conf!CountCleared
<1>5. /\ new \in ConfIfDesc /\ new.ep_desc = confIfDesc[confNoOfIf].ep_desc
      /\ new.announced = Conf!This.endpoints /\ new.no_of_ep = 0
  BY <1>1, <1>2, <1>3 DEF ConfIfDesc
<1> HIDE DEF new
<1> QED BY <1>1, <1>3, <1>4, <1>5 DEF ConfTableInv

LEMMA ConfEndpointPut ==
    ASSUME Conf!UsbConfigAssumption, ConfInv, Conf!Endpoint
    PROVE  /\ ConfTableInv' /\ confIfno \in 0 .. MaxInterfaces - 1 /\ Conf!This \in Conf!EndpointSet
           /\ confEpno' = confIfDesc[confIfno].no_of_ep /\ confEpno' \in 0 .. MaxEndpoints - 1
           /\ confIfDesc'[confIfno].announced = confIfDesc[confIfno].announced /\ confIfDesc'[confIfno].no_of_ep = confEpno' + 1
           /\ confIfDesc'[confIfno].ep_desc = [confIfDesc[confIfno].ep_desc EXCEPT ![confEpno'] = Conf!This]
           /\ \A i \in 0 .. MaxInterfaces - 1 : i # confIfno => confIfDesc'[i] = confIfDesc[i]
<1>1. confIfno \in 0 .. MaxInterfaces - 1
  BY ConfNotAtFirst, ConfFillingAt DEF Conf!Endpoint
<1>2. Conf!This \in Conf!EndpointSet
  BY ConfThisIs, ConfKindsApart DEF Conf!Endpoint
<1>3. confIfDesc \in [0 .. MaxInterfaces - 1 -> ConfIfDesc]
  BY DEF ConfInv, ConfTableInv
<1>4. confEpno' = confIfDesc[confIfno].no_of_ep /\ confEpno' \in 0 .. MaxEndpoints - 1
  <2>1. confIfDesc[confIfno].no_of_ep \in 0 .. MaxEndpoints /\ confIfDesc[confIfno].no_of_ep < MaxEndpoints
    BY <1>1, <1>3 DEF Conf!Endpoint, ConfIfDesc
  <2>2. confEpno' = confIfDesc[confIfno].no_of_ep
    BY DEF Conf!Endpoint
  <2> QED BY <2>1, <2>2, ConfSizesMax
<1> DEFINE eps == [confIfDesc[confIfno].ep_desc EXCEPT ![confEpno'] = Conf!This]
           new == [confIfDesc[confIfno] EXCEPT !.ep_desc = eps, !.no_of_ep = confEpno' + 1]
<1>5. confIfDesc' = [confIfDesc EXCEPT ![confIfno] = new]
  BY <1>1, <1>3 DEF Conf!Endpoint, ConfIfDesc
<1>6. eps \in [0 .. MaxEndpoints - 1 -> Conf!EndpointSet \cup {Conf!NoEndpoint}]
  <2>1. confIfDesc[confIfno].ep_desc \in [0 .. MaxEndpoints - 1 -> Conf!EndpointSet \cup {Conf!NoEndpoint}]
    BY <1>1, <1>3 DEF ConfIfDesc
  <2> QED BY <2>1, <1>2, <1>4
<1> HIDE DEF eps
<1>7. confEpno' + 1 \in 0 .. MaxEndpoints
  BY <1>4, ConfSizesMax
<1>8. /\ new \in ConfIfDesc /\ new.ep_desc = eps
      /\ new.announced = confIfDesc[confIfno].announced /\ new.no_of_ep = confEpno' + 1
  BY <1>1, <1>3, <1>6, <1>7 DEF ConfIfDesc
<1> HIDE DEF new
<1>9. confIfDesc' \in [0 .. MaxInterfaces - 1 -> ConfIfDesc] /\ confIfDesc'[confIfno] = new
  BY <1>1, <1>3, <1>5, <1>8
<1>10. \A i \in 0 .. MaxInterfaces - 1 : i # confIfno => confIfDesc'[i] = confIfDesc[i]
  BY <1>1, <1>3, <1>5
<1> QED BY <1>1, <1>2, <1>4, <1>8, <1>9, <1>10 DEF ConfTableInv, eps

LEMMA ConfCompanionPut ==
    ASSUME Conf!UsbConfigAssumption, ConfInv, Conf!Companion
    PROVE  /\ ConfTableInv'
           /\ \A i \in 0 .. MaxInterfaces - 1 :
                  /\ confIfDesc'[i].ep_desc = confIfDesc[i].ep_desc /\ confIfDesc'[i].announced = confIfDesc[i].announced
                  /\ confIfDesc'[i].no_of_ep = confIfDesc[i].no_of_ep
<1>1. confIfno \in 0 .. MaxInterfaces - 1
  BY ConfNotAtFirst, ConfFillingAt DEF Conf!Companion
<1>2. Conf!This.burst \in 0 .. 15
  <2>1. Conf!This \in ConfDescriptor /\ Conf!This.kind = "companion"
    BY ConfThisIs DEF Conf!Companion
  <2> QED BY <2>1 DEF ConfDescriptor, Conf!InterfaceSet, Conf!EndpointSet, Conf!OtherSet
<1>3. confIfDesc \in [0 .. MaxInterfaces - 1 -> ConfIfDesc]
  BY DEF ConfInv, ConfTableInv
<1>4. confEpno \in 0 .. MaxEndpoints - 1
  BY ConfSizesMax DEF Conf!Companion, ConfInv, ConfWalkInv
<1> DEFINE bursts == [confIfDesc[confIfno].burst EXCEPT ![confEpno] = Conf!This.burst]
           new == [confIfDesc[confIfno] EXCEPT !.burst = bursts]
<1>5. confIfDesc' = [confIfDesc EXCEPT ![confIfno] = new]
  BY <1>1, <1>3 DEF Conf!Companion, ConfIfDesc
<1>6. bursts \in [0 .. MaxEndpoints - 1 -> 0 .. 15]
  <2>1. confIfDesc[confIfno].burst \in [0 .. MaxEndpoints - 1 -> 0 .. 15]
    BY <1>1, <1>3 DEF ConfIfDesc
  <2> QED BY <2>1, <1>2, <1>4
<1> HIDE DEF bursts
<1>8. /\ new \in ConfIfDesc /\ new.ep_desc = confIfDesc[confIfno].ep_desc
      /\ new.announced = confIfDesc[confIfno].announced /\ new.no_of_ep = confIfDesc[confIfno].no_of_ep
  BY <1>1, <1>3, <1>6 DEF ConfIfDesc
<1> HIDE DEF new
<1>9. confIfDesc' \in [0 .. MaxInterfaces - 1 -> ConfIfDesc] /\ confIfDesc'[confIfno] = new
  BY <1>1, <1>3, <1>5, <1>8
<1>10. \A i \in 0 .. MaxInterfaces - 1 : i # confIfno => confIfDesc'[i] = confIfDesc[i]
  BY <1>1, <1>3, <1>5
<1> QED BY <1>1, <1>8, <1>9, <1>10 DEF ConfTableInv

LEMMA ConfReaderTable ==
    ASSUME Conf!UsbConfigAssumption, ConfInv, ConfReader
    PROVE  ConfTableInv' /\ ConfKnownInv'
<1>1. \A e : ConfKnown(e) => ConfKnown(e)'
  BY ConfReaderKeeps DEF ConfKnown, ConfHas
<1>2. ConfKnownInv /\ ConfTableInv
  BY DEF ConfInv
<1>3. CASE Conf!NewInterface
  BY <1>1, <1>2, <1>3, ConfInterfacePut DEF ConfKnownInv
<1>4. CASE Conf!OtherSetting \/ Conf!Other
  <2>1. confIfDesc' = confIfDesc
    BY <1>4 DEF Conf!OtherSetting, Conf!Other, Conf!parser
  <2> QED BY <1>1, <1>2, <2>1 DEF ConfKnownInv, ConfTableInv
<1>5. CASE Conf!Endpoint
  <2>1. ConfKnown(Conf!This)
    <3>1. Conf!This = ConfList[confIndex] /\ confIndex \in DOMAIN ConfList /\ Conf!This.kind = "endpoint"
      BY <1>5, ConfThisIs DEF Conf!Endpoint
    <3> QED BY <3>1 DEF ConfKnown, ConfHas, ConfList
  <2>2. ASSUME NEW i \in 0 .. MaxInterfaces - 1, NEW k \in 0 .. MaxEndpoints - 1
        PROVE  confIfDesc'[i].ep_desc[k] = Conf!This \/ confIfDesc'[i].ep_desc[k] = confIfDesc[i].ep_desc[k]
    <3>1. confIfDesc[confIfno].ep_desc \in [0 .. MaxEndpoints - 1 -> Conf!EndpointSet \cup {Conf!NoEndpoint}]
      BY <1>2, <1>5, ConfEndpointPut DEF ConfTableInv, ConfIfDesc
    <3>2. CASE i = confIfno
      <4>1. confIfDesc'[i].ep_desc = [confIfDesc[i].ep_desc EXCEPT ![confEpno'] = Conf!This]
        BY <1>5, <3>2, ConfEndpointPut
      <4> QED BY <3>1, <3>2, <4>1
    <3>3. CASE i # confIfno
      BY <1>5, <3>3, ConfEndpointPut
    <3> QED BY <3>2, <3>3
  <2>3. ConfTableInv'
    BY <1>5, ConfEndpointPut
  <2> QED BY <1>1, <1>2, <2>1, <2>2, <2>3 DEF ConfKnownInv
<1>6. CASE Conf!Companion
  BY <1>1, <1>2, <1>6, ConfCompanionPut DEF ConfKnownInv
<1> QED BY <1>3, <1>4, <1>5, <1>6 DEF ConfReader

(* The interface a descriptor belongs to, from the descriptor before.       *)
LEMMA ConfNextLatest ==
    ASSUME Conf!UsbConfigAssumption, ConfInv, ConfReader
    PROVE  /\ ConfLatest' = Conf!InterfaceOf(ConfList, confIndex)
           /\ ConfList[confIndex].kind = "interface" => ConfLatest' = ConfList[confIndex]
           /\ ConfList[confIndex].kind # "interface" => confIndex > 1 /\ ConfLatest' = ConfLatest
<1>1. confIndex \in Nat \ {0} /\ ConfList[1].kind = "interface"
  BY ConfListIs DEF ConfInv
<1>2. ConfLatest' = Conf!InterfaceOf(ConfList, confIndex)
  <2>1. confIndex' - 1 = confIndex /\ ConfList' = ConfList
    BY <1>1, ConfReaderKeeps
  <2> QED BY <2>1 DEF ConfLatest
<1>3. ASSUME ConfList[confIndex].kind # "interface"
      PROVE  confIndex > 1 /\ Conf!InterfaceOf(ConfList, confIndex) = Conf!InterfaceOf(ConfList, confIndex - 1)
  <2>1. confIndex > 1 /\ confIndex - 1 \in Nat \ {0} /\ (confIndex - 1) + 1 = confIndex
    BY <1>1, <1>3
  <2>2. Conf!InterfaceOf(ConfList, (confIndex - 1) + 1) = Conf!InterfaceOf(ConfList, confIndex - 1)
    BY <1>3, <2>1, ConfInterfaceBefore
  <2> QED BY <2>1, <2>2
<1> QED BY <1>1, <1>2, <1>3, ConfInterfaceHere DEF ConfLatest

LEMMA ConfFirstStays ==
    ASSUME Conf!UsbConfigAssumption, ConfInv, ConfReader
    PROVE  /\ confIndex = 1 => Conf!InFirst(ConfList, confIndex)
           /\ confIndex > 1 /\ Conf!InFirst(ConfList, confIndex) => Conf!InFirst(ConfList, confIndex - 1)
<1>1. confDev \in Devices /\ confIndex \in DOMAIN ConfList /\ confIndex \in Nat \ {0}
  BY ConfReaderKeeps, ConfListIs DEF ConfInv
<1>2. Conf!InFirst(ConfList, 1)
  BY <1>1, ConfFirstHere DEF ConfList
<1>3. confIndex > 1 => confIndex - 1 \in 1 .. confIndex
  BY <1>1
<1> QED BY <1>1, <1>2, <1>3, ConfEarlierFirst DEF ConfList

LEMMA ConfReaderWalk ==
    ASSUME Conf!UsbConfigAssumption, ConfInv, ConfReader
    PROVE  ConfWalkInv'
<1>1. ConfWalkInv /\ confPc' = "parse" /\ confIndex' = confIndex + 1 /\ ConfList' = ConfList /\ confIndex \in Nat \ {0}
  BY ConfReaderKeeps, ConfListIs DEF ConfInv
<1>2. confIndex' > 1 /\ confIndex' - 1 = confIndex /\ confIndex' # 1
  BY <1>1
<1>3. Conf!InFirst(ConfList, confIndex)' <=> Conf!InFirst(ConfList, confIndex')
  BY <1>1 DEF Conf!InFirst
<1>4. SUFFICES /\ confNoOfIf' \in 0 .. MaxInterfaces /\ confIfno' = confNoOfIf' - 1 /\ confEpno' \in -1 .. MaxEndpoints - 1
               /\ confNoOfIf' >= 1 /\ confCurrIfNum' = ConfLatest'.number /\ (confNoOfIf' = 1 <=> Conf!InFirst(ConfList, confIndex))
  BY <1>1, <1>2 DEF ConfWalkInv, ConfLatest
<1>5. Conf!InFirst(ConfList, confIndex) <=> ConfLatest'.number = ConfList[1].number
  BY ConfNextLatest DEF Conf!InFirst
<1>6. confIndex > 1 => (Conf!InFirst(ConfList, confIndex - 1) <=> ConfLatest.number = ConfList[1].number)
  BY DEF Conf!InFirst, ConfLatest
<1>7. CASE Conf!NewInterface
  <2>1. ConfList[confIndex].kind = "interface" /\ Conf!This = ConfList[confIndex] /\ confNoOfIf \in 0 .. MaxInterfaces - 1
    BY <1>7, ConfThisIs, ConfInterfacePut DEF Conf!NewInterface
  <2>2. ConfLatest' = ConfList[confIndex]
    BY <2>1, ConfNextLatest
  <2>3. confCurrIfNum' = ConfLatest'.number /\ confNoOfIf' = confNoOfIf + 1 /\ confIfno' = confNoOfIf /\ confEpno' = confEpno
    BY <1>7, <2>1, <2>2 DEF Conf!NewInterface
  <2>4. CASE confIndex = 1
    BY <1>1, <2>1, <2>3, <2>4, ConfSizesMax, ConfFirstStays DEF ConfWalkInv
  <2>5. CASE confIndex > 1
    <3>1. ConfLatest'.number # ConfLatest.number
      BY <1>1, <1>7, <2>1, <2>2, <2>5 DEF Conf!NewInterface, ConfWalkInv
    <3>2. ~Conf!InFirst(ConfList, confIndex)
      BY <1>5, <1>6, <2>5, <3>1, ConfFirstStays
    <3>3. confNoOfIf >= 1 /\ confNoOfIf' # 1
      BY <1>1, <2>1, <2>3, <2>5 DEF ConfWalkInv
    <3> QED BY <1>1, <2>1, <2>3, <3>2, <3>3, ConfSizesMax DEF ConfWalkInv
  <2> QED BY <1>1, <2>4, <2>5
<1>8. CASE Conf!OtherSetting
  <2>1. ConfList[confIndex].kind = "interface" /\ Conf!This = ConfList[confIndex] /\ ConfList[confIndex].number = confCurrIfNum
    BY <1>8, ConfThisIs DEF Conf!OtherSetting
  <2>2. ConfLatest' = ConfList[confIndex] /\ UNCHANGED <<confIfno, confEpno, confCurrIfNum, confNoOfIf>>
    BY <1>8, <2>1, ConfNextLatest DEF Conf!OtherSetting, Conf!parser
  <2>3. confIndex > 1
    <3>1. ConfList[1].number >= 0 /\ ConfList[1].number \in Int
      <4>1. ConfList[1] \in Conf!InterfaceSet
        BY ConfFirstHere, ConfListIs DEF ConfInv, ConfList
      <4> QED BY <4>1 DEF Conf!InterfaceSet
    <3>2. confIndex = 1 => confCurrIfNum = -1
      BY <1>1 DEF ConfWalkInv
    <3> QED BY <1>1, <2>1, <3>1, <3>2
  <2>4. ConfLatest'.number = ConfLatest.number
    BY <1>1, <2>1, <2>2, <2>3 DEF ConfWalkInv
  <2> QED BY <1>1, <1>5, <1>6, <2>1, <2>2, <2>3, <2>4 DEF ConfWalkInv
<1>9. CASE Conf!Endpoint \/ Conf!Companion \/ Conf!Other
  <2>1. ConfList[confIndex].kind # "interface"
    BY <1>9, ConfThisIs DEF Conf!Endpoint, Conf!Companion, Conf!Other
  <2>2. confIndex > 1 /\ ConfLatest' = ConfLatest
    BY <2>1, ConfNextLatest
  <2>3. UNCHANGED <<confIfno, confCurrIfNum, confNoOfIf>>
    BY <1>9 DEF Conf!Endpoint, Conf!Companion, Conf!Other, Conf!parser
  <2>4. confEpno' \in -1 .. MaxEndpoints - 1
    <3>1. CASE Conf!Endpoint
      BY <3>1, ConfEndpointPut, ConfSizesMax
    <3>2. CASE Conf!Companion \/ Conf!Other
      BY <1>1, <3>2 DEF Conf!Companion, Conf!Other, Conf!parser, ConfWalkInv
    <3> QED BY <1>9, <3>1, <3>2
  <2> QED BY <1>1, <1>5, <1>6, <2>2, <2>3, <2>4 DEF ConfWalkInv
<1> QED BY <1>7, <1>8, <1>9 DEF ConfReader

LEMMA ConfFirstGrows ==
    ASSUME Conf!UsbConfigAssumption, ConfInv, confIndex \in Conf!AllOf(ConfList)
    PROVE  /\ Cardinality(ConfSeen \cup {confIndex}) = Cardinality(ConfSeen) + 1
           /\ Cardinality(ConfSeen) \in Nat /\ Cardinality(Conf!Own) \in Nat
           /\ Cardinality(ConfSeen) < Cardinality(Conf!Own) <=> confIndex \in Conf!Own
           /\ Cardinality(ConfSeen) = ConfRank(confIndex)
<1>1. /\ confDev \in Devices /\ Conf!Own = Conf!OwnOf(ConfList) /\ Conf!Own \subseteq Conf!AllOf(ConfList)
      /\ IsFiniteSet(Conf!AllOf(ConfList)) /\ IsFiniteSet(Conf!Own)
  BY ConfListIs, ConfSetsOf DEF ConfInv, ConfList
<1>2. ConfSeen \in SUBSET Conf!AllOf(ConfList) /\ confIndex \notin ConfSeen /\ IsFiniteSet(ConfSeen)
  <2>1. ConfSeen \in SUBSET Conf!AllOf(ConfList) /\ confIndex \notin ConfSeen
    BY ConfListIs DEF ConfSeen, ConfInv
  <2> QED BY <1>1, <2>1, FS_Subset
<1>3. Cardinality(ConfSeen \cup {confIndex}) = Cardinality(ConfSeen) + 1
  BY <1>2, FS_AddElement
<1>4. Cardinality(ConfSeen) \in Nat /\ Cardinality(Conf!Own) \in Nat
  BY <1>1, <1>2, FS_CardinalityType
<1>5. ASSUME confIndex \in Conf!Own PROVE Cardinality(ConfSeen) < Cardinality(Conf!Own)
  <2>1. ConfSeen \in SUBSET Conf!Own
    BY <1>1, <1>5, ConfOwnFirst DEF ConfSeen, ConfList
  <2>2. ConfSeen # Conf!Own
    BY <1>2, <1>5
  <2>3. Cardinality(ConfSeen) <= Cardinality(Conf!Own) /\ Cardinality(Conf!Own) # Cardinality(ConfSeen)
    BY <1>1, <2>1, <2>2, FS_Subset
  <2> QED BY <1>4, <2>3
<1>6. ASSUME confIndex \notin Conf!Own PROVE ~(Cardinality(ConfSeen) < Cardinality(Conf!Own))
  <2>1. Conf!Own \in SUBSET ConfSeen
    BY <1>1, <1>6, ConfOwnFirst DEF ConfSeen, ConfList
  <2>2. Cardinality(Conf!Own) <= Cardinality(ConfSeen)
    BY <1>2, <2>1, FS_Subset
  <2> QED BY <1>4, <2>2
<1>7. Cardinality(ConfSeen) = ConfRank(confIndex)
  BY DEF ConfSeen, ConfRank
<1> QED BY <1>3, <1>4, <1>5, <1>6, <1>7

LEMMA ConfSeenNext ==
    ASSUME Conf!UsbConfigAssumption, ConfInv, ConfReader
    PROVE  ConfSeen' = IF confIndex \in Conf!AllOf(ConfList) THEN ConfSeen \cup {confIndex} ELSE ConfSeen
<1>1. ConfList' = ConfList /\ confIndex' = confIndex + 1 /\ confIndex \in Nat /\ \A j \in Conf!AllOf(ConfList) : j \in Nat
  <2>1. Conf!AllOf(ConfList) \subseteq DOMAIN ConfList /\ DOMAIN ConfList = 1 .. Len(ConfList)
    BY ConfListIs DEF ConfInv, Conf!AllOf
  <2> QED BY <2>1, ConfReaderKeeps, ConfListIs DEF ConfInv
<1>2. Conf!AllOf(ConfList)' = Conf!AllOf(ConfList)
  BY <1>1 DEF Conf!AllOf, Conf!InFirst
<1>3. ConfSeen' = {j \in Conf!AllOf(ConfList) : j < confIndex + 1}
  BY <1>1, <1>2 DEF ConfSeen
<1>4. \A j \in Conf!AllOf(ConfList) : j < confIndex + 1 <=> j < confIndex \/ j = confIndex
  BY <1>1
<1> QED BY <1>3, <1>4 DEF ConfSeen

LEMMA ConfRankKept ==
    ASSUME ConfList' = ConfList
    PROVE  \A k : ConfRank(k)' = ConfRank(k)
<1>1. Conf!AllOf(ConfList)' = Conf!AllOf(ConfList)
  BY DEF Conf!AllOf, Conf!InFirst
<1> QED BY <1>1 DEF ConfRank

LEMMA ConfFirstSame ==
    ASSUME ConfFirstInv, UNCHANGED <<confDev, confIndex, confNoOfIf, confIfDesc>>
    PROVE  ConfFirstInv'
<1>1. ConfList' = ConfList /\ Conf!Own' = Conf!Own
  BY DEF ConfList, Conf!Own
<1>2. Conf!AllOf(ConfList)' = Conf!AllOf(ConfList)
  BY <1>1 DEF Conf!AllOf, Conf!InFirst
<1>3. ConfSeen' = ConfSeen /\ ConfFilled' = ConfFilled
  BY <1>2 DEF ConfSeen, ConfFilled
<1>4. \A i, k : ConfEntry(i, k)' <=> ConfEntry(i, k)
  BY <1>1, ConfRankKept DEF ConfEntry
<1> QED BY <1>1, <1>3, <1>4 DEF ConfFirstInv

(* A step that leaves the first table as it is, and is at no endpoint of    *)
(* it.                                                                      *)
LEMMA ConfFirstKept ==
    ASSUME Conf!UsbConfigAssumption, ConfInv, ConfReader, confIndex \notin Conf!AllOf(ConfList), confNoOfIf >= 1,
           confIfDesc'[0].announced = confIfDesc[0].announced, confIfDesc'[0].no_of_ep = confIfDesc[0].no_of_ep,
           confIfDesc'[0].ep_desc = confIfDesc[0].ep_desc
    PROVE  ConfFirstInv'
<1>1. ConfSeen' = ConfSeen /\ ConfList' = ConfList /\ Conf!Own' = Conf!Own
  BY ConfSeenNext, ConfReaderKeeps
<1>2. /\ confIfDesc[0].announced = Cardinality(Conf!Own) /\ confIfDesc[0].no_of_ep = Cardinality(ConfSeen)
      /\ \A i \in ConfFilled : \E k \in ConfSeen : ConfEntry(i, k)
      /\ \A k \in ConfSeen : \E i \in ConfFilled : ConfEntry(i, k)
  BY DEF ConfInv, ConfFirstInv
<1>3. ConfFilled' = ConfFilled /\ \A i, k : ConfEntry(i, k)' <=> ConfEntry(i, k)
  BY <1>1, ConfRankKept DEF ConfFilled, ConfEntry
<1> QED BY <1>1, <1>2, <1>3 DEF ConfFirstInv

LEMMA ConfNoneYet ==
    ASSUME Conf!UsbConfigAssumption, ConfInv, Conf!NewInterface, confIndex = 1
    PROVE  ConfFirstInv'
<1>1. ConfReader
  BY DEF ConfReader
<1>2. confNoOfIf = 0 /\ ConfList[1].kind = "interface" /\ ConfList[1].endpoints = Cardinality(Conf!Own) /\ Conf!This = ConfList[1]
  BY ConfListIs, ConfThisIs DEF ConfInv, ConfWalkInv, Conf!NewInterface
<1>3. confIfDesc'[0].announced = Cardinality(Conf!Own) /\ confIfDesc'[0].no_of_ep = 0
  BY <1>2, ConfInterfacePut
<1>4. ConfSeen = {} /\ confIndex \notin Conf!AllOf(ConfList)
  <2>1. Conf!AllOf(ConfList) \subseteq DOMAIN ConfList /\ DOMAIN ConfList = 1 .. Len(ConfList)
    BY ConfListIs DEF ConfInv, Conf!AllOf
  <2>2. confIndex \notin Conf!AllOf(ConfList)
    BY <1>2 DEF Conf!AllOf
  <2> QED BY <2>1, <2>2 DEF ConfSeen
<1>5. ConfSeen' = {} /\ Conf!Own' = Conf!Own /\ Cardinality({}) = 0
  BY <1>1, <1>4, ConfSeenNext, ConfReaderKeeps, FS_EmptySet
<1>6. ConfFilled' = {}
  BY <1>3 DEF ConfFilled
<1> QED BY <1>3, <1>5, <1>6 DEF ConfFirstInv

LEMMA ConfOneMore ==
    ASSUME Conf!UsbConfigAssumption, ConfInv, Conf!Endpoint, confNoOfIf = 1
    PROVE  ConfFirstInv'
<1>1. ConfReader
  BY DEF ConfReader
<1>2. ConfWalkInv /\ ConfFirstInv /\ ConfTableInv
  BY DEF ConfInv
<1>3. confIfno = 0 /\ confIndex > 1
  BY <1>2, ConfNotAtFirst DEF ConfWalkInv, Conf!Endpoint
<1>4. ConfList[confIndex].kind = "endpoint" /\ Conf!This = ConfList[confIndex] /\ confIndex \in DOMAIN ConfList
  BY ConfThisIs DEF Conf!Endpoint
<1>5. confIndex \in Conf!AllOf(ConfList)
  <2>1. ConfLatest' = ConfLatest /\ ConfLatest' = Conf!InterfaceOf(ConfList, confIndex)
    BY <1>1, <1>4, ConfNextLatest
  <2>2. Conf!InFirst(ConfList, confIndex - 1)
    BY <1>2, <1>3 DEF ConfWalkInv
  <2>3. Conf!InFirst(ConfList, confIndex)
    BY <2>1, <2>2 DEF Conf!InFirst, ConfLatest
  <2> QED BY <1>4, <2>3 DEF Conf!AllOf
<1>6. ConfSeen' = ConfSeen \cup {confIndex} /\ ConfList' = ConfList /\ Conf!Own' = Conf!Own
  BY <1>1, <1>5, ConfSeenNext, ConfReaderKeeps
<1> DEFINE n == confIfDesc[0].no_of_ep
<1>7. /\ confIfDesc[0].announced = Cardinality(Conf!Own) /\ n = Cardinality(ConfSeen)
      /\ \A i \in ConfFilled : \E k \in ConfSeen : ConfEntry(i, k)
      /\ \A k \in ConfSeen : \E i \in ConfFilled : ConfEntry(i, k)
  BY <1>2 DEF ConfFirstInv
<1>8. /\ n \in 0 .. MaxEndpoints - 1 /\ confIfDesc'[0].no_of_ep = n + 1
      /\ confIfDesc'[0].announced = confIfDesc[0].announced
      /\ confIfDesc'[0].ep_desc = [confIfDesc[0].ep_desc EXCEPT ![n] = ConfList[confIndex]]
      /\ confIfDesc[0].ep_desc \in [0 .. MaxEndpoints - 1 -> Conf!EndpointSet \cup {Conf!NoEndpoint}]
  <2>1. confIfDesc[0] \in ConfIfDesc
    BY <1>2, ConfSizesMax DEF ConfTableInv
  <2>2. confIfDesc[0].ep_desc \in [0 .. MaxEndpoints - 1 -> Conf!EndpointSet \cup {Conf!NoEndpoint}]
    BY <2>1 DEF ConfIfDesc
  <2>3. confEpno' = n /\ confEpno' \in 0 .. MaxEndpoints - 1
    BY <1>3, ConfEndpointPut
  <2>4. /\ confIfDesc'[0].no_of_ep = confEpno' + 1 /\ confIfDesc'[0].announced = confIfDesc[0].announced
        /\ confIfDesc'[0].ep_desc = [confIfDesc[0].ep_desc EXCEPT ![confEpno'] = Conf!This]
    BY <1>3, ConfEndpointPut
  <2> QED BY <1>4, <2>2, <2>3, <2>4
<1>9. confIfDesc'[0].announced = Cardinality(Conf!Own') /\ confIfDesc'[0].no_of_ep = Cardinality(ConfSeen')
  BY <1>5, <1>6, <1>7, <1>8, ConfFirstGrows
<1> HIDE DEF n
<1>10. n \in Nat /\ ConfFilled = 0 .. n - 1 /\ ConfFilled' = 0 .. n
  BY <1>8, ConfSizesMax DEF ConfFilled, n
<1>11. ConfFilled' = ConfFilled \cup {n} /\ n \notin ConfFilled /\ ConfFilled \subseteq 0 .. MaxEndpoints - 1
  BY <1>8, <1>10, ConfSizesMax
<1>12. confIfDesc'[0].ep_desc[n] = ConfList[confIndex] /\ \A i \in ConfFilled : confIfDesc'[0].ep_desc[i] = confIfDesc[0].ep_desc[i]
  BY <1>8, <1>11
<1>13. \A i, k : i = n /\ k = confIndex => ConfEntry(i, k)'
  <2>1. (n < confIfDesc[0].announced <=> confIndex \in Conf!Own) /\ n = ConfRank(confIndex)
    BY <1>5, <1>7, ConfFirstGrows
  <2> QED BY <1>6, <1>8, <1>12, <2>1, ConfRankKept DEF ConfEntry
<1>14. \A i \in ConfFilled : \A k : ConfEntry(i, k) => ConfEntry(i, k)'
  BY <1>6, <1>8, <1>12, ConfRankKept DEF ConfEntry
<1>15. \A i \in ConfFilled' : \E k \in ConfSeen' : ConfEntry(i, k)'
  BY <1>6, <1>7, <1>11, <1>13, <1>14
<1>16. \A k \in ConfSeen' : \E i \in ConfFilled' : ConfEntry(i, k)'
  BY <1>6, <1>7, <1>11, <1>13, <1>14
<1> QED BY <1>9, <1>15, <1>16 DEF ConfFirstInv

LEMMA ConfReaderFirst ==
    ASSUME Conf!UsbConfigAssumption, ConfInv, ConfReader
    PROVE  ConfFirstInv'
<1>1. ConfWalkInv /\ confIndex \in Nat \ {0} /\ 0 \in 0 .. MaxInterfaces - 1
  BY ConfListIs, ConfSizesMax DEF ConfInv
<1>2. ConfList[confIndex].kind # "endpoint" => confIndex \notin Conf!AllOf(ConfList)
  BY DEF Conf!AllOf
<1>3. CASE Conf!NewInterface
  <2>1. CASE confIndex = 1
    BY <1>3, <2>1, ConfNoneYet
  <2>2. CASE confIndex > 1
    <3>1. confNoOfIf >= 1 /\ confNoOfIf # 0
      BY <1>1, <2>2 DEF ConfWalkInv
    <3>2. confIfDesc'[0] = confIfDesc[0]
      BY <1>1, <1>3, <3>1, ConfInterfacePut
    <3>3. ConfList[confIndex].kind # "endpoint"
      BY <1>3, ConfThisIs DEF Conf!NewInterface
    <3> QED BY <1>2, <3>1, <3>2, <3>3, ConfFirstKept
  <2> QED BY <1>1, <2>1, <2>2
<1>4. CASE Conf!OtherSetting \/ Conf!Companion \/ Conf!Other
  <2>1. ConfList[confIndex].kind # "endpoint" /\ UNCHANGED confNoOfIf
    BY <1>4, ConfThisIs DEF Conf!OtherSetting, Conf!Companion, Conf!Other, Conf!parser
  <2>2. /\ confIfDesc'[0].announced = confIfDesc[0].announced /\ confIfDesc'[0].no_of_ep = confIfDesc[0].no_of_ep
        /\ confIfDesc'[0].ep_desc = confIfDesc[0].ep_desc
    BY <1>1, <1>4, ConfCompanionPut DEF Conf!OtherSetting, Conf!Other, Conf!parser
  <2>3. CASE confNoOfIf >= 1
    BY <1>2, <2>1, <2>2, <2>3, ConfFirstKept
  <2>4. CASE ~(confNoOfIf >= 1)
    BY <2>1, <2>4 DEF ConfFirstInv
  <2> QED BY <2>3, <2>4
<1>5. CASE Conf!Endpoint
  <2>1. confIndex > 1 /\ confNoOfIf >= 1
    BY <1>1, <1>5, ConfNotAtFirst DEF Conf!Endpoint, ConfWalkInv
  <2>2. CASE confNoOfIf = 1
    BY <1>5, <2>2, ConfOneMore
  <2>3. CASE confNoOfIf # 1
    <3>1. confIfno # 0 /\ ~Conf!InFirst(ConfList, confIndex - 1)
      BY <1>1, <2>1, <2>3 DEF ConfWalkInv
    <3>2. confIfDesc'[0] = confIfDesc[0]
      BY <1>1, <1>5, <3>1, ConfEndpointPut
    <3>3. confIndex \notin Conf!AllOf(ConfList)
      BY <2>1, <3>1, ConfFirstStays DEF Conf!AllOf
    <3> QED BY <2>1, <3>2, <3>3, ConfFirstKept
  <2> QED BY <2>2, <2>3
<1> QED BY <1>3, <1>4, <1>5 DEF ConfReader

LEMMA ConfReaderInv ==
    ASSUME Conf!UsbConfigAssumption, ConfInv, ConfReader
    PROVE  ConfInv'
  BY ConfReaderState, ConfReaderTable, ConfReaderWalk, ConfReaderFirst DEF ConfInv

-----------------------------------------------------------------------------
(* Pipes                                                                    *)

LEMMA ConfParseEndInv ==
    ASSUME Conf!UsbConfigAssumption, ConfInv, Conf!ParseEnd
    PROVE  ConfInv'
<1>1. UNCHANGED <<confDev, confBefore, confIndex, Conf!parser, Conf!udev, Conf!input, Conf!output>> /\ confPc = "parse" /\ confPc' = "pipes"
  BY DEF Conf!ParseEnd
<1>2. confIndex = Len(ConfList) + 1
  BY ConfListIs DEF Conf!ParseEnd, ConfInv, ConfStateInv, ConfList
<1>3. ConfStateInv' /\ ConfTableInv' /\ ConfKnownInv' /\ ConfPipeInv'
  BY <1>1 DEF ConfInv, ConfStateInv, ConfTableInv, ConfKnownInv, ConfPipeInv, ConfKnown,
     ConfHas, ConfList, Conf!parser, Conf!output
<1>4. ConfWalkInv'
  BY <1>1, <1>2 DEF ConfInv, ConfWalkInv, ConfList, ConfLatest, Conf!InFirst, Conf!parser
<1>5. ConfFirstInv'
  BY <1>1, ConfFirstSame DEF ConfInv, Conf!parser
<1>6. ConfPacketInv'
  BY <1>1, ConfPacketKept DEF ConfInv, Conf!udev
<1>7. ConfSlotInv'
  BY <1>1 DEF ConfInv, ConfSlotInv, ConfReading, Conf!ContextsOwn, Conf!output
<1> QED BY <1>3, <1>4, <1>5, <1>6, <1>7 DEF ConfInv

(* The whole list is read.                                                  *)
LEMMA ConfAllSeen ==
    ASSUME Conf!UsbConfigAssumption, ConfInv, confPc # "parse"
    PROVE  /\ confNoOfIf >= 1 /\ ConfSeen = Conf!AllOf(ConfList) /\ confIfDesc[0] \in ConfIfDesc
           /\ confIfDesc[0].announced = Cardinality(Conf!Own) /\ confIfDesc[0].no_of_ep = Cardinality(ConfSeen)
           /\ confIfDesc[0].announced \in 0 .. confIfDesc[0].no_of_ep
           /\ \A i \in ConfFilled : \E k \in Conf!AllOf(ConfList) : ConfEntry(i, k)
           /\ \A k \in Conf!AllOf(ConfList) : \E i \in ConfFilled : ConfEntry(i, k)
<1>1. confIndex = Len(ConfList) + 1 /\ Len(ConfList) \in Nat \ {0} /\ DOMAIN ConfList = 1 .. Len(ConfList)
  BY ConfListIs DEF ConfInv, ConfWalkInv
<1>2. confNoOfIf >= 1
  BY <1>1 DEF ConfInv, ConfWalkInv
<1>3. ConfSeen = Conf!AllOf(ConfList)
  <2>1. Conf!AllOf(ConfList) \subseteq DOMAIN ConfList
    BY DEF Conf!AllOf
  <2> QED BY <1>1, <2>1 DEF ConfSeen
<1>4. confIfDesc[0] \in ConfIfDesc
  BY ConfSizesMax DEF ConfInv, ConfTableInv
<1>5. /\ confIfDesc[0].announced = Cardinality(Conf!Own) /\ confIfDesc[0].no_of_ep = Cardinality(ConfSeen)
      /\ \A i \in ConfFilled : \E k \in ConfSeen : ConfEntry(i, k)
      /\ \A k \in ConfSeen : \E i \in ConfFilled : ConfEntry(i, k)
  BY <1>2 DEF ConfInv, ConfFirstInv
<1>6. Cardinality(Conf!Own) <= Cardinality(Conf!AllOf(ConfList)) /\ Cardinality(Conf!Own) \in Nat /\ Cardinality(Conf!AllOf(ConfList)) \in Nat
  <2>1. Conf!Own \in SUBSET Conf!AllOf(ConfList) /\ IsFiniteSet(Conf!AllOf(ConfList)) /\ IsFiniteSet(Conf!Own)
    BY ConfListIs, ConfSetsOf DEF ConfInv, ConfList
  <2> QED BY <2>1, FS_Subset, FS_CardinalityType
<1> QED BY <1>2, <1>3, <1>4, <1>5, <1>6

ConfCuts(x, b) == Conf!StartOf(x, b) \cup Conf!SizesAt(x, b)

LEMMA ConfFoundKnown ==
    ASSUME Conf!UsbConfigAssumption, ConfInv, NEW e \in Conf!AllAnnounced
    PROVE  ConfKnown(e) /\ e \in Conf!EndpointSet \cup {Conf!NoEndpoint} /\ e.size \in Conf!EndpointSizes
<1>1. confDev.interfaces \in 1 .. MaxInterfaces
  BY ConfListIs DEF ConfInv, Conf!UsbConfigAssumption
<1>2. PICK i \in 0 .. confDev.interfaces - 1 : e \in Conf!Announced(i)
  BY DEF Conf!AllAnnounced
<1>3. i \in 0 .. MaxInterfaces - 1
  BY <1>1, ConfSizesMax
<1>4. confIfDesc[i] \in ConfIfDesc
  BY <1>3 DEF ConfInv, ConfTableInv
<1>5. PICK k \in 0 .. confIfDesc[i].announced - 1 : e = confIfDesc[i].ep_desc[k]
  BY <1>2 DEF Conf!Announced
<1>6. k \in 0 .. MaxEndpoints - 1
  <2>1. confIfDesc[i].announced \in 0 .. MaxEndpoints
    BY <1>4 DEF ConfIfDesc
  <2> QED BY <2>1, ConfSizesMax
<1>7. ConfKnown(e)
  BY <1>3, <1>5, <1>6 DEF ConfInv, ConfKnownInv
<1>8. e \in Conf!EndpointSet \cup {Conf!NoEndpoint}
  <2>1. confIfDesc[i].ep_desc \in [0 .. MaxEndpoints - 1 -> Conf!EndpointSet \cup {Conf!NoEndpoint}]
    BY <1>4 DEF ConfIfDesc
  <2> QED BY <1>5, <1>6, <2>1
<1>9. e.size \in Conf!EndpointSizes
  <2>1. CASE e \in Conf!EndpointSet
    BY <2>1 DEF Conf!EndpointSet
  <2>2. CASE e = Conf!NoEndpoint
    BY <2>2, ConfSizesAre DEF Conf!NoEndpoint
  <2> QED BY <1>8, <2>1, <2>2
<1> QED BY <1>7, <1>8, <1>9

LEMMA ConfFoundType ==
    ASSUME Conf!UsbConfigAssumption, ConfInv, NEW e \in Conf!AllAnnounced, e.type = "control"
    PROVE  e.number = 0
<1>1. e \notin Conf!EndpointSet
  BY DEF Conf!EndpointSet, Conf!Types
<1>2. e = Conf!NoEndpoint
  BY <1>1, ConfFoundKnown
<1> QED BY <1>2 DEF Conf!NoEndpoint

LEMMA ConfStartIs ==
    ASSUME Conf!UsbConfigAssumption, ConfInv, NEW x \in Conf!Dirs, NEW b \in 0 .. 3
    PROVE  /\ Conf!StartOf(x, b) \subseteq Conf!EndpointSizes /\ Conf!StartOf(x, b) # {}
           /\ b \in Conf!Numbers => Conf!StartOf(x, b) = {confEpmaxpacket[x][b]}
<1>1. confEpmaxpacket[x][b] \in Conf!EndpointSizes
  BY DEF ConfInv, ConfPacketInv, ConfPacketType
<1>2. Conf!ControlSizes(b) \subseteq Conf!EndpointSizes
  BY ConfFoundKnown DEF Conf!ControlSizes
<1>3. b \in Conf!Numbers => Conf!ControlSizes(b) = {}
  <2>1. b \in Conf!Numbers => b # 0
    BY DEF Conf!Numbers
  <2> QED BY <2>1, ConfFoundType DEF Conf!ControlSizes
<1> QED BY <1>1, <1>2, <1>3 DEF Conf!StartOf

LEMMA ConfCutsMax ==
    ASSUME Conf!UsbConfigAssumption, ConfInv, NEW x \in Conf!Dirs, NEW b \in 0 .. 3
    PROVE  /\ Conf!Max(ConfCuts(x, b)) \in ConfCuts(x, b) /\ \A y \in ConfCuts(x, b) : Conf!Max(ConfCuts(x, b)) >= y
           /\ ConfCuts(x, b) \subseteq Conf!EndpointSizes
<1>1. Conf!StartOf(x, b) \subseteq Conf!EndpointSizes /\ Conf!StartOf(x, b) # {}
  BY ConfStartIs
<1>2. Conf!SizesAt(x, b) \subseteq Conf!EndpointSizes
  BY ConfFoundKnown DEF Conf!SizesAt
<1>3. ConfCuts(x, b) \in SUBSET Conf!EndpointSizes /\ ConfCuts(x, b) # {}
  BY <1>1, <1>2 DEF ConfCuts
<1> QED BY <1>3, ConfLargestSize

LEMMA ConfFoundSize ==
    ASSUME Conf!UsbConfigAssumption, ConfInv, NEW x \in Conf!Dirs, NEW b \in Conf!Numbers, NEW s \in Conf!SizesAt(x, b)
    PROVE  s \in Conf!Sizes(confDev, x, b) \cup Conf!SizesBefore(x, b)
<1>1. PICK e \in Conf!AllAnnounced : e.dir = x /\ e.number = b /\ s = e.size
  BY DEF Conf!SizesAt
<1>2. e # Conf!NoEndpoint
  BY <1>1 DEF Conf!NoEndpoint, Conf!Numbers
<1>3. ConfHas(confDev, e) \/ \E j \in DOMAIN confBefore : ConfHas(confBefore[j], e)
  BY <1>2, ConfFoundKnown DEF ConfKnown
<1> QED BY <1>1, <1>3, ConfHasSize DEF Conf!SizesBefore

LEMMA ConfPacketsSet ==
    ASSUME Conf!UsbConfigAssumption, ConfInv, Conf!SetMaxPacket
    PROVE  /\ \A x \in Conf!Dirs : confEpDir'[x] = Conf!First(x) /\ \A b \in 0 .. 3 : confEpmaxpacket'[x][b] = Conf!Max(ConfCuts(x, b))
           /\ ConfPacketInv'
<1>1. confEpmaxpacket' = [x \in Conf!Dirs |-> [b \in 0 .. 3 |-> Conf!Max(ConfCuts(x, b))]]
  BY DEF Conf!SetMaxPacket, ConfCuts
<1>2. \A x \in Conf!Dirs : \A b \in 0 .. 3 : Conf!Max(ConfCuts(x, b)) \in Conf!EndpointSizes
  BY ConfCutsMax
<1>3. ConfPacketType'
  BY <1>1, <1>2 DEF ConfPacketType
<1>4. ASSUME NEW x \in Conf!Dirs PROVE confEpDir'[x] = Conf!First(x)
  BY DEF Conf!SetMaxPacket
<1>5. ASSUME NEW x \in Conf!Dirs, NEW b \in 0 .. 3 PROVE confEpmaxpacket'[x][b] = Conf!Max(ConfCuts(x, b))
  BY <1>1
<1>6. ASSUME NEW x \in Conf!Dirs, NEW b \in Conf!Numbers
      PROVE  \/ confEpmaxpacket'[x][b] = 0
             \/ confEpmaxpacket'[x][b] \in Conf!SizesBefore(x, b)
             \/ confEpmaxpacket'[x][b] \in Conf!Sizes(confDev, x, b)
  <2>1. b \in 0 .. 3
    BY DEF Conf!Numbers
  <2>2. confEpmaxpacket'[x][b] \in ConfCuts(x, b)
    BY <1>5, <2>1, ConfCutsMax
  <2>3. CASE confEpmaxpacket'[x][b] = confEpmaxpacket[x][b]
    <3>1. ConfFrom(x, b) /\ confPc = "pipes"
      BY DEF ConfInv, ConfPacketInv, Conf!SetMaxPacket
    <3> QED BY <2>3, <3>1 DEF ConfFrom
  <2>4. CASE confEpmaxpacket'[x][b] \in Conf!SizesAt(x, b)
    BY <2>4, ConfFoundSize
  <2> QED BY <2>1, <2>2, <2>3, <2>4, ConfStartIs DEF ConfCuts
<1>7. confPc' = "configure" /\ UNCHANGED <<confDev, confBefore>>
  BY DEF Conf!SetMaxPacket
<1>8. \A x, b : Conf!SizesBefore(x, b)' = Conf!SizesBefore(x, b) /\ Conf!Sizes(confDev, x, b)' = Conf!Sizes(confDev, x, b)
  BY <1>7 DEF Conf!SizesBefore, Conf!Sizes
<1>9. ASSUME NEW x \in Conf!Dirs, NEW b \in Conf!Numbers PROVE ConfFrom(x, b)'
  BY <1>6, <1>7, <1>8 DEF ConfFrom
<1>10. ConfPacketInv'
  BY <1>3, <1>9 DEF ConfPacketInv
<1> QED BY <1>4, <1>5, <1>10

(* What a device with one interface has announced is its own.               *)
LEMMA ConfFoundOwn ==
    ASSUME Conf!UsbConfigAssumption, ConfInv, confPc = "pipes", confDev.interfaces = 1
    PROVE  /\ \A i \in 0 .. confIfDesc[0].announced - 1 : \E k \in Conf!Own : confIfDesc[0].ep_desc[i] = ConfList[k]
           /\ \A k \in Conf!Own : \E i \in 0 .. confIfDesc[0].announced - 1 : confIfDesc[0].ep_desc[i] = ConfList[k]
           /\ Conf!AllAnnounced = {ConfList[k] : k \in Conf!Own}
<1> DEFINE ann == 0 .. confIfDesc[0].announced - 1
<1>1. /\ confIfDesc[0].announced \in Nat /\ confIfDesc[0].no_of_ep \in Nat
      /\ ann \subseteq ConfFilled /\ \A i \in ConfFilled : i \in ann <=> i < confIfDesc[0].announced
  <2>1. confIfDesc[0].announced \in 0 .. confIfDesc[0].no_of_ep /\ confIfDesc[0].no_of_ep \in 0 .. MaxEndpoints
    BY ConfAllSeen DEF ConfIfDesc
  <2> QED BY <2>1, ConfSizesMax DEF ConfFilled
<1>2. Conf!Own \subseteq Conf!AllOf(ConfList)
  BY ConfListIs, ConfSetsOf DEF ConfInv, ConfList
<1>3. \A i \in ann : \E k \in Conf!Own : confIfDesc[0].ep_desc[i] = ConfList[k]
  BY <1>1, ConfAllSeen DEF ConfEntry
<1>4. \A k \in Conf!Own : \E i \in ann : confIfDesc[0].ep_desc[i] = ConfList[k]
  BY <1>1, <1>2, ConfAllSeen DEF ConfEntry
<1>5. Conf!AllAnnounced = Conf!Announced(0)
  <2>1. 0 .. confDev.interfaces - 1 = {0}
    OBVIOUS
  <2> QED BY <2>1 DEF Conf!AllAnnounced
<1>6. Conf!Announced(0) = {confIfDesc[0].ep_desc[i] : i \in ann}
  BY DEF Conf!Announced
<1> HIDE DEF ann
<1>7. Conf!AllAnnounced = {ConfList[k] : k \in Conf!Own}
  BY <1>3, <1>4, <1>5, <1>6
<1> QED BY <1>3, <1>4, <1>7 DEF ann

(* The first of the table is the first of the list.                         *)
LEMMA ConfRankOrder ==
    ASSUME Conf!UsbConfigAssumption, ConfInv, NEW j \in Conf!AllOf(ConfList), NEW k \in Conf!AllOf(ConfList), ConfRank(j) <= ConfRank(k)
    PROVE  j <= k
<1> DEFINE below(n) == {i \in Conf!AllOf(ConfList) : i < n}
<1>1. /\ IsFiniteSet(Conf!AllOf(ConfList)) /\ j \in Nat /\ k \in Nat
      /\ \A i \in Conf!AllOf(ConfList) : i \in Nat
  <2>1. Conf!AllOf(ConfList) \subseteq DOMAIN ConfList /\ DOMAIN ConfList = 1 .. Len(ConfList) /\ IsFiniteSet(Conf!AllOf(ConfList))
    BY ConfListIs, ConfSetsOf DEF ConfInv, ConfList
  <2> QED BY <2>1
<1>2. SUFFICES ASSUME k < j PROVE FALSE
  BY <1>1
<1>3. below(k) \in SUBSET below(j) /\ k \in below(j) /\ k \notin below(k)
  <2>1. \A i \in Conf!AllOf(ConfList) : i < k => i < j
    BY <1>1, <1>2
  <2>2. ~(k < k)
    BY <1>1
  <2> QED BY <1>2, <2>1, <2>2
<1>4. below(j) \in SUBSET Conf!AllOf(ConfList) /\ below(k) \in SUBSET Conf!AllOf(ConfList)
  OBVIOUS
<1> HIDE DEF below
<1>5. IsFiniteSet(below(j)) /\ IsFiniteSet(below(k))
  BY <1>1, <1>4, FS_Subset
<1>6. Cardinality(below(k)) <= Cardinality(below(j)) /\ Cardinality(below(j)) # Cardinality(below(k))
  BY <1>3, <1>5, FS_Subset
<1>7. Cardinality(below(j)) \in Nat /\ Cardinality(below(k)) \in Nat
  BY <1>5, FS_CardinalityType
<1>8. ConfRank(j) = Cardinality(below(j)) /\ ConfRank(k) = Cardinality(below(k))
  BY DEF ConfRank, below
<1> QED BY <1>6, <1>7, <1>8

LEMMA ConfFirstIs ==
    ASSUME Conf!UsbConfigAssumption, ConfInv, confPc = "pipes", confDev.interfaces = 1, ~confDev.hub, NEW x \in Conf!Dirs
    PROVE  /\ Conf!FirstOwn(x) \in Conf!Own /\ ConfList[Conf!FirstOwn(x)].dir = x
           /\ Conf!First(x) = ConfList[Conf!FirstOwn(x)].number
<1> DEFINE last == confIfDesc[0]
           at == {k \in 0 .. last.announced - 1 : last.ep_desc[k].type # "control" /\ last.ep_desc[k].dir = x}
           own == {k \in Conf!Own : ConfList[k].dir = x}
<1>1. Conf!First(x) = IF at = {} THEN 0 ELSE last.ep_desc[Conf!Min(at)].number
  <2>1. confDev.interfaces - 1 = 0
    OBVIOUS
  <2> QED BY <2>1 DEF Conf!First
<1>2. Conf!BothWays(ConfList)
  BY ConfListIs DEF ConfInv, Conf!UsbConfigAssumption, ConfList
<1>3. /\ last.announced \in Nat /\ 0 .. last.announced - 1 \subseteq ConfFilled
      /\ \A i \in ConfFilled : i \in 0 .. last.announced - 1 <=> i < last.announced
  <2>1. last.announced \in 0 .. last.no_of_ep /\ last.no_of_ep \in 0 .. MaxEndpoints
    BY ConfAllSeen DEF ConfIfDesc
  <2> QED BY <2>1, ConfSizesMax DEF ConfFilled
<1>4. /\ Conf!Own \subseteq Conf!AllOf(ConfList) /\ \A k \in Conf!Own : ConfList[k].type # "control" /\ k \in Nat
      /\ Conf!Own \in SUBSET Nat /\ IsFiniteSet(Conf!Own)
  <2>1. /\ Conf!Own \subseteq Conf!AllOf(ConfList) /\ Conf!AllOf(ConfList) \subseteq DOMAIN ConfList /\ DOMAIN ConfList = 1 .. Len(ConfList)
        /\ IsFiniteSet(Conf!Own) /\ \A k \in Conf!AllOf(ConfList) : ConfList[k] \in Conf!EndpointSet
    BY ConfListIs, ConfSetsOf DEF ConfInv, ConfList
  <2>2. \A e \in Conf!EndpointSet : e.type # "control"
    BY DEF Conf!EndpointSet, Conf!Types
  <2> QED BY <2>1, <2>2
<1>5. \A i \in 0 .. last.announced - 1 : \E k \in Conf!Own : ConfEntry(i, k)
  BY <1>3, ConfAllSeen DEF ConfEntry
<1>6. \A k \in Conf!Own : \E i \in 0 .. last.announced - 1 : ConfEntry(i, k)
  BY <1>3, <1>4, ConfAllSeen DEF ConfEntry
<1>7. \A i \in at : \E k \in own : ConfEntry(i, k)
  BY <1>5 DEF ConfEntry
<1>8. \A k \in own : \E i \in at : ConfEntry(i, k)
  BY <1>4, <1>6 DEF ConfEntry
<1>9. own # {} /\ own \in SUBSET Conf!Own
  BY <1>2, ConfListIs DEF Conf!BothWays, ConfInv
<1>10. at \in SUBSET Nat /\ IsFiniteSet(at)
  <2>1. at \in SUBSET Nat /\ \A y \in at : y <= last.announced
    BY <1>3
  <2> QED BY <1>3, <2>1, ConfFiniteBelow
<1>11. own \in SUBSET Nat /\ IsFiniteSet(own)
  BY <1>4, <1>9, FS_Subset
<1>12. Conf!FirstOwn(x) = Conf!Min(own)
  BY DEF Conf!FirstOwn, ConfList
<1> HIDE DEF at, own, last
<1>13. at # {}
  BY <1>8, <1>9
<1>14. Conf!Min(at) \in at /\ \A i \in at : Conf!Min(at) <= i
  BY <1>10, <1>13, ConfMinIs
<1>15. Conf!Min(own) \in own /\ \A k \in own : Conf!Min(own) <= k
  BY <1>9, <1>11, ConfMinIs
<1>16. PICK k \in own : ConfEntry(Conf!Min(at), k)
  BY <1>7, <1>14
<1>17. PICK i \in at : ConfEntry(i, Conf!Min(own))
  BY <1>8, <1>15
<1>18. ConfRank(k) <= ConfRank(Conf!Min(own))
  BY <1>14, <1>16, <1>17 DEF ConfEntry
<1>19. k = Conf!Min(own)
  <2>1. k <= Conf!Min(own)
    BY <1>4, <1>9, <1>15, <1>18, ConfRankOrder
  <2>2. k \in Nat /\ Conf!Min(own) \in Nat /\ Conf!Min(own) <= k
    BY <1>11, <1>15
  <2> QED BY <2>1, <2>2
<1>20. last.ep_desc[Conf!Min(at)] = ConfList[Conf!Min(own)]
  BY <1>16, <1>19 DEF ConfEntry, last
<1> QED BY <1>1, <1>9, <1>12, <1>13, <1>15, <1>20 DEF own

LEMMA ConfEndpointFields ==
    ASSUME NEW e \in Conf!EndpointSet
    PROVE  e.number \in Conf!Numbers /\ e.number \in 0 .. 3 /\ e.size \in Nat
<1>1. e.number \in Conf!Numbers /\ e.size \in Conf!EndpointSizes
  BY DEF Conf!EndpointSet
<1>2. e.number \in 0 .. 3
  BY <1>1 DEF Conf!Numbers
<1>3. e.size \in Nat
  BY <1>1, ConfSizesAre
<1> QED BY <1>1, <1>2, <1>3

LEMMA ConfPipesSet ==
    ASSUME Conf!UsbConfigAssumption, ConfInv, Conf!SetMaxPacket
    PROVE  ConfPipeInv'
<1>1. confPc = "pipes" /\ UNCHANGED <<confDev, confBefore>>
  BY DEF Conf!SetMaxPacket
<1>2. SUFFICES ASSUME confDev.interfaces = 1, ~confDev.hub, NEW x \in Conf!Dirs
      PROVE  Conf!Piped(x)'
  BY <1>1, <1>2 DEF ConfPipeInv
<1>3. PICK k \in Conf!Own : k = Conf!FirstOwn(x) /\ ConfList[k].dir = x /\ Conf!First(x) = ConfList[k].number
  BY <1>1, <1>2, ConfFirstIs
<1>fix. Conf!FirstOwn(x)' = k
  BY <1>1, <1>3 DEF Conf!FirstOwn, Conf!Own
<1> DEFINE e == ConfList[k]
           b == e.number
           cut == Conf!Max(ConfCuts(x, b))
<1>4. k \in Conf!AllOf(ConfList) /\ e \in Conf!EndpointSet
  BY ConfListIs, ConfSetsOf DEF ConfInv, ConfList
<1>5. b \in Conf!Numbers /\ b \in 0 .. 3 /\ e.size \in Nat
  BY <1>4, ConfEndpointFields
<1>6. confEpDir'[x] = b /\ confEpmaxpacket'[x][b] = cut
  <2>1. confEpDir'[x] = Conf!First(x)
    BY ConfPacketsSet
  <2>2. confEpmaxpacket'[x][b] = cut
    BY <1>5, ConfPacketsSet
  <2> QED BY <1>3, <2>1, <2>2
<1>7. e \in Conf!AllAnnounced
  BY <1>1, <1>2, ConfFoundOwn
<1>8. e.size \in ConfCuts(x, b)
  BY <1>3, <1>4, <1>7 DEF ConfCuts, Conf!SizesAt, Conf!EndpointSet, Conf!Types
<1>9. cut >= e.size /\ cut \in ConfCuts(x, b)
  BY <1>5, <1>8, ConfCutsMax
<1>10. ASSUME NEW s \in Conf!SizesAt(x, b) PROVE s = e.size
  <2>1. PICK f \in Conf!AllAnnounced : f.dir = x /\ f.number = b /\ f.size = s
    BY DEF Conf!SizesAt
  <2>2. PICK j \in Conf!Own : f = ConfList[j]
    BY <1>1, <1>2, <2>1, ConfFoundOwn
  <2>3. Conf!Unique(ConfList) /\ Conf!Own = Conf!OwnOf(ConfList)
    BY ConfListed, ConfListIs DEF ConfInv, ConfList
  <2>4. j = k
    BY <1>3, <2>1, <2>2, <2>3 DEF Conf!Unique, Conf!SameAddress
  <2> QED BY <2>1, <2>2, <2>4
<1>11. ASSUME cut > e.size PROVE cut \in Conf!SizesBefore(x, b)
  <2>0. cut \in Nat
    BY <1>5, <1>9, ConfCutsMax, ConfSizesAre
  <2>1. cut # e.size /\ cut # 0
    BY <1>5, <1>11, <2>0
  <2>2. cut = confEpmaxpacket[x][b]
    BY <1>5, <1>9, <1>10, <2>1, ConfStartIs DEF ConfCuts
  <2>3. ConfFrom(x, b)
    BY <1>5 DEF ConfInv, ConfPacketInv
  <2> QED BY <1>1, <2>1, <2>2, <2>3 DEF ConfFrom
<1>12. Conf!SizesBefore(x, b)' = Conf!SizesBefore(x, ConfList[k].number)
  BY <1>1 DEF Conf!SizesBefore, Conf!Sizes, ConfList
<1> HIDE DEF cut
<1> QED BY <1>1, <1>3, <1>fix, <1>6, <1>9, <1>11, <1>12 DEF Conf!Piped, ConfList

LEMMA ConfSetMaxPacketInv ==
    ASSUME Conf!UsbConfigAssumption, ConfInv, Conf!SetMaxPacket
    PROVE  ConfInv'
<1>1. UNCHANGED <<confDev, confBefore, confIndex, Conf!parser, Conf!input, Conf!output>> /\ confPc = "pipes" /\ confPc' = "configure"
  BY DEF Conf!SetMaxPacket
<1>3. ConfStateInv' /\ ConfTableInv' /\ ConfKnownInv'
  BY <1>1 DEF ConfInv, ConfStateInv, ConfTableInv, ConfKnownInv, ConfKnown, ConfHas, ConfList,
     Conf!parser, Conf!output
<1>4. ConfWalkInv'
  BY <1>1 DEF ConfInv, ConfWalkInv, ConfList, ConfLatest, Conf!InFirst, Conf!parser
<1>5. ConfFirstInv'
  BY <1>1, ConfFirstSame DEF ConfInv, Conf!parser
<1>7. ConfSlotInv'
  BY <1>1 DEF ConfInv, ConfSlotInv, ConfReading, Conf!ContextsOwn, Conf!output
<1> QED BY <1>3, <1>4, <1>5, <1>7, ConfPacketsSet, ConfPipesSet DEF ConfInv

-----------------------------------------------------------------------------
(* Contexts                                                                 *)

ConfIndexOf(i) == Conf!EpIndex(confIfDesc[0].ep_desc[i])
ConfIndexes == {ConfIndexOf(i) : i \in ConfFilled}
ConfContexts == [x \in ConfIndexes |-> Conf!Context(0, Conf!Max({i \in ConfFilled : ConfIndexOf(i) = x}))]
ConfLastIndex == Conf!Max({0} \cup ConfIndexes)

LEMMA ConfIndexType ==
    ASSUME NEW e \in Conf!EndpointSet
    PROVE  Conf!EpIndex(e) \in 1 .. 6
<1>1. CASE e.dir = "in"
  BY <1>1 DEF Conf!EndpointSet, Conf!EpIndex, Conf!Numbers, Conf!Types
<1>2. CASE e.dir # "in"
  BY <1>2 DEF Conf!EndpointSet, Conf!EpIndex, Conf!Numbers, Conf!Types
<1> QED BY <1>1, <1>2

LEMMA ConfIndexApart ==
    ASSUME NEW e \in Conf!EndpointSet, NEW f \in Conf!EndpointSet, Conf!EpIndex(e) = Conf!EpIndex(f)
    PROVE  Conf!SameAddress(e, f)
<1>1. /\ e.number \in 1 .. 3 /\ f.number \in 1 .. 3
      /\ e.dir = "in" \/ e.dir = "out"
      /\ f.dir = "in" \/ f.dir = "out"
  BY DEF Conf!EndpointSet, Conf!Numbers, Conf!Dirs
<1>2. \A g \in Conf!EndpointSet : Conf!EpIndex(g) = IF g.dir = "in" THEN 2 * g.number - 0 ELSE 2 * g.number - 1
  BY DEF Conf!EpIndex, Conf!EndpointSet, Conf!Types
<1> QED BY <1>1, <1>2 DEF Conf!SameAddress

LEMMA ConfIntervalShort ==
    ASSUME NEW speed, NEW e \in Conf!EndpointSet, e.type = "interrupt", e.every > 0
    PROVE  Conf!Interval(speed, e) <= e.every - 1
<1>1. e.every \in 0 .. 255
  BY DEF Conf!EndpointSet
<1>2. Conf!Interval(speed, e) = Conf!Clamp(e.every, 1, 16) - 1
  BY DEF Conf!Interval
<1> QED BY <1>1, <1>2 DEF Conf!Clamp

(* Each context is that of an endpoint of the first interface.              *)
LEMMA ConfContextOf ==
    ASSUME Conf!UsbConfigAssumption, ConfInv, confPc # "parse", NEW x \in ConfIndexes
    PROVE  \E k \in Conf!AllOf(ConfList) :
               /\ Conf!EpIndex(ConfList[k]) = x
               /\ ConfContexts[x].dir = ConfList[k].dir /\ ConfContexts[x].size = ConfList[k].size
               /\ ConfContexts[x].interval = Conf!Interval(confDev.speed, ConfList[k])
<1> DEFINE S == {i \in ConfFilled : ConfIndexOf(i) = x}
<1>1. S # {}
  BY DEF ConfIndexes
<1>2. S \in SUBSET Nat /\ IsFiniteSet(S)
  <2>1. confIfDesc[0].no_of_ep \in Nat
    BY ConfAllSeen, ConfSizesMax DEF ConfIfDesc
  <2>2. S \in SUBSET Nat /\ \A y \in S : y <= confIfDesc[0].no_of_ep
    BY <2>1 DEF ConfFilled
  <2> QED BY <2>1, <2>2, ConfFiniteBelow
<1>3. Conf!Max(S) \in S
  BY <1>1, <1>2, ConfMaxIs
<1>4. ConfContexts[x] = Conf!Context(0, Conf!Max(S))
  BY DEF ConfContexts
<1> HIDE DEF S
<1> DEFINE i == Conf!Max(S)
<1>5. i \in ConfFilled /\ ConfIndexOf(i) = x
  BY <1>3 DEF S
<1>6. PICK k \in Conf!AllOf(ConfList) : confIfDesc[0].ep_desc[i] = ConfList[k]
  BY <1>5, ConfAllSeen DEF ConfEntry
<1>7. Conf!EpIndex(ConfList[k]) = x
  BY <1>5, <1>6 DEF ConfIndexOf
<1>8. Conf!Context(0, i).dir = ConfList[k].dir /\ Conf!Context(0, i).size = ConfList[k].size /\ Conf!Context(0, i).interval = Conf!Interval(confDev.speed, ConfList[k])
  BY <1>6 DEF Conf!Context
<1> QED BY <1>4, <1>7, <1>8

LEMMA ConfIndexedAll ==
    ASSUME Conf!UsbConfigAssumption, ConfInv, confPc # "parse"
    PROVE  /\ \A k \in Conf!AllOf(ConfList) : Conf!EpIndex(ConfList[k]) \in ConfIndexes
           /\ ConfIndexes \subseteq 1 .. 6 /\ ConfLastIndex \in Nat /\ \A x \in ConfIndexes : x < ConfLastIndex + 1
<1>1. \A k \in Conf!AllOf(ConfList) : Conf!EpIndex(ConfList[k]) \in ConfIndexes
  BY ConfAllSeen DEF ConfEntry, ConfIndexes, ConfIndexOf
<1>2. ASSUME NEW x \in ConfIndexes PROVE x \in 1 .. 6
  <2>1. PICK k \in Conf!AllOf(ConfList) : Conf!EpIndex(ConfList[k]) = x
    BY ConfContextOf
  <2>2. ConfList[k] \in Conf!EndpointSet
    BY ConfListIs, ConfSetsOf DEF ConfInv, ConfList
  <2> QED BY <2>1, <2>2, ConfIndexType
<1> DEFINE S == {0} \cup ConfIndexes
<1>3. S \in SUBSET Nat /\ S # {} /\ \A y \in S : y <= 6
  <2>1. \A y \in S : y \in Nat /\ y <= 6
    BY <1>2
  <2> QED BY <2>1
<1>4. IsFiniteSet(S)
  BY <1>3, ConfFiniteBelow
<1>5. Conf!Max(S) \in S /\ \A y \in S : Conf!Max(S) >= y
  BY <1>3, <1>4, ConfMaxIs
<1>6. ConfLastIndex = Conf!Max(S)
  BY DEF ConfLastIndex
<1> HIDE DEF S
<1>7. ConfLastIndex \in Nat /\ \A y \in S : y < ConfLastIndex + 1
  <2>1. ConfLastIndex \in S /\ \A y \in S : ConfLastIndex >= y /\ y \in Nat
    BY <1>3, <1>5, <1>6
  <2>2. ConfLastIndex \in Nat
    BY <2>1
  <2>3. ASSUME NEW y \in S PROVE y < ConfLastIndex + 1
    <3>1. y \in Nat /\ ConfLastIndex >= y
      BY <2>1
    <3> QED BY <2>2, <3>1
  <2> QED BY <2>2, <2>3
<1> QED BY <1>1, <1>2, <1>7 DEF S

LEMMA ConfOwnTaken ==
    ASSUME Conf!UsbConfigAssumption, ConfInv, confPc = "configure", NEW k \in Conf!Own, NEW x, x = Conf!EpIndex(ConfList[k])
    PROVE  /\ x \in ConfIndexes /\ x < ConfLastIndex + 1
           /\ ConfContexts[x].size \in Conf!Sizes(confDev, ConfList[k].dir, ConfList[k].number)
           /\ ConfContexts[x].dir = ConfList[k].dir
           /\ ConfList[k].type = "interrupt" /\ ConfList[k].every > 0 => ConfContexts[x].interval <= ConfList[k].every - 1
<1>1. k \in Conf!AllOf(ConfList) /\ \A j \in Conf!AllOf(ConfList) : ConfList[j] \in Conf!EndpointSet /\ j \in DOMAIN ConfList /\ ConfList[j].kind = "endpoint"
  BY ConfListIs, ConfSetsOf DEF ConfInv, ConfList, Conf!AllOf
<1>2. x \in ConfIndexes /\ x < ConfLastIndex + 1
  BY <1>1, ConfIndexedAll
<1>3. PICK j \in Conf!AllOf(ConfList) :
          /\ Conf!EpIndex(ConfList[j]) = x
          /\ ConfContexts[x].dir = ConfList[j].dir /\ ConfContexts[x].size = ConfList[j].size
          /\ ConfContexts[x].interval = Conf!Interval(confDev.speed, ConfList[j])
  BY <1>2, ConfContextOf
<1>4. Conf!SameAddress(ConfList[j], ConfList[k])
  BY <1>1, <1>3, ConfIndexApart
<1>5. ConfList[j].type = ConfList[k].type /\ ConfList[j].every = ConfList[k].every
  <2>1. Conf!Alike(ConfList)
    BY ConfListed, ConfListIs DEF ConfInv, ConfList
  <2> QED BY <1>1, <1>4, <2>1 DEF Conf!Alike
<1>6. ConfContexts[x].size \in Conf!Sizes(confDev, ConfList[k].dir, ConfList[k].number)
  BY <1>1, <1>3, <1>4 DEF Conf!Sizes, Conf!SameAddress, ConfList
<1>7. ConfList[k].type = "interrupt" /\ ConfList[k].every > 0 => ConfContexts[x].interval <= ConfList[k].every - 1
  BY <1>1, <1>3, <1>5, ConfIntervalShort
<1> QED BY <1>2, <1>3, <1>4, <1>6, <1>7 DEF Conf!SameAddress

LEMMA ConfConfigurationIs ==
    ASSUME Conf!SetConfiguration
    PROVE  /\ confInSlot' = [confOutSlot EXCEPT !.last = ConfLastIndex + 1]
           /\ Conf!ConfigureEndpoints(ConfContexts)
           /\ confPc = "configure" /\ confPc' = IF confDev.hub THEN "hub" ELSE "ready"
           /\ UNCHANGED <<confDev, confBefore, confIndex, Conf!parser, Conf!udev>>
  BY DEF Conf!SetConfiguration, ConfLastIndex, ConfIndexes, ConfIndexOf, ConfContexts,
     ConfFilled, Conf!CopyOfSlot

LEMMA ConfSetConfigurationSlot ==
    ASSUME Conf!UsbConfigAssumption, ConfInv, Conf!SetConfiguration
    PROVE  ConfSlotInv' /\ confRefused' \in BOOLEAN
<1>1. confPc = "configure" /\ confPc' = IF confDev.hub THEN "hub" ELSE "ready"
  BY ConfConfigurationIs
<1>2. UNCHANGED <<confDev, confBefore>> /\ Conf!Own' = Conf!Own /\ ConfList' = ConfList
  BY ConfConfigurationIs DEF Conf!Own, ConfList
<1>3. /\ confOutSlot \in ConfSlot /\ confOutSlot.speed = confDev.speed /\ confOutCtx = <<>> /\ ~confRefused /\ ~confOutSlot.hub
      /\ confRefused \in BOOLEAN
  BY <1>1 DEF ConfInv, ConfSlotInv, ConfStateInv, ConfReading
<1>4. confDev.hub \in BOOLEAN
  BY ConfListIs DEF ConfInv, Conf!UsbConfigAssumption
<1>5. /\ confPc' # "parse" /\ confPc' # "pipes" /\ confPc' # "configure"
      /\ confPc' = "hub" => confDev.hub
      /\ confPc' = "ready" => ~confDev.hub
  BY <1>1, <1>4
<1>6. CASE confOutSlot' = confInSlot' /\ confOutCtx' = ConfContexts /\ UNCHANGED confRefused
  <2>1. /\ confOutSlot' \in ConfSlot /\ confOutSlot'.speed = confDev.speed /\ ~confOutSlot'.hub
        /\ confOutSlot'.last = ConfLastIndex + 1
    <3>1. confInSlot' = [confOutSlot EXCEPT !.last = ConfLastIndex + 1] /\ ConfLastIndex + 1 \in Nat
      BY <1>1, ConfConfigurationIs, ConfIndexedAll
    <3> QED BY <1>3, <1>6, <3>1 DEF ConfSlot
  <2>2. DOMAIN confOutCtx' = ConfIndexes
    BY <1>6 DEF ConfContexts
  <2>3. ASSUME NEW k \in Conf!Own PROVE Conf!Taken(k)'
    BY <1>1, <1>2, <1>6, <2>1, <2>2, ConfOwnTaken DEF Conf!Taken, Conf!Sizes, ConfList
  <2>4. Conf!ContextsOwn'
    <3>1. \A x \in ConfIndexes : \E k \in DOMAIN ConfList : ConfList[k].kind = "endpoint" /\ Conf!EpIndex(ConfList[k]) = x
      BY <1>1, ConfContextOf DEF Conf!AllOf
    <3> QED BY <1>2, <2>2, <3>1 DEF Conf!ContextsOwn, ConfList
  <2>5. confPc' = "ready" => confOutSlot'.hub = confDev'.hub
    BY <1>2, <1>4, <1>5, <2>1 DEF ConfSlot
  <2> QED BY <1>2, <1>3, <1>5, <1>6, <2>1, <2>3, <2>4, <2>5 DEF ConfSlotInv, ConfReading
<1>7. CASE confRefused' = TRUE /\ UNCHANGED <<confOutSlot, confOutCtx>>
  <2>1. Conf!ContextsOwn'
    BY <1>3, <1>7 DEF Conf!ContextsOwn
  <2> QED BY <1>2, <1>3, <1>5, <1>7, <2>1 DEF ConfSlotInv, ConfReading
<1> QED BY <1>3, <1>6, <1>7, ConfConfigurationIs DEF Conf!ConfigureEndpoints

(* What the steps after the pipes' leave alone.                             *)
LEMMA ConfTablesKept ==
    ASSUME ConfInv, UNCHANGED <<confDev, confBefore, confIndex, Conf!parser, Conf!udev>>, confPc \notin {"parse", "pipes"},
           confPc' \in {"hub", "ready"}, confRefused' \in BOOLEAN
    PROVE  ConfStateInv' /\ ConfTableInv' /\ ConfKnownInv' /\ ConfWalkInv' /\ ConfFirstInv' /\ ConfPacketInv' /\ ConfPipeInv'
<1>1. ConfStateInv' /\ ConfTableInv' /\ ConfKnownInv'
  BY DEF ConfInv, ConfStateInv, ConfTableInv, ConfKnownInv, ConfKnown, ConfHas, ConfList,
     Conf!parser
<1>2. ConfWalkInv'
  BY DEF ConfInv, ConfWalkInv, ConfList, ConfLatest, Conf!InFirst, Conf!parser
<1>3. ConfFirstInv'
  BY ConfFirstSame DEF ConfInv, Conf!parser
<1>4. \A x, b : Conf!SizesBefore(x, b)' = Conf!SizesBefore(x, b) /\ Conf!Sizes(confDev, x, b)' = Conf!Sizes(confDev, x, b)
  BY DEF Conf!SizesBefore, Conf!Sizes
<1>5. ConfPacketInv'
  <2>1. confPc' \notin {"parse", "pipes"}
    OBVIOUS
  <2> QED BY <2>1, ConfPacketKept DEF ConfInv, Conf!udev
<1>6. \A x : Conf!Piped(x)' <=> Conf!Piped(x)
  BY <1>4 DEF Conf!Own, Conf!FirstOwn, Conf!Piped, Conf!udev
<1>7. ConfPipeInv'
  BY <1>6 DEF ConfInv, ConfPipeInv
<1> QED BY <1>1, <1>2, <1>3, <1>5, <1>7

LEMMA ConfSetConfigurationInv ==
    ASSUME Conf!UsbConfigAssumption, ConfInv, Conf!SetConfiguration
    PROVE  ConfInv'
<1>1. confPc = "configure" /\ confPc' \in {"hub", "ready"} /\ UNCHANGED <<confDev, confBefore, confIndex, Conf!parser, Conf!udev>>
  BY ConfConfigurationIs
<1> QED BY <1>1, ConfTablesKept, ConfSetConfigurationSlot DEF ConfInv

LEMMA ConfUpdateHubInv ==
    ASSUME Conf!UsbConfigAssumption, ConfInv, Conf!UpdateHub
    PROVE  ConfInv'
<1>1. confPc = "hub" /\ confPc' = "ready" /\ UNCHANGED <<confDev, confBefore, confIndex, Conf!parser, Conf!udev>>
  BY DEF Conf!UpdateHub
<1>2. confInSlot' = [confOutSlot EXCEPT !.hub = TRUE] /\ Conf!ConfigureEndpoints(confOutCtx)
  BY DEF Conf!UpdateHub, Conf!CopyOfSlot
<1>3. /\ confOutSlot \in ConfSlot /\ confOutSlot.speed = confDev.speed /\ confDev.hub
      /\ ~confRefused => \A k \in Conf!Own : Conf!Taken(k)
      /\ Conf!ContextsOwn /\ confRefused \in BOOLEAN
  BY <1>1 DEF ConfInv, ConfSlotInv, ConfStateInv, ConfReading
<1>4. confDev.hub \in BOOLEAN
  BY ConfListIs DEF ConfInv, Conf!UsbConfigAssumption
<1>5. Conf!Own' = Conf!Own
  BY <1>1 DEF Conf!Own
<1>6. CASE confOutSlot' = confInSlot' /\ confOutCtx' = confOutCtx /\ UNCHANGED confRefused
  <2>1. confOutSlot' \in ConfSlot /\ confOutSlot'.speed = confDev.speed /\ confOutSlot'.hub = TRUE /\ confOutSlot'.last = confOutSlot.last
    BY <1>2, <1>3, <1>6 DEF ConfSlot
  <2>2. \A k : Conf!Taken(k) => Conf!Taken(k)'
    BY <1>1, <1>6, <2>1 DEF Conf!Taken, Conf!Sizes
  <2>3. Conf!ContextsOwn'
    BY <1>1, <1>3, <1>6 DEF Conf!ContextsOwn
  <2>4. ConfSlotInv'
    BY <1>1, <1>3, <1>4, <1>5, <1>6, <2>1, <2>2, <2>3 DEF ConfSlotInv, ConfReading
  <2>5. confRefused' \in BOOLEAN
    BY <1>3, <1>6
  <2> QED BY <1>1, <2>4, <2>5, ConfTablesKept DEF ConfInv
<1>7. CASE confRefused' = TRUE /\ UNCHANGED <<confOutSlot, confOutCtx>>
  <2>1. Conf!ContextsOwn'
    BY <1>1, <1>3, <1>7 DEF Conf!ContextsOwn
  <2>2. ConfSlotInv'
    BY <1>1, <1>3, <1>7, <2>1 DEF ConfSlotInv, ConfReading
  <2> QED BY <1>1, <1>7, <2>2, ConfTablesKept DEF ConfInv
<1> QED BY <1>2, <1>6, <1>7 DEF Conf!ConfigureEndpoints

-----------------------------------------------------------------------------
(* One device after another                                                 *)

LEMMA ConfAddressedIs ==
    ASSUME Conf!UsbConfigAssumption, NEW d \in Devices
    PROVE  /\ Conf!Addressed(d) \in ConfSlot /\ Conf!Addressed(d).speed = d.speed /\ ~Conf!Addressed(d).hub
           /\ Len(d.list) \in Nat
<1>1. d.speed \in {"high", "super"}
  BY DEF Conf!UsbConfigAssumption
<1>2. Len(d.list) \in Nat
  BY ConfListed
<1> QED BY <1>1, <1>2 DEF Conf!Addressed, ConfSlot

LEMMA ConfInitInv ==
    ASSUME Conf!UsbConfigAssumption, Conf!Init
    PROVE  ConfInv
<1>1. /\ confDev \in Devices /\ confBefore \in Seq(Devices) /\ confRefused = FALSE
      /\ confPc = "parse" /\ confIndex = 1 /\ confIfno = -1 /\ confEpno = -1 /\ confCurrIfNum = -1 /\ confNoOfIf = 0
      /\ confOutSlot = Conf!Addressed(confDev) /\ confOutCtx = <<>>
  BY DEF Conf!Init
<1>2. ConfStateInv /\ ConfWalkInv /\ ConfFirstInv /\ ConfPipeInv /\ ConfSlotInv
  <2>1. 1 \in 1 .. Len(ConfList) + 1
    BY <1>1, ConfAddressedIs DEF ConfList
  <2>2. ConfStateInv
    BY <1>1, <2>1 DEF ConfStateInv
  <2>3. ConfWalkInv
    BY <1>1, ConfSizesMax DEF ConfWalkInv
  <2>4. ConfFirstInv /\ ConfPipeInv
    BY <1>1 DEF ConfFirstInv, ConfPipeInv
  <2>5. ConfSlotInv
    BY <1>1, ConfAddressedIs DEF ConfSlotInv, ConfReading, Conf!ContextsOwn
  <2> QED BY <2>2, <2>3, <2>4, <2>5
<1> DEFINE eps == [k \in 0 .. MaxEndpoints - 1 |-> Conf!NoEndpoint]
           bursts == [k \in 0 .. MaxEndpoints - 1 |-> 0]
           one == [announced |-> 0, no_of_ep |-> 0, ep_desc |-> eps, burst |-> bursts]
<1>3. confIfDesc = [i \in 0 .. MaxInterfaces - 1 |-> one]
  BY DEF Conf!Init
<1>4. eps \in [0 .. MaxEndpoints - 1 -> Conf!EndpointSet \cup {Conf!NoEndpoint}]
  BY Zenon
<1>5. bursts \in [0 .. MaxEndpoints - 1 -> 0 .. 15]
  OBVIOUS
<1>6. \A k \in 0 .. MaxEndpoints - 1 : eps[k] = Conf!NoEndpoint
  BY Zenon
<1> HIDE DEF eps, bursts
<1>7. one \in ConfIfDesc
  BY <1>4, <1>5, ConfSizesMax DEF ConfIfDesc
<1>8. one.ep_desc = eps
  OBVIOUS
<1> HIDE DEF one
<1>9. ConfTableInv
  BY <1>3, <1>7 DEF ConfTableInv
<1>10. ConfKnownInv
  BY <1>3, <1>6, <1>8 DEF ConfKnownInv, ConfKnown
<1>11. ConfPacketInv
  <2>1. confEpmaxpacket = [x \in Conf!Dirs |-> [b \in 0 .. 3 |-> IF b = 0 THEN 64 ELSE 0]]
    BY DEF Conf!Init
  <2>2. \A b \in 0 .. 3 : (IF b = 0 THEN 64 ELSE 0) \in Conf!EndpointSizes
    BY ConfSizesAre
  <2>3. ConfPacketType
    BY <2>1, <2>2 DEF ConfPacketType
  <2>4. \A x \in Conf!Dirs : \A b \in Conf!Numbers : confEpmaxpacket[x][b] = 0
    BY <2>1 DEF Conf!Numbers
  <2> QED BY <2>3, <2>4 DEF ConfPacketInv, ConfFrom
<1> QED BY <1>2, <1>9, <1>10, <1>11 DEF ConfInv

LEMMA ConfNextDeviceInv ==
    ASSUME Conf!UsbConfigAssumption, ConfInv, Conf!NextDevice
    PROVE  ConfInv'
<1>1. /\ confPc = "ready" /\ confDev' \in Devices /\ confBefore' = Append(confBefore, confDev) /\ UNCHANGED <<confIfDesc, confEpDir>>
      /\ confPc' = "parse" /\ confIndex' = 1 /\ confIfno' = -1 /\ confEpno' = -1 /\ confCurrIfNum' = -1 /\ confNoOfIf' = 0
      /\ confOutSlot' = Conf!Addressed(confDev)' /\ confOutCtx' = <<>> /\ confRefused' = FALSE
  BY DEF Conf!NextDevice, Conf!Addressed
<1>2. confEpmaxpacket' = [x \in Conf!Dirs |-> [confEpmaxpacket[x] EXCEPT ![0] = 64]]
  BY DEF Conf!NextDevice
<1>3. ConfStateInv /\ ConfTableInv /\ ConfKnownInv /\ ConfPacketInv
  BY DEF ConfInv
<1>4. /\ confBefore \in Seq(Devices) /\ confDev \in Devices /\ confBefore' \in Seq(Devices)
      /\ DOMAIN confBefore' = 1 .. Len(confBefore) + 1 /\ DOMAIN confBefore = 1 .. Len(confBefore) /\ Len(confBefore) \in Nat
      /\ confBefore'[Len(confBefore) + 1] = confDev /\ \A b \in DOMAIN confBefore : confBefore'[b] = confBefore[b]
  <2>1. confBefore \in Seq(Devices) /\ confDev \in Devices
    BY <1>3 DEF ConfStateInv
  <2> QED BY <1>1, <2>1
<1>5. ConfStateInv' /\ ConfWalkInv' /\ ConfFirstInv' /\ ConfPipeInv' /\ ConfSlotInv'
  <2>1. 1 \in 1 .. Len(ConfList') + 1
    BY <1>1, ConfAddressedIs DEF ConfList
  <2>2. ConfStateInv'
    BY <1>1, <1>4, <2>1 DEF ConfStateInv
  <2>3. ConfWalkInv'
    BY <1>1, ConfSizesMax DEF ConfWalkInv
  <2>4. ConfFirstInv' /\ ConfPipeInv'
    BY <1>1 DEF ConfFirstInv, ConfPipeInv
  <2>5. confOutSlot' \in ConfSlot /\ confOutSlot'.speed = confDev'.speed /\ ~confOutSlot'.hub
    <3>1. confOutSlot' = Conf!Addressed(confDev')
      BY <1>1 DEF Conf!Addressed
    <3> QED BY <1>1, <3>1, ConfAddressedIs
  <2>6. ConfSlotInv'
    BY <1>1, <2>5 DEF ConfSlotInv, ConfReading, Conf!ContextsOwn
  <2> QED BY <2>2, <2>3, <2>4, <2>6
<1>7. ConfTableInv' /\ ConfKnownInv'
  <2>1. \A e : ConfKnown(e) => ConfKnown(e)'
    <3>1. Len(confBefore) + 1 \in DOMAIN confBefore' /\ DOMAIN confBefore \subseteq DOMAIN confBefore'
      BY <1>4
    <3> QED BY <1>4, <3>1 DEF ConfKnown, ConfHas
  <2> QED BY <1>1, <1>3, <2>1 DEF ConfTableInv, ConfKnownInv
<1>8. ConfPacketInv'
  <2>1. \A x \in Conf!Dirs : confEpmaxpacket[x] \in [0 .. 3 -> Conf!EndpointSizes]
    BY <1>3 DEF ConfPacketInv, ConfPacketType
  <2>2. ASSUME NEW x \in Conf!Dirs
        PROVE  /\ [confEpmaxpacket[x] EXCEPT ![0] = 64] \in [0 .. 3 -> Conf!EndpointSizes]
               /\ \A b \in Conf!Numbers : confEpmaxpacket'[x][b] = confEpmaxpacket[x][b]
    <3>1. 64 \in Conf!EndpointSizes /\ 0 \in 0 .. 3
      BY ConfSizesAre
    <3>2. confEpmaxpacket'[x] = [confEpmaxpacket[x] EXCEPT ![0] = 64]
      BY <1>2
    <3>3. \A b \in Conf!Numbers : b \in 0 .. 3 /\ b # 0
      BY DEF Conf!Numbers
    <3> QED BY <2>1, <3>1, <3>2, <3>3
  <2>3. ConfPacketType'
    BY <1>2, <2>2 DEF ConfPacketType
  <2>4. \A x, b : Conf!Sizes(confDev, x, b) \subseteq Conf!SizesBefore(x, b)' /\ Conf!SizesBefore(x, b) \subseteq Conf!SizesBefore(x, b)'
    <3>1. Len(confBefore) + 1 \in DOMAIN confBefore' /\ DOMAIN confBefore \subseteq DOMAIN confBefore'
      BY <1>4
    <3>2. \A x, b : Conf!SizesBefore(x, b)' = UNION {Conf!Sizes(confBefore'[j], x, b) : j \in DOMAIN confBefore'}
      BY DEF Conf!SizesBefore, Conf!Sizes
    <3>3. \A x, b, s : s \in Conf!SizesBefore(x, b) => \E j \in DOMAIN confBefore : s \in Conf!Sizes(confBefore[j], x, b)
      BY DEF Conf!SizesBefore
    <3>4. \A x, b, s : s \in Conf!Sizes(confDev, x, b) => s \in Conf!SizesBefore(x, b)'
      BY <1>4, <3>1, <3>2
    <3>5. \A x, b, s : s \in Conf!SizesBefore(x, b) => s \in Conf!SizesBefore(x, b)'
      BY <1>4, <3>1, <3>2, <3>3
    <3> QED BY <3>4, <3>5
  <2>5. ASSUME NEW x \in Conf!Dirs, NEW b \in Conf!Numbers
        PROVE  confEpmaxpacket'[x][b] = 0 \/ confEpmaxpacket'[x][b] \in Conf!SizesBefore(x, b)'
    <3>1. \/ confEpmaxpacket[x][b] = 0
          \/ confEpmaxpacket[x][b] \in Conf!SizesBefore(x, b)
          \/ confEpmaxpacket[x][b] \in Conf!Sizes(confDev, x, b)
      BY <1>3 DEF ConfPacketInv, ConfFrom
    <3>2. confEpmaxpacket'[x][b] = confEpmaxpacket[x][b]
      BY <2>2
    <3>3. CASE confEpmaxpacket[x][b] = 0
      BY <3>2, <3>3
    <3>4. CASE confEpmaxpacket[x][b] \in Conf!SizesBefore(x, b)
      BY <2>4, <3>2, <3>4
    <3>5. CASE confEpmaxpacket[x][b] \in Conf!Sizes(confDev, x, b)
      BY <2>4, <3>2, <3>5
    <3> QED BY <3>1, <3>3, <3>4, <3>5
  <2>6. ASSUME NEW x \in Conf!Dirs, NEW b \in Conf!Numbers PROVE ConfFrom(x, b)'
    BY <2>5 DEF ConfFrom
  <2> QED BY <2>3, <2>6 DEF ConfPacketInv
<1> QED BY <1>5, <1>7, <1>8 DEF ConfInv

LEMMA ConfStutterInv ==
    ASSUME ConfInv, UNCHANGED Conf!vars
    PROVE  ConfInv'
<1>1. ConfStateInv' /\ ConfTableInv' /\ ConfKnownInv' /\ ConfWalkInv'
  BY DEF ConfInv, ConfStateInv, ConfTableInv, ConfKnownInv, ConfKnown, ConfHas, ConfList,
     ConfWalkInv, ConfLatest, Conf!InFirst, Conf!vars, Conf!parser, Conf!output
<1>2. ConfFirstInv'
  BY ConfFirstSame DEF ConfInv, Conf!vars, Conf!parser
<1>3. \A x, b : Conf!SizesBefore(x, b)' = Conf!SizesBefore(x, b) /\ Conf!Sizes(confDev, x, b)' = Conf!Sizes(confDev, x, b)
  BY DEF Conf!SizesBefore, Conf!Sizes, Conf!vars
<1>4. ConfPacketInv'
  <2>1. UNCHANGED <<confDev, confBefore, confEpmaxpacket, confPc>>
    BY DEF Conf!vars, Conf!udev
  <2>2. confPc' \notin {"parse", "pipes"} \/ confPc \in {"parse", "pipes"}
    BY <2>1
  <2> QED BY <2>1, <2>2, ConfPacketKept DEF ConfInv
<1>5. \A x : Conf!Piped(x)' <=> Conf!Piped(x)
  BY <1>3 DEF Conf!Own, Conf!FirstOwn, Conf!Piped, Conf!vars, Conf!udev
<1>6. ConfPipeInv'
  BY <1>5 DEF ConfInv, ConfPipeInv, Conf!vars
<1>7. ConfSlotInv'
  BY DEF ConfInv, ConfSlotInv, ConfReading, Conf!ContextsOwn, Conf!Own, Conf!Taken, Conf!Sizes,
     Conf!vars, Conf!output
<1> QED BY <1>1, <1>2, <1>4, <1>6, <1>7 DEF ConfInv

LEMMA ConfNextInv ==
    ASSUME Conf!UsbConfigAssumption, ConfInv, [Conf!Next]_(Conf!vars)
    PROVE  ConfInv'
<1>1. CASE ConfReader
  BY <1>1, ConfReaderInv
<1>2. CASE Conf!ParseEnd
  BY <1>2, ConfParseEndInv
<1>3. CASE Conf!SetMaxPacket
  BY <1>3, ConfSetMaxPacketInv
<1>4. CASE Conf!SetConfiguration
  BY <1>4, ConfSetConfigurationInv
<1>5. CASE Conf!UpdateHub
  BY <1>5, ConfUpdateHubInv
<1>6. CASE Conf!NextDevice
  BY <1>6, ConfNextDeviceInv
<1>7. CASE UNCHANGED Conf!vars
  BY <1>7, ConfStutterInv
<1> QED BY <1>1, <1>2, <1>3, <1>4, <1>5, <1>6, <1>7 DEF Conf!Next, Conf!Driver, ConfReader

LEMMA ConfInvFits ==
    ASSUME ConfInv
    PROVE  Conf!EndpointsFit
  BY DEF ConfInv, ConfSlotInv, ConfPipeInv, ConfReading, Conf!EndpointsFit

-----------------------------------------------------------------------------
(* The parts in Bringup.                                                     *)

LEMMA DramSteps ==
    ASSUME [Next]_vars
    PROVE  [Dram!Next]_(Dram!vars)
<1>1. Dram!Next \/ UNCHANGED dramVars
  BY DEF Next, vars, start, usb, CpuStep, OtpStep, PmicStep, VerStep, FwStep, ConfStep,
     RootStep, TdStep, DramStep, MonStep
<1>2. UNCHANGED dramVars => UNCHANGED Dram!vars
  BY DEF dramVars, Dram!vars
<1> QED BY <1>1, <1>2

(* The test of DRAM fails exactly on a memory with a fault among the tested *)
(* words, for any range, any bit that is stuck and any address line         *)
(* (dram_test).                                                             *)
THEOREM FaultsAreFound == Spec => []FaultsFound
<1>1. Dram!DramTestAssumption
  BY BringupAssumption DEF BringupAssumption
<1>2. Init => DramInv
  BY <1>1, DramInitInv DEF Init
<1>3. DramInv /\ [Next]_vars => DramInv'
  BY <1>1, DramNextInv, DramSteps
<1>4. DramInv => FaultsFound
  BY <1>1 DEF DramInv, DramOutInv, Dram!FaultsFound, FaultsFound
<1> QED BY <1>2, <1>3, <1>4, PTL DEF Spec

LEMMA RootSteps ==
    ASSUME [Next]_vars
    PROVE  [Root!Next]_(Root!vars)
<1>1. Root!Next \/ UNCHANGED rootVars
  BY DEF Next, vars, start, usb, CpuStep, OtpStep, PmicStep, VerStep, FwStep, ConfStep,
     RootStep, TdStep, DramStep, MonStep
<1>2. UNCHANGED rootVars => UNCHANGED Root!vars
  BY DEF rootVars, Root!vars
<1> QED BY <1>1, <1>2

(* The controller is set up before it runs, and a root port that is taken   *)
(* is enabled and has the device the driver goes on with, whatever the      *)
(* controller does in between and whoever plugs devices in and out          *)
(* (usb_init, port_test, submit_root).                                      *)
THEOREM PortIsReady == Spec => []PortReady
<1>1. Root!RootHubAssumption
  BY BringupAssumption DEF BringupAssumption
<1>2. Init => RootInv
  BY <1>1, RootInitInv DEF Init
<1>3. RootInv /\ [Next]_vars => RootInv'
  BY <1>1, RootNextInv, RootSteps
<1>4. RootInv => PortReady
  BY <1>1, RootReady DEF PortReady
<1> QED BY <1>2, <1>3, <1>4, PTL DEF Spec

LEMMA TdSteps ==
    ASSUME [Next]_vars
    PROVE  [Td!Next]_(Td!vars)
<1>1. Td!Next \/ UNCHANGED tdVars
  BY DEF Next, vars, start, usb, CpuStep, OtpStep, PmicStep, VerStep, FwStep, ConfStep,
     RootStep, TdStep, DramStep, MonStep
<1>2. UNCHANGED tdVars => UNCHANGED Td!vars
  BY DEF tdVars, Td!vars
<1> QED BY <1>1, <1>2

(* A bulk transfer is one TD over all of its data, cut at each boundary,    *)
(* for any place, any length and any packets (bulk_tx).                     *)
THEOREM DataInOneTd == Spec => []TdWhole
<1>1. Td!BulkTdAssumption
  BY BringupAssumption DEF BringupAssumption
<1>2. Init => TdInv
  BY <1>1, TdInitInv DEF Init
<1>3. TdInv /\ [Next]_vars => TdInv'
  BY <1>1, TdNextInv, TdSteps
<1>4. TdInv => TdWhole
  BY <1>1, TdAllSent DEF TdWhole
<1> QED BY <1>2, <1>3, <1>4, PTL DEF Spec

LEMMA ConfSteps ==
    ASSUME [Next]_vars
    PROVE  [Conf!Next]_(Conf!vars)
<1>1. Conf!Next \/ UNCHANGED confVars
  BY DEF Next, vars, start, usb, CpuStep, OtpStep, PmicStep, VerStep, FwStep, ConfStep,
     RootStep, TdStep, DramStep, MonStep
<1>2. UNCHANGED confVars => UNCHANGED Conf!vars
  BY DEF confVars, Conf!vars, Conf!parser, Conf!udev, Conf!input, Conf!output
<1> QED BY <1>1, <1>2

(* Whatever devices follow each other and whatever the controller refuses:  *)
(* a device that is ready has in the controller the contexts of its own     *)
(* endpoints, and in the pipes its own first endpoints with their sizes     *)
(* (usb_select_config, usb_set_maxpacket, set_configuration and             *)
(* update_hub_device of usb/xhci_usb.c).                                    *)
THEOREM DevicesFitted == Spec => []EndpointsFit
<1>1. Conf!UsbConfigAssumption
  BY BringupAssumption DEF BringupAssumption
<1>2. Init => ConfInv
  BY <1>1, ConfInitInv DEF Init
<1>3. ConfInv /\ [Next]_vars => ConfInv'
  BY <1>1, ConfNextInv, ConfSteps
<1>4. ConfInv => EndpointsFit
  BY <1>1, ConfInvFits DEF EndpointsFit
<1> QED BY <1>2, <1>3, <1>4, PTL DEF Spec
=============================================================================
