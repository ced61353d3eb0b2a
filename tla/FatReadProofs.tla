---------------------------- MODULE FatReadProofs ----------------------------
(***************************************************************************)
(* Proofs about FatRead for any sector and cluster size, any chain of       *)
(* clusters and any request: a read never writes behind what was asked for, *)
(* and one that loses no sector leaves the bytes of the file.               *)
(***************************************************************************)
EXTENDS FatRead, FiniteSetTheorems, TLAPS

(* The request and the file do not change.                                  *)
Given ==
    /\ info.sectPerClus \in SectsPerClus /\ info.chain \in Chains
    /\ offset \in Offsets /\ length \in Lengths

Typed ==
    /\ off \in Nat /\ size \in Nat /\ got \in Nat /\ lost \in Nat
    /\ DOMAIN mem = 0 .. LargestLength + Bps - 1

(* What is written and what is left add up to the request.                  *)
SizeInv ==
    /\ phase \in {"skip", "head"} => got = 0 /\ size = length
    /\ phase = "head" => size # 0 /\ remain # 0 /\ off < spc
    /\ phase \in {"part", "whole"} => got + size = length
    /\ phase = "part" => off < spc

(* Where no sector was lost, what is written is right, and the code is in   *)
(* the cluster where the rest begins.                                       *)
Good(m) == \A k \in 0 .. m - 1 : mem[k] = Content(offset + k)
In(j) == j \in DOMAIN info.chain /\ cluster = info.chain[j]
PlaceInv ==
    InFile /\ lost = 0 =>
        /\ phase \in {"skip", "head"} => \E j \in Nat : In(j) /\ (j - 1) * spc + off = offset \div Bps
        /\ phase \in {"part", "whole"} => Good(got)
        /\ phase = "part" /\ size # 0 =>
               \E j \in Nat : In(j) /\ (j - 1) * bytesPerClus + off * Bps = offset + got
        /\ phase = "whole" /\ size # 0 =>
               \E j \in Nat : In(j) /\ (j - 1) * bytesPerClus = offset + got
        /\ phase = "pass" => Good(length)

-----------------------------------------------------------------------------
(* Arithmetic of sectors and clusters                                       *)

LEMMA Below ==
    ASSUME NEW c \in Nat, NEW o \in Nat, NEW r \in Nat, NEW m \in Nat
    PROVE  c * m <= (c + o) * m + r
OBVIOUS

LEMMA Product == ASSUME NEW a \in Nat, NEW b \in Nat PROVE a * b \in Nat
OBVIOUS

LEMMA DivMod ==
    ASSUME NEW x \in Nat, NEW b \in Nat \ {0}
    PROVE  x \div b \in Nat /\ x % b \in 0 .. b - 1 /\ x = (x \div b) * b + (x % b)
OBVIOUS

LEMMA Small ==
    ASSUME NEW b \in Nat \ {0}, NEW e \in Int, e * b < b, e * b > -b
    PROVE  e = 0
OBVIOUS

LEMMA DivUnique ==
    ASSUME NEW b \in Nat \ {0}, NEW q \in Nat, NEW r \in 0 .. b - 1
    PROVE  (q * b + r) \div b = q /\ (q * b + r) % b = r
<1> DEFINE x == q * b + r
           d == x \div b
           m == x % b
<1>1. x \in Nat
  OBVIOUS
<1>2. d \in Nat /\ m \in 0 .. b - 1 /\ x = d * b + m
  BY <1>1, DivMod
<1> HIDE DEF d, m
<1>3. (q - d) * b = m - r
  BY <1>2
<1>4. q - d = 0
  BY <1>2, <1>3, Small
<1> QED BY <1>2, <1>4 DEF d, m

LEMMA Less ==
    ASSUME NEW a \in Nat, NEW b \in Nat, NEW c \in Nat \ {0}, a * c < b * c
    PROVE  a < b
OBVIOUS

LEMMA Sector ==
    ASSUME NEW o \in Nat, NEW s \in Nat, NEW b \in Nat, o < s
    PROVE  o * b \in Nat /\ o * b + b <= b * s
OBVIOUS

LEMMA LastSector ==
    ASSUME NEW o \in Nat, NEW s \in Nat, NEW b \in Nat, o + 1 = s
    PROVE  o * b + b = b * s
OBVIOUS

(* A byte of a sector of the j-th cluster, counted from the file's start.   *)
LEMMA Pos ==
    ASSUME NEW j \in Nat \ {0}, NEW s \in Nat, NEW o \in Nat, NEW b \in Nat
    PROVE  ((j - 1) * s + o) * b = (j - 1) * (b * s) + o * b
OBVIOUS

LEMMA FirstOfCluster ==
    ASSUME NEW o \in Nat, NEW s \in Nat \ {0}, o < s, o % s = 0
    PROVE  o = 0
<1>1. o = (o \div s) * s /\ o \div s \in Nat
  BY DivMod
<1>2. o \div s = 0
  BY <1>1, Small
<1> QED BY <1>1, <1>2

-----------------------------------------------------------------------------
(* What the request and the file give                                       *)

LEMMA Largest == LargestLength \in Lengths /\ \A k \in Lengths : k <= LargestLength
<1>1. \E l \in Lengths : \A k \in Lengths : k <= l
  BY RequestAssumption
<1> QED BY <1>1, Zenon DEF LargestLength

(* No data cluster has a number the code takes for something else.          *)
Plain(c) == c # 0 /\ ~EndMark(c) /\ \A sz : OverEnd(sz, c) = c

LEMMA ClustersPlain == \A c \in Clusters : Plain(c)
<1> SUFFICES ASSUME NEW c \in Clusters PROVE Plain(c)
  OBVIOUS
<1>1. c \in Nat /\ 2 <= c /\ c < 65525
  BY ClusterAssumption, SMT
<1>2. c # 0
  BY <1>1, SMT
<1>3. ~EndMark(c)
  BY <1>1, SMT DEF EndMark
<1>4. \A sz : OverEnd(sz, c) = c
  BY <1>1, SMT DEF OverEnd
<1> QED BY <1>2, <1>3, <1>4, SMT DEF Plain

Sizes ==
    /\ Bps \in Nat \ {0} /\ spc \in Nat \ {0} /\ bytesPerClus \in Nat \ {0}
    /\ bytesPerClus = Bps * spc
    /\ offset \in Nat /\ length \in Nat /\ remain \in 0 .. Bps - 1
    /\ offset = (offset \div Bps) * Bps + remain /\ offset \div Bps \in Nat
    /\ LargestLength \in Nat /\ length <= LargestLength /\ MaxLost \in Nat

LEMMA Numbers == ASSUME Given PROVE Sizes
<1>1. /\ Bps \in Nat \ {0} /\ spc \in Nat \ {0} /\ offset \in Nat /\ length \in Nat
      /\ MaxLost \in Nat
  BY SizeAssumption, RequestAssumption DEF Given, spc
<1>2. bytesPerClus \in Nat \ {0} /\ bytesPerClus = Bps * spc
  BY <1>1 DEF bytesPerClus
<1>3. /\ remain \in 0 .. Bps - 1 /\ offset \div Bps \in Nat
      /\ offset = (offset \div Bps) * Bps + remain
  BY <1>1, DivMod DEF remain
<1>4. LargestLength \in Nat /\ length <= LargestLength
  BY Largest, RequestAssumption DEF Given
<1> QED BY <1>1, <1>2, <1>3, <1>4 DEF Sizes

LEMMA ChainFacts ==
    ASSUME Given
    PROVE  /\ Len(info.chain) \in Nat \ {0} /\ DOMAIN info.chain = 1 .. Len(info.chain)
           /\ \A x \in DOMAIN info.chain : Plain(info.chain[x])
           /\ \A x, y \in DOMAIN info.chain : info.chain[x] = info.chain[y] => x = y
<1>1. PICK m \in 1 .. MaxClusters : info.chain \in [1 .. m -> Clusters]
  BY DEF Given, Chains
<1>2. m \in Nat \ {0}
  BY SizeAssumption
<1>3. info.chain \in Seq(Clusters)
  BY <1>1, <1>2
<1>4. DOMAIN info.chain = 1 .. m /\ Len(info.chain) = m
  BY <1>1, <1>2, <1>3
<1>5. \A x, y \in DOMAIN info.chain : info.chain[x] = info.chain[y] => x = y
  BY DEF Given, Chains
<1>6. \A x \in DOMAIN info.chain : Plain(info.chain[x])
  BY <1>1, <1>4, ClustersPlain
<1> QED BY <1>2, <1>4, <1>5, <1>6

(* In the chain, what the FAT says is the file's next cluster.              *)
LEMMA NextOfChain ==
    ASSUME Given, NEW j \in Nat, In(j), j < Len(info.chain)
    PROVE  /\ NextCluster(cluster, FALSE) = {info.chain[j + 1]}
           /\ j + 1 \in DOMAIN info.chain
           /\ ~EndMark(cluster)
           /\ \A sz : OverEnd(sz, info.chain[j + 1]) = info.chain[j + 1]
<1> USE ChainFacts
<1>1. j \in DOMAIN info.chain /\ j + 1 \in DOMAIN info.chain /\ j # Len(info.chain)
  BY DEF In
<1>2. {k \in DOMAIN info.chain : info.chain[k] = cluster} = {j}
  BY <1>1 DEF In
<1>3. cluster # 0 /\ ~EndMark(cluster)
  BY <1>1 DEF In, Plain
<1>4. NextCluster(cluster, FALSE) = {info.chain[j + 1]}
  BY <1>1, <1>2, <1>3 DEF NextCluster, Entry
<1> QED BY <1>1, <1>3, <1>4 DEF Plain

(* What is lost is a finite set of sectors; none is lost if the count says so. *)
LEMMA LostFacts ==
    ASSUME NEW at \in Nat, NEW cnt \in Nat, NEW bad \in LostOf(at, cnt), Bps \in Nat \ {0}
    PROVE  Cardinality(bad) \in Nat /\ (Cardinality(bad) = 0 => bad = {})
<1>1. at \div Bps \in Int /\ (at + cnt - 1) \div Bps \in Int
  OBVIOUS
<1>2. IsFiniteSet(at \div Bps .. (at + cnt - 1) \div Bps)
  BY <1>1, FS_Interval
<1>3. IsFiniteSet(bad)
  BY <1>2, FS_Subset DEF LostOf
<1> QED BY <1>3, FS_EmptySet, FS_CardinalityType

LEMMA CopyFacts ==
    ASSUME NEW at \in Nat, NEW cnt \in Nat, NEW bad
    PROVE  /\ DOMAIN Copied(at, cnt, bad) = DOMAIN mem
           /\ \A k \in DOMAIN mem :
                 k \notin got .. got + cnt - 1 => Copied(at, cnt, bad)[k] = mem[k]
           /\ bad = {} => \A k \in DOMAIN mem :
                 k \in got .. got + cnt - 1 => Copied(at, cnt, bad)[k] = <<cluster, at + k - got>>
BY DEF Copied

(* Copying cnt bytes from byte at of the j-th cluster, where the rest of    *)
(* the request begins, extends what is right by cnt bytes.                  *)
LEMMA GoodStep ==
    ASSUME Given, Typed, Good(got),
           NEW at \in Nat, NEW cnt \in Nat, NEW j \in Nat, In(j),
           (j - 1) * bytesPerClus + at = offset + got,
           at + cnt <= bytesPerClus, got + cnt <= length
    PROVE  \A k \in 0 .. got + cnt - 1 : Copied(at, cnt, {})[k] = Content(offset + k)
<1> SUFFICES ASSUME NEW k \in 0 .. got + cnt - 1
             PROVE  Copied(at, cnt, {})[k] = Content(offset + k)
  OBVIOUS
<1>0. Sizes
  BY Numbers
<1>1. got \in Nat /\ k \in Nat /\ k <= got + cnt - 1
  BY DEF Typed
<1>2. k \in DOMAIN mem
  BY <1>0, <1>1 DEF Typed, Sizes
<1>3. CASE k < got
  <2>1. k \notin got .. got + cnt - 1 /\ k \in 0 .. got - 1
    BY <1>1, <1>3
  <2> QED BY <1>2, <2>1, CopyFacts DEF Good
<1>4. CASE k >= got
  <2>1. k \in got .. got + cnt - 1
    BY <1>1, <1>4
  <2>2. Copied(at, cnt, {})[k] = <<cluster, at + k - got>>
    BY <1>2, <2>1, CopyFacts
  <2>3. j - 1 \in Nat
    BY ChainFacts DEF In
  <2>4. at + k - got \in 0 .. bytesPerClus - 1
    BY <1>0, <1>1, <1>4 DEF Sizes
  <2>5. offset + k = (j - 1) * bytesPerClus + (at + k - got)
    <3>1. (j - 1) * bytesPerClus \in Nat /\ offset \in Nat
      BY <1>0, <2>3 DEF Sizes
    <3> QED BY <1>1, <3>1
  <2>6. (offset + k) \div bytesPerClus = j - 1 /\ (offset + k) % bytesPerClus = at + k - got
    <3>1. bytesPerClus \in Nat \ {0}
      BY <1>0 DEF Sizes
    <3>2. /\ ((j - 1) * bytesPerClus + (at + k - got)) \div bytesPerClus = j - 1
          /\ ((j - 1) * bytesPerClus + (at + k - got)) % bytesPerClus = at + k - got
      BY <2>3, <2>4, <3>1, DivUnique
    <3> QED BY <2>5, <3>2
  <2>7. Content(offset + k) = <<info.chain[j], at + k - got>>
    BY <2>3, <2>6 DEF Content
  <2> QED BY <2>2, <2>7 DEF In
<1> QED BY <1>1, <1>3, <1>4

(* While something is left of a request within the file, its cluster is not *)
(* the last one.                                                            *)
LEMMA NotLast ==
    ASSUME Given, InFile, NEW j \in Nat, j * bytesPerClus < offset + length
    PROVE  j < Len(info.chain)
<1>1. Sizes /\ Len(info.chain) \in Nat
  BY Numbers, ChainFacts
<1>2. bytesPerClus \in Nat \ {0} /\ offset \in Nat /\ length \in Nat
  BY <1>1 DEF Sizes
<1>3. j * bytesPerClus \in Nat /\ Len(info.chain) * bytesPerClus \in Nat
  BY <1>1, <1>2
<1>4. offset + length <= Len(info.chain) * bytesPerClus
  BY DEF InFile, FileBytes
<1>5. j * bytesPerClus < Len(info.chain) * bytesPerClus
  BY <1>2, <1>3, <1>4
<1> QED BY <1>1, <1>2, <1>5, Less

-----------------------------------------------------------------------------
(* Nothing is written behind what was asked for                             *)

SafeInv == Given /\ Typed /\ SizeInv /\ WritesInside

LEMMA CopyInside ==
    ASSUME Typed, WritesInside, NEW at \in Nat, NEW cnt \in Nat, NEW bad,
           length \in Nat, got + cnt <= length,
           mem' = Copied(at, cnt, bad), length' = length
    PROVE  WritesInside' /\ DOMAIN mem' = DOMAIN mem
<1>1. got \in Nat
  BY DEF Typed
<1>2. DOMAIN mem' = DOMAIN mem
  BY CopyFacts
<1>3. ASSUME NEW k \in DOMAIN mem, k >= length
      PROVE  mem'[k] = Untouched
  <2>1. k \in Int
    BY DEF Typed
  <2>2. k \notin got .. got + cnt - 1
    BY <1>1, <1>3, <2>1
  <2> QED BY <1>3, <2>2, CopyFacts DEF WritesInside
<1> QED BY <1>2, <1>3 DEF WritesInside

LEMMA SafeInit == Init => SafeInv
<1> SUFFICES ASSUME Init PROVE SafeInv
  OBVIOUS
<1>1. Given
  BY DEF Init, Given
<1>2. Sizes
  BY <1>1, Numbers
<1>3. Typed
  BY <1>2 DEF Init, Typed, Sizes
<1>4. SizeInv
  BY DEF Init, SizeInv
<1>5. WritesInside
  BY DEF Init, WritesInside
<1> QED BY <1>1, <1>3, <1>4, <1>5 DEF SafeInv

LEMMA SafeNext == SafeInv /\ [Next]_vars => SafeInv'
<1> SUFFICES ASSUME SafeInv, [Next]_vars PROVE SafeInv'
  OBVIOUS
<1>0. Given /\ Typed /\ SizeInv /\ WritesInside /\ Sizes
  BY Numbers DEF SafeInv
<1> DEFINE Kept == info' = info /\ offset' = offset /\ length' = length
<1>1. Kept
  BY DEF Next, vars, request, Skip, SkipFails, SkipDone, FirstSector, PartLast,
         PartSector, PartDone, Whole, Rest, Done
<1>2. Given'
  BY <1>0, <1>1 DEF Given
<1>3. spc' = spc /\ remain' = remain /\ bytesPerClus' = bytesPerClus
  BY <1>1 DEF spc, remain, bytesPerClus
<1>4. /\ Bps \in Nat \ {0} /\ spc \in Nat \ {0} /\ bytesPerClus \in Nat \ {0}
      /\ length \in Nat /\ remain \in 0 .. Bps - 1
  BY <1>0 DEF Sizes
<1>5. /\ off \in Nat /\ size \in Nat /\ got \in Nat /\ lost \in Nat
      /\ DOMAIN mem = 0 .. LargestLength + Bps - 1
  BY <1>0 DEF Typed
<1> HIDE DEF Kept
<1>6. ASSUME mem' = mem
      PROVE  WritesInside'
  BY <1>0, <1>1, <1>6 DEF WritesInside, Kept
<1>7. CASE Skip
  <2>1. lost' \in Nat
    BY <1>5, <1>7 DEF Skip, Count
  <2>2. /\ phase = "skip" /\ phase' = phase /\ size' = size /\ got' = got /\ mem' = mem
        /\ off' \in Nat
    BY <1>4, <1>5, <1>7 DEF Skip
  <2>3. Typed'
    BY <1>5, <2>1, <2>2 DEF Typed
  <2>4. SizeInv'
    BY <1>0, <1>1, <2>2 DEF SizeInv, Kept
  <2> QED BY <1>2, <1>6, <2>2, <2>3, <2>4 DEF SafeInv
<1>8. CASE SkipFails
  <2>1. Typed'
    BY <1>5, <1>8 DEF SkipFails, Typed
  <2>2. SizeInv'
    BY <1>8 DEF SkipFails, SizeInv
  <2> QED BY <1>2, <1>6, <1>8, <2>1, <2>2 DEF SafeInv, SkipFails
<1>9. CASE SkipDone
  <2>1. Typed'
    BY <1>5, <1>9 DEF SkipDone, Typed
  <2>2. SizeInv'
    BY <1>0, <1>1, <1>3, <1>4, <1>5, <1>9 DEF SkipDone, SizeInv, Kept
  <2> QED BY <1>2, <1>6, <1>9, <2>1, <2>2 DEF SafeInv, SkipDone
<1>10. CASE FirstSector
  <2> DEFINE cnt == IF remain + length < Bps THEN length ELSE Bps - remain
  <2>1. PICK bad \in LostOf(off * Bps + remain, 1), badFat \in BOOLEAN :
           /\ mem' = Copied(off * Bps + remain, cnt, bad)
           /\ IF off + 1 = spc THEN off' = 0 ELSE off' = off + 1
           /\ Count(Cardinality(bad) + IF badFat THEN 1 ELSE 0)
    BY <1>10 DEF FirstSector
  <2>2. off * Bps + remain \in Nat /\ off' \in Nat
    BY <1>4, <1>5, <2>1
  <2>3. Cardinality(bad) \in Nat
    BY <1>4, <2>2, LostFacts
  <2>4. /\ phase = "head" /\ got' = got + Bps - remain /\ size' = HeadSize
        /\ phase' = IF size' = 0 THEN "pass" ELSE "part"
    BY <1>10 DEF FirstSector
  <2>5. got = 0 /\ size = length /\ off < spc
    BY <1>0, <2>4 DEF SizeInv
  <2>6. cnt \in Nat /\ got + cnt <= length
    BY <1>4, <2>5
  <2>7. WritesInside' /\ DOMAIN mem' = DOMAIN mem
    BY <1>0, <1>1, <1>4, <2>1, <2>2, <2>6, CopyInside DEF Kept
  <2>8. size' \in Nat /\ (size' # 0 => got' + size' = length)
    BY <1>4, <2>4, <2>5 DEF HeadSize
  <2>9. off' < spc
    BY <1>4, <1>5, <2>1, <2>5
  <2>10. lost' \in Nat /\ got' \in Nat
    BY <1>4, <1>5, <2>1, <2>3, <2>4 DEF Count
  <2>11. Typed'
    BY <1>5, <2>2, <2>7, <2>8, <2>10 DEF Typed
  <2>12. SizeInv'
    BY <1>1, <1>3, <2>4, <2>8, <2>9 DEF SizeInv, Kept
  <2> QED BY <1>2, <2>7, <2>11, <2>12 DEF SafeInv
<1>11. CASE PartLast
  <2>1. PICK bad \in LostOf(off * Bps, 1) :
           mem' = Copied(off * Bps, size, bad) /\ Count(Cardinality(bad))
    BY <1>11 DEF PartLast
  <2>2. off * Bps \in Nat
    BY <1>4, <1>5
  <2>3. Cardinality(bad) \in Nat
    BY <1>4, <2>2, LostFacts
  <2>4. phase = "part" /\ phase' = "pass" /\ off' = off /\ size' = size /\ got' = got
    BY <1>11 DEF PartLast
  <2>5. got + size = length
    BY <1>0, <2>4 DEF SizeInv
  <2>6. WritesInside' /\ DOMAIN mem' = DOMAIN mem
    BY <1>0, <1>1, <1>4, <1>5, <2>1, <2>2, <2>5, CopyInside DEF Kept
  <2>7. Typed'
    BY <1>5, <2>1, <2>3, <2>4, <2>6 DEF Typed, Count
  <2>8. SizeInv'
    BY <2>4 DEF SizeInv
  <2> QED BY <1>2, <2>6, <2>7, <2>8 DEF SafeInv
<1>12. CASE PartSector
  <2>1. PICK bad \in LostOf(off * Bps, 1), badFat \in BOOLEAN :
           /\ mem' = Copied(off * Bps, Bps, bad)
           /\ Count(Cardinality(bad) + IF badFat THEN 1 ELSE 0)
    BY <1>12 DEF PartSector
  <2>2. off * Bps \in Nat
    BY <1>4, <1>5
  <2>3. Cardinality(bad) \in Nat
    BY <1>4, <2>2, LostFacts
  <2>4. /\ phase = "part" /\ size >= Bps /\ off' = off + 1 /\ got' = got + Bps
        /\ size' = size - Bps /\ phase' = IF off' = spc THEN "whole" ELSE "part"
    BY <1>12 DEF PartSector
  <2>5. got + size = length /\ off < spc
    BY <1>0, <2>4 DEF SizeInv
  <2>6. WritesInside' /\ DOMAIN mem' = DOMAIN mem
    BY <1>0, <1>1, <1>4, <1>5, <2>1, <2>2, <2>4, <2>5, CopyInside DEF Kept
  <2>7. /\ off' \in Nat /\ size' \in Nat /\ got' \in Nat /\ lost' \in Nat
        /\ got' + size' = length
    BY <1>4, <1>5, <2>1, <2>3, <2>4, <2>5 DEF Count
  <2>8. off' # spc => off' < spc
    BY <1>4, <1>5, <2>4, <2>5
  <2>9. Typed'
    BY <1>5, <2>6, <2>7 DEF Typed
  <2>10. SizeInv'
    BY <1>1, <1>3, <2>4, <2>7, <2>8 DEF SizeInv, Kept
  <2> QED BY <1>2, <2>6, <2>9, <2>10 DEF SafeInv
<1>13. CASE PartDone
  <2>1. Typed'
    BY <1>5, <1>13 DEF PartDone, Typed
  <2>2. SizeInv'
    BY <1>0, <1>1, <1>13 DEF PartDone, SizeInv, Kept
  <2> QED BY <1>2, <1>6, <1>13, <2>1, <2>2 DEF SafeInv, PartDone
<1>14. CASE Whole
  <2>1. PICK bad \in LostOf(0, bytesPerClus), badFat \in BOOLEAN :
           /\ mem' = Copied(0, bytesPerClus, bad)
           /\ IF size' = 0 THEN phase' = "pass" ELSE phase' = phase
           /\ Count(Cardinality(bad) + IF badFat THEN 1 ELSE 0)
    BY <1>14 DEF Whole
  <2>2. Cardinality(bad) \in Nat
    BY <1>4, LostFacts
  <2>3. /\ phase = "whole" /\ size >= bytesPerClus /\ off' = off
        /\ got' = got + bytesPerClus /\ size' = size - bytesPerClus
    BY <1>14 DEF Whole
  <2>4. got + size = length
    BY <1>0, <2>3 DEF SizeInv
  <2>5. got + bytesPerClus <= length
    BY <1>4, <1>5, <2>3, <2>4
  <2>6. WritesInside' /\ DOMAIN mem' = DOMAIN mem
    BY <1>0, <1>1, <1>4, <2>1, <2>5, CopyInside DEF Kept
  <2>7. size' \in Nat /\ got' \in Nat /\ lost' \in Nat /\ got' + size' = length
    BY <1>4, <1>5, <2>1, <2>2, <2>3, <2>4 DEF Count
  <2>8. Typed'
    BY <1>5, <2>3, <2>6, <2>7 DEF Typed
  <2>9. SizeInv'
    BY <1>1, <2>1, <2>3, <2>7 DEF SizeInv, Kept
  <2> QED BY <1>2, <2>6, <2>8, <2>9 DEF SafeInv
<1>15. CASE Rest
  <2>1. PICK bad \in LostOf(0, size) :
           mem' = Copied(0, size, bad) /\ Count(Cardinality(bad))
    BY <1>15 DEF Rest
  <2>2. Cardinality(bad) \in Nat
    BY <1>4, <1>5, LostFacts
  <2>3. /\ phase = "whole" /\ phase' = "pass" /\ off' = off
        /\ got' = got + (size \div Bps) * Bps /\ size' = size % Bps
    BY <1>15 DEF Rest
  <2>4. got + size = length
    BY <1>0, <2>3 DEF SizeInv
  <2>5. WritesInside' /\ DOMAIN mem' = DOMAIN mem
    BY <1>0, <1>1, <1>4, <1>5, <2>1, <2>4, CopyInside DEF Kept
  <2>6. size' \in Nat /\ got' \in Nat
    <3>1. size \div Bps \in Nat /\ size % Bps \in Nat
      BY <1>4, <1>5
    <3>2. (size \div Bps) * Bps \in Nat
      BY <1>4, <3>1
    <3> QED BY <1>5, <2>3, <3>1, <3>2
  <2>7. Typed'
    BY <1>5, <2>1, <2>2, <2>3, <2>5, <2>6 DEF Typed, Count
  <2>8. SizeInv'
    BY <2>3 DEF SizeInv
  <2> QED BY <1>2, <2>5, <2>7, <2>8 DEF SafeInv
<1>16. CASE UNCHANGED vars
  BY <1>0, <1>16 DEF SafeInv, vars, request, Given, Typed, SizeInv, WritesInside, spc, remain
<1>17. CASE Done
  BY <1>16, <1>17 DEF Done
<1> QED BY <1>7, <1>8, <1>9, <1>10, <1>11, <1>12, <1>13, <1>14, <1>15, <1>16, <1>17 DEF Next

(* The loaders give fat_read_file a buffer of the length they ask for: no   *)
(* request, no chain and no failing sector makes it write behind that.      *)
THEOREM NothingBehind == Spec => []WritesInside
<1>1. Init => SafeInv
  BY SafeInit
<1>2. SafeInv /\ [Next]_vars => SafeInv'
  BY SafeNext
<1>3. SafeInv => WritesInside
  BY DEF SafeInv
<1> QED BY <1>1, <1>2, <1>3, PTL DEF Spec

-----------------------------------------------------------------------------
(* What a read that loses no sector leaves is the file                      *)

Inv == SafeInv /\ PlaceInv

(* A count that stays 0 lost neither a sector of the file nor one of the FAT. *)
LEMMA NoneLost ==
    ASSUME lost \in Nat, Bps \in Nat \ {0}, NEW at \in Nat, NEW cnt \in Nat,
           NEW bad \in LostOf(at, cnt), NEW badFat \in BOOLEAN,
           Count(Cardinality(bad) + IF badFat THEN 1 ELSE 0), lost' = 0
    PROVE  lost = 0 /\ bad = {} /\ badFat = FALSE
<1>1. Cardinality(bad) \in Nat /\ (Cardinality(bad) = 0 => bad = {})
  BY LostFacts
<1> QED BY <1>1 DEF Count

LEMMA NoneLostSector ==
    ASSUME lost \in Nat, Bps \in Nat \ {0}, NEW at \in Nat, NEW cnt \in Nat,
           NEW bad \in LostOf(at, cnt), Count(Cardinality(bad)), lost' = 0
    PROVE  lost = 0 /\ bad = {}
<1>1. Cardinality(bad) \in Nat /\ (Cardinality(bad) = 0 => bad = {})
  BY LostFacts
<1> QED BY <1>1 DEF Count

LEMMA PlaceInit == Init => PlaceInv
<1> SUFFICES ASSUME Init PROVE PlaceInv
  OBVIOUS
<1>1. Given
  BY DEF Init, Given
<1>2. 1 \in DOMAIN info.chain /\ cluster = info.chain[1]
  BY <1>1, ChainFacts DEF Init
<1>3. spc \in Nat /\ offset \div Bps \in Nat
  BY <1>1, Numbers DEF Sizes
<1>4. In(1) /\ (1 - 1) * spc + off = offset \div Bps
  BY <1>2, <1>3 DEF Init, In
<1>5. phase = "skip"
  BY DEF Init
<1> QED BY <1>4, <1>5 DEF PlaceInv

LEMMA PlaceNext == SafeInv /\ PlaceInv /\ [Next]_vars => PlaceInv'
<1> SUFFICES ASSUME SafeInv, PlaceInv, [Next]_vars, InFile', lost' = 0
             PROVE  PlaceInv'
  BY DEF PlaceInv
<1>0. Given /\ Typed /\ SizeInv /\ Sizes
  BY Numbers DEF SafeInv
<1>1. info' = info /\ offset' = offset /\ length' = length
  BY DEF Next, vars, request, Skip, SkipFails, SkipDone, FirstSector, PartLast,
         PartSector, PartDone, Whole, Rest, Done
<1>2. spc' = spc /\ remain' = remain /\ bytesPerClus' = bytesPerClus
  BY <1>1 DEF spc, remain, bytesPerClus
<1>3. InFile
  BY <1>1, <1>2 DEF InFile, FileBytes
<1>4. /\ Bps \in Nat \ {0} /\ spc \in Nat \ {0} /\ bytesPerClus \in Nat \ {0}
      /\ offset \in Nat /\ length \in Nat /\ remain \in 0 .. Bps - 1
  BY <1>0 DEF Sizes
<1>41. bytesPerClus = Bps * spc
  BY <1>0 DEF Sizes
<1>40. offset = (offset \div Bps) * Bps + remain /\ offset \div Bps \in Nat
  BY <1>0 DEF Sizes
<1>44. Bps \in Nat /\ bytesPerClus \in Nat /\ offset \in Nat /\ length \in Nat
  BY <1>4
<1>45. remain \in Nat
  BY <1>4
<1>5. off \in Nat /\ size \in Nat /\ got \in Nat /\ lost \in Nat
  BY <1>0 DEF Typed
<1>6. /\ \A k : Content(k)' = Content(k)
      /\ \A j : In(j)' <=> j \in DOMAIN info.chain /\ cluster' = info.chain[j]
  BY <1>1, <1>2 DEF Content, In
<1>7. Len(info.chain) \in Nat \ {0} /\ DOMAIN info.chain = 1 .. Len(info.chain)
  BY <1>0, ChainFacts
(* The four places, one proof each.                                         *)
<1>8. ASSUME phase' \in {"skip", "head"}, NEW j \in Nat, In(j)',
             (j - 1) * spc + off' = offset \div Bps
      PROVE  PlaceInv'
  BY <1>1, <1>2, <1>8 DEF PlaceInv
<1>9. ASSUME phase' = "part",
             \A k \in 0 .. got' - 1 : mem'[k] = Content(offset + k),
             size' # 0 => \E j \in Nat : In(j)' /\ (j - 1) * bytesPerClus + off' * Bps = offset + got'
      PROVE  PlaceInv'
  BY <1>1, <1>2, <1>6, <1>9 DEF PlaceInv, Good
<1>10. ASSUME phase' = "whole",
              \A k \in 0 .. got' - 1 : mem'[k] = Content(offset + k),
              size' # 0 => \E j \in Nat : In(j)' /\ (j - 1) * bytesPerClus = offset + got'
       PROVE  PlaceInv'
  BY <1>1, <1>2, <1>6, <1>10 DEF PlaceInv, Good
<1>11. ASSUME phase' = "pass", \A k \in 0 .. length - 1 : mem'[k] = Content(offset + k)
       PROVE  PlaceInv'
  BY <1>1, <1>2, <1>6, <1>11 DEF PlaceInv, Good
(* The cluster after the j-th, where something is left behind the j-th.     *)
<1>42. ASSUME NEW j \in Nat, In(j), NEW g \in Nat, NEW sz \in Nat \ {0},
              j * bytesPerClus = offset + g, g + sz = length
       PROVE  /\ NextCluster(cluster, FALSE) = {info.chain[j + 1]}
              /\ j + 1 \in DOMAIN info.chain
              /\ \A z : OverEnd(z, info.chain[j + 1]) = info.chain[j + 1]
  <2>1. j * bytesPerClus < offset + length
    BY <1>4, <1>42
  <2>2. j < Len(info.chain)
    BY <1>0, <1>3, <2>1, NotLast
  <2> QED BY <1>0, <1>42, <2>2, NextOfChain
<1>12. CASE Skip
  <2>1. PICK bad \in BOOLEAN :
           Count(IF bad THEN 1 ELSE 0) /\ cluster' \in NextCluster(cluster, bad)
    BY <1>12 DEF Skip
  <2>2. lost = 0 /\ bad = FALSE
    BY <1>5, <2>1 DEF Count
  <2>3. /\ phase = "skip" /\ phase' = "skip" /\ off >= spc /\ size # 0
        /\ off' = off - spc
    BY <1>12 DEF Skip
  <2>4. PICK j \in Nat : In(j) /\ (j - 1) * spc + off = offset \div Bps
    BY <1>3, <2>2, <2>3 DEF PlaceInv
  <2>5. j * spc + off' = offset \div Bps
    <3>1. (j - 1) * spc = j * spc - spc /\ j * spc \in Nat
      BY <1>4
    <3> QED BY <1>4, <1>40, <1>5, <2>3, <2>4, <3>1
  <2>6. j * bytesPerClus <= offset
    <3>1. off' \in Nat /\ remain \in Nat /\ Bps \in Nat /\ spc \in Nat
      BY <1>4, <1>5, <2>3
    <3>2. j * spc \in Nat
      BY <3>1, Product
    <3>3. (j * spc) * Bps <= (j * spc + off') * Bps + remain
      BY <3>1, <3>2, Below
    <3>4. j * bytesPerClus = (j * spc) * Bps
      BY <1>4, <1>41
    <3> QED BY <1>40, <2>5, <3>3, <3>4
  <2>7. length > 0
    BY <1>0, <1>4, <1>5, <2>3 DEF SizeInv
  <2>8. j < Len(info.chain)
    <3>1. j * bytesPerClus \in Nat /\ offset \in Nat /\ length \in Nat
      BY <1>4, Product
    <3>2. j * bytesPerClus < offset + length
      BY <2>6, <2>7, <3>1
    <3> QED BY <1>0, <1>3, <3>2, NotLast
  <2>9. j + 1 \in DOMAIN info.chain /\ cluster' = info.chain[j + 1]
    <3>1. NextCluster(cluster, FALSE) = {info.chain[j + 1]} /\ j + 1 \in DOMAIN info.chain
      BY <1>0, <2>4, <2>8, NextOfChain
    <3>2. cluster' \in NextCluster(cluster, FALSE)
      BY <2>1, <2>2
    <3> QED BY <3>1, <3>2
  <2>10. In(j + 1)' /\ (j + 1 - 1) * spc + off' = offset \div Bps
    BY <1>6, <2>5, <2>9
  <2> QED BY <1>8, <2>3, <2>10
<1>13. CASE SkipFails
  BY <1>13 DEF SkipFails, PlaceInv
<1>14. CASE SkipDone
  <2>1. /\ phase = "skip" /\ phase' = IF remain # 0 THEN "head" ELSE "part"
        /\ cluster' = cluster /\ off' = off /\ got' = got /\ lost = 0
    BY <1>14 DEF SkipDone
  <2>2. PICK j \in Nat : In(j) /\ (j - 1) * spc + off = offset \div Bps
    BY <1>3, <2>1 DEF PlaceInv
  <2>3. In(j)'
    BY <1>6, <2>1, <2>2 DEF In
  <2>4. CASE remain # 0
    BY <1>8, <2>1, <2>2, <2>3, <2>4
  <2>5. CASE remain = 0
    <3>1. got' = 0
      BY <1>0, <2>1 DEF SizeInv
    <3>2. j \in Nat \ {0}
      BY <1>7, <2>2 DEF In
    <3>3. ((j - 1) * spc + off) * Bps = (j - 1) * (Bps * spc) + off * Bps
      BY <1>4, <1>5, <3>2, Pos
    <3>4. (j - 1) * bytesPerClus + off' * Bps = offset + got'
      BY <1>4, <1>40, <1>41, <2>1, <2>2, <2>5, <3>1, <3>3
    <3>5. \A k \in 0 .. got' - 1 : mem'[k] = Content(offset + k)
      BY <3>1
    <3> QED BY <1>9, <2>1, <2>3, <2>5, <3>4, <3>5
  <2> QED BY <2>4, <2>5
<1>15. CASE FirstSector
  <2> DEFINE cnt == IF remain + length < Bps THEN length ELSE Bps - remain
             at == off * Bps + remain
  <2>1. PICK bad \in LostOf(at, 1), badFat \in BOOLEAN :
           /\ mem' = Copied(at, cnt, bad)
           /\ IF off + 1 = spc
              THEN cluster' \in NextCluster(cluster, badFat) /\ off' = 0
              ELSE off' = off + 1 /\ cluster' = cluster
           /\ Count(Cardinality(bad) + IF badFat THEN 1 ELSE 0)
    BY <1>15 DEF FirstSector
  <2>2. off * Bps \in Nat /\ at \in Nat
    BY <1>4, <1>5, Product
  <2>3. lost = 0 /\ bad = {} /\ badFat = FALSE
    BY <1>4, <1>5, <2>1, <2>2, NoneLost
  <2>4. /\ phase = "head" /\ got' = got + Bps - remain /\ size' = HeadSize
        /\ phase' = IF size' = 0 THEN "pass" ELSE "part"
    BY <1>15 DEF FirstSector
  <2>5. got = 0 /\ off < spc
    BY <1>0, <2>4 DEF SizeInv
  <2>6. PICK j \in Nat : In(j) /\ (j - 1) * spc + off = offset \div Bps
    BY <1>3, <2>3, <2>4 DEF PlaceInv
  <2>7. j - 1 \in Nat /\ (j - 1) * bytesPerClus \in Nat
    BY <1>4, <1>7, <2>6, Product DEF In
  <2>8. (j - 1) * bytesPerClus + at = offset + got
    <3>1. ((j - 1) * spc + off) * Bps = (j - 1) * (Bps * spc) + off * Bps
      BY <1>4, <1>5, <2>7, Pos
    <3>2. offset = (j - 1) * bytesPerClus + off * Bps + remain
      BY <1>40, <1>41, <2>6, <3>1
    <3> QED BY <1>4, <2>2, <2>5, <2>7, <3>2
  <2>9. off * Bps + Bps <= bytesPerClus
    BY <1>4, <1>41, <1>5, <2>5, Sector
  <2>10. cnt \in Nat /\ got + cnt <= length /\ at + cnt <= bytesPerClus
    BY <1>4, <2>2, <2>5, <2>9
  <2>11. Good(got)
    BY <2>5 DEF Good
  <2>12. \A k \in 0 .. got + cnt - 1 : Copied(at, cnt, {})[k] = Content(offset + k)
    <3> HIDE DEF at, cnt
    <3> QED BY <1>0, <2>2, <2>6, <2>8, <2>10, <2>11, GoodStep
  <2>13. \A k \in 0 .. got + cnt - 1 : mem'[k] = Content(offset + k)
    BY <2>1, <2>3, <2>12
  <2>14. CASE size' = 0
    <3>1. cnt = length
      BY <1>4, <2>4, <2>14 DEF HeadSize
    <3> QED BY <1>4, <1>11, <2>4, <2>5, <2>13, <2>14, <3>1
  <2>15. CASE size' # 0
    <3>1. /\ cnt = Bps - remain /\ got' = got + cnt /\ size' \in Nat \ {0}
          /\ got' + size' = length /\ got' \in Nat
      BY <1>4, <2>4, <2>5, <2>15 DEF HeadSize
    <3>2. (j - 1) * bytesPerClus + off * Bps + Bps = offset + got'
      <4>1. (j - 1) * bytesPerClus + off * Bps + remain = offset
        BY <1>44, <1>45, <2>2, <2>5, <2>7, <2>8
      <4>2. got' + remain = Bps
        BY <1>44, <1>45, <2>5, <3>1
      <4> HIDE DEF cnt, at
      <4> QED BY <1>44, <1>45, <2>2, <2>7, <3>1, <4>1, <4>2
    <3>10. \A k \in 0 .. got' - 1 : mem'[k] = Content(offset + k)
      <4> HIDE DEF cnt
      <4>1. got + cnt - 1 = got' - 1
        BY <1>5, <2>10, <3>1
      <4> QED BY <2>13, <4>1
    <3>3. CASE off + 1 = spc
      <4>1. off * Bps + Bps = bytesPerClus
        BY <1>4, <1>41, <1>5, <3>3, LastSector
      <4>2. (j - 1) * bytesPerClus + bytesPerClus = j * bytesPerClus
        BY <1>4
      <4>3. j * bytesPerClus = offset + got'
        BY <1>4, <2>2, <2>7, <3>2, <4>1, <4>2
      <4>4. /\ NextCluster(cluster, FALSE) = {info.chain[j + 1]}
            /\ j + 1 \in DOMAIN info.chain
        BY <1>42, <2>6, <3>1, <4>3
      <4>5. In(j + 1)' /\ off' = 0
        BY <1>6, <2>1, <2>3, <3>3, <4>4
      <4>6. (j + 1 - 1) * bytesPerClus + off' * Bps = offset + got'
        BY <1>4, <4>3, <4>5
      <4> QED BY <1>9, <2>4, <2>15, <3>10, <4>5, <4>6
    <3>4. CASE off + 1 # spc
      <4>1. In(j)' /\ off' = off + 1
        BY <1>6, <2>1, <2>6, <3>4 DEF In
      <4>2. (j - 1) * bytesPerClus + off' * Bps = offset + got'
        <5>1. (off + 1) * Bps = off * Bps + Bps
          BY <1>4, <1>5
        <5> QED BY <1>44, <2>2, <2>7, <3>2, <4>1, <5>1
      <4> QED BY <1>9, <2>4, <2>15, <3>10, <4>1, <4>2
    <3> QED BY <3>3, <3>4
  <2> QED BY <2>14, <2>15
<1>16. CASE PartLast
  <2>1. PICK bad \in LostOf(off * Bps, 1) :
           mem' = Copied(off * Bps, size, bad) /\ Count(Cardinality(bad))
    BY <1>16 DEF PartLast
  <2>2. off * Bps \in Nat
    BY <1>4, <1>5, Product
  <2>3. lost = 0 /\ bad = {}
    BY <1>4, <1>5, <2>1, <2>2, NoneLostSector
  <2>4. phase = "part" /\ phase' = "pass" /\ size < Bps
    BY <1>16 DEF PartLast
  <2>5. got + size = length /\ off < spc
    BY <1>0, <2>4 DEF SizeInv
  <2>6. Good(got)
    BY <1>3, <2>3, <2>4 DEF PlaceInv
  <2>7. CASE size = 0
    <3>1. \A k \in 0 .. length - 1 : mem'[k] = Content(offset + k)
      <4> SUFFICES ASSUME NEW k \in 0 .. length - 1 PROVE mem'[k] = Content(offset + k)
        OBVIOUS
      <4>1. k \in 0 .. got - 1 /\ k \notin got .. got + size - 1
        BY <1>4, <1>5, <2>5, <2>7
      <4>2. k \in DOMAIN mem
        BY <1>0, <1>4 DEF Typed, Sizes
      <4>3. mem'[k] = mem[k]
        BY <1>5, <2>1, <2>2, <4>1, <4>2, CopyFacts
      <4> QED BY <2>6, <4>1, <4>3 DEF Good
    <3> QED BY <1>11, <2>4, <3>1
  <2>8. CASE size # 0
    <3>1. PICK j \in Nat : In(j) /\ (j - 1) * bytesPerClus + off * Bps = offset + got
      BY <1>3, <2>3, <2>4, <2>8 DEF PlaceInv
    <3>2. off * Bps + Bps <= bytesPerClus
      BY <1>4, <1>41, <1>5, <2>5, Sector
    <3>3. off * Bps + size <= bytesPerClus /\ got + size <= length
      BY <1>4, <1>5, <2>2, <2>4, <2>5, <3>2
    <3>4. \A k \in 0 .. got + size - 1 : Copied(off * Bps, size, {})[k] = Content(offset + k)
      BY <1>0, <1>5, <2>2, <2>6, <3>1, <3>3, GoodStep
    <3>5. got + size - 1 = length - 1
      BY <1>44, <1>5, <2>5
    <3>6. \A k \in 0 .. length - 1 : mem'[k] = Content(offset + k)
      BY <2>1, <2>3, <3>4, <3>5
    <3> QED BY <1>11, <2>4, <3>6
  <2> QED BY <2>7, <2>8
<1>17. CASE PartSector
  <2>1. PICK bad \in LostOf(off * Bps, 1), badFat \in BOOLEAN :
           /\ mem' = Copied(off * Bps, Bps, bad)
           /\ IF off + 1 = spc THEN cluster' \in NextCluster(cluster, badFat)
              ELSE cluster' = cluster
           /\ Count(Cardinality(bad) + IF badFat THEN 1 ELSE 0)
    BY <1>17 DEF PartSector
  <2>2. off * Bps \in Nat
    BY <1>4, <1>5, Product
  <2>3. lost = 0 /\ bad = {} /\ badFat = FALSE
    BY <1>4, <1>5, <2>1, <2>2, NoneLost
  <2>4. /\ phase = "part" /\ size >= Bps /\ off' = off + 1 /\ got' = got + Bps
        /\ size' = size - Bps /\ phase' = IF off' = spc THEN "whole" ELSE "part"
    BY <1>17 DEF PartSector
  <2>5. got + size = length /\ off < spc
    BY <1>0, <2>4 DEF SizeInv
  <2>6. Good(got)
    BY <1>3, <2>3, <2>4 DEF PlaceInv
  <2>7. size # 0
    BY <1>4, <1>5, <2>4
  <2>8. PICK j \in Nat : In(j) /\ (j - 1) * bytesPerClus + off * Bps = offset + got
    BY <1>3, <2>3, <2>4, <2>7 DEF PlaceInv
  <2>9. off * Bps + Bps <= bytesPerClus /\ got + Bps <= length
    <3>1. off * Bps + Bps <= bytesPerClus
      BY <1>4, <1>41, <1>5, <2>5, Sector
    <3> QED BY <1>4, <1>5, <2>4, <2>5, <3>1
  <2>10. \A k \in 0 .. got + Bps - 1 : Copied(off * Bps, Bps, {})[k] = Content(offset + k)
    BY <1>0, <1>4, <2>2, <2>6, <2>8, <2>9, GoodStep
  <2>11. \A k \in 0 .. got' - 1 : mem'[k] = Content(offset + k)
    <3>1. got + Bps - 1 = got' - 1
      BY <1>44, <1>5, <2>4
    <3> QED BY <2>1, <2>3, <2>10, <3>1
  <2>12. /\ size' \in Nat /\ got' \in Nat /\ got' + size' = length
         /\ j - 1 \in Nat /\ (j - 1) * bytesPerClus \in Nat
    <3>1. j - 1 \in Nat
      BY <1>7, <2>8 DEF In
    <3>2. (j - 1) * bytesPerClus \in Nat
      BY <1>4, <3>1, Product
    <3> QED BY <1>4, <1>5, <2>4, <2>5, <3>1, <3>2
  <2>13. (j - 1) * bytesPerClus + off * Bps + Bps = offset + got'
    BY <1>4, <1>5, <2>2, <2>4, <2>8, <2>12
  <2>14. CASE off + 1 = spc
    <3>1. off * Bps + Bps = bytesPerClus
      BY <1>4, <1>41, <1>5, <2>14, LastSector
    <3>2. (j - 1) * bytesPerClus + bytesPerClus = j * bytesPerClus
      BY <1>4
    <3>3. j * bytesPerClus = offset + got'
      <4> DEFINE p == (j - 1) * bytesPerClus
                 s == off * Bps
      <4>1. p \in Nat /\ s \in Nat /\ p + s + Bps = offset + got'
        BY <2>2, <2>12, <2>13
      <4>2. s + Bps = bytesPerClus /\ p + bytesPerClus = j * bytesPerClus
        BY <3>1, <3>2
      <4> HIDE DEF p, s
      <4>3. p + s + Bps = p + bytesPerClus
        BY <1>44, <4>1, <4>2
      <4> QED BY <4>1, <4>2, <4>3
    <3>4. ASSUME size' # 0
          PROVE  In(j + 1)' /\ (j + 1 - 1) * bytesPerClus = offset + got'
      <4>1. size' \in Nat \ {0}
        BY <2>12, <3>4
      <4>2. /\ NextCluster(cluster, FALSE) = {info.chain[j + 1]}
            /\ j + 1 \in DOMAIN info.chain
        BY <1>42, <2>8, <2>12, <3>3, <4>1
      <4>3. In(j + 1)'
        BY <1>6, <2>1, <2>3, <2>14, <4>2
      <4> QED BY <1>4, <3>3, <4>3
    <3> QED BY <1>10, <2>4, <2>11, <2>14, <3>4
  <2>15. CASE off + 1 # spc
    <3>1. In(j)'
      BY <1>6, <2>1, <2>8, <2>15 DEF In
    <3>2. (j - 1) * bytesPerClus + off' * Bps = offset + got'
      <4>1. (off + 1) * Bps = off * Bps + Bps
        BY <1>4, <1>5
      <4> QED BY <1>4, <2>2, <2>4, <2>12, <2>13, <4>1
    <3> QED BY <1>9, <2>4, <2>11, <2>15, <3>1, <3>2
  <2> QED BY <2>14, <2>15
<1>18. CASE PartDone
  <2>1. /\ phase = "part" /\ phase' = "whole" /\ off % spc = 0 /\ cluster' = cluster
        /\ size' = size /\ got' = got /\ mem' = mem /\ lost = 0
    BY <1>18 DEF PartDone
  <2>2. off = 0
    BY <1>0, <1>4, <1>5, <2>1, FirstOfCluster DEF SizeInv
  <2>3. Good(got)
    BY <1>3, <2>1 DEF PlaceInv
  <2>4. \A k \in 0 .. got' - 1 : mem'[k] = Content(offset + k)
    BY <2>1, <2>3 DEF Good
  <2>5. ASSUME size' # 0
        PROVE  \E j \in Nat : In(j)' /\ (j - 1) * bytesPerClus = offset + got'
    <3>1. PICK j \in Nat : In(j) /\ (j - 1) * bytesPerClus + off * Bps = offset + got
      BY <1>3, <2>1, <2>5 DEF PlaceInv
    <3>2. In(j)'
      BY <1>6, <2>1, <3>1 DEF In
    <3>3. (j - 1) * bytesPerClus = offset + got'
      BY <1>4, <2>1, <2>2, <3>1
    <3> QED BY <3>2, <3>3
  <2> QED BY <1>10, <2>1, <2>4, <2>5
<1>19. CASE Whole
  <2>1. PICK bad \in LostOf(0, bytesPerClus), badFat \in BOOLEAN :
           /\ mem' = Copied(0, bytesPerClus, bad)
           /\ IF size' = 0 THEN phase' = "pass"
              ELSE /\ \E c \in NextCluster(cluster, badFat) : cluster' = OverEnd(size', c)
                   /\ phase' = phase
           /\ Count(Cardinality(bad) + IF badFat THEN 1 ELSE 0)
    BY <1>19 DEF Whole
  <2>2. lost = 0 /\ bad = {} /\ badFat = FALSE
    BY <1>4, <1>5, <2>1, NoneLost
  <2>3. /\ phase = "whole" /\ size >= bytesPerClus
        /\ got' = got + bytesPerClus /\ size' = size - bytesPerClus
    BY <1>19 DEF Whole
  <2>4. got + size = length /\ size # 0
    BY <1>0, <1>4, <1>5, <2>3 DEF SizeInv
  <2>5. Good(got)
    BY <1>3, <2>2, <2>3 DEF PlaceInv
  <2>6. PICK j \in Nat : In(j) /\ (j - 1) * bytesPerClus = offset + got
    BY <1>3, <2>2, <2>3, <2>4 DEF PlaceInv
  <2>7. /\ 0 \in Nat /\ (j - 1) * bytesPerClus + 0 = offset + got
        /\ 0 + bytesPerClus <= bytesPerClus /\ got + bytesPerClus <= length
    BY <1>4, <1>5, <2>3, <2>4, <2>6
  <2>8. \A k \in 0 .. got + bytesPerClus - 1 :
           Copied(0, bytesPerClus, {})[k] = Content(offset + k)
    BY <1>0, <1>4, <2>5, <2>6, <2>7, GoodStep
  <2>9. \A k \in 0 .. got' - 1 : mem'[k] = Content(offset + k)
    <3>1. got + bytesPerClus - 1 = got' - 1
      BY <1>44, <1>5, <2>3
    <3> QED BY <2>1, <2>2, <2>8, <3>1
  <2>10. size' \in Nat /\ got' \in Nat /\ got' + size' = length
    BY <1>4, <1>5, <2>3, <2>4
  <2>11. CASE size' = 0
    <3>1. size = bytesPerClus
      BY <1>44, <1>5, <2>3, <2>11
    <3>2. got' = length
      BY <1>44, <1>5, <2>3, <2>4, <3>1
    <3> QED BY <1>11, <2>1, <2>9, <2>11, <3>2
  <2>12. CASE size' # 0
    <3>1. (j - 1) * bytesPerClus + bytesPerClus = j * bytesPerClus
      BY <1>4
    <3>2. j * bytesPerClus = offset + got'
      BY <1>4, <1>5, <2>3, <2>6, <3>1
    <3>3. size' \in Nat \ {0}
      BY <2>10, <2>12
    <3>4. /\ NextCluster(cluster, FALSE) = {info.chain[j + 1]}
          /\ j + 1 \in DOMAIN info.chain
          /\ \A z : OverEnd(z, info.chain[j + 1]) = info.chain[j + 1]
      BY <1>42, <2>6, <2>10, <3>2, <3>3
    <3>5. cluster' = info.chain[j + 1]
      BY <2>1, <2>2, <2>12, <3>4
    <3>6. In(j + 1)' /\ (j + 1 - 1) * bytesPerClus = offset + got'
      BY <1>4, <1>6, <3>2, <3>4, <3>5
    <3> QED BY <1>10, <2>1, <2>3, <2>9, <2>12, <3>6
  <2> QED BY <2>11, <2>12
<1>20. CASE Rest
  <2>1. PICK bad \in LostOf(0, size) :
           mem' = Copied(0, size, bad) /\ Count(Cardinality(bad))
    BY <1>20 DEF Rest
  <2>2. lost = 0 /\ bad = {}
    BY <1>4, <1>5, <2>1, NoneLostSector
  <2>3. phase = "whole" /\ phase' = "pass" /\ size < bytesPerClus
    BY <1>20 DEF Rest
  <2>4. got + size = length
    BY <1>0, <2>3 DEF SizeInv
  <2>5. Good(got)
    BY <1>3, <2>2, <2>3 DEF PlaceInv
  <2>6. CASE size = 0
    <3>1. \A k \in 0 .. length - 1 : mem'[k] = Content(offset + k)
      <4> SUFFICES ASSUME NEW k \in 0 .. length - 1 PROVE mem'[k] = Content(offset + k)
        OBVIOUS
      <4>1. k \in 0 .. got - 1 /\ k \notin got .. got + size - 1
        BY <1>4, <1>5, <2>4, <2>6
      <4>2. k \in DOMAIN mem
        BY <1>0, <1>4 DEF Typed, Sizes
      <4>3. mem'[k] = mem[k]
        BY <1>5, <2>1, <4>1, <4>2, CopyFacts
      <4> QED BY <2>5, <4>1, <4>3 DEF Good
    <3> QED BY <1>11, <2>3, <3>1
  <2>7. CASE size # 0
    <3>1. PICK j \in Nat : In(j) /\ (j - 1) * bytesPerClus = offset + got
      BY <1>3, <2>2, <2>3, <2>7 DEF PlaceInv
    <3>2. /\ 0 \in Nat /\ (j - 1) * bytesPerClus + 0 = offset + got
          /\ 0 + size <= bytesPerClus /\ got + size <= length
      BY <1>4, <1>5, <2>3, <2>4, <3>1
    <3>3. \A k \in 0 .. got + size - 1 : Copied(0, size, {})[k] = Content(offset + k)
      BY <1>0, <1>5, <2>5, <3>1, <3>2, GoodStep
    <3>4. got + size - 1 = length - 1
      BY <1>44, <1>5, <2>4
    <3>5. \A k \in 0 .. length - 1 : mem'[k] = Content(offset + k)
      BY <2>1, <2>2, <3>3, <3>4
    <3> QED BY <1>11, <2>3, <3>5
  <2> QED BY <2>6, <2>7
<1>21. CASE UNCHANGED vars
  <2>1. /\ cluster' = cluster /\ off' = off /\ size' = size /\ got' = got
        /\ mem' = mem /\ phase' = phase /\ lost' = lost
    BY <1>21 DEF vars
  <2> QED BY <1>1, <1>2, <2>1 DEF PlaceInv, Good, Content, In, InFile, FileBytes
<1>22. CASE Done
  BY <1>21, <1>22 DEF Done
<1> QED BY <1>12, <1>13, <1>14, <1>15, <1>16, <1>17, <1>18, <1>19, <1>20, <1>21, <1>22
        DEF Next

(* A read that ends with PASS, lost no sector and stays within the file     *)
(* leaves the file's bytes in memory: the skip to the first cluster, the    *)
(* partial sectors at either end and the steps along the FAT lose none and  *)
(* shift none.                                                              *)
THEOREM FileRead == Spec => []ReadsFile
<1>1. Init => Inv
  BY SafeInit, PlaceInit DEF Inv
<1>2. Inv /\ [Next]_vars => Inv'
  BY SafeNext, PlaceNext DEF Inv
<1>3. Inv => ReadsFile
  BY DEF Inv, PlaceInv, Good, ReadsFile
<1> QED BY <1>1, <1>2, <1>3, PTL DEF Spec

=============================================================================
