----------------------------- MODULE FatRead -----------------------------
(***************************************************************************)
(* fat_read_file() of fat/fat_boot.c: copy a byte range of a file, whose    *)
(* clusters are linked by the FAT, to memory.  The code goes in four        *)
(* phases (skip to the cluster, a partial sector, the rest of a cluster,    *)
(* whole clusters and what is left) and shares one sector buffer between    *)
(* file data and FAT.  No result of read_sector is looked at, so a sector   *)
(* that fails leaves what was in memory or in the buffer, and a FAT sector  *)
(* that fails leads to any cluster.                                         *)
(*                                                                          *)
(* A byte of the disk is its cluster and its place there.                   *)
(***************************************************************************)
EXTENDS Integers, Sequences, FiniteSets

CONSTANTS
    Bps,            \* info->bytePerSect
    SectsPerClus,   \* the values of info->sectPerClus, powers of two
    Clusters,       \* the data clusters of the disk
    MaxClusters,    \* clusters of the largest file
    Fat32Ends,      \* end marks found in a FAT32
    Fat16Ends,      \* and in a FAT16
    Offsets, Lengths,   \* what callers ask for
    MaxLost         \* sectors that fail to read in one call

ASSUME SizeAssumption ==
    /\ Bps \in Nat \ {0, 1} /\ MaxClusters \in Nat \ {0} /\ MaxLost \in Nat
    /\ SectsPerClus \subseteq Nat \ {0}

ASSUME ClusterAssumption ==
    Clusters \subseteq Nat /\ \A c \in Clusters : 2 <= c /\ c < 65525

ASSUME MarkAssumption ==
    /\ \A e \in Fat32Ends : 268435448 <= e /\ e < 268435456
    /\ \A e \in Fat16Ends : 65528 <= e /\ e < 65536

ASSUME RequestAssumption ==
    /\ Offsets \subseteq Nat /\ Lengths \subseteq Nat
    /\ \E l \in Lengths : \A k \in Lengths : k <= l

FatTypes == {"FAT_32", "FAT_16"}
Junk == <<0, 0>>            \* what a failed read leaves
Untouched == <<1, 0>>       \* what was in memory before the call
Chains == {c \in UNION {[1 .. m -> Clusters] : m \in 1 .. MaxClusters} :
               \A x, y \in DOMAIN c : c[x] = c[y] => x = y}
LargestLength == CHOOSE l \in Lengths : \A k \in Lengths : k <= l

VARIABLES
    info,       \* the file and its file system, fixed
    offset, length,     \* the request, fixed
    phase,      \* where the code is, "pass" and "fail" at the end
    cluster, off, size, \* the variables of these names
    got,        \* bytes written, what dest has advanced
    mem,        \* the bytes at dest
    lost        \* number of sectors that failed

request == <<info, offset, length>>
vars == <<request, phase, cluster, off, size, got, mem, lost>>

spc == info.sectPerClus
bytesPerClus == Bps * spc
remain == offset % Bps

Init ==
    /\ \/ info \in [fatType : {"FAT_32"}, sectPerClus : SectsPerClus,
                    chain : Chains, end : Fat32Ends]
       \/ info \in [fatType : {"FAT_16"}, sectPerClus : SectsPerClus,
                    chain : Chains, end : Fat16Ends]
    /\ offset \in Offsets /\ length \in Lengths
    /\ phase = "skip"
    /\ cluster = info.chain[1] /\ off = offset \div Bps
    /\ size = length /\ got = 0
    /\ mem = [k \in 0 .. LargestLength + Bps - 1 |-> Untouched]
    /\ lost = 0

-----------------------------------------------------------------------------
(* What the FAT says of cluster c; a cluster that is not of the file is     *)
(* free, the first entry is an end mark, behind the FAT anything may be.     *)
Entry(c) ==
    LET at == {k \in DOMAIN info.chain : info.chain[k] = c}
    IN  IF c = 0 THEN {info.end}
        ELSE IF at = {} THEN IF c \in Clusters THEN {0} ELSE Clusters \cup {0, info.end}
        ELSE {IF k = Len(info.chain) THEN info.end ELSE info.chain[k + 1] : k \in at}

(* next_cluster: the entry, or what a failed read leaves in the buffer.     *)
NextCluster(c, bad) == IF bad THEN Clusters \cup {0, info.end} ELSE Entry(c)

EndMark(c) == c >= IF info.fatType = "FAT_32" THEN 268435448 ELSE 65525

(* Losing sectors: a failed one counts, FAT sectors as well.                *)
Fails(bad) == bad => lost < MaxLost
Count(k) == lost' = lost + k

(* Copy cnt bytes to dest from byte at of the current cluster, except those *)
(* of the sectors that failed.                                              *)
Copied(at, cnt, bad) ==
    [k \in DOMAIN mem |->
        IF k \notin got .. got + cnt - 1 THEN mem[k]
        ELSE IF (at + k - got) \div Bps \in bad THEN Junk ELSE <<cluster, at + k - got>>]

(* At most MaxLost of the sectors that hold the cnt bytes from byte at on.  *)
LostOf(at, cnt) ==
    {s \in SUBSET (at \div Bps .. (at + cnt - 1) \div Bps) : lost + Cardinality(s) <= MaxLost}

-----------------------------------------------------------------------------

(* "go to target cluster"                                                   *)
Skip ==
    /\ phase = "skip" /\ size # 0 /\ off >= spc /\ ~EndMark(cluster)
    /\ \E bad \in BOOLEAN :
         /\ Fails(bad) /\ Count(IF bad THEN 1 ELSE 0)
         /\ cluster' \in NextCluster(cluster, bad)
    /\ off' = off - spc
    /\ UNCHANGED <<request, phase, size, got, mem>>

SkipFails ==
    /\ phase = "skip"
    /\ size = 0 \/ (off >= spc /\ EndMark(cluster))
    /\ phase' = "fail"
    /\ UNCHANGED <<request, cluster, off, size, got, mem, lost>>

SkipDone ==
    /\ phase = "skip" /\ size # 0 /\ off < spc
    /\ phase' = IF remain # 0 THEN "head" ELSE "part"
    /\ UNCHANGED <<request, cluster, off, size, got, mem, lost>>

(* Mutant: the part of the first sector is not taken off the size.          *)
HeadSizeWhole == IF remain + length < Bps THEN 0 ELSE length

(* "deal with blocks whose size is smaller than one sector".  dest advances *)
(* to the end of the sector even when fewer bytes were wanted.              *)
HeadSize == IF remain + length < Bps THEN 0 ELSE length - (Bps - remain)

FirstSector ==
    /\ phase = "head"
    /\ \E bad \in LostOf(off * Bps + remain, 1), badFat \in BOOLEAN :
         /\ mem' = Copied(off * Bps + remain,
                          IF remain + length < Bps THEN length ELSE Bps - remain, bad)
         /\ IF off + 1 = spc
            THEN /\ cluster' \in NextCluster(cluster, badFat)
                 /\ off' = 0
            ELSE badFat = FALSE /\ off' = off + 1 /\ UNCHANGED cluster
         /\ Count(Cardinality(bad) + IF badFat THEN 1 ELSE 0)
         /\ lost' <= MaxLost
    /\ got' = got + Bps - remain
    /\ size' = HeadSize
    /\ phase' = IF size' = 0 THEN "pass" ELSE "part"
    /\ UNCHANGED request

(* "deal with blocks whose size is smaller than a cluster": one turn of     *)
(* "read until next cluster".                                               *)
PartLast ==
    /\ phase = "part" /\ off % spc # 0 /\ size < Bps
    /\ \E bad \in LostOf(off * Bps, 1) :
         mem' = Copied(off * Bps, size, bad) /\ Count(Cardinality(bad))
    /\ phase' = "pass"
    /\ UNCHANGED <<request, cluster, off, size, got>>

PartSector ==
    /\ phase = "part" /\ off % spc # 0 /\ size >= Bps
    /\ \E bad \in LostOf(off * Bps, 1), badFat \in BOOLEAN :
         /\ mem' = Copied(off * Bps, Bps, bad)
         /\ IF off + 1 = spc THEN cluster' \in NextCluster(cluster, badFat)
            ELSE badFat = FALSE /\ UNCHANGED cluster
         /\ Count(Cardinality(bad) + IF badFat THEN 1 ELSE 0)
         /\ lost' <= MaxLost
    /\ off' = off + 1 /\ got' = got + Bps /\ size' = size - Bps
    /\ phase' = IF off' = spc THEN "whole" ELSE "part"
    /\ UNCHANGED request

PartDone ==
    /\ phase = "part" /\ off % spc = 0
    /\ phase' = "whole"
    /\ UNCHANGED <<request, cluster, off, size, got, mem, lost>>

(* Mutant: the next cluster on the disk whatever the FAT says.              *)
OverEndAlways(sz, next) == IF sz < bytesPerClus THEN cluster + 1 ELSE next

(* "deal with blocks whose size is bigger or equal to a cluster"; a range   *)
(* that runs over the end of a file goes on in the cluster that follows on  *)
(* the disk.                                                                *)
OverEnd(sz, next) == IF sz < bytesPerClus /\ next >= 268431360 THEN cluster + 1 ELSE next

Whole ==
    /\ phase = "whole" /\ size >= bytesPerClus
    /\ size' = size - bytesPerClus
    /\ got' = got + bytesPerClus
    /\ \E bad \in LostOf(0, bytesPerClus), badFat \in BOOLEAN :
         /\ mem' = Copied(0, bytesPerClus, bad)
         /\ IF size' = 0
            THEN badFat = FALSE /\ phase' = "pass" /\ UNCHANGED cluster
            ELSE /\ \E c \in NextCluster(cluster, badFat) : cluster' = OverEnd(size', c)
                 /\ UNCHANGED phase
         /\ Count(Cardinality(bad) + IF badFat THEN 1 ELSE 0)
         /\ lost' <= MaxLost
    /\ UNCHANGED <<request, off>>

(* "deal with remaining sectors which is smaller than a cluster"            *)
Rest ==
    /\ phase = "whole" /\ size < bytesPerClus
    /\ \E bad \in LostOf(0, size) :
         mem' = Copied(0, size, bad) /\ Count(Cardinality(bad))
    /\ got' = got + (size \div Bps) * Bps /\ size' = size % Bps
    /\ phase' = "pass"
    /\ UNCHANGED <<request, cluster, off>>

Done == phase \in {"pass", "fail"} /\ UNCHANGED vars

Next ==
    \/ Skip \/ SkipFails \/ SkipDone \/ FirstSector \/ PartLast \/ PartSector \/ PartDone
    \/ Whole \/ Rest \/ Done
Spec == Init /\ [][Next]_vars

-----------------------------------------------------------------------------
(* Properties                                                               *)

TypeOK ==
    /\ phase \in {"skip", "head", "part", "whole", "pass", "fail"}
    /\ cluster \in Nat /\ off \in Nat /\ size \in 0 .. length
    /\ got \in 0 .. length \/ got = Bps - remain
    /\ lost \in 0 .. MaxLost
    /\ DOMAIN mem = 0 .. LargestLength + Bps - 1

FileBytes == Len(info.chain) * bytesPerClus
InFile == offset + length <= FileBytes
Content(k) == <<info.chain[k \div bytesPerClus + 1], k % bytesPerClus>>

(* A read that ends with PASS, lost no sector and asked for bytes the file  *)
(* has put exactly those bytes at dest, in whatever order the clusters lie  *)
(* on the disk.                                                             *)
ReadsFile ==
    phase = "pass" /\ InFile /\ lost = 0 =>
        \A k \in 0 .. length - 1 : mem[k] = Content(offset + k)

(* Nothing behind dest + length is written, for any request and any failing *)
(* sector: the loaders size their buffers by the length they ask for.       *)
WritesInside == \A k \in DOMAIN mem : k >= length => mem[k] = Untouched
=============================================================================
