----------------------------- MODULE TrainingFw -----------------------------
(***************************************************************************)
(* The sectors of the DDR training firmware on a FAT disk                   *)
(* (fat_read_fat_for_training_fw and lba2sec_for_training_fw of             *)
(* fat/fat_boot.c).  The training code, a library that is not in this       *)
(* repository, asks for a table of them from some sector of the file on,    *)
(* looks sectors up in it, and asks again further on; the table has 128     *)
(* entries and is not cleared in between.  The chain of clusters is         *)
(* followed until an entry reads 0FFFFFFF: any other end mark is followed   *)
(* like a cluster, and what comes then are sectors of anything.             *)
(***************************************************************************)
EXTENDS Integers, Sequences

CONSTANTS
    FwClusters,     \* data clusters of the disk
    FwLength,       \* clusters of the firmware, at most
    FwSectsPerClus, \* the values of info->sectPerClus
    FwEnds,         \* end marks of its chain
    FwStarts,       \* the sectors a table is asked from
    MaxTables,      \* bound on the tables asked for
    MaxFwLen,       \* MAX_TRAINING_FW_LEN
    MaxFwLost       \* bound on sectors of the FAT that fail

LastCluster == 268435455

TrainingFwAssumption ==
    /\ FwLength \in Nat \ {0} /\ FwSectsPerClus \subseteq Nat \ {0} /\ FwStarts \subseteq Nat
    /\ \A c \in FwClusters : c \in Nat /\ 2 <= c /\ c <= 65524
    /\ \A e \in FwEnds : e \in Nat /\ 65528 <= e /\ e <= LastCluster
    /\ MaxTables \in Nat /\ MaxFwLen \in Nat \ {0} /\ MaxFwLost \in Nat

VARIABLES
    info,           \* the file, fixed
    pc, result,     \* the place in the code; the latest result
    start_lba, i, cluster,
    table, max_lba, \* fat_tbl_for_training_fw, max_lba_for_training_fw
    tables,         \* tables made
    lost            \* history: sectors of the FAT that failed

vars == <<info, pc, result, start_lba, i, cluster, table, max_lba, tables, lost>>

Zero == <<0, 0>>    \* what the table holds at first

Chains == {c \in UNION {[1 .. k -> FwClusters] : k \in 1 .. FwLength} : \A x, y \in DOMAIN c : c[x] = c[y] => x = y}

Init ==
    /\ info \in [chain : Chains, spc : FwSectsPerClus, end : FwEnds]
    /\ pc = "idle" /\ result = "none"
    /\ start_lba = 0 /\ i = 0 /\ cluster = 0
    /\ table = [k \in 0 .. MaxFwLen - 1 |-> Zero] /\ max_lba = 0
    /\ tables = 0 /\ lost = 0

Ask ==
    /\ pc = "idle" /\ tables < MaxTables
    /\ start_lba' \in FwStarts /\ i' = 0 /\ cluster' = info.chain[1]
    /\ pc' = "walk" /\ tables' = tables + 1 /\ result' = "none"
    /\ UNCHANGED <<info, table, max_lba, lost>>

(* The sectors of a cluster, from start_lba on, as far as the table goes.   *)
FirstBehind == start_lba + MaxFwLen

Walk ==
    /\ pc = "walk"
    /\ i' = IF i + info.spc >= FirstBehind THEN FirstBehind ELSE i + info.spc
    /\ table' = [k \in DOMAIN table |->
                    IF start_lba + k \in i .. i' - 1 THEN <<cluster, start_lba + k - i>> ELSE table[k]]
    /\ pc' = IF i' = FirstBehind THEN "done" ELSE "next"
    /\ UNCHANGED <<info, result, start_lba, cluster, max_lba, tables, lost>>

(* What the FAT says of cluster c, or, where it says nothing of this file,  *)
(* any cluster; so does a sector of it that failed to read.                 *)
Anything == FwClusters \cup {0, info.end, LastCluster}
Entry(c) ==
    LET at == {k \in DOMAIN info.chain : info.chain[k] = c}
    IN  IF at = {} THEN Anything
        ELSE {IF k = Len(info.chain) THEN info.end ELSE info.chain[k + 1] : k \in at}

NextCluster ==
    /\ pc = "next"
    /\ \/ cluster' \in Entry(cluster) /\ UNCHANGED lost
       \/ lost < MaxFwLost /\ lost' = lost + 1 /\ cluster' \in Anything
    /\ pc' = IF cluster' = LastCluster THEN "done" ELSE "walk"
    /\ UNCHANGED <<info, result, start_lba, i, table, max_lba, tables>>

LastSector == i - start_lba
LastOfTable == i - start_lba - 1

Return ==
    /\ pc = "done" /\ pc' = "idle"
    /\ IF i >= start_lba + 1 THEN result' = "pass" /\ max_lba' = LastOfTable
                             ELSE result' = "fail" /\ max_lba' = 0
    /\ UNCHANGED <<info, start_lba, i, cluster, table, tables, lost>>

(* lba2sec_for_training_fw                                                  *)
Lba2sec(lba) == table[IF lba > max_lba THEN max_lba ELSE lba]

Driver == Ask \/ Walk \/ NextCluster \/ Return
Next == Driver

Spec == Init /\ [][Next]_vars /\ WF_vars(Driver)

-----------------------------------------------------------------------------
(* Properties                                                               *)

TypeOK ==
    /\ pc \in {"idle", "walk", "next", "done"} /\ result \in {"none", "pass", "fail"}
    /\ i \in 0 .. FirstBehind /\ max_lba \in 0 .. MaxFwLen - 1
    /\ DOMAIN table = 0 .. MaxFwLen - 1 /\ tables \in 0 .. MaxTables /\ lost \in 0 .. MaxFwLost

FwSectors == Len(info.chain) * info.spc
SectorOf(s) == <<info.chain[s \div info.spc + 1], s % info.spc>>

(* Once a table is made, each sector of the file it covers is found in it,  *)
(* however the clusters lie, whatever an earlier table left there, and with *)
(* every end mark; a chain that ends with 0FFFFFFF gives no sector that is  *)
(* not the file's, and fails only behind its end.                           *)
TableRight ==
    pc = "idle" /\ lost = 0 =>
        /\ result = "pass" =>
               \A lba \in 0 .. MaxFwLen - 1 : start_lba + lba < FwSectors => Lba2sec(lba) = SectorOf(start_lba + lba)
        /\ result = "pass" /\ info.end = LastCluster => start_lba + max_lba < FwSectors
        /\ result = "fail" => start_lba >= FwSectors

(* Every table is made in the end, as the walk stops at its limit.          *)
Settled == pc = "idle" /\ tables = MaxTables

Settles == <>Settled
=============================================================================
