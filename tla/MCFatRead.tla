---------------------------- MODULE MCFatRead ----------------------------
(* Sectors of four bytes; files of up to three of four clusters, in any     *)
(* order; requests that start and end in every phase, and over the end.     *)
EXTENDS FatRead

MCClusters == 2 .. 4
MCFat32Ends == {268435448, 268435455}
MCFat16Ends == {65535}
MCOffsets == {0, 1, 8, 22, 33}
MCLengths == {0, 2, 4, 9, 16, 21}
=============================================================================
