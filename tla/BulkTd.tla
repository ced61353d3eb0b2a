------------------------------- MODULE BulkTd -------------------------------
(***************************************************************************)
(* The TRBs of one bulk transfer (bulk_tx, xhci_v1_0_td_remainder and       *)
(* xhci_td_remainder of usb/xhci_usb.c).  A TRB may not cross a boundary of *)
(* 64 KB, so a transfer is cut there; the TRBs are counted before the first *)
(* is queued, and the count that is left decides which is the last one,     *)
(* chained to none and the one that interrupts.  XhciRing has the ring they *)
(* are put on.                                                              *)
(***************************************************************************)
EXTENDS Integers, Sequences

CONSTANTS
    Boundary,       \* TRB_MAX_BUFF_SIZE
    Buffers,        \* addresses of data
    Lengths,        \* of transfers
    PacketSizes,    \* epmaxpacketin, epmaxpacketout
    Old,            \* HC_VERSION below 1.0
    MaxTdSize,      \* 31
    TdUnit          \* 1024, of the TD size before 1.0

BulkTdAssumption ==
    /\ Boundary \in Nat \ {0} /\ Buffers \subseteq Nat /\ Lengths \subseteq Nat
    /\ PacketSizes \subseteq 1 .. Boundary
    /\ Old \in BOOLEAN /\ MaxTdSize \in Nat \ {0} /\ TdUnit \in Nat \ {0}

VARIABLES
    buffer, length, maxpacketsize,  \* of the transfer, fixed
    pc,             \* "count", "queue", "done"
    num_trbs, running_total,
    trb_buff_len, addr,
    trbs            \* those queued

vars == <<buffer, length, maxpacketsize, pc, num_trbs, running_total, trb_buff_len, addr, trbs>>

Lesser(a, b) == IF a < b THEN a ELSE b

(* As far as the first boundary.                                            *)
FirstPiece == Boundary - (buffer % Boundary)

(* A TRB for what is before the boundary, or for nothing at all.            *)
AlwaysOne == 1
FirstTrb == IF FirstPiece % Boundary # 0 \/ length = 0 THEN 1 ELSE 0

Init ==
    /\ buffer \in Buffers /\ length \in Lengths /\ maxpacketsize \in PacketSizes
    /\ pc = "count" /\ running_total = FirstPiece % Boundary
    /\ num_trbs = FirstTrb
    /\ trb_buff_len = FirstPiece /\ addr = buffer /\ trbs = <<>>

Fixed == UNCHANGED <<buffer, length, maxpacketsize>>

Count ==
    /\ pc = "count" /\ running_total < length
    /\ num_trbs' = num_trbs + 1 /\ running_total' = running_total + Boundary
    /\ UNCHANGED <<pc, trb_buff_len, addr, trbs>> /\ Fixed

Counted ==
    /\ pc = "count" /\ running_total >= length
    /\ pc' = "queue" /\ running_total' = 0 /\ trb_buff_len' = Lesser(trb_buff_len, length)
    /\ UNCHANGED <<num_trbs, addr, trbs>> /\ Fixed

TotalPackets == (length + maxpacketsize - 1) \div maxpacketsize

(* xhci_td_remainder: before 1.0 what is left, this TRB with it.            *)
OldRemainder == Lesser((length - running_total) \div TdUnit, MaxTdSize)

(* xhci_v1_0_td_remainder: the packets behind this TRB.                     *)
Remainder ==
    IF num_trbs - 1 = 0 \/ (running_total = 0 /\ trb_buff_len = 0) THEN 0
    ELSE Lesser(TotalPackets - (running_total + trb_buff_len) \div maxpacketsize, MaxTdSize)

(* TRB_LEN_MASK has a bit more than a piece needs.                          *)
Trb == [addr |-> addr, length |-> trb_buff_len % (2 * Boundary), chain |-> num_trbs > 1, ioc |-> num_trbs <= 1,
        remainder |-> IF Old THEN OldRemainder ELSE Remainder]

Queue ==
    /\ pc = "queue"
    /\ trbs' = Append(trbs, Trb)
    /\ num_trbs' = num_trbs - 1
    /\ running_total' = running_total + trb_buff_len
    /\ addr' = addr + trb_buff_len
    /\ trb_buff_len' = Lesser(length - running_total', Boundary)
    /\ pc' = IF running_total' < length THEN "queue" ELSE "done"
    /\ Fixed

Next == Count \/ Counted \/ Queue

Spec == Init /\ [][Next]_vars /\ WF_vars(Next)

-----------------------------------------------------------------------------
(* Properties                                                               *)

TypeOK ==
    /\ buffer \in Buffers /\ length \in Lengths /\ maxpacketsize \in PacketSizes
    /\ pc \in {"count", "queue", "done"} /\ num_trbs \in Nat /\ running_total \in Nat
    /\ trb_buff_len \in 0 .. Boundary /\ addr \in Nat
    /\ trbs \in Seq([addr : Nat, length : 0 .. Boundary, chain : BOOLEAN, ioc : BOOLEAN, remainder : 0 .. MaxTdSize])

(* What is queued follows on from the buffer's start, and no TRB crosses a  *)
(* boundary.                                                                *)
Pieces ==
    \A k \in DOMAIN trbs :
        /\ trbs[k].addr = IF k = 1 THEN buffer ELSE trbs[k - 1].addr + trbs[k - 1].length
        /\ (trbs[k].addr % Boundary) + trbs[k].length <= Boundary

(* Only the last TRB ends the chain, interrupts and has nothing behind it;  *)
(* the others tell how many packets end behind them, as far as they can.    *)
EndOf(k) == trbs[k].addr + trbs[k].length - buffer
PacketsBehind(k) == {m \in 1 .. TotalPackets : m * maxpacketsize > EndOf(k)}
OneTd ==
    \A k \in DOMAIN trbs :
        LET last == EndOf(k) = length IN
        /\ trbs[k].ioc = last /\ trbs[k].chain = ~last
        /\ ~Old /\ last => trbs[k].remainder = 0
        /\ ~Old /\ ~last => \E m \in 0 .. TotalPackets :
               /\ trbs[k].remainder = Lesser(m, MaxTdSize)
               /\ PacketsBehind(k) = TotalPackets - m + 1 .. TotalPackets

(* A transfer is one TD: the count made first and the pieces queued agree,  *)
(* whatever the buffer's place and length, and when it is queued its last   *)
(* TRB ends where the data ends.                                            *)
TdWhole ==
    /\ Pieces /\ OneTd
    /\ pc = "done" => EndOf(Len(trbs)) = length /\ num_trbs = 0

Settled == pc = "done"
=============================================================================
