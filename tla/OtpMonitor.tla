----------------------------- MODULE OtpMonitor -----------------------------
(***************************************************************************)
(* The OTP monitor (otp/mon_rw_otp.c over otp/sp_otp.c): before the boot a  *)
(* host at the serial line may have fuses burnt and read.  Requests come    *)
(* as packages of bytes,                                                    *)
(*     FF FE event command length(2) payload checksum,                      *)
(* and the receiver has nothing but these bytes to find their ends by.  A   *)
(* byte may get lost (dbg_uart_getc drops one the UART marks as bad); fuses *)
(* may not report done in time.  What is burnt cannot be taken back.        *)
(*                                                                          *)
(* The host is not in this repository: it answers the call to connect, asks *)
(* for one thing after another, again if no answer comes, and then leaves.  *)
(* The package with one payload for every chip is that of SP7350; Q645 has  *)
(* the number of the fuse block in front.                                   *)
(***************************************************************************)
EXTENDS Integers, Sequences, SequencesExt

CONSTANTS
    Requests,       \* what a host asks for: [command, start, bytes]
    MaxSent,        \* bound on the packages of the host
    MaxLost,        \* bound on lost bytes
    MaxLate,        \* bound on fuses that are not done in time
    BufSize         \* PACKAGE_SIZE_MAX

CONNECT == 1
READ == 2
WRITE == 3
SEND == 1
ACK == 2
Byte == 0 .. 255

OtpMonitorAssumption ==
    /\ \A r \in Requests : r.command \in {READ, WRITE} /\ r.start \in Byte /\ r.bytes \in Seq(Byte)
    /\ MaxSent \in Nat /\ MaxLost \in Nat /\ MaxLate \in Nat /\ BufSize \in Nat \ {0}

VARIABLES
    wire,       \* bytes the host has sent
    sent,       \* the requests it made
    asked,      \* <<address, byte>> it asked to burn
    answer,     \* the answer to the latest of them
    pc,         \* "receive", "parse", "burn", "over"
    stage,      \* "handshake", "serve"
    data, readnum, packagelen,  \* receive_package
    address, rlt,               \* write_otp_data
    fuses,      \* <<address, bit>> burnt
    lost,       \* history: bytes lost
    late        \* history: fuses not done in time

host == <<sent, asked>>
buffer == <<data, readnum, packagelen>>
vars == <<wire, host, answer, pc, stage, buffer, address, rlt, fuses, lost, late>>

Cleared == [k \in 0 .. BufSize - 1 |-> 0]
NoAnswer == [command |-> 0]

Init ==
    /\ wire = <<>> /\ sent = <<>> /\ asked = {} /\ answer = NoAnswer
    /\ pc = "receive" /\ stage = "handshake"
    /\ data = Cleared /\ readnum = 0 /\ packagelen = 0
    /\ address = 0 /\ rlt = TRUE
    /\ fuses = {}
    /\ lost = <<>> /\ late = 0

-----------------------------------------------------------------------------
(* The host                                                                 *)

(* checksum: the exclusive or of bytes has the bits that an odd number of   *)
(* them has.                                                                *)
Bits(byte) == {j \in 0 .. 7 : (byte \div 2^j) % 2 = 1}
OfBits(bits) == CHOOSE byte \in Byte : Bits(byte) = bits
Parity(bytes) == {j \in 0 .. 7 : Cardinality({k \in DOMAIN bytes : j \in Bits(bytes[k])}) % 2 = 1}

Package(event, command, payload) ==
    LET front == <<255, 254, event, command, Len(payload), 0>> \o payload
    IN  Append(front, OfBits(Parity(front)))

Payload(r) == <<r.start, 0, r.start + Len(r.bytes) - 1, 0>> \o (IF r.command = WRITE THEN r.bytes ELSE <<>>)
Burns(r) == IF r.command = WRITE THEN {<<r.start + k - 1, r.bytes[k]>> : k \in DOMAIN r.bytes} ELSE {}
Greeting == [command |-> CONNECT, start |-> 0, bytes |-> <<>>]
Parting == [command |-> CONNECT, start |-> 1, bytes |-> <<>>]

(* It speaks when the monitor has taken all it said before.                 *)
HostSends ==
    /\ pc = "receive" /\ wire = <<>> /\ Len(sent) < MaxSent
    /\ \E r \in IF sent = <<>> THEN {Greeting} ELSE Requests \cup {Parting} :
           /\ sent' = Append(sent, r) /\ asked' = asked \cup Burns(r)
           /\ wire' = CASE r = Greeting -> Package(ACK, CONNECT, <<0>>)
                        [] r = Parting -> Package(SEND, CONNECT, <<1>>)
                        [] OTHER -> Package(SEND, r.command, Payload(r))
    /\ answer' = NoAnswer
    /\ UNCHANGED <<pc, stage, buffer, address, rlt, fuses, lost, late>>

-----------------------------------------------------------------------------
(* receive_package                                                          *)

Store(byte) == data' = [data EXCEPT ![readnum] = byte]
Restart == readnum' = 0 /\ packagelen' = 0 /\ UNCHANGED data

(* A handshake needs a payload, and ends with whatever came.                *)
Taken == IF stage = "handshake" /\ packagelen < 8 THEN "over" ELSE "parse"

(* A byte is put at its place and counted; a full buffer starts over.       *)
Keep(byte, length) ==
    /\ Store(byte)
    /\ IF readnum + 1 >= BufSize /\ readnum + 1 # length
         THEN readnum' = 0 /\ packagelen' = 0
         ELSE readnum' = readnum + 1 /\ packagelen' = length
    /\ pc' = IF packagelen # 0 /\ readnum + 1 = packagelen THEN Taken ELSE pc

Length(high) == data[4] + 256 * high + 7

Receive ==
    /\ pc = "receive" /\ wire # <<>> /\ wire' = Tail(wire)
    /\ LET byte == Head(wire) IN
       CASE (byte = 255 /\ readnum = 0) \/ (byte = 254 /\ readnum = 1) -> Keep(byte, 0)
         [] readnum > 1 /\ packagelen = 0 -> Keep(byte, IF readnum = 5 THEN Length(byte) ELSE 0)
         [] readnum > 1 /\ packagelen # 0 -> Keep(byte, packagelen)
         [] OTHER -> Restart /\ UNCHANGED pc
    /\ UNCHANGED <<host, answer, stage, address, rlt, fuses, lost, late>>

(* dbg_uart_getc: a bad byte is taken from the UART and dropped.            *)
LoseByte ==
    /\ pc = "receive" /\ wire # <<>> /\ Len(lost) < MaxLost
    /\ wire' = Tail(wire) /\ lost' = Append(lost, Head(wire))
    /\ UNCHANGED <<host, answer, pc, stage, buffer, address, rlt, fuses, late>>

(* The handshake waits 200 ms, wherever a package then is; what is there of *)
(* it is parsed if the length it announced is at least that of an answer.   *)
HandshakeEnds ==
    /\ pc = "receive" /\ stage = "handshake"
    /\ pc' = Taken
    /\ UNCHANGED <<wire, host, answer, stage, buffer, address, rlt, fuses, lost, late>>

-----------------------------------------------------------------------------
(* parser_package                                                           *)

Part(from, to) == [k \in 1 .. to - from + 1 |-> data[from + k - 1]]
NotChecked == TRUE
CheckOk == Parity(Part(0, packagelen - 2)) = Bits(data[packagelen - 1])

Is(event, command) == pc = "parse" /\ CheckOk /\ data[2] = event /\ data[3] = command
start == data[6] + 256 * data[7]
end == data[8] + 256 * data[9]

(* After a package of the handshake the monitor is done, unless it was the  *)
(* answer; in receive_rw_package the next one is received.                  *)
NextPackage ==
    /\ pc' = IF stage = "handshake" THEN "over" ELSE "receive"
    /\ data' = Cleared /\ readnum' = 0 /\ packagelen' = 0

Ignored ==
    /\ pc = "parse"
    /\ ~ \/ CheckOk /\ data[2] = SEND /\ data[3] \in {READ, WRITE}
         \/ CheckOk /\ data[3] = CONNECT /\ packagelen = 8
                    /\ <<data[2], data[6]>> \in {<<SEND, 1>>, <<ACK, 0>>}
    /\ NextPackage
    /\ UNCHANGED <<wire, host, answer, stage, address, rlt, fuses, lost, late>>

Connect ==
    /\ Is(ACK, CONNECT) /\ packagelen = 8 /\ data[6] = 0
    /\ stage' = "serve" /\ pc' = "receive"
    /\ data' = Cleared /\ readnum' = 0 /\ packagelen' = 0
    /\ UNCHANGED <<wire, host, answer, address, rlt, fuses, lost, late>>

Disconnect ==
    /\ Is(SEND, CONNECT) /\ packagelen = 8 /\ data[6] = 1
    /\ pc' = "over" /\ answer' = [command |-> CONNECT]
    /\ UNCHANGED <<wire, host, stage, buffer, address, rlt, fuses, lost, late>>

Held(a) == {j \in 0 .. 7 : <<a, j>> \in fuses}

(* otprx_read, and otprx_key_read for the keys of the SP7350: in time, or   *)
(* *value keeps what is there.                                              *)
otprx_read(a, inTime, value) == IF inTime THEN Held(a) ELSE value

(* read_otp_data reads into the package that was received; the answer says  *)
(* nothing of what could not be read.                                       *)
Read ==
    /\ Is(SEND, READ)
    /\ \E bad \in {{}} \cup {{a} : a \in start .. end} :
           /\ late' = late + Cardinality(bad) /\ late' <= MaxLate
           /\ answer' = [command |-> READ, start |-> start, good |-> bad = {},
                         bytes |-> [k \in 1 .. end - start + 1 |->
                             LET a == start + k - 1 IN otprx_read(a, a \notin bad, Bits(data[3 + k]))]]
    /\ NextPackage
    /\ UNCHANGED <<wire, host, stage, address, rlt, fuses, lost>>

Write ==
    /\ Is(SEND, WRITE)
    /\ pc' = "burn" /\ address' = start /\ rlt' = TRUE
    /\ UNCHANGED <<wire, host, answer, stage, buffer, fuses, lost, late>>

(* write_otp_data and otprx_write: one address, in time or not.  A late one *)
(* returns with otp_prog_pgenb, otp_prog_wr and otp_prog_ctl as they are    *)
(* for programming.  It is assumed that the next one, which sets them       *)
(* again, nevertheless burns its own address and value only.                *)
Burn ==
    /\ pc = "burn" /\ address <= end
    /\ LET burnt == fuses \cup {address} \X Bits(data[10 + address - start]) IN
       \/ fuses' = burnt /\ UNCHANGED <<rlt, late>>
       \/ /\ late < MaxLate /\ late' = late + 1
          /\ rlt' = FALSE /\ fuses' \in {fuses, burnt}
    /\ address' = address + 1
    /\ UNCHANGED <<wire, host, answer, pc, stage, buffer, lost>>

Burnt ==
    /\ pc = "burn" /\ address > end
    /\ answer' = [command |-> WRITE, good |-> rlt]
    /\ NextPackage
    /\ UNCHANGED <<wire, host, stage, address, rlt, fuses, lost, late>>

-----------------------------------------------------------------------------
Monitor ==
    \/ Receive \/ Ignored \/ Connect \/ Disconnect \/ Read \/ Write \/ Burn \/ Burnt
    \/ (wire = <<>> /\ HandshakeEnds)

Next == HostSends \/ LoseByte \/ HandshakeEnds \/ Monitor

(* The STC runs: a handshake nobody answers comes to its end.               *)
Spec == Init /\ [][Next]_vars /\ WF_vars(Monitor)

-----------------------------------------------------------------------------
(* Properties                                                               *)

TypeOK ==
    /\ wire \in Seq(Byte) /\ Len(sent) <= MaxSent
    /\ pc \in {"receive", "parse", "burn", "over"} /\ stage \in {"handshake", "serve"}
    /\ data \in [0 .. BufSize - 1 -> Byte] /\ readnum \in 0 .. BufSize
    /\ packagelen \in 0 .. 65542 /\ (pc = "parse" => packagelen <= BufSize)
    /\ fuses \subseteq Nat \X (0 .. 7) /\ lost \in Seq(Byte) /\ late \in 0 .. MaxLate

(* A lost FF may be made up for by the first byte of the next package, and  *)
(* is the one byte the checksum then does not miss.                         *)
Slipped == \E k \in DOMAIN lost : lost[k] = 255

(* No fuse has a bit that the host did not ask to burn there, however       *)
(* packages run together; a good answer to a write means that all of it is  *)
(* burnt, a good answer to a read that it is what the fuses hold.           *)
FusesAsAsked ==
    ~Slipped =>
        /\ \A f \in fuses : \E b \in asked : b[1] = f[1] /\ f[2] \in Bits(b[2])
        /\ answer.command = WRITE /\ answer.good =>
               \A b \in Burns(Last(sent)) : Bits(b[2]) \subseteq Held(b[1])
        /\ answer.command = READ /\ answer.good =>
               \A k \in DOMAIN answer.bytes : answer.bytes[k] = Held(answer.start + k - 1)

(* The monitor is left, or waits for a host that has connected.             *)
Settled == pc = "over" \/ (pc = "receive" /\ stage = "serve" /\ wire = <<>>)

Settles == <>Settled
=============================================================================
