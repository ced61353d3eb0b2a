-------------------------- MODULE XhciRingProofs --------------------------
(***************************************************************************)
(* Proofs about XhciRing, for rings of any size, any number of bulk         *)
(* endpoints, transfers and laps: the controller executes what was queued,  *)
(* in order, and a call's answer is about its own transfer.                 *)
(*                                                                          *)
(* The driver never looks whether a ring has room.  That no transfer is     *)
(* longer than a ring is Roomy, an assumption of the theorems; that one     *)
(* transfer is over before the next is queued is what InStep says.          *)
(***************************************************************************)
EXTENDS XhciRing, TLAPS

Roomy == 3 <= Link /\ MaxChunks <= Link

-----------------------------------------------------------------------------
(* The inductive invariant                                                  *)

Bit == {0, 1}
Places == 0 .. Link - 1
TrbType == [cyc : Bit, td : Nat, k : Nat]
RingType == [trb : [0 .. Link -> TrbType], enq : 0 .. Link, cycle : Bit]
HcType == [deq : 0 .. Link, cycle : Bit, bell : BOOLEAN, halted : BOOLEAN, short : BOOLEAN, td : Nat, k : Nat]
EventType == [cyc : Bit, type : EventTypes \cup {"none"}, td : Nat, code : CompletionCodes \cup {"none"}]
TdType == [ep : Rings, n : Nat]

TypeInv ==
    /\ ring \in [Rings -> RingType] /\ hc \in [Rings -> HcType]
    /\ event \in [0 .. EventTrbs - 1 -> EventType]
    /\ evEnq \in 0 .. EventTrbs - 1 /\ evPcs \in Bit /\ evDeq \in 0 .. EventTrbs - 1 /\ evCycle \in Bit
    /\ pc \in {"idle", "queue", "ring", "wait", "null"}
    /\ start \in 0 .. Link /\ startCycle \in Bit /\ k \in Nat
    /\ skips \in 0 .. MaxSkips /\ (pc \in {"queue", "ring", "wait"} => skips < MaxSkips)
    /\ tds \in Seq(TdType) /\ \A t \in 1 .. Td : tds[t].n \in 1 .. Link
    /\ clean \in BOOLEAN /\ lost \in BOOLEAN
    /\ answer \in [td : Nat, code : CompletionCodes \cup {"none"}]
    /\ pc # "idle" \/ answer # NoAnswer => Td > 0
    /\ pc = "null" => lost

(* While a transfer is queued its first TRB has a place, and the ring has   *)
(* one for the next.                                                        *)
QueueInv ==
    pc \in {"queue", "ring"} =>
        /\ start \in Places
        /\ pc = "queue" => k < tds[Td].n /\ ring[Ep].enq # Link
        /\ pc = "ring" => k = tds[Td].n
        /\ \/ ring[Ep].cycle = startCycle /\ ring[Ep].enq = start + k
           \/ ring[Ep].cycle # startCycle /\ ring[Ep].enq = start + k - Link

(* On a ring the TRBs of this lap have the producer's cycle and those of    *)
(* the last one have not, but for a first TRB that is not yet shown.        *)
CycleAt(r, p) == IF p < r.enq THEN r.cycle ELSE 1 - r.cycle
Laps(r, hidden) ==
    /\ r.trb[Link].cyc = 1 - r.cycle
    /\ \A p \in Places : r.trb[p].cyc = IF p \in hidden THEN 1 - CycleAt(r, p) ELSE CycleAt(r, p)
Hidden(e) == IF pc \in {"queue", "ring"} /\ e = Ep /\ k > 0 THEN {start} ELSE {}
CycleInv == \A e \in Rings : Laps(ring[e], Hidden(e))

(* The TRBs of the latest transfer are the last ones before the enqueue of  *)
(* its ring.                                                                *)
Before(r, i) == IF i <= r.enq THEN r.enq - i ELSE r.enq - i + Link
Holds(r, t, m) ==
    \A j \in 1 .. m : r.trb[Before(r, m + 1 - j)].td = t /\ r.trb[Before(r, m + 1 - j)].k = j
QueuedNow == IF pc = "queue" THEN k ELSE tds[Td].n
PlaceInv == Td > 0 => Holds(ring[Ep], Td, QueuedNow)

(* The controller is as far behind the driver as the latest transfer has    *)
(* TRBs left; on the other rings it has done them all.                      *)
Behind(h, r, m) ==
    \/ h.cycle = r.cycle /\ r.enq = h.deq + m
    \/ h.cycle # r.cycle /\ r.enq + Link = h.deq + m
DoneNow == IF hc[Ep].td = Td THEN hc[Ep].k ELSE 0
Left(e) == IF Td > 0 /\ e = Ep THEN QueuedNow - DoneNow ELSE 0
HcInv ==
    /\ \A e \in Rings :
         /\ hc[e].td \in 0 .. Td /\ (hc[e].td # 0 => tds[hc[e].td].ep = e)
         /\ ~hc[e].halted => Left(e) >= 0 /\ Behind(hc[e], ring[e], Left(e))
    /\ pc \in {"queue", "ring"} => hc[Ep].halted \/ hc[Ep].td # Td

(* The event ring, as long as no event is acknowledged that was not posted. *)
InFlight(p) ==
    \/ evDeq <= p /\ p < evEnq
    \/ evEnq < evDeq /\ (p < evEnq \/ p >= evDeq)
EventInv ==
    /\ \A p \in 0 .. EventTrbs - 1 : event[p].cyc = IF p < evEnq THEN evPcs ELSE 1 - evPcs
    /\ evCycle = IF evDeq <= evEnq THEN evPcs ELSE 1 - evPcs

(* What it says is true, and nothing is owed to an earlier transfer.        *)
SaysInv ==
    \A p \in 0 .. EventTrbs - 1 : InFlight(p) =>
        /\ event[p].type \in EventTypes
        /\ event[p].type # "port" => event[p].td \in 1 .. Td /\ (event[p].code = "success" => Finished(event[p].td))
SettledInv == \A u \in 1 .. Td - 1 : ~Owed(u)

Inv ==
    /\ TypeInv /\ QueueInv /\ CycleInv /\ PlaceInv
    /\ ~lost => EventInv
    /\ InStep => HcInv /\ SaysInv /\ SettledInv /\ AnswerIsOwn

-----------------------------------------------------------------------------
(* Arithmetic, and the types of the operators                               *)

LEMMA Bounds ==
    ASSUME XhciAssumption, Roomy
    PROVE  /\ Link \in Nat /\ 3 <= Link /\ MaxChunks \in Nat \ {0} /\ MaxChunks <= Link
           /\ EventTrbs \in Nat /\ EventTrbs >= 3 /\ MaxSkips \in Nat \ {0}
           /\ MaxTds \in Nat
BY DEF XhciAssumption, Roomy, Link

LEMMA Around ==
    ASSUME XhciAssumption, NEW p \in 0 .. EventTrbs - 1
    PROVE  (p + 1) % EventTrbs = IF p + 1 = EventTrbs THEN 0 ELSE p + 1
BY DEF XhciAssumption

LEMMA RingTypes ==
    ASSUME NEW r \in RingType
    PROVE  /\ r.trb \in [0 .. Link -> TrbType] /\ r.enq \in 0 .. Link /\ r.cycle \in Bit /\ 1 - r.cycle \in Bit
           /\ \A p \in 0 .. Link : r.trb[p] \in TrbType /\ r.trb[p].cyc \in Bit /\ 1 - r.trb[p].cyc \in Bit
<1>1. /\ r.trb \in [0 .. Link -> TrbType] /\ r.enq \in 0 .. Link /\ r.cycle \in Bit /\ 1 - r.cycle \in Bit
  BY DEF RingType, Bit
<1>2. \A trb \in TrbType : trb.cyc \in Bit /\ 1 - trb.cyc \in Bit
  BY DEF TrbType, Bit
<1> QED BY <1>1, <1>2

LEMMA TrbsSet ==
    ASSUME NEW f \in [0 .. Link -> TrbType], NEW p \in 0 .. Link, NEW c \in Bit
    PROVE  LET g == [f EXCEPT ![p].cyc = c] IN
           /\ g \in [0 .. Link -> TrbType]
           /\ g[p].cyc = c /\ g[p].td = f[p].td /\ g[p].k = f[p].k
           /\ \A q \in 0 .. Link : q # p => g[q] = f[q]
BY DEF TrbType

LEMMA RingSet ==
    ASSUME NEW r \in RingType, NEW trb \in [0 .. Link -> TrbType], NEW cycle \in Bit, NEW enq \in 0 .. Link
    PROVE  /\ [r EXCEPT !.trb = trb] \in RingType
           /\ [r EXCEPT !.enq = enq] \in RingType
           /\ [r EXCEPT !.trb = trb, !.cycle = cycle, !.enq = enq] \in RingType
BY DEF RingType

LEMMA PreparedFields ==
    ASSUME XhciAssumption, Roomy, NEW r \in RingType
    PROVE  /\ Prepared(r) \in RingType /\ Prepared(r).enq \in Places
           /\ r.enq # Link => Prepared(r) = r
           /\ r.enq = Link =>
                /\ Prepared(r).enq = 0 /\ Prepared(r).cycle = 1 - r.cycle
                /\ Prepared(r).trb = [r.trb EXCEPT ![Link].cyc = 1 - @]
<1>1. CASE r.enq # Link
  BY <1>1, Bounds, RingTypes DEF Prepared, Places
<1>2. CASE r.enq = Link
  <2> DEFINE trb == [r.trb EXCEPT ![Link].cyc = 1 - @]
  <2>1. trb \in [0 .. Link -> TrbType]
    <3>1. Link \in 0 .. Link /\ r.trb \in [0 .. Link -> TrbType] /\ 1 - r.trb[Link].cyc \in Bit
      BY Bounds, RingTypes
    <3> QED BY <3>1, TrbsSet
  <2>2. Wrapped(r) = [r EXCEPT !.trb = trb, !.cycle = 1 - r.cycle, !.enq = 0]
    BY DEF Wrapped
  <2>3. Wrapped(r) \in RingType
    <3>1. 0 \in 0 .. Link /\ 1 - r.cycle \in Bit
      BY Bounds, RingTypes
    <3>2. [r EXCEPT !.trb = trb, !.cycle = 1 - r.cycle, !.enq = 0] \in RingType
      BY <2>1, <3>1 DEF RingType
    <3> QED BY <2>2, <3>2
  <2>4. Wrapped(r).enq = 0 /\ Wrapped(r).cycle = 1 - r.cycle /\ Wrapped(r).trb = trb
    BY <2>2 DEF RingType
  <2> QED BY <1>2, <2>3, <2>4, Bounds DEF Prepared, Places
<1> QED BY <1>1, <1>2

(* A TRB on a ring; it is the last of the lap if the ring then goes round.  *)
Put(r, trb, more) == Advanced([r EXCEPT !.trb[r.enq] = trb], more)

LEMMA PutFields ==
    ASSUME XhciAssumption, Roomy, NEW r \in RingType, r.enq # Link,
           NEW trb \in TrbType, NEW more \in BOOLEAN
    PROVE  /\ Put(r, trb, more) \in RingType
           /\ IF r.enq + 1 = Link /\ more
              THEN /\ Put(r, trb, more).enq = 0 /\ Put(r, trb, more).cycle = 1 - r.cycle
                   /\ Put(r, trb, more).trb = [[r.trb EXCEPT ![r.enq] = trb] EXCEPT ![Link].cyc = 1 - @]
              ELSE /\ Put(r, trb, more).enq = r.enq + 1 /\ Put(r, trb, more).cycle = r.cycle
                   /\ Put(r, trb, more).trb = [r.trb EXCEPT ![r.enq] = trb]
<1> DEFINE q == [r EXCEPT !.trb[r.enq] = trb]
           z == [q EXCEPT !.enq = Link]
           v == [q EXCEPT !.enq = @ + 1]
<1>1. r.enq \in 0 .. Link /\ r.enq + 1 \in 0 .. Link /\ r.trb \in [0 .. Link -> TrbType]
  BY Bounds, RingTypes
<1>2. q = [r EXCEPT !.trb = [r.trb EXCEPT ![r.enq] = trb]]
  OBVIOUS
<1>3. [r.trb EXCEPT ![r.enq] = trb] \in [0 .. Link -> TrbType]
  BY <1>1
<1>4. q \in RingType
  BY <1>2, <1>3, RingSet, RingTypes
<1>5. q.enq = r.enq /\ q.cycle = r.cycle /\ q.trb = [r.trb EXCEPT ![r.enq] = trb]
  BY <1>2 DEF RingType
<1>6. Link \in 0 .. Link
  BY Bounds
<1>7. CASE r.enq + 1 = Link /\ more
  <2>1. z \in RingType
    BY <1>4, <1>6, RingSet, RingTypes
  <2>2. z.enq = Link /\ z.cycle = q.cycle /\ z.trb = q.trb
    BY <1>4 DEF RingType
  <2>3. Put(r, trb, more) = Prepared(z)
    BY <1>5, <1>7, <2>2 DEF Put, Advanced, Prepared
  <2>4. Prepared(z).enq = 0 /\ Prepared(z).cycle = 1 - z.cycle
        /\ Prepared(z).trb = [z.trb EXCEPT ![Link].cyc = 1 - @] /\ Prepared(z) \in RingType
    BY <2>1, <2>2, PreparedFields
  <2> QED BY <1>5, <1>7, <2>2, <2>3, <2>4
<1>8. CASE ~(r.enq + 1 = Link /\ more)
  <2>1. v = [q EXCEPT !.enq = r.enq + 1]
    BY <1>5
  <2>2. v \in RingType
    BY <1>1, <1>4, <2>1, RingSet, RingTypes
  <2>3. v.enq = r.enq + 1 /\ v.cycle = q.cycle /\ v.trb = q.trb
    BY <1>4, <2>1 DEF RingType
  <2>4. Put(r, trb, more) = v
    BY <1>5, <1>8 DEF Put, Advanced
  <2> QED BY <1>5, <1>8, <2>2, <2>3, <2>4
<1> QED BY <1>7, <1>8

LEMMA QueuedIsPut ==
    ASSUME NEW r, NEW cyc, NEW more
    PROVE  Queued(r, cyc, more) = Put(r, [cyc |-> cyc, td |-> Td', k |-> k'], more)
BY DEF Queued, Put

-----------------------------------------------------------------------------
(* Types                                                                    *)

LEMMA Sizes ==
    ASSUME XhciAssumption, Roomy, NEW e \in Rings, NEW n \in Counts(e)
    PROVE  n \in 1 .. Link
BY Bounds DEF Counts

LEMMA Latest ==
    ASSUME TypeInv
    PROVE  /\ Td \in Nat
           /\ \A t \in 1 .. Td : tds[t] \in TdType /\ tds[t].ep \in Rings /\ tds[t].n \in 1 .. Link
           /\ Td > 0 => Ep \in Rings /\ tds[Td].n \in 1 .. Link
<1>1. tds \in Seq(TdType) /\ \A t \in 1 .. Len(tds) : tds[t].n \in 1 .. Link
  BY DEF TypeInv, Td
<1>2. Len(tds) \in Nat /\ \A t \in 1 .. Len(tds) : tds[t] \in TdType
  BY <1>1
<1>3. \A td \in TdType : td.ep \in Rings
  BY DEF TdType
<1> QED BY <1>1, <1>2, <1>3 DEF Td, Ep

LEMMA Begun ==
    ASSUME XhciAssumption, Roomy, TypeInv, NEW e \in Rings, NEW n \in Counts(e),
           tds' = Append(tds, [ep |-> e, n |-> n])
    PROVE  /\ Td' = Td + 1 /\ Ep' = e /\ tds'[Td'] = [ep |-> e, n |-> n]
           /\ tds' \in Seq(TdType) /\ \A t \in 1 .. Td' : tds'[t].n \in 1 .. Link
           /\ \A t \in 1 .. Td : tds'[t] = tds[t]
<1>1. n \in 1 .. Link /\ Link \in Nat
  BY Sizes, Bounds
<1>2. [ep |-> e, n |-> n] \in TdType
  BY <1>1 DEF TdType
<1>3. tds \in Seq(TdType) /\ \A t \in 1 .. Td : tds[t].n \in 1 .. Link
  BY DEF TypeInv
<1>5. Len(tds) \in Nat /\ Len(tds') = Len(tds) + 1 /\ tds' \in Seq(TdType)
      /\ tds'[Len(tds) + 1] = [ep |-> e, n |-> n] /\ \A t \in 1 .. Len(tds) : tds'[t] = tds[t]
  BY <1>2, <1>3
<1>6. \A t \in 1 .. Len(tds) + 1 : tds'[t].n \in 1 .. Link
  BY <1>1, <1>3, <1>5 DEF Td
<1> QED BY <1>5, <1>6 DEF Td, Ep

LEMMA InitInv ==
    ASSUME XhciAssumption, Roomy, Init
    PROVE  Inv
<1>1. /\ Link \in Nat /\ 3 <= Link /\ EventTrbs \in Nat /\ EventTrbs >= 3 /\ MaxSkips \in Nat \ {0}
  BY Bounds
<1>2. Td = 0
  BY DEF Init, Td
<1>3. TypeInv
  <2>1. \A e \in Rings : ring[e] \in RingType /\ hc[e] \in HcType
    BY <1>1 DEF Init, RingType, TrbType, HcType, Bit
  <2>2. ring \in [Rings -> RingType] /\ hc \in [Rings -> HcType]
    BY <2>1 DEF Init
  <2>3. event \in [0 .. EventTrbs - 1 -> EventType]
    BY <1>1 DEF Init, EventType, Bit
  <2>4. answer \in [td : Nat, code : CompletionCodes \cup {"none"}]
    BY DEF Init, NoAnswer
  <2>5. tds \in Seq(TdType)
    BY DEF Init
  <2>6. /\ evEnq \in 0 .. EventTrbs - 1 /\ evPcs \in Bit /\ evDeq \in 0 .. EventTrbs - 1 /\ evCycle \in Bit
        /\ start \in 0 .. Link /\ startCycle \in Bit /\ k \in Nat /\ skips \in 0 .. MaxSkips
    BY <1>1 DEF Init, Bit
  <2>8. clean \in BOOLEAN /\ lost \in BOOLEAN /\ pc = "idle" /\ answer = NoAnswer
    BY DEF Init
  <2>7. \A t \in 1 .. Td : tds[t].n \in 1 .. Link
    BY <1>2
  <2> QED BY <2>2, <2>3, <2>4, <2>5, <2>6, <2>7, <2>8 DEF TypeInv
<1>4. QueueInv /\ PlaceInv
  BY <1>2 DEF Init, QueueInv, PlaceInv
<1>5. CycleInv
  BY <1>1 DEF Init, CycleInv, Laps, CycleAt, Hidden, Places
<1>6. EventInv
  BY <1>1 DEF Init, EventInv
<1>7. HcInv
  BY <1>1, <1>2 DEF Init, HcInv, Left, Behind
<1>8. SaysInv
  BY <1>1 DEF Init, SaysInv, InFlight
<1>9. SettledInv /\ AnswerIsOwn
  BY <1>2 DEF Init, SettledInv, AnswerIsOwn
<1> QED BY <1>3, <1>4, <1>5, <1>6, <1>7, <1>8, <1>9 DEF Inv

LEMMA EventsPosted ==
    ASSUME XhciAssumption, TypeInv, NEW type \in EventTypes, NEW td \in Nat, NEW code \in CompletionCodes,
           Post(type, td, code)
    PROVE  /\ event' \in [0 .. EventTrbs - 1 -> EventType]
           /\ evEnq' \in 0 .. EventTrbs - 1 /\ evPcs' \in Bit
<1>1. [cyc |-> evPcs, type |-> type, td |-> td, code |-> code] \in EventType
  BY DEF TypeInv, EventType
<1>2. evEnq' \in 0 .. EventTrbs - 1
  BY Around DEF Post, TypeInv, XhciAssumption
<1> QED BY <1>1, <1>2 DEF Post, TypeInv, Bit

LEMMA EventsTaken ==
    ASSUME XhciAssumption, TypeInv, Acknowledge
    PROVE  evDeq' \in 0 .. EventTrbs - 1 /\ evCycle' \in Bit
BY Around DEF Acknowledge, TypeInv, XhciAssumption, Bit

LEMMA HcSet ==
    ASSUME NEW h \in HcType, NEW deq \in 0 .. Link, NEW cycle \in Bit, NEW td \in Nat, NEW j \in Nat
    PROVE  /\ [h EXCEPT !.deq = deq, !.td = td, !.k = j] \in HcType
           /\ [h EXCEPT !.deq = deq, !.cycle = cycle] \in HcType
           /\ \A b \in BOOLEAN : /\ [h EXCEPT !.short = b] \in HcType /\ [h EXCEPT !.bell = b] \in HcType
                                /\ [h EXCEPT !.halted = b] \in HcType
BY DEF HcType

LEMMA ControllerTypes ==
    ASSUME XhciAssumption, Roomy, TypeInv, NEW e \in Rings, Fetch(e) \/ GoIdle(e)
    PROVE  /\ hc' \in [Rings -> HcType] /\ event' \in [0 .. EventTrbs - 1 -> EventType]
           /\ evEnq' \in 0 .. EventTrbs - 1 /\ evPcs' \in Bit
<1>1. hc[e] \in HcType /\ ring[e] \in RingType
  BY DEF TypeInv
<1>2. hc[e].deq \in 0 .. Link /\ hc[e].cycle \in Bit /\ 1 - hc[e].cycle \in Bit
  BY <1>1 DEF HcType, Bit
<1>3. Trb(e) \in TrbType
  BY <1>1, <1>2, RingTypes DEF Trb
<1>4. Trb(e).td \in Nat /\ Trb(e).k \in Nat
  BY <1>3 DEF TrbType
<1>5. event \in [0 .. EventTrbs - 1 -> EventType] /\ evEnq \in 0 .. EventTrbs - 1 /\ evPcs \in Bit
  BY DEF TypeInv
<1>6. ASSUME hc[e].deq # Link
      PROVE  Passed(e) \in HcType /\ \A s \in BOOLEAN : [Passed(e) EXCEPT !.short = s] \in HcType
  <2>2. hc[e].deq + 1 \in 0 .. Link
    BY <1>2, <1>6, Bounds
  <2>3. Passed(e) = [hc[e] EXCEPT !.deq = hc[e].deq + 1, !.td = Trb(e).td, !.k = Trb(e).k]
    BY DEF Passed
  <2>4. [hc[e] EXCEPT !.deq = hc[e].deq + 1, !.td = Trb(e).td, !.k = Trb(e).k] \in HcType
    BY <1>1, <1>4, <2>2 DEF HcType
  <2>5. \A h \in HcType : \A s \in BOOLEAN : [h EXCEPT !.short = s] \in HcType
    BY DEF HcType
  <2> QED BY <2>3, <2>4, <2>5
<1>7. {"completion", "transfer", "port"} \subseteq EventTypes /\ {"success", "short", "stall"} \subseteq CompletionCodes
  BY DEF EventTypes, CompletionCodes
<1>8. CASE FollowLink(e)
  <2>1. hc' = [hc EXCEPT ![e] = [hc[e] EXCEPT !.deq = 0, !.cycle = 1 - hc[e].cycle]]
    BY <1>8 DEF FollowLink
  <2>2. [hc[e] EXCEPT !.deq = 0, !.cycle = 1 - hc[e].cycle] \in HcType
    <3>1. 0 \in 0 .. Link
      BY Bounds
    <3> QED BY <1>1, <1>2, <3>1 DEF HcType
  <2>3. hc \in [Rings -> HcType]
    BY DEF TypeInv
  <2>4. hc' \in [Rings -> HcType]
    BY <2>1, <2>2, <2>3
  <2>5. UNCHANGED <<event, evEnq, evPcs>>
    BY <1>8 DEF FollowLink, Silent
  <2> QED BY <1>5, <2>4, <2>5
<1>9. CASE Execute(e)
  BY <1>4, <1>5, <1>6, <1>7, <1>9, EventsPosted DEF Execute, Silent, TypeInv
<1>10. CASE ShortPacket(e)
  BY <1>4, <1>5, <1>6, <1>7, <1>10, EventsPosted DEF ShortPacket, TypeInv
<1>11. CASE PassOver(e)
  BY <1>4, <1>5, <1>6, <1>7, <1>11, EventsPosted DEF PassOver, Silent, TypeInv
<1>12. CASE Stall(e)
  <2>1. hc' \in [Rings -> HcType]
    BY <1>1, <1>12 DEF Stall, TypeInv, HcType
  <2> QED BY <1>4, <1>7, <1>12, <2>1, EventsPosted DEF Stall
<1>13. CASE GoIdle(e)
  <2>1. hc' \in [Rings -> HcType]
    BY <1>1, <1>13 DEF GoIdle, TypeInv, HcType
  <2> QED BY <1>5, <1>13, <2>1 DEF GoIdle
<1> QED BY <1>8, <1>9, <1>10, <1>11, <1>12, <1>13 DEF Fetch

LEMMA AnswerTyped ==
    ASSUME TypeInv
    PROVE  [td |-> Front.td, code |-> Front.code] \in [td : Nat, code : CompletionCodes \cup {"none"}]
<1>1. Front \in EventType
  BY DEF TypeInv, Front
<1>2. Front.td \in Nat /\ Front.code \in CompletionCodes \cup {"none"}
  BY <1>1 DEF EventType
<1> QED BY <1>2

LEMMA NoAnswerTyped == NoAnswer \in [td : Nat, code : CompletionCodes \cup {"none"}]
BY DEF NoAnswer

LEMMA TypesKept ==
    ASSUME XhciAssumption, Roomy, TypeInv, QueueInv, [Next]_vars
    PROVE  TypeInv'
<1> USE DEF Bit
<1>1. CASE StartTransfer
  <2>0. PICK e \in Rings \ {"cmd"} : \E n \in Counts(e) :
          /\ Begin(e, n) /\ ring' = [ring EXCEPT ![e] = Prepared(@)]
          /\ start' = ring'[e].enq /\ startCycle' = ring'[e].cycle
    BY <1>1 DEF StartTransfer
  <2>1. PICK n \in Counts(e) :
          /\ Begin(e, n) /\ ring' = [ring EXCEPT ![e] = Prepared(@)]
          /\ start' = ring'[e].enq /\ startCycle' = ring'[e].cycle
    BY <2>0
  <2>2. ring[e] \in RingType /\ Prepared(ring[e]) \in RingType
    BY PreparedFields DEF TypeInv
  <2>3. ring' \in [Rings -> RingType] /\ ring'[e] \in RingType
    BY <2>1, <2>2 DEF TypeInv
  <2>4. start' \in 0 .. Link /\ startCycle' \in Bit
    BY <2>1, <2>3 DEF RingType
  <2>5. /\ tds' \in Seq(TdType) /\ (\A t \in 1 .. Td' : tds'[t].n \in 1 .. Link) /\ Td' > 0
    <3>1. tds' = Append(tds, [ep |-> e, n |-> n]) /\ e \in Rings /\ n \in Counts(e)
      BY <2>1 DEF Begin
    <3>2. Td' = Td + 1 /\ tds' \in Seq(TdType) /\ (\A t \in 1 .. Td' : tds'[t].n \in 1 .. Link)
      BY <3>1, Begun
    <3> QED BY <3>2, Latest
  <2>6. clean' \in BOOLEAN /\ lost' \in BOOLEAN /\ skips' = 0 /\ answer' = NoAnswer
    BY <1>1, <2>1 DEF Begin, StartTransfer, TypeInv
  <2>7. k' = 0 /\ pc' = "queue"
    BY <1>1 DEF StartTransfer
  <2>8. skips' \in 0 .. MaxSkips /\ skips' < MaxSkips
    BY <2>6, Bounds
  <2>9. UNCHANGED <<hc, event, evEnq, evPcs, evDeq, evCycle>>
    BY <1>1 DEF StartTransfer
  <2> QED BY <2>3, <2>4, <2>5, <2>6, <2>7, <2>8, <2>9, NoAnswerTyped DEF TypeInv
<1>2. CASE QueueTrb
  <2>1. Td > 0 /\ Ep \in Rings /\ pc = "queue"
    BY <1>2, Latest DEF QueueTrb, TypeInv
  <2>2. ring[Ep] \in RingType /\ ring[Ep].enq # Link /\ startCycle \in Bit /\ Td' = Td /\ Td' \in Nat
    BY <1>2, <2>1, Latest DEF QueueTrb, QueueInv, TypeInv, Td
  <2>3. k' = k + 1 /\ k' \in Nat
    BY <1>2 DEF QueueTrb, TypeInv
  <2> DEFINE cyc == IF k = 0 THEN FirstCycle(ring[Ep]) ELSE ring[Ep].cycle
             more == k' < tds[Td].n
             trb == [cyc |-> cyc, td |-> Td', k |-> k']
  <2>4. cyc \in Bit
    BY <2>2 DEF FirstCycle, RingType
  <2>7. ring' = [ring EXCEPT ![Ep] = Put(ring[Ep], trb, more)]
    BY <1>2 DEF QueueTrb, Queued, Put
  <2>5. trb \in TrbType /\ more \in BOOLEAN
    <3> HIDE DEF cyc
    <3> QED BY <2>2, <2>3, <2>4 DEF TrbType
  <2>6. Put(ring[Ep], trb, more) \in RingType
    <3> HIDE DEF trb, more
    <3> QED BY <2>2, <2>5, PutFields
  <2>8. ring' \in [Rings -> RingType]
    BY <2>1, <2>6, <2>7 DEF TypeInv
  <2>9. pc' \in {"queue", "ring"}
    BY <1>2 DEF QueueTrb
  <2> QED BY <1>2, <2>1, <2>2, <2>3, <2>8, <2>9 DEF QueueTrb, TypeInv
<1>3. CASE GivebackFirstTrb
  <2>1. Td > 0 /\ Ep \in Rings /\ start \in 0 .. Link /\ startCycle \in Bit /\ Td' = Td
    BY <1>3, Latest DEF GivebackFirstTrb, TypeInv, Td
  <2>2. ring[Ep] \in RingType /\ hc[Ep] \in HcType
    BY <2>1 DEF TypeInv
  <2>3. [ring[Ep].trb EXCEPT ![start].cyc = startCycle] \in [0 .. Link -> TrbType]
    BY <2>1, <2>2, RingTypes, TrbsSet
  <2>4. [ring[Ep] EXCEPT !.trb = [ring[Ep].trb EXCEPT ![start].cyc = startCycle]] \in RingType
    BY <2>2, <2>3 DEF RingType
  <2>5. ring' = [ring EXCEPT ![Ep] = [ring[Ep] EXCEPT !.trb = [ring[Ep].trb EXCEPT ![start].cyc = startCycle]]]
    BY <1>3 DEF GivebackFirstTrb
  <2>6. ring' \in [Rings -> RingType]
    BY <2>4, <2>5 DEF TypeInv
  <2>7. [hc[Ep] EXCEPT !.bell = TRUE] \in HcType
    BY <2>2 DEF HcType
  <2>8. hc' \in [Rings -> HcType]
    BY <1>3, <2>7 DEF GivebackFirstTrb, TypeInv
  <2> QED BY <1>3, <2>1, <2>6, <2>8 DEF GivebackFirstTrb, TypeInv
<1>4. CASE QueueCommand
  <2> DEFINE r == Prepared(ring["cmd"])
  <2>1. "cmd" \in Rings /\ 1 \in Counts("cmd") /\ Begin("cmd", 1)
    BY <1>4 DEF QueueCommand, Rings, Counts
  <2>2. ring["cmd"] \in RingType /\ hc["cmd"] \in HcType
    BY <2>1 DEF TypeInv
  <2>3. r \in RingType /\ r.enq \in Places
    BY <2>2, PreparedFields
  <2>4. Td' = Td + 1 /\ Td' \in Nat /\ k' = 1 /\ Td' > 0
    <3>1. tds' = Append(tds, [ep |-> "cmd", n |-> 1])
      BY <2>1 DEF Begin
    <3>2. Td' = Td + 1
      BY <2>1, <3>1, Begun
    <3>3. Td \in Nat
      BY Latest
    <3>4. k' = 1
      BY <1>4 DEF QueueCommand
    <3> QED BY <3>2, <3>3, <3>4
  <2>5. [cyc |-> r.cycle, td |-> Td', k |-> k'] \in TrbType /\ r.enq # Link
    BY <2>3, <2>4, Bounds DEF TrbType, RingType, Places
  <2>6. Queued(r, r.cycle, FALSE) \in RingType
    BY <2>3, <2>5, PutFields, QueuedIsPut
  <2>7. ring' \in [Rings -> RingType]
    BY <1>4, <2>6 DEF QueueCommand, TypeInv
  <2>8. [hc["cmd"] EXCEPT !.bell = TRUE] \in HcType
    BY <2>2 DEF HcType
  <2>9. hc' \in [Rings -> HcType]
    BY <1>4, <2>8 DEF QueueCommand, TypeInv
  <2>10. /\ tds' \in Seq(TdType) /\ (\A t \in 1 .. Td' : tds'[t].n \in 1 .. Link)
    BY <2>1, Begun DEF Begin
  <2>11. clean' \in BOOLEAN /\ skips' = 0 /\ answer' = NoAnswer
    BY <1>4 DEF Begin, QueueCommand, TypeInv
  <2>12. skips' \in 0 .. MaxSkips /\ skips' < MaxSkips
    BY <2>11, Bounds
  <2>13. pc' = "wait" /\ UNCHANGED <<event, evEnq, evPcs, evDeq, evCycle, start, startCycle, lost>>
    BY <1>4 DEF QueueCommand
  <2> QED BY <2>4, <2>7, <2>9, <2>10, <2>11, <2>12, <2>13, NoAnswerTyped DEF TypeInv
<1>5. CASE SkipEvent
  <2>1. evDeq' \in 0 .. EventTrbs - 1 /\ evCycle' \in Bit
    BY <1>5, EventsTaken DEF SkipEvent
  <2>2. skips' \in 0 .. MaxSkips /\ (skips' < MaxSkips \/ skips' = MaxSkips) /\ Td > 0 /\ Td' = Td
    <3>1. skips' = skips + 1 /\ tds' = tds
      BY <1>5 DEF SkipEvent
    <3>2. skips \in 0 .. MaxSkips /\ skips < MaxSkips /\ MaxSkips \in Nat
      BY <1>5, Bounds DEF SkipEvent, TypeInv
    <3>3. Td > 0
      BY <1>5 DEF SkipEvent, TypeInv
    <3> QED BY <3>1, <3>2, <3>3 DEF Td
  <2>3. lost' \in BOOLEAN /\ (lost => lost') /\ (skips' = MaxSkips => lost')
    BY <1>5 DEF SkipEvent, TypeInv
  <2>4. /\ pc' \in {"idle", "queue", "ring", "wait", "null"} /\ pc' \notin {"queue", "ring"}
        /\ (pc' = "null" => lost') /\ (pc' = "wait" => skips' < MaxSkips)
    BY <1>5, <2>2, <2>3 DEF SkipEvent
  <2> QED BY <1>5, <2>1, <2>2, <2>3, <2>4 DEF SkipEvent, TypeInv
<1>6. CASE TakeEvent
  <2>1. evDeq' \in 0 .. EventTrbs - 1 /\ evCycle' \in Bit
    BY <1>6, EventsTaken DEF TakeEvent
  <2>2. /\ skips' \in 0 .. MaxSkips /\ skips' < MaxSkips /\ Td > 0 /\ Td' = Td
        /\ pc' \in {"idle", "wait"}
    BY <1>6, Bounds DEF TakeEvent, Return, TypeInv, Td
  <2>3. answer' \in [td : Nat, code : CompletionCodes \cup {"none"}]
    BY <1>6, AnswerTyped DEF TakeEvent
  <2> QED BY <1>6, <2>1, <2>2, <2>3 DEF TakeEvent, TypeInv
<1>7. CASE UseNull
  <2>1. evDeq' \in 0 .. EventTrbs - 1 /\ evCycle' \in Bit
    BY <1>7, EventsTaken DEF UseNull
  <2>2. /\ skips' \in 0 .. MaxSkips /\ skips' < MaxSkips /\ Td > 0 /\ Td' = Td
        /\ pc' \in {"idle", "wait"}
    BY <1>7, Bounds DEF UseNull, Return, TypeInv, Td
  <2> QED BY <1>7, <2>1, <2>2 DEF UseNull, TypeInv
<1>8. CASE Controller
  <2>1. PICK e \in Rings : Fetch(e) \/ GoIdle(e)
    BY <1>8 DEF Controller
  <2>2. UNCHANGED driver
    BY <2>1 DEF Fetch, GoIdle
  <2> QED BY <2>1, <2>2, ControllerTypes DEF driver, TypeInv, Td
<1>9. CASE PortEvent
  <2>1. /\ event' \in [0 .. EventTrbs - 1 -> EventType]
        /\ evEnq' \in 0 .. EventTrbs - 1 /\ evPcs' \in Bit
    BY <1>9, EventsPosted DEF PortEvent, EventTypes, CompletionCodes
  <2> QED BY <1>9, <2>1 DEF PortEvent, driver, TypeInv, Td
<1>10. CASE UNCHANGED vars
  BY <1>10 DEF vars, driver, TypeInv, Td
<1> QED BY <1>1, <1>2, <1>3, <1>4, <1>5, <1>6, <1>7, <1>8, <1>9, <1>10 DEF Next, Driver, Poll, Finish

-----------------------------------------------------------------------------
(* The producer, ring by ring                                               *)

LEMMA Cycles ==
    ASSUME NEW r \in RingType, NEW p \in Int
    PROVE  CycleAt(r, p) \in Bit /\ r.cycle \in Bit
BY DEF CycleAt, RingType, Bit

LEMMA PreparedLaps ==
    ASSUME XhciAssumption, Roomy, NEW r \in RingType, Laps(r, {})
    PROVE  Laps(Prepared(r), {})
<1>1. CASE r.enq # Link
  BY <1>1, PreparedFields
<1>2. CASE r.enq = Link
  <2> DEFINE w == Prepared(r)
  <2>1. w.enq = 0 /\ w.cycle = 1 - r.cycle /\ w.trb = [r.trb EXCEPT ![Link].cyc = 1 - @]
    BY <1>2, PreparedFields
  <2>2. r.trb \in [0 .. Link -> TrbType] /\ Link \in Nat /\ r.cycle \in Bit
    BY RingTypes, Bounds
  <2>3. w.trb[Link].cyc = 1 - r.trb[Link].cyc /\ \A p \in Places : w.trb[p] = r.trb[p]
    BY <2>1, <2>2 DEF TrbType, Places
  <2>4. w.trb[Link].cyc = 1 - w.cycle
    BY <2>1, <2>3 DEF Laps
  <2>5. ASSUME NEW p \in Places
        PROVE  w.trb[p].cyc = CycleAt(w, p)
    <3>1. p \in Nat /\ p < Link /\ ~(p < 0)
      BY <2>2, <2>5 DEF Places
    <3>2. w.trb[p].cyc = r.cycle
      BY <1>2, <2>3, <2>5, <3>1 DEF Laps, CycleAt
    <3>3. CycleAt(w, p) = 1 - (1 - r.cycle)
      BY <2>1, <3>1 DEF CycleAt
    <3> QED BY <2>2, <3>2, <3>3 DEF Bit
  <2> QED BY <2>4, <2>5 DEF Laps
<1> QED BY <1>1, <1>2

LEMMA PutPlaces ==
    ASSUME XhciAssumption, Roomy, NEW r \in RingType, r.enq # Link,
           NEW trb \in TrbType, NEW more \in BOOLEAN
    PROVE  LET w == Put(r, trb, more) IN
           /\ w.trb[r.enq] = trb /\ \A p \in Places \ {r.enq} : w.trb[p] = r.trb[p]
           /\ IF r.enq + 1 = Link /\ more
              THEN w.enq = 0 /\ w.cycle = 1 - r.cycle /\ w.trb[Link].cyc = 1 - r.trb[Link].cyc
              ELSE w.enq = r.enq + 1 /\ w.cycle = r.cycle /\ w.trb[Link].cyc = r.trb[Link].cyc
<1> DEFINE w == Put(r, trb, more)
           f == [r.trb EXCEPT ![r.enq] = trb]
           g == [f EXCEPT ![Link].cyc = 1 - @]
<1>1. r.trb \in [0 .. Link -> TrbType] /\ Link \in Nat /\ r.enq \in Places
  BY RingTypes, Bounds DEF Places
<1>2. /\ f \in [0 .. Link -> TrbType] /\ f[r.enq] = trb /\ f[Link] = r.trb[Link]
      /\ \A p \in Places \ {r.enq} : f[p] = r.trb[p]
  BY <1>1 DEF Places
<1>3. IF r.enq + 1 = Link /\ more
      THEN w.enq = 0 /\ w.cycle = 1 - r.cycle /\ w.trb = g
      ELSE w.enq = r.enq + 1 /\ w.cycle = r.cycle /\ w.trb = f
  BY PutFields
<1> HIDE DEF w, f
<1>4. g[Link].cyc = 1 - f[Link].cyc /\ \A p \in Places : g[p] = f[p]
  <2>1. f[Link] \in TrbType /\ Link \in 0 .. Link
    BY <1>1, <1>2
  <2>2. 1 - f[Link].cyc \in Bit
    BY <2>1 DEF TrbType, Bit
  <2>3. /\ g[Link].cyc = 1 - f[Link].cyc
        /\ \A q \in 0 .. Link : q # Link => g[q] = f[q]
    BY <1>2, <2>1, <2>2, TrbsSet
  <2> QED BY <1>1, <2>3 DEF Places
<1> HIDE DEF g
<1>5. Link \notin Places
  BY <1>1 DEF Places
<1>6. w.trb[r.enq] = trb /\ \A p \in Places \ {r.enq} : w.trb[p] = r.trb[p]
  <2>1. r.enq \in Places /\ \A p \in Places : g[p] = f[p]
    BY <1>1, <1>4
  <2>2. w.trb = g \/ w.trb = f
    BY <1>3
  <2>3. \A p \in Places : w.trb[p] = f[p]
    BY <2>1, <2>2
  <2> QED BY <1>2, <2>1, <2>3
<1>7. IF r.enq + 1 = Link /\ more
      THEN w.enq = 0 /\ w.cycle = 1 - r.cycle /\ w.trb[Link].cyc = 1 - r.trb[Link].cyc
      ELSE w.enq = r.enq + 1 /\ w.cycle = r.cycle /\ w.trb[Link].cyc = r.trb[Link].cyc
  BY <1>2, <1>3, <1>4
<1> QED BY <1>6, <1>7 DEF w

LEMMA PutLaps ==
    ASSUME XhciAssumption, Roomy, NEW r \in RingType, r.enq # Link,
           NEW trb \in TrbType, NEW more \in BOOLEAN, NEW hidden \in SUBSET Places,
           r.enq \notin hidden, Laps(r, hidden)
    PROVE  /\ trb.cyc = r.cycle => Laps(Put(r, trb, more), hidden)
           /\ trb.cyc = 1 - r.cycle => Laps(Put(r, trb, more), hidden \cup {r.enq})
<1> DEFINE w == Put(r, trb, more)
<1>1. r.trb \in [0 .. Link -> TrbType] /\ Link \in Nat /\ r.cycle \in Bit /\ r.enq \in Places
  BY RingTypes, Bounds DEF Places
<1>2. /\ w.trb[r.enq] = trb /\ \A p \in Places \ {r.enq} : w.trb[p] = r.trb[p]
      /\ IF r.enq + 1 = Link /\ more
         THEN w.enq = 0 /\ w.cycle = 1 - r.cycle /\ w.trb[Link].cyc = 1 - r.trb[Link].cyc
         ELSE w.enq = r.enq + 1 /\ w.cycle = r.cycle /\ w.trb[Link].cyc = r.trb[Link].cyc
  BY PutPlaces
<1> HIDE DEF w
<1>3. w.trb[Link].cyc = 1 - w.cycle
  BY <1>1, <1>2 DEF Laps, Bit
<1>4. \A p \in Places : CycleAt(w, p) = IF p = r.enq THEN r.cycle ELSE CycleAt(r, p)
  BY <1>1, <1>2 DEF CycleAt, Places, Bit
<1>5. \A p \in Places : w.trb[p].cyc = IF p = r.enq THEN trb.cyc
                                       ELSE IF p \in hidden THEN 1 - CycleAt(r, p) ELSE CycleAt(r, p)
  BY <1>2 DEF Laps
<1> QED BY <1>3, <1>4, <1>5 DEF Laps, w

LEMMA ShownLaps ==
    ASSUME XhciAssumption, Roomy, NEW r \in RingType, NEW s \in Places, Laps(r, {s})
    PROVE  LET w == [r EXCEPT !.trb[s].cyc = CycleAt(r, s)]
           IN  Laps(w, {}) /\ w.enq = r.enq /\ w.cycle = r.cycle
               /\ \A p \in 0 .. Link : w.trb[p].td = r.trb[p].td /\ w.trb[p].k = r.trb[p].k
<1> DEFINE c == CycleAt(r, s)
           w == [r EXCEPT !.trb[s].cyc = c]
<1>1. r.trb \in [0 .. Link -> TrbType] /\ Link \in Nat /\ r.cycle \in Bit /\ c \in Bit
  BY RingTypes, Bounds, Cycles DEF Places
<1> HIDE DEF c
<1>2. w = [r EXCEPT !.trb = [r.trb EXCEPT ![s].cyc = c]]
  OBVIOUS
<1>3. w.enq = r.enq /\ w.cycle = r.cycle /\ w.trb = [r.trb EXCEPT ![s].cyc = c]
  BY <1>2 DEF RingType
<1>4. /\ w.trb[s].cyc = c /\ \A p \in 0 .. Link : p # s => w.trb[p] = r.trb[p]
      /\ w.trb[s].td = r.trb[s].td /\ w.trb[s].k = r.trb[s].k
  BY <1>1, <1>3 DEF TrbType, Places
<1>5. \A p \in Places : CycleAt(w, p) = CycleAt(r, p)
  BY <1>3 DEF CycleAt
<1>7. c = CycleAt(r, s) /\ \A p \in Places : p # s => r.trb[p].cyc = CycleAt(r, p)
  BY DEF Laps, c
<1>8. Link \in 0 .. Link /\ Link # s /\ Places \subseteq 0 .. Link
  BY <1>1 DEF Places
<1> HIDE DEF w
<1>6. Laps(w, {})
  BY <1>3, <1>4, <1>5, <1>7, <1>8 DEF Laps
<1> QED BY <1>3, <1>4, <1>6 DEF c, w

LEMMA PutHolds ==
    ASSUME XhciAssumption, Roomy, NEW r \in RingType, r.enq # Link,
           NEW trb \in TrbType, NEW more \in BOOLEAN, NEW t \in Nat, NEW m \in 0 .. Link - 1,
           more => m + 1 < Link, trb.td = t, trb.k = m + 1, Holds(r, t, m)
    PROVE  Holds(Put(r, trb, more), t, m + 1)
<1> DEFINE w == Put(r, trb, more)
<1>1. Link \in Nat /\ r.enq \in Places
  BY RingTypes, Bounds DEF Places
<1>2. /\ w.trb[r.enq] = trb /\ \A p \in Places \ {r.enq} : w.trb[p] = r.trb[p]
      /\ w.enq = IF r.enq + 1 = Link /\ more THEN 0 ELSE r.enq + 1
  BY PutPlaces
<1> HIDE DEF w
<1>3. ASSUME NEW j \in 1 .. m + 1
      PROVE  w.trb[Before(w, m + 1 + 1 - j)].td = t /\ w.trb[Before(w, m + 1 + 1 - j)].k = j
  <2>1. CASE j = m + 1
    <3>1. Before(w, m + 1 + 1 - j) = r.enq
      BY <1>1, <1>2, <2>1 DEF Before, Places
    <3> QED BY <1>2, <2>1, <3>1
  <2>2. CASE j \in 1 .. m
    <3>1. Before(w, m + 1 + 1 - j) = Before(r, m + 1 - j)
      BY <1>1, <1>2, <2>2 DEF Before, Places
    <3>2. Before(r, m + 1 - j) \in Places \ {r.enq}
      BY <1>1, <2>2 DEF Before, Places
    <3> QED BY <1>2, <2>2, <3>1, <3>2 DEF Holds
  <2> QED BY <2>1, <2>2
<1> QED BY <1>3 DEF Holds, w

LEMMA PreparedBehind ==
    ASSUME XhciAssumption, Roomy, NEW r \in RingType, NEW h \in HcType, Behind(h, r, 0)
    PROVE  Behind(h, Prepared(r), 0)
<1>1. h.deq \in 0 .. Link /\ h.cycle \in Bit /\ r.cycle \in Bit /\ r.enq \in 0 .. Link /\ Link \in Nat /\ Link > 0
  BY Bounds DEF HcType, RingType
<1>2. CASE r.enq # Link
  BY <1>2, PreparedFields
<1>3. CASE r.enq = Link
  <2>1. Prepared(r).enq = 0 /\ Prepared(r).cycle = 1 - r.cycle
    BY <1>3, PreparedFields
  <2> QED BY <1>1, <1>3, <2>1 DEF Behind, Bit
<1> QED BY <1>2, <1>3

LEMMA PutBehind ==
    ASSUME XhciAssumption, Roomy, NEW r \in RingType, r.enq # Link,
           NEW trb \in TrbType, NEW more \in BOOLEAN, NEW m \in 0 .. Link - 1,
           more => m + 1 < Link, NEW h \in HcType, Behind(h, r, m)
    PROVE  Behind(h, Put(r, trb, more), m + 1)
<1> DEFINE w == Put(r, trb, more)
<1>1. h.deq \in 0 .. Link /\ h.cycle \in Bit /\ r.cycle \in Bit /\ r.enq \in 0 .. Link /\ Link \in Nat /\ Link > 0
  BY Bounds DEF HcType, RingType
<1>2. IF r.enq + 1 = Link /\ more THEN w.enq = 0 /\ w.cycle = 1 - r.cycle
                                  ELSE w.enq = r.enq + 1 /\ w.cycle = r.cycle
  BY PutPlaces
<1> HIDE DEF w
<1>3. Behind(h, w, m + 1)
  BY <1>1, <1>2 DEF Behind, Bit
<1> QED BY <1>3 DEF w

-----------------------------------------------------------------------------
(* The producer, step by step                                               *)

LEMMA Started ==
    ASSUME XhciAssumption, Roomy, TypeInv, StartTransfer
    PROVE  \E e \in Rings : \E n \in 1 .. Link :
             /\ pc = "idle" /\ pc' = "queue" /\ k' = 0
             /\ Td' = Td + 1 /\ Ep' = e /\ tds'[Td'].n = n /\ \A t \in 1 .. Td : tds'[t] = tds[t]
             /\ ring'[e] = Prepared(ring[e]) /\ \A f \in Rings \ {e} : ring'[f] = ring[f]
             /\ start' = ring'[e].enq /\ startCycle' = ring'[e].cycle
<1>1. PICK e \in Rings \ {"cmd"} : \E n \in Counts(e) :
        /\ Begin(e, n) /\ ring' = [ring EXCEPT ![e] = Prepared(@)]
        /\ start' = ring'[e].enq /\ startCycle' = ring'[e].cycle
  BY DEF StartTransfer
<1>2. PICK n \in Counts(e) :
        /\ Begin(e, n) /\ ring' = [ring EXCEPT ![e] = Prepared(@)]
        /\ start' = ring'[e].enq /\ startCycle' = ring'[e].cycle
  BY <1>1
<1>3. tds' = Append(tds, [ep |-> e, n |-> n]) /\ e \in Rings /\ n \in Counts(e) /\ pc = "idle"
  BY <1>2 DEF Begin
<1>4. /\ Td' = Td + 1 /\ Ep' = e /\ tds'[Td'] = [ep |-> e, n |-> n]
      /\ \A t \in 1 .. Td : tds'[t] = tds[t]
  BY <1>3, Begun
<1>5. n \in 1 .. Link
  BY <1>3, Sizes
<1>6. ring'[e] = Prepared(ring[e]) /\ \A f \in Rings \ {e} : ring'[f] = ring[f]
  BY <1>2, <1>3 DEF TypeInv
<1>7. k' = 0 /\ pc' = "queue"
  BY DEF StartTransfer
<1>8. tds'[Td'].n = n
  BY <1>4
<1>9. e \in Rings
  OBVIOUS
<1> QED
  <2> WITNESS e \in Rings
  <2> WITNESS n \in 1 .. Link
  <2> QED BY <1>2, <1>3, <1>4, <1>6, <1>7, <1>8

LEMMA Commanded ==
    ASSUME XhciAssumption, Roomy, TypeInv, QueueCommand
    PROVE  LET r == Prepared(ring["cmd"])
               trb == [cyc |-> r.cycle, td |-> Td + 1, k |-> 1]
           IN  /\ pc = "idle" /\ pc' = "wait"
               /\ Td' = Td + 1 /\ Ep' = "cmd" /\ tds'[Td'].n = 1 /\ \A t \in 1 .. Td : tds'[t] = tds[t]
               /\ ring'["cmd"] = Put(r, trb, FALSE) /\ trb \in TrbType /\ r \in RingType /\ r.enq # Link
               /\ \A f \in Rings \ {"cmd"} : ring'[f] = ring[f]
<1> DEFINE r == Prepared(ring["cmd"])
           trb == [cyc |-> r.cycle, td |-> Td + 1, k |-> 1]
<1>1. tds' = Append(tds, [ep |-> "cmd", n |-> 1]) /\ "cmd" \in Rings /\ 1 \in Counts("cmd") /\ pc = "idle"
  BY DEF QueueCommand, Begin, Rings, Counts
<1>2. /\ Td' = Td + 1 /\ Ep' = "cmd" /\ tds'[Td'] = [ep |-> "cmd", n |-> 1]
      /\ \A t \in 1 .. Td : tds'[t] = tds[t]
  BY <1>1, Begun
<1>3. r \in RingType /\ r.enq \in Places
  BY <1>1, PreparedFields DEF TypeInv
<1>4. r.enq # Link /\ r.cycle \in Bit /\ Td + 1 \in Nat
  BY <1>3, Latest, Bounds, RingTypes DEF Places
<1>5. trb \in TrbType
  BY <1>4 DEF TrbType
<1>6. ring' = [ring EXCEPT !["cmd"] = Put(r, trb, FALSE)]
  BY <1>2 DEF QueueCommand, Queued, Put
<1>7. ring'["cmd"] = Put(r, trb, FALSE) /\ \A f \in Rings \ {"cmd"} : ring'[f] = ring[f]
  BY <1>1, <1>6 DEF TypeInv
<1>8. pc' = "wait" /\ tds'[Td'].n = 1
  BY <1>2 DEF QueueCommand
<1> QED BY <1>1, <1>2, <1>3, <1>4, <1>5, <1>7, <1>8

LEMMA TrbQueued ==
    ASSUME XhciAssumption, Roomy, TypeInv, QueueInv, QueueTrb
    PROVE  LET r == ring[Ep]
               trb == [cyc |-> IF k = 0 THEN 1 - startCycle ELSE r.cycle, td |-> Td, k |-> k + 1]
               more == k + 1 < tds[Td].n
           IN  /\ Td > 0 /\ Td' = Td /\ tds' = tds /\ Ep' = Ep /\ Ep \in Rings
               /\ pc = "queue" /\ pc' = IF more THEN "queue" ELSE "ring"
               /\ k < tds[Td].n /\ k' = k + 1 /\ k \in 0 .. Link - 1 /\ tds[Td].n \in 1 .. Link
               /\ start' = start /\ startCycle' = startCycle
               /\ ring'[Ep] = Put(r, trb, more) /\ trb \in TrbType /\ r \in RingType /\ r.enq # Link
               /\ \A f \in Rings \ {Ep} : ring'[f] = ring[f]
<1> DEFINE r == ring[Ep]
           cyc == IF k = 0 THEN 1 - startCycle ELSE r.cycle
           trb == [cyc |-> cyc, td |-> Td, k |-> k + 1]
           more == k + 1 < tds[Td].n
<1>1. /\ Td > 0 /\ Td' = Td /\ tds' = tds /\ Ep' = Ep /\ Ep \in Rings /\ tds[Td].n \in 1 .. Link
      /\ pc = "queue" /\ k' = k + 1 /\ start' = start /\ startCycle' = startCycle
  BY Latest DEF QueueTrb, TypeInv, Td, Ep
<1>2. /\ r \in RingType /\ r.enq # Link /\ k < tds[Td].n /\ k \in Nat /\ Td \in Nat
      /\ 1 - startCycle \in Bit /\ r.cycle \in Bit /\ k \in 0 .. Link - 1
  <2>1. r \in RingType /\ k \in Nat /\ Td \in Nat /\ startCycle \in Bit /\ Link \in Nat
    BY <1>1, Latest, Bounds DEF TypeInv
  <2>2. r.enq # Link /\ k < tds[Td].n
    BY <1>1 DEF QueueInv
  <2>3. r.cycle \in Bit
    BY <2>1, RingTypes
  <2> QED BY <1>1, <2>1, <2>2, <2>3 DEF Bit
<1>3. ring' = [ring EXCEPT ![Ep] = Put(r, trb, more)]
  BY <1>1 DEF QueueTrb, Queued, Put, FirstCycle
<1>4. cyc \in Bit
  BY <1>2
<1>5. trb \in TrbType
  <2> HIDE DEF cyc
  <2> QED BY <1>2, <1>4 DEF TrbType
<1>6. pc' = IF more THEN "queue" ELSE "ring"
  BY <1>1 DEF QueueTrb
<1>7. ring'[Ep] = Put(r, trb, more) /\ \A f \in Rings \ {Ep} : ring'[f] = ring[f]
  BY <1>1, <1>3 DEF TypeInv
<1> QED BY <1>1, <1>2, <1>5, <1>6, <1>7

LEMMA Given ==
    ASSUME XhciAssumption, Roomy, TypeInv, QueueInv, GivebackFirstTrb
    PROVE  /\ Td > 0 /\ Td' = Td /\ tds' = tds /\ Ep' = Ep /\ Ep \in Rings
           /\ pc = "ring" /\ pc' = "wait" /\ start \in Places /\ k = tds[Td].n /\ k' = k /\ k \in 1 .. Link
           /\ startCycle = CycleAt(ring[Ep], start)
           /\ ring'[Ep] = [ring[Ep] EXCEPT !.trb[start].cyc = startCycle] /\ ring[Ep] \in RingType
           /\ \A f \in Rings \ {Ep} : ring'[f] = ring[f]
<1>1. /\ Td > 0 /\ Td' = Td /\ tds' = tds /\ Ep' = Ep /\ Ep \in Rings
      /\ pc = "ring" /\ pc' = "wait" /\ k' = k
  BY Latest DEF GivebackFirstTrb, TypeInv, Td, Ep
<1>2. start \in Places /\ k = tds[Td].n /\ k \in 1 .. Link
  BY <1>1, Latest DEF QueueInv
<1>3. ring[Ep] \in RingType /\ startCycle \in Bit
  BY <1>1 DEF TypeInv
<1>4. ring[Ep].enq \in 0 .. Link /\ ring[Ep].cycle \in Bit
  BY <1>3, RingTypes
<1>5. startCycle = CycleAt(ring[Ep], start)
  <2>1. Link \in Nat /\ start \in 0 .. Link - 1
    BY <1>2, Bounds DEF Places
  <2>2. \/ ring[Ep].cycle = startCycle /\ ring[Ep].enq = start + k
        \/ ring[Ep].cycle # startCycle /\ ring[Ep].enq = start + k - Link
    BY <1>1 DEF QueueInv
  <2> QED BY <1>2, <1>3, <1>4, <2>1, <2>2 DEF CycleAt, Bit
<1>6. ring'[Ep] = [ring[Ep] EXCEPT !.trb[start].cyc = startCycle]
      /\ \A f \in Rings \ {Ep} : ring'[f] = ring[f]
  BY <1>1 DEF GivebackFirstTrb, TypeInv
<1> QED BY <1>1, <1>2, <1>3, <1>5, <1>6

Producer == QueueInv /\ CycleInv /\ PlaceInv

LEMMA StartKept ==
    ASSUME XhciAssumption, Roomy, TypeInv, Producer, StartTransfer
    PROVE  Producer'
<1>1. PICK e \in Rings, n \in 1 .. Link :
        /\ pc = "idle" /\ pc' = "queue" /\ k' = 0
        /\ Td' = Td + 1 /\ Ep' = e /\ tds'[Td'].n = n
        /\ ring'[e] = Prepared(ring[e]) /\ \A f \in Rings \ {e} : ring'[f] = ring[f]
        /\ start' = ring'[e].enq /\ startCycle' = ring'[e].cycle
  BY Started
<1>2. \A f \in Rings : ring[f] \in RingType /\ Laps(ring[f], {})
  BY <1>1 DEF Producer, CycleInv, Hidden, TypeInv
<1>3. ring'[e].enq \in Places /\ \A f \in Rings : Laps(ring'[f], {})
  BY <1>1, <1>2, PreparedFields, PreparedLaps
<1>4. QueueInv'
  BY <1>1, <1>3, Bounds DEF QueueInv, Places
<1>5. \A f \in Rings : Hidden(f)' = {}
  BY <1>1 DEF Hidden
<1>6. CycleInv'
  BY <1>3, <1>5 DEF CycleInv
<1>7. PlaceInv'
  BY <1>1 DEF PlaceInv, Holds, QueuedNow
<1> QED BY <1>4, <1>6, <1>7 DEF Producer

LEMMA CommandKept ==
    ASSUME XhciAssumption, Roomy, TypeInv, Producer, QueueCommand
    PROVE  Producer'
<1> DEFINE r == Prepared(ring["cmd"])
           trb == [cyc |-> r.cycle, td |-> Td + 1, k |-> 1]
<1>1. /\ pc = "idle" /\ pc' = "wait" /\ Td' = Td + 1 /\ Ep' = "cmd" /\ tds'[Td'].n = 1
      /\ ring'["cmd"] = Put(r, trb, FALSE) /\ trb \in TrbType /\ r \in RingType /\ r.enq # Link
      /\ \A f \in Rings \ {"cmd"} : ring'[f] = ring[f]
  BY Commanded
<1>2. "cmd" \in Rings /\ \A f \in Rings : ring[f] \in RingType /\ Laps(ring[f], {})
  BY <1>1 DEF Producer, CycleInv, Hidden, TypeInv, Rings
<1>3. Laps(r, {})
  BY <1>2, PreparedLaps
<1>4. trb.cyc = r.cycle /\ trb.td = Td + 1 /\ trb.k = 1 /\ Td + 1 \in Nat /\ Link \in Nat /\ Link >= 3
  BY Latest, Bounds
<1> HIDE DEF r, trb
<1>5. Laps(Put(r, trb, FALSE), {})
  BY <1>1, <1>3, <1>4, PutLaps
<1>6. Holds(r, Td + 1, 0)
  BY DEF Holds
<1>7. Holds(Put(r, trb, FALSE), Td + 1, 1)
  <2>1. 0 \in 0 .. Link - 1 /\ 0 + 1 = 1
    BY <1>4
  <2> QED BY <1>1, <1>4, <1>6, <2>1, PutHolds
<1>8. QueueInv' /\ PlaceInv'
  BY <1>1, <1>7 DEF QueueInv, PlaceInv, QueuedNow
<1>9. \A f \in Rings : Hidden(f)' = {}
  BY <1>1 DEF Hidden
<1>10. CycleInv'
  BY <1>1, <1>2, <1>5, <1>9 DEF CycleInv
<1> QED BY <1>8, <1>10 DEF Producer

LEMMA QueueKept ==
    ASSUME XhciAssumption, Roomy, TypeInv, Producer, QueueTrb
    PROVE  Producer'
<1> DEFINE r == ring[Ep]
           trb == [cyc |-> IF k = 0 THEN 1 - startCycle ELSE r.cycle, td |-> Td, k |-> k + 1]
           more == k + 1 < tds[Td].n
           w == Put(r, trb, more)
<1>1. QueueInv
  BY DEF Producer
<1>2. /\ Td > 0 /\ Td' = Td /\ tds' = tds /\ Ep' = Ep /\ Ep \in Rings
      /\ pc = "queue" /\ pc' = IF more THEN "queue" ELSE "ring"
      /\ k < tds[Td].n /\ k' = k + 1 /\ k \in 0 .. Link - 1 /\ tds[Td].n \in 1 .. Link
      /\ start' = start /\ startCycle' = startCycle
      /\ ring'[Ep] = w /\ trb \in TrbType /\ r \in RingType /\ r.enq # Link
      /\ \A f \in Rings \ {Ep} : ring'[f] = ring[f]
  BY <1>1, TrbQueued
<1>3. trb.cyc = (IF k = 0 THEN 1 - startCycle ELSE r.cycle) /\ trb.td = Td /\ trb.k = k + 1
  OBVIOUS
<1>4. more \in BOOLEAN /\ (more => k + 1 < Link) /\ (more <=> k + 1 < tds[Td].n) /\ Td \in Nat
  BY <1>2, Latest, Bounds
<1> HIDE DEF r, trb, more
<1>5. start \in Places /\ startCycle \in Bit /\ r.cycle \in Bit /\ r.enq \in Places /\ Link \in Nat /\ Link >= 3
  <2>1. start \in Places /\ startCycle \in Bit
    BY <1>1, <1>2 DEF QueueInv, TypeInv
  <2>2. r.cycle \in Bit /\ r.enq \in 0 .. Link
    BY <1>2, RingTypes
  <2>3. Link \in Nat /\ Link >= 3
    BY Bounds
  <2>4. r.enq \in Places
    BY <1>2, <2>2, <2>3 DEF Places
  <2> QED BY <2>1, <2>2, <2>3, <2>4
<1>6. \/ r.cycle = startCycle /\ r.enq = start + k
      \/ r.cycle # startCycle /\ r.enq = start + k - Link
  BY <1>1, <1>2 DEF QueueInv, r
<1>7. IF r.enq + 1 = Link /\ more THEN w.enq = 0 /\ w.cycle = 1 - r.cycle
                                  ELSE w.enq = r.enq + 1 /\ w.cycle = r.cycle
  BY <1>2, <1>4, PutPlaces
<1>8. Laps(r, IF k > 0 THEN {start} ELSE {})
  BY <1>2 DEF Producer, CycleInv, Hidden, r
<1>9. Holds(r, Td, k)
  BY <1>2 DEF Producer, PlaceInv, QueuedNow, r
<1>10. Holds(w, Td, k + 1)
  BY <1>2, <1>3, <1>4, <1>9, PutHolds
<1>11. Laps(w, {start})
  <2>1. CASE k = 0
    <3>1. r.enq = start /\ r.cycle = startCycle /\ trb.cyc = 1 - r.cycle /\ Laps(r, {})
      BY <1>3, <1>5, <1>6, <1>8, <2>1 DEF Places
    <3>2. Laps(w, {} \cup {r.enq})
      BY <1>2, <1>4, <3>1, PutLaps
    <3> QED BY <3>1, <3>2
  <2>2. CASE k > 0
    <3>1. r.enq # start /\ trb.cyc = r.cycle /\ Laps(r, {start})
      BY <1>2, <1>3, <1>5, <1>6, <1>8, <2>2 DEF Places
    <3> QED BY <1>2, <1>4, <1>5, <3>1, PutLaps
  <2> QED BY <1>2, <2>1, <2>2
<1> HIDE DEF w
<1>12. QueueInv'
  <2>1. \/ w.cycle = startCycle /\ w.enq = start + (k + 1)
        \/ w.cycle # startCycle /\ w.enq = start + (k + 1) - Link
    BY <1>2, <1>4, <1>5, <1>6, <1>7 DEF Bit, Places
  <2>2. more => w.enq # Link
    BY <1>5, <1>7 DEF Places
  <2> QED BY <1>2, <1>4, <1>5, <2>1, <2>2 DEF QueueInv
<1>13. CycleInv'
  <2>1. \A f \in Rings : Hidden(f)' = IF f = Ep THEN {start} ELSE {}
    BY <1>2 DEF Hidden
  <2>2. \A f \in Rings \ {Ep} : Laps(ring[f], {})
    BY DEF Producer, CycleInv, Hidden
  <2> QED BY <1>2, <1>11, <2>1, <2>2 DEF CycleInv
<1>14. PlaceInv'
  BY <1>2, <1>4, <1>10 DEF PlaceInv, QueuedNow
<1> QED BY <1>12, <1>13, <1>14 DEF Producer

LEMMA GivebackKept ==
    ASSUME XhciAssumption, Roomy, TypeInv, Producer, GivebackFirstTrb
    PROVE  Producer'
<1> DEFINE r == ring[Ep]
           w == [r EXCEPT !.trb[start].cyc = startCycle]
<1>1. /\ Td > 0 /\ Td' = Td /\ tds' = tds /\ Ep' = Ep /\ Ep \in Rings
      /\ pc = "ring" /\ pc' = "wait" /\ start \in Places /\ k = tds[Td].n /\ k' = k /\ k \in 1 .. Link
      /\ startCycle = CycleAt(r, start) /\ ring'[Ep] = w /\ r \in RingType
      /\ \A f \in Rings \ {Ep} : ring'[f] = ring[f]
  BY Given DEF Producer
<1>2. Laps(r, {start}) /\ Holds(r, Td, k)
  BY <1>1 DEF Producer, CycleInv, Hidden, PlaceInv, QueuedNow
<1>3. /\ Laps(w, {}) /\ w.enq = r.enq
      /\ \A p \in 0 .. Link : w.trb[p].td = r.trb[p].td /\ w.trb[p].k = r.trb[p].k
  BY <1>1, <1>2, ShownLaps
<1> HIDE DEF w, r
<1>4. Holds(w, Td, k)
  <2>1. ASSUME NEW j \in 1 .. k
        PROVE  Before(w, k + 1 - j) = Before(r, k + 1 - j) /\ Before(w, k + 1 - j) \in 0 .. Link
    <3>1. r.enq \in 0 .. Link /\ Link \in Nat
      BY <1>1, Bounds, RingTypes
    <3> QED BY <1>1, <1>3, <3>1 DEF Before
  <2> QED BY <1>2, <1>3, <2>1 DEF Holds
<1>5. QueueInv' /\ PlaceInv'
  BY <1>1, <1>4 DEF QueueInv, PlaceInv, QueuedNow
<1>6. \A f \in Rings : Hidden(f)' = {}
  BY <1>1 DEF Hidden
<1>7. \A f \in Rings \ {Ep} : Laps(ring[f], {})
  BY DEF Producer, CycleInv, Hidden
<1>8. CycleInv'
  BY <1>1, <1>3, <1>6, <1>7 DEF CycleInv
<1> QED BY <1>5, <1>8 DEF Producer

(* Nothing else touches a ring.                                             *)
LEMMA ProducerKept ==
    ASSUME XhciAssumption, Roomy, TypeInv, Producer, [Next]_vars
    PROVE  Producer'
<1>1. CASE StartTransfer
  BY <1>1, StartKept
<1>2. CASE QueueCommand
  BY <1>2, CommandKept
<1>3. CASE QueueTrb
  BY <1>3, QueueKept
<1>4. CASE GivebackFirstTrb
  BY <1>4, GivebackKept
<1>5. CASE SkipEvent \/ TakeEvent \/ UseNull
  <2>1. /\ UNCHANGED <<ring, start, startCycle, k, tds>>
        /\ pc \notin {"queue", "ring"} /\ pc' \notin {"queue", "ring"}
    BY <1>5 DEF SkipEvent, TakeEvent, UseNull, Return
  <2>2. Td' = Td /\ Ep' = Ep
    BY <2>1 DEF Td, Ep
  <2> QED BY <2>1, <2>2 DEF Producer, QueueInv, CycleInv, Hidden, PlaceInv, QueuedNow
<1>6. CASE Controller \/ PortEvent \/ UNCHANGED vars
  <2>1. UNCHANGED <<ring, start, startCycle, k, tds, pc>>
    BY <1>6 DEF Controller, Fetch, GoIdle, PortEvent, vars, driver
  <2>2. Td' = Td /\ Ep' = Ep
    BY <2>1 DEF Td, Ep
  <2> QED BY <2>1, <2>2 DEF Producer, QueueInv, CycleInv, Hidden, PlaceInv, QueuedNow
<1> QED BY <1>1, <1>2, <1>3, <1>4, <1>5, <1>6 DEF Next, Driver, Poll, Finish

-----------------------------------------------------------------------------
(* The controller                                                           *)

LEMMA HcTypes ==
    ASSUME NEW h \in HcType
    PROVE  /\ h.deq \in 0 .. Link /\ h.cycle \in Bit /\ h.td \in Nat /\ h.k \in Nat
           /\ h.bell \in BOOLEAN /\ h.halted \in BOOLEAN /\ h.short \in BOOLEAN
BY DEF HcType

LEMMA NowTypes ==
    ASSUME XhciAssumption, Roomy, TypeInv, QueueInv, Td > 0
    PROVE  /\ Ep \in Rings /\ DoneNow \in Nat /\ QueuedNow \in 0 .. tds[Td].n /\ tds[Td].n \in 1 .. Link
           /\ pc # "queue" => QueuedNow = tds[Td].n
<1>1. Ep \in Rings /\ tds[Td].n \in 1 .. Link /\ k \in Nat /\ Link \in Nat
  BY Latest, Bounds DEF TypeInv
<1>2. hc[Ep].k \in Nat
  BY <1>1, HcTypes DEF TypeInv
<1>3. pc = "queue" => k < tds[Td].n
  BY DEF QueueInv
<1> QED BY <1>1, <1>2, <1>3 DEF DoneNow, QueuedNow

(* The TRB the controller owns is the next one of the latest transfer, and  *)
(* that transfer has been given to it.                                      *)
LEMMA NextTrb ==
    ASSUME XhciAssumption, Roomy, TypeInv, Producer, HcInv, NEW e \in Rings, Owns(e)
    PROVE  IF hc[e].deq = Link THEN hc[e].cycle # ring[e].cycle
           ELSE /\ Td > 0 /\ e = Ep /\ pc \notin {"queue", "ring"}
                /\ Trb(e).td = Td /\ Trb(e).k = DoneNow + 1 /\ DoneNow + 1 <= tds[Td].n
<1> DEFINE h == hc[e]
           r == ring[e]
<1>1. /\ h \in HcType /\ r \in RingType /\ h.deq \in 0 .. Link /\ h.cycle \in Bit /\ r.cycle \in Bit
      /\ r.enq \in 0 .. Link /\ Link \in Nat /\ Link >= 3
  BY HcTypes, RingTypes, Bounds DEF TypeInv
<1>2. Laps(r, Hidden(e)) /\ QueueInv
  BY DEF Producer, CycleInv
<1>3. r.trb[h.deq].cyc = h.cycle /\ ~h.halted
  BY DEF Owns, Trb
<1>4. Left(e) >= 0 /\ Behind(h, r, Left(e))
  BY <1>3 DEF HcInv
<1>5. CASE h.deq = Link
  BY <1>1, <1>2, <1>3, <1>5 DEF Laps, Bit
<1>6. CASE h.deq # Link
  <2>1. h.deq \in Places
    BY <1>1, <1>6 DEF Places
  <2>2. h.cycle = IF h.deq \in Hidden(e) THEN 1 - CycleAt(r, h.deq) ELSE CycleAt(r, h.deq)
    BY <1>2, <1>3, <2>1 DEF Laps
  <2>3. Td > 0 /\ e = Ep
    <3> SUFFICES ASSUME ~(Td > 0 /\ e = Ep) PROVE FALSE
      OBVIOUS
    <3>1. Left(e) = 0 /\ Hidden(e) = {}
      BY DEF Left, Hidden, TypeInv
    <3> QED BY <1>1, <1>4, <2>1, <2>2, <3>1 DEF Behind, CycleAt, Bit, Places
  <2>4. DoneNow \in Nat /\ QueuedNow \in 0 .. tds[Td].n /\ tds[Td].n \in 1 .. Link
    BY <1>2, <2>3, NowTypes
  <2> DEFINE m == QueuedNow - DoneNow
  <2>5. m \in 0 .. Link /\ Behind(h, r, m)
    BY <1>1, <1>4, <2>3, <2>4 DEF Left
  <2>6. pc \notin {"queue", "ring"}
    <3> SUFFICES ASSUME pc \in {"queue", "ring"} PROVE FALSE
      OBVIOUS
    <3>1. DoneNow = 0 /\ QueuedNow = k
      BY <1>3, <2>3 DEF HcInv, DoneNow, QueuedNow, QueueInv, Producer
    <3>2. start \in 0 .. Link - 1 /\ k \in 0 .. Link
      BY <1>2, <2>4, <3>1, <1>1 DEF QueueInv, Places
    <3>3. \/ r.cycle = startCycle /\ r.enq = start + k
          \/ r.cycle # startCycle /\ r.enq = start + k - Link
      BY <1>2, <2>3 DEF QueueInv
    <3>4. Hidden(e) = IF k > 0 THEN {start} ELSE {}
      BY <2>3 DEF Hidden
    <3>5. m = k
      BY <2>4, <3>1, <3>2
    <3> HIDE DEF m, h, r
    <3> QED BY <1>1, <2>1, <2>2, <2>5, <3>2, <3>3, <3>4, <3>5 DEF Behind, CycleAt, Bit, Places
  <2>7. m > 0 /\ h.deq = Before(r, m)
    <3>1. Hidden(e) = {}
      BY <2>6 DEF Hidden
    <3> HIDE DEF m, h, r
    <3> QED BY <1>1, <2>1, <2>2, <2>5, <3>1 DEF Behind, Before, CycleAt, Bit, Places
  <2>8. Holds(r, Td, QueuedNow)
    BY <2>3 DEF Producer, PlaceInv
  <2>9. DoneNow + 1 \in 1 .. QueuedNow /\ QueuedNow + 1 - (DoneNow + 1) = m
    BY <2>4, <2>7
  <2>10. r.trb[Before(r, m)].td = Td /\ r.trb[Before(r, m)].k = DoneNow + 1
    BY <2>8, <2>9 DEF Holds
  <2> QED BY <1>6, <2>3, <2>4, <2>6, <2>7, <2>9, <2>10 DEF Trb
<1> QED BY <1>5, <1>6

(* What a step of the controller does to a ring.                            *)
Pass(e) ==
    /\ \A f \in Rings \ {e} : hc'[f] = hc[f]
    /\ hc'[e].deq = hc[e].deq + 1 /\ hc'[e].cycle = hc[e].cycle /\ hc'[e].halted = hc[e].halted
    /\ hc'[e].td = Trb(e).td /\ hc'[e].k = Trb(e).k
Turn(e) ==
    /\ \A f \in Rings \ {e} : hc'[f] = hc[f]
    /\ hc'[e].deq = 0 /\ hc'[e].cycle = 1 - hc[e].cycle /\ hc'[e].halted = hc[e].halted
    /\ hc'[e].td = hc[e].td /\ hc'[e].k = hc[e].k
Stay ==
    \A f \in Rings :
        /\ hc'[f].deq = hc[f].deq /\ hc'[f].cycle = hc[f].cycle /\ (hc[f].halted => hc'[f].halted)
        /\ hc'[f].td = hc[f].td /\ hc'[f].k = hc[f].k

(* A finished transfer stays finished, a halted endpoint halted.            *)
WillBeFinished(u) == LET h == hc'[tds[u].ep] IN h.td > u \/ (h.td = u /\ h.k = tds[u].n)
Onwards ==
    \A u \in 1 .. Td :
        /\ Finished(u) => WillBeFinished(u)
        /\ hc[tds[u].ep].halted => hc'[tds[u].ep].halted

LEMMA PassKept ==
    ASSUME XhciAssumption, Roomy, TypeInv, Producer, HcInv, NEW e \in Rings, Owns(e), hc[e].deq # Link,
           Pass(e), UNCHANGED driver
    PROVE  HcInv' /\ Onwards /\ (LastTrb(e) => WillBeFinished(Td))
<1>1. /\ Td > 0 /\ e = Ep /\ pc \notin {"queue", "ring"}
      /\ Trb(e).td = Td /\ Trb(e).k = DoneNow + 1 /\ DoneNow + 1 <= tds[Td].n
  BY NextTrb
<1>2. UNCHANGED <<ring, pc, k, tds>> /\ Td' = Td /\ Ep' = Ep /\ QueuedNow' = QueuedNow
  BY DEF driver, Td, Ep, QueuedNow
<1>3. /\ DoneNow \in Nat /\ QueuedNow = tds[Td].n /\ tds[Td].n \in 1 .. Link /\ Td \in Nat
      /\ hc[e].deq \in 0 .. Link /\ hc[e].cycle \in Bit /\ ring[e].enq \in 0 .. Link /\ Link \in Nat
      /\ ring[e].cycle \in Bit
  BY <1>1, NowTypes, Latest, HcTypes, RingTypes, Bounds DEF Producer, TypeInv
<1>4. DoneNow' = DoneNow + 1
  BY <1>1, <1>2 DEF DoneNow, Pass
<1>5. ~hc[e].halted /\ Behind(hc[e], ring[e], QueuedNow - DoneNow)
  BY <1>1 DEF HcInv, Left, Owns
<1>6. Behind(hc'[e], ring[e], QueuedNow - DoneNow')
  BY <1>3, <1>4, <1>5 DEF Behind, Pass, Bit
<1>7. Left(e)' = QueuedNow - DoneNow' /\ QueuedNow - DoneNow' >= 0 /\ \A f \in Rings \ {e} : Left(f)' = 0 /\ Left(f) = 0
  BY <1>1, <1>2, <1>3, <1>4 DEF Left
<1>8. HcInv'
  <2>1. hc'[e].td = Td /\ tds[Td].ep = e
    BY <1>1 DEF Pass, Ep
  <2> QED BY <1>1, <1>2, <1>3, <1>6, <1>7, <2>1 DEF HcInv, Pass
<1>9. Onwards
  <2>1. ASSUME NEW u \in 1 .. Td, Finished(u) PROVE WillBeFinished(u)
    <3>2. CASE tds[u].ep # e
      <4>1. tds[u].ep \in Rings
        BY Latest
      <4> QED BY <1>2, <2>1, <3>2, <4>1 DEF Finished, WillBeFinished, Pass
    <3>3. CASE tds[u].ep = e /\ u = Td
      <4>1. hc[e].td \in 0 .. Td /\ DoneNow < tds[Td].n /\ tds[Td].ep = e
        BY <1>1, <1>3 DEF HcInv, Ep
      <4>2. hc[e].td = Td /\ hc[e].k = tds[Td].n
        BY <1>3, <2>1, <3>3, <4>1 DEF Finished
      <4> QED BY <1>1, <1>3, <4>1, <4>2 DEF DoneNow
    <3>4. CASE tds[u].ep = e /\ u # Td
      BY <1>1, <1>2, <1>3, <3>4 DEF Finished, WillBeFinished, Pass
    <3> QED BY <3>2, <3>3, <3>4
  <2>2. ASSUME NEW u \in 1 .. Td, hc[tds[u].ep].halted PROVE hc'[tds[u].ep].halted
    BY <2>2, Latest DEF Pass
  <2> QED BY <2>1, <2>2 DEF Onwards
<1>10. LastTrb(e) => WillBeFinished(Td)
  BY <1>1, <1>2, <1>4 DEF LastTrb, WillBeFinished, Pass, Ep
<1> QED BY <1>8, <1>9, <1>10

LEMMA TurnKept ==
    ASSUME XhciAssumption, Roomy, TypeInv, Producer, HcInv, NEW e \in Rings, Owns(e), hc[e].deq = Link,
           Turn(e), UNCHANGED driver
    PROVE  HcInv' /\ Onwards
<1>1. hc[e].cycle # ring[e].cycle
  BY NextTrb
<1>2. UNCHANGED <<ring, pc, k, tds>> /\ Td' = Td /\ Ep' = Ep /\ QueuedNow' = QueuedNow
  BY DEF driver, Td, Ep, QueuedNow
<1>3. Td > 0 => Ep \in Rings /\ DoneNow' = DoneNow
  BY <1>2, Latest DEF DoneNow, Turn
<1>4. \A f \in Rings : Left(f)' = Left(f)
  BY <1>2, <1>3 DEF Left
<1>5. /\ hc[e].deq \in 0 .. Link /\ hc[e].cycle \in Bit /\ ring[e].enq \in 0 .. Link /\ Link \in Nat
      /\ ring[e].cycle \in Bit
  BY HcTypes, RingTypes, Bounds DEF TypeInv
<1>6. Behind(hc[e], ring[e], Left(e)) /\ Left(e) >= 0
  BY DEF HcInv, Owns
<1>7. Left(e) \in Int
  BY <1>3, NowTypes DEF Left, Producer
<1>8. Behind(hc'[e], ring[e], Left(e))
  BY <1>1, <1>5, <1>6, <1>7 DEF Behind, Turn, Bit
<1>9. HcInv'
  <2>1. pc \in {"queue", "ring"} => Ep \in Rings /\ (hc'[Ep].halted \/ hc'[Ep].td # Td)
    BY <1>3 DEF HcInv, Turn, TypeInv
  <2>2. ASSUME NEW f \in Rings
        PROVE  /\ hc'[f].td \in 0 .. Td /\ (hc'[f].td # 0 => tds[hc'[f].td].ep = f)
               /\ ~hc'[f].halted => Left(f) >= 0 /\ Behind(hc'[f], ring[f], Left(f))
    <3>1. CASE f = e
      BY <1>6, <1>8, <3>1 DEF HcInv, Turn
    <3>2. CASE f # e
      BY <3>2 DEF HcInv, Turn
    <3> QED BY <3>1, <3>2
  <2> QED BY <1>2, <1>4, <2>1, <2>2 DEF HcInv
<1>10. Onwards
  BY <1>2, Latest DEF Onwards, Finished, WillBeFinished, Turn
<1> QED BY <1>9, <1>10

LEMMA StayKept ==
    ASSUME XhciAssumption, Roomy, TypeInv, HcInv, Stay, UNCHANGED driver
    PROVE  HcInv' /\ Onwards
<1>2. UNCHANGED <<ring, pc, k, tds>> /\ Td' = Td /\ Ep' = Ep /\ QueuedNow' = QueuedNow
  BY DEF driver, Td, Ep, QueuedNow
<1>3. Td > 0 => Ep \in Rings /\ DoneNow' = DoneNow
  BY <1>2, Latest DEF DoneNow, Stay
<1>4. \A f \in Rings : Left(f)' = Left(f)
  BY <1>2, <1>3 DEF Left
<1>9. HcInv'
  <2>1. pc \in {"queue", "ring"} => Ep \in Rings /\ (hc'[Ep].halted \/ hc'[Ep].td # Td)
    BY <1>3 DEF HcInv, Stay, TypeInv
  <2>2. ASSUME NEW f \in Rings
        PROVE  /\ hc'[f].td \in 0 .. Td /\ (hc'[f].td # 0 => tds[hc'[f].td].ep = f)
               /\ ~hc'[f].halted => Left(f) >= 0 /\ Behind(hc'[f], ring[f], Left(f))
    BY DEF HcInv, Stay, Behind
  <2> QED BY <1>2, <1>4, <2>1, <2>2 DEF HcInv
<1>10. Onwards
  BY <1>2, Latest DEF Onwards, Finished, WillBeFinished, Stay
<1> QED BY <1>9, <1>10

-----------------------------------------------------------------------------
(* The event ring                                                           *)

LEMMA PostKept ==
    ASSUME XhciAssumption, TypeInv, NEW type, NEW td, NEW code,
           Post(type, td, code), UNCHANGED <<evDeq, evCycle>>
    PROVE  /\ EventInv => EventInv'
           /\ \A p \in 0 .. EventTrbs - 1 : InFlight(p)' =>
                \/ InFlight(p) /\ event'[p] = event[p]
                \/ event'[p] = [cyc |-> evPcs, type |-> type, td |-> td, code |-> code]
<1> DEFINE new == [cyc |-> evPcs, type |-> type, td |-> td, code |-> code]
<1>1. /\ evEnq \in 0 .. EventTrbs - 1 /\ evDeq \in 0 .. EventTrbs - 1 /\ EventTrbs \in Nat /\ EventTrbs >= 3
      /\ evPcs \in Bit
  BY DEF TypeInv, XhciAssumption
<1>2. /\ evEnq' = (IF evEnq + 1 = EventTrbs THEN 0 ELSE evEnq + 1) /\ evEnq' # evDeq
      /\ evPcs' = IF evEnq + 1 = EventTrbs THEN 1 - evPcs ELSE evPcs
  BY <1>1, Around DEF Post
<1>3. event' = [event EXCEPT ![evEnq] = new]
  BY DEF Post
<1>4. /\ event'[evEnq] = new /\ new.cyc = evPcs
      /\ \A p \in 0 .. EventTrbs - 1 : p # evEnq => event'[p] = event[p]
  BY <1>1, <1>3 DEF TypeInv
<1> HIDE DEF new
<1>5. ASSUME EventInv PROVE EventInv'
  BY <1>1, <1>2, <1>4, <1>5 DEF EventInv, Bit
<1>6. \A p \in 0 .. EventTrbs - 1 : InFlight(p)' => InFlight(p) \/ p = evEnq
  BY <1>1, <1>2 DEF InFlight
<1>7. \A p \in 0 .. EventTrbs - 1 : InFlight(p)' =>
        \/ InFlight(p) /\ event'[p] = event[p]
        \/ event'[p] = new
  BY <1>4, <1>6
<1> QED BY <1>5, <1>7 DEF new

LEMMA TakeKept ==
    ASSUME XhciAssumption, TypeInv, EventInv, Posted, Acknowledge, UNCHANGED <<event, evEnq, evPcs>>
    PROVE  /\ EventInv' /\ InFlight(evDeq)
           /\ \A p \in 0 .. EventTrbs - 1 : InFlight(p)' => InFlight(p)
<1>1. /\ evEnq \in 0 .. EventTrbs - 1 /\ evDeq \in 0 .. EventTrbs - 1 /\ EventTrbs \in Nat /\ EventTrbs >= 3
      /\ evPcs \in Bit
  BY DEF TypeInv, XhciAssumption
<1>2. /\ evDeq' = (IF evDeq + 1 = EventTrbs THEN 0 ELSE evDeq + 1)
      /\ evCycle' = IF evDeq + 1 = EventTrbs THEN 1 - evCycle ELSE evCycle
  BY <1>1, Around DEF Acknowledge
<1>3. event[evDeq].cyc = evCycle
  BY DEF Posted, Front
<1>4. evDeq # evEnq
  BY <1>1, <1>3 DEF EventInv, Bit
<1>5. EventInv'
  BY <1>1, <1>2, <1>3, <1>4 DEF EventInv, Bit
<1>6. InFlight(evDeq)
  BY <1>1, <1>3, <1>4 DEF EventInv, InFlight, Bit
<1>7. \A p \in 0 .. EventTrbs - 1 : InFlight(p)' => InFlight(p)
  BY <1>1, <1>2, <1>4 DEF InFlight
<1> QED BY <1>5, <1>6, <1>7

LEMMA EventKept ==
    ASSUME XhciAssumption, TypeInv, ~lost => EventInv, [Next]_vars
    PROVE  ~lost' => EventInv'
<1>1. CASE SkipEvent \/ TakeEvent
  <2>1. Posted /\ Acknowledge /\ UNCHANGED <<event, evEnq, evPcs>> /\ (lost => lost')
    BY <1>1 DEF SkipEvent, TakeEvent, TypeInv
  <2> QED BY <2>1, TakeKept
<1>2. CASE UseNull
  BY <1>2 DEF UseNull, TypeInv
<1>3. CASE StartTransfer \/ QueueTrb \/ GivebackFirstTrb \/ QueueCommand \/ UNCHANGED vars
  <2>1. UNCHANGED <<event, evEnq, evPcs, evDeq, evCycle, lost>>
    BY <1>3 DEF StartTransfer, QueueTrb, GivebackFirstTrb, QueueCommand, vars, driver
  <2> QED BY <2>1 DEF EventInv
<1>4. CASE Controller \/ PortEvent
  <2>1. UNCHANGED <<evDeq, evCycle, lost>>
    BY <1>4 DEF Controller, Fetch, GoIdle, PortEvent, driver
  <2>2. UNCHANGED <<event, evEnq, evPcs>> \/ \E type, td, code : Post(type, td, code)
    BY <1>4 DEF Controller, Fetch, GoIdle, PortEvent, FollowLink, Execute, ShortPacket, PassOver, Stall, Silent
  <2>3. CASE UNCHANGED <<event, evEnq, evPcs>>
    BY <2>1, <2>3 DEF EventInv
  <2>4. ASSUME NEW type, NEW td, NEW code, Post(type, td, code)
        PROVE  EventInv => EventInv'
    BY <2>1, <2>4, PostKept
  <2> QED BY <2>1, <2>2, <2>3, <2>4
<1> QED BY <1>1, <1>2, <1>3, <1>4 DEF Next, Driver, Poll, Finish

-----------------------------------------------------------------------------
(* What is said and owed                                                    *)

(* Nothing new is owed when what is in flight was in flight before, or is   *)
(* about the latest transfer.                                               *)
LEMMA SettledOn ==
    ASSUME TypeInv, TypeInv', Td' = Td, tds' = tds, Onwards, SettledInv,
           \A p \in 0 .. EventTrbs - 1 : InFlight(p)' =>
              (InFlight(p) /\ event'[p] = event[p]) \/ event'[p].td \notin 1 .. Td - 1
    PROVE  SettledInv'
<1>1. SUFFICES ASSUME NEW u \in 1 .. Td - 1
               PROVE  ~Owed(u)'
  BY DEF SettledInv
<1>2. ~Owed(u) /\ u \in 1 .. Td
  BY Latest DEF SettledInv
<1>3. \A p \in 0 .. EventTrbs - 1 : InFlight(p)' => event'[p].td # u \/ event'[p].type = "none"
  BY <1>2 DEF Owed, Pending, InFlight, TypeInv
<1>4. ~Pending(u)'
  <2>1. DOMAIN event' = 0 .. EventTrbs - 1 /\ evDeq' \in 0 .. EventTrbs - 1 /\ evEnq' \in 0 .. EventTrbs - 1
    BY DEF TypeInv
  <2> SUFFICES ASSUME Pending(u)' PROVE FALSE
    OBVIOUS
  <2>2. PICK p \in DOMAIN event' : /\ event'[p].td = u /\ event'[p].type # "none"
                                 /\ \/ evDeq' <= p /\ p < evEnq'
                                    \/ evEnq' < evDeq' /\ (p < evEnq' \/ p >= evDeq')
    BY DEF Pending
  <2> QED BY <1>3, <2>1, <2>2 DEF InFlight
<1>5. WillBeFinished(u) \/ hc'[tds[u].ep].halted
  BY <1>2 DEF Owed, Onwards
<1> QED BY <1>4, <1>5 DEF Owed, Finished, WillBeFinished

LEMMA SaysOn ==
    ASSUME TypeInv, Td' = Td, tds' = tds, Onwards, SaysInv,
           \A p \in 0 .. EventTrbs - 1 : InFlight(p)' =>
              \/ InFlight(p) /\ event'[p] = event[p]
              \/ /\ event'[p].type \in EventTypes
                 /\ event'[p].type # "port" => event'[p].td \in 1 .. Td
                 /\ event'[p].type # "port" /\ event'[p].code = "success" => WillBeFinished(event'[p].td)
    PROVE  SaysInv'
<1>1. SUFFICES ASSUME NEW p \in 0 .. EventTrbs - 1, InFlight(p)'
               PROVE  /\ event'[p].type \in EventTypes
                      /\ event'[p].type # "port" => event'[p].td \in 1 .. Td
                      /\ event'[p].type # "port" /\ event'[p].code = "success" => WillBeFinished(event'[p].td)
  BY DEF SaysInv, Finished, WillBeFinished
<1>2. CASE InFlight(p) /\ event'[p] = event[p]
  <2>1. event[p].type \in EventTypes
    BY <1>2 DEF SaysInv
  <2>2. ASSUME event[p].type # "port"
        PROVE  event[p].td \in 1 .. Td /\ (event[p].code = "success" => Finished(event[p].td))
    BY <1>2, <2>2 DEF SaysInv, Finished
  <2>3. \A u \in 1 .. Td : Finished(u) => WillBeFinished(u)
    BY DEF Onwards
  <2> QED BY <1>2, <2>1, <2>2, <2>3 DEF Finished, WillBeFinished
<1> QED BY <1>1, <1>2

LEMMA AnswerOn ==
    ASSUME TypeInv, Td' = Td, tds' = tds, answer' = answer, InStep, Onwards, AnswerIsOwn
    PROVE  AnswerIsOwn'
<1>1. CASE answer = NoAnswer
  BY <1>1 DEF AnswerIsOwn, NoAnswer
<1>2. CASE answer # NoAnswer
  <2>1. Td \in 1 .. Td
    BY <1>2, Latest DEF TypeInv
  <2>2. answer.td = Td /\ (answer.code = "success" => Finished(Td))
    BY <1>2 DEF AnswerIsOwn
  <2>5. \A u \in 1 .. Td : Finished(u) => WillBeFinished(u)
    BY DEF Onwards
  <2>3. Finished(Td) => WillBeFinished(Td)
    BY <2>1, <2>5 DEF Finished, WillBeFinished
  <2>4. WillBeFinished(Td) => Finished(Td)'
    BY DEF Finished, WillBeFinished
  <2> QED BY <2>2, <2>3, <2>4 DEF AnswerIsOwn
<1> QED BY <1>1, <1>2

Spoken == HcInv /\ SaysInv /\ SettledInv /\ AnswerIsOwn

(* A step of the controller, and what it posts.                             *)
LEMMA ControllerSays ==
    ASSUME XhciAssumption, TypeInv, TypeInv', InStep, Spoken, HcInv', Onwards, UNCHANGED driver,
           \/ UNCHANGED <<event, evEnq, evPcs>>
           \/ Td > 0 /\ \E type \in {"transfer", "completion"}, code \in {"success", "short", "stall"} :
                Post(type, Td, code) /\ (code = "success" => WillBeFinished(Td))
    PROVE  Spoken'
<1>1. UNCHANGED <<evDeq, evCycle, tds, answer>> /\ Td' = Td /\ Td \in Nat
  BY Latest DEF driver, Td
<1>2. AnswerIsOwn'
  BY <1>1, AnswerOn DEF Spoken
<1>3. CASE UNCHANGED <<event, evEnq, evPcs>>
  <2>1. \A p \in 0 .. EventTrbs - 1 : InFlight(p)' => InFlight(p) /\ event'[p] = event[p]
    BY <1>1, <1>3 DEF InFlight
  <2>2. SettledInv'
    BY <1>1, <2>1, SettledOn DEF Spoken
  <2>3. SaysInv'
    BY <1>1, <2>1, SaysOn DEF Spoken
  <2> QED BY <1>2, <2>2, <2>3 DEF Spoken
<1>4. ASSUME Td > 0, NEW type \in {"transfer", "completion"}, NEW code \in {"success", "short", "stall"},
             Post(type, Td, code), code = "success" => WillBeFinished(Td)
      PROVE  Spoken'
  <2>1. \A p \in 0 .. EventTrbs - 1 : InFlight(p)' =>
          \/ InFlight(p) /\ event'[p] = event[p]
          \/ event'[p] = [cyc |-> evPcs, type |-> type, td |-> Td, code |-> code]
    BY <1>1, <1>4, PostKept
  <2>2. \A p \in 0 .. EventTrbs - 1 : InFlight(p)' =>
          \/ InFlight(p) /\ event'[p] = event[p]
          \/ event'[p].type \in EventTypes /\ event'[p].td = Td /\ event'[p].code = code
    BY <2>1 DEF EventTypes
  <2>3. SettledInv'
    BY <1>1, <2>2, SettledOn DEF Spoken
  <2>4. Td \in 1 .. Td
    BY <1>1, <1>4
  <2>5. SaysInv'
    BY <1>1, <1>4, <2>2, <2>4, SaysOn DEF Spoken
  <2> QED BY <1>2, <2>3, <2>5 DEF Spoken
<1> QED BY <1>3, <1>4

LEMMA ControllerKept ==
    ASSUME XhciAssumption, Roomy, TypeInv, TypeInv', Producer, InStep, Spoken, NEW e \in Rings, Fetch(e)
    PROVE  Spoken'
<1>1. Owns(e) /\ UNCHANGED driver /\ hc \in [Rings -> HcType] /\ HcInv
  BY DEF Fetch, TypeInv, Spoken
<1>2. CASE FollowLink(e)
  <2>1. hc[e] \in HcType /\ hc' = [hc EXCEPT ![e] = [hc[e] EXCEPT !.deq = 0, !.cycle = 1 - hc[e].cycle]]
    BY <1>1, <1>2 DEF FollowLink
  <2>2. Turn(e) /\ hc[e].deq = Link /\ UNCHANGED <<event, evEnq, evPcs>>
    BY <1>1, <1>2, <2>1 DEF FollowLink, Turn, Silent, HcType
  <2>3. HcInv' /\ Onwards
    BY <1>1, <2>2, TurnKept
  <2> QED BY <1>1, <2>2, <2>3, ControllerSays
<1>3. ASSUME NEW s \in BOOLEAN, hc' = [hc EXCEPT ![e] = Passed(e)] \/ hc' = [hc EXCEPT ![e] = [Passed(e) EXCEPT !.short = s]],
             hc[e].deq # Link
      PROVE  /\ Td > 0 /\ e = Ep /\ Trb(e).td = Td /\ HcInv' /\ Onwards
             /\ LastTrb(e) => WillBeFinished(Td)
  <2> DEFINE new == [hc[e] EXCEPT !.deq = hc[e].deq + 1, !.td = Trb(e).td, !.k = Trb(e).k]
  <2>1. hc'[e] = new \/ hc'[e] = [new EXCEPT !.short = s]
    BY <1>1, <1>3 DEF Passed
  <2>2. Pass(e)
    <3>1. \A f \in Rings \ {e} : hc'[f] = hc[f]
      BY <1>1, <1>3
    <3>2. hc[e] \in HcType
      BY <1>1
    <3> QED BY <2>1, <3>1, <3>2 DEF Pass, HcType
  <2> QED BY <1>1, <1>3, <2>2, PassKept, NextTrb
<1>4. CASE Execute(e)
  <2>1. /\ Td > 0 /\ e = Ep /\ Trb(e).td = Td /\ HcInv' /\ Onwards
        /\ LastTrb(e) => WillBeFinished(Td)
    BY <1>3, <1>4 DEF Execute
  <2>2. \/ UNCHANGED <<event, evEnq, evPcs>>
        \/ \E type \in {"transfer", "completion"} : Post(type, Td, "success") /\ WillBeFinished(Td)
    BY <1>4, <2>1 DEF Execute, Silent
  <2> QED BY <1>1, <2>1, <2>2, ControllerSays
<1>5. CASE ShortPacket(e)
  <2>1. /\ Td > 0 /\ e = Ep /\ Trb(e).td = Td /\ HcInv' /\ Onwards
    BY <1>3, <1>5 DEF ShortPacket
  <2>2. Post("transfer", Td, "short")
    BY <1>5, <2>1 DEF ShortPacket
  <2> QED BY <1>1, <2>1, <2>2, ControllerSays
<1>6. CASE PassOver(e)
  <2>1. /\ Td > 0 /\ e = Ep /\ Trb(e).td = Td /\ HcInv' /\ Onwards
    BY <1>3, <1>6 DEF PassOver
  <2>2. UNCHANGED <<event, evEnq, evPcs>> \/ Post("transfer", Td, "short")
    BY <1>6, <2>1 DEF PassOver, Silent
  <2> QED BY <1>1, <2>1, <2>2, ControllerSays
<1>7. CASE Stall(e)
  <2>1. hc[e] \in HcType /\ hc' = [hc EXCEPT ![e] = [hc[e] EXCEPT !.halted = TRUE]]
    BY <1>1, <1>7 DEF Stall
  <2>2. Stay
    BY <1>1, <2>1 DEF Stay, HcType
  <2>3. HcInv' /\ Onwards
    BY <1>1, <2>2, StayKept
  <2>4. Td > 0 /\ Post("transfer", Td, "stall")
    BY <1>1, <1>7, NextTrb DEF Stall
  <2> QED BY <1>1, <2>3, <2>4, ControllerSays
<1> QED BY <1>2, <1>4, <1>5, <1>6, <1>7 DEF Fetch

-----------------------------------------------------------------------------
(* The driver, while nothing is owed to an earlier transfer                 *)

LEMMA QuietSays ==
    ASSUME TypeInv, TypeInv', InStep, Spoken, HcInv', Onwards, Td' = Td, tds' = tds,
           \A p \in 0 .. EventTrbs - 1 : InFlight(p)' => InFlight(p) /\ event'[p] = event[p]
    PROVE  HcInv' /\ SaysInv' /\ SettledInv' /\ (answer' = answer => AnswerIsOwn')
<1>1. SettledInv'
  BY SettledOn DEF Spoken
<1>2. SaysInv'
  BY SaysOn DEF Spoken
<1>3. answer' = answer => AnswerIsOwn'
  BY AnswerOn DEF Spoken
<1> QED BY <1>1, <1>2, <1>3

LEMMA Rung ==
    ASSUME TypeInv, NEW e \in Rings, hc' = [hc EXCEPT ![e].bell = TRUE] \/ hc' = [hc EXCEPT ![e].bell = FALSE]
    PROVE  \A f \in Rings : /\ hc'[f].deq = hc[f].deq /\ hc'[f].cycle = hc[f].cycle
                            /\ hc'[f].halted = hc[f].halted
                            /\ hc'[f].td = hc[f].td /\ hc'[f].k = hc[f].k
<1>1. hc[e] \in HcType /\ \A f \in Rings \ {e} : hc'[f] = hc[f]
  BY DEF TypeInv
<1>2. hc'[e] = [hc[e] EXCEPT !.bell = TRUE] \/ hc'[e] = [hc[e] EXCEPT !.bell = FALSE]
  BY DEF TypeInv
<1> QED BY <1>1, <1>2 DEF HcType

LEMMA HcSame ==
    ASSUME XhciAssumption, Roomy, TypeInv, HcInv, pc = "wait", pc' \notin {"queue", "ring"},
           UNCHANGED <<hc, ring, tds>>
    PROVE  HcInv' /\ Onwards
<1>1. Td' = Td /\ Ep' = Ep /\ QueuedNow' = QueuedNow /\ DoneNow' = DoneNow
  BY DEF Td, Ep, QueuedNow, DoneNow
<1>2. HcInv'
  BY <1>1 DEF HcInv, Left
<1>3. Onwards
  BY DEF Onwards, Finished, WillBeFinished
<1> QED BY <1>2, <1>3

LEMMA SkipSays ==
    ASSUME XhciAssumption, Roomy, TypeInv, TypeInv', EventInv, InStep, Spoken, SkipEvent
    PROVE  Spoken'
<1>1. /\ pc = "wait" /\ pc' \notin {"queue", "ring"} /\ UNCHANGED <<hc, ring, tds, answer, event, evEnq, evPcs>>
      /\ Posted /\ Acknowledge
  BY DEF SkipEvent
<1>2. HcInv' /\ Onwards
  BY <1>1, HcSame DEF Spoken
<1>3. \A p \in 0 .. EventTrbs - 1 : InFlight(p)' => InFlight(p) /\ event'[p] = event[p]
  BY <1>1, TakeKept
<1>4. Td' = Td
  BY <1>1 DEF Td
<1> QED BY <1>1, <1>2, <1>3, <1>4, QuietSays DEF Spoken

(* The event taken is of the latest transfer: nothing of an earlier one is  *)
(* in flight.                                                               *)
LEMMA TakeSays ==
    ASSUME XhciAssumption, Roomy, TypeInv, TypeInv', EventInv, InStep, Spoken, TakeEvent
    PROVE  Spoken'
<1>1. /\ pc = "wait" /\ pc' \notin {"queue", "ring"} /\ UNCHANGED <<hc, ring, tds, event, evEnq, evPcs>>
      /\ Posted /\ Acknowledge /\ Front.type = Expected
      /\ answer' = [td |-> Front.td, code |-> Front.code]
  BY DEF TakeEvent, Return
<1>2. HcInv' /\ Onwards
  BY <1>1, HcSame DEF Spoken
<1>3. InFlight(evDeq) /\ \A p \in 0 .. EventTrbs - 1 : InFlight(p)' => InFlight(p) /\ event'[p] = event[p]
  BY <1>1, TakeKept
<1>4. Td' = Td /\ Td \in Nat /\ evDeq \in 0 .. EventTrbs - 1 /\ DOMAIN event = 0 .. EventTrbs - 1
  BY <1>1, Latest DEF Td, TypeInv
<1>5. Front = event[evDeq] /\ Front.type # "port" /\ Front.type # "none"
  BY <1>1 DEF Front, Expected
<1>6. Front.td \in 1 .. Td /\ (Front.code = "success" => Finished(Front.td))
  BY <1>3, <1>4, <1>5 DEF Spoken, SaysInv, Finished
<1>7. Front.td \notin 1 .. Td - 1
  <2> SUFFICES ASSUME Front.td \in 1 .. Td - 1 PROVE FALSE
    OBVIOUS
  <2>1. ~Owed(Front.td)
    BY DEF Spoken, SettledInv, Owed, Pending, Finished
  <2>2. Pending(Front.td)
    BY <1>3, <1>4, <1>5 DEF Pending, InFlight
  <2> QED BY <2>1, <2>2 DEF Owed
<1>8. Front.td = Td
  BY <1>4, <1>6, <1>7
<1>9. Finished(Td) => Finished(Td)'
  BY <1>1, <1>4 DEF Finished
<1>10. AnswerIsOwn'
  BY <1>1, <1>4, <1>6, <1>8, <1>9 DEF AnswerIsOwn
<1>11. SaysInv' /\ SettledInv'
  BY <1>1, <1>2, <1>3, <1>4, QuietSays
<1> QED BY <1>2, <1>10, <1>11 DEF Spoken

LEMMA QueueSays ==
    ASSUME XhciAssumption, Roomy, TypeInv, TypeInv', Producer, InStep, Spoken, QueueTrb
    PROVE  Spoken'
<1> DEFINE r == ring[Ep]
           trb == [cyc |-> IF k = 0 THEN 1 - startCycle ELSE r.cycle, td |-> Td, k |-> k + 1]
           more == k + 1 < tds[Td].n
           w == Put(r, trb, more)
<1>1. /\ Td > 0 /\ Td' = Td /\ tds' = tds /\ Ep' = Ep /\ Ep \in Rings
      /\ pc = "queue" /\ pc' = IF more THEN "queue" ELSE "ring"
      /\ k < tds[Td].n /\ k' = k + 1 /\ k \in 0 .. Link - 1 /\ tds[Td].n \in 1 .. Link
      /\ ring'[Ep] = w /\ trb \in TrbType /\ r \in RingType /\ r.enq # Link
      /\ \A f \in Rings \ {Ep} : ring'[f] = ring[f]
  BY TrbQueued DEF Producer
<1>2. UNCHANGED <<hc, answer, event, evEnq, evPcs, evDeq, evCycle>>
  BY DEF QueueTrb
<1>3. more \in BOOLEAN /\ (more => k + 1 < Link) /\ (more <=> k + 1 < tds[Td].n) /\ Link \in Nat
  BY <1>1, Bounds
<1> HIDE DEF trb, more
<1>4. HcInv'
  <2>1. hc[Ep].halted \/ hc[Ep].td # Td
    BY <1>1 DEF Spoken, HcInv
  <2>2. ~hc[Ep].halted => Left(Ep) = k /\ Left(Ep)' = k + 1
    BY <1>1, <1>2, <1>3, <2>1 DEF Left, QueuedNow, DoneNow
  <2>3. \A f \in Rings \ {Ep} : Left(f) = 0 /\ Left(f)' = 0
    BY <1>1 DEF Left
  <2>4. ASSUME ~hc[Ep].halted
        PROVE  Behind(hc[Ep], w, k + 1)
    <3>1. Behind(hc[Ep], r, k)
      BY <1>1, <2>2, <2>4 DEF Spoken, HcInv
    <3>2. hc[Ep] \in HcType
      BY <1>1 DEF TypeInv
    <3> QED BY <1>1, <1>3, <3>1, <3>2, PutBehind
  <2>5. ASSUME NEW f \in Rings
        PROVE  /\ hc[f].td \in 0 .. Td /\ (hc[f].td # 0 => tds[hc[f].td].ep = f)
               /\ ~hc[f].halted => Left(f)' >= 0 /\ Behind(hc[f], ring'[f], Left(f)')
    <3> HIDE DEF w, r
    <3>1. CASE f = Ep
      BY <1>1, <2>2, <2>4, <3>1 DEF Spoken, HcInv
    <3>2. CASE f # Ep
      BY <1>1, <2>3, <3>2 DEF Spoken, HcInv
    <3> QED BY <3>1, <3>2
  <2> QED BY <1>1, <1>2, <2>1, <2>5 DEF HcInv
<1>5. Onwards
  BY <1>2 DEF Onwards, Finished, WillBeFinished
<1>6. \A p \in 0 .. EventTrbs - 1 : InFlight(p)' => InFlight(p) /\ event'[p] = event[p]
  BY <1>2 DEF InFlight
<1> QED BY <1>1, <1>2, <1>4, <1>5, <1>6, QuietSays DEF Spoken

LEMMA GivebackSays ==
    ASSUME XhciAssumption, Roomy, TypeInv, TypeInv', Producer, InStep, Spoken, GivebackFirstTrb
    PROVE  Spoken'
<1>1. /\ Td > 0 /\ Td' = Td /\ tds' = tds /\ Ep' = Ep /\ Ep \in Rings
      /\ pc = "ring" /\ pc' = "wait"
      /\ ring'[Ep] = [ring[Ep] EXCEPT !.trb[start].cyc = startCycle] /\ ring[Ep] \in RingType
      /\ \A f \in Rings \ {Ep} : ring'[f] = ring[f]
  BY Given DEF Producer
<1>2. UNCHANGED <<answer, event, evEnq, evPcs, evDeq, evCycle>> /\ hc' = [hc EXCEPT ![Ep].bell = TRUE]
  BY DEF GivebackFirstTrb
<1>3. \A f \in Rings : /\ hc'[f].deq = hc[f].deq /\ hc'[f].cycle = hc[f].cycle /\ hc'[f].halted = hc[f].halted
                       /\ hc'[f].td = hc[f].td /\ hc'[f].k = hc[f].k
  BY <1>1, <1>2, Rung
<1>4. \A f \in Rings : ring'[f].enq = ring[f].enq /\ ring'[f].cycle = ring[f].cycle
  BY <1>1 DEF RingType
<1>5. QueuedNow' = QueuedNow /\ DoneNow' = DoneNow
  BY <1>1, <1>3 DEF QueuedNow, DoneNow
<1>6. HcInv'
  BY <1>1, <1>3, <1>4, <1>5 DEF Spoken, HcInv, Left, Behind
<1>7. Onwards
  BY <1>1, <1>3, Latest DEF Onwards, Finished, WillBeFinished
<1>8. \A p \in 0 .. EventTrbs - 1 : InFlight(p)' => InFlight(p) /\ event'[p] = event[p]
  BY <1>2 DEF InFlight
<1> QED BY <1>1, <1>2, <1>6, <1>7, <1>8, QuietSays DEF Spoken

(* A call begins with nothing owed: the controller is level with every ring *)
(* that is not halted.                                                      *)
LEMMA Level ==
    ASSUME XhciAssumption, Roomy, TypeInv, QueueInv, HcInv, pc = "idle", \A t \in 1 .. Td : ~Owed(t),
           NEW f \in Rings, ~hc[f].halted
    PROVE  Behind(hc[f], ring[f], 0)
<1>1. Behind(hc[f], ring[f], Left(f))
  BY DEF HcInv
<1>2. Left(f) = 0
  <2>1. CASE Td > 0 /\ f = Ep
    <3>1. Td \in 1 .. Td /\ QueuedNow = tds[Td].n /\ tds[Td].n \in 1 .. Link /\ hc[Ep].td \in 0 .. Td
      BY <2>1, Latest, NowTypes DEF HcInv
    <3>2. Finished(Td)
      BY <2>1, <3>1 DEF Owed, Pending, Finished, Ep
    <3>3. hc[Ep].td = Td /\ hc[Ep].k = tds[Td].n
      BY <3>1, <3>2 DEF Finished, Ep
    <3> QED BY <2>1, <3>1, <3>3 DEF Left, DoneNow
  <2>2. CASE ~(Td > 0 /\ f = Ep)
    BY <2>2 DEF Left
  <2> QED BY <2>1, <2>2
<1> QED BY <1>1, <1>2

LEMMA BeginSays ==
    ASSUME XhciAssumption, TypeInv, TypeInv', Spoken, \A t \in 1 .. Td : ~Owed(t), Td' = Td + 1,
           \A t \in 1 .. Td : tds'[t] = tds[t],
           \A f \in Rings : /\ hc'[f].td = hc[f].td /\ hc'[f].k = hc[f].k /\ hc'[f].halted = hc[f].halted,
           UNCHANGED <<event, evEnq, evPcs, evDeq, evCycle>>, answer' = NoAnswer
    PROVE  SaysInv' /\ SettledInv' /\ AnswerIsOwn'
<1>1. Td \in Nat /\ \A t \in 1 .. Td : tds[t].ep \in Rings
  BY Latest
<1>2. SaysInv'
  <2>1. SUFFICES ASSUME NEW p \in 0 .. EventTrbs - 1, InFlight(p)
                 PROVE  /\ event[p].type \in EventTypes
                        /\ event[p].type # "port" =>
                             event[p].td \in 1 .. Td /\ (event[p].code = "success" => WillBeFinished(event[p].td))
    BY <1>1 DEF SaysInv, InFlight, Finished, WillBeFinished
  <2>2. event[p].type \in EventTypes
    BY <2>1 DEF Spoken, SaysInv
  <2>3. ASSUME event[p].type # "port"
        PROVE  event[p].td \in 1 .. Td /\ (event[p].code = "success" => Finished(event[p].td))
    BY <2>1, <2>3 DEF Spoken, SaysInv, Finished
  <2>4. \A u \in 1 .. Td : hc'[tds[u].ep].td = hc[tds[u].ep].td /\ hc'[tds[u].ep].k = hc[tds[u].ep].k
    BY <1>1
  <2> QED BY <2>2, <2>3, <2>4 DEF Finished, WillBeFinished
<1>3. SettledInv'
  <2>1. SUFFICES ASSUME NEW u \in 1 .. Td PROVE ~Owed(u)'
    BY <1>1 DEF SettledInv
  <2> QED BY <1>1 DEF Owed, Pending, Finished
<1>4. AnswerIsOwn'
  BY DEF AnswerIsOwn
<1> QED BY <1>2, <1>3, <1>4

LEMMA StartSays ==
    ASSUME XhciAssumption, Roomy, TypeInv, TypeInv', Producer, Spoken, InStep', StartTransfer
    PROVE  Spoken'
<1>1. PICK e \in Rings, n \in 1 .. Link :
        /\ pc = "idle" /\ pc' = "queue" /\ k' = 0
        /\ Td' = Td + 1 /\ Ep' = e /\ tds'[Td'].n = n /\ \A t \in 1 .. Td : tds'[t] = tds[t]
        /\ ring'[e] = Prepared(ring[e]) /\ \A f \in Rings \ {e} : ring'[f] = ring[f]
  BY Started
<1>2. /\ UNCHANGED <<hc, event, evEnq, evPcs, evDeq, evCycle>> /\ answer' = NoAnswer
      /\ \A t \in DOMAIN tds : ~Owed(t)
  BY DEF StartTransfer, Begin, InStep
<1>3. (\A t \in 1 .. Td : ~Owed(t)) /\ Td \in Nat
  <2>1. DOMAIN tds = 1 .. Td
    BY DEF TypeInv, Td
  <2> QED BY <1>2, <2>1, Latest
<1>4. SaysInv' /\ SettledInv' /\ AnswerIsOwn'
  BY <1>1, <1>2, <1>3, BeginSays
<1>5. \A f \in Rings : hc[f].td \in 0 .. Td
  BY DEF Spoken, HcInv
<1>6. \A f \in Rings : Left(f)' = 0
  BY <1>1, <1>2, <1>3, <1>5 DEF Left, QueuedNow, DoneNow
<1>7. ASSUME NEW f \in Rings, ~hc[f].halted
      PROVE  Behind(hc[f], ring'[f], 0)
  <2>1. Behind(hc[f], ring[f], 0) /\ ring[f] \in RingType /\ hc[f] \in HcType
    BY <1>1, <1>3, <1>7, Level DEF Spoken, Producer, TypeInv
  <2> QED BY <1>1, <2>1, PreparedBehind
<1>8. \A f \in Rings : hc[f].td # 0 => tds'[hc[f].td].ep = f
  BY <1>1, <1>3, <1>5 DEF Spoken, HcInv
<1>9. HcInv'
  BY <1>1, <1>2, <1>3, <1>5, <1>6, <1>7, <1>8 DEF HcInv
<1> QED BY <1>4, <1>9 DEF Spoken

LEMMA CommandSays ==
    ASSUME XhciAssumption, Roomy, TypeInv, TypeInv', Producer, Spoken, InStep', QueueCommand
    PROVE  Spoken'
<1> DEFINE r == Prepared(ring["cmd"])
           trb == [cyc |-> r.cycle, td |-> Td + 1, k |-> 1]
<1>1. /\ pc = "idle" /\ pc' = "wait"
      /\ Td' = Td + 1 /\ Ep' = "cmd" /\ tds'[Td'].n = 1 /\ \A t \in 1 .. Td : tds'[t] = tds[t]
      /\ ring'["cmd"] = Put(r, trb, FALSE) /\ trb \in TrbType /\ r \in RingType /\ r.enq # Link
      /\ \A f \in Rings \ {"cmd"} : ring'[f] = ring[f]
  BY Commanded
<1>2. /\ UNCHANGED <<event, evEnq, evPcs, evDeq, evCycle>> /\ answer' = NoAnswer
      /\ hc' = [hc EXCEPT !["cmd"].bell = TRUE] /\ \A t \in DOMAIN tds : ~Owed(t)
  BY DEF QueueCommand, Begin, InStep
<1>3. (\A t \in 1 .. Td : ~Owed(t)) /\ Td \in Nat /\ "cmd" \in Rings
  <2>1. DOMAIN tds = 1 .. Td
    BY DEF TypeInv, Td
  <2> QED BY <1>2, <2>1, Latest DEF Rings
<1>4. \A f \in Rings : /\ hc'[f].deq = hc[f].deq /\ hc'[f].cycle = hc[f].cycle /\ hc'[f].halted = hc[f].halted
                       /\ hc'[f].td = hc[f].td /\ hc'[f].k = hc[f].k
  BY <1>2, <1>3, Rung
<1>5. SaysInv' /\ SettledInv' /\ AnswerIsOwn'
  BY <1>1, <1>2, <1>3, <1>4, BeginSays
<1>6. \A f \in Rings : hc[f].td \in 0 .. Td
  BY DEF Spoken, HcInv
<1>7. \A f \in Rings : Left(f)' = IF f = "cmd" THEN 1 ELSE 0
  BY <1>1, <1>3, <1>4, <1>6 DEF Left, QueuedNow, DoneNow
<1> HIDE DEF trb
<1>8. ASSUME NEW f \in Rings, ~hc[f].halted
      PROVE  Behind(hc[f], ring'[f], IF f = "cmd" THEN 1 ELSE 0)
  <2>1. Behind(hc[f], ring[f], 0) /\ ring[f] \in RingType /\ hc[f] \in HcType
    BY <1>1, <1>3, <1>8, Level DEF Spoken, Producer, TypeInv
  <2>2. CASE f = "cmd"
    <3>1. Behind(hc[f], r, 0)
      BY <2>1, <2>2, PreparedBehind
    <3> HIDE DEF r
    <3>2. 0 \in 0 .. Link - 1 /\ 0 + 1 = 1
      BY Bounds
    <3>3. Behind(hc[f], Put(r, trb, FALSE), 0 + 1)
      BY <1>1, <2>1, <3>1, <3>2, PutBehind
    <3> QED BY <1>1, <2>2, <3>2, <3>3
  <2>3. CASE f # "cmd"
    BY <1>1, <2>1, <2>3
  <2> QED BY <2>2, <2>3
<1>9. \A f \in Rings : hc[f].td # 0 => tds'[hc[f].td].ep = f
  BY <1>1, <1>3, <1>6 DEF Spoken, HcInv
<1>10. HcInv'
  <2>1. ASSUME NEW f \in Rings
        PROVE  /\ hc'[f].td \in 0 .. Td' /\ (hc'[f].td # 0 => tds'[hc'[f].td].ep = f)
               /\ ~hc'[f].halted => Left(f)' >= 0 /\ Behind(hc'[f], ring'[f], Left(f)')
    BY <1>1, <1>3, <1>4, <1>6, <1>7, <1>8, <1>9 DEF Behind
  <2> QED BY <1>1, <2>1 DEF HcInv
<1> QED BY <1>5, <1>10 DEF Spoken

LEMMA GoIdleSays ==
    ASSUME XhciAssumption, Roomy, TypeInv, TypeInv', InStep, Spoken, NEW e \in Rings, GoIdle(e)
    PROVE  Spoken'
<1>1. UNCHANGED driver /\ UNCHANGED <<event, evEnq, evPcs>> /\ hc' = [hc EXCEPT ![e].bell = FALSE]
  BY DEF GoIdle
<1>2. Stay
  BY <1>1, Rung DEF Stay
<1> QED BY <1>1, <1>2, StayKept, ControllerSays DEF Spoken

LEMMA PortSays ==
    ASSUME XhciAssumption, Roomy, TypeInv, TypeInv', InStep, Spoken, PortEvent
    PROVE  Spoken'
<1>1. UNCHANGED driver /\ UNCHANGED hc /\ Post("port", 0, "success")
  BY DEF PortEvent
<1>2. Td' = Td /\ Td \in Nat /\ UNCHANGED <<tds, answer, evDeq, evCycle>>
  BY <1>1, Latest DEF driver, Td
<1>3. HcInv' /\ Onwards
  BY <1>1, StayKept DEF Stay, Spoken
<1>4. \A p \in 0 .. EventTrbs - 1 : InFlight(p)' =>
        \/ InFlight(p) /\ event'[p] = event[p]
        \/ event'[p] = [cyc |-> evPcs, type |-> "port", td |-> 0, code |-> "success"]
  BY <1>1, <1>2, PostKept
<1>5. \A p \in 0 .. EventTrbs - 1 : InFlight(p)' =>
        \/ InFlight(p) /\ event'[p] = event[p]
        \/ event'[p].type = "port" /\ event'[p].type \in EventTypes /\ event'[p].td = 0
  BY <1>4 DEF EventTypes
<1>6. SettledInv'
  BY <1>2, <1>3, <1>5, SettledOn DEF Spoken
<1>7. SaysInv'
  BY <1>2, <1>3, <1>5, SaysOn DEF Spoken
<1>8. AnswerIsOwn'
  BY <1>2, <1>3, AnswerOn DEF Spoken
<1> QED BY <1>3, <1>6, <1>7, <1>8 DEF Spoken

-----------------------------------------------------------------------------
(* The invariant, and what follows from it                                  *)

LEMMA NextInv ==
    ASSUME XhciAssumption, Roomy, Inv, [Next]_vars
    PROVE  Inv'
<1>1. TypeInv /\ Producer /\ (~lost => EventInv) /\ (InStep => Spoken)
  BY DEF Inv, Producer, Spoken
<1>2. TypeInv'
  BY <1>1, TypesKept DEF Producer
<1>3. Producer'
  BY <1>1, ProducerKept
<1>4. ~lost' => EventInv'
  BY <1>1, EventKept
<1>5. ASSUME InStep' PROVE Spoken'
  <2>1. CASE StartTransfer
    <3>1. InStep
      BY <1>5, <2>1 DEF InStep, StartTransfer, Begin
    <3> QED BY <1>1, <1>2, <1>5, <2>1, <3>1, StartSays
  <2>2. CASE QueueCommand
    <3>1. InStep
      BY <1>5, <2>2 DEF InStep, QueueCommand, Begin
    <3> QED BY <1>1, <1>2, <1>5, <2>2, <3>1, CommandSays
  <2>3. CASE QueueTrb
    <3>1. InStep
      BY <1>5, <2>3 DEF InStep, QueueTrb
    <3> QED BY <1>1, <1>2, <2>3, <3>1, QueueSays
  <2>4. CASE GivebackFirstTrb
    <3>1. InStep
      BY <1>5, <2>4 DEF InStep, GivebackFirstTrb
    <3> QED BY <1>1, <1>2, <2>4, <3>1, GivebackSays
  <2>5. CASE SkipEvent
    <3>1. InStep /\ ~lost
      BY <1>5, <2>5 DEF InStep, SkipEvent
    <3> QED BY <1>1, <1>2, <2>5, <3>1, SkipSays
  <2>6. CASE TakeEvent
    <3>1. InStep /\ ~lost
      BY <1>5, <2>6 DEF InStep, TakeEvent
    <3> QED BY <1>1, <1>2, <2>6, <3>1, TakeSays
  <2>7. CASE UseNull
    BY <1>1, <1>5, <2>7 DEF InStep, UseNull, TypeInv
  <2>8. CASE Controller
    <3>1. PICK e \in Rings : Fetch(e) \/ GoIdle(e)
      BY <2>8 DEF Controller
    <3>2. UNCHANGED driver
      BY <3>1 DEF Fetch, GoIdle
    <3>3. InStep
      BY <1>5, <3>2 DEF InStep, driver
    <3> QED BY <1>1, <1>2, <3>1, <3>3, ControllerKept, GoIdleSays
  <2>9. CASE PortEvent
    <3>1. InStep
      BY <1>5, <2>9 DEF InStep, PortEvent, driver
    <3> QED BY <1>1, <1>2, <2>9, <3>1, PortSays
  <2>10. CASE UNCHANGED vars
    <3>1. InStep /\ UNCHANGED <<hc, ring, tds, pc, k, answer, event, evEnq, evPcs, evDeq, evCycle>>
      BY <1>5, <2>10 DEF InStep, vars, driver
    <3>2. Td' = Td /\ Ep' = Ep
      BY <3>1 DEF Td, Ep
    <3>3. HcInv'
      BY <1>1, <3>1, <3>2 DEF Spoken, HcInv, Left, QueuedNow, DoneNow
    <3>4. Onwards
      BY <3>1 DEF Onwards, Finished, WillBeFinished
    <3>5. \A p \in 0 .. EventTrbs - 1 : InFlight(p)' => InFlight(p) /\ event'[p] = event[p]
      BY <3>1 DEF InFlight
    <3> QED BY <1>1, <1>2, <3>1, <3>2, <3>3, <3>4, <3>5, QuietSays DEF Spoken
  <2> QED BY <2>1, <2>2, <2>3, <2>4, <2>5, <2>6, <2>7, <2>8, <2>9, <2>10 DEF Next, Driver, Poll, Finish
<1> QED BY <1>2, <1>3, <1>4, <1>5 DEF Inv, Producer, Spoken

(* The TRB executed next follows the one before: nothing of an earlier      *)
(* transfer is left out, as nothing of one is owed.                         *)
LEMMA NextFollows ==
    ASSUME XhciAssumption, Roomy, TypeInv, Producer, Spoken, NEW e \in Rings, Owns(e), hc[e].deq # Link, Pass(e)
    PROVE  Follows(e, hc'[e], hc[e]) /\ (hc'[e].td = Td => pc \notin {"queue", "ring"})
<1>1. /\ Td > 0 /\ e = Ep /\ pc \notin {"queue", "ring"}
      /\ hc'[e].td = Td /\ hc'[e].k = DoneNow + 1
  BY NextTrb DEF Spoken, Pass
<1>2. Td \in Nat /\ ~hc[e].halted /\ hc[e].td \in 0 .. Td /\ (hc[e].td # 0 => tds[hc[e].td].ep = e)
  BY Latest DEF Spoken, HcInv, Owns
<1>3. CASE hc[e].td = Td
  BY <1>1, <1>3 DEF Follows, DoneNow
<1>4. CASE hc[e].td # Td
  <2>1. hc'[e].k = 1
    BY <1>1, <1>4 DEF DoneNow
  <2>2. \A u \in Earlier(e, Td) : hc[e].td > u \/ (hc[e].td = u /\ hc[e].k = tds[u].n)
    BY <1>2 DEF Spoken, SettledInv, Owed, Finished, Pending, Earlier
  <2>3. hc[e].td = 0 => Earlier(e, Td) = {}
    BY <1>2, <2>2 DEF Earlier
  <2>4. ASSUME hc[e].td # 0
        PROVE  hc[e].k = tds[hc[e].td].n /\ Earlier(e, Td) = Earlier(e, hc[e].td) \cup {hc[e].td}
    <3>1. hc[e].td \in Earlier(e, Td)
      BY <1>2, <1>4, <2>4 DEF Earlier
    <3>2. hc[e].k = tds[hc[e].td].n
      BY <1>2, <2>2, <3>1
    <3>3. ASSUME NEW u \in Earlier(e, Td) PROVE u \in Earlier(e, hc[e].td) \cup {hc[e].td}
      BY <1>2, <2>2 DEF Earlier
    <3>4. Earlier(e, hc[e].td) \subseteq Earlier(e, Td)
      BY <1>2 DEF Earlier
    <3> QED BY <3>1, <3>2, <3>3, <3>4
  <2> QED BY <1>1, <2>1, <2>3, <2>4 DEF Follows
<1> QED BY <1>1, <1>3, <1>4

LEMMA NextRuns ==
    ASSUME XhciAssumption, Roomy, Inv, [Next]_vars, NEW e \in Rings,
           <<hc'[e].td, hc'[e].k>> # <<hc[e].td, hc[e].k>>, InStep
    PROVE  Follows(e, hc'[e], hc[e]) /\ (hc'[e].td = Td => pc \notin {"queue", "ring"})
<1>1. TypeInv /\ Producer /\ Spoken
  BY DEF Inv, Producer, Spoken
<1>2. CASE UNCHANGED hc
  BY <1>2
<1>3. CASE GivebackFirstTrb \/ QueueCommand
  <2>1. Ep \in Rings \/ ~GivebackFirstTrb
    BY <1>1, Latest DEF GivebackFirstTrb, TypeInv
  <2>2. "cmd" \in Rings
    BY DEF Rings
  <2> QED BY <1>1, <1>3, <2>1, <2>2, Rung DEF GivebackFirstTrb, QueueCommand
<1>4. ASSUME NEW f \in Rings, GoIdle(f) PROVE FALSE
  BY <1>1, <1>4, Rung DEF GoIdle
<1>5. ASSUME NEW f \in Rings, Fetch(f)
      PROVE  e = f /\ Owns(e) /\ hc[e].deq # Link /\ Pass(e)
  <2>1. hc[f] \in HcType /\ hc \in [Rings -> HcType] /\ Owns(f)
    BY <1>1, <1>5 DEF TypeInv, Fetch
  <2>2. CASE FollowLink(f)
    <3>1. hc' = [hc EXCEPT ![f] = [hc[f] EXCEPT !.deq = 0, !.cycle = 1 - hc[f].cycle]]
      BY <2>2 DEF FollowLink
    <3>2. hc'[e].td = hc[e].td /\ hc'[e].k = hc[e].k
      BY <2>1, <3>1 DEF HcType
    <3> QED BY <3>2
  <2>3. CASE Stall(f)
    <3>1. hc' = [hc EXCEPT ![f] = [hc[f] EXCEPT !.halted = TRUE]]
      BY <2>3 DEF Stall
    <3>2. hc'[e].td = hc[e].td /\ hc'[e].k = hc[e].k
      BY <2>1, <3>1 DEF HcType
    <3> QED BY <3>2
  <2>4. ASSUME NEW s \in BOOLEAN, hc[f].deq # Link,
               hc' = [hc EXCEPT ![f] = Passed(f)] \/ hc' = [hc EXCEPT ![f] = [Passed(f) EXCEPT !.short = s]]
        PROVE  e = f /\ Owns(e) /\ hc[e].deq # Link /\ Pass(e)
    <3> DEFINE new == [hc[f] EXCEPT !.deq = hc[f].deq + 1, !.td = Trb(f).td, !.k = Trb(f).k]
    <3>1. hc'[f] = new \/ hc'[f] = [new EXCEPT !.short = s]
      BY <2>1, <2>4 DEF Passed
    <3>2. \A g \in Rings \ {f} : hc'[g] = hc[g]
      BY <2>1, <2>4
    <3>3. Pass(f)
      BY <2>1, <3>1, <3>2 DEF Pass, HcType
    <3>4. e = f
      BY <3>2
    <3> QED BY <2>1, <2>4, <3>3, <3>4
  <2>5. CASE Execute(f)
    BY <2>4, <2>5 DEF Execute
  <2>6. CASE ShortPacket(f)
    BY <2>4, <2>6 DEF ShortPacket
  <2>7. CASE PassOver(f)
    BY <2>4, <2>7 DEF PassOver
  <2> QED BY <1>5, <2>2, <2>3, <2>5, <2>6, <2>7 DEF Fetch
<1>6. CASE Controller
  BY <1>1, <1>4, <1>5, <1>6, NextFollows DEF Controller
<1> QED
  BY <1>2, <1>3, <1>6
  DEF Next, Driver, StartTransfer, QueueTrb, SkipEvent, TakeEvent, UseNull, PortEvent, Poll, Finish, vars

(* The types hold: the enqueue and dequeue places stay on their rings, a    *)
(* wait counts no further than its limit.                                   *)
THEOREM TypeCorrect == ASSUME XhciAssumption, Roomy PROVE Spec => []TypeInv
<1>1. Init => Inv
  BY InitInv
<1>2. Inv /\ [Next]_vars => Inv'
  BY NextInv
<1>3. Inv => TypeInv
  BY DEF Inv
<1> QED BY <1>1, <1>2, <1>3, PTL DEF Spec

(* A call that returns an event returns one of its own transfer, and        *)
(* "success" only when the controller has executed all its TRBs: queue_trb, *)
(* giveback_first_trb, wait_for_event, as long as no wait gave up and no    *)
(* call began with an event outstanding.                                    *)
THEOREM AnswersAreOwn == ASSUME XhciAssumption, Roomy PROVE Spec => []AnswerIsOwn
<1>1. Init => Inv
  BY InitInv
<1>2. Inv /\ [Next]_vars => Inv'
  BY NextInv
<1>3. Inv => AnswerIsOwn
  BY DEF Inv, AnswerIsOwn
<1> QED BY <1>1, <1>2, <1>3, PTL DEF Spec

(* The controller executes the TRBs as they were queued, each once and none *)
(* before giveback_first_trb shows the first.                               *)
THEOREM TrbsRunAsQueued == ASSUME XhciAssumption, Roomy PROVE Spec => RunsAsQueued
<1>1. Init => Inv
  BY InitInv
<1>2. Inv /\ [Next]_vars => Inv'
  BY NextInv
<1>3. Inv /\ [Next]_vars =>
        [\A e \in Rings : <<hc'[e].td, hc'[e].k>> # <<hc[e].td, hc[e].k>> /\ InStep =>
           /\ Follows(e, hc'[e], hc[e])
           /\ hc'[e].td = Td => pc \notin {"queue", "ring"}]_vars
  BY NextRuns
<1> QED BY <1>1, <1>2, <1>3, PTL DEF Spec, RunsAsQueued
=============================================================================
