------------------------------ MODULE XhciRing ------------------------------
(***************************************************************************)
(* The rings of usb/xhci_usb.c: ctrl_tx, bulk_tx and queue_command put TRBs *)
(* on a ring, ring a doorbell and wait on the event ring that all of them   *)
(* share.  The host controller runs beside them: it takes the TRBs whose    *)
(* cycle bit is its own and posts events; ports post events of their own.   *)
(* wait_for_event compares nothing but the type of an event, and counts     *)
(* nothing but events of another type.                                      *)
(*                                                                          *)
(* The controller's actions are those of the xHCI standard the driver is    *)
(* written for.  Each TRB queued is one step of the driver.                 *)
(***************************************************************************)
EXTENDS Integers, Sequences

CONSTANTS
    Bulk,       \* the bulk endpoints
    Trbs,       \* TRBS_PER_SEGMENT, the link TRB included
    EventTrbs,  \* ERST_NUM_SEGS * TRBS_PER_SEGMENT
    MaxSkips,   \* events of another type a wait puts up with (15)
    MaxTds,     \* transfers and commands of a behaviour
    MaxChunks,  \* 64 KiB chunks of a bulk transfer
    MaxStray,   \* events of the ports
    MaxStalls   \* stalls of the device

ASSUME XhciAssumption ==
    /\ {"cmd", "ep0"} \cap Bulk = {}
    /\ Trbs \in Nat /\ Trbs >= 3 /\ EventTrbs \in Nat /\ EventTrbs >= 3
    /\ {MaxSkips, MaxChunks} \subseteq Nat \ {0}
    /\ {MaxTds, MaxStray, MaxStalls} \subseteq Nat

Rings == {"cmd", "ep0"} \cup Bulk
Link == Trbs - 1

(* The TRBs of a transfer: a command has one; a control transfer setup,     *)
(* data if any, and status; a bulk transfer one for each 64 KiB chunk.      *)
Counts(e) == IF e = "cmd" THEN {1} ELSE IF e = "ep0" THEN {2, 3} ELSE 1 .. MaxChunks

VARIABLES
    ring,       \* the producer's side of each ring: trb, enqueue, cycle_state
    hc,         \* the controller's: deq, cycle, doorbell seen, halted, ...
    event,      \* the event ring
    evEnq, evPcs,       \* the controller's place in it and its cycle
    evDeq, evCycle,     \* event_ring->dequeue, cycle_state; erst_dequeue too
    pc,         \* "idle", "queue", "ring", "wait", "null"
    start, startCycle,  \* start_trb, start_cycle
    k,          \* TRBs queued of the transfer
    skips,      \* `timeout` of wait_for_event
    second,     \* ctrl_tx is in its second wait
    answer,     \* the last event the call took: whose, and completion code
    tds,        \* history: the transfers so far
    clean,      \* history: every call began with no event outstanding
    lost,       \* history: a wait gave up
    strays, stalls      \* counters of the environment

driver == <<ring, evDeq, evCycle, pc, start, startCycle, k, skips, second, answer,
            tds, clean, lost>>
vars == <<driver, hc, event, evEnq, evPcs, strays, stalls>>

Td == Len(tds)
Ep == tds[Td].ep
NoAnswer == [td |-> 0, code |-> "none"]

(* Of the TRB types and completion codes of xhci_usb.h those that occur     *)
(* here: the two events waited for and the ports', and how a transfer ends. *)
EventTypes == {"transfer", "completion", "port"}
CompletionCodes == {"success", "short", "stall"}

Init ==
    /\ ring = [e \in Rings |->
                 [trb |-> [p \in 0 .. Link |-> [cyc |-> 0, td |-> 0, k |-> 0]],
                  enq |-> 0, cycle |-> 1]]
    /\ hc = [e \in Rings |-> [deq |-> 0, cycle |-> 1, bell |-> FALSE, halted |-> FALSE,
                              short |-> FALSE, td |-> 0, k |-> 0]]
    /\ event = [p \in 0 .. EventTrbs - 1 |-> [cyc |-> 0, type |-> "none", td |-> 0, code |-> "none"]]
    /\ evEnq = 0 /\ evPcs = 1 /\ evDeq = 0 /\ evCycle = 1
    /\ pc = "idle" /\ start = 0 /\ startCycle = 1 /\ k = 0 /\ skips = 0
    /\ second = FALSE /\ answer = NoAnswer /\ tds = <<>>
    /\ clean = TRUE /\ lost = FALSE
    /\ strays = 0 /\ stalls = 0

-----------------------------------------------------------------------------
(* The producer: prepare_ring, inc_enq, queue_trb                           *)

(* The link TRB is given to the controller and the lap begins.              *)
Wrapped(r) == [r EXCEPT !.trb[Link].cyc = 1 - @, !.cycle = 1 - @, !.enq = 0]
Prepared(r) == IF r.enq = Link THEN Wrapped(r) ELSE r

(* Past a TRB; at the link TRB the ring waits for prepare_ring unless more  *)
(* TRBs are coming.                                                         *)
Advanced(r, more) ==
    IF r.enq + 1 = Link /\ more THEN Wrapped([r EXCEPT !.enq = Link])
    ELSE [r EXCEPT !.enq = @ + 1]

Queued(r, cyc, more) ==
    Advanced([r EXCEPT !.trb[r.enq] = [cyc |-> cyc, td |-> Td', k |-> k']], more)

(* What the controller still has to say of transfer t.                      *)
Pending(t) == \E p \in DOMAIN event : event[p].td = t /\ event[p].type # "none"
                  /\ \/ evDeq <= p /\ p < evEnq
                     \/ evEnq < evDeq /\ (p < evEnq \/ p >= evDeq)
Finished(t) == LET h == hc[tds[t].ep] IN h.td > t \/ (h.td = t /\ h.k = tds[t].n)
Owed(t) == Pending(t) \/ (~Finished(t) /\ ~hc[tds[t].ep].halted)

Begin(e, n) ==
    /\ pc = "idle" /\ Td < MaxTds
    /\ tds' = Append(tds, [ep |-> e, n |-> n])
    /\ clean' = (clean /\ \A t \in DOMAIN tds : ~Owed(t))
    /\ answer' = NoAnswer /\ second' = FALSE /\ skips' = 0

(* ctrl_tx, bulk_tx: start of a transfer of n TRBs.                         *)
StartTransfer ==
    /\ \E e \in Rings \ {"cmd"} : \E n \in Counts(e) :
         /\ Begin(e, n)
         /\ ring' = [ring EXCEPT ![e] = Prepared(@)]
         /\ start' = ring'[e].enq /\ startCycle' = ring'[e].cycle
    /\ k' = 0 /\ pc' = "queue"
    /\ UNCHANGED <<hc, event, evEnq, evPcs, evDeq, evCycle, lost, strays, stalls>>

(* Mutant: the first TRB is valid as soon as it is queued.                  *)
FirstCycleShown(r) == r.cycle

(* "Don't change the cycle bit of the first TRB until later"                *)
FirstCycle(r) == 1 - startCycle

QueueTrb ==
    /\ pc = "queue"
    /\ k' = k + 1
    /\ UNCHANGED tds
    /\ ring' = [ring EXCEPT ![Ep] =
                  Queued(@, IF k = 0 THEN FirstCycle(@) ELSE @.cycle, k' < tds[Td].n)]
    /\ pc' = IF k' < tds[Td].n THEN "queue" ELSE "ring"
    /\ UNCHANGED <<hc, event, evEnq, evPcs, evDeq, evCycle, start, startCycle, skips,
                   second, answer, clean, lost, strays, stalls>>

(* giveback_first_trb: "Pass all the TRBs to the hardware at once"          *)
GivebackFirstTrb ==
    /\ pc = "ring"
    /\ ring' = [ring EXCEPT ![Ep].trb[start].cyc = startCycle]
    /\ hc' = [hc EXCEPT ![Ep].bell = TRUE]
    /\ pc' = "wait"
    /\ UNCHANGED <<event, evEnq, evPcs, evDeq, evCycle, start, startCycle, k, skips, second,
                   answer, tds, clean, lost, strays, stalls>>

(* queue_command: one TRB, valid at once, and doorbell 0.                   *)
QueueCommand ==
    /\ Begin("cmd", 1)
    /\ k' = 1
    /\ LET r == Prepared(ring["cmd"])
       IN  ring' = [ring EXCEPT !["cmd"] = Queued(r, r.cycle, FALSE)]
    /\ hc' = [hc EXCEPT !["cmd"].bell = TRUE]
    /\ pc' = "wait"
    /\ UNCHANGED <<event, evEnq, evPcs, evDeq, evCycle, start, startCycle, lost, strays, stalls>>

-----------------------------------------------------------------------------
(* wait_for_event, acknowledge_event                                        *)

Expected == IF Ep = "cmd" THEN "completion" ELSE "transfer"
Front == event[evDeq]
Posted == Front.cyc = evCycle

(* Mutant: the consumer's cycle is not toggled at the end of the ring.      *)
AcknowledgeSameCycle == evDeq' = (evDeq + 1) % EventTrbs /\ UNCHANGED evCycle

Acknowledge ==
    /\ evDeq' = (evDeq + 1) % EventTrbs
    /\ evCycle' = IF evDeq + 1 = EventTrbs THEN 1 - evCycle ELSE evCycle

(* No event: "continue", without a count.                                   *)
Poll == pc = "wait" /\ ~Posted /\ UNCHANGED vars

(* An event of another type is dropped and counted; at the limit the wait   *)
(* returns NULL.  bulk_tx leaves its TRBs on the ring ("aborting", but      *)
(* abort_td is disabled); the others use the NULL as an event.              *)
SkipEvent ==
    /\ pc = "wait" /\ Posted /\ Front.type # Expected
    /\ Acknowledge
    /\ skips' = skips + 1
    /\ lost' = (lost \/ skips' = MaxSkips)
    /\ pc' = IF skips' < MaxSkips THEN "wait" ELSE IF Ep \in Bulk THEN "idle" ELSE "null"
    /\ UNCHANGED <<ring, hc, event, evEnq, evPcs, start, startCycle, k, second, answer, tds,
                   clean, strays, stalls>>

(* ctrl_tx waits once more after a short data stage.                        *)
Return(code) ==
    /\ skips' = 0
    /\ second' = (Ep = "ep0" /\ code = "short" /\ ~second)
    /\ pc' = IF second' THEN "wait" ELSE "idle"

(* Mutant: any event ends the wait.                                         *)
TakeAnyEvent ==
    /\ pc = "wait" /\ Posted
    /\ Acknowledge
    /\ answer' = [td |-> Front.td, code |-> Front.code]
    /\ Return(Front.code)
    /\ UNCHANGED <<ring, hc, event, evEnq, evPcs, start, startCycle, k, tds, clean, lost,
                   strays, stalls>>

TakeEvent ==
    /\ pc = "wait" /\ Posted /\ Front.type = Expected
    /\ Acknowledge
    /\ answer' = [td |-> Front.td, code |-> Front.code]
    /\ Return(Front.code)
    /\ UNCHANGED <<ring, hc, event, evEnq, evPcs, start, startCycle, k, tds, clean, lost,
                   strays, stalls>>

(* What is read through the NULL may be any completion code; an event that  *)
(* may not have been posted is acknowledged.                                *)
UseNull ==
    /\ pc = "null"
    /\ Acknowledge
    /\ \E code \in {"success", "short"} : Return(code)
    /\ UNCHANGED <<ring, hc, event, evEnq, evPcs, start, startCycle, k, answer, tds, clean, lost,
                   strays, stalls>>

-----------------------------------------------------------------------------
(* The controller                                                           *)

Post(type, td, code) ==
    /\ (evEnq + 1) % EventTrbs # evDeq          \* erst_dequeue: room for one
    /\ event' = [event EXCEPT ![evEnq] = [cyc |-> evPcs, type |-> type, td |-> td, code |-> code]]
    /\ evEnq' = (evEnq + 1) % EventTrbs
    /\ evPcs' = IF evEnq + 1 = EventTrbs THEN 1 - evPcs ELSE evPcs
Silent == UNCHANGED <<event, evEnq, evPcs>>

Trb(e) == ring[e].trb[hc[e].deq]
Owns(e) == hc[e].bell /\ ~hc[e].halted /\ Trb(e).cyc = hc[e].cycle
LastTrb(e) == Trb(e).k = tds[Trb(e).td].n
Passed(e) == [hc[e] EXCEPT !.deq = @ + 1, !.td = Trb(e).td, !.k = Trb(e).k]

(* TRBs with an interrupt on a short packet: the data stage, bulk TRBs.     *)
CanBeShort(e) == e \in Bulk \/ (e = "ep0" /\ Trb(e).k = 2 /\ ~LastTrb(e))

FollowLink(e) ==
    /\ hc[e].deq = Link
    /\ hc' = [hc EXCEPT ![e].deq = 0, ![e].cycle = 1 - @]
    /\ Silent /\ UNCHANGED stalls

Execute(e) ==
    /\ hc[e].deq # Link /\ ~hc[e].short
    /\ hc' = [hc EXCEPT ![e] = Passed(e)]
    /\ IF LastTrb(e)
       THEN Post(IF e = "cmd" THEN "completion" ELSE "transfer", Trb(e).td, "success")
       ELSE Silent
    /\ UNCHANGED stalls

(* A short packet ends a bulk transfer: the rest of its TRBs is passed over *)
(* and the last one has an event of its own.                                *)
ShortPacket(e) ==
    /\ hc[e].deq # Link /\ ~hc[e].short /\ CanBeShort(e)
    /\ hc' = [hc EXCEPT ![e] = [Passed(e) EXCEPT !.short = e \in Bulk /\ ~LastTrb(e)]]
    /\ Post("transfer", Trb(e).td, "short")
    /\ UNCHANGED stalls

PassOver(e) ==
    /\ hc[e].deq # Link /\ hc[e].short
    /\ hc' = [hc EXCEPT ![e] = [Passed(e) EXCEPT !.short = ~LastTrb(e)]]
    /\ IF LastTrb(e) THEN Post("transfer", Trb(e).td, "short") ELSE Silent
    /\ UNCHANGED stalls

(* A stall halts the endpoint until a Reset Endpoint command, which the     *)
(* driver never sends.  A stall of ep0 is not modelled.                     *)
Stall(e) ==
    /\ hc[e].deq # Link /\ ~hc[e].short /\ e \in Bulk /\ stalls < MaxStalls
    /\ hc' = [hc EXCEPT ![e].halted = TRUE]
    /\ stalls' = stalls + 1
    /\ Post("transfer", Trb(e).td, "stall")

Fetch(e) ==
    /\ Owns(e)
    /\ FollowLink(e) \/ Execute(e) \/ ShortPacket(e) \/ PassOver(e) \/ Stall(e)
    /\ UNCHANGED <<driver, strays>>

GoIdle(e) ==
    /\ hc[e].bell /\ ~hc[e].halted /\ Trb(e).cyc # hc[e].cycle
    /\ hc' = [hc EXCEPT ![e].bell = FALSE]
    /\ UNCHANGED <<driver, event, evEnq, evPcs, strays, stalls>>

PortEvent ==
    /\ strays < MaxStray
    /\ strays' = strays + 1
    /\ Post("port", 0, "success")
    /\ UNCHANGED <<driver, hc, stalls>>

(* All the transfers of the behaviour are done.                             *)
Finish == pc = "idle" /\ Td = MaxTds /\ UNCHANGED vars

Driver ==
    \/ StartTransfer \/ QueueTrb \/ GivebackFirstTrb \/ QueueCommand
    \/ SkipEvent \/ TakeEvent \/ UseNull
Controller == \E e \in Rings : Fetch(e) \/ GoIdle(e)
Next == Driver \/ Poll \/ Controller \/ PortEvent \/ Finish

(* The driver does not pause; the controller serves every ring.             *)
Spec == Init /\ [][Next]_vars /\ WF_vars(Driver) /\ \A e \in Rings : WF_vars(Fetch(e))

-----------------------------------------------------------------------------
(* Properties                                                               *)

TypeOK ==
    /\ \A e \in Rings :
         /\ ring[e].enq \in 0 .. Link /\ ring[e].cycle \in {0, 1}
         /\ \A p \in 0 .. Link : ring[e].trb[p].cyc \in {0, 1} /\ ring[e].trb[p].td \in 0 .. MaxTds
         /\ hc[e].deq \in 0 .. Link /\ hc[e].cycle \in {0, 1}
    /\ evEnq \in 0 .. EventTrbs - 1 /\ evDeq \in 0 .. EventTrbs - 1
    /\ evPcs \in {0, 1} /\ evCycle \in {0, 1}
    /\ pc \in {"idle", "queue", "ring", "wait", "null"}
    /\ k \in 0 .. 3 \cup 0 .. MaxChunks /\ skips \in 0 .. MaxSkips
    /\ answer.td \in 0 .. Td /\ answer.code \in CompletionCodes \cup {NoAnswer.code}
    /\ \A p \in DOMAIN event : event[p].type \in EventTypes \cup {"none"}

(* The TRBs of a ring are executed as they were queued, each once and none  *)
(* before giveback_first_trb, over any number of laps of the ring.  This,   *)
(* and what follows, as long as no call began with an event outstanding     *)
(* that an earlier one should have waited for, and no wait has given up.    *)
InStep == clean /\ ~lost

Earlier(e, t) == {u \in 1 .. t - 1 : tds[u].ep = e}
Follows(e, new, old) ==
    \/ new.td = old.td /\ new.k = old.k + 1
    \/ /\ new.k = 1
       /\ IF old.td = 0 THEN Earlier(e, new.td) = {}
          ELSE old.k = tds[old.td].n /\ Earlier(e, new.td) = Earlier(e, old.td) \cup {old.td}
RunsAsQueued ==
    [][\A e \in Rings : <<hc'[e].td, hc'[e].k>> # <<hc[e].td, hc[e].k>> /\ InStep =>
         /\ Follows(e, hc'[e], hc[e])
         /\ hc'[e].td = Td => pc \notin {"queue", "ring"}]_vars

(* A call returns with events of its own transfer, and with "success" only  *)
(* when the controller is done with all its TRBs.                           *)
AnswerIsOwn ==
    InStep /\ answer # NoAnswer =>
        /\ answer.td = Td
        /\ answer.code = "success" => Finished(Td)

(* A wait ends, with an event or after too many others, unless the endpoint *)
(* has stalled.                                                             *)
Returns == pc = "wait" ~> (pc # "wait" \/ ~InStep \/ hc[Ep].halted)

(* A wait ends: "wait_for_event timeout".                                   *)
WaitEnds == pc = "wait" ~> pc # "wait"
=============================================================================
