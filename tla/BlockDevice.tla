---------------------------- MODULE BlockDevice ----------------------------
(***************************************************************************)
(* What the loaders of xboot.c and fat_boot.c take a boot medium for: it is *)
(* asked for one block after the other, and either says that it failed or   *)
(* leaves the block that was asked for in memory, where it then stays.      *)
(***************************************************************************)
CONSTANTS
    Blocks, Nothing     \* Nothing: memory that holds no block, or a damaged one

VARIABLES
    phase,      \* "idle", "reading", "good" or "failed": the last read's end
    asked,      \* the block it was or is to read
    found,      \* the one in memory
    sure        \* nothing is left over that could disturb the read, the driver
                \* knows the medium, and the medium sent the block as a whole

vars == <<phase, asked, found, sure>>

Init ==
    phase = "idle" /\ asked \in Blocks \cup {Nothing} /\ found = Nothing /\ sure = TRUE

(* The block the driver is working on is not there yet; memory may hold     *)
(* anything.                                                                *)
Unsettled == found' \in Blocks \cup {Nothing} /\ sure' \in BOOLEAN

Start(b) ==
    /\ phase \in {"idle", "good", "failed"} /\ phase' = "reading"
    /\ asked' = b
    /\ Unsettled

Work == phase = "reading" /\ UNCHANGED <<phase, asked>> /\ Unsettled

Succeed ==
    /\ phase = "reading" /\ phase' = "good"
    /\ UNCHANGED asked /\ Unsettled
    /\ sure' => found' = asked

(* Also when there is no medium.                                            *)
Fail ==
    /\ phase \in {"idle", "reading"} /\ phase' = "failed"
    /\ UNCHANGED asked /\ Unsettled

(* After a failure, or a read that is not sure, memory may change.          *)
Disturb ==
    /\ phase = "failed" \/ (phase = "good" /\ ~sure)
    /\ UNCHANGED <<phase, asked, sure>> /\ found' \in Blocks \cup {Nothing}

Next == Work \/ Succeed \/ Fail \/ Disturb \/ \E b \in Blocks : Start(b)

Spec == Init /\ [][Next]_vars
=============================================================================
