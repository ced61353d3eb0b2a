------------------------------ MODULE CpuWake ------------------------------
(***************************************************************************)
(* How one core starts the others, with words of memory and nothing else    *)
(* between them (boot_next_in_A and go_a32_to_a64 of xboot.c, arch/, and    *)
(* warmboot/):                                                              *)
(*   q628   B runs xboot; A waits in its boot ROM at A_START_POS_B_VIEW.    *)
(*          B then waits at B_START_POS for what A's U-Boot wants of it.    *)
(*   i143   the same, but B is several RISC-V harts, which leave together   *)
(*          through one mailbox; or no A is started at all.                 *)
(*   q645, sp7350                                                           *)
(*          four CA55: core 0 restarts itself in 64-bit mode, and its       *)
(*          64-bit code lets the others out of the boot ROM.                *)
(*   warm   the same after sleep, when saved registers are put back first.  *)
(*                                                                          *)
(* Of the boot ROM, which is not in this repository, it is assumed that a   *)
(* waiting A leaves at any address but CPU_WAIT_INIT_VAL, and a waiting     *)
(* CA55 at CPU_WAIT_A64_VAL only.  Two bounds on time are assumed, by name: *)
(* PastDelay and AllHartsHere; and one fact about saved registers, Saved.   *)
(***************************************************************************)
EXTENDS Integers

CONSTANTS
    Platforms,      \* a subset of AllPlatforms
    Harts,          \* RISC-V harts but hart 0
    Tables          \* what the FIP's table may be, a subset of AllTables

Cold == {"q645", "sp7350"}
AllPlatforms == {"q628", "i143", "warm"} \cup Cold
AllTables == {"whole", "no bl31", "bad name"}

CpuWakeAssumption ==
    Platforms \subseteq AllPlatforms /\ Tables \subseteq AllTables /\ Harts \subseteq Nat \ {0}

Boss == 0           \* the core that runs xboot
Smp == 1 .. 3       \* the other CA55
A == -1             \* the CA7
Cores == {A, Boss} \cup Smp \cup Harts

VARIABLES
    plat, table, both,  \* fixed: platform, FIP, whether A is to be started
    pc,         \* by core
    word,       \* A_START_POS "A", B_START_POS "B", BOOT_ANOTHER_POS "next", the mailbox "mail"
    pos,        \* CORE_CPU_START_POS, by core
    vector,     \* MAIN_CA55_S0x, by core: where a core restarts
    code,       \* programs that are in memory
    closed,     \* OP-TEE's memory is for the secure side only
    t1,         \* a hart's register in boot_other_hart
    i,          \* counts cores in wake_cpuN
    ran         \* by core, where it went, "none" before

fixed == <<plat, table, both>>
a64 == <<pos, vector, code, closed, i>>
vars == <<fixed, pc, word, a64, t1, ran>>

INITIAL == "CPU_WAIT_INIT_VAL"
A64 == "CPU_WAIT_A64_VAL"

(* The cores a platform has.                                                *)
Used == CASE plat = "q628" -> {A, Boss}
          [] plat = "i143" -> {A, Boss} \cup Harts
          [] OTHER -> {Boss} \cup Smp

(* A's boot ROM on I143 may not have written its word when B comes by.      *)
Init ==
    /\ plat \in Platforms /\ both \in BOOLEAN
    /\ plat \in {"q628", "warm"} => both
    /\ table \in Tables /\ (plat \notin Cold => table = "whole")
    /\ pc = [c \in Cores |-> CASE c = A -> "reset"
                               [] c \in Harts /\ plat = "i143" -> "start"
                               [] c \in Smp /\ plat \in Cold \cup {"warm"} -> "rom"
                               [] c = Boss -> IF plat = "i143" THEN "start" ELSE "xboot"
                               [] OTHER -> "off"]
    /\ word = [w \in {"A", "B", "next", "mail"} |-> IF w = "A" /\ plat = "q628" THEN INITIAL ELSE "junk"]
    /\ pos = [c \in {Boss} \cup Smp |-> INITIAL]
    /\ vector = [c \in {Boss} \cup Smp |-> "junk"]
    /\ code = IF plat = "warm" THEN {"bl31"} ELSE {"xboot"}
    /\ closed = FALSE /\ i = 1
    /\ t1 = [h \in Cores |-> "0"]
    /\ ran = [c \in Cores |-> "none"]

At(c, here) == c \in Used /\ pc[c] = here /\ UNCHANGED fixed
Goto(c, there) == pc' = [pc EXCEPT ![c] = there]
Run(c, address) == ran' = [ran EXCEPT ![c] = address]
Set(w, value) == word' = [word EXCEPT ![w] = value]

-----------------------------------------------------------------------------
(* RISC-V harts.                                                            *)

(* start, C_code_start: every hart empties the mailbox.                     *)
HartStart(h) ==
    /\ At(h, "start") /\ plat = "i143"
    /\ Set("mail", "0")
    /\ Goto(h, IF h = Boss THEN "xboot" ELSE "spin")
    /\ UNCHANGED <<a64, t1, ran>>

(* Bound on time: all harts come while hart 0 still loads the boot loader.  *)
AllHartsHere == plat = "i143" => \A h \in Harts : pc[h] # "start"

(* exit_bootROM: on I143 by way of the mailbox, elsewhere a jump.           *)
ExitBootROM(address) ==
    IF plat = "i143" THEN Set("mail", address) /\ Goto(Boss, "spin") /\ UNCHANGED ran
                     ELSE Goto(Boss, "run") /\ Run(Boss, address) /\ UNCHANGED word

(* boot_other_hart: the value is swapped out and put back for the next one. *)
TakeMail(h) ==
    /\ At(h, "spin") /\ word["mail"] # "0"
    /\ t1' = [t1 EXCEPT ![h] = word["mail"]]
    /\ Set("mail", "0") /\ Goto(h, "taken")
    /\ UNCHANGED <<a64, ran>>

PutMailBack(h) ==
    /\ At(h, "taken")
    /\ Set("mail", t1[h]) /\ Goto(h, "run") /\ Run(h, t1[h])
    /\ UNCHANGED <<a64, t1>>

-----------------------------------------------------------------------------
(* B starts A (xboot.c, boot_uboot and boot_next_in_A).                     *)

TargetOfB == "opensbi"
ForA == "uboot for A"

(* Each store is a step of its own: A runs meanwhile.                       *)
SetNext ==
    /\ At(Boss, "xboot") /\ plat \in {"q628", "i143"} /\ AllHartsHere
    /\ IF both THEN Set("next", ForA) /\ Goto(Boss, "next set") /\ UNCHANGED ran
               ELSE ExitBootROM(TargetOfB)
    /\ UNCHANGED <<a64, t1>>

NotWaitingForA == TRUE
WaitForA == plat = "i143" => word["A"] = INITIAL

WakeA ==
    /\ At(Boss, "next set") /\ WaitForA
    /\ Set("A", "boot_next_no_stack") /\ Goto(Boss, "woke A")
    /\ UNCHANGED <<a64, t1, ran>>

ResetB ==
    /\ At(Boss, "woke A")
    /\ Set("B", INITIAL) /\ Goto(Boss, "wait B")
    /\ UNCHANGED <<a64, t1, ran>>

FollowB ==
    /\ At(Boss, "wait B") /\ word["B"] # INITIAL
    /\ ExitBootROM(word["B"])
    /\ UNCHANGED <<a64, t1>>

(* A: its boot ROM; the start code, which raises the clocks and waits for   *)
(* 1 ms of the STC before it goes on; U-Boot, which hands B its address.    *)
RomOfA ==
    /\ At(A, "reset")
    /\ (IF plat = "i143" THEN Set("A", INITIAL) ELSE UNCHANGED word)
    /\ Goto(A, "rom") /\ UNCHANGED <<a64, t1, ran>>

RomLeft ==
    /\ At(A, "rom") /\ word["A"] # INITIAL
    /\ Goto(A, IF word["A"] = "boot_next_no_stack" THEN "abio" ELSE "run")
    /\ (IF word["A"] = "boot_next_no_stack" THEN UNCHANGED ran ELSE Run(A, word["A"]))
    /\ UNCHANGED <<word, a64, t1>>

(* Bound on time: B needs less than 1 ms from one store to the next.        *)
PastDelay == pc[Boss] # "woke A"

BootNextNoStack ==
    /\ At(A, "abio") /\ PastDelay
    /\ Goto(A, "run") /\ Run(A, word["next"])
    /\ UNCHANGED <<word, a64, t1>>

HandsOver ==
    /\ At(A, "run") /\ ran[A] = ForA /\ word["B"] # TargetOfB
    /\ Set("B", TargetOfB)
    /\ Goto(A, "done") /\ UNCHANGED <<a64, t1, ran>>

-----------------------------------------------------------------------------
(* Core 0 goes to 64 bits and lets the other CA55 follow.                   *)

(* load_tfa_optee: its result is not looked at.                             *)
LoadTfaOptee ==
    /\ At(Boss, "xboot") /\ plat \in Cold
    /\ code' = code \cup (IF table = "whole" THEN {"bl31"} ELSE {})
    /\ Goto(Boss, "close") /\ UNCHANGED <<word, pos, vector, closed, i, t1, ran>>

(* set_memory_secure, which does nothing on Q645, and the address for BL31. *)
CloseAndTell ==
    /\ At(Boss, "close")
    /\ closed' = (plat = "sp7350") /\ pos' = [pos EXCEPT ![Boss] = ForA]
    /\ Goto(Boss, "copy") /\ UNCHANGED <<word, vector, code, i, t1, ran>>

(* What was saved from the words of cores 2 and 3 is assumed not to be      *)
(* CPU_WAIT_A64_VAL, which wake_cpuN wrote there when the system started:   *)
(* U-Boot and Linux, which use the words too, have written others.          *)
Saved == "saved"

(* restore_save_data: the vectors of before the sleep, and addresses that   *)
(* cover the words of cores 2 and 3.                                        *)
Restore ==
    /\ At(Boss, "xboot") /\ plat = "warm"
    /\ vector' = [c \in DOMAIN vector |-> "old"]
    /\ pos' = [pos EXCEPT ![2] = Saved, ![3] = Saved]
    /\ closed' = TRUE
    /\ Goto(Boss, "copy") /\ UNCHANGED <<word, code, i, t1, ran>>

CopyA64 ==
    /\ At(Boss, "copy")
    /\ code' = code \cup {"a64"}
    /\ Goto(Boss, "vectors") /\ UNCHANGED <<word, pos, vector, closed, i, t1, ran>>

AllButLast == [c \in DOMAIN vector |-> IF c = 3 THEN vector[c] ELSE "a64"]
StartOfAll == [c \in DOMAIN vector |-> "a64"]

SetVectors ==
    /\ At(Boss, "vectors")
    /\ vector' = StartOfAll
    /\ Goto(Boss, "warm reset") /\ UNCHANGED <<word, pos, code, closed, i, t1, ran>>

(* The core restarts in 64-bit mode at its vector.                          *)
Restart(c) ==
    /\ At(c, "warm reset")
    /\ (IF vector[c] = "a64" /\ "a64" \in code
          THEN Goto(c, IF c # Boss THEN "bl31" ELSE IF plat \in Cold THEN "clear" ELSE "wake") /\ UNCHANGED ran
          ELSE Goto(c, "run") /\ Run(c, "junk"))
    /\ UNCHANGED <<word, a64, t1>>

(* _start_a64: core 0 clears xboot's own memory.                            *)
ClearXboot ==
    /\ At(Boss, "clear")
    /\ code' = code \ {"xboot"}
    /\ Goto(Boss, "wake") /\ UNCHANGED <<word, pos, vector, closed, i, t1, ran>>

(* wake_cpuN                                                                *)
WakeCpuN ==
    /\ At(Boss, "wake")
    /\ IF i \in Smp THEN pos' = [pos EXCEPT ![i] = A64] /\ i' = i + 1 /\ UNCHANGED pc
                    ELSE Goto(Boss, "bl31") /\ UNCHANGED <<pos, i>>
    /\ UNCHANGED <<word, vector, code, closed, t1, ran>>

(* Boot ROM of the other CA55.                                              *)
RomSmp(c) ==
    /\ At(c, "rom") /\ c \in Smp /\ pos[c] = A64
    /\ Goto(c, "warm reset") /\ UNCHANGED <<word, a64, t1, ran>>

(* boot_cpuN                                                                *)
BootCpuN(c) ==
    /\ At(c, "bl31")
    /\ Goto(c, "run") /\ Run(c, IF "bl31" \in code THEN "bl31" ELSE "junk")
    /\ UNCHANGED <<word, a64, t1>>

-----------------------------------------------------------------------------
StepOf(c) ==
    \/ HartStart(c) \/ TakeMail(c) \/ PutMailBack(c)
    \/ Restart(c) \/ RomSmp(c) \/ BootCpuN(c)

StepOfBoss ==
    \/ SetNext \/ WakeA \/ ResetB \/ FollowB
    \/ LoadTfaOptee \/ CloseAndTell \/ Restore \/ CopyA64 \/ SetVectors
    \/ ClearXboot \/ WakeCpuN

StepOfA == RomOfA \/ RomLeft \/ BootNextNoStack \/ HandsOver

Next == StepOfBoss \/ StepOfA \/ \E c \in Cores : StepOf(c)

(* Every core goes on executing; A's U-Boot is assumed to hand B over.      *)
Fairness == WF_vars(StepOfBoss) /\ WF_vars(StepOfA) /\ \A c \in Cores : WF_vars(StepOf(c))

Spec == Init /\ [][Next]_vars /\ Fairness

-----------------------------------------------------------------------------
(* Properties                                                               *)

Addresses == {"none", "junk", "bl31", Saved, "boot_next_no_stack", TargetOfB, ForA}

TypeOK ==
    /\ plat \in AllPlatforms /\ table \in AllTables /\ both \in BOOLEAN
    /\ \A w \in DOMAIN word : word[w] \in Addresses \cup {INITIAL, "0"}
    /\ \A c \in DOMAIN pos : pos[c] \in {INITIAL, A64, ForA, Saved}
    /\ \A c \in DOMAIN vector : vector[c] \in {"junk", "old", "a64"}
    /\ code \subseteq {"xboot", "a64", "bl31"} /\ closed \in BOOLEAN
    /\ i \in 1 .. 4
    /\ \A c \in Cores : ran[c] \in Addresses /\ t1[c] \in Addresses \cup {"0"}

(* Where each core is to go.                                                *)
Told(c) ==
    CASE plat \in Cold \cup {"warm"} -> "bl31"
      [] plat \in {"q628", "i143"} -> IF c = A THEN ForA ELSE TargetOfB

(* No core runs anywhere but where it was told to, whichever goes first:    *)
(* not at a word nobody has written, not in code that is not there yet.     *)
(* BL31 runs only with OP-TEE's memory closed, but on Q645, where nothing   *)
(* closes it.  With a bad FIP the code does run into BL31's empty place:    *)
(* load_tfa_optee's result is not used.                                     *)
StartsWhereTold ==
    \A c \in Used :
        ran[c] # "none" => \/ ran[c] = Told(c) /\ (ran[c] = "bl31" /\ plat # "q645" => closed)
                           \/ table # "whole"

(* All cores start; A only where there is one to start.                     *)
Settled == \A c \in Used : ran[c] # "none" \/ (c = A /\ ~both)

Settles == <>Settled
=============================================================================
