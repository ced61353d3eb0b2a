------------------------------ MODULE MonShell ------------------------------
(***************************************************************************)
(* The monitor shell (romshare/regRW.c), where xboot stays when nothing can *)
(* be booted.  A command is a letter and then one, two or three words that  *)
(* get_word_ex reads digit by digit, hexadecimal or decimal; "w" and "W"    *)
(* store to memory or a register what they were given.  The digits of a     *)
(* word are counted in eight bits, a backspace takes one off, and a         *)
(* character the UART received with an error is taken for an E.             *)
(***************************************************************************)
EXTENDS Integers, Sequences, SequencesExt

CONSTANTS
    HexBase, DecBase,   \* 16 and 10
    MaxDigits,          \* 8
    CountMod,           \* 256
    MaxTyped            \* bound on the digits of a line, leading zeros with them

(* Arithmetic: what a word of so many hexadecimal digits is less than.      *)
PowersOfBase ==
    /\ HexBase ^ 0 = 1
    /\ \A k \in 0 .. MaxDigits : HexBase ^ k \in Nat /\ HexBase ^ k <= HexBase ^ MaxDigits
    /\ \A k \in 0 .. MaxDigits - 1 : HexBase ^ (k + 1) = HexBase * HexBase ^ k

MonShellAssumption ==
    /\ HexBase \in Nat \ 0 .. 2 /\ DecBase \in 2 .. HexBase - 1 /\ PowersOfBase
    /\ MaxDigits \in Nat \ {0} /\ CountMod \in Nat /\ CountMod > MaxDigits + 1
    /\ MaxTyped \in Nat

VARIABLES
    pc,         \* "command", "word", "store", "quit"
    command, n, \* the command, and which of its words is read
    count, result, flag,    \* of get_word_ex
    line,       \* history: the number that the line typed so far is, after
                \* each of its digits
    same,       \* history: the words read so far are the lines typed
    under,      \* history: a backspace was typed when no digit was counted
    noise       \* history: a character was received with an error

vars == <<pc, command, n, count, result, flag, line, same, under, noise>>

(* What each command reads; "S", "K" and others read nothing.  K resets the *)
(* chip, and the shell is not there any more.                               *)
Words == [r |-> <<HexBase>>, w |-> <<HexBase, HexBase>>, l |-> <<DecBase>>,
          W |-> <<DecBase, DecBase, HexBase>>, d |-> <<HexBase, HexBase>>]
Stores == {"w", "W"}
Letters == DOMAIN Words \cup {"q", "K", "other"}

Init ==
    /\ pc = "command" /\ command = "other" /\ n = 0
    /\ count = 0 /\ result = 0 /\ flag = 0 /\ line = <<>>
    /\ same = TRUE /\ under = FALSE /\ noise = FALSE

Base == Words[command][n]

(* The number on the line, and the line with a digit more.                  *)
Typed == IF line = <<>> THEN 0 ELSE Last(line)
LineWith(b) == Append(line, Typed * Base + b)

(* get_word_ex begins with no digit.                                        *)
BeginWord == count' = 0 /\ result' = 0 /\ flag' = 0 /\ line' = <<>>

Command(c) ==
    /\ pc = "command" /\ c \in Letters /\ command' = c
    /\ same' = TRUE /\ under' = FALSE /\ noise' = FALSE
    /\ BeginWord
    /\ CASE c \in DOMAIN Words -> pc' = "word" /\ n' = 1
         [] c \in {"q", "K"} -> pc' = "quit" /\ n' = 0
         [] OTHER -> UNCHANGED pc /\ n' = 0

(* "?": the whole command is given up.                                      *)
GiveUp == pc' = "command" /\ BeginWord /\ UNCHANGED <<command, n, same, under>>

Width == HexBase ^ MaxDigits

OneMore == (count + 1) % CountMod > MaxDigits + 1
TooMany == (count + 1) % CountMod > MaxDigits

Digit(b, typed) ==
    IF count = 0 /\ b = 0
    THEN flag' = 1 /\ line' = LineWith(typed) /\ UNCHANGED <<pc, command, n, count, result, same, under>>
    ELSE IF b >= Base \/ TooMany THEN GiveUp
    ELSE /\ result' = (result * Base + b) % Width
         /\ count' = (count + 1) % CountMod
         /\ line' = LineWith(typed)
         /\ UNCHANGED <<pc, command, n, flag, same, under>>

TypeDigit(b) ==
    /\ pc = "word" /\ Len(line) < MaxTyped
    /\ Digit(b, b) /\ UNCHANGED noise

(* 'E' is a digit of a hexadecimal word.                                    *)
LetterE == HexBase - 2

ReceiveError(b) ==
    /\ pc = "word" /\ Len(line) < MaxTyped
    /\ noise' = TRUE
    /\ IF Base = HexBase THEN Digit(LetterE, b) ELSE GiveUp

Backspace ==
    /\ pc = "word"
    /\ count' = (count - 1) % CountMod
    /\ result' = result \div Base
    /\ line' = IF line = <<>> THEN line ELSE Front(line)
    /\ under' = (under \/ count = 0)
    /\ UNCHANGED <<pc, command, n, flag, same, noise>>

(* A blank or the end of the line: nothing if there is no word yet.         *)
EndWord ==
    /\ pc = "word" /\ (count # 0 \/ flag # 0)
    /\ same' = (same /\ result = Typed)
    /\ UNCHANGED <<command, under, noise>>
    /\ IF n < Len(Words[command])
       THEN n' = n + 1 /\ BeginWord /\ UNCHANGED pc
       ELSE /\ pc' = IF command \in Stores THEN "store" ELSE "command"
            /\ UNCHANGED <<n, count, result, flag, line>>

BadCharacter == pc = "word" /\ GiveUp /\ UNCHANGED noise

Store == pc = "store" /\ pc' = "command" /\ UNCHANGED <<command, n, count, result, flag, line, same, under, noise>>

Next ==
    \/ \E c \in Letters : Command(c)
    \/ \E b \in 0 .. HexBase - 1 : TypeDigit(b) \/ ReceiveError(b)
    \/ Backspace \/ EndWord \/ BadCharacter \/ Store

(* An operator types what and when they like.                               *)
Spec == Init /\ [][Next]_vars

-----------------------------------------------------------------------------
(* Properties                                                               *)

TypeOK ==
    /\ pc \in {"command", "word", "store", "quit"} /\ command \in Letters /\ n \in 0 .. 3
    /\ count \in 0 .. CountMod - 1 /\ result \in 0 .. Width - 1 /\ flag \in {0, 1}
    /\ line \in Seq(Nat) /\ Len(line) <= MaxTyped
    /\ same \in BOOLEAN /\ under \in BOOLEAN /\ noise \in BOOLEAN

(* What "w" and "W" store, and where, is what the operator typed on the     *)
(* line: no digit is lost to the width of the word, to its leading zeros or *)
(* to the backspaces, unless more were typed than there were digits counted *)
(* or a character came with an error.                                       *)
StoresAsTyped == pc = "store" => same \/ under \/ noise
=============================================================================
