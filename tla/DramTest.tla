------------------------------ MODULE DramTest ------------------------------
(***************************************************************************)
(* dram_test of draminit/dram_test.c: what decides, on every board, whether *)
(* DRAM may be used.  Each word of a range is written with the complement   *)
(* of its address, from the last word down, and the range is read back the  *)
(* same way; then once more with the address itself.  The memory may have a *)
(* bit that is stuck, or an address line that is.                           *)
(***************************************************************************)
EXTENDS Integers

CONSTANTS
    AddrBits,       \* bits of an address, and of a word: 32
    Begin, End      \* DRAM_TEST_BEGIN and DRAM_TEST_END

WordSize == 2       \* 4 in the code
Bits == 0 .. AddrBits - 1
Addresses == {a \in 0 .. 2 ^ AddrBits - 1 : a % WordSize = 0}
Tested == {a \in Addresses : a \in Begin .. End - 1}

(* Arithmetic: powers of two double, and an address has the bits above one  *)
(* of its bits, that bit and those below it.                                *)
PowersOfTwo ==
    /\ 2 ^ AddrBits \in Nat
    /\ \A k \in Bits :
        /\ 2 ^ k \in Nat \ {0} /\ 2 ^ (AddrBits - 1 - k) \in Nat \ {0}
        /\ 2 ^ AddrBits = 2 * 2 ^ (AddrBits - 1 - k) * 2 ^ k
        /\ k # 0 => 2 ^ k = 2 * 2 ^ (k - 1)

DramTestAssumption ==
    /\ AddrBits \in Nat \ {0, 1} /\ PowersOfTwo
    /\ Begin \in Addresses /\ End \in Addresses /\ Begin < End

VARIABLES
    fault,      \* of the memory, fixed
    memory,
    pc,         \* "write", "verify", "out"
    flip, addr,
    bad

vars == <<fault, memory, pc, flip, addr, bad>>

Words == [Bits -> BOOLEAN]
BitsOf(a) == [k \in Bits |-> (a \div 2 ^ k) % 2 = 1]
Complement(w) == [k \in Bits |-> ~w[k]]

StuckBits == [kind : {"bit"}, cell : Addresses, bit : Bits, is : BOOLEAN]
StuckLines == [kind : {"line"}, bit : Bits \ {0}, is : BOOLEAN]
Faultless == [kind |-> "none"]

(* The cell an address selects, and what a cell keeps of a word.            *)
Cell(a) ==
    IF fault.kind # "line" THEN a
    ELSE LET up == 2 ^ fault.bit IN
         CASE fault.is /\ ~BitsOf(a)[fault.bit] -> a + up
           [] ~fault.is /\ BitsOf(a)[fault.bit] -> a - up
           [] OTHER -> a
Kept(c, w) == IF fault.kind = "bit" /\ fault.cell = c THEN [w EXCEPT ![fault.bit] = fault.is] ELSE w

Last == End - WordSize

Init ==
    /\ fault \in StuckBits \cup StuckLines \cup {Faultless}
    /\ \E b \in BOOLEAN : memory = [c \in Addresses |-> Kept(c, [k \in Bits |-> b])]
    /\ pc = "write" /\ flip = 1 /\ addr = Last /\ bad = 0

Expect == IF flip % 2 = 1 THEN Complement(BitsOf(addr)) ELSE BitsOf(addr)

(* A pointer that goes below zero comes back from the top.                  *)
Down == (addr - WordSize) % 2 ^ AddrBits
InRange == addr >= Begin /\ addr < End

Write ==
    /\ pc = "write" /\ InRange
    /\ memory' = [memory EXCEPT ![Cell(addr)] = Kept(Cell(addr), Expect)]
    /\ addr' = Down
    /\ UNCHANGED <<fault, pc, flip, bad>>

Written ==
    /\ pc = "write" /\ ~InRange
    /\ pc' = "verify" /\ addr' = Last
    /\ UNCHANGED <<fault, memory, flip, bad>>

Verify ==
    /\ pc = "verify" /\ InRange
    /\ IF memory[Cell(addr)] # Expect
       THEN bad' = 1 /\ pc' = "out" /\ UNCHANGED addr
       ELSE addr' = Down /\ UNCHANGED <<pc, bad>>
    /\ UNCHANGED <<fault, memory, flip>>

OneFlip == 1
Flips == 2

Verified ==
    /\ pc = "verify" /\ ~InRange
    /\ flip' = flip + 1
    /\ IF flip < Flips THEN pc' = "write" /\ addr' = Last ELSE pc' = "out" /\ UNCHANGED addr
    /\ UNCHANGED <<fault, memory, bad>>

Next == Write \/ Written \/ Verify \/ Verified

Spec == Init /\ [][Next]_vars /\ WF_vars(Next)

-----------------------------------------------------------------------------
(* Properties                                                               *)

TypeOK ==
    /\ fault \in StuckBits \cup StuckLines \cup {Faultless}
    /\ memory \in [Addresses -> Words] /\ pc \in {"write", "verify", "out"}
    /\ flip \in 1 .. Flips + 1 /\ addr \in Addresses /\ bad \in {0, 1}

(* The test fails exactly on a memory that does not keep what is written to *)
(* the tested words: a bit of one of them is stuck, or two of them are one  *)
(* cell.                                                                    *)
Faulty ==
    \/ \E a \in Tested : fault.kind = "bit" /\ fault.cell = a
    \/ \E a, c \in Tested : a # c /\ Cell(a) = Cell(c)

FaultsFound == pc = "out" => (bad = 1 <=> Faulty)

Settled == pc = "out"
=============================================================================
