---------------------------- MODULE MCBootFlow ----------------------------
(* Instances of BootFlow: every part, with and without signatures, and     *)
(* media whose images are good or have one flaw.                           *)
EXTENDS BootFlow

Board(p, s, z, c, a) == [plat |-> p, secure |-> s, zmem |-> z, cpu |-> c, ca7 |-> a]
MCBoards ==
    {Board("Q628", s, FALSE, c, FALSE) : s \in BOOLEAN, c \in Cores}
    \cup {Board("I143", FALSE, FALSE, "B", a) : a \in BOOLEAN}
    \cup {Board("Q645", s, FALSE, "A", FALSE) : s \in BOOLEAN}
    \cup {Board("Q628", FALSE, TRUE, c, FALSE) : c \in Cores}
    \cup {Board("Q645", FALSE, TRUE, "A", FALSE), Board("SP7350", TRUE, FALSE, "A", FALSE)}

Image(flaws, c) == [flaws |-> flaws, core |-> c]
MCUbootImages ==
    {Image({}, c) : c \in Cores}
    \cup {Image({f}, "A") : f \in {"magic", "name", "hcrc", "big", "dcrc", "sign"}}
MCFipImages ==
    {Image({}, "A")} \cup {Image({f}, "A") : f \in {"magic", "dcrc", "sign", "toc", "bl31"}}

=============================================================================
