------------------------------ MODULE MCSession ------------------------------
(***************************************************************************)
(* Instances of the session for TLC.                                       *)
(***************************************************************************)
EXTENDS Rv5sSession, MCRv5s

\* Stores that change data and that do not, or the first instruction; a load
\* and its use; jumps.
SessionInstrs == <<
    Addi(1, 1, 4), Sd(1, 0, 0), Sd(1, 16, 0), Ld(2, 16, 0), Add(1, 2, 2),
    Br("bne", 1, 0, -8), Br("beq", 2, 0, 8)>>

\* A taken branch right before a load and its use.
JumpInstrs == <<Jal(1, 8), Addi(2, 0, 4), Ld(2, 16, 0), Add(1, 2, 2)>>
JumpLoadUse == {[n \in 1 .. 4 |-> Encode(n)]}

\* Two programs to load over each other.
TwoInstrs == <<Sd(1, 16, 0), Ld(1, 16, 0), Add(1, 1, 0), Br("bne", 1, 0, -4)>>
TwoPrograms == {<<Encode(1), Encode(2)>>, <<Encode(3), Encode(4)>>}
=============================================================================
