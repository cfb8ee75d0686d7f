------------------------------- MODULE MCRv5s -------------------------------
(***************************************************************************)
(* Instances of the pipeline for TLC: 5-bit registers, x0 to x2, 32 cells  *)
(* of memory, and every program of a given length over a small repertoire  *)
(* of instructions.                                                        *)
(***************************************************************************)
EXTENDS Rv5sCorrect

CONSTANTS Repertoire, Length   \* a sequence of instructions, and how many a program has

Ins(op, fn, rd, rs1, rs2, imm) ==
    [op |-> op, fn |-> fn, rd |-> rd, rs1 |-> rs1, rs2 |-> rs2, imm |-> imm % Mod]

MCMinWeight == -2

Addi(rd, rs1, imm) == Ins("I", "add", rd, rs1, 2, imm)
Add(rd, rs1, rs2) == Ins("R", "add", rd, rs1, rs2, 0)
Sub(rd, rs1, rs2) == Ins("R", "sub", rd, rs1, rs2, 0)
Ld(rd, imm, rs1) == Ins("LOAD", "none", rd, rs1, 1, imm)
Sd(rs2, imm, rs1) == Ins("STORE", "none", 1, rs1, rs2, imm)
Br(fn, rs1, rs2, off) == Ins("BRANCH", fn, 2, rs1, rs2, off)
Jal(rd, off) == Ins("JAL", "none", rd, 1, 2, off)
Jalr(rd, rs1, imm) == Ins("JALR", "none", rd, rs1, 1, imm)
Lui(rd, imm) == Ins("LUI", "none", rd, 1, 2, imm)
Auipc(rd, imm) == Ins("AUIPC", "none", rd, 2, 1, imm)

(***************************************************************************)
(* Encoding.  An instruction of the repertoire is its place there, spread  *)
(* over the values of a cell, in the first cell of its word; the others    *)
(* are zero.  Values and half words that encode none are illegal.          *)
(***************************************************************************)
Spacing == Mod \div (Len(Repertoire) + 1)

Encode(n) == [k \in 0 .. 3 |-> IF k = 0 THEN Spacing * n ELSE 0]

MCDecode(word) ==
    IF word[1] # 0 \/ word[2] # 0 \/ word[3] # 0 \/ word[0] % Spacing # 0
       \/ word[0] \div Spacing > Len(Repertoire)
    THEN Ins("OTHER", "none", 1, 1, 1, 0)
    ELSE IF word[0] = 0 THEN ZeroInstr ELSE Repertoire[word[0] \div Spacing]

MCPrograms == [1 .. Length -> {Encode(n) : n \in DOMAIN Repertoire}]

\* Everything, with stores that reach data and program.
MixedInstrs == <<
    Add(2, 1, 2), Sub(1, 2, 1), Ld(1, 20, 2), Sd(1, 16, 2),
    Br("beq", 1, 0, 8), Br("bne", 1, 2, -4), Jal(1, 8), Jalr(2, 1, 4),
    Lui(2, 1), Auipc(1, 1), Addi(0, 1, 4)>>

\* Loops that train a predictor, jumps that share a BTB entry.
LoopInstrs == <<
    Addi(1, 1, 4), Ld(2, 20, 1), Add(2, 2, 1),
    Br("bne", 1, 2, -8), Br("blt", 1, 2, 8),
    Jal(1, -8), Jalr(0, 2, 4)>>

\* The data lies behind a program of four.
MCData == {[a \in 16 .. 31 |-> (a + 8) % Mod]}
=============================================================================
