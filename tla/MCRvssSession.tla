--------------------------- MODULE MCRvssSession ---------------------------
(***************************************************************************)
(* Instances of the single-cycle session for TLC: programs of at most six  *)
(* instructions in 24 cells, their data behind.                            *)
(***************************************************************************)
EXTENDS RvssSession

Ins(op, fn, rd, rs1, rs2, imm) ==
    [op |-> op, fn |-> fn, rd |-> rd, rs1 |-> rs1, rs2 |-> rs2, imm |-> imm % Mod]

Addi(rd, rs1, imm) == Ins("I", "add", rd, rs1, 2, imm)
Ld(rd, imm, rs1) == Ins("LOAD", "none", rd, rs1, 1, imm)
Sd(rs2, imm, rs1) == Ins("STORE", "none", 1, rs1, rs2, imm)
Bne(rs1, rs2, off) == Ins("BRANCH", "bne", 2, rs1, rs2, off)
Jal(rd, off) == Ins("JAL", "none", rd, 1, 2, off)
Flw(rd, imm, rs1) == Ins("FLOAD", "none", rd, rs1, 1, imm)
Fsw(rs2, imm, rs1) == Ins("FSTORE", "none", 1, rs1, rs2, imm)
Fadd(rd) == Ins("FP", "to_fpr", rd, 1, 2, 0)
Feq(rd) == Ins("FP", "to_gpr", rd, 1, 2, 0)
Csrrw(rd, rs1) == Ins("CSR", "write", rd, rs1, 0, 0)
Csrrs(rd, rs1) == Ins("CSR", "set", rd, rs1, 0, 1)

\* A counted loop that stores and loads.
Loop == <<Addi(1, 1, 1), Sd(1, 24, 0), Ld(2, 24, 0), Bne(1, 3, -12)>>
\* READ of two bytes, then WRITE of as many: a0 is 1 after a line of one.
Reads == <<Addi(4, 0, 3), Addi(2, 0, 28), Addi(3, 0, 2), Ecall, Addi(4, 0, 4), Ecall>>
\* Floating point through both banks, with a load whose immediate looks
\* like the funct7 of feq.s, and a comparison whose result x0 ignores.
Floats == <<Flw(1, 25, 0), Feq(0), Fadd(2), Fsw(2, 24, 1), Flw(2, 5, 0), Feq(1)>>
Csrs == <<Addi(1, 0, 2), Csrrw(2, 1), Csrrs(2, 1), Sd(2, 24, 0)>>
\* A program that never ends.
Spin == <<Jal(0, 0)>>
\* SYSCALL_EXIT.
Exits == <<Addi(4, 0, 10), Ecall>>

(***************************************************************************)
(* Encoding: the place of the instruction in a table, in the first cell of *)
(* its word.  What encodes none is illegal.                                *)
(***************************************************************************)
Table == Loop \o Reads \o Floats \o Csrs \o Spin \o Exits

Encode(p) == [n \in 1 .. Len(p) |-> [k \in 0 .. 3 |->
    IF k = 0 THEN CHOOSE t \in DOMAIN Table : Table[t] = p[n] ELSE 0]]

MCDecode(word) ==
    IF word[1] # 0 \/ word[2] # 0 \/ word[3] # 0 \/ word[0] > Len(Table)
    THEN Ins("OTHER", "none", 1, 1, 1, 0)
    ELSE IF word[0] = 0 THEN ZeroInstr ELSE Table[word[0]]

MCPrograms == {Encode(p) : p \in {Loop, Reads, Floats, Csrs, Spin, Exits}}
MCLoop == {Encode(Loop)}
MCData == {[a \in 24 .. 31 |-> IF a = 25 THEN 7 ELSE 0]}
MCInputs == {<<5>>, <<6, 7, 7>>}
=============================================================================
