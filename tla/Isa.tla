-------------------------------- MODULE Isa --------------------------------
(***************************************************************************)
(* What the two virtual machines share: the width of a value, the decoded  *)
(* form of an instruction word, the integer ALU, and the memory that holds *)
(* program and data alike.                                                 *)
(*                                                                         *)
(* The machine is scaled by constants.  A register holds a number modulo   *)
(* Mod (2^64 in the code), the int32_t in which the immediate of a U-type  *)
(* instruction is shifted is a number modulo HalfMod (2^32), the shift     *)
(* multiplies by UShift (2^12), and statistics wrap modulo CounterMod      *)
(* (2^32, they are unsigned ints).                                         *)
(***************************************************************************)
EXTENDS Integers, Sequences

CONSTANTS
    Mod,            \* number of values of a 64-bit register
    HalfMod,        \* number of values of an int32_t
    UShift,         \* what "<< 12" multiplies by
    NumRegs,        \* number of general purpose registers
    CounterMod,     \* number of values of an unsigned int counter
    Decode(_)       \* the instruction that an instruction word encodes

Word == 0 .. Mod - 1
Reg == 0 .. NumRegs - 1
Counter == 0 .. CounterMod - 1

Wrap(x) == x % Mod
Bump(counter) == (counter + 1) % CounterMod

\* The value of a register read as an int64_t.
Signed(x) == IF 2 * x < Mod THEN x ELSE x - Mod

\* static_cast<uint64_t>(int32_t{x}): the upper half repeats the sign.
SignExtend32(x) == IF 2 * (x % HalfMod) < HalfMod
                   THEN x % HalfMod
                   ELSE (x % HalfMod) + Mod - HalfMod

(***************************************************************************)
(* Instruction words, decoded.  op is the class its opcode selects, fn what *)
(* funct3 and funct7 select within the class.  The register fields are the *)
(* raw bits: a class that has no such field (rd of a store, rs1 of a jump) *)
(* still carries a number there, and the forwarding unit looks at it.  imm *)
(* is the immediate as a register value, for LUI and AUIPC the unshifted   *)
(* upper bits.                                                             *)
(***************************************************************************)
Class == {"R", "I", "LOAD", "STORE", "BRANCH", "JAL", "JALR", "LUI", "AUIPC", "OTHER"}
Function == {"add", "sub", "slt", "sltu", "mul",
             "beq", "bne", "blt", "bge", "bltu", "bgeu", "none"}

Instr == [op: Class, fn: Function, rd: Reg, rs1: Reg, rs2: Reg, imm: Word]

\* addi x0, x0, 0, the word insertBubble leaves in a pipeline register.
NopInstr == [op |-> "I", fn |-> "add", rd |-> 0, rs1 |-> 0, rs2 |-> 0, imm |-> 0]

IsControlFlow(i) == i.op \in {"JAL", "JALR", "BRANCH"}

\* The control lines both control units derive from the opcode.
WritesRd(i) == i.op \in {"R", "LOAD", "I", "LUI", "AUIPC", "JAL", "JALR"}
AluSrc(i) == i.op \in {"LOAD", "STORE", "I", "LUI", "AUIPC", "JALR"}
MemRead(i) == i.op = "LOAD"
MemWrite(i) == i.op = "STORE"

Alu(aluOp, a, b) ==
    CASE aluOp = "add"  -> Wrap(a + b)
      [] aluOp = "sub"  -> Wrap(a - b)
      [] aluOp = "mul"  -> Wrap(a * b)
      [] aluOp = "slt"  -> IF Signed(a) < Signed(b) THEN 1 ELSE 0
      [] aluOp = "sltu" -> IF a < b THEN 1 ELSE 0
      [] OTHER          -> 0

\* The comparison a conditional branch asks of the ALU.
BranchAluOp(fn) == CASE fn \in {"beq", "bne"}   -> "sub"
                     [] fn \in {"blt", "bge"}   -> "slt"
                     [] fn \in {"bltu", "bgeu"} -> "sltu"
                     [] OTHER                   -> "none"

ReadGpr(regs, r) == IF r = 0 THEN 0 ELSE regs[r]
WriteGpr(regs, r, v) == IF r = 0 THEN regs ELSE [regs EXCEPT ![r] = v]

(***************************************************************************)
(* Memory holds the program and its data: loads and stores touch one cell, *)
(* an instruction word lies in four.  LoadProgram writes the words of the  *)
(* program from address 0 on and then the data, whose cells the assembled  *)
(* program gives; the fetch reads whatever is in memory by then.           *)
(***************************************************************************)
InstrWord == [0 .. 3 -> Word]

ZeroMemory == [a \in Word |-> 0]

ProgramSize(program) == 4 * Len(program.text)

LoadProgram(memory, program) ==
    [a \in Word |-> IF a \in DOMAIN program.data THEN program.data[a]
                    ELSE IF a < ProgramSize(program) THEN program.text[(a \div 4) + 1][a % 4]
                    ELSE memory[a]]

ReadInstr(memory, at) == Decode([k \in 0 .. 3 |-> memory[Wrap(at + k)]])

\* What a word of zeros is: an opcode of no class.
ZeroInstr == [op |-> "OTHER", fn |-> "none", rd |-> 0, rs1 |-> 0, rs2 |-> 0, imm |-> 0]

ASSUME IsaAssumption ==
    /\ Mod \in Nat /\ Mod > 1
    /\ HalfMod \in 1 .. Mod
    /\ UShift \in Nat \ {0}
    /\ NumRegs \in Nat \ {0}
    /\ CounterMod \in Nat \ {0}
    /\ Decode([k \in 0 .. 3 |-> 0]) = ZeroInstr
=============================================================================
