-------------------------------- MODULE Rvss --------------------------------
(***************************************************************************)
(* RVSSVM, the single-cycle machine, on the integer base instructions: one *)
(* instruction is fetched, executed, and written back per step.  It is the *)
(* architecture the pipelined machine promises to implement.               *)
(***************************************************************************)
EXTENDS Isa

CONSTANTS Programs, DataImages   \* the programs to run, and the data they come with

VARIABLES program, pc, regs, mem, retired

vars == <<program, pc, regs, mem, retired>>

Init ==
    /\ program \in [text: Programs, data: DataImages]
    /\ mem = LoadProgram(ZeroMemory, program)
    /\ pc = 0
    /\ regs = [r \in Reg |-> 0]
    /\ retired = 0

AluSignal(i) == CASE i.op \in {"R", "I"} -> i.fn
                  [] i.op = "BRANCH" -> BranchAluOp(i.fn)
                  [] i.op = "OTHER" -> "none"
                  [] OTHER -> "add"

\* execution_result_ before AUIPC overrides it.
ExecutionResult(i) ==
    Alu(AluSignal(i), ReadGpr(regs, i.rs1),
        IF AluSrc(i) THEN i.imm ELSE ReadGpr(regs, i.rs2))

BranchFlag(fn, result) ==
    \/ fn \in {"beq", "bge", "bgeu"} /\ result = 0
    \/ fn = "bne" /\ result # 0
    \/ fn \in {"blt", "bltu"} /\ result = 1

NextPc(i) ==
    CASE i.op = "JALR" -> ExecutionResult(i)
      [] i.op = "JAL" -> Wrap(pc + i.imm)
      [] i.op = "BRANCH" /\ BranchFlag(i.fn, ExecutionResult(i)) -> Wrap(pc + i.imm)
      [] OTHER -> Wrap(pc + 4)

\* What WriteBack puts in rd; "imm << 12" is computed in an int32_t.
WrittenValue(i) ==
    CASE i.op \in {"JAL", "JALR"} -> Wrap(pc + 4)
      [] i.op = "LUI" -> SignExtend32(i.imm * UShift)
      [] i.op = "AUIPC" -> Wrap(pc + SignExtend32(i.imm * UShift))
      [] i.op = "LOAD" -> mem[ExecutionResult(i)]
      [] OTHER -> ExecutionResult(i)

Step ==
    /\ pc < ProgramSize(program)
    /\ LET i == ReadInstr(mem, pc)
       IN /\ pc' = NextPc(i)
          /\ mem' = IF MemWrite(i)
                     THEN [mem EXCEPT ![ExecutionResult(i)] = ReadGpr(regs, i.rs2)]
                     ELSE mem
          /\ regs' = IF WritesRd(i) THEN WriteGpr(regs, i.rd, WrittenValue(i)) ELSE regs
    /\ retired' = Bump(retired)
    /\ UNCHANGED program

\* Run leaves its loop at the end of the program.
Finished == pc >= ProgramSize(program) /\ UNCHANGED vars

Next == Step \/ Finished

Spec == Init /\ [][Next]_vars
=============================================================================
