-------------------------------- MODULE Rv5s --------------------------------
(***************************************************************************)
(* RV5SVM, the five-stage pipeline.  A Step is one clock cycle: the stages *)
(* run in the order WB, MEM, EX, ID, IF on the pipeline registers, each    *)
(* seeing what the stages before it wrote in the same cycle (the primed    *)
(* variables) except where the code goes back to current_delta_, the       *)
(* registers as they were at the start of the cycle (the unprimed ones).   *)
(*                                                                         *)
(* flush_if_once_ and flush_id_once_ are raised and consumed within one    *)
(* Step; here they are the operators ExRedirects and IdRedirects.          *)
(***************************************************************************)
EXTENDS Isa, Predictors

CONSTANTS Programs, DataImages,  \* the programs to run, and the data they come with
          Modes                  \* the pipeline modes to run them in

VARIABLES
    mode,                   \* vm_config::config.getPipelineMode()
    program,                \* program_, text and data
    pc, regs, mem,          \* program_counter_, registers_, memory_controller_
    if_id, id_ex, ex_mem, mem_wb,
    stall_if_id, stall_counter,
    predictor,
    cycle, retired, mispredictions

latches == <<if_id, id_ex, ex_mem, mem_wb>>
vars == <<mode, program, pc, regs, mem, latches, stall_if_id, stall_counter,
          predictor, cycle, retired, mispredictions>>

-----------------------------------------------------------------------------
(***************************************************************************)
(* Modes.                                                                  *)
(***************************************************************************)
DynamicMode == {"DYN1_BP", "DYN2_BP", "PERCEPTRON_BP", "GSHARE_BP"}
PredictionMode == DynamicMode \cup {"STATIC_BP"}
PipelineMode == PredictionMode \cup {"NO_HAZ", "STALL", "FWD"}

Forwards == mode \in PredictionMode \cup {"FWD"}
DetectsHazards == mode # "NO_HAZ"

PredictorKind(m) == CASE m = "DYN1_BP" -> "onebit"
                      [] m = "DYN2_BP" -> "twobit"
                      [] m = "PERCEPTRON_BP" -> "perceptron"
                      [] m = "GSHARE_BP" -> "gshare"
                      [] OTHER -> "none"

(***************************************************************************)
(* Pipeline registers.  kind tells whether the register is invalid, holds  *)
(* the nop of insertBubble, or an instruction; an invalid register or a    *)
(* bubble has every other field at its default.                            *)
(***************************************************************************)
Kind == {"empty", "bubble", "instr"}

IfIdSet == [kind: Kind, instr: Instr, pc: Word, taken: BOOLEAN, target: Word]
IdExSet == [kind: Kind, instr: Instr, pc: Word, a: Word, b: Word, resolved: BOOLEAN]
ExMemSet == [kind: Kind, instr: Instr, pc: Word, result: Word, data: Word]
MemWbSet == [kind: Kind, instr: Instr, result: Word, data: Word]

IfIdOf(k) == [kind |-> k, instr |-> NopInstr, pc |-> 0, taken |-> FALSE, target |-> 0]
IdExOf(k) == [kind |-> k, instr |-> NopInstr, pc |-> 0, a |-> 0, b |-> 0, resolved |-> FALSE]
ExMemOf(k) == [kind |-> k, instr |-> NopInstr, pc |-> 0, result |-> 0, data |-> 0]
MemWbOf(k) == [kind |-> k, instr |-> NopInstr, result |-> 0, data |-> 0]

Holds(latch) == latch.kind = "instr"

PipelineEmpty == \A l \in {if_id.kind, id_ex.kind, ex_mem.kind, mem_wb.kind} : l = "empty"

-----------------------------------------------------------------------------
(***************************************************************************)
(* Write back and memory access.                                           *)
(***************************************************************************)
\* A register whose latch is not an instruction has reg_write_ off.
Writes(latch, r) == Holds(latch) /\ WritesRd(latch.instr) /\ latch.instr.rd = r /\ r # 0

WbValue(wb) == IF wb.instr.op = "LOAD" THEN wb.data ELSE wb.result

StageWB ==
    /\ regs' = [r \in Reg |-> IF Writes(mem_wb, r) THEN WbValue(mem_wb) ELSE regs[r]]
    /\ retired' = IF Holds(mem_wb) THEN Bump(retired) ELSE retired

MemAfterMEM == IF Holds(ex_mem) /\ MemWrite(ex_mem.instr)
               THEN [mem EXCEPT ![ex_mem.result] = ex_mem.data]
               ELSE mem

StageMEM ==
    /\ mem_wb' = IF Holds(ex_mem)
                 THEN [kind |-> "instr", instr |-> ex_mem.instr, result |-> ex_mem.result,
                       data |-> IF MemRead(ex_mem.instr) THEN mem[ex_mem.result] ELSE 0]
                 ELSE MemWbOf(ex_mem.kind)
    /\ mem' = MemAfterMEM

\* Mutant: the older instruction wins.
ForwardedOldestFirst(r, old, em, wb) ==
    IF Writes(wb, r) THEN WbValue(wb)
    ELSE IF Writes(em, r) /\ ~MemRead(em.instr) THEN em.result
    ELSE old

(***************************************************************************)
(* The forwarding unit: the value register r has for an instruction that   *)
(* read old from the register file, when older instructions are in the     *)
(* latches em and wb.  A load in em has no value yet.                      *)
(***************************************************************************)
Forwarded(r, old, em, wb) ==
    IF Writes(em, r) /\ ~MemRead(em.instr) THEN em.result
    ELSE IF Writes(wb, r) THEN WbValue(wb)
    ELSE old

AluSignal5(i) == CASE i.op = "R" /\ i.fn = "mul" -> "add"
                   [] i.op \in {"R", "I"} -> i.fn
                   [] i.op = "BRANCH" -> BranchAluOp(i.fn)
                   [] i.op = "OTHER" -> "none"
                   [] OTHER -> "add"

\* resolveBranch: alu is the result of the branch's comparison.
BranchTaken(i, alu) ==
    \/ i.op \in {"JAL", "JALR"}
    \/ /\ i.op = "BRANCH"
       /\ \/ i.fn \in {"beq", "bge", "bgeu"} /\ alu = 0
          \/ i.fn \in {"bne", "blt", "bltu"} /\ alu # 0

ClearBit0(x) == x - (x % 2)

\* Mutant: addresses do not wrap around.
BranchTargetUnwrapped(i, at, a) ==
    IF i.op = "JALR" THEN ClearBit0(a + i.imm) ELSE at + i.imm

BranchTarget(i, at, a) ==
    IF i.op = "JALR" THEN ClearBit0(Wrap(a + i.imm)) ELSE Wrap(at + i.imm)

(***************************************************************************)
(* Execute.                                                                *)
(***************************************************************************)
OperandA == IF Forwards THEN Forwarded(id_ex.instr.rs1, id_ex.a, ex_mem, mem_wb) ELSE id_ex.a
OperandB == IF Forwards THEN Forwarded(id_ex.instr.rs2, id_ex.b, ex_mem, mem_wb) ELSE id_ex.b

ExResult ==
    LET i == id_ex.instr
    IN CASE i.op = "LUI" -> Wrap(i.imm * UShift)
         [] i.op = "AUIPC" -> Wrap(id_ex.pc + i.imm * UShift)
         [] i.op \in {"JAL", "JALR"} -> Wrap(id_ex.pc + 4)
         [] OTHER -> Alu(AluSignal5(i), OperandA, IF AluSrc(i) THEN i.imm ELSE OperandB)

ExRedirects ==
    Holds(id_ex) /\ ~id_ex.resolved /\ BranchTaken(id_ex.instr, ExResult)

StageEX ==
    ex_mem' = IF Holds(id_ex)
              THEN [kind |-> "instr", instr |-> id_ex.instr, pc |-> id_ex.pc,
                    result |-> ExResult, data |-> OperandB]
              ELSE ExMemOf(id_ex.kind)

PcAfterEX == IF ExRedirects THEN BranchTarget(id_ex.instr, id_ex.pc, OperandA) ELSE pc

(***************************************************************************)
(* The hazard unit: how many cycles the instruction in IF/ID has to wait.  *)
(***************************************************************************)
UsesRs1(i) == i.op \in {"R", "I", "LOAD", "STORE", "BRANCH", "JALR"}
UsesRs2(i) == i.op \in {"R", "STORE", "BRANCH"}

DependsOn(i, latch) ==
    \/ UsesRs1(i) /\ Writes(latch, i.rs1)
    \/ UsesRs2(i) /\ Writes(latch, i.rs2)

StallCycles ==
    IF ~Holds(if_id) THEN 0
    ELSE IF Forwards
         THEN IF DependsOn(if_id.instr, id_ex) /\ MemRead(id_ex.instr) THEN 1 ELSE 0
         ELSE IF DependsOn(if_id.instr, id_ex) THEN 2
              ELSE IF DependsOn(if_id.instr, ex_mem) THEN 1 ELSE 0

(***************************************************************************)
(* Decode.  Whatever it finds in IF/ID, a taken branch in EX turns it into *)
(* a bubble, and a bubble moves on as a bubble; both leave stall_if_id as  *)
(* it was.  Otherwise a pending or a new hazard holds IF/ID back.          *)
(***************************************************************************)
IdSquashes == ExRedirects \/ if_id.kind = "bubble"
StallPending == DetectsHazards /\ stall_counter > 0

\* Mutants: a hazard is looked for in a squashed instruction; a stall never
\* ends once it began.
IdStallsSquashed == StallPending \/ (DetectsHazards /\ StallCycles > 0)
IdStallsForever ==
    ~IdSquashes /\ (stall_if_id \/ StallPending \/ (DetectsHazards /\ StallCycles > 0))

IdStalls == ~IdSquashes /\ (StallPending \/ (DetectsHazards /\ StallCycles > 0))
IdDecodes == ~IdSquashes /\ ~IdStalls /\ Holds(if_id)

\* Mutant: every instruction is resolved as if it were a jump.
IdResolvesAll == IdDecodes /\ mode \in PredictionMode

\* In the prediction modes control flow is resolved in ID, on operands
\* forwarded from what EX and MEM have just produced.
IdResolves == IdDecodes /\ mode \in PredictionMode /\ IsControlFlow(if_id.instr)

IdOperand(r) == Forwarded(r, ReadGpr(regs', r), ex_mem', mem_wb')
IdTaken ==
    LET i == if_id.instr
    IN BranchTaken(i, Alu(AluSignal5(i), IdOperand(i.rs1), IdOperand(i.rs2)))
IdTarget == BranchTarget(if_id.instr, if_id.pc, IdOperand(if_id.instr.rs1))

\* Mutant: only the direction of a prediction is checked, not its target.
IdRedirectsOnDirection ==
    IdResolves /\ IF mode \in DynamicMode THEN IdTaken # if_id.taken ELSE IdTaken

IdRedirects ==
    /\ IdResolves
    /\ IF mode \in DynamicMode
       THEN IdTaken # if_id.taken \/ (IdTaken /\ IdTarget # if_id.target)
       ELSE IdTaken

\* Step creates a predictor when the mode needs one and there is none.
PredictorInUse ==
    IF predictor = NoPredictor /\ mode \in DynamicMode
    THEN FreshPredictor(PredictorKind(mode))
    ELSE predictor

StageID ==
    /\ id_ex' = IF IdSquashes \/ IdStalls THEN IdExOf("bubble")
                ELSE IF IdDecodes
                THEN [kind |-> "instr", instr |-> if_id.instr, pc |-> if_id.pc,
                      a |-> ReadGpr(regs', if_id.instr.rs1),
                      b |-> ReadGpr(regs', if_id.instr.rs2),
                      resolved |-> IdResolves]
                ELSE IdExOf("empty")
    /\ stall_if_id' = IF IdSquashes THEN stall_if_id ELSE IdStalls
    /\ stall_counter' = IF ~IdStalls THEN stall_counter
                        ELSE IF StallPending THEN stall_counter - 1
                        ELSE StallCycles - 1
    /\ predictor' = IF IdResolves /\ mode \in DynamicMode
                    THEN Update(PredictorInUse, if_id.pc, IdTaken, IdTarget)
                    ELSE PredictorInUse

PcAfterID ==
    IF ~IdRedirects THEN PcAfterEX
    ELSE IF IdTaken THEN IdTarget ELSE Wrap(if_id.pc + 4)

(***************************************************************************)
(* Fetch.  A flush leaves a bubble and the new program counter; otherwise  *)
(* the next instruction is fetched, from the memory as MEM has just left   *)
(* it, and, unless ID stalls, kept.                                        *)
(***************************************************************************)
Flushes == ExRedirects \/ IdRedirects
Fetches == ~Flushes /\ PcAfterID < ProgramSize(program) /\ ~stall_if_id'

FetchTaken == mode \in DynamicMode /\ PredictedTaken(predictor', PcAfterID)
FetchTarget == IF mode \in DynamicMode
               THEN PredictedTarget(predictor', PcAfterID, Wrap(PcAfterID + 4))
               ELSE 0

StageIF ==
    /\ if_id' = IF Flushes THEN IfIdOf("bubble")
                ELSE IF stall_if_id' THEN if_id
                ELSE IF Fetches
                THEN [kind |-> "instr", instr |-> ReadInstr(mem', PcAfterID),
                      pc |-> PcAfterID, taken |-> FetchTaken, target |-> FetchTarget]
                ELSE IfIdOf("empty")
    /\ pc' = IF ~Fetches THEN PcAfterID
             ELSE IF FetchTaken THEN FetchTarget ELSE Wrap(PcAfterID + 4)

-----------------------------------------------------------------------------
Init ==
    /\ mode \in Modes
    /\ program \in [text: Programs, data: DataImages]
    /\ mem = LoadProgram(ZeroMemory, program)
    /\ pc = 0
    /\ regs = [r \in Reg |-> 0]
    /\ if_id = IfIdOf("empty")
    /\ id_ex = IdExOf("empty")
    /\ ex_mem = ExMemOf("empty")
    /\ mem_wb = MemWbOf("empty")
    /\ stall_if_id = FALSE
    /\ stall_counter = 0
    /\ predictor = FreshPredictor(PredictorKind(mode))
    /\ cycle = 0
    /\ retired = 0
    /\ mispredictions = 0

\* One clock cycle.
Step ==
    /\ StageWB
    /\ StageMEM
    /\ StageEX
    /\ StageID
    /\ StageIF
    /\ cycle' = Bump(cycle)
    /\ mispredictions' = IF Flushes THEN Bump(mispredictions) ELSE mispredictions
    /\ UNCHANGED <<mode, program>>

Finished == pc >= ProgramSize(program) /\ PipelineEmpty

\* The loop of Run, and the stuttering once it has left it.
RunStep == ~Finished /\ Step
RunEnds == Finished /\ UNCHANGED vars

Next == RunStep \/ RunEnds

\* What is run is a sequence of instruction words with its data, in a mode of
\* the pipeline; any word is an instruction, if only one of no class.
ASSUME Rv5sAssumption ==
    /\ Programs \subseteq Seq(InstrWord)
    /\ \A data \in DataImages : \A a \in DOMAIN data : a \in Word /\ data[a] \in Word
    /\ \A word \in InstrWord : Decode(word) \in Instr
    /\ Modes \subseteq PipelineMode

Spec == Init /\ [][Next]_vars
FairSpec == Spec /\ WF_vars(RunStep)
=============================================================================
