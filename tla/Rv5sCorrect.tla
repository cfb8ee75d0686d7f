----------------------------- MODULE Rv5sCorrect -----------------------------
(***************************************************************************)
(* What the pipeline has to get right, and how its states are read as      *)
(* states of the single-cycle machine.                                     *)
(***************************************************************************)
EXTENDS Rv5s

(***************************************************************************)
(* The refinement mapping.  An instruction takes effect when it leaves MEM *)
(* (its store is then in memory, its result in MEM/WB).  The architectural *)
(* program counter is the address of the oldest instruction that has not.  *)
(***************************************************************************)
ArchPc == IF Holds(ex_mem) THEN ex_mem.pc
          ELSE IF Holds(id_ex) THEN id_ex.pc
          ELSE IF Holds(if_id) THEN if_id.pc
          ELSE pc

ArchRegs == [r \in Reg |-> IF Writes(mem_wb, r) THEN WbValue(mem_wb) ELSE regs[r]]

ArchRetired == IF Holds(mem_wb) THEN Bump(retired) ELSE retired

Arch == INSTANCE Rvss WITH pc <- ArchPc, regs <- ArchRegs, retired <- ArchRetired

TypeOK ==
    /\ mode \in PipelineMode
    /\ program \in [text: Programs, data: DataImages]
    /\ pc \in Word
    /\ regs \in [Reg -> Word]
    /\ mem \in [Word -> Word]
    /\ if_id \in IfIdSet
    /\ id_ex \in IdExSet
    /\ ex_mem \in ExMemSet
    /\ mem_wb \in MemWbSet
    /\ stall_if_id \in BOOLEAN
    /\ stall_counter \in 0 .. 1
    /\ predictor \in PredictorSet(Word)
    /\ cycle \in Counter
    /\ retired \in Counter
    /\ mispredictions \in Counter

(***************************************************************************)
(* A stalled fetch always has something to wait for: while stall_if_id_ is *)
(* set, IF/ID holds the instruction that waits and a bubble went down the  *)
(* pipe in its place.  stageID only clears the flag on a path it leaves    *)
(* early for a bubble in IF/ID, so a flag set over a bubble would stop the *)
(* fetch for good.                                                         *)
(***************************************************************************)
StallKeepsInstruction ==
    /\ stall_if_id => Holds(if_id) /\ id_ex.kind = "bubble"
    /\ stall_counter > 0 => stall_if_id

(***************************************************************************)
(* The BTB knows nothing but jumps of this program: each valid entry was   *)
(* left by a control-flow instruction, and for a direct one it holds the   *)
(* target the instruction computes.  ID checks predictions of control flow *)
(* only: a hit on any other instruction would be followed and never undone.*)
(***************************************************************************)
InText == {at \in Word : at < ProgramSize(program)}

IsEntryOf(memory, entry, e, at) ==
    /\ IndexOf(at) = e /\ TagOf(at) = entry.tag
    /\ LET i == ReadInstr(memory, at)
       IN IsControlFlow(i) /\ (i.op # "JALR" => entry.target = Wrap(at + i.imm))

BtbKnowsOnlyJumps ==
    predictor.kind \in DynamicKind =>
      \A e \in TableIndex :
        predictor.btb[e].valid =>
          \E at \in InText : IsEntryOf(mem, predictor.btb[e], e, at)

(***************************************************************************)
(* No prediction escapes the check: what is fetched as predicted taken is  *)
(* control flow, and where branches are resolved early, one that reaches   *)
(* EX has been resolved (EX must not resolve it a second time).            *)
(***************************************************************************)
PredictionsAreChecked ==
    /\ Holds(if_id) /\ if_id.taken => IsControlFlow(if_id.instr)
    /\ Holds(id_ex) => (id_ex.resolved <=> mode \in PredictionMode /\ IsControlFlow(id_ex.instr))

(***************************************************************************)
(* Whatever the mode, the hazards and the predictions, the pipeline does   *)
(* what the single-cycle machine does: same instructions, in program       *)
(* order, same registers, same memory, same count of instructions.         *)
(***************************************************************************)
ImplementsRvss == Arch!Spec

(***************************************************************************)
(* What the two machines need to agree, as predicates of a state: the runs *)
(* go no further than a state that violates one, the theorems assume that  *)
(* they hold.  A store goes to the memory the fetch reads; the pipeline  *)
(* looks neither for instructions it already holds nor for entries of the  *)
(* BTB that such a store outdates, where the single-cycle machine fetches  *)
(* what it finds.                                                          *)
(***************************************************************************)
SparesInstr(at) == ReadInstr(MemAfterMEM, at) = ReadInstr(mem, at)

\* The store in MEM changes no younger instruction of the pipeline.
SparesFlight ==
    /\ Holds(if_id) => SparesInstr(if_id.pc)
    /\ Holds(id_ex) => SparesInstr(id_ex.pc)

\* Nor, where there is a BTB, a jump it may know.
HasBtb == mode \in DynamicMode \/ predictor.kind \in DynamicKind

SparesJumps ==
    HasBtb =>
        \A at \in InText : IsControlFlow(ReadInstr(mem, at)) => SparesInstr(at)

\* What is enough for both: the program does not store into itself.
SparesText == \A at \in InText : SparesInstr(at)

\* The BTB does not tell a misaligned address from the aligned one.
AlignedFetch == mode \in DynamicMode /\ Holds(if_id) => if_id.pc % 4 = 0

\* Without a hazard unit the program keeps dependent instructions apart.
KeepsApart ==
    mode = "NO_HAZ" /\ Holds(id_ex) =>
        ~DependsOn(id_ex.instr, ex_mem) /\ ~DependsOn(id_ex.instr, mem_wb)

\* Three instructions are computed differently: MUL, LUI and AUIPC of what an
\* int32_t does not hold, and JALR to an odd address.
Agreed(i) ==
    /\ ~(i.op = "R" /\ i.fn = "mul")
    /\ i.op \in {"LUI", "AUIPC"} => SignExtend32(i.imm * UShift) = Wrap(i.imm * UShift)

AgreedNext ==
    ArchPc < ProgramSize(program) =>
        LET i == ReadInstr(mem, ArchPc)
        IN Agreed(i) /\ (i.op = "JALR" => Arch!ExecutionResult(i) % 2 = 0)

(***************************************************************************)
(* The pipeline never locks up: it retires another instruction or finishes *)
(* the program (a stall counter, a stalled fetch and a flush that feed     *)
(* each other would keep the clock running and nothing else).              *)
(***************************************************************************)
KeepsRetiring == []<>(Holds(mem_wb) \/ Finished)
=============================================================================
