----------------------------- MODULE Rv5sProofs -----------------------------
(***************************************************************************)
(* Proofs about the pipeline, for every width, program, memory, mode and   *)
(* predictor geometry the assumptions of Isa, Predictors and Rv5s allow.   *)
(***************************************************************************)
EXTENDS Rv5sCorrect, IsaProofs, TLAPS

-----------------------------------------------------------------------------
(***************************************************************************)
(* The predictors keep their shape.                                        *)
(***************************************************************************)
\* Every address has a slot in the tables indexed by pc >> 2.
LEMMA IndexInTable == ASSUME NEW pc0 \in Word PROVE IndexOf(pc0) \in TableIndex
<1>1. pc0 \div 4 \in Nat
  BY IsaAssumption DEF Word
<1> QED BY <1>1, PredictorAssumption DEF IndexOf, TableIndex

\* A tag is a natural number.
LEMMA TagInNat == ASSUME NEW pc0 \in Word PROVE TagOf(pc0) \in Nat
<1>1. TagDivisor \in Nat \ {0}
  BY PredictorAssumption DEF TagDivisor
<1> QED BY <1>1, IsaAssumption DEF TagOf, Word

\* Recording a target keeps the BTB a BTB.
LEMMA BtbUpdateInSet ==
    ASSUME NEW btb \in BtbSet(Word), NEW pc0 \in Word, NEW target \in Word
    PROVE BtbUpdate(btb, pc0, target) \in BtbSet(Word)
BY IndexInTable, TagInNat DEF BtbUpdate, BtbSet

\* A saturating counter stays within its two bits.
LEMMA CountInState ==
    ASSUME NEW state \in CounterState, NEW taken PROVE Count(state, taken) \in CounterState
BY DEF Count, CounterState

\* Training a row of weights keeps every weight within its byte.
LEMMA TrainInWeights ==
    ASSUME NEW w \in Weights, NEW ghr, NEW taken PROVE Train(w, ghr, taken) \in Weights
<1>1. SUFFICES ASSUME NEW k \in WeightIndex
               PROVE Train(w, ghr, taken)[k] \in MinWeight .. MaxWeight
  BY DEF Weights, Train
<1>2. w[k] \in MinWeight .. MaxWeight
  BY DEF Weights
<1> QED BY <1>2, PredictorAssumption DEF Train

\* The history keeps being a sequence of outcomes.
LEMMA PushOutcomeInSeq ==
    ASSUME NEW ghr \in Seq(BOOLEAN), NEW taken \in BOOLEAN
    PROVE PushOutcome(ghr, taken) \in Seq(BOOLEAN)
<1>1. Append(ghr, taken) \in Seq(BOOLEAN) /\ Append(ghr, taken) # <<>>
  OBVIOUS
<1>2. Tail(Append(ghr, taken)) \in Seq(BOOLEAN)
  BY <1>1
<1> QED BY <1>1, <1>2 DEF PushOutcome

\* What Step creates when a mode needs a predictor is a predictor of that mode.
LEMMA FreshInSet ==
    ASSUME NEW kind
    PROVE /\ FreshPredictor(kind) \in PredictorSet(Word)
          /\ kind \in DynamicKind => FreshPredictor(kind) \in DynamicSet(Word)
<1>1. EmptyBtb \in BtbSet(Word)
  BY IsaAssumption DEF EmptyBtb, EmptyEntry, BtbSet, Word
<1>2. [k \in WeightIndex |-> 0] \in Weights
  BY PredictorAssumption DEF Weights
<1>3. CASE kind = "onebit"
  BY <1>1, <1>3 DEF FreshPredictor, PredictorSet, DynamicSet, OneBitSet
<1>4. CASE kind = "twobit"
  BY <1>1, <1>4 DEF FreshPredictor, PredictorSet, DynamicSet, TwoBitSet, CounterState
<1>5. CASE kind = "gshare"
  BY <1>1, <1>5 DEF FreshPredictor, PredictorSet, DynamicSet, GshareSet, CounterState, BitVector
<1>6. CASE kind = "perceptron"
  BY <1>1, <1>2, <1>6 DEF FreshPredictor, PredictorSet, DynamicSet, PerceptronSet
<1>7. CASE kind \notin DynamicKind
  BY <1>7 DEF FreshPredictor, PredictorSet, DynamicKind
<1> QED BY <1>3, <1>4, <1>5, <1>6, <1>7 DEF DynamicKind

\* update() leaves a predictor a predictor of the same kind.
LEMMA UpdateInSet ==
    ASSUME NEW p \in DynamicSet(Word), NEW pc0 \in Word, NEW taken \in BOOLEAN, NEW target \in Word
    PROVE Update(p, pc0, taken, target) \in DynamicSet(Word)
<1>1. p.btb \in BtbSet(Word)
  BY DEF DynamicSet, OneBitSet, TwoBitSet, GshareSet, PerceptronSet
<1>2. BtbUpdate(p.btb, pc0, target) \in BtbSet(Word)
  BY <1>1, BtbUpdateInSet
<1>3. CASE p \in OneBitSet(Word)
  BY <1>2, <1>3 DEF Update, TrainBht, OneBitSet, DynamicSet
<1>4. CASE p \in TwoBitSet(Word)
  <2>1. \A e \in TableIndex : Count(p.bht[e], taken) \in CounterState
    BY <1>4, CountInState DEF TwoBitSet
  <2> QED BY <1>2, <1>4, <2>1 DEF Update, TrainBht, TwoBitSet, DynamicSet
<1>5. CASE p \in GshareSet(Word)
  <2>1. \A e \in BitVector : Count(p.bht[e], taken) \in CounterState
    BY <1>5, CountInState DEF GshareSet
  <2>2. ShiftHistory(p.ghr, taken) \in BitVector
    BY DEF ShiftHistory, BitVector
  <2> QED BY <1>2, <1>5, <2>1, <2>2 DEF Update, TrainBht, GshareSet, DynamicSet
<1>6. CASE p \in PerceptronSet(Word)
  <2>1. \A e \in 0 .. NumPerceptrons - 1 : Train(p.bht[e], p.ghr, taken) \in Weights
    BY <1>6, TrainInWeights DEF PerceptronSet
  <2>2. PushOutcome(p.ghr, taken) \in Seq(BOOLEAN)
    BY <1>6, PushOutcomeInSeq DEF PerceptronSet
  <2> QED BY <1>2, <1>6, <2>1, <2>2 DEF Update, TrainBht, PerceptronSet, DynamicSet
<1> QED BY <1>3, <1>4, <1>5, <1>6 DEF DynamicSet

\* A target a predictor names is an address.
LEMMA PredictedTargetInWord ==
    ASSUME NEW p \in DynamicSet(Word), NEW pc0 \in Word, NEW fallThrough \in Word
    PROVE PredictedTarget(p, pc0, fallThrough) \in Word
<1>1. p.btb \in BtbSet(Word)
  BY DEF DynamicSet, OneBitSet, TwoBitSet, GshareSet, PerceptronSet
<1> QED BY <1>1, IndexInTable DEF PredictedTarget, BtbSet

-----------------------------------------------------------------------------
(***************************************************************************)
(* The stages keep the types, each from the start of the cycle and from    *)
(* what the stages before it wrote.                                        *)
(***************************************************************************)
\* The nop of a bubble is an instruction, the zero of an empty latch and the
\* address of the next instruction are register values.
LEMMA ConstantsTyped ==
    NopInstr \in Instr /\ 0 \in Word /\ \A x \in Word : Wrap(x + 4) \in Word
<1>1. 0 \in Word /\ 0 \in Reg
  BY IsaAssumption DEF Word, Reg
<1>2. NopInstr \in Instr
  BY <1>1 DEF NopInstr, Instr, Class, Function
<1>3. \A x \in Word : x + 4 \in Int
  BY IsaAssumption DEF Word
<1> QED BY <1>1, <1>2, <1>3, WrapInWord

\* Forwarding picks a register value.
LEMMA ForwardedInWord ==
    ASSUME NEW r \in Reg, NEW old \in Word, NEW em \in ExMemSet, NEW wb \in MemWbSet
    PROVE Forwarded(r, old, em, wb) \in Word
BY DEF Forwarded, WbValue, ExMemSet, MemWbSet

\* A branch goes to an address.
LEMMA BranchTargetInWord ==
    ASSUME NEW i \in Instr, NEW at \in Word, NEW a \in Word
    PROVE BranchTarget(i, at, a) \in Word
<1>1. i.imm \in Word
  BY DEF Instr
<1>2. a + i.imm \in Int /\ at + i.imm \in Int
  BY <1>1, IsaAssumption DEF Word
<1>3. Wrap(a + i.imm) \in Word /\ Wrap(at + i.imm) \in Word
  BY <1>2, WrapInWord
<1>4. \A x \in Word : ClearBit0(x) \in Word
  BY IsaAssumption DEF ClearBit0, Word
<1> QED BY <1>3, <1>4 DEF BranchTarget

\* What EX computes, with its operands, are register values.
LEMMA ExecuteTyped ==
    ASSUME TypeOK
    PROVE OperandA \in Word /\ OperandB \in Word /\ ExResult \in Word
<1>1. /\ id_ex.instr \in Instr /\ id_ex.pc \in Word /\ id_ex.a \in Word /\ id_ex.b \in Word
      /\ ex_mem \in ExMemSet /\ mem_wb \in MemWbSet
  BY DEF TypeOK, IdExSet
<1>2. id_ex.instr.rs1 \in Reg /\ id_ex.instr.rs2 \in Reg /\ id_ex.instr.imm \in Word
  BY <1>1 DEF Instr
<1>3. OperandA \in Word /\ OperandB \in Word
  BY <1>1, <1>2, ForwardedInWord DEF OperandA, OperandB
<1>4. /\ id_ex.instr.imm * UShift \in Int
      /\ id_ex.pc + id_ex.instr.imm * UShift \in Int
      /\ id_ex.pc + 4 \in Int
  BY <1>1, <1>2, IsaAssumption DEF Word
<1>5. /\ Wrap(id_ex.instr.imm * UShift) \in Word
      /\ Wrap(id_ex.pc + id_ex.instr.imm * UShift) \in Word
      /\ Wrap(id_ex.pc + 4) \in Word
  BY <1>4, WrapInWord
<1>6. Alu(AluSignal5(id_ex.instr), OperandA,
          IF AluSrc(id_ex.instr) THEN id_ex.instr.imm ELSE OperandB) \in Word
  BY <1>2, <1>3, AluInWord
<1> QED BY <1>3, <1>5, <1>6 DEF ExResult

\* Write back keeps registers and statistics typed.
LEMMA StageWBTyped ==
    ASSUME TypeOK, StageWB PROVE regs' \in [Reg -> Word] /\ retired' \in Counter
<1>1. WbValue(mem_wb) \in Word
  BY DEF TypeOK, MemWbSet, WbValue
<1>2. \A r \in Reg : regs[r] \in Word
  BY DEF TypeOK
<1>3. regs' \in [Reg -> Word]
  BY <1>1, <1>2 DEF StageWB
<1>4. retired' \in Counter
  BY BumpInCounter DEF TypeOK, StageWB
<1> QED BY <1>3, <1>4

\* The memory access keeps MEM/WB and the memory typed.
LEMMA StageMEMTyped ==
    ASSUME TypeOK, StageMEM PROVE mem_wb' \in MemWbSet /\ mem' \in [Word -> Word]
<1>1. /\ ex_mem.kind \in Kind /\ ex_mem.instr \in Instr
      /\ ex_mem.result \in Word /\ ex_mem.data \in Word
      /\ mem \in [Word -> Word]
  BY DEF TypeOK, ExMemSet
<1>2. MemWbOf(ex_mem.kind) \in MemWbSet
  BY <1>1, ConstantsTyped DEF MemWbOf, MemWbSet
<1>3. mem_wb' \in MemWbSet
  BY <1>1, <1>2, ConstantsTyped DEF StageMEM, MemWbSet, Kind
<1>4. mem' \in [Word -> Word]
  BY <1>1 DEF StageMEM, MemAfterMEM
<1> QED BY <1>3, <1>4

\* EX keeps EX/MEM typed and leaves an address in the program counter.
LEMMA StageEXTyped ==
    ASSUME TypeOK, StageEX PROVE ex_mem' \in ExMemSet /\ PcAfterEX \in Word
<1>1. id_ex.kind \in Kind /\ id_ex.instr \in Instr /\ id_ex.pc \in Word /\ pc \in Word
  BY DEF TypeOK, IdExSet
<1>2. ExMemOf(id_ex.kind) \in ExMemSet
  BY <1>1, ConstantsTyped DEF ExMemOf, ExMemSet
<1>3. ex_mem' \in ExMemSet
  BY <1>1, <1>2, ExecuteTyped DEF StageEX, ExMemSet, Kind
<1>4. PcAfterEX \in Word
  BY <1>1, ExecuteTyped, BranchTargetInWord DEF PcAfterEX
<1> QED BY <1>3, <1>4

\* The predictor ID consults has the kind the mode asks for.
LEMMA PredictorInUseTyped ==
    ASSUME TypeOK
    PROVE /\ PredictorInUse \in PredictorSet(Word)
          /\ mode \in DynamicMode => PredictorInUse \in DynamicSet(Word)
<1>1. predictor \in PredictorSet(Word)
  BY DEF TypeOK
<1>2. mode \in DynamicMode => PredictorKind(mode) \in DynamicKind
  BY DEF DynamicMode, PredictorKind, DynamicKind
<1>3. CASE predictor = NoPredictor /\ mode \in DynamicMode
  BY <1>2, <1>3, FreshInSet DEF PredictorInUse
<1>4. CASE ~(predictor = NoPredictor /\ mode \in DynamicMode)
  BY <1>1, <1>4 DEF PredictorInUse, PredictorSet
<1> QED BY <1>3, <1>4

\* The hazard unit asks for at most two cycles.
LEMMA StallCyclesBound == StallCycles \in 0 .. 2
BY DEF StallCycles

\* What ID resolves a jump to: a decision and an address.
LEMMA IdTargetTyped ==
    ASSUME TypeOK, StageWB, StageMEM, StageEX
    PROVE if_id.pc \in Word /\ IdTaken \in BOOLEAN /\ IdTarget \in Word
<1>1. if_id.instr \in Instr /\ if_id.pc \in Word
  BY DEF TypeOK, IfIdSet
<1>2. if_id.instr.rs1 \in Reg /\ if_id.instr.rs2 \in Reg
  BY <1>1 DEF Instr
<1>3. \A r \in Reg : ReadGpr(regs', r) \in Word
  BY StageWBTyped, ConstantsTyped DEF ReadGpr
<1>4. \A r \in Reg : IdOperand(r) \in Word
  BY <1>3, StageMEMTyped, StageEXTyped, ForwardedInWord DEF IdOperand
<1> QED BY <1>1, <1>2, <1>4, BranchTargetInWord DEF IdTarget, IdTaken, BranchTaken

\* ID keeps ID/EX, the stall state and the predictor typed, and leaves an
\* address in the program counter.
LEMMA StageIDTyped ==
    ASSUME TypeOK, StageWB, StageMEM, StageEX, StageID
    PROVE /\ id_ex' \in IdExSet
          /\ stall_if_id' \in BOOLEAN
          /\ stall_counter' \in 0 .. 1
          /\ predictor' \in PredictorSet(Word)
          /\ mode \in DynamicMode => predictor' \in DynamicSet(Word)
          /\ PcAfterID \in Word
<1>1. /\ if_id.kind \in Kind /\ if_id.instr \in Instr /\ if_id.pc \in Word
      /\ stall_if_id \in BOOLEAN /\ stall_counter \in 0 .. 1
  BY DEF TypeOK, IfIdSet
<1>2. if_id.instr.rs1 \in Reg /\ if_id.instr.rs2 \in Reg
  BY <1>1 DEF Instr
<1>3. \A r \in Reg : ReadGpr(regs', r) \in Word
  BY StageWBTyped, ConstantsTyped DEF ReadGpr
<1>5. id_ex' \in IdExSet
  <2>1. \A k \in Kind : IdExOf(k) \in IdExSet
    BY ConstantsTyped DEF IdExOf, IdExSet
  <2>2. IdResolves \in BOOLEAN
    BY DEF IdResolves
  <2> QED BY <1>1, <1>2, <1>3, <2>1, <2>2 DEF StageID, IdExSet, Kind
<1>6. stall_if_id' \in BOOLEAN
  BY <1>1 DEF StageID, IdStalls
<1>7. stall_counter' \in 0 .. 1
  BY <1>1, StallCyclesBound DEF StageID, IdStalls, StallPending
<1>8. IdTarget \in Word /\ IdTaken \in BOOLEAN
  BY IdTargetTyped
<1>9. /\ predictor' \in PredictorSet(Word)
      /\ mode \in DynamicMode => predictor' \in DynamicSet(Word)
  <2>1. CASE IdResolves /\ mode \in DynamicMode
    <3>1. Update(PredictorInUse, if_id.pc, IdTaken, IdTarget) \in DynamicSet(Word)
      BY <1>1, <1>8, <2>1, PredictorInUseTyped, UpdateInSet
    <3> QED BY <2>1, <3>1 DEF StageID, PredictorSet
  <2>2. CASE ~(IdResolves /\ mode \in DynamicMode)
    BY <2>2, PredictorInUseTyped DEF StageID
  <2> QED BY <2>1, <2>2
<1>10. PcAfterID \in Word
  BY <1>1, <1>8, StageEXTyped, ConstantsTyped DEF PcAfterID
<1> QED BY <1>5, <1>6, <1>7, <1>9, <1>10

\* IF keeps IF/ID and the program counter typed.
LEMMA StageIFTyped ==
    ASSUME TypeOK, StageIF, PcAfterID \in Word, mem' \in [Word -> Word],
           mode \in DynamicMode => predictor' \in DynamicSet(Word)
    PROVE if_id' \in IfIdSet /\ pc' \in Word
<1>1. Wrap(PcAfterID + 4) \in Word
  BY ConstantsTyped
<1>2. FetchTaken \in BOOLEAN
  BY DEF FetchTaken
<1>3. FetchTarget \in Word
  BY <1>1, ConstantsTyped, PredictedTargetInWord DEF FetchTarget
<1>4. ReadInstr(mem', PcAfterID) \in Instr
  BY Rv5sAssumption, ReadInstrInCode
<1>5. \A k \in Kind : IfIdOf(k) \in IfIdSet
  BY ConstantsTyped DEF IfIdOf, IfIdSet
<1>6. if_id' \in IfIdSet
  BY <1>2, <1>3, <1>4, <1>5 DEF StageIF, IfIdSet, Kind, TypeOK
<1>7. pc' \in Word
  BY <1>1, <1>3 DEF StageIF
<1> QED BY <1>6, <1>7

-----------------------------------------------------------------------------
\* The pipeline before its first cycle: what Init and RESET have in common.
Started ==
    /\ pc = 0 /\ regs = [r \in Reg |-> 0]
    /\ if_id = IfIdOf("empty") /\ id_ex = IdExOf("empty")
    /\ ex_mem = ExMemOf("empty") /\ mem_wb = MemWbOf("empty")
    /\ predictor = FreshPredictor(PredictorKind(mode))
    /\ cycle = 0 /\ retired = 0 /\ mispredictions = 0

LEMMA InitStarts == Init => Started
BY DEF Init, Started

LEMMA StartsTyped ==
    /\ Started
    /\ mode \in PipelineMode
    /\ program \in [text: Programs, data: DataImages] /\ mem \in [Word -> Word]
    /\ stall_if_id \in BOOLEAN /\ stall_counter \in 0 .. 1
    => TypeOK
<1> SUFFICES ASSUME Started, mode \in PipelineMode,
                    program \in [text: Programs, data: DataImages], mem \in [Word -> Word],
                    stall_if_id \in BOOLEAN, stall_counter \in 0 .. 1
             PROVE TypeOK
  OBVIOUS
<1>1. pc \in Word /\ regs \in [Reg -> Word]
  BY ConstantsTyped DEF Started
<1>2. /\ if_id \in IfIdSet /\ id_ex \in IdExSet
      /\ ex_mem \in ExMemSet /\ mem_wb \in MemWbSet
  BY ConstantsTyped DEF Started, IfIdOf, IfIdSet, IdExOf, IdExSet, ExMemOf, ExMemSet,
                        MemWbOf, MemWbSet, Kind
<1>3. predictor \in PredictorSet(Word)
  BY FreshInSet DEF Started
<1>4. cycle \in Counter /\ retired \in Counter /\ mispredictions \in Counter
  BY IsaAssumption DEF Started, Counter
<1> QED BY <1>1, <1>2, <1>3, <1>4 DEF TypeOK

\* What LoadProgram makes of a memory is a memory.
LEMMA LoadTyped ==
    ASSUME NEW memory \in [Word -> Word], NEW image \in [text: Programs, data: DataImages]
    PROVE LoadProgram(memory, image) \in [Word -> Word]
<1>1. image.text \in Seq(InstrWord)
  BY Rv5sAssumption
<1>2. \A a \in DOMAIN image.data : a \in Word /\ image.data[a] \in Word
  BY Rv5sAssumption
<1> QED BY <1>1, <1>2, LoadProgramTyped

LEMMA InitTyped == Init => TypeOK
<1> SUFFICES ASSUME Init PROVE TypeOK
  OBVIOUS
<1>1. /\ mode \in PipelineMode
      /\ program \in [text: Programs, data: DataImages] /\ mem \in [Word -> Word]
  BY Rv5sAssumption, ZeroMemoryReads, LoadTyped DEF Init
<1>2. stall_if_id = FALSE /\ stall_counter = 0
  BY DEF Init
<1>3. stall_if_id \in BOOLEAN
  BY <1>2, Zenon
<1>4. stall_counter \in 0 .. 1
  BY <1>2
<1> QED BY <1>1, <1>3, <1>4, InitStarts, StartsTyped

\* A cycle keeps the types.
LEMMA StepTyped == ASSUME TypeOK, Step PROVE TypeOK'
<1>1. /\ StageWB /\ StageMEM /\ StageEX /\ StageID /\ StageIF
      /\ mode' = mode /\ program' = program
      /\ cycle' = Bump(cycle)
      /\ mispredictions' = IF Flushes THEN Bump(mispredictions) ELSE mispredictions
  BY DEF Step
<1>2. cycle' \in Counter /\ mispredictions' \in Counter
  BY <1>1, BumpInCounter DEF TypeOK
<1>3. mode' \in PipelineMode /\ program' \in [text: Programs, data: DataImages]
  BY <1>1 DEF TypeOK
<1>4. regs' \in [Reg -> Word] /\ retired' \in Counter
  BY <1>1, StageWBTyped
<1>5. mem_wb' \in MemWbSet /\ mem' \in [Word -> Word]
  BY <1>1, StageMEMTyped
<1>6. ex_mem' \in ExMemSet
  BY <1>1, StageEXTyped
<1>7. /\ id_ex' \in IdExSet /\ stall_if_id' \in BOOLEAN /\ stall_counter' \in 0 .. 1
      /\ predictor' \in PredictorSet(Word) /\ PcAfterID \in Word
      /\ mode \in DynamicMode => predictor' \in DynamicSet(Word)
  BY <1>1, StageIDTyped
<1>8. if_id' \in IfIdSet /\ pc' \in Word
  BY <1>1, <1>5, <1>7, StageIFTyped
<1> QED BY <1>2, <1>3, <1>4, <1>5, <1>6, <1>7, <1>8 DEF TypeOK

(***************************************************************************)
(* Every state of the pipeline has the shape TypeOK describes; in          *)
(* particular no address leaves the 64-bit range, nothing outside the      *)
(* program is fetched, and the predictor tables are indexed in bounds.     *)
(***************************************************************************)
THEOREM TypeCorrect == Spec => []TypeOK
<1>1. Init => TypeOK
  BY InitTyped
<1>2. TypeOK /\ [Next]_vars => TypeOK'
  <2> SUFFICES ASSUME TypeOK, [Next]_vars PROVE TypeOK'
    OBVIOUS
  <2>1. CASE RunStep
    BY <2>1, StepTyped DEF RunStep
  <2>2. CASE UNCHANGED vars
    BY <2>2 DEF vars, latches, TypeOK
  <2> QED BY <2>1, <2>2 DEF Next, RunEnds
<1> QED BY <1>1, <1>2, PTL DEF Spec

-----------------------------------------------------------------------------
(***************************************************************************)
(* StallKeepsInstruction is not inductive by itself: a mode that detects   *)
(* no hazards clears stall_if_id but not stall_counter, so that a counter  *)
(* running in such a mode would outlive the stall.  It never runs there.   *)
(***************************************************************************)
StallInv == StallKeepsInstruction /\ (stall_counter > 0 => DetectsHazards)

\* A cycle that flushes, squashes or stalls preserves the discipline of the
\* stalled fetch.
LEMMA StallStep == ASSUME TypeOK, StallInv, Step PROVE StallInv'
<1>1. /\ StageID /\ StageIF /\ mode' = mode
      /\ stall_if_id \in BOOLEAN /\ stall_counter \in 0 .. 1
  BY DEF Step, TypeOK
<1>2. /\ stall_if_id => Holds(if_id) /\ id_ex.kind = "bubble"
      /\ stall_counter > 0 => stall_if_id
      /\ stall_counter > 0 => DetectsHazards
  BY DEF StallInv, StallKeepsInstruction
<1>3. DetectsHazards' = DetectsHazards
  BY <1>1 DEF DetectsHazards
<1>4. CASE IdSquashes
  <2>1. ~stall_if_id
    BY <1>2, <1>4 DEF IdSquashes, ExRedirects, Holds
  <2>2. ~stall_if_id' /\ stall_counter' = stall_counter
    BY <1>1, <1>4, <2>1 DEF StageID, IdStalls
  <2> QED BY <1>1, <1>2, <2>1, <2>2 DEF StallInv, StallKeepsInstruction
<1>5. CASE IdStalls
  <2>1. ~IdSquashes /\ DetectsHazards /\ Holds(if_id)
    BY <1>1, <1>2, <1>5 DEF IdStalls, StallPending, StallCycles
  <2>2. ~Flushes
    BY <1>5, <2>1 DEF Flushes, IdSquashes, IdRedirects, IdResolves, IdDecodes
  <2>3. stall_if_id' /\ id_ex'.kind = "bubble"
    BY <1>1, <1>5, <2>1 DEF StageID, IdExOf
  <2>4. if_id' = if_id
    BY <1>1, <2>2, <2>3 DEF StageIF
  <2> QED BY <1>3, <2>1, <2>3, <2>4 DEF StallInv, StallKeepsInstruction, Holds
<1>6. CASE ~IdSquashes /\ ~IdStalls
  <2>1. ~stall_if_id' /\ stall_counter' = stall_counter
    BY <1>1, <1>6 DEF StageID
  <2>2. stall_counter = 0
    BY <1>1, <1>2, <1>6 DEF IdStalls, StallPending
  <2> QED BY <1>1, <2>1, <2>2 DEF StallInv, StallKeepsInstruction
<1> QED BY <1>4, <1>5, <1>6

\* A stalled fetch always has an instruction that waits and a bubble ahead
\* of it, so that clearing the stall is never skipped by stageID.
THEOREM StallCorrect == Spec => []StallKeepsInstruction
<1>1. Init => StallInv
  BY DEF Init, StallInv, StallKeepsInstruction
<1>2. TypeOK /\ StallInv /\ [Next]_vars => StallInv'
  <2>1. ASSUME TypeOK, StallInv, RunStep PROVE StallInv'
    BY <2>1, StallStep DEF RunStep
  <2>2. ASSUME StallInv, UNCHANGED vars PROVE StallInv'
    BY <2>2 DEF vars, latches, StallInv, StallKeepsInstruction, Holds, DetectsHazards
  <2> QED BY <2>1, <2>2 DEF Next, RunEnds
<1>3. StallInv => StallKeepsInstruction
  BY DEF StallInv
<1> QED BY <1>1, <1>2, <1>3, TypeCorrect, PTL DEF Spec

-----------------------------------------------------------------------------
(***************************************************************************)
(* BtbKnowsOnlyJumps needs to know where the instruction ID resolves came  *)
(* from: a jump in IF/ID is what memory has at the address beside it, as   *)
(* long as no store outdates jumps where there is a BTB.                   *)
(***************************************************************************)
IfIdInText == Holds(if_id) => if_id.pc < ProgramSize(program)
JumpFromText ==
    Holds(if_id) /\ HasBtb /\ IsControlFlow(if_id.instr) =>
        if_id.instr = ReadInstr(mem, if_id.pc)

\* What a BTB knows is right when it was right before and the one entry that
\* changed was left by the control-flow instruction at its address, which is
\* one of some addresses of the program.
EntriesAreJumps(memory, btb, places) ==
    \A e \in TableIndex : btb[e].valid => \E at \in places : IsEntryOf(memory, btb[e], e, at)

JumpsKnown(places) ==
    predictor.kind \in DynamicKind => EntriesAreJumps(mem, predictor.btb, places)

\* Training leaves the BTB alone, and update() then records the target.
LEMMA UpdateBtb ==
    ASSUME NEW p \in DynamicSet(Word), NEW pc0 \in Word, NEW taken \in BOOLEAN, NEW target \in Word
    PROVE Update(p, pc0, taken, target).btb = BtbUpdate(p.btb, pc0, target)
<1>1. CASE p \in OneBitSet(Word)
  BY <1>1 DEF Update, TrainBht, OneBitSet
<1>2. CASE p \in TwoBitSet(Word)
  BY <1>2 DEF Update, TrainBht, TwoBitSet
<1>3. CASE p \in GshareSet(Word)
  BY <1>3 DEF Update, TrainBht, GshareSet
<1>4. CASE p \in PerceptronSet(Word)
  BY <1>4 DEF Update, TrainBht, PerceptronSet
<1> QED BY <1>1, <1>2, <1>3, <1>4 DEF DynamicSet

\* A predictor of one of the four kinds is in the set of those.
LEMMA KindIsDynamic ==
    ASSUME NEW p \in PredictorSet(Word)
    PROVE /\ p \in DynamicSet(Word) <=> p.kind \in DynamicKind
          /\ p \in DynamicSet(Word) => p.btb \in BtbSet(Word)
BY DEF PredictorSet, DynamicSet, OneBitSet, TwoBitSet, GshareSet, PerceptronSet,
       NoPredictor, DynamicKind

\* A fresh predictor knows nothing.
LEMMA FreshBtb == ASSUME NEW kind \in DynamicKind PROVE FreshPredictor(kind).btb = EmptyBtb
<1>1. CASE kind = "onebit"
  BY <1>1 DEF FreshPredictor
<1>2. CASE kind = "twobit"
  BY <1>2 DEF FreshPredictor
<1>3. CASE kind = "gshare"
  BY <1>3 DEF FreshPredictor
<1>4. CASE kind = "perceptron"
  BY <1>4 DEF FreshPredictor
<1> QED BY <1>1, <1>2, <1>3, <1>4 DEF DynamicKind

\* A BTB without valid entries knows nothing but jumps.
LEMMA EmptyEntries == ASSUME NEW memory, NEW places PROVE EntriesAreJumps(memory, EmptyBtb, places)
BY DEF EntriesAreJumps, EmptyBtb, EmptyEntry

\* Recording the instruction in IF/ID records a jump of the program.
LEMMA RecordJump ==
    ASSUME TypeOK, if_id.instr = ReadInstr(mem, if_id.pc), IsControlFlow(if_id.instr),
           NEW places, if_id.pc \in places,
           NEW btb \in BtbSet(Word), EntriesAreJumps(mem, btb, places),
           NEW target \in Word,
           if_id.instr.op # "JALR" => target = Wrap(if_id.pc + if_id.instr.imm)
    PROVE EntriesAreJumps(mem, BtbUpdate(btb, if_id.pc, target), places)
<1> DEFINE updated == BtbUpdate(btb, if_id.pc, target)
<1>1. if_id.instr = ReadInstr(mem, if_id.pc)
  OBVIOUS
<1>2. SUFFICES ASSUME NEW e \in TableIndex, updated[e].valid
               PROVE \E at \in places : IsEntryOf(mem, updated[e], e, at)
  BY DEF EntriesAreJumps
<1>3. CASE e = IndexOf(if_id.pc)
  <2>1. updated[e] = [valid |-> TRUE, tag |-> TagOf(if_id.pc), target |-> target]
    BY <1>3 DEF BtbUpdate, BtbSet
  <2>2. IsEntryOf(mem, updated[e], e, if_id.pc)
    BY <1>1, <1>3, <2>1 DEF IsEntryOf
  <2> QED BY <1>1, <2>2
<1>4. CASE e # IndexOf(if_id.pc)
  <2>1. updated[e] = btb[e]
    BY <1>4 DEF BtbUpdate, BtbSet
  <2> QED BY <1>2, <2>1 DEF EntriesAreJumps
<1> QED BY <1>3, <1>4

\* A BTB is there after a cycle only where one was before, or is in use.
LEMMA BtbWasThere == ASSUME TypeOK, Step, HasBtb' PROVE HasBtb
<1>1. /\ mode' = mode /\ StageID
  BY DEF Step
<1>2. CASE mode \in DynamicMode
  BY <1>2 DEF HasBtb
<1>3. CASE mode \notin DynamicMode
  <2>1. predictor' = predictor
    BY <1>1, <1>3 DEF StageID, PredictorInUse
  <2> QED BY <1>1, <1>3, <2>1 DEF HasBtb
<1> QED BY <1>2, <1>3

\* Where jumps are spared, memory goes on saying what the BTB knows.
LEMMA JumpSpared ==
    ASSUME SparesJumps, HasBtb, Step, NEW at \in InText, IsControlFlow(ReadInstr(mem, at))
    PROVE ReadInstr(mem', at) = ReadInstr(mem, at)
<1>1. mem' = MemAfterMEM
  BY DEF Step, StageMEM
<1> QED BY <1>1 DEF SparesJumps, SparesInstr

LEMMA EntriesSpared ==
    ASSUME SparesJumps, HasBtb, Step, NEW places, places \subseteq InText,
           NEW btb, EntriesAreJumps(mem, btb, places)
    PROVE EntriesAreJumps(mem', btb, places)
<1> SUFFICES ASSUME NEW e \in TableIndex, btb[e].valid
             PROVE \E at \in places : IsEntryOf(mem', btb[e], e, at)
  BY DEF EntriesAreJumps
<1>1. PICK at \in places : IsEntryOf(mem, btb[e], e, at)
  BY DEF EntriesAreJumps
<1>2. ReadInstr(mem', at) = ReadInstr(mem, at)
  BY <1>1, JumpSpared DEF IsEntryOf
<1> QED BY <1>1, <1>2 DEF IsEntryOf

\* A cycle leaves in the BTB what it found there and the jump ID resolved,
\* in the memory as it was before the cycle.
LEMMA JumpsRecorded ==
    ASSUME TypeOK, TypeOK', JumpFromText, Step, NEW places, JumpsKnown(places),
           Holds(if_id) /\ mode \in DynamicMode => if_id.pc \in places
    PROVE predictor'.kind \in DynamicKind => EntriesAreJumps(mem, predictor'.btb, places)
<1>1. /\ StageWB /\ StageMEM /\ StageEX /\ StageID /\ StageIF
      /\ program' = program /\ mode' = mode
  BY DEF Step
<1>3. predictor \in PredictorSet(Word) /\ PredictorInUse \in PredictorSet(Word)
  BY PredictorInUseTyped DEF TypeOK
<1>4. ASSUME PredictorInUse \in DynamicSet(Word)
      PROVE EntriesAreJumps(mem, PredictorInUse.btb, places)
  <2>1. CASE predictor = NoPredictor /\ mode \in DynamicMode
    <3>1. PredictorKind(mode) \in DynamicKind
      BY <2>1 DEF DynamicMode, PredictorKind, DynamicKind
    <3>2. PredictorInUse.btb = EmptyBtb
      BY <2>1, <3>1, FreshBtb DEF PredictorInUse
    <3> QED BY <3>2, EmptyEntries
  <2>2. CASE ~(predictor = NoPredictor /\ mode \in DynamicMode)
    <3>1. PredictorInUse = predictor
      BY <2>2 DEF PredictorInUse
    <3>2. predictor.kind \in DynamicKind
      BY <1>3, <1>4, <3>1, KindIsDynamic
    <3> QED BY <3>1, <3>2 DEF JumpsKnown
  <2> QED BY <2>1, <2>2
<1>5. ASSUME predictor' \in DynamicSet(Word) PROVE EntriesAreJumps(mem, predictor'.btb, places)
  <2>1. CASE IdResolves /\ mode \in DynamicMode
    <3>1. PredictorInUse \in DynamicSet(Word)
      BY <2>1, PredictorInUseTyped
    <3>2. Holds(if_id) /\ IsControlFlow(if_id.instr) /\ if_id.pc \in places
      BY <2>1 DEF IdResolves, IdDecodes
    <3>7. if_id.instr = ReadInstr(mem, if_id.pc)
      BY <2>1, <3>2 DEF JumpFromText, HasBtb
    <3>3. if_id.pc \in Word /\ IdTaken \in BOOLEAN /\ IdTarget \in Word
      BY <1>1, <2>1, IdTargetTyped
    <3>4. predictor'.btb = BtbUpdate(PredictorInUse.btb, if_id.pc, IdTarget)
      BY <1>1, <2>1, <3>1, <3>3, UpdateBtb DEF StageID
    <3>5. if_id.instr.op # "JALR" => IdTarget = Wrap(if_id.pc + if_id.instr.imm)
      BY DEF IdTarget, BranchTarget
    <3>6. PredictorInUse.btb \in BtbSet(Word)
      BY <1>3, <3>1, KindIsDynamic
    <3> QED BY <1>4, <3>1, <3>2, <3>3, <3>4, <3>5, <3>6, <3>7, RecordJump
  <2>2. CASE ~(IdResolves /\ mode \in DynamicMode)
    BY <1>1, <1>4, <1>5, <2>2 DEF StageID
  <2> QED BY <2>1, <2>2
<1> QED BY <1>5, KindIsDynamic DEF TypeOK

\* The memory it leaves says the same of these entries.
LEMMA JumpsStep ==
    ASSUME TypeOK, TypeOK', JumpFromText, SparesJumps, Step,
           NEW places, places \subseteq InText, JumpsKnown(places),
           Holds(if_id) /\ mode \in DynamicMode => if_id.pc \in places
    PROVE predictor'.kind \in DynamicKind => EntriesAreJumps(mem', predictor'.btb, places)
<1> SUFFICES ASSUME predictor'.kind \in DynamicKind
             PROVE EntriesAreJumps(mem', predictor'.btb, places)
  OBVIOUS
<1>1. EntriesAreJumps(mem, predictor'.btb, places)
  BY JumpsRecorded
<1>2. HasBtb
  BY BtbWasThere DEF HasBtb
<1> QED BY <1>1, <1>2, EntriesSpared

\* IF fetches from inside the program, and what memory has there.
LEMMA FetchFromText == ASSUME IfIdInText, Step PROVE IfIdInText'
BY DEF Step, IfIdInText, StageIF, Holds, IfIdOf, Fetches

LEMMA JumpFetched ==
    ASSUME TypeOK, IfIdInText, JumpFromText, SparesJumps, Step PROVE JumpFromText'
<1> SUFFICES ASSUME Holds(if_id'), HasBtb', IsControlFlow(if_id'.instr)
             PROVE if_id'.instr = ReadInstr(mem', if_id'.pc)
  BY DEF JumpFromText
<1>1. StageIF /\ HasBtb
  BY BtbWasThere DEF Step
<1>2. CASE if_id' = if_id
  <2>1. if_id.instr = ReadInstr(mem, if_id.pc) /\ if_id.pc \in InText
    BY <1>1, <1>2 DEF JumpFromText, IfIdInText, InText, TypeOK, IfIdSet
  <2>2. ReadInstr(mem', if_id.pc) = ReadInstr(mem, if_id.pc)
    BY <1>1, <1>2, <2>1, JumpSpared
  <2> QED BY <1>2, <2>1, <2>2
<1>3. CASE if_id' # if_id
  BY <1>1, <1>3 DEF StageIF, Holds, IfIdOf
<1> QED BY <1>2, <1>3

BtbInv == IfIdInText /\ JumpFromText /\ BtbKnowsOnlyJumps

LEMMA BtbInText == TypeOK => (BtbKnowsOnlyJumps <=> JumpsKnown(InText))
BY DEF BtbKnowsOnlyJumps, JumpsKnown, EntriesAreJumps

LEMMA BtbStep == ASSUME TypeOK, TypeOK', BtbInv, SparesJumps, Step PROVE BtbInv'
<1>1. program' = program /\ IfIdInText' /\ JumpFromText'
  BY FetchFromText, JumpFetched DEF Step, BtbInv
<1>2. Holds(if_id) => if_id.pc \in InText
  BY DEF BtbInv, IfIdInText, InText, TypeOK, IfIdSet
<1>3. predictor'.kind \in DynamicKind => EntriesAreJumps(mem', predictor'.btb, InText)
  BY <1>2, BtbInText, JumpsStep DEF BtbInv
<1>4. InText' = InText
  BY <1>1 DEF InText, ProgramSize
<1>5. BtbKnowsOnlyJumps'
  BY <1>3, <1>4 DEF BtbKnowsOnlyJumps, EntriesAreJumps
<1> QED BY <1>1, <1>5 DEF BtbInv

\* In a run whose stores spare the jumps, an entry of the BTB was left by a
\* jump of the program, with the target the jump computes.
THEOREM BtbCorrect == Spec /\ []SparesJumps => []BtbKnowsOnlyJumps
<1>1. Init => BtbInv
  <2> SUFFICES ASSUME Init PROVE BtbInv
    OBVIOUS
  <2>1. IfIdInText /\ JumpFromText
    BY DEF Init, IfIdInText, JumpFromText, Holds, IfIdOf
  <2>2. ASSUME predictor.kind \in DynamicKind PROVE EntriesAreJumps(mem, predictor.btb, InText)
    <3>1. CASE PredictorKind(mode) \in DynamicKind
      BY <3>1, FreshBtb, EmptyEntries DEF Init
    <3>2. CASE PredictorKind(mode) \notin DynamicKind
      BY <2>2, <3>2 DEF Init, FreshPredictor, NoPredictor, DynamicKind
    <3> QED BY <3>1, <3>2
  <2> QED BY <2>1, <2>2 DEF BtbInv, BtbKnowsOnlyJumps, EntriesAreJumps
<1>2. TypeOK /\ TypeOK' /\ SparesJumps /\ BtbInv /\ [Next]_vars => BtbInv'
  <2>1. ASSUME TypeOK, TypeOK', SparesJumps, BtbInv, RunStep PROVE BtbInv'
    BY <2>1, BtbStep DEF RunStep
  <2>2. ASSUME BtbInv, UNCHANGED vars PROVE BtbInv'
    BY <2>2 DEF vars, latches, BtbInv, IfIdInText, JumpFromText, HasBtb, BtbKnowsOnlyJumps,
                InText, IsEntryOf, Holds
  <2> QED BY <2>1, <2>2 DEF Next, RunEnds
<1>3. BtbInv => BtbKnowsOnlyJumps
  BY DEF BtbInv
<1> QED BY <1>1, <1>2, <1>3, TypeCorrect, PTL DEF Spec
=============================================================================
