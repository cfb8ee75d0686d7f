--------------------------- MODULE Rv5sRefinement ---------------------------
(***************************************************************************)
(* The pipeline implements the single-cycle machine: stalls, forwarding,   *)
(* early branch resolution and prediction with any of the predictors       *)
(* change when an instruction takes effect and never what it does.  The    *)
(* invariant follows the program from the oldest instruction in flight to  *)
(* the program counter: what each holds, what it has read, where the next  *)
(* one comes from.  What a program must not do to its own instructions for *)
(* this to hold is said in Rv5sCorrect.                                    *)
(***************************************************************************)
EXTENDS Rv5sProofs

\* The address that follows ID/EX, and the one that follows EX/MEM.
AfterID == IF Holds(if_id) THEN if_id.pc ELSE pc
AfterEX == IF Holds(id_ex) THEN id_ex.pc ELSE AfterID

\* Instructions in flight come from inside the program.
InProgram(latch) == Holds(latch) => latch.pc < ProgramSize(program)
LatchesInProgram == InProgram(if_id) /\ InProgram(id_ex) /\ InProgram(ex_mem)

\* They are what memory has at their addresses, now as when they were fetched.
AsInMemory(latch) == Holds(latch) => latch.instr = ReadInstr(mem, latch.pc)
CodeInv == AsInMemory(if_id) /\ AsInMemory(id_ex) /\ AsInMemory(ex_mem)

\* ID has read the register file as it is now.
OperandsRead ==
    Holds(id_ex) => /\ id_ex.a = ReadGpr(regs, id_ex.instr.rs1)
                    /\ id_ex.b = ReadGpr(regs, id_ex.instr.rs2)

\* What EX needs and the register file does not hold can be forwarded.
HazardFree ==
    Holds(id_ex) =>
        IF Forwards
        THEN DependsOn(id_ex.instr, ex_mem) => ~MemRead(ex_mem.instr)
        ELSE ~DependsOn(id_ex.instr, ex_mem) /\ ~DependsOn(id_ex.instr, mem_wb)

\* Where the instruction in EX goes, by the operands EX sees.
ExSuccessor ==
    IF BranchTaken(id_ex.instr, ExResult)
    THEN BranchTarget(id_ex.instr, id_ex.pc, OperandA)
    ELSE Wrap(id_ex.pc + 4)

DecodeInv ==
    Holds(id_ex) =>
        /\ id_ex.resolved <=> mode \in PredictionMode /\ IsControlFlow(id_ex.instr)
        /\ AfterID = IF id_ex.resolved THEN ExSuccessor ELSE Wrap(id_ex.pc + 4)

FetchInv ==
    Holds(if_id) =>
        /\ if_id.taken => mode \in DynamicMode /\ IsControlFlow(if_id.instr)
        /\ pc = IF if_id.taken THEN if_id.target ELSE Wrap(if_id.pc + 4)

\* What the pipeline makes of an instruction at an address, on a bank of
\* registers.
ResultOn(i, bank) ==
    Alu(AluSignal5(i), ReadGpr(bank, i.rs1), IF AluSrc(i) THEN i.imm ELSE ReadGpr(bank, i.rs2))
ValueOn(i, at, bank) ==
    CASE i.op = "LUI" -> Wrap(i.imm * UShift)
      [] i.op = "AUIPC" -> Wrap(at + i.imm * UShift)
      [] i.op \in {"JAL", "JALR"} -> Wrap(at + 4)
      [] OTHER -> ResultOn(i, bank)
SuccessorOn(i, at, bank) ==
    IF BranchTaken(i, ResultOn(i, bank))
    THEN BranchTarget(i, at, ReadGpr(bank, i.rs1))
    ELSE Wrap(at + 4)

\* EX has computed on the registers that the older instructions leave.
ExecuteInv ==
    Holds(ex_mem) =>
        /\ ex_mem.result = ValueOn(ex_mem.instr, ex_mem.pc, ArchRegs)
        /\ MemWrite(ex_mem.instr) => ex_mem.data = ReadGpr(ArchRegs, ex_mem.instr.rs2)
        /\ AfterEX = SuccessorOn(ex_mem.instr, ex_mem.pc, ArchRegs)

\* The BTB was filled from aligned addresses.
AlignedText == {at \in InText : at % 4 = 0}

FlowInv ==
    /\ LatchesInProgram /\ JumpFromText
    /\ OperandsRead /\ FetchInv /\ DecodeInv
    /\ JumpsKnown(AlignedText)

DataInv == HazardFree /\ ExecuteInv

-----------------------------------------------------------------------------
(***************************************************************************)
(* One cycle: the registers the younger instructions must see.             *)
(***************************************************************************)
LEMMA RegistersAfter ==
    ASSUME TypeOK, Step, NEW r \in Reg
    PROVE ReadGpr(ArchRegs', r) =
            IF Writes(ex_mem, r)
            THEN IF MemRead(ex_mem.instr) THEN mem[ex_mem.result] ELSE ex_mem.result
            ELSE IF Writes(mem_wb, r) THEN WbValue(mem_wb) ELSE ReadGpr(regs, r)
<1>1. /\ regs' = [q \in Reg |-> IF Writes(mem_wb, q) THEN WbValue(mem_wb) ELSE regs[q]]
      /\ mem_wb' = IF Holds(ex_mem)
                   THEN [kind |-> "instr", instr |-> ex_mem.instr, result |-> ex_mem.result,
                         data |-> IF MemRead(ex_mem.instr) THEN mem[ex_mem.result] ELSE 0]
                   ELSE MemWbOf(ex_mem.kind)
  BY DEF Step, StageWB, StageMEM
<1>2. ArchRegs'[r] = IF Writes(mem_wb', r) THEN WbValue(mem_wb') ELSE regs'[r]
  BY DEF ArchRegs
<1>3. CASE Writes(ex_mem, r)
  <2>1. Writes(mem_wb', r) /\ r # 0
    BY <1>1, <1>3 DEF Writes, Holds
  <2>2. WbValue(mem_wb') = IF MemRead(ex_mem.instr) THEN mem[ex_mem.result] ELSE ex_mem.result
    BY <1>1, <1>3 DEF Writes, WbValue, MemRead
  <2> QED BY <1>2, <1>3, <2>1, <2>2 DEF ReadGpr
<1>4. CASE ~Writes(ex_mem, r)
  <2>1. ~Writes(mem_wb', r)
    BY <1>1, <1>4 DEF Writes, Holds, MemWbOf, NopInstr
  <2>2. Writes(mem_wb, r) => r # 0
    BY DEF Writes
  <2> QED BY <1>1, <1>2, <1>4, <2>1, <2>2 DEF ReadGpr
<1> QED BY <1>3, <1>4

\* The forwarding unit finds them, unless a load has not read its value yet.
LEMMA ForwardedRight ==
    ASSUME TypeOK, Step, NEW r \in Reg, ~(Writes(ex_mem, r) /\ MemRead(ex_mem.instr))
    PROVE Forwarded(r, ReadGpr(regs, r), ex_mem, mem_wb) = ReadGpr(ArchRegs', r)
BY RegistersAfter DEF Forwarded

\* EX computes on them.
LEMMA OperandsRight ==
    ASSUME TypeOK, Step, OperandsRead, HazardFree, Holds(id_ex)
    PROVE /\ UsesRs1(id_ex.instr) => OperandA = ReadGpr(ArchRegs', id_ex.instr.rs1)
          /\ UsesRs2(id_ex.instr) => OperandB = ReadGpr(ArchRegs', id_ex.instr.rs2)
<1>1. id_ex.instr.rs1 \in Reg /\ id_ex.instr.rs2 \in Reg
  BY DEF TypeOK, IdExSet, Instr
<1>2. id_ex.a = ReadGpr(regs, id_ex.instr.rs1) /\ id_ex.b = ReadGpr(regs, id_ex.instr.rs2)
  BY DEF OperandsRead
<1>3. CASE Forwards
  <2>1. DependsOn(id_ex.instr, ex_mem) => ~MemRead(ex_mem.instr)
    BY <1>3 DEF HazardFree
  <2>2. /\ OperandA = Forwarded(id_ex.instr.rs1, id_ex.a, ex_mem, mem_wb)
        /\ OperandB = Forwarded(id_ex.instr.rs2, id_ex.b, ex_mem, mem_wb)
    BY <1>3 DEF OperandA, OperandB
  <2> QED BY <1>1, <1>2, <2>1, <2>2, ForwardedRight DEF DependsOn
<1>4. CASE ~Forwards
  <2>1. ~DependsOn(id_ex.instr, ex_mem) /\ ~DependsOn(id_ex.instr, mem_wb)
    BY <1>4 DEF HazardFree
  <2>2. OperandA = id_ex.a /\ OperandB = id_ex.b
    BY <1>4 DEF OperandA, OperandB
  <2> QED BY <1>1, <1>2, <2>1, <2>2, RegistersAfter DEF DependsOn
<1> QED BY <1>3, <1>4

\* Its result is what the instruction computes there.
LEMMA ExecuteRight ==
    ASSUME TypeOK, Step, OperandsRead, HazardFree, Holds(id_ex)
    PROVE /\ ExResult = ValueOn(id_ex.instr, id_ex.pc, ArchRegs')
          /\ MemWrite(id_ex.instr) => OperandB = ReadGpr(ArchRegs', id_ex.instr.rs2)
          /\ ExSuccessor = SuccessorOn(id_ex.instr, id_ex.pc, ArchRegs')
<1> DEFINE i == id_ex.instr
           result == Alu(AluSignal5(i), OperandA, IF AluSrc(i) THEN i.imm ELSE OperandB)
<1>1. /\ UsesRs1(i) => OperandA = ReadGpr(ArchRegs', i.rs1)
      /\ UsesRs2(i) => OperandB = ReadGpr(ArchRegs', i.rs2)
  BY OperandsRight
<1>2. i.op \in Class
  BY DEF TypeOK, IdExSet, Instr
<1>3. i.op \in {"R", "I", "LOAD", "STORE", "BRANCH", "JALR"} => result = ResultOn(i, ArchRegs')
  BY <1>1 DEF UsesRs1, UsesRs2, ResultOn, AluSrc
<1>4. i.op = "OTHER" => result = 0 /\ ResultOn(i, ArchRegs') = 0
  BY DEF AluSignal5, Alu, ResultOn
<1>5. ExResult = ValueOn(i, id_ex.pc, ArchRegs')
  BY <1>2, <1>3, <1>4 DEF ExResult, ValueOn, Class
<1>6. MemWrite(i) => OperandB = ReadGpr(ArchRegs', i.rs2)
  BY <1>1 DEF MemWrite, UsesRs2
<1>7. BranchTaken(i, ExResult) = BranchTaken(i, ResultOn(i, ArchRegs'))
  BY <1>5 DEF BranchTaken, ValueOn
<1>8. BranchTarget(i, id_ex.pc, OperandA) = BranchTarget(i, id_ex.pc, ReadGpr(ArchRegs', i.rs1))
  BY <1>1 DEF BranchTarget, UsesRs1
<1> QED BY <1>5, <1>6, <1>7, <1>8 DEF ExSuccessor, SuccessorOn

-----------------------------------------------------------------------------
(***************************************************************************)
(* One cycle: where the program goes on.                                   *)
(***************************************************************************)
\* What ID leaves in ID/EX is a bubble, nothing, or what IF/ID held.
LEMMA Decoded ==
    ASSUME TypeOK, Step, Holds(id_ex')
    PROVE /\ IdDecodes /\ ~ExRedirects /\ Holds(if_id) /\ ~stall_if_id'
          /\ id_ex'.instr = if_id.instr /\ id_ex'.pc = if_id.pc
          /\ id_ex'.a = ReadGpr(regs', if_id.instr.rs1)
          /\ id_ex'.b = ReadGpr(regs', if_id.instr.rs2)
          /\ id_ex'.resolved = IdResolves
<1>1. StageID
  BY DEF Step
<1>2. ~IdSquashes /\ ~IdStalls /\ IdDecodes
  BY <1>1 DEF StageID, Holds, IdExOf
<1> QED BY <1>1, <1>2 DEF StageID, IdSquashes, IdDecodes

\* Without a flush IF/ID and the program counter move on together.
LEMMA FetchMovesOn ==
    ASSUME Step, ~Flushes, stall_if_id' \/ ~Holds(if_id) \/ IdDecodes
    PROVE AfterID' = IF stall_if_id' THEN AfterID ELSE pc
<1>1. /\ StageIF /\ PcAfterID = pc
  BY DEF Step, Flushes, PcAfterID, PcAfterEX
<1>2. CASE stall_if_id'
  BY <1>1, <1>2 DEF StageIF, Fetches, AfterID, Holds
<1>3. CASE ~stall_if_id'
  BY <1>1, <1>3 DEF StageIF, Fetches, AfterID, Holds, IfIdOf
<1> QED BY <1>2, <1>3

\* Unless EX redirects it, what followed ID/EX follows EX/MEM a cycle later.
LEMMA FlowsOn == ASSUME TypeOK, Step, ~ExRedirects PROVE AfterEX' = AfterID
<1>1. StageID
  BY DEF Step
<1>2. CASE IdDecodes
  BY <1>1, <1>2 DEF StageID, IdDecodes, AfterEX, AfterID, Holds
<1>3. CASE ~IdDecodes
  <2>1. ~Holds(id_ex')
    BY <1>3, Decoded
  <2>2. ~Flushes
    BY <1>3 DEF Flushes, IdRedirects, IdResolves
  <2>3. stall_if_id' \/ ~Holds(if_id)
    BY <1>1, <1>3 DEF StageID, IdDecodes, IdSquashes, Holds
  <2>4. AfterID' = IF stall_if_id' THEN AfterID ELSE pc
    BY <2>2, <2>3, FetchMovesOn
  <2> QED BY <2>1, <2>3, <2>4 DEF AfterEX, AfterID
<1> QED BY <1>2, <1>3

\* If EX redirects it, nothing younger is left and IF starts at the target.
LEMMA Redirected ==
    ASSUME TypeOK, Step, ExRedirects
    PROVE AfterEX' = BranchTarget(id_ex.instr, id_ex.pc, OperandA)
<1>1. StageID /\ StageIF
  BY DEF Step
<1>2. ~IdRedirects /\ IdSquashes /\ Flushes
  BY DEF IdRedirects, IdResolves, IdDecodes, IdSquashes, Flushes
<1>3. ~Holds(id_ex') /\ ~Holds(if_id') /\ ~Fetches
  BY <1>1, <1>2 DEF StageID, StageIF, IdExOf, IfIdOf, Holds, Fetches
<1>4. pc' = BranchTarget(id_ex.instr, id_ex.pc, OperandA)
  BY <1>1, <1>2, <1>3 DEF StageIF, PcAfterID, PcAfterEX
<1> QED BY <1>3, <1>4 DEF AfterEX, AfterID

\* Either way the program goes on where the instruction in EX sends it.
LEMMA GoesToSuccessor ==
    ASSUME TypeOK, Step, DecodeInv, Holds(id_ex) PROVE AfterEX' = ExSuccessor
<1>1. CASE ExRedirects
  BY <1>1, Redirected DEF ExRedirects, ExSuccessor
<1>2. CASE ~ExRedirects
  BY <1>2, FlowsOn DEF ExRedirects, ExSuccessor, DecodeInv
<1> QED BY <1>1, <1>2

-----------------------------------------------------------------------------
(***************************************************************************)
(* One cycle keeps each part of the invariant.                             *)
(***************************************************************************)
LEMMA InProgramStep == ASSUME TypeOK, LatchesInProgram, Step PROVE LatchesInProgram'
<1>1. StageEX /\ program' = program
  BY DEF Step
<1>2. InProgram(if_id)'
  BY FetchFromText DEF LatchesInProgram, InProgram, IfIdInText
<1>3. InProgram(id_ex)'
  BY <1>1, Decoded DEF LatchesInProgram, InProgram
<1>4. InProgram(ex_mem)'
  BY <1>1 DEF StageEX, LatchesInProgram, InProgram, Holds, ExMemOf
<1> QED BY <1>2, <1>3, <1>4 DEF LatchesInProgram

\* A store that spares the younger instructions leaves memory saying what
\* they are.
LEMMA CodeStep == ASSUME TypeOK, CodeInv, SparesFlight, Step PROVE CodeInv'
<1>1. /\ StageEX /\ StageIF /\ mem' = MemAfterMEM
  BY DEF Step, StageMEM
<1>2. /\ Holds(if_id) => ReadInstr(mem', if_id.pc) = if_id.instr
      /\ Holds(id_ex) => ReadInstr(mem', id_ex.pc) = id_ex.instr
  BY <1>1 DEF CodeInv, AsInMemory, SparesFlight, SparesInstr
<1>3. AsInMemory(if_id)'
  <2>1. CASE if_id' = if_id
    BY <1>2, <2>1 DEF AsInMemory
  <2>2. CASE if_id' # if_id
    BY <1>1, <2>2 DEF StageIF, AsInMemory, Holds, IfIdOf
  <2> QED BY <2>1, <2>2
<1>4. AsInMemory(id_ex)'
  BY <1>2, Decoded DEF AsInMemory
<1>5. AsInMemory(ex_mem)'
  BY <1>1, <1>2 DEF StageEX, AsInMemory, Holds, ExMemOf
<1> QED BY <1>3, <1>4, <1>5 DEF CodeInv

LEMMA OperandsStep == ASSUME TypeOK, Step PROVE OperandsRead'
BY Decoded DEF OperandsRead

LEMMA HazardStep == ASSUME TypeOK, Step, KeepsApart' PROVE HazardFree'
<1>1. SUFFICES ASSUME Holds(id_ex')
               PROVE IF Forwards'
                     THEN DependsOn(id_ex'.instr, ex_mem') => ~MemRead(ex_mem'.instr)
                     ELSE ~DependsOn(id_ex'.instr, ex_mem') /\ ~DependsOn(id_ex'.instr, mem_wb')
  BY DEF HazardFree
<1>2. mode' = mode /\ StageEX /\ StageMEM
  BY DEF Step
<1>3. Forwards' = Forwards
  BY <1>2 DEF Forwards
<1>4. DetectsHazards => Holds(if_id) /\ StallCycles \in Nat /\ ~(StallCycles > 0)
  BY <1>1, Decoded, StallCyclesBound DEF IdDecodes, IdStalls
<1>5. id_ex'.instr = if_id.instr
  BY <1>1, Decoded
<1>6. DependsOn(if_id.instr, ex_mem') <=> DependsOn(if_id.instr, id_ex)
  BY <1>2 DEF StageEX, DependsOn, Writes, Holds, ExMemOf, NopInstr
<1>7. DependsOn(if_id.instr, mem_wb') <=> DependsOn(if_id.instr, ex_mem)
  BY <1>2 DEF StageMEM, DependsOn, Writes, Holds, MemWbOf, NopInstr
<1>8. DependsOn(if_id.instr, id_ex) => ex_mem'.instr = id_ex.instr
  BY <1>2 DEF StageEX, DependsOn, Writes
<1>9. CASE DetectsHazards
  BY <1>3, <1>4, <1>5, <1>6, <1>7, <1>8, <1>9 DEF StallCycles
<1>10. CASE ~DetectsHazards
  BY <1>1, <1>2, <1>10 DEF DetectsHazards, KeepsApart, Forwards, PredictionMode, DynamicMode
<1> QED BY <1>9, <1>10

LEMMA ExecuteStep ==
    ASSUME TypeOK, Step, OperandsRead, HazardFree, DecodeInv PROVE ExecuteInv'
<1>1. SUFFICES ASSUME Holds(ex_mem')
               PROVE /\ ex_mem'.result = ValueOn(ex_mem'.instr, ex_mem'.pc, ArchRegs')
                     /\ MemWrite(ex_mem'.instr) =>
                          ex_mem'.data = ReadGpr(ArchRegs', ex_mem'.instr.rs2)
                     /\ AfterEX' = SuccessorOn(ex_mem'.instr, ex_mem'.pc, ArchRegs')
  BY DEF ExecuteInv
<1>2. StageEX
  BY DEF Step
<1>3. /\ Holds(id_ex)
      /\ ex_mem' = [kind |-> "instr", instr |-> id_ex.instr, pc |-> id_ex.pc,
                    result |-> ExResult, data |-> OperandB]
  BY <1>1, <1>2 DEF StageEX, Holds, ExMemOf
<1> QED BY <1>2, <1>3, ExecuteRight, GoesToSuccessor

LEMMA DecodeStep == ASSUME TypeOK, Step, FetchInv PROVE DecodeInv'
<1>1. SUFFICES ASSUME Holds(id_ex')
               PROVE /\ id_ex'.resolved <=> mode' \in PredictionMode /\ IsControlFlow(id_ex'.instr)
                     /\ AfterID' = IF id_ex'.resolved THEN ExSuccessor' ELSE Wrap(id_ex'.pc + 4)
  BY DEF DecodeInv
<1>2. mode' = mode /\ StageIF
  BY DEF Step
<1>3. /\ IdDecodes /\ ~ExRedirects /\ Holds(if_id) /\ ~stall_if_id'
      /\ id_ex'.instr = if_id.instr /\ id_ex'.pc = if_id.pc
      /\ id_ex'.a = ReadGpr(regs', if_id.instr.rs1)
      /\ id_ex'.b = ReadGpr(regs', if_id.instr.rs2)
      /\ id_ex'.resolved = IdResolves
  BY <1>1, Decoded
<1>4. id_ex'.resolved <=> mode' \in PredictionMode /\ IsControlFlow(id_ex'.instr)
  BY <1>2, <1>3 DEF IdResolves
<1>5. /\ if_id.taken => mode \in DynamicMode /\ IsControlFlow(if_id.instr)
      /\ pc = IF if_id.taken THEN if_id.target ELSE Wrap(if_id.pc + 4)
  BY <1>3 DEF FetchInv
<1>6. DynamicMode \subseteq PredictionMode
  BY DEF PredictionMode
<1>7. CASE ~IdResolves
  <2>1. ~Flushes /\ ~if_id.taken
    BY <1>3, <1>5, <1>6, <1>7 DEF Flushes, IdRedirects, IdResolves
  <2> QED BY <1>3, <1>4, <1>5, <1>7, <2>1, FetchMovesOn
<1>8. CASE IdResolves
  <2> DEFINE successor == IF IdTaken THEN IdTarget ELSE Wrap(if_id.pc + 4)
  <2>1. Forwards'
    BY <1>2, <1>8 DEF IdResolves, Forwards
  <2>2. /\ OperandA' = IdOperand(if_id.instr.rs1)
        /\ OperandB' = IdOperand(if_id.instr.rs2)
    BY <1>3, <2>1 DEF OperandA, OperandB, IdOperand
  <2>3. if_id.instr.op = "BRANCH" =>
          ExResult' = Alu(AluSignal5(if_id.instr), IdOperand(if_id.instr.rs1),
                          IdOperand(if_id.instr.rs2))
    BY <1>3, <2>2 DEF ExResult, AluSrc
  <2>4. BranchTaken(if_id.instr, ExResult') <=> IdTaken
    BY <2>3 DEF IdTaken, BranchTaken
  <2>5. BranchTarget(if_id.instr, if_id.pc, OperandA') = IdTarget
    BY <2>2 DEF IdTarget
  <2>6. ExSuccessor' = successor
    BY <1>3, <2>4, <2>5 DEF ExSuccessor
  <2>7. AfterID' = successor
    <3>1. CASE IdRedirects
      <4>1. Flushes /\ ~Fetches /\ PcAfterID = successor
        BY <3>1 DEF Flushes, Fetches, PcAfterID
      <4> QED BY <1>2, <4>1 DEF StageIF, AfterID, Holds, IfIdOf
    <3>2. CASE ~IdRedirects
      <4>1. pc = successor
        BY <1>5, <1>8, <3>2 DEF IdRedirects
      <4>2. ~Flushes
        BY <1>3, <3>2 DEF Flushes
      <4> QED BY <1>3, <4>1, <4>2, FetchMovesOn
    <3> QED BY <3>1, <3>2
  <2> QED BY <1>3, <1>4, <1>8, <2>6, <2>7
<1> QED BY <1>4, <1>7, <1>8

(***************************************************************************)
(* The BTB tells aligned addresses apart, so that what it predicts for an  *)
(* instruction was left by that instruction.                               *)
(***************************************************************************)
LEMMA SameSlot ==
    ASSUME NEW a \in Word, NEW b \in Word, a % 4 = 0, b % 4 = 0,
           IndexOf(a) = IndexOf(b), TagOf(a) = TagOf(b)
    PROVE a = b
<1>1. TableSize \in Nat \ {0} /\ a \in Nat /\ b \in Nat
  BY PredictorAssumption, IsaAssumption DEF Word
<1>2. PICK x \in Nat, y \in Nat : a = 4 * x /\ b = 4 * y
  <2>1. a \div 4 \in Nat /\ b \div 4 \in Nat /\ a = 4 * (a \div 4) /\ b = 4 * (b \div 4)
    BY <1>1
  <2> QED BY <2>1
<1>3. a \div 4 = x /\ b \div 4 = y
  BY <1>2
<1>4. CASE TableSize < 4
  BY <1>2, <1>3, <1>4 DEF TagOf, TagDivisor
<1>5. CASE TableSize >= 4
  <2> DEFINE T == TableSize
             q == a \div T
             m == x \div T
             n == y \div T
  <2>1. T \in Nat \ {0} /\ T >= 4
    BY <1>1, <1>5
  <2>2. b \div T = q /\ x % T = y % T
    BY <1>1, <1>3, <1>5 DEF TagOf, TagDivisor, IndexOf
  <2> HIDE DEF T
  <2>3. /\ q \in Nat /\ a % T \in 0 .. T - 1 /\ b % T \in 0 .. T - 1
        /\ a = T * q + (a % T) /\ b = T * q + (b % T)
    BY <1>1, <2>1, <2>2, DivMod
  <2>4. /\ m \in Nat /\ n \in Nat /\ x % T \in 0 .. T - 1
        /\ x = T * m + (x % T) /\ y = T * n + (y % T)
    BY <1>2, <2>1, DivMod
  <2> HIDE DEF q, m, n
  <2>5. T * q \in Int /\ T * m \in Int /\ T * n \in Int
    BY <2>1, <2>3, <2>4
  <2>6. x - y < T /\ y - x < T
    <3>1. PICK z \in Int, r \in 0 .. T - 1, s \in 0 .. T - 1 : a = z + r /\ b = z + s
      BY <2>3, <2>5
    <3>2. a - b < T /\ b - a < T
      BY <2>1, <3>1
    <3> QED BY <1>2, <2>1, <3>2
  <2>7. x - y = T * m - T * n
    BY <1>2, <2>2, <2>4, <2>5
  <2>8. ~(m - n >= 1)
    BY <2>1, <2>4, <2>6, <2>7, TimesMinus, TimesPositive
  <2>9. ~(n - m >= 1)
    <3>1. y - x = T * n - T * m
      BY <1>2, <2>5, <2>7
    <3> QED BY <2>1, <2>4, <2>6, <3>1, TimesMinus, TimesPositive
  <2>10. x = y
    BY <1>2, <2>4, <2>5, <2>7, <2>8, <2>9
  <2> QED BY <1>2, <2>10
<1> QED BY <1>1, <1>4, <1>5

\* A hit comes from the control flow at the address that is looked up.
LEMMA HitIsJump ==
    ASSUME NEW memory, NEW btb, EntriesAreJumps(memory, btb, AlignedText),
           NEW at \in Word, at % 4 = 0, BtbHit(btb, at)
    PROVE IsEntryOf(memory, btb[IndexOf(at)], IndexOf(at), at)
<1>1. IndexOf(at) \in TableIndex
  BY IndexInTable
<1>2. PICK from \in AlignedText : IsEntryOf(memory, btb[IndexOf(at)], IndexOf(at), from)
  BY <1>1 DEF EntriesAreJumps, BtbHit
<1>3. from = at
  BY <1>2, SameSlot DEF IsEntryOf, AlignedText, InText, BtbHit
<1> QED BY <1>2, <1>3

LEMMA AlignedJumpsStep ==
    ASSUME TypeOK, TypeOK', LatchesInProgram, JumpFromText, AlignedFetch, SparesJumps,
           JumpsKnown(AlignedText), Step
    PROVE /\ predictor'.kind \in DynamicKind => EntriesAreJumps(mem', predictor'.btb, AlignedText)
          /\ JumpsKnown(AlignedText)'
<1>1. Holds(if_id) /\ mode \in DynamicMode => if_id.pc \in AlignedText
  BY DEF AlignedFetch, AlignedText, InText, LatchesInProgram, InProgram, TypeOK, IfIdSet
<1>2. AlignedText \subseteq InText
  BY DEF AlignedText
<1>3. predictor'.kind \in DynamicKind => EntriesAreJumps(mem', predictor'.btb, AlignedText)
  BY <1>1, <1>2, JumpsStep
<1>4. AlignedText' = AlignedText
  BY DEF Step, AlignedText, InText, ProgramSize
<1> QED BY <1>3, <1>4 DEF JumpsKnown, EntriesAreJumps

LEMMA FetchStep ==
    ASSUME TypeOK, TypeOK', FlowInv, AlignedFetch, AlignedFetch', SparesJumps, Step
    PROVE FetchInv'
<1>1. /\ StageIF /\ StageID /\ mode' = mode
      /\ StageWB /\ StageMEM /\ StageEX
  BY DEF Step
<1>2. SUFFICES ASSUME Holds(if_id')
               PROVE /\ if_id'.taken => mode \in DynamicMode /\ IsControlFlow(if_id'.instr)
                     /\ pc' = IF if_id'.taken THEN if_id'.target ELSE Wrap(if_id'.pc + 4)
  BY <1>1 DEF FetchInv
<1>3. ~Flushes
  BY <1>1, <1>2 DEF StageIF, Holds, IfIdOf
<1>4. PcAfterID = pc
  BY <1>3 DEF Flushes, PcAfterID, PcAfterEX
<1>5. CASE stall_if_id'
  BY <1>1, <1>2, <1>3, <1>4, <1>5 DEF StageIF, Fetches, FlowInv, FetchInv
<1>6. CASE ~stall_if_id'
  <2>1. /\ Fetches
        /\ if_id' = [kind |-> "instr", instr |-> ReadInstr(mem', pc),
                     pc |-> pc, taken |-> FetchTaken, target |-> FetchTarget]
        /\ pc' = IF FetchTaken THEN FetchTarget ELSE Wrap(pc + 4)
    BY <1>1, <1>2, <1>3, <1>4, <1>6 DEF StageIF, Holds, IfIdOf
  <2>2. ASSUME FetchTaken PROVE mode \in DynamicMode /\ IsControlFlow(ReadInstr(mem', pc))
    <3>1. mode \in DynamicMode /\ BtbHit(predictor'.btb, pc)
      BY <1>4, <2>2 DEF FetchTaken, PredictedTaken
    <3>2. predictor' \in DynamicSet(Word)
      BY <1>1, <3>1, StageIDTyped
    <3>3. EntriesAreJumps(mem', predictor'.btb, AlignedText)
      <4>1. predictor'.kind \in DynamicKind
        BY <3>2, KindIsDynamic DEF PredictorSet
      <4> QED BY <4>1, AlignedJumpsStep DEF FlowInv
    <3>4. pc \in Word /\ pc % 4 = 0
      BY <1>1, <1>2, <2>1, <3>1 DEF AlignedFetch, TypeOK
    <3> QED BY <3>1, <3>3, <3>4, HitIsJump DEF IsEntryOf
  <2> QED BY <2>1, <2>2
<1> QED BY <1>5, <1>6

LEMMA FlowStep ==
    ASSUME TypeOK, TypeOK', AlignedFetch, AlignedFetch', SparesJumps, FlowInv, Step
    PROVE FlowInv'
<1>1. LatchesInProgram' /\ OperandsRead' /\ DecodeInv' /\ FetchInv'
  BY InProgramStep, OperandsStep, DecodeStep, FetchStep DEF FlowInv
<1>2. JumpFromText'
  BY JumpFetched DEF FlowInv, LatchesInProgram, InProgram, IfIdInText
<1>3. JumpsKnown(AlignedText)'
  BY AlignedJumpsStep DEF FlowInv
<1> QED BY <1>1, <1>2, <1>3 DEF FlowInv

LEMMA FlowStarts == Started => FlowInv /\ CodeInv /\ DataInv
<1> SUFFICES ASSUME Started PROVE FlowInv /\ CodeInv /\ DataInv
  OBVIOUS
<1>1. ~Holds(if_id) /\ ~Holds(id_ex) /\ ~Holds(ex_mem)
  BY DEF Started, Holds, IfIdOf, IdExOf, ExMemOf
<1>2. JumpsKnown(AlignedText)
  <2>1. CASE PredictorKind(mode) \in DynamicKind
    BY <2>1, FreshBtb, EmptyEntries DEF Started, JumpsKnown
  <2>2. CASE PredictorKind(mode) \notin DynamicKind
    BY <2>2 DEF Started, JumpsKnown, FreshPredictor, NoPredictor, DynamicKind
  <2> QED BY <2>1, <2>2
<1> QED BY <1>1, <1>2 DEF FlowInv, LatchesInProgram, InProgram, JumpFromText, CodeInv,
           AsInMemory, OperandsRead, FetchInv, DecodeInv, DataInv, HazardFree, ExecuteInv

LEMMA FlowStays == FlowInv /\ UNCHANGED vars => FlowInv'
BY DEF vars, latches, FlowInv, LatchesInProgram, InProgram, JumpFromText, HasBtb, OperandsRead,
   FetchInv, DecodeInv, JumpsKnown, EntriesAreJumps, AlignedText, InText, IsEntryOf, Holds,
   Forwards, Writes, AfterID, ExSuccessor, ExResult, OperandA, OperandB, WbValue

LEMMA FlowNext ==
    TypeOK /\ TypeOK' /\ AlignedFetch /\ AlignedFetch' /\ SparesJumps /\ FlowInv /\ [Next]_vars
      => FlowInv'
BY FlowStep, FlowStays DEF Next, RunStep, RunEnds

\* Where nothing is fetched from a misaligned address under a dynamic
\* predictor and no store outdates what a BTB knows, the program is followed
\* through the pipeline.
LEMMA FlowCorrect == Spec /\ []AlignedFetch /\ []SparesJumps => []FlowInv
<1>1. Init => FlowInv
  BY InitStarts, FlowStarts
<1> QED BY <1>1, FlowNext, TypeCorrect, PTL DEF Spec

LEMMA CodeNext == TypeOK /\ SparesFlight /\ CodeInv /\ [Next]_vars => CodeInv'
<1>1. ASSUME CodeInv, UNCHANGED vars PROVE CodeInv'
  BY <1>1 DEF vars, latches, CodeInv, AsInMemory, Holds
<1> QED BY <1>1, CodeStep DEF Next, RunStep, RunEnds

\* Where stores spare what is in flight, it is what memory has.
LEMMA CodeCorrect == Spec /\ []SparesFlight => []CodeInv
<1>1. Init => CodeInv
  BY InitStarts, FlowStarts
<1> QED BY <1>1, CodeNext, TypeCorrect, PTL DEF Spec

\* Where dependent instructions are kept apart or waited for, EX computes on
\* the registers the older instructions leave.
LEMMA DataStep ==
    ASSUME TypeOK, FlowInv, KeepsApart', DataInv, Step PROVE DataInv'
BY HazardStep, ExecuteStep DEF FlowInv, DataInv

LEMMA DataStays == DataInv /\ UNCHANGED vars => DataInv'
<1> SUFFICES ASSUME DataInv, UNCHANGED vars PROVE DataInv'
  OBVIOUS
<1>1. /\ ArchRegs' = ArchRegs /\ AfterEX' = AfterEX
  BY DEF vars, latches, ArchRegs, Writes, Holds, WbValue, AfterEX, AfterID
<1> QED BY <1>1 DEF vars, latches, DataInv, HazardFree, ExecuteInv, Holds, Forwards,
           DependsOn, Writes

LEMMA DataCorrect ==
    Spec /\ []AlignedFetch /\ []SparesJumps /\ []KeepsApart => []DataInv
<1>1. Init => DataInv
  BY InitStarts, FlowStarts
<1>2. TypeOK /\ FlowInv /\ KeepsApart' /\ DataInv /\ [Next]_vars => DataInv'
  BY DataStep, DataStays DEF Next, RunStep, RunEnds
<1> QED BY <1>1, <1>2, TypeCorrect, FlowCorrect, PTL DEF Spec

\* No prediction escapes the check: what is fetched as predicted taken is
\* control flow, and what EX finds resolved is what ID resolves in the mode.
\* Where a BTB is in use, the fetch is from whole words and stores spare
\* the jumps of the program.
THEOREM ChecksCorrect ==
    Spec /\ []AlignedFetch /\ []SparesJumps => []PredictionsAreChecked
<1>1. FlowInv => PredictionsAreChecked
  BY DEF FlowInv, FetchInv, DecodeInv, PredictionsAreChecked
<1> QED BY <1>1, FlowCorrect, PTL

-----------------------------------------------------------------------------
(***************************************************************************)
(* A step of the pipeline is a step of the single-cycle machine when an    *)
(* instruction leaves MEM, and none otherwise.                             *)
(***************************************************************************)
LEMMA ArchTyped == ASSUME TypeOK PROVE ArchPc \in Word /\ ArchRegs \in [Reg -> Word]
<1>1. ArchPc \in Word
  BY DEF TypeOK, ArchPc, IfIdSet, IdExSet, ExMemSet
<1>2. WbValue(mem_wb) \in Word
  BY DEF TypeOK, WbValue, MemWbSet
<1> QED BY <1>1, <1>2 DEF TypeOK, ArchRegs

\* The instruction after the one in EX/MEM is the oldest one next.
LEMMA ArchPcMoves == ASSUME TypeOK, Step PROVE ArchPc' = AfterEX
<1>1. ex_mem' = IF Holds(id_ex)
                THEN [kind |-> "instr", instr |-> id_ex.instr, pc |-> id_ex.pc,
                      result |-> ExResult, data |-> OperandB]
                ELSE ExMemOf(id_ex.kind)
  BY DEF Step, StageEX
<1>2. CASE Holds(id_ex)
  BY <1>1, <1>2 DEF ArchPc, AfterEX, Holds
<1>3. CASE ~Holds(id_ex)
  <2>1. ~Holds(ex_mem') /\ ~ExRedirects
    BY <1>1, <1>3 DEF Holds, ExMemOf, ExRedirects
  <2>2. ArchPc' = AfterEX'
    BY <2>1 DEF ArchPc, AfterEX, AfterID
  <2> QED BY <1>3, <2>1, <2>2, FlowsOn DEF AfterEX
<1> QED BY <1>2, <1>3

LEMMA ArchRegsMove ==
    ASSUME TypeOK, Step
    PROVE ArchRegs' = [r \in Reg |->
            IF Writes(ex_mem, r)
            THEN IF MemRead(ex_mem.instr) THEN mem[ex_mem.result] ELSE ex_mem.result
            ELSE ArchRegs[r]]
<1>1. /\ regs' = [q \in Reg |-> IF Writes(mem_wb, q) THEN WbValue(mem_wb) ELSE regs[q]]
      /\ mem_wb' = IF Holds(ex_mem)
                   THEN [kind |-> "instr", instr |-> ex_mem.instr, result |-> ex_mem.result,
                         data |-> IF MemRead(ex_mem.instr) THEN mem[ex_mem.result] ELSE 0]
                   ELSE MemWbOf(ex_mem.kind)
  BY DEF Step, StageWB, StageMEM
<1>2. \A r \in Reg : Writes(mem_wb', r) <=> Writes(ex_mem, r)
  BY <1>1 DEF Writes, Holds, MemWbOf, NopInstr
<1>3. ASSUME NEW r \in Reg, Writes(ex_mem, r)
      PROVE WbValue(mem_wb') = IF MemRead(ex_mem.instr) THEN mem[ex_mem.result] ELSE ex_mem.result
  BY <1>1, <1>3 DEF Writes, WbValue, MemRead
<1>4. regs' = ArchRegs
  BY <1>1 DEF ArchRegs
<1>5. ArchRegs' = [r \in Reg |-> IF Writes(mem_wb', r) THEN WbValue(mem_wb') ELSE regs'[r]]
  BY DEF ArchRegs
<1> QED BY <1>2, <1>3, <1>4, <1>5

LEMMA ArchRetiredMoves ==
    ASSUME Step PROVE ArchRetired' = IF Holds(ex_mem) THEN Bump(ArchRetired) ELSE ArchRetired
<1>1. retired' = ArchRetired
  BY DEF Step, StageWB, ArchRetired
<1>2. Holds(mem_wb') <=> Holds(ex_mem)
  BY DEF Step, StageMEM, Holds, MemWbOf
<1> QED BY <1>1, <1>2 DEF ArchRetired

\* Both machines are built on the same operators.
LEMMA SameIsa ==
    /\ \A x : Arch!Wrap(x) = Wrap(x) /\ Arch!Bump(x) = Bump(x) /\ Arch!SignExtend32(x) = SignExtend32(x)
    /\ \A f, a, b : Arch!Alu(f, a, b) = Alu(f, a, b)
    /\ \A f : Arch!BranchAluOp(f) = BranchAluOp(f)
    /\ \A bank, r : Arch!ReadGpr(bank, r) = ReadGpr(bank, r)
    /\ \A bank, r, v : Arch!WriteGpr(bank, r, v) = WriteGpr(bank, r, v)
    /\ \A image : Arch!ProgramSize(image) = ProgramSize(image)
    /\ \A memory, at : Arch!ReadInstr(memory, at) = ReadInstr(memory, at)
    /\ \A memory, image : Arch!LoadProgram(memory, image) = LoadProgram(memory, image)
    /\ Arch!ZeroMemory = ZeroMemory
    /\ \A i : (Arch!AluSrc(i) <=> AluSrc(i)) /\ (Arch!MemWrite(i) <=> MemWrite(i))
    /\ \A i : Arch!WritesRd(i) <=> WritesRd(i)
<1>1. /\ \A x : Arch!Wrap(x) = Wrap(x) /\ Arch!Bump(x) = Bump(x)
      /\ \A x : Arch!SignExtend32(x) = SignExtend32(x) /\ Arch!Signed(x) = Signed(x)
  BY DEF Arch!Wrap, Wrap, Arch!Bump, Bump, Arch!SignExtend32, SignExtend32, Arch!Signed, Signed
<1>2. \A f, a, b : Arch!Alu(f, a, b) = Alu(f, a, b)
  BY <1>1 DEF Arch!Alu, Alu
<1>3. \A f : Arch!BranchAluOp(f) = BranchAluOp(f)
  BY DEF Arch!BranchAluOp, BranchAluOp
<1>4. /\ \A bank, r : Arch!ReadGpr(bank, r) = ReadGpr(bank, r)
      /\ \A bank, r, v : Arch!WriteGpr(bank, r, v) = WriteGpr(bank, r, v)
  BY DEF Arch!ReadGpr, ReadGpr, Arch!WriteGpr, WriteGpr
<1>5. /\ \A image : Arch!ProgramSize(image) = ProgramSize(image)
      /\ \A memory, at : Arch!ReadInstr(memory, at) = ReadInstr(memory, at)
  BY <1>1 DEF Arch!ProgramSize, ProgramSize, Arch!ReadInstr, ReadInstr
<1>7. /\ \A memory, image : Arch!LoadProgram(memory, image) = LoadProgram(memory, image)
      /\ Arch!ZeroMemory = ZeroMemory
  BY <1>5 DEF Arch!LoadProgram, LoadProgram, Arch!ZeroMemory, ZeroMemory, Arch!Word, Word
<1>6. /\ \A i : (Arch!AluSrc(i) <=> AluSrc(i)) /\ (Arch!MemWrite(i) <=> MemWrite(i))
      /\ \A i : Arch!WritesRd(i) <=> WritesRd(i)
  BY DEF Arch!AluSrc, AluSrc, Arch!MemWrite, MemWrite, Arch!WritesRd, WritesRd
<1> QED BY <1>1, <1>2, <1>3, <1>4, <1>5, <1>6, <1>7

\* Where the two machines compute alike, the single-cycle one computes what
\* the pipeline does.
LEMMA ComputesAlike ==
    ASSUME TypeOK, NEW i \in Instr, Agreed(i), i.op = "JALR" => Arch!ExecutionResult(i) % 2 = 0
    PROVE /\ Arch!ExecutionResult(i) = ResultOn(i, ArchRegs)
          /\ i.op # "LOAD" => Arch!WrittenValue(i) = ValueOn(i, ArchPc, ArchRegs)
          /\ i.op = "LOAD" => Arch!WrittenValue(i) = mem[ResultOn(i, ArchRegs)]
          /\ Arch!NextPc(i) = SuccessorOn(i, ArchPc, ArchRegs)
<1>1. i \in Instr /\ Agreed(i) /\ i.op \in Class /\ i.fn \in Function /\ i.imm \in Word
  BY DEF Instr
<1>2. Arch!AluSignal(i) = AluSignal5(i)
  BY <1>1, SameIsa DEF Arch!AluSignal, AluSignal5, Agreed
<1>3. Arch!ExecutionResult(i) = ResultOn(i, ArchRegs)
  BY <1>2, SameIsa DEF Arch!ExecutionResult, ResultOn
<1>4. i.op \in {"LUI", "AUIPC"} => SignExtend32(i.imm * UShift) = Wrap(i.imm * UShift)
  BY <1>1 DEF Agreed
<1>5. Wrap(ArchPc + Wrap(i.imm * UShift)) = Wrap(ArchPc + i.imm * UShift)
  <2>1. ArchPc \in Int /\ i.imm \in Int /\ UShift \in Int
    BY <1>1, ArchTyped, IsaAssumption DEF Word
  <2>2. i.imm * UShift \in Int
    BY <2>1
  <2> QED BY <2>1, <2>2, WrapOfSum
<1>6. i.op # "LOAD" => Arch!WrittenValue(i) = ValueOn(i, ArchPc, ArchRegs)
  BY <1>1, <1>3, <1>4, <1>5, SameIsa DEF Arch!WrittenValue, ValueOn, Class
<1>7. i.op = "LOAD" => Arch!WrittenValue(i) = mem[ResultOn(i, ArchRegs)]
  BY <1>3 DEF Arch!WrittenValue
<1>8. ASSUME i.op = "BRANCH"
      PROVE Arch!BranchFlag(i.fn, ResultOn(i, ArchRegs)) <=> BranchTaken(i, ResultOn(i, ArchRegs))
  <2>1. AluSignal5(i) = BranchAluOp(i.fn)
    BY <1>8 DEF AluSignal5
  <2>2. i.fn \in {"blt", "bltu"} => ResultOn(i, ArchRegs) \in {0, 1}
    BY <2>1 DEF ResultOn, Alu, BranchAluOp
  <2> QED BY <1>8, <2>2 DEF Arch!BranchFlag, BranchTaken
<1>9. ASSUME i.op = "JALR"
      PROVE ResultOn(i, ArchRegs) = BranchTarget(i, ArchPc, ReadGpr(ArchRegs, i.rs1))
  <2>1. ResultOn(i, ArchRegs) = Wrap(ReadGpr(ArchRegs, i.rs1) + i.imm)
    BY <1>9 DEF ResultOn, AluSignal5, AluSrc, Alu
  <2>2. ReadGpr(ArchRegs, i.rs1) + i.imm \in Int
    <3>1. i.rs1 \in Reg /\ ArchRegs \in [Reg -> Word] /\ 0 \in Word
      BY <1>1, ArchTyped, IsaAssumption DEF Instr, Word
    <3>2. ReadGpr(ArchRegs, i.rs1) \in Word
      BY <3>1 DEF ReadGpr
    <3> QED BY <1>1, <3>2 DEF Word
  <2>3. Wrap(ReadGpr(ArchRegs, i.rs1) + i.imm) \in Nat
    BY <2>2, WrapInWord DEF Word
  <2>4. Wrap(ReadGpr(ArchRegs, i.rs1) + i.imm) % 2 = 0
    BY <1>3, <1>9, <2>1
  <2> QED BY <1>9, <2>1, <2>3, <2>4 DEF BranchTarget, ClearBit0
<1>10. Arch!NextPc(i) = SuccessorOn(i, ArchPc, ArchRegs)
  BY <1>1, <1>3, <1>8, <1>9, SameIsa DEF Arch!NextPc, SuccessorOn, BranchTaken, BranchTarget, Class
<1> QED BY <1>3, <1>6, <1>7, <1>10

LEMMA RetiringStep ==
    ASSUME TypeOK, FlowInv, CodeInv, DataInv, AgreedNext, Step, Holds(ex_mem)
    PROVE Arch!Step
<1> DEFINE i == ex_mem.instr
<1>1. ArchPc = ex_mem.pc /\ ex_mem.pc \in Word /\ ex_mem.pc < ProgramSize(program)
      /\ i = ReadInstr(mem, ex_mem.pc)
  BY DEF FlowInv, LatchesInProgram, InProgram, CodeInv, AsInMemory, ArchPc, TypeOK, ExMemSet
<1>2. i \in Instr
  BY DEF TypeOK, ExMemSet
<1>3. Agreed(i) /\ (i.op = "JALR" => Arch!ExecutionResult(i) % 2 = 0)
  BY <1>1 DEF AgreedNext
<1>4. /\ Arch!ExecutionResult(i) = ResultOn(i, ArchRegs)
      /\ i.op # "LOAD" => Arch!WrittenValue(i) = ValueOn(i, ArchPc, ArchRegs)
      /\ i.op = "LOAD" => Arch!WrittenValue(i) = mem[ResultOn(i, ArchRegs)]
      /\ Arch!NextPc(i) = SuccessorOn(i, ArchPc, ArchRegs)
  BY <1>2, <1>3, ComputesAlike
<1>5. /\ ex_mem.result = ValueOn(i, ArchPc, ArchRegs)
      /\ MemWrite(i) => ex_mem.data = ReadGpr(ArchRegs, i.rs2)
      /\ AfterEX = SuccessorOn(i, ArchPc, ArchRegs)
  BY <1>1 DEF DataInv, ExecuteInv
<1>6. i.op \in {"LOAD", "STORE"} => ex_mem.result = ResultOn(i, ArchRegs)
  BY <1>5 DEF ValueOn
<1>7. ArchPc' = Arch!NextPc(i)
  BY <1>4, <1>5, ArchPcMoves
<1>8. mem' = IF MemWrite(i)
              THEN [mem EXCEPT ![Arch!ExecutionResult(i)] = ReadGpr(ArchRegs, i.rs2)]
              ELSE mem
  BY <1>4, <1>5, <1>6 DEF Step, StageMEM, MemAfterMEM, MemWrite
<1>9. ArchRegs' = IF WritesRd(i) THEN WriteGpr(ArchRegs, i.rd, Arch!WrittenValue(i)) ELSE ArchRegs
  <2>1. \A r \in Reg : Writes(ex_mem, r) <=> WritesRd(i) /\ i.rd = r /\ r # 0
    BY DEF Writes
  <2>2. (IF MemRead(i) THEN mem[ex_mem.result] ELSE ex_mem.result) = Arch!WrittenValue(i)
    BY <1>4, <1>5, <1>6 DEF MemRead
  <2>3. ArchRegs \in [Reg -> Word] /\ i.rd \in Reg
    BY ArchTyped DEF TypeOK, ExMemSet, Instr
  <2>4. ArchRegs' = [r \in Reg |-> IF WritesRd(i) /\ i.rd = r /\ r # 0
                                   THEN Arch!WrittenValue(i) ELSE ArchRegs[r]]
    BY <2>1, <2>2, ArchRegsMove
  <2> QED BY <2>3, <2>4 DEF WriteGpr
<1>10. ArchRetired' = Bump(ArchRetired) /\ UNCHANGED program
  BY ArchRetiredMoves DEF Step
<1> QED BY <1>1, <1>7, <1>8, <1>9, <1>10, SameIsa DEF Arch!Step

LEMMA IdleStep ==
    ASSUME TypeOK, Step, ~Holds(ex_mem)
    PROVE UNCHANGED <<program, ArchPc, ArchRegs, mem, ArchRetired>>
<1>1. ArchPc' = ArchPc
  BY ArchPcMoves DEF ArchPc, AfterEX, AfterID
<1>2. ArchRegs' = ArchRegs
  BY ArchRegsMove DEF Writes, ArchRegs
<1>3. ArchRetired' = ArchRetired
  BY ArchRetiredMoves
<1>4. mem' = mem /\ program' = program
  BY DEF Step, StageMEM, MemAfterMEM
<1> QED BY <1>1, <1>2, <1>3, <1>4

LEMMA ArchStays ==
    UNCHANGED vars => UNCHANGED <<program, ArchPc, ArchRegs, mem, ArchRetired>>
<1> SUFFICES ASSUME UNCHANGED vars PROVE UNCHANGED <<program, ArchPc, ArchRegs, mem, ArchRetired>>
  OBVIOUS
<1>1. ArchPc' = ArchPc
  BY DEF vars, latches, ArchPc, Holds
<1>2. ArchRegs' = ArchRegs
  BY DEF vars, latches, ArchRegs, Writes, Holds, WbValue
<1>3. ArchRetired' = ArchRetired
  BY DEF vars, latches, ArchRetired, Holds
<1> QED BY <1>1, <1>2, <1>3 DEF vars

LEMMA ArchStarts == Started => ArchPc = 0 /\ ArchRetired = 0 /\ ArchRegs = [r \in Reg |-> 0]
BY DEF Started, ArchPc, ArchRetired, ArchRegs, Writes, Holds, IfIdOf, IdExOf, ExMemOf, MemWbOf

LEMMA ArchInit == Init => Arch!Init
BY InitStarts, ArchStarts, SameIsa DEF Init, Arch!Init, Arch!Reg, Reg

(***************************************************************************)
(* Refinement: in every mode, with every predictor, the pipeline does what *)
(* the single-cycle machine does, instruction by instruction, in program   *)
(* order, on the same registers and memory.  The two agree in a run whose  *)
(* instructions they compute alike, whose stores spare what is in flight   *)
(* and what a BTB knows, that fetches whole words where there is a BTB,    *)
(* and keeps dependent instructions apart where nothing detects hazards.   *)
(***************************************************************************)
THEOREM RefinementCorrect ==
    Spec /\ []AlignedFetch /\ []AgreedNext /\ []KeepsApart /\ []SparesFlight /\ []SparesJumps
      => ImplementsRvss
<1>1. Init => Arch!Init
  BY ArchInit
<1>2. TypeOK /\ FlowInv /\ CodeInv /\ DataInv /\ AgreedNext /\ [Next]_vars
        => [Arch!Next]_(Arch!vars)
  <2>1. SUFFICES ASSUME TypeOK, FlowInv, CodeInv, DataInv, AgreedNext, [Next]_vars
                 PROVE [Arch!Next]_(Arch!vars)
    OBVIOUS
  <2>2. CASE RunStep /\ Holds(ex_mem)
    BY <2>1, <2>2, RetiringStep DEF RunStep, Arch!Next
  <2>3. CASE RunStep /\ ~Holds(ex_mem)
    BY <2>1, <2>3, IdleStep DEF RunStep, Arch!vars
  <2>4. CASE UNCHANGED vars
    BY <2>4, ArchStays DEF Arch!vars
  <2> QED BY <2>1, <2>2, <2>3, <2>4 DEF Next, RunEnds
<1> QED BY <1>1, <1>2, TypeCorrect, FlowCorrect, CodeCorrect, DataCorrect, PTL
       DEF Spec, ImplementsRvss, Arch!Spec

-----------------------------------------------------------------------------
(***************************************************************************)
(* Programs without JALR whose branches and jumps go to whole words: what  *)
(* the theorems above ask of a run holds in all of theirs in which no      *)
(* store changes an instruction of the program.                            *)
(***************************************************************************)
DirectInstr ==
    {i \in Instr : i.op # "JALR" /\ (i.op \in {"BRANCH", "JAL"} => i.imm % 4 = 0)}
AgreedInstr == {i \in Instr : Agreed(i)}

\* What the loader leaves at the whole words of the programs is of a kind.
LoadedFrom(kinds) ==
    \A image \in [text: Programs, data: DataImages] : \A at \in Word :
        at < ProgramSize(image) /\ at % 4 = 0
          => ReadInstr(LoadProgram(ZeroMemory, image), at) \in kinds

DirectPrograms == Mod % 4 = 0 /\ LoadedFrom(DirectInstr)
AgreedPrograms == LoadedFrom(AgreedInstr)

TextOf(kinds) == \A at \in AlignedText : ReadInstr(mem, at) \in kinds

LEMMA InitText == ASSUME NEW kinds, LoadedFrom(kinds) PROVE Init => TextOf(kinds)
BY DEF Init, LoadedFrom, TextOf, AlignedText, InText

LEMMA TextStep == ASSUME NEW kinds, TextOf(kinds), SparesText, Step PROVE TextOf(kinds)'
<1>1. mem' = MemAfterMEM /\ program' = program
  BY DEF Step, StageMEM
<1>2. AlignedText' = AlignedText /\ AlignedText \subseteq InText
  BY <1>1 DEF AlignedText, InText, ProgramSize
<1>3. \A at \in AlignedText : ReadInstr(mem', at) = ReadInstr(mem, at)
  BY <1>1, <1>2 DEF SparesText, SparesInstr
<1> QED BY <1>2, <1>3 DEF TextOf

LEMMA TextNext ==
    ASSUME NEW kinds PROVE TextOf(kinds) /\ SparesText /\ [Next]_vars => TextOf(kinds)'
<1>1. ASSUME TextOf(kinds), UNCHANGED vars PROVE TextOf(kinds)'
  BY <1>1 DEF vars, TextOf, AlignedText, InText
<1> QED BY <1>1, TextStep DEF Next, RunStep, RunEnds

DirectLatch(latch) == Holds(latch) => latch.pc % 4 = 0 /\ latch.instr \in DirectInstr
AlignedFlow ==
    /\ TextOf(DirectInstr)
    /\ pc % 4 = 0
    /\ DirectLatch(if_id) /\ DirectLatch(id_ex)
    /\ Holds(ex_mem) => ex_mem.pc % 4 = 0

LEMMA AlignedNext ==
    ASSUME Mod % 4 = 0, NEW at \in Word, at % 4 = 0 PROVE Wrap(at + 4) % 4 = 0
BY AlignedSum, IsaAssumption DEF Word

\* A branch or a jump from a whole word goes to one.
LEMMA AlignedTarget ==
    ASSUME Mod % 4 = 0, NEW i \in DirectInstr, NEW at \in Word, at % 4 = 0, NEW a,
           i.op \in {"BRANCH", "JAL"}
    PROVE BranchTarget(i, at, a) % 4 = 0
<1>1. i.imm \in Nat /\ i.imm % 4 = 0 /\ i.op # "JALR"
  BY IsaAssumption DEF DirectInstr, Instr, Word
<1>2. at \in Nat
  BY IsaAssumption DEF Word
<1>3. Wrap(at + i.imm) % 4 = 0
  BY <1>1, <1>2, AlignedSum
<1> QED BY <1>1, <1>3 DEF BranchTarget

LEMMA AlignedPc ==
    ASSUME Mod % 4 = 0, TypeOK, AlignedFlow, Step PROVE PcAfterID % 4 = 0
<1>1. CASE IdRedirects /\ IdTaken
  <2>1. Holds(if_id) /\ IsControlFlow(if_id.instr)
    BY <1>1 DEF IdRedirects, IdResolves, IdDecodes
  <2>2. if_id.instr \in DirectInstr /\ if_id.pc \in Word /\ if_id.pc % 4 = 0
    BY <2>1 DEF AlignedFlow, DirectLatch, TypeOK, IfIdSet
  <2>3. if_id.instr.op \in {"BRANCH", "JAL"}
    BY <2>1, <2>2 DEF IsControlFlow, DirectInstr
  <2>4. IdTarget % 4 = 0
    BY <2>2, <2>3, AlignedTarget DEF IdTarget
  <2> QED BY <1>1, <2>4 DEF PcAfterID
<1>2. CASE IdRedirects /\ ~IdTaken
  <2>1. if_id.pc \in Word /\ if_id.pc % 4 = 0
    BY <1>2 DEF IdRedirects, IdResolves, IdDecodes, AlignedFlow, DirectLatch, TypeOK, IfIdSet
  <2> QED BY <1>2, <2>1, AlignedNext DEF PcAfterID
<1>3. CASE ~IdRedirects /\ ExRedirects
  <2>1. Holds(id_ex) /\ BranchTaken(id_ex.instr, ExResult)
    BY <1>3 DEF ExRedirects
  <2>2. id_ex.instr \in DirectInstr /\ id_ex.pc \in Word /\ id_ex.pc % 4 = 0
    BY <2>1 DEF AlignedFlow, DirectLatch, TypeOK, IdExSet
  <2>3. id_ex.instr.op \in {"BRANCH", "JAL"}
    BY <2>1, <2>2 DEF BranchTaken, DirectInstr
  <2> QED BY <1>3, <2>2, <2>3, AlignedTarget DEF PcAfterID, PcAfterEX
<1>4. CASE ~IdRedirects /\ ~ExRedirects
  BY <1>4 DEF PcAfterID, PcAfterEX, AlignedFlow
<1> QED BY <1>1, <1>2, <1>3, <1>4

LEMMA FlowIsAligned == (AlignedFlow => AlignedFetch) /\ (AlignedFlow' => AlignedFetch')
BY DEF AlignedFlow, DirectLatch, AlignedFetch

LEMMA TextSparesJumps == SparesText => SparesJumps
BY DEF SparesText, SparesJumps

LEMMA TextSparesFlight == TypeOK /\ FlowInv /\ SparesText => SparesFlight
BY DEF FlowInv, LatchesInProgram, InProgram, SparesText, SparesFlight, InText, TypeOK,
       IfIdSet, IdExSet

LEMMA AlignedStep ==
    ASSUME Mod % 4 = 0, TypeOK, TypeOK', AlignedFlow, FlowInv, SparesText, Step
    PROVE AlignedFlow'
<1>1. /\ StageIF /\ StageEX /\ StageID /\ StageWB /\ StageMEM
      /\ mode' = mode /\ program' = program
  BY DEF Step
<1>2. PcAfterID % 4 = 0 /\ PcAfterID \in Word
  BY <1>1, AlignedPc, StageIDTyped
<1>3. TextOf(DirectInstr)'
  BY TextStep DEF AlignedFlow
<1>4. ASSUME Fetches PROVE ReadInstr(mem', PcAfterID) \in DirectInstr
  BY <1>1, <1>2, <1>3, <1>4 DEF TextOf, AlignedText, InText, Fetches, ProgramSize
<1>5. DirectLatch(if_id)'
  <2>1. CASE if_id' = if_id
    BY <2>1 DEF AlignedFlow, DirectLatch
  <2>2. CASE if_id' # if_id
    BY <1>1, <1>2, <1>4, <2>2 DEF StageIF, DirectLatch, Holds, IfIdOf
  <2> QED BY <2>1, <2>2
<1>6. DirectLatch(id_ex)'
  BY Decoded DEF AlignedFlow, DirectLatch
<1>7. Holds(ex_mem') => ex_mem'.pc % 4 = 0
  BY <1>1 DEF StageEX, AlignedFlow, DirectLatch, Holds, ExMemOf
<1>8. pc' % 4 = 0
  <2>1. CASE ~Fetches
    BY <1>1, <1>2, <2>1 DEF StageIF
  <2>2. CASE Fetches /\ ~FetchTaken
    BY <1>1, <1>2, <2>2, AlignedNext DEF StageIF
  <2>3. CASE Fetches /\ FetchTaken
    <3> DEFINE i == ReadInstr(mem', PcAfterID)
    <3>1. /\ mode \in DynamicMode /\ BtbHit(predictor'.btb, PcAfterID)
          /\ pc' = predictor'.btb[IndexOf(PcAfterID)].target
      BY <1>1, <2>3 DEF StageIF, FetchTaken, FetchTarget, PredictedTaken, PredictedTarget
    <3>2. predictor'.kind \in DynamicKind
      BY <1>1, <3>1, StageIDTyped, KindIsDynamic
    <3>3. EntriesAreJumps(mem', predictor'.btb, AlignedText)
      BY <3>2, FlowIsAligned, TextSparesJumps, AlignedJumpsStep DEF FlowInv
    <3>4. IsEntryOf(mem', predictor'.btb[IndexOf(PcAfterID)], IndexOf(PcAfterID), PcAfterID)
      BY <1>2, <3>1, <3>3, HitIsJump
    <3>5. i \in DirectInstr
      BY <1>4, <2>3
    <3>6. i.op \in {"BRANCH", "JAL"} /\ pc' = Wrap(PcAfterID + i.imm)
      BY <3>1, <3>4, <3>5 DEF IsEntryOf, IsControlFlow, DirectInstr
    <3>7. BranchTarget(i, PcAfterID, 0) % 4 = 0
      BY <1>2, <3>5, <3>6, AlignedTarget
    <3> QED BY <3>6, <3>7 DEF BranchTarget
  <2> QED BY <2>1, <2>2, <2>3
<1> QED BY <1>3, <1>5, <1>6, <1>7, <1>8 DEF AlignedFlow

LEMMA AlignedStarts == Started /\ TextOf(DirectInstr) => AlignedFlow
BY DEF Started, AlignedFlow, DirectLatch, Holds, IfIdOf, IdExOf, ExMemOf

LEMMA InitAligned == ASSUME DirectPrograms PROVE Init => AlignedFlow
BY InitStarts, AlignedStarts, InitText DEF DirectPrograms

LEMMA AlignedStays == AlignedFlow /\ UNCHANGED vars => AlignedFlow'
BY DEF vars, latches, AlignedFlow, TextOf, AlignedText, InText, DirectLatch, Holds

LEMMA AlignedAgrees == TypeOK /\ AlignedFlow /\ TextOf(AgreedInstr) => AgreedNext
<1> SUFFICES ASSUME TypeOK, AlignedFlow, TextOf(AgreedInstr), ArchPc < ProgramSize(program)
             PROVE LET i == ReadInstr(mem, ArchPc) IN Agreed(i) /\ i.op # "JALR"
  BY DEF AgreedNext
<1>1. ArchPc \in Word /\ ArchPc % 4 = 0
  BY ArchTyped DEF ArchPc, AlignedFlow, DirectLatch
<1>2. ArchPc \in AlignedText
  BY <1>1 DEF AlignedText, InText
<1> QED BY <1>2 DEF TextOf, AlignedFlow, DirectInstr, AgreedInstr

LEMMA DirectRuns ==
    ASSUME DirectPrograms
    PROVE Spec /\ []SparesText => []AlignedFlow /\ []AlignedFetch /\ []SparesJumps /\ []SparesFlight
<1> USE DEF DirectPrograms
<1>1. Init => AlignedFlow /\ FlowInv
  BY InitStarts, FlowStarts, InitAligned
<1>2. TypeOK /\ TypeOK' /\ SparesText /\ AlignedFlow /\ FlowInv /\ [Next]_vars
        => AlignedFlow' /\ FlowInv'
  <2>1. SUFFICES ASSUME TypeOK, TypeOK', SparesText, AlignedFlow, FlowInv, [Next]_vars
                 PROVE AlignedFlow' /\ FlowInv'
    OBVIOUS
  <2>2. AlignedFlow'
    BY <2>1, AlignedStep, AlignedStays DEF Next, RunStep, RunEnds
  <2> QED BY <2>1, <2>2, FlowIsAligned, TextSparesJumps, FlowNext
<1> QED BY <1>1, <1>2, FlowIsAligned, TextSparesJumps, TextSparesFlight, TypeCorrect, PTL DEF Spec

LEMMA AgreedRuns ==
    ASSUME DirectPrograms, AgreedPrograms PROVE Spec /\ []SparesText => []AgreedNext
<1>1. Init => TextOf(AgreedInstr)
  BY InitText DEF AgreedPrograms
<1>2. TextOf(AgreedInstr) /\ SparesText /\ [Next]_vars => TextOf(AgreedInstr)'
  BY TextNext
<1> QED BY <1>1, <1>2, DirectRuns, AlignedAgrees, TypeCorrect, PTL DEF Spec

\* A machine that handles hazards asks nothing of the program.
LEMMA HandledRuns == ASSUME "NO_HAZ" \notin Modes PROVE Spec => []KeepsApart
<1>1. Init => DetectsHazards
  BY DEF Init, DetectsHazards
<1>2. DetectsHazards /\ [Next]_vars => DetectsHazards'
  BY DEF Next, RunStep, RunEnds, Step, vars, DetectsHazards
<1>3. DetectsHazards => KeepsApart
  BY DEF KeepsApart, DetectsHazards
<1> QED BY <1>1, <1>2, <1>3, PTL DEF Spec

\* Refinement for such programs, with nothing asked of the run but that it
\* does not store into the program: in every mode that handles hazards, with
\* every predictor, the pipeline does what the single-cycle machine does.
THEOREM DirectRefinement ==
    ASSUME "NO_HAZ" \notin Modes, AgreedPrograms, DirectPrograms
    PROVE Spec /\ []SparesText => ImplementsRvss
BY RefinementCorrect, DirectRuns, AgreedRuns, HandledRuns, PTL

\* No prediction escapes the check in any such run.
THEOREM DirectChecks ==
    ASSUME DirectPrograms PROVE Spec /\ []SparesText => []PredictionsAreChecked
BY ChecksCorrect, DirectRuns, PTL
=============================================================================
