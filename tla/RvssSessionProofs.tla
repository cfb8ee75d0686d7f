-------------------------- MODULE RvssSessionProofs --------------------------
(***************************************************************************)
(* The single-cycle session, for every program, width, command sequence    *)
(* and limit: values stay in range, the log is one path, and undo and redo *)
(* move along the timeline of what instructions did.                       *)
(***************************************************************************)
EXTENDS RvssSession, IsaProofs, SequenceTheorems, WellFoundedInduction, TLAPS

Code == Instr \cup SystemInstr

RegisterChangeSet == [bank: {"gpr", "fpr"}, at: Reg, old: Word, new: Word]
ByteVector(length) == [0 .. length - 1 -> Word]
MemoryChangeSet ==
    UNION {[at: Word, old: ByteVector(n), new: ByteVector(n)] : n \in Word}
DeltaSet == [registers: Seq(RegisterChangeSet), memory: Seq(MemoryChangeSet)]
EntrySet == [old_pc: Word, new_pc: Word, registers: Seq(RegisterChangeSet),
             memory: Seq(MemoryChangeSet)]

MachineType ==
    /\ pc \in Word /\ retired \in Counter
    /\ regs \in [Reg -> Word] /\ regs[0] = 0
    /\ fregs \in [Reg -> Word] /\ csrs \in [Csr -> Word]
    /\ mem \in [Word -> Word]
    /\ reading \in [waiting: BOOLEAN, at: Word, length: Word]
    /\ input_queue \in Seq(Seq(Word))

ProgramType == program \in [text: Programs, data: DataImages]

LogType ==
    /\ current_delta \in DeltaSet
    /\ undo_stack \in Seq(EntrySet)
    /\ redo_stack \in Seq(EntrySet)

TypeInv == MachineType /\ ProgramType /\ LogType

-----------------------------------------------------------------------------
(***************************************************************************)
(* Buffers.                                                                *)
(***************************************************************************)
\* A cell is where its offset says.
LEMMA CellOffset ==
    ASSUME NEW c \in Word, NEW at \in Word
    PROVE Offset(c, at) \in Word /\ Cell(at, Offset(c, at)) = c
BY IsaAssumption DEF Cell, Offset, Word

\* The bytes of a buffer are register values.
LEMMA CellInWord ==
    ASSUME NEW at \in Word, NEW k \in Word
    PROVE Cell(at, k) \in Word /\ Offset(Cell(at, k), at) = k
BY IsaAssumption DEF Cell, Offset, Word

LEMMA BytesType ==
    ASSUME NEW memory \in [Word -> Word], NEW at \in Word, NEW length \in Word
    PROVE Bytes(memory, at, length) \in ByteVector(length)
<1>1. \A k \in 0 .. length - 1 : k \in Word
  BY IsaAssumption DEF Word
<1>2. \A k \in 0 .. length - 1 : memory[Cell(at, k)] \in Word
  BY <1>1, CellInWord
<1> QED BY <1>2 DEF Bytes, ByteVector

-----------------------------------------------------------------------------
(***************************************************************************)
(* Replaying a log of at most one change of each kind.                     *)
(***************************************************************************)
\* Such a log tells the truth about a bank when what it says was there,
\* but for x0, which did not change, and what differs is in it.
RegistersLogged(changes, bank, before, after) ==
    /\ \A n \in DOMAIN changes : changes[n].bank = bank /\ ~Ignores(bank, changes[n].at) =>
          changes[n].old = before[changes[n].at] /\ changes[n].new = after[changes[n].at]
    /\ \A r \in Reg : before[r] # after[r] =>
          /\ ~Ignores(bank, r)
          /\ \E n \in DOMAIN changes : changes[n].bank = bank /\ changes[n].at = r

MemoryLogged(changes, before, after) ==
    /\ \A n \in DOMAIN changes : \A k \in DOMAIN changes[n].old :
          /\ changes[n].old[k] = before[Cell(changes[n].at, k)]
          /\ changes[n].new[k] = after[Cell(changes[n].at, k)]
    /\ \A c \in Word : before[c] # after[c] =>
          \E n \in DOMAIN changes : Offset(c, changes[n].at) \in DOMAIN changes[n].old

\* A set of positions has a last one.
LEMMA LastIn ==
    ASSUME NEW n \in Nat, NEW S \in SUBSET (1 .. n), S # {}
    PROVE Last(S) \in S
<1> DEFINE R == OpToRel(<, Nat)
           T == {m \in Nat : n - m \in S}
<1>1. PICK s \in S : TRUE
  OBVIOUS
<1>2. n - s \in T
  BY <1>1
<1>3. T \subseteq Nat /\ T # {}
  BY <1>2
<1>4. IsWellFoundedOn(R, Nat)
  BY NatLessThanWellFounded
<1>5. \E x \in T : \A y \in T : ~(<<y, x>> \in R)
  <2> HIDE DEF R, T
  <2> QED BY <1>3, <1>4, WFMin
<1>6. PICK x \in T : \A y \in T : ~(y < x)
  BY <1>3, <1>5 DEF OpToRel
<1>7. \A k \in S : k <= n - x
  <2> TAKE k \in S
  <2>1. n - k \in T /\ k \in Nat
    OBVIOUS
  <2>2. ~(n - k < x) /\ x \in Nat
    BY <1>6, <2>1
  <2> HIDE DEF T
  <2> QED BY <2>1, <2>2
<1>8. n - x \in S
  BY <1>6
<1>9. \E k \in S : \A j \in S : j <= k
  BY <1>7, <1>8
<1> HIDE DEF R, T
<1> QED BY <1>9 DEF Last

\* The one of at most one.
LEMMA LastOfOne ==
    ASSUME NEW changes \in Seq(EntrySet \cup RegisterChangeSet \cup MemoryChangeSet),
           Len(changes) <= 1, NEW S \in SUBSET DOMAIN changes, S # {}
    PROVE Last(S) \in S
<1>1. DOMAIN changes \subseteq {1}
  OBVIOUS
<1>2. S = {1}
  BY <1>1
<1>3. Last({1}) = 1
  BY DEF Last
<1> QED BY <1>2, <1>3

\* Replaying the old values gives the bank before, the new ones the bank after.
LEMMA ReplayBankLogged ==
    ASSUME NEW changes \in Seq(RegisterChangeSet), Len(changes) <= 1, NEW bank \in {"gpr", "fpr"},
           NEW before \in [Reg -> Word], NEW after \in [Reg -> Word],
           RegistersLogged(changes, bank, before, after)
    PROVE /\ ReplayBank(after, bank, changes, "old") = before
          /\ ReplayBank(before, bank, changes, "new") = after
<1> DEFINE T(r) == {n \in DOMAIN changes : changes[n].bank = bank /\ changes[n].at = r}
<1>1. \A r \in Reg : T(r) # {} => Last(T(r)) \in T(r)
  <2> TAKE r \in Reg
  <2> HAVE T(r) # {}
  <2>1. changes \in Seq(EntrySet \cup RegisterChangeSet \cup MemoryChangeSet)
    OBVIOUS
  <2>2. T(r) \in SUBSET DOMAIN changes
    OBVIOUS
  <2> QED BY <2>1, <2>2, LastOfOne
<1>2. \A r \in Reg : T(r) = {} \/ Ignores(bank, r) => before[r] = after[r]
  BY DEF RegistersLogged
<1>3. \A r \in Reg : T(r) # {} /\ ~Ignores(bank, r) => /\ changes[Last(T(r))].old = before[r]
                                                     /\ changes[Last(T(r))].new = after[r]
  BY <1>1 DEF RegistersLogged
<1>4. ReplayBank(after, bank, changes, "old") =
        [r \in Reg |-> IF T(r) = {} \/ Ignores(bank, r) THEN after[r]
                       ELSE changes[Last(T(r))]["old"]]
  BY DEF ReplayBank
<1>5. ReplayBank(before, bank, changes, "new") =
        [r \in Reg |-> IF T(r) = {} \/ Ignores(bank, r) THEN before[r]
                       ELSE changes[Last(T(r))]["new"]]
  BY DEF ReplayBank
<1> HIDE DEF T
<1> QED BY <1>2, <1>3, <1>4, <1>5

\* The same of memory.
LEMMA ReplayMemoryLogged ==
    ASSUME NEW changes \in Seq(MemoryChangeSet), Len(changes) <= 1,
           NEW before \in [Word -> Word], NEW after \in [Word -> Word],
           MemoryLogged(changes, before, after)
    PROVE /\ ReplayMemory(after, changes, "old") = before
          /\ ReplayMemory(before, changes, "new") = after
<1> DEFINE T(c) == {n \in DOMAIN changes : Offset(c, changes[n].at) \in DOMAIN changes[n].old}
<1>1. \A c \in Word : T(c) # {} => Last(T(c)) \in T(c)
  <2> TAKE c \in Word
  <2> HAVE T(c) # {}
  <2>1. changes \in Seq(EntrySet \cup RegisterChangeSet \cup MemoryChangeSet)
    OBVIOUS
  <2>2. T(c) \in SUBSET DOMAIN changes
    OBVIOUS
  <2> QED BY <2>1, <2>2, LastOfOne
<1>2. \A c \in Word : T(c) = {} => before[c] = after[c]
  BY DEF MemoryLogged
<1>3. \A c \in Word : T(c) # {} =>
         LET change == changes[Last(T(c))]
         IN /\ change.old[Offset(c, change.at)] = before[c]
            /\ change.new[Offset(c, change.at)] = after[c]
  <2> TAKE c \in Word
  <2> HAVE T(c) # {}
  <2> DEFINE change == changes[Last(T(c))]
  <2>1. Last(T(c)) \in DOMAIN changes /\ Offset(c, change.at) \in DOMAIN change.old
    BY <1>1
  <2>2. change.at \in Word
    BY <2>1 DEF MemoryChangeSet
  <2>3. Cell(change.at, Offset(c, change.at)) = c
    BY <2>2, CellOffset
  <2> QED BY <2>1, <2>3 DEF MemoryLogged
<1>4. ReplayMemory(after, changes, "old") =
        [c \in Word |-> IF T(c) = {} THEN after[c]
           ELSE changes[Last(T(c))]["old"][Offset(c, changes[Last(T(c))].at)]]
  BY DEF ReplayMemory
<1>5. ReplayMemory(before, changes, "new") =
        [c \in Word |-> IF T(c) = {} THEN before[c]
           ELSE changes[Last(T(c))]["new"][Offset(c, changes[Last(T(c))].at)]]
  BY DEF ReplayMemory
<1> HIDE DEF T
<1> QED BY <1>2, <1>3, <1>4, <1>5

-----------------------------------------------------------------------------
(***************************************************************************)
(* One instruction keeps the machine's types.                              *)
(***************************************************************************)
LEMMA ReadsInWord == ASSUME TypeInv PROVE \A r \in Reg : ReadGpr(regs, r) \in Word
BY IsaAssumption DEF TypeInv, MachineType, ReadGpr, Word

LEMMA AddressInWord == ASSUME TypeInv, NEW i \in Code PROVE Address(i) \in Word
<1>1. ReadGpr(regs, i.rs1) \in Word /\ i.imm \in Word
  BY ReadsInWord DEF Code, Instr, SystemInstr
<1>2. ReadGpr(regs, i.rs1) + i.imm \in Int
  BY <1>1 DEF Word
<1> QED BY <1>2, WrapInWord DEF Address

\* The fetch reads an instruction.
LEMMA InstructionInCode == ASSUME TypeInv PROVE Instruction \in Code
<1>1. Ecall \in Code
  <2>1. 0 \in Reg /\ 0 \in Word
    BY IsaAssumption DEF Reg, Word
  <2> QED BY <2>1 DEF Ecall, Code, SystemInstr, SystemOp, SystemFunction
<1>2. ReadInstr(mem, pc) \in Code
  <2>1. \A word \in InstrWord : Decode(word) \in Code
    BY RvssSessionAssumption DEF Code
  <2>2. mem \in [Word -> Word] /\ pc \in Word
    BY DEF TypeInv, MachineType
  <2> HIDE DEF Code
  <2> QED BY <2>1, <2>2, ReadInstrInCode
<1> QED BY <1>1, <1>2 DEF Instruction

\* The program counter of any instruction is a register value.
LEMMA NextPcInWord ==
    ASSUME TypeInv, NEW i \in Instr
    PROVE NextPc(i) \in Word /\ ExecutionResult(i) \in Word
<1>1. /\ pc \in Int /\ i.imm \in Int /\ i.imm \in Word
      /\ ReadGpr(regs, i.rs1) \in Word /\ ReadGpr(regs, i.rs2) \in Word
  <2>1. pc \in Word /\ i.imm \in Word /\ i.rs1 \in Reg /\ i.rs2 \in Reg
    BY DEF Instr, TypeInv, MachineType
  <2> QED BY <2>1, ReadsInWord DEF Word
<1>2. (IF AluSrc(i) THEN i.imm ELSE ReadGpr(regs, i.rs2)) \in Word
  BY <1>1
<1>3. ExecutionResult(i) \in Word
  BY <1>1, <1>2, AluInWord DEF ExecutionResult
<1>4. pc + i.imm \in Int /\ pc + 4 \in Int
  BY <1>1
<1>5. Wrap(pc + i.imm) \in Word /\ Wrap(pc + 4) \in Word
  BY <1>4, WrapInWord
<1> QED BY <1>3, <1>5 DEF NextPc

\* So is what it writes.
LEMMA WrittenInWord == ASSUME TypeInv, NEW i \in Instr PROVE WrittenValue(i) \in Word
<1>1. ExecutionResult(i) \in Word
  BY NextPcInWord
<1>2. mem[ExecutionResult(i)] \in Word
  BY <1>1 DEF TypeInv, MachineType
<1>3. pc \in Int /\ i.imm * UShift \in Int
  BY IsaAssumption DEF Instr, TypeInv, MachineType, Word
<1>4. SignExtend32(i.imm * UShift) \in Word
  BY <1>3, SignExtendInWord
<1>5. pc + 4 \in Int /\ pc + SignExtend32(i.imm * UShift) \in Int
  BY <1>3, <1>4 DEF Word
<1>6. Wrap(pc + 4) \in Word /\ Wrap(pc + SignExtend32(i.imm * UShift)) \in Word
  BY <1>5, WrapInWord
<1> QED BY <1>1, <1>2, <1>4, <1>6 DEF WrittenValue

\* Writing a register leaves a bank with x0 = 0.
LEMMA RegsWritten ==
    ASSUME TypeInv, NEW r \in Reg, NEW v \in Word
    PROVE /\ WriteGpr(regs, r, v) \in [Reg -> Word] /\ WriteGpr(regs, r, v)[0] = 0
          /\ \A q \in Reg : q # r => WriteGpr(regs, r, v)[q] = regs[q]
<1>1. regs \in [Reg -> Word] /\ regs[0] = 0
  BY DEF TypeInv, MachineType
<1> QED BY <1>1, GprType

\* What an instruction of each kind does to the machine's state: values
\* stay in range, at most register rd of one bank and one buffer change.
CoreType ==
    /\ pc \in Word
    /\ regs \in [Reg -> Word] /\ regs[0] = 0
    /\ fregs \in [Reg -> Word] /\ csrs \in [Csr -> Word]
    /\ mem \in [Word -> Word]
    /\ reading \in [waiting: BOOLEAN, at: Word, length: Word]
    /\ input_queue \in Seq(Seq(Word))

LEMMA IntegerType ==
    ASSUME TypeInv, NEW i \in Code, ExecuteInteger(i)
    PROVE /\ CoreType' /\ i \in Instr
          /\ \A q \in Reg : q # i.rd => regs'[q] = regs[q]
          /\ UNCHANGED fregs
          /\ \A c \in Word : ~(i.op = "STORE" /\ c = Address(i)) => mem'[c] = mem[c]
<1>1. i \in Instr
  BY DEF Code, Instr, SystemInstr, ExecuteInteger, Class, SystemOp
<1>2. NextPc(i) \in Word /\ ExecutionResult(i) \in Word /\ WrittenValue(i) \in Word
  BY <1>1, NextPcInWord, WrittenInWord
<1>3. i.rd \in Reg /\ i.rs2 \in Reg
  BY <1>1 DEF Instr
<1>4. ReadGpr(regs, i.rs2) \in Word
  BY <1>3, ReadsInWord
<1>5. /\ regs' \in [Reg -> Word] /\ regs'[0] = 0
      /\ \A q \in Reg : q # i.rd => regs'[q] = regs[q]
  <2>1. CASE WritesRd(i)
    <3>1. regs' = WriteGpr(regs, i.rd, WrittenValue(i))
      BY <2>1 DEF ExecuteInteger
    <3> QED BY <1>2, <1>3, <3>1, RegsWritten
  <2>2. CASE ~WritesRd(i)
    BY <2>2 DEF ExecuteInteger, TypeInv, MachineType
  <2> QED BY <2>1, <2>2
<1>6. mem' \in [Word -> Word]
  BY <1>2, <1>4 DEF ExecuteInteger, TypeInv, MachineType
<1>7. i.op = "STORE" => ExecutionResult(i) = Address(i)
  <2> HAVE i.op = "STORE"
  <2>1. AluSignal(i) = "add" /\ AluSrc(i)
    BY DEF AluSignal, AluSrc
  <2> QED BY <2>1 DEF ExecutionResult, Address, Alu
<1>8. \A c \in Word : ~(i.op = "STORE" /\ c = Address(i)) => mem'[c] = mem[c]
  BY <1>2, <1>7 DEF ExecuteInteger, MemWrite, TypeInv, MachineType
<1>9. pc' \in Word /\ UNCHANGED <<fregs, csrs, reading, input_queue>>
  BY <1>2 DEF ExecuteInteger, banks
<1> QED BY <1>1, <1>5, <1>6, <1>8, <1>9 DEF CoreType, TypeInv, MachineType

LEMMA NextInWord == ASSUME TypeInv PROVE Wrap(pc + 4) \in Word
<1>1. pc + 4 \in Int
  BY DEF TypeInv, MachineType, Word
<1> QED BY <1>1, WrapInWord

\* What a float instruction writes is a register value.
LEMMA ResultsInWord == ASSUME TypeInv, NEW i \in Code PROVE Results(i) \subseteq Word
<1>1. Address(i) \in Word
  BY AddressInWord
<1>2. mem[Address(i)] \in Word /\ 0 \in Word
  BY <1>1, IsaAssumption DEF TypeInv, MachineType, Word
<1> QED BY <1>1, <1>2, RvssSessionAssumption DEF Results

LEMMA FloatType ==
    ASSUME TypeInv, NEW i \in Code, NEW result \in Word, ExecuteFloat(i, result)
    PROVE /\ CoreType' /\ i \in SystemInstr
          /\ IF FloatWritesGpr(i) THEN UNCHANGED fregs /\ \A q \in Reg : q # i.rd => regs'[q] = regs[q]
                                  ELSE UNCHANGED regs /\ \A q \in Reg : q # i.rd => fregs'[q] = fregs[q]
          /\ i.op = "FSTORE" => UNCHANGED <<regs, fregs>>
          /\ i.op # "FSTORE" => IF FloatWritesGpr(i) THEN i.rd # 0 => regs'[i.rd] = result
                                                     ELSE fregs'[i.rd] = result
          /\ \A c \in Word : ~(i.op = "FSTORE" /\ c = Address(i)) => mem'[c] = mem[c]
<1>1. i \in SystemInstr
  BY DEF Code, Instr, SystemInstr, ExecuteFloat, Class, SystemOp
<1>2. i.rd \in Reg /\ i.rs2 \in Reg
  BY <1>1 DEF SystemInstr
<1>3. Address(i) \in Word
  BY AddressInWord
<1>4. 0 \in Word /\ "fcsr" \in Csr
  BY IsaAssumption DEF Word, Csr
<1>5. ASSUME WriteFloatResult(i, result)
      PROVE /\ regs' \in [Reg -> Word] /\ regs'[0] = 0 /\ fregs' \in [Reg -> Word]
            /\ IF FloatWritesGpr(i)
               THEN /\ UNCHANGED fregs /\ \A q \in Reg : q # i.rd => regs'[q] = regs[q]
                    /\ i.rd # 0 => regs'[i.rd] = result
               ELSE /\ UNCHANGED regs /\ \A q \in Reg : q # i.rd => fregs'[q] = fregs[q]
                    /\ fregs'[i.rd] = result
  <2>1. CASE FloatWritesGpr(i)
    <3>1. regs' = WriteGpr(regs, i.rd, result) /\ fregs' = fregs
      BY <1>5, <2>1 DEF WriteFloatResult
    <3>2. i.rd # 0 => regs'[i.rd] = result
      BY <1>2, <3>1 DEF WriteGpr, TypeInv, MachineType
    <3> QED BY <1>2, <2>1, <3>1, <3>2, RegsWritten DEF TypeInv, MachineType
  <2>2. CASE ~FloatWritesGpr(i)
    <3>1. fregs' = [fregs EXCEPT ![i.rd] = result] /\ regs' = regs
      BY <1>5, <2>2 DEF WriteFloatResult
    <3> QED BY <1>2, <2>2, <3>1 DEF TypeInv, MachineType
  <2> QED BY <2>1, <2>2
<1>6. pc' \in Word /\ UNCHANGED <<reading, input_queue>>
  BY NextInWord DEF ExecuteFloat
<1>7. ASSUME NEW statuses \in SUBSET Word, SetStatus(statuses) PROVE csrs' \in [Csr -> Word]
  BY <1>4, <1>7 DEF TypeInv, MachineType, SetStatus
<1>8. CASE i.op \in {"FP", "FLOAD"}
  <2> DEFINE statuses == IF i.op = "FP" THEN FpStatus ELSE {0}
  <2>1. WriteFloatResult(i, result) /\ SetStatus(statuses) /\ UNCHANGED mem
    BY <1>8 DEF ExecuteFloat
  <2>2. statuses \in SUBSET Word
    BY <1>4, RvssSessionAssumption
  <2> HIDE DEF statuses
  <2>3. csrs' \in [Csr -> Word]
    BY <1>7, <2>1, <2>2
  <2> QED BY <1>1, <1>5, <1>6, <1>8, <2>1, <2>3 DEF CoreType, TypeInv, MachineType
<1>9. CASE i.op = "FSTORE"
  <2>1. /\ mem' = [mem EXCEPT ![Address(i)] = fregs[i.rs2]]
        /\ SetStatus({0}) /\ UNCHANGED <<regs, fregs>>
    BY <1>9 DEF ExecuteFloat
  <2>2. fregs[i.rs2] \in Word
    BY <1>2 DEF TypeInv, MachineType
  <2>3. csrs' \in [Csr -> Word]
    BY <1>4, <1>7, <2>1
  <2> QED BY <1>1, <1>3, <1>4, <1>6, <1>9, <2>1, <2>2, <2>3 DEF CoreType, TypeInv, MachineType
<1> QED BY <1>8, <1>9 DEF ExecuteFloat

LEMMA CsrType ==
    ASSUME TypeInv, NEW i \in Code, ExecuteCsr(i)
    PROVE CoreType' /\ i \in SystemInstr
<1>1. i \in SystemInstr
  BY DEF Code, Instr, SystemInstr, ExecuteCsr, Class, SystemOp
<1>2. i.rd \in Reg /\ i.rs1 \in Reg
  BY <1>1 DEF SystemInstr
<1> DEFINE csr == IF i.imm = 0 THEN "fcsr" ELSE "other"
           operand == ReadGpr(regs, i.rs1)
<1>3. csr \in Csr
  BY DEF Csr
<1>4. operand \in Word
  BY <1>2, ReadsInWord
<1>5. csrs[csr] \in Word
  BY <1>3 DEF TypeInv, MachineType
<1>6. /\ regs' = WriteGpr(regs, i.rd, csrs[csr])
      /\ \E v \in Word : csrs' = [csrs EXCEPT ![csr] = v] \/ csrs' = csrs
  BY <1>4, RvssSessionAssumption DEF ExecuteCsr
<1>7. regs' \in [Reg -> Word] /\ regs'[0] = 0
  BY <1>2, <1>5, <1>6, RegsWritten
<1>8. csrs' \in [Csr -> Word]
  <2> HIDE DEF csr
  <2> QED BY <1>3, <1>6 DEF TypeInv, MachineType
<1>9. pc' \in Word /\ UNCHANGED <<fregs, mem, reading, input_queue>>
  BY NextInWord DEF ExecuteCsr
<1> QED BY <1>1, <1>7, <1>8, <1>9 DEF CoreType, TypeInv, MachineType

\* A READ writes registers and bytes, within its buffer.
LEMMA ReadType ==
    ASSUME TypeInv, ReadReturns
    PROVE /\ regs' \in [Reg -> Word] /\ regs'[0] = 0
          /\ \A q \in Reg : q # A0 => regs'[q] = regs[q]
          /\ mem' \in [Word -> Word]
          /\ \A c \in Word : ~(Offset(c, reading.at) < reading.length) => mem'[c] = mem[c]
          /\ reading' \in [waiting: BOOLEAN, at: Word, length: Word]
          /\ input_queue' \in Seq(Seq(Word))
<1> DEFINE line == Head(input_queue)
           ends == EndsWithin(line, reading.length)
           written == {Cell(reading.at, k) : k \in 0 .. ends - 1}
<1>1. input_queue \in Seq(Seq(Word)) /\ input_queue # <<>>
  BY DEF ReadReturns, TypeInv, MachineType
<1>2. line \in Seq(Word) /\ Tail(input_queue) \in Seq(Seq(Word))
  BY <1>1
<1>3. reading.at \in Word /\ reading.length \in Word
  BY DEF TypeInv, MachineType
<1>4. Len(line) \in Nat /\ \A k \in Nat : k < Len(line) => line[k + 1] \in Word
  BY <1>2
<1>5. 0 \in Word /\ \A w \in Word : w \in Nat /\ \A k \in Nat : k <= w => k \in Word
  BY IsaAssumption DEF Word
<1>6. ends \in Nat /\ ends <= reading.length /\ Smaller(Len(line), reading.length) \in Word
  BY <1>3, <1>4, <1>5 DEF EndsWithin, Smaller
<1>7. \A c \in Word : Offset(c, reading.at) \in Word
  BY <1>3, CellOffset
<1>8. \A c \in Word : Received(line, Offset(c, reading.at)) \in Word
  BY <1>4, <1>5, <1>7 DEF Received
<1>9. \A c \in written : Offset(c, reading.at) < reading.length
  <2> TAKE c \in written
  <2>1. PICK k \in 0 .. ends - 1 : c = Cell(reading.at, k)
    OBVIOUS
  <2>2. k \in Nat /\ k < reading.length /\ k \in Word
    BY <1>3, <1>5, <1>6, <2>1
  <2>3. Offset(c, reading.at) = k
    BY <1>3, <2>1, <2>2, CellInWord
  <2> QED BY <2>2, <2>3
<1>10. mem' = [c \in Word |-> IF c \in written THEN Received(line, Offset(c, reading.at))
                                             ELSE mem[c]]
  BY DEF ReadReturns
<1>11. regs' = [regs EXCEPT ![A0] = Smaller(Len(line), reading.length)]
  BY DEF ReadReturns
<1>12. reading' = NotReading /\ input_queue' = Tail(input_queue)
  BY DEF ReadReturns
<1>13. reading' \in [waiting: BOOLEAN, at: Word, length: Word]
  BY <1>5, <1>12 DEF NotReading
<1>14. /\ regs' \in [Reg -> Word] /\ regs'[0] = 0
       /\ \A q \in Reg : q # A0 => regs'[q] = regs[q]
  BY <1>6, <1>11, RvssSessionAssumption DEF TypeInv, MachineType
<1>15. /\ mem' \in [Word -> Word]
       /\ \A c \in Word : ~(Offset(c, reading.at) < reading.length) => mem'[c] = mem[c]
  <2> HIDE DEF line, written
  <2> QED BY <1>8, <1>9, <1>10 DEF TypeInv, MachineType
<1> QED BY <1>2, <1>12, <1>13, <1>14, <1>15

LEMMA SyscallType ==
    ASSUME TypeInv, NEW i \in Code, ExecuteSyscall(i)
    PROVE /\ CoreType' /\ i.op = "ECALL"
          /\ \A q \in Reg : q # A0 => regs'[q] = regs[q]
          /\ UNCHANGED fregs
          /\ \A c \in Word : ~(reading.waiting /\ Offset(c, reading.at) < reading.length)
                               => mem'[c] = mem[c]
<1>1. pc' \in Word /\ UNCHANGED banks /\ i.op = "ECALL"
  BY NextInWord DEF ExecuteSyscall
<1>2. CASE ReadReturns
  <2>1. reading.waiting
    BY <1>2 DEF ReadReturns
  <2>2. /\ regs' \in [Reg -> Word] /\ regs'[0] = 0
        /\ \A q \in Reg : q # A0 => regs'[q] = regs[q]
        /\ mem' \in [Word -> Word]
        /\ \A c \in Word : ~(Offset(c, reading.at) < reading.length) => mem'[c] = mem[c]
        /\ reading' \in [waiting: BOOLEAN, at: Word, length: Word]
        /\ input_queue' \in Seq(Seq(Word))
    BY <1>2, ReadType
  <2>3. fregs' \in [Reg -> Word] /\ csrs' \in [Csr -> Word] /\ UNCHANGED fregs
    BY <1>1 DEF TypeInv, MachineType, banks
  <2> QED BY <1>1, <2>1, <2>2, <2>3 DEF CoreType
<1>3. CASE regs' = [regs EXCEPT ![A0] = regs[A2]] /\ UNCHANGED <<mem, reading, input_queue>>
  <2>1. regs[A2] \in Word
    BY RvssSessionAssumption DEF TypeInv, MachineType
  <2> QED BY <1>1, <1>3, <2>1, RvssSessionAssumption DEF CoreType, TypeInv, MachineType, banks
<1>4. CASE UNCHANGED <<regs, mem, reading, input_queue>>
  BY <1>1, <1>4 DEF CoreType, TypeInv, MachineType, banks
<1> QED BY <1>2, <1>3, <1>4 DEF ExecuteSyscall

-----------------------------------------------------------------------------
(***************************************************************************)
(* The log of one instruction tells the truth about what it did.           *)
(***************************************************************************)
\* A log of one bank alone.
BankLogged(changes, bank, before, after) ==
    /\ changes \in Seq(RegisterChangeSet) /\ Len(changes) <= 1
    /\ RegistersLogged(changes, bank, before, after)
    /\ \A n \in DOMAIN changes : changes[n].bank = bank

LEMMA OneRegister ==
    ASSUME NEW bank \in {"gpr", "fpr"}, NEW r \in Reg, NEW new \in Word,
           NEW before \in [Reg -> Word], NEW after \in [Reg -> Word],
           \A q \in Reg : q # r => after[q] = before[q],
           \A q \in Reg : Ignores(bank, q) => after[q] = before[q],
           ~Ignores(bank, r) => after[r] = new
    PROVE BankLogged(RegisterChange(bank, r, before[r], new), bank, before, after)
<1> DEFINE change == [bank |-> bank, at |-> r, old |-> before[r], new |-> new]
<1>1. CASE before[r] = new
  <2>1. RegisterChange(bank, r, before[r], new) = <<>>
    BY <1>1 DEF RegisterChange
  <2>2. \A q \in Reg : after[q] = before[q]
    BY <1>1
  <2> QED BY <2>1, <2>2 DEF BankLogged, RegistersLogged
<1>2. CASE before[r] # new
  <2>1. RegisterChange(bank, r, before[r], new) = <<change>>
    BY <1>2 DEF RegisterChange
  <2>2. change \in RegisterChangeSet
    BY DEF RegisterChangeSet
  <2>3. change.bank = bank /\ change.at = r /\ change.old = before[r] /\ change.new = new
    OBVIOUS
  <2> HIDE DEF change
  <2>4. /\ DOMAIN <<change>> = {1} /\ <<change>>[1] = change
        /\ <<change>> \in Seq(RegisterChangeSet) /\ Len(<<change>>) = 1
    BY <2>2
  <2>5. RegistersLogged(<<change>>, bank, before, after)
    BY <2>3, <2>4 DEF RegistersLogged
  <2> QED BY <2>1, <2>3, <2>4, <2>5 DEF BankLogged
<1> QED BY <1>1, <1>2

LEMMA UntouchedBank ==
    ASSUME NEW changes, NEW bank, \A n \in DOMAIN changes : changes[n].bank # bank,
           NEW values
    PROVE RegistersLogged(changes, bank, values, values)
BY DEF RegistersLogged

LEMMA OneBuffer ==
    ASSUME NEW at \in Word, NEW length \in Word,
           mem \in [Word -> Word], mem' \in [Word -> Word],
           \A c \in Word : ~(Offset(c, at) < length) => mem'[c] = mem[c]
    PROVE /\ MemoryChange(at, length) \in Seq(MemoryChangeSet)
          /\ Len(MemoryChange(at, length)) <= 1
          /\ MemoryLogged(MemoryChange(at, length), mem, mem')
<1> DEFINE change == [at |-> at, old |-> Bytes(mem, at, length), new |-> Bytes(mem', at, length)]
<1>1. MemoryChange(at, length) = <<change>>
  BY DEF MemoryChange
<1>2. change.old \in ByteVector(length) /\ change.new \in ByteVector(length)
  BY BytesType
<1>3. change \in MemoryChangeSet
  BY <1>2 DEF MemoryChangeSet
<1>4. /\ change.at = at
      /\ DOMAIN change.old = 0 .. length - 1
      /\ \A k \in 0 .. length - 1 : /\ change.old[k] = mem[Cell(at, k)]
                                    /\ change.new[k] = mem'[Cell(at, k)]
  BY DEF Bytes
<1>5. \A c \in Word : mem[c] # mem'[c] => Offset(c, at) \in 0 .. length - 1
  <2> TAKE c \in Word
  <2>1. Offset(c, at) \in Nat /\ length \in Nat
    BY CellOffset DEF Word
  <2> QED BY <2>1
<1> HIDE DEF change
<1>6. DOMAIN <<change>> = {1} /\ <<change>>[1] = change
      /\ <<change>> \in Seq(MemoryChangeSet) /\ Len(<<change>>) = 1
  BY <1>3
<1>7. MemoryLogged(<<change>>, mem, mem')
  <2> DEFINE changes == <<change>>
  <2>1. \A n \in DOMAIN changes : changes[n] = change
    BY <1>6
  <2>2. 1 \in DOMAIN changes
    BY <1>6
  <2> HIDE DEF changes
  <2>3. \A c \in Word : mem[c] # mem'[c] =>
          \E n \in DOMAIN changes : Offset(c, changes[n].at) \in DOMAIN changes[n].old
    BY <1>4, <1>5, <2>1, <2>2
  <2>4. \A n \in DOMAIN changes : \A k \in DOMAIN changes[n].old :
          /\ changes[n].old[k] = mem[Cell(changes[n].at, k)]
          /\ changes[n].new[k] = mem'[Cell(changes[n].at, k)]
    BY <1>4, <2>1
  <2> QED BY <2>3, <2>4 DEF MemoryLogged, changes
<1> QED BY <1>1, <1>6, <1>7

LEMMA NoBuffer ==
    ASSUME \A c \in Word : mem'[c] = mem[c]
    PROVE <<>> \in Seq(MemoryChangeSet) /\ Len(<<>>) <= 1 /\ MemoryLogged(<<>>, mem, mem')
BY DEF MemoryLogged

\* A log that is typed and short, and one that is true besides.
Short(i, result) ==
    /\ RegisterChanges(i, result) \in Seq(RegisterChangeSet)
    /\ Len(RegisterChanges(i, result)) <= 1
    /\ MemoryChanges(i) \in Seq(MemoryChangeSet) /\ Len(MemoryChanges(i)) <= 1

RegistersTrue(i, result) ==
    /\ RegisterChanges(i, result) \in Seq(RegisterChangeSet)
    /\ Len(RegisterChanges(i, result)) <= 1
    /\ RegistersLogged(RegisterChanges(i, result), "gpr", regs, regs')
    /\ RegistersLogged(RegisterChanges(i, result), "fpr", fregs, fregs')

MemoryTrue(i) ==
    /\ MemoryChanges(i) \in Seq(MemoryChangeSet) /\ Len(MemoryChanges(i)) <= 1
    /\ MemoryLogged(MemoryChanges(i), mem, mem')

LEMMA GprLogged ==
    ASSUME TypeInv, CoreType', NEW i \in Code, NEW result, NEW r \in Reg, NEW new \in Word,
           RegisterChanges(i, result) = RegisterChange("gpr", r, regs[r], new),
           r # 0 => regs'[r] = new,
           UNCHANGED fregs, \A q \in Reg : q # r => regs'[q] = regs[q]
    PROVE RegistersTrue(i, result)
<1>1. /\ regs \in [Reg -> Word] /\ regs' \in [Reg -> Word]
      /\ regs[0] = 0 /\ regs'[0] = 0 /\ fregs' = fregs
  BY DEF TypeInv, MachineType, CoreType
<1> DEFINE changes == RegisterChange("gpr", r, regs[r], new)
<1>2. BankLogged(changes, "gpr", regs, regs')
  BY <1>1, OneRegister DEF Ignores
<1> HIDE DEF changes
<1>3. RegistersLogged(changes, "fpr", fregs, fregs')
  <2>1. \A n \in DOMAIN changes : changes[n].bank # "fpr"
    BY <1>2 DEF BankLogged
  <2> QED BY <1>1, <2>1, UntouchedBank
<1>4. RegisterChanges(i, result) = changes
  BY DEF changes
<1> QED BY <1>2, <1>3, <1>4 DEF RegistersTrue, BankLogged

LEMMA FprLogged ==
    ASSUME TypeInv, CoreType', NEW i \in Code, NEW result, NEW r \in Reg,
           RegisterChanges(i, result) = RegisterChange("fpr", r, fregs[r], fregs'[r]),
           UNCHANGED regs, \A q \in Reg : q # r => fregs'[q] = fregs[q]
    PROVE RegistersTrue(i, result)
<1>1. fregs \in [Reg -> Word] /\ fregs' \in [Reg -> Word] /\ regs' = regs
  BY DEF TypeInv, MachineType, CoreType
<1> DEFINE changes == RegisterChange("fpr", r, fregs[r], fregs'[r])
<1>2. BankLogged(changes, "fpr", fregs, fregs')
  BY <1>1, OneRegister DEF Ignores
<1> HIDE DEF changes
<1>3. RegistersLogged(changes, "gpr", regs, regs')
  <2>1. \A n \in DOMAIN changes : changes[n].bank # "gpr"
    BY <1>2 DEF BankLogged
  <2> QED BY <1>1, <2>1, UntouchedBank
<1>4. RegisterChanges(i, result) = changes
  BY DEF changes
<1> QED BY <1>2, <1>3, <1>4 DEF RegistersTrue, BankLogged

\* One cell is a buffer of length one; a store that changes nothing may be
\* left out.
LEMMA CellLogged ==
    ASSUME TypeInv, CoreType', NEW i \in Code, i.op \in {"STORE", "FSTORE"},
           \A c \in Word : c # Address(i) => mem'[c] = mem[c]
    PROVE MemoryTrue(i)
<1>1. Address(i) \in Word /\ 1 \in Word
  BY AddressInWord, IsaAssumption DEF Word
<1>2. CASE mem[Address(i)] = mem'[Address(i)]
  <2>1. MemoryChanges(i) = <<>>
    BY <1>2 DEF MemoryChanges
  <2>2. \A c \in Word : mem'[c] = mem[c]
    BY <1>2
  <2> QED BY <2>1, <2>2, NoBuffer DEF MemoryTrue
<1>3. CASE mem[Address(i)] # mem'[Address(i)]
  <2>1. MemoryChanges(i) = MemoryChange(Address(i), 1)
    BY <1>3 DEF MemoryChanges
  <2>2. \A c \in Word : ~(Offset(c, Address(i)) < 1) => mem'[c] = mem[c]
    <3> TAKE c \in Word
    <3> HAVE ~(Offset(c, Address(i)) < 1)
    <3>1. c # Address(i)
      BY <1>1 DEF Offset, Word
    <3> QED BY <3>1
  <2>3. mem \in [Word -> Word] /\ mem' \in [Word -> Word]
    BY DEF TypeInv, MachineType, CoreType
  <2> QED BY <1>1, <2>1, <2>2, <2>3, OneBuffer DEF MemoryTrue
<1> QED BY <1>2, <1>3

LEMMA InstructionLogged ==
    ASSUME TypeInv, NEW i \in Code, NEW result \in Results(i), Execute(i, result)
    PROVE CoreType' /\ Short(i, result) /\ (i.op # "CSR" => RegistersTrue(i, result) /\ MemoryTrue(i))
<1>1. /\ regs \in [Reg -> Word] /\ regs[0] = 0 /\ i.rd \in Reg /\ A0 \in Reg
      /\ ReadGpr(regs, i.rd) = regs[i.rd] /\ result \in Word
  BY RvssSessionAssumption, ResultsInWord DEF TypeInv, MachineType, Code, Instr, SystemInstr, ReadGpr
<1>2. CASE ExecuteInteger(i)
  <2>1. /\ CoreType' /\ i \in Instr
        /\ \A q \in Reg : q # i.rd => regs'[q] = regs[q]
        /\ UNCHANGED fregs
        /\ \A c \in Word : ~(i.op = "STORE" /\ c = Address(i)) => mem'[c] = mem[c]
    BY <1>2, IntegerType
  <2>2. i.op \notin {"ECALL", "FP", "FLOAD", "FSTORE", "CSR"}
    BY <2>1 DEF Instr, Class
  <2>3. ReadGpr(regs', i.rd) = regs'[i.rd]
    BY <1>1, <2>1 DEF CoreType, ReadGpr
  <2>4. RegisterChanges(i, result) = RegisterChange("gpr", i.rd, regs[i.rd], regs'[i.rd])
    BY <1>1, <2>2, <2>3 DEF RegisterChanges
  <2>5. RegistersTrue(i, result)
    <3>1. regs'[i.rd] \in Word
      BY <1>1, <2>1 DEF CoreType
    <3> QED BY <1>1, <2>1, <2>4, <3>1, GprLogged
  <2>6. CASE i.op = "STORE"
    BY <2>1, <2>5, <2>6, CellLogged DEF Short, RegistersTrue, MemoryTrue
  <2>7. CASE i.op # "STORE"
    <3>1. MemoryChanges(i) = <<>>
      BY <2>2, <2>7 DEF MemoryChanges
    <3>2. MemoryTrue(i)
      BY <2>1, <2>7, <3>1, NoBuffer DEF MemoryTrue
    <3> QED BY <2>1, <2>5, <3>2 DEF Short, RegistersTrue, MemoryTrue
  <2> QED BY <2>6, <2>7
<1>3. CASE ExecuteFloat(i, result)
  <2>1. /\ CoreType' /\ i \in SystemInstr
        /\ IF FloatWritesGpr(i) THEN UNCHANGED fregs /\ \A q \in Reg : q # i.rd => regs'[q] = regs[q]
                                ELSE UNCHANGED regs /\ \A q \in Reg : q # i.rd => fregs'[q] = fregs[q]
        /\ i.op = "FSTORE" => UNCHANGED <<regs, fregs>>
        /\ i.op # "FSTORE" => IF FloatWritesGpr(i) THEN i.rd # 0 => regs'[i.rd] = result
                                                   ELSE fregs'[i.rd] = result
        /\ \A c \in Word : ~(i.op = "FSTORE" /\ c = Address(i)) => mem'[c] = mem[c]
    BY <1>1, <1>3, FloatType
  <2>2. i.op \in {"FP", "FLOAD", "FSTORE"}
    BY <1>3 DEF ExecuteFloat
  <2>4. RegistersTrue(i, result)
    <3>1. CASE i.op = "FSTORE"
      <4>1. RegisterChanges(i, result) = <<>> /\ regs' = regs /\ fregs' = fregs
        BY <2>1, <3>1 DEF RegisterChanges
      <4> QED BY <4>1 DEF RegistersTrue, RegistersLogged
    <3>2. CASE i.op # "FSTORE" /\ FloatWritesGpr(i)
      <4>1. RegisterChanges(i, result) = RegisterChange("gpr", i.rd, regs[i.rd], result)
        BY <1>1, <2>2, <3>2 DEF RegisterChanges
      <4> QED BY <1>1, <2>1, <3>2, <4>1, GprLogged
    <3>3. CASE i.op # "FSTORE" /\ ~FloatWritesGpr(i)
      <4>1. RegisterChanges(i, result) = RegisterChange("fpr", i.rd, fregs[i.rd], fregs'[i.rd])
        BY <2>1, <2>2, <3>3 DEF RegisterChanges
      <4> QED BY <1>1, <2>1, <3>3, <4>1, FprLogged
    <3> QED BY <3>1, <3>2, <3>3
  <2>5. MemoryTrue(i)
    <3>1. CASE i.op = "FSTORE"
      BY <2>1, <3>1, CellLogged
    <3>2. CASE i.op # "FSTORE"
      <4>1. MemoryChanges(i) = <<>>
        BY <2>2, <3>2 DEF MemoryChanges
      <4> QED BY <2>1, <3>2, <4>1, NoBuffer DEF MemoryTrue
    <3> QED BY <3>1, <3>2
  <2> QED BY <2>1, <2>4, <2>5 DEF Short, RegistersTrue, MemoryTrue
<1>4. CASE ExecuteCsr(i)
  <2>1. CoreType' /\ i.op = "CSR"
    BY <1>4, CsrType DEF ExecuteCsr
  <2>2. RegisterChanges(i, result) = <<>> /\ MemoryChanges(i) = <<>>
    BY <2>1 DEF RegisterChanges, MemoryChanges
  <2> QED BY <2>1, <2>2 DEF Short
<1>5. CASE ExecuteSyscall(i)
  <2>1. /\ CoreType' /\ i.op = "ECALL"
        /\ \A q \in Reg : q # A0 => regs'[q] = regs[q]
        /\ UNCHANGED fregs
        /\ \A c \in Word : ~(reading.waiting /\ Offset(c, reading.at) < reading.length)
                             => mem'[c] = mem[c]
    BY <1>5, SyscallType
  <2>2. RegisterChanges(i, result) = RegisterChange("gpr", A0, regs[A0], regs'[A0])
    BY <2>1 DEF RegisterChanges
  <2>3. RegistersTrue(i, result)
    <3>1. regs'[A0] \in Word
      BY <1>1, <2>1 DEF CoreType
    <3> QED BY <1>1, <2>1, <2>2, <3>1, GprLogged
  <2>4. MemoryTrue(i)
    <3>1. CASE reading.waiting
      <4>1. MemoryChanges(i) = MemoryChange(reading.at, reading.length)
        BY <2>1, <3>1 DEF MemoryChanges
      <4>2. reading.at \in Word /\ reading.length \in Word
            /\ mem \in [Word -> Word] /\ mem' \in [Word -> Word]
        BY <2>1 DEF TypeInv, MachineType, CoreType
      <4> QED BY <2>1, <3>1, <4>1, <4>2, OneBuffer DEF MemoryTrue
    <3>2. CASE ~reading.waiting
      <4>1. MemoryChanges(i) = <<>>
        BY <2>1, <3>2 DEF MemoryChanges
      <4> QED BY <2>1, <3>2, <4>1, NoBuffer DEF MemoryTrue
    <3> QED BY <3>1, <3>2
  <2> QED BY <2>1, <2>3, <2>4 DEF Short, RegistersTrue, MemoryTrue
<1> QED BY <1>2, <1>3, <1>4, <1>5 DEF Execute

-----------------------------------------------------------------------------
(***************************************************************************)
(* Type correctness.  Replaying a log of any length writes what the log    *)
(* says, in places there are, and never x0, whatever the log has for it.   *)
(***************************************************************************)
Sides == {"old", "new"}

LEMMA ReplayBankType ==
    ASSUME NEW changes \in Seq(RegisterChangeSet), NEW bank \in {"gpr", "fpr"},
           NEW values \in [Reg -> Word], NEW side \in Sides
    PROVE /\ ReplayBank(values, bank, changes, side) \in [Reg -> Word]
          /\ bank = "gpr" /\ values[0] = 0 => ReplayBank(values, bank, changes, side)[0] = 0
<1> DEFINE T(r) == {n \in DOMAIN changes : changes[n].bank = bank /\ changes[n].at = r}
<1>1. DOMAIN changes = 1 .. Len(changes) /\ Len(changes) \in Nat
  OBVIOUS
<1>2. \A r \in Reg : T(r) # {} => Last(T(r)) \in T(r)
  <2> TAKE r \in Reg
  <2> HAVE T(r) # {}
  <2>1. T(r) \in SUBSET (1 .. Len(changes))
    BY <1>1
  <2> HIDE DEF T
  <2> QED BY <1>1, <2>1, LastIn
<1>3. \A r \in Reg : T(r) # {} => changes[Last(T(r))][side] \in Word
  <2> TAKE r \in Reg
  <2> HAVE T(r) # {}
  <2>1. Last(T(r)) \in DOMAIN changes
    BY <1>2
  <2>2. changes[Last(T(r))] \in RegisterChangeSet
    BY <2>1
  <2> QED BY <2>2 DEF RegisterChangeSet, Sides
<1>4. ReplayBank(values, bank, changes, side) =
        [r \in Reg |-> IF T(r) = {} \/ Ignores(bank, r) THEN values[r]
                       ELSE changes[Last(T(r))][side]]
  BY DEF ReplayBank
<1>5. 0 \in Reg
  BY IsaAssumption DEF Reg
<1> HIDE DEF T
<1> QED BY <1>3, <1>4, <1>5 DEF Ignores

LEMMA ReplayMemoryType ==
    ASSUME NEW changes \in Seq(MemoryChangeSet), NEW memory \in [Word -> Word], NEW side \in Sides
    PROVE ReplayMemory(memory, changes, side) \in [Word -> Word]
<1> DEFINE T(c) == {n \in DOMAIN changes : Offset(c, changes[n].at) \in DOMAIN changes[n].old}
<1>1. DOMAIN changes = 1 .. Len(changes) /\ Len(changes) \in Nat
  OBVIOUS
<1>2. \A c \in Word : T(c) # {} => Last(T(c)) \in T(c)
  <2> TAKE c \in Word
  <2> HAVE T(c) # {}
  <2>1. T(c) \in SUBSET (1 .. Len(changes))
    BY <1>1
  <2> HIDE DEF T
  <2> QED BY <1>1, <2>1, LastIn
<1>3. \A c \in Word : T(c) # {} =>
         changes[Last(T(c))][side][Offset(c, changes[Last(T(c))].at)] \in Word
  <2> TAKE c \in Word
  <2> HAVE T(c) # {}
  <2> DEFINE change == changes[Last(T(c))]
  <2>1. Last(T(c)) \in DOMAIN changes /\ Offset(c, change.at) \in DOMAIN change.old
    BY <1>2
  <2>2. change \in MemoryChangeSet
    BY <2>1
  <2> HIDE DEF change
  <2>3. PICK length \in Word : change \in [at: Word, old: ByteVector(length), new: ByteVector(length)]
    BY <2>2 DEF MemoryChangeSet
  <2>4. change[side] \in [0 .. length - 1 -> Word] /\ DOMAIN change.old = 0 .. length - 1
    BY <2>3 DEF ByteVector, Sides
  <2>5. change[side][Offset(c, change.at)] \in Word
    BY <2>1, <2>4
  <2> QED BY <2>5 DEF change
<1>4. ReplayMemory(memory, changes, side) =
        [c \in Word |-> IF T(c) = {} THEN memory[c]
           ELSE changes[Last(T(c))][side][Offset(c, changes[Last(T(c))].at)]]
  BY DEF ReplayMemory
<1> HIDE DEF T
<1> QED BY <1>3, <1>4

LEMMA RestoreType ==
    ASSUME TypeInv, NEW entry \in EntrySet, NEW side \in Sides, Restore(entry, side),
           UNCHANGED <<csrs, reading, input_queue>>
    PROVE MachineType'
<1>1. /\ entry.old_pc \in Word /\ entry.new_pc \in Word
      /\ entry.registers \in Seq(RegisterChangeSet) /\ entry.memory \in Seq(MemoryChangeSet)
  BY DEF EntrySet
<1>2. /\ regs \in [Reg -> Word] /\ regs[0] = 0 /\ fregs \in [Reg -> Word]
      /\ mem \in [Word -> Word] /\ retired \in Counter
  BY DEF TypeInv, MachineType
<1>3. pc' = PcOf(entry, side)
  BY DEF Restore, Replayed
<1>4. regs' = ReplayBank(regs, "gpr", entry.registers, side)
  BY DEF Restore, Replayed, Visible
<1>5. fregs' = ReplayBank(fregs, "fpr", entry.registers, side)
  BY DEF Restore, Replayed, Visible
<1>6. mem' = ReplayMemory(mem, entry.memory, side)
  BY DEF Restore, Replayed, Visible
<1>7. retired' = IF side = "old" THEN (retired - 1) % CounterMod ELSE Bump(retired)
  BY DEF Restore, Replayed, Visible
<1>8. pc' \in Word
  BY <1>1, <1>3 DEF PcOf
<1>9. regs' \in [Reg -> Word] /\ regs'[0] = 0
  BY <1>1, <1>2, <1>4, ReplayBankType
<1>10. fregs' \in [Reg -> Word]
  BY <1>1, <1>2, <1>5, ReplayBankType
<1>11. mem' \in [Word -> Word]
  BY <1>1, <1>2, <1>6, ReplayMemoryType
<1>12. retired' \in Counter
  <2>1. retired - 1 \in Int
    BY <1>2, IsaAssumption DEF Counter
  <2>2. (retired - 1) % CounterMod \in Counter
    BY <2>1, IsaAssumption DEF Counter
  <2> QED BY <1>2, <1>7, <2>2, BumpInCounter
<1> QED BY <1>8, <1>9, <1>10, <1>11, <1>12 DEF TypeInv, MachineType

\* An instruction that completes, and what is logged of it.
LEMMA CompleteType ==
    ASSUME TypeInv, NEW i \in Code, NEW result \in Results(i), Complete(i, result)
    PROVE /\ MachineType' /\ ProgramType'
          /\ DeltaAfter(i, result) \in DeltaSet /\ Entry(i, result) \in EntrySet
<1>1. CoreType' /\ Short(i, result)
  BY InstructionLogged DEF Complete
<1>2. retired' \in Counter
  BY BumpInCounter DEF Complete, TypeInv, MachineType
<1>3. ProgramType'
  BY DEF Complete, TypeInv, ProgramType
<1>4. /\ current_delta.registers \in Seq(RegisterChangeSet)
      /\ current_delta.memory \in Seq(MemoryChangeSet)
  BY DEF TypeInv, LogType, DeltaSet
<1>5. /\ current_delta.registers \o RegisterChanges(i, result) \in Seq(RegisterChangeSet)
      /\ current_delta.memory \o MemoryChanges(i) \in Seq(MemoryChangeSet)
  BY <1>1, <1>4, ConcatProperties DEF Short
<1>6. DeltaAfter(i, result) \in DeltaSet
  BY <1>5 DEF DeltaAfter, DeltaSet
<1>7. pc \in Word /\ pc' \in Word
  BY <1>1 DEF CoreType, TypeInv, MachineType
<1>8. Entry(i, result) \in EntrySet
  BY <1>5, <1>7 DEF Entry, DeltaAfter, EntrySet
<1> QED BY <1>1, <1>2, <1>3, <1>6, <1>8 DEF CoreType, MachineType

LEMMA NoChangesType == NoChanges \in DeltaSet
BY DEF NoChanges, DeltaSet

LEMMA PushType ==
    ASSUME TypeInv, NEW i, NEW result, Entry(i, result) \in EntrySet, Push(i, result)
    PROVE LogType'
<1>1. <<Entry(i, result)>> \o undo_stack \in Seq(EntrySet)
  BY ConcatProperties DEF TypeInv, LogType
<1> QED BY <1>1, NoChangesType DEF Push, LogType

\* Loading one of the programs leaves a memory of words.
LEMMA LoadedMemory ==
    ASSUME NEW memory \in [Word -> Word], NEW image \in [text: Programs, data: DataImages]
    PROVE LoadProgram(memory, image) \in [Word -> Word]
<1>1. image.text \in Seq(InstrWord)
  BY RvssSessionAssumption
<1>2. \A a \in DOMAIN image.data : a \in Word /\ image.data[a] \in Word
  BY RvssSessionAssumption
<1> QED BY <1>1, <1>2, LoadProgramTyped

LEMMA InitType == SessionInit => TypeInv
<1> SUFFICES ASSUME SessionInit PROVE TypeInv
  OBVIOUS
<1>1. 0 \in Word /\ 0 \in Reg /\ 0 \in Counter
  BY IsaAssumption DEF Word, Reg, Counter
<1>2. ProgramType
  BY DEF SessionInit, Init, ProgramType
<1>3. mem \in [Word -> Word]
  BY <1>2, LoadedMemory, ZeroMemoryReads DEF SessionInit, Init, ProgramType
<1>4. MachineType
  BY <1>1, <1>3 DEF SessionInit, Init, MachineType, NotReading
<1>5. LogType
  BY NoChangesType DEF SessionInit, LogType
<1> QED BY <1>2, <1>4, <1>5 DEF TypeInv

LEMMA ResetType ==
    ASSUME TypeInv, ResetMachine, mem' \in [Word -> Word]
    PROVE TypeInv'
<1>1. 0 \in Word /\ 0 \in Reg /\ 0 \in Counter
  BY IsaAssumption DEF Word, Reg, Counter
<1>2. MachineType'
  BY <1>1 DEF ResetMachine, TypeInv, MachineType
<1>3. ProgramType'
  BY DEF ResetMachine, TypeInv, ProgramType
<1>4. LogType'
  BY NoChangesType DEF ResetMachine, ClearLog, LogType
<1> QED BY <1>2, <1>3, <1>4 DEF TypeInv

LEMMA ThreadType == TypeInv /\ ThreadNext => TypeInv'
<1> SUFFICES ASSUME TypeInv, ThreadNext PROVE TypeInv'
  OBVIOUS
<1>1. ASSUME UNCHANGED machineAndLog, reading' \in [waiting: BOOLEAN, at: Word, length: Word]
      PROVE TypeInv'
  BY <1>1 DEF machineAndLog, vars, banks, log, TypeInv, MachineType, ProgramType, LogType
<1>2. reading \in [waiting: BOOLEAN, at: Word, length: Word]
  BY DEF TypeInv, MachineType
<1>3. Instruction \in Code
  BY InstructionInCode
<1>4. ASSUME NEW result \in Results(Instruction), Complete(Instruction, result),
             Push(Instruction, result)
      PROVE TypeInv'
  BY <1>3, <1>4, CompleteType, PushType DEF TypeInv
<1>5. CASE StepThread
  BY <1>1, <1>2, <1>4, <1>5 DEF StepThread
<1>6. CASE RunThread
  <2>1. PICK result \in Results(Instruction) :
          Complete(Instruction, result) /\ current_delta' = DeltaAfter(Instruction, result)
    BY <1>6 DEF RunThread
  <2>2. MachineType' /\ ProgramType' /\ DeltaAfter(Instruction, result) \in DeltaSet
    BY <1>3, <2>1, CompleteType
  <2>3. LogType'
    BY <1>6, <2>1, <2>2 DEF RunThread, TypeInv, LogType
  <2> QED BY <2>2, <2>3 DEF TypeInv
<1>7. CASE DebugThread
  BY <1>4, <1>7 DEF DebugThread
<1>8. CASE ThreadReturns
  BY <1>1, <1>2, <1>8 DEF ThreadReturns
<1>9. CASE ThreadWaits
  <2>1. regs[A1] \in Word /\ regs[A2] \in Word
    BY RvssSessionAssumption DEF TypeInv, MachineType
  <2> QED BY <1>1, <1>9, <2>1 DEF ThreadWaits, ReadBegins
<1>10. CASE ThreadExits
  BY <1>1, <1>2, <1>10 DEF ThreadExits
<1> QED BY <1>5, <1>6, <1>7, <1>8, <1>9, <1>10 DEF ThreadNext

LEMMA UserType == TypeInv /\ UserNext => TypeInv'
<1> SUFFICES ASSUME TypeInv, UserNext PROVE TypeInv'
  OBVIOUS
<1>1. CASE StepCommand
  BY <1>1 DEF StepCommand, vars, banks, log, TypeInv, MachineType, ProgramType, LogType
<1>2. CASE RunCommand \/ DebugCommand
  <2>1. ResetMachine /\ mem' = LoadProgram(ZeroMemory, program)
    BY <1>2 DEF RunCommand, DebugCommand, LaunchRun
  <2>2. program \in [text: Programs, data: DataImages]
    BY DEF TypeInv, ProgramType
  <2>3. mem' \in [Word -> Word]
    BY <2>1, <2>2, LoadedMemory, ZeroMemoryReads
  <2> QED BY <2>1, <2>3, ResetType
<1>3. CASE UndoCommand
  <2>1. Head(undo_stack) \in EntrySet /\ Tail(undo_stack) \in Seq(EntrySet)
    BY <1>3, HeadTailProperties DEF UndoCommand, TypeInv, LogType
  <2>2. MachineType'
    BY <1>3, <2>1, RestoreType DEF UndoCommand, Sides
  <2>3. <<Head(undo_stack)>> \o redo_stack \in Seq(EntrySet)
    BY <2>1, ConcatProperties DEF TypeInv, LogType
  <2>4. LogType' /\ ProgramType'
    BY <1>3, <2>1, <2>3 DEF UndoCommand, TypeInv, LogType, ProgramType
  <2> QED BY <2>2, <2>4 DEF TypeInv
<1>4. CASE RedoCommand
  <2>1. Head(redo_stack) \in EntrySet /\ Tail(redo_stack) \in Seq(EntrySet)
    BY <1>4, HeadTailProperties DEF RedoCommand, TypeInv, LogType
  <2>2. MachineType'
    BY <1>4, <2>1, RestoreType DEF RedoCommand, Sides
  <2>3. <<Head(redo_stack)>> \o undo_stack \in Seq(EntrySet)
    BY <2>1, ConcatProperties DEF TypeInv, LogType
  <2>4. LogType' /\ ProgramType'
    BY <1>4, <2>1, <2>3 DEF RedoCommand, TypeInv, LogType, ProgramType
  <2> QED BY <2>2, <2>4 DEF TypeInv
<1>5. CASE ResetCommand
  BY <1>5, ResetType, ZeroMemoryReads DEF ResetCommand
<1>6. CASE LoadCommand
  <2>1. program' \in [text: Programs, data: DataImages] /\ mem' = LoadProgram(mem, program')
    BY <1>6 DEF LoadCommand
  <2>2. mem \in [Word -> Word]
    BY DEF TypeInv, MachineType
  <2>3. mem' \in [Word -> Word]
    BY <2>1, <2>2, LoadedMemory
  <2> QED BY <1>6, <2>1, <2>3 DEF LoadCommand, banks, log, TypeInv, MachineType, ProgramType, LogType
<1>7. CASE ModifyRegister
  <2>1. PICK r \in EditedRegs, v \in Edits :
         \/ regs' = WriteGpr(regs, r, v) /\ UNCHANGED banks
         \/ fregs' = [fregs EXCEPT ![r] = v] /\ UNCHANGED <<regs, csrs>>
         \/ \E c \in Csr : csrs' = [csrs EXCEPT ![c] = v] /\ UNCHANGED <<regs, fregs>>
    BY <1>7 DEF ModifyRegister
  <2>2. r \in Reg /\ v \in Word
    BY RvssSessionAssumption
  <2>3. WriteGpr(regs, r, v) \in [Reg -> Word] /\ WriteGpr(regs, r, v)[0] = 0
    BY <2>2, RegsWritten
  <2>4. regs' \in [Reg -> Word] /\ regs'[0] = 0 /\ fregs' \in [Reg -> Word] /\ csrs' \in [Csr -> Word]
    BY <2>1, <2>2, <2>3 DEF banks, TypeInv, MachineType
  <2> QED BY <1>7, <2>4 DEF ModifyRegister, log, TypeInv, MachineType, ProgramType, LogType
<1>8. CASE ModifyMemory
  <2>1. PICK a \in EditedCells, v \in Edits : mem' = [mem EXCEPT ![a] = v]
    BY <1>8 DEF ModifyMemory
  <2>2. mem' \in [Word -> Word]
    BY <2>1, RvssSessionAssumption DEF TypeInv, MachineType
  <2> QED BY <1>8, <2>2 DEF ModifyMemory, banks, log, TypeInv, MachineType, ProgramType, LogType
<1>9. CASE Breakpoint
  BY <1>9 DEF Breakpoint, vars, banks, log, TypeInv, MachineType, ProgramType, LogType
<1>10. CASE VmStdin
  <2>1. PICK line \in Inputs : input_queue' = Append(input_queue, line)
    BY <1>10 DEF VmStdin
  <2>2. line \in Seq(Word)
    BY RvssSessionAssumption
  <2>3. input_queue' \in Seq(Seq(Word))
    BY <2>1, <2>2, AppendProperties DEF TypeInv, MachineType
  <2> QED BY <1>10, <2>3 DEF VmStdin, vars, banks, log, TypeInv, MachineType, ProgramType, LogType
<1> QED BY <1>1, <1>2, <1>3, <1>4, <1>5, <1>6, <1>7, <1>8, <1>9, <1>10 DEF UserNext

LEMMA NextType == TypeInv /\ [SessionNext]_sessionVars => TypeInv'
<1>1. TypeInv /\ UNCHANGED sessionVars => TypeInv'
  BY DEF sessionVars, vars, banks, log, TypeInv, MachineType, ProgramType, LogType
<1> QED BY <1>1, ThreadType, UserType DEF SessionNext

LEMMA LogTypeOK ==
    ASSUME NEW delta, delta.registers \in Seq(RegisterChangeSet), delta.memory \in Seq(MemoryChangeSet)
    PROVE delta.registers \in RegisterLog /\ MemoryLogOK(delta.memory)
<1>1. delta.registers \in RegisterLog
  BY DEF RegisterChangeSet, RegisterLog
<1>2. ASSUME NEW n \in DOMAIN delta.memory
      PROVE LET c == delta.memory[n]
            IN /\ c.at \in Word
               /\ DOMAIN c.old = DOMAIN c.new
               /\ \E length \in Word : /\ c.old \in [0 .. length - 1 -> Word]
                                       /\ c.new \in [0 .. length - 1 -> Word]
  <2> DEFINE c == delta.memory[n]
  <2>1. c \in MemoryChangeSet
    OBVIOUS
  <2> HIDE DEF c
  <2>2. PICK length \in Word : c \in [at: Word, old: ByteVector(length), new: ByteVector(length)]
    BY <2>1 DEF MemoryChangeSet
  <2>3. /\ c.at \in Word /\ c.old \in [0 .. length - 1 -> Word]
        /\ c.new \in [0 .. length - 1 -> Word]
    BY <2>2 DEF ByteVector
  <2>4. DOMAIN c.old = DOMAIN c.new
    BY <2>3
  <2> QED BY <2>3, <2>4 DEF c
<1> QED BY <1>1, <1>2 DEF MemoryLogOK

\* Values stay in range and x0 stays zero: WriteGpr ignores it, in execution
\* and in replay, though the log may name it.  Every entry of the log speaks
\* of registers and bytes there are: undo writes nowhere else.
THEOREM TypeCorrect == SessionSpec => []TypeOK
<1>1. TypeInv => TypeOK
  <2> SUFFICES ASSUME TypeInv PROVE TypeOK
    OBVIOUS
  <2>1. ASSUME NEW stack \in Seq(EntrySet), NEW n \in DOMAIN stack PROVE EntryOK(stack[n])
    <3>1. stack[n] \in EntrySet
      OBVIOUS
    <3>2. /\ stack[n].old_pc \in Word /\ stack[n].new_pc \in Word
          /\ stack[n].registers \in Seq(RegisterChangeSet)
          /\ stack[n].memory \in Seq(MemoryChangeSet)
      BY <3>1 DEF EntrySet
    <3> QED BY <3>2, LogTypeOK DEF EntryOK
  <2>2. current_delta.registers \in RegisterLog /\ MemoryLogOK(current_delta.memory)
    BY LogTypeOK DEF TypeInv, LogType, DeltaSet
  <2> QED BY <2>1, <2>2 DEF TypeOK, TypeInv, MachineType, LogType
<1>2. SessionInit => TypeInv
  BY InitType
<1>3. TypeInv /\ [SessionNext]_sessionVars => TypeInv'
  BY NextType
<1> QED BY <1>1, <1>2, <1>3, PTL DEF SessionSpec

-----------------------------------------------------------------------------
(***************************************************************************)
(* The log is one path.  A run moves the program counter without logging   *)
(* it, which is right only because the stacks are empty while it runs.     *)
(***************************************************************************)
PathInv ==
    /\ HistoryIsAPath
    /\ running = "run" => undo_stack = <<>> /\ redo_stack = <<>>

LEMMA PushPath ==
    ASSUME TypeInv, PathInv, NEW i, NEW result, Push(i, result) PROVE HistoryIsAPath'
<1>1. undo_stack \in Seq(EntrySet)
  BY DEF TypeInv, LogType
<1> DEFINE e == Entry(i, result)
<1>2. e.old_pc = pc /\ e.new_pc = pc'
  BY DEF Entry
<1>3. undo_stack' = <<e>> \o undo_stack /\ redo_stack' = <<>>
  BY DEF Push
<1> HIDE DEF e
<1>4. /\ Len(undo_stack') = Len(undo_stack) + 1 /\ undo_stack'[1] = e
      /\ \A n \in 1 .. Len(undo_stack) : undo_stack'[n + 1] = undo_stack[n]
  BY <1>1, <1>3
<1>5. \A n \in 1 .. Len(undo_stack') - 1 : undo_stack'[n].old_pc = undo_stack'[n + 1].new_pc
  <2> TAKE n \in 1 .. Len(undo_stack') - 1
  <2>1. CASE n = 1
    <3>1. undo_stack # <<>> /\ undo_stack[1].new_pc = pc
      BY <1>1, <1>4, <2>1 DEF PathInv, HistoryIsAPath
    <3>2. undo_stack'[2] = undo_stack[1]
      BY <1>1, <1>4, <2>1
    <3> QED BY <1>2, <1>4, <2>1, <3>1, <3>2
  <2>2. CASE n # 1
    <3>1. n - 1 \in 1 .. Len(undo_stack) - 1 /\ (n - 1) + 1 = n
      BY <1>1, <1>4, <2>2
    <3>2. undo_stack'[n] = undo_stack[n - 1] /\ undo_stack'[n + 1] = undo_stack[n]
      BY <1>1, <1>4, <3>1
    <3>3. undo_stack[n - 1].old_pc = undo_stack[(n - 1) + 1].new_pc
      BY <3>1 DEF PathInv, HistoryIsAPath
    <3> QED BY <3>1, <3>2, <3>3
  <2> QED BY <2>1, <2>2
<1>6. undo_stack' # <<>> => Head(undo_stack').new_pc = pc'
  BY <1>1, <1>2, <1>3
<1> QED BY <1>3, <1>5, <1>6 DEF HistoryIsAPath

\* An entry that moves from one stack to the other.
LEMMA MovePath ==
    ASSUME NEW from \in Seq(EntrySet), NEW to \in Seq(EntrySet), from # <<>>,
           NEW near, NEW far, NEW here,
           Head(from)[near] = here, to # <<>> => Head(to)[far] = here,
           \A n \in 1 .. Len(from) - 1 : from[n][far] = from[n + 1][near],
           \A n \in 1 .. Len(to) - 1 : to[n][near] = to[n + 1][far]
    PROVE LET left == Tail(from)
              grown == <<Head(from)>> \o to
              there == Head(from)[far]
          IN /\ left # <<>> => Head(left)[near] = there
             /\ Head(grown)[far] = there
             /\ \A n \in 1 .. Len(left) - 1 : left[n][far] = left[n + 1][near]
             /\ \A n \in 1 .. Len(grown) - 1 : grown[n][near] = grown[n + 1][far]
<1> DEFINE left == Tail(from)
           grown == <<Head(from)>> \o to
           there == Head(from)[far]
<1>1. /\ Len(left) = Len(from) - 1 /\ Len(from) \in Nat /\ Head(from) = from[1]
      /\ \A n \in 1 .. Len(left) : left[n] = from[n + 1]
      /\ left \in Seq(EntrySet)
  OBVIOUS
<1>2. /\ Len(grown) = Len(to) + 1 /\ Len(to) \in Nat /\ grown[1] = Head(from)
      /\ \A n \in 1 .. Len(to) : grown[n + 1] = to[n]
      /\ Head(grown) = grown[1]
  OBVIOUS
<1> HIDE DEF left, grown
<1>3. left # <<>> => Head(left)[near] = there
  <2> HAVE left # <<>>
  <2>1. Head(left) = left[1] /\ Len(left) >= 1
    BY <1>1
  <2>2. left[1] = from[2] /\ 1 \in 1 .. Len(from) - 1
    BY <1>1, <2>1
  <2> QED BY <1>1, <2>1, <2>2
<1>4. Head(grown)[far] = there
  BY <1>2
<1>5. \A n \in 1 .. Len(left) - 1 : left[n][far] = left[n + 1][near]
  <2> TAKE n \in 1 .. Len(left) - 1
  <2>1. n \in 1 .. Len(left) /\ n + 1 \in 1 .. Len(left) /\ n + 1 \in 1 .. Len(from) - 1
    BY <1>1
  <2>2. left[n] = from[n + 1] /\ left[n + 1] = from[(n + 1) + 1]
    BY <1>1, <2>1
  <2>3. from[n + 1][far] = from[(n + 1) + 1][near]
    BY <2>1
  <2> QED BY <2>2, <2>3
<1>6. \A n \in 1 .. Len(grown) - 1 : grown[n][near] = grown[n + 1][far]
  <2> TAKE n \in 1 .. Len(grown) - 1
  <2>1. CASE n = 1
    <3>1. grown[2] = to[1] /\ to # <<>> /\ Head(to) = to[1]
      BY <1>2, <2>1
    <3> QED BY <1>2, <2>1, <3>1
  <2>2. CASE n # 1
    <3>1. n - 1 \in 1 .. Len(to) - 1 /\ (n - 1) + 1 = n
      BY <1>2, <2>2
    <3>2. grown[n] = to[n - 1] /\ grown[n + 1] = to[n]
      BY <1>2, <3>1
    <3>3. to[n - 1][near] = to[(n - 1) + 1][far]
      BY <3>1
    <3> QED BY <3>1, <3>2, <3>3
  <2> QED BY <2>1, <2>2
<1> QED BY <1>3, <1>4, <1>5, <1>6 DEF left, grown

LEMMA UndoPath == ASSUME TypeInv, PathInv, UndoCommand PROVE HistoryIsAPath'
<1>1. undo_stack \in Seq(EntrySet) /\ redo_stack \in Seq(EntrySet) /\ undo_stack # <<>>
  BY DEF UndoCommand, TypeInv, LogType
<1>2. /\ undo_stack' = Tail(undo_stack) /\ redo_stack' = <<Head(undo_stack)>> \o redo_stack
      /\ pc' = Head(undo_stack).old_pc
  BY DEF UndoCommand, Restore, Replayed, PcOf
<1>3. /\ Head(undo_stack)["new_pc"] = pc
      /\ redo_stack # <<>> => Head(redo_stack)["old_pc"] = pc
      /\ \A n \in 1 .. Len(undo_stack) - 1 : undo_stack[n]["old_pc"] = undo_stack[n + 1]["new_pc"]
      /\ \A n \in 1 .. Len(redo_stack) - 1 : redo_stack[n]["new_pc"] = redo_stack[n + 1]["old_pc"]
  BY <1>1 DEF PathInv, HistoryIsAPath
<1>4. LET left == Tail(undo_stack)
          grown == <<Head(undo_stack)>> \o redo_stack
          there == Head(undo_stack)["old_pc"]
      IN /\ left # <<>> => Head(left)["new_pc"] = there
         /\ Head(grown)["old_pc"] = there
         /\ \A n \in 1 .. Len(left) - 1 : left[n]["old_pc"] = left[n + 1]["new_pc"]
         /\ \A n \in 1 .. Len(grown) - 1 : grown[n]["new_pc"] = grown[n + 1]["old_pc"]
  BY <1>1, <1>3, MovePath
<1> QED BY <1>2, <1>4 DEF HistoryIsAPath

LEMMA RedoPath == ASSUME TypeInv, PathInv, RedoCommand PROVE HistoryIsAPath'
<1>1. undo_stack \in Seq(EntrySet) /\ redo_stack \in Seq(EntrySet) /\ redo_stack # <<>>
  BY DEF RedoCommand, TypeInv, LogType
<1>2. /\ redo_stack' = Tail(redo_stack) /\ undo_stack' = <<Head(redo_stack)>> \o undo_stack
      /\ pc' = Head(redo_stack).new_pc
  BY DEF RedoCommand, Restore, Replayed, PcOf
<1>3. /\ Head(redo_stack)["old_pc"] = pc
      /\ undo_stack # <<>> => Head(undo_stack)["new_pc"] = pc
      /\ \A n \in 1 .. Len(redo_stack) - 1 : redo_stack[n]["new_pc"] = redo_stack[n + 1]["old_pc"]
      /\ \A n \in 1 .. Len(undo_stack) - 1 : undo_stack[n]["old_pc"] = undo_stack[n + 1]["new_pc"]
  BY <1>1 DEF PathInv, HistoryIsAPath
<1>4. LET left == Tail(redo_stack)
          grown == <<Head(redo_stack)>> \o undo_stack
          there == Head(redo_stack)["new_pc"]
      IN /\ left # <<>> => Head(left)["old_pc"] = there
         /\ Head(grown)["new_pc"] = there
         /\ \A n \in 1 .. Len(left) - 1 : left[n]["new_pc"] = left[n + 1]["old_pc"]
         /\ \A n \in 1 .. Len(grown) - 1 : grown[n]["old_pc"] = grown[n + 1]["new_pc"]
  BY <1>1, <1>3, MovePath
<1> QED BY <1>2, <1>4 DEF HistoryIsAPath

LEMMA NextPath == TypeInv /\ PathInv /\ [SessionNext]_sessionVars => PathInv'
<1> SUFFICES ASSUME TypeInv, PathInv, [SessionNext]_sessionVars PROVE PathInv'
  OBVIOUS
<1>1. ASSUME UNCHANGED <<pc, undo_stack, redo_stack>>, running' # "run" \/ running = "run"
      PROVE PathInv'
  BY <1>1 DEF PathInv, HistoryIsAPath
<1>2. ASSUME undo_stack' = <<>>, redo_stack' = <<>> PROVE PathInv'
  BY <1>2 DEF PathInv, HistoryIsAPath
<1>3. CASE StepThread
  BY <1>1, <1>3, PushPath DEF StepThread, machineAndLog, vars, log, PathInv
<1>4. CASE RunThread
  BY <1>2, <1>4 DEF RunThread, PathInv
<1>5. CASE DebugThread
  BY <1>5, PushPath DEF DebugThread, PathInv
<1>6. CASE ThreadReturns \/ ThreadWaits \/ ThreadExits
  BY <1>1, <1>6 DEF ThreadReturns, ThreadWaits, ThreadExits, machineAndLog, vars, log
<1>7. CASE StepCommand
  BY <1>1, <1>7 DEF StepCommand, vars, log
<1>8. CASE RunCommand \/ DebugCommand \/ ResetCommand
  BY <1>2, <1>8 DEF RunCommand, DebugCommand, LaunchRun, ResetCommand, ResetMachine, ClearLog
<1>9. CASE UndoCommand
  <2>1. running' # "run"
    BY <1>9 DEF UndoCommand, CommandWhenIdle
  <2> QED BY <1>9, <2>1, UndoPath DEF PathInv
<1>10. CASE RedoCommand
  <2>1. running' # "run"
    BY <1>10 DEF RedoCommand, CommandWhenIdle
  <2> QED BY <1>10, <2>1, RedoPath DEF PathInv
<1>11. CASE LoadCommand \/ ModifyRegister \/ ModifyMemory \/ Breakpoint \/ VmStdin
  BY <1>1, <1>11 DEF LoadCommand, ModifyRegister, ModifyMemory, Breakpoint, VmStdin, vars, log
<1>12. CASE UNCHANGED sessionVars
  BY <1>1, <1>12 DEF sessionVars, vars, log
<1> QED BY <1>3, <1>4, <1>5, <1>6, <1>7, <1>8, <1>9, <1>10, <1>11, <1>12
    DEF SessionNext, ThreadNext, UserNext

\* The log of undo and redo is one path through the program, and the
\* machine stands at its present point, whatever was run and undone.
THEOREM PathCorrect == SessionSpec => []HistoryIsAPath
<1>1. SessionInit => TypeInv /\ PathInv
  <2>1. SessionInit => PathInv
    BY DEF SessionInit, PathInv, HistoryIsAPath
  <2> QED BY <2>1, InitType
<1>2. TypeInv /\ PathInv /\ [SessionNext]_sessionVars => (TypeInv /\ PathInv)'
  BY NextType, NextPath
<1>3. PathInv => HistoryIsAPath
  BY DEF PathInv
<1> QED BY <1>1, <1>2, <1>3, PTL DEF SessionSpec

-----------------------------------------------------------------------------
(***************************************************************************)
(* Undo and redo implement the timeline.  Each state the history keeps is  *)
(* linked to its neighbour by the entry at the same place of the stack:    *)
(* replaying the old values leads back, the new ones forth.                *)
(***************************************************************************)
Link(state, entry, next) ==
    Replayed(next, entry, "old") = state /\ Replayed(state, entry, "new") = next

PastChain(states, entries, here) ==
    \A n \in 1 .. Len(states) :
        Link(states[n], entries[n], IF n = 1 THEN here ELSE states[n - 1])

FutureChain(states, entries, here) ==
    \A n \in 1 .. Len(states) :
        Link(IF n = 1 THEN here ELSE states[n - 1], entries[n], states[n])

TimelineInv ==
    /\ past \in Seq(VisibleStates) /\ Len(past) <= Len(undo_stack)
    /\ future \in Seq(VisibleStates) /\ Len(future) <= Len(redo_stack)
    /\ PastChain(past, undo_stack, Visible)
    /\ FutureChain(future, redo_stack, Visible)

LEMMA Grown ==
    ASSUME NEW S, NEW x \in S, NEW s \in Seq(S)
    PROVE /\ <<x>> \o s \in Seq(S) /\ (<<x>> \o s)[1] = x
          /\ Len(s) \in Nat /\ Len(<<x>> \o s) = Len(s) + 1
          /\ \A n \in 1 .. Len(s) : (<<x>> \o s)[n + 1] = s[n]
OBVIOUS

LEMMA Cut ==
    ASSUME NEW S, NEW s \in Seq(S), s # <<>>
    PROVE /\ Tail(s) \in Seq(S) /\ Head(s) = s[1] /\ s[1] \in S
          /\ Len(s) \in Nat /\ Len(s) >= 1 /\ Len(Tail(s)) = Len(s) - 1
          /\ \A n \in 1 .. Len(Tail(s)) : Tail(s)[n] = s[n + 1]
OBVIOUS

\* Moving on lengthens a chain, moving back shortens it.
LEMMA ChainGrows ==
    ASSUME NEW states \in Seq(VisibleStates), NEW entries \in Seq(EntrySet),
           Len(states) <= Len(entries),
           NEW here \in VisibleStates, NEW entry \in EntrySet, NEW there
    PROVE /\ PastChain(states, entries, here) /\ Link(here, entry, there)
                => PastChain(<<here>> \o states, <<entry>> \o entries, there)
          /\ FutureChain(states, entries, here) /\ Link(there, entry, here)
                => FutureChain(<<here>> \o states, <<entry>> \o entries, there)
          /\ Len(<<here>> \o states) <= Len(<<entry>> \o entries)
<1> DEFINE grown == <<here>> \o states
           longer == <<entry>> \o entries
<1>1. /\ grown[1] = here /\ Len(states) \in Nat /\ Len(grown) = Len(states) + 1
      /\ \A n \in 1 .. Len(states) : grown[n + 1] = states[n]
  BY Grown
<1>2. /\ longer[1] = entry /\ Len(entries) \in Nat /\ Len(longer) = Len(entries) + 1
      /\ \A n \in 1 .. Len(entries) : longer[n + 1] = entries[n]
  BY Grown
<1> HIDE DEF grown, longer
<1>3. ASSUME NEW n \in 1 .. Len(grown), n # 1
      PROVE LET m == n - 1
            IN /\ m \in 1 .. Len(states) /\ grown[n] = states[m] /\ longer[n] = entries[m]
               /\ grown[m] = IF m = 1 THEN here ELSE states[m - 1]
  <2> DEFINE m == n - 1
  <2>1. m \in 1 .. Len(states) /\ m \in 1 .. Len(entries) /\ m + 1 = n
    BY <1>1, <1>2, <1>3
  <2>2. grown[m + 1] = states[m] /\ longer[m + 1] = entries[m]
    BY <1>1, <1>2, <2>1
  <2>3. CASE m = 1
    BY <1>1, <2>1, <2>2, <2>3
  <2>4. CASE m # 1
    <3>1. m - 1 \in 1 .. Len(states) /\ (m - 1) + 1 = m
      BY <1>1, <2>1, <2>4
    <3>2. grown[(m - 1) + 1] = states[m - 1]
      BY <1>1, <3>1
    <3> QED BY <2>1, <2>2, <2>4, <3>1, <3>2
  <2> QED BY <2>3, <2>4
<1>4. ASSUME PastChain(states, entries, here), Link(here, entry, there)
      PROVE PastChain(grown, longer, there)
  <2> SUFFICES ASSUME NEW n \in 1 .. Len(grown)
               PROVE Link(grown[n], longer[n], IF n = 1 THEN there ELSE grown[n - 1])
    BY DEF PastChain
  <2>1. CASE n = 1
    BY <1>1, <1>2, <1>4, <2>1
  <2>2. CASE n # 1
    BY <1>3, <1>4, <2>2 DEF PastChain
  <2> QED BY <2>1, <2>2
<1>5. ASSUME FutureChain(states, entries, here), Link(there, entry, here)
      PROVE FutureChain(grown, longer, there)
  <2> SUFFICES ASSUME NEW n \in 1 .. Len(grown)
               PROVE Link(IF n = 1 THEN there ELSE grown[n - 1], longer[n], grown[n])
    BY DEF FutureChain
  <2>1. CASE n = 1
    BY <1>1, <1>2, <1>5, <2>1
  <2>2. CASE n # 1
    BY <1>3, <1>5, <2>2 DEF FutureChain
  <2> QED BY <2>1, <2>2
<1>6. Len(grown) <= Len(longer)
  BY <1>1, <1>2
<1> QED BY <1>4, <1>5, <1>6 DEF grown, longer

LEMMA ChainShrinks ==
    ASSUME NEW states \in Seq(VisibleStates), NEW entries \in Seq(EntrySet),
           Len(states) <= Len(entries), states # <<>>, NEW here
    PROVE /\ PastChain(states, entries, here)
                => Link(states[1], entries[1], here) /\ PastChain(Tail(states), Tail(entries), states[1])
          /\ FutureChain(states, entries, here)
                => Link(here, entries[1], states[1]) /\ FutureChain(Tail(states), Tail(entries), states[1])
          /\ Len(Tail(states)) <= Len(Tail(entries)) /\ entries # <<>>
<1> DEFINE left == Tail(states)
           fewer == Tail(entries)
<1>1. /\ Len(states) \in Nat /\ Len(states) >= 1 /\ Len(left) = Len(states) - 1
      /\ \A n \in 1 .. Len(left) : left[n] = states[n + 1]
  BY Cut
<1>2. entries # <<>>
  BY <1>1
<1>3. /\ Len(entries) \in Nat /\ Len(entries) >= 1 /\ Len(fewer) = Len(entries) - 1
      /\ \A n \in 1 .. Len(fewer) : fewer[n] = entries[n + 1]
  BY <1>2, Cut
<1> HIDE DEF left, fewer
<1>4. ASSUME NEW n \in 1 .. Len(left)
      PROVE /\ n + 1 \in 1 .. Len(states) /\ n + 1 # 1
            /\ left[n] = states[n + 1] /\ fewer[n] = entries[n + 1]
            /\ (IF n = 1 THEN states[1] ELSE left[n - 1]) = states[(n + 1) - 1]
  <2>1. n \in 1 .. Len(fewer) /\ n + 1 \in 1 .. Len(states) /\ (n + 1) - 1 = n /\ n + 1 # 1
    BY <1>1, <1>3
  <2>2. CASE n = 1
    BY <1>1, <1>3, <2>1, <2>2
  <2>3. CASE n # 1
    <3>1. n - 1 \in 1 .. Len(left) /\ (n - 1) + 1 = n
      BY <1>1, <2>3
    <3>2. left[n - 1] = states[(n - 1) + 1]
      BY <1>1, <3>1
    <3> QED BY <1>1, <1>3, <2>1, <2>3, <3>1, <3>2
  <2> QED BY <2>2, <2>3
<1>5. 1 \in 1 .. Len(states)
  BY <1>1
<1>6. ASSUME PastChain(states, entries, here)
      PROVE Link(states[1], entries[1], here) /\ PastChain(left, fewer, states[1])
  <2>1. Link(states[1], entries[1], here)
    BY <1>5, <1>6 DEF PastChain
  <2>2. ASSUME NEW n \in 1 .. Len(left)
        PROVE Link(left[n], fewer[n], IF n = 1 THEN states[1] ELSE left[n - 1])
    <3>1. Link(states[n + 1], entries[n + 1], states[(n + 1) - 1])
      BY <1>4, <1>6 DEF PastChain
    <3> QED BY <1>4, <3>1
  <2> QED BY <2>1, <2>2 DEF PastChain
<1>7. ASSUME FutureChain(states, entries, here)
      PROVE Link(here, entries[1], states[1]) /\ FutureChain(left, fewer, states[1])
  <2>1. Link(here, entries[1], states[1])
    BY <1>5, <1>7 DEF FutureChain
  <2>2. ASSUME NEW n \in 1 .. Len(left)
        PROVE Link(IF n = 1 THEN states[1] ELSE left[n - 1], fewer[n], left[n])
    <3>1. Link(states[(n + 1) - 1], entries[n + 1], states[n + 1])
      BY <1>4, <1>7 DEF FutureChain
    <3> QED BY <1>4, <3>1
  <2> QED BY <2>1, <2>2 DEF FutureChain
<1>8. Len(left) <= Len(fewer)
  BY <1>1, <1>3
<1> QED BY <1>2, <1>6, <1>7, <1>8 DEF left, fewer

LEMMA VisibleType ==
    /\ TypeInv => Visible \in VisibleStates
    /\ TypeInv' => Visible' \in VisibleStates
BY DEF TypeInv, MachineType, Visible, VisibleStates

LEMMA CounterBack == ASSUME NEW c \in Counter PROVE (Bump(c) - 1) % CounterMod = c
<1>1. CASE c + 1 < CounterMod
  <2>1. Bump(c) = c + 1
    BY <1>1, IsaAssumption DEF Counter, Bump
  <2> QED BY <1>1, <2>1, IsaAssumption DEF Counter
<1>2. CASE c + 1 = CounterMod
  <2>1. Bump(c) = 0
    BY <1>2, IsaAssumption DEF Counter, Bump
  <2> QED BY <1>2, <2>1, IsaAssumption DEF Counter
<1> QED BY <1>1, <1>2, IsaAssumption DEF Counter

\* The entry of an instruction links the states before and after it.
LEMMA InstructionLink ==
    ASSUME TypeInv, NEW i \in Code, NEW result \in Results(i),
           Complete(i, result), Logged(i)
    PROVE Link(Visible, Entry(i, result), Visible')
<1> DEFINE e == Entry(i, result)
<1>1. /\ CoreType' /\ RegistersTrue(i, result) /\ MemoryTrue(i)
  BY InstructionLogged DEF Complete, Logged
<1>2. /\ regs \in [Reg -> Word] /\ fregs \in [Reg -> Word] /\ mem \in [Word -> Word]
      /\ regs' \in [Reg -> Word] /\ fregs' \in [Reg -> Word] /\ mem' \in [Word -> Word]
      /\ retired \in Counter
  BY <1>1 DEF CoreType, TypeInv, MachineType
<1>3. e.registers = RegisterChanges(i, result) /\ e.memory = MemoryChanges(i)
  <2>1. current_delta.registers = <<>> /\ current_delta.memory = <<>>
    BY DEF Logged, NoChanges
  <2>2. /\ <<>> \o RegisterChanges(i, result) = RegisterChanges(i, result)
        /\ <<>> \o MemoryChanges(i) = MemoryChanges(i)
    BY <1>1, ConcatEmptySeq DEF RegistersTrue, MemoryTrue
  <2> QED BY <2>1, <2>2 DEF Entry, DeltaAfter
<1>4. e.old_pc = pc /\ e.new_pc = pc'
  BY DEF Entry
<1> HIDE DEF e
<1> DEFINE changes == e.registers
<1>5. /\ changes \in Seq(RegisterChangeSet) /\ Len(changes) <= 1
      /\ RegistersLogged(changes, "gpr", regs, regs') /\ RegistersLogged(changes, "fpr", fregs, fregs')
  BY <1>1, <1>3 DEF RegistersTrue
<1>6. /\ ReplayBank(regs', "gpr", changes, "old") = regs
      /\ ReplayBank(regs, "gpr", changes, "new") = regs'
      /\ ReplayBank(fregs', "fpr", changes, "old") = fregs
      /\ ReplayBank(fregs, "fpr", changes, "new") = fregs'
  <2> HIDE DEF changes
  <2> QED BY <1>2, <1>5, ReplayBankLogged
<1>7. /\ ReplayMemory(mem', e.memory, "old") = mem
      /\ ReplayMemory(mem, e.memory, "new") = mem'
  BY <1>1, <1>2, <1>3, ReplayMemoryLogged DEF MemoryTrue
<1>8. retired' = Bump(retired) /\ (retired' - 1) % CounterMod = retired
  BY <1>2, CounterBack DEF Complete
<1>9. Replayed(Visible', e, "old") = Visible
  BY <1>4, <1>6, <1>7, <1>8 DEF Replayed, Visible, PcOf
<1>10. Replayed(Visible, e, "new") = Visible'
  BY <1>4, <1>6, <1>7, <1>8 DEF Replayed, Visible, PcOf
<1> QED BY <1>9, <1>10 DEF Link, e

\* What breaks the history, and what leaves it alone.
LEMMA BreakTimeline == ASSUME BreakHistory, TypeInv' PROVE TimelineInv'
<1>1. /\ undo_stack' \in Seq(EntrySet) /\ redo_stack' \in Seq(EntrySet)
      /\ past' = <<>> /\ future' = <<>>
  BY DEF BreakHistory, TypeInv, LogType
<1> QED BY <1>1 DEF TimelineInv, PastChain, FutureChain

LEMMA SameTimeline ==
    ASSUME TimelineInv, UNCHANGED <<Visible, undo_stack, redo_stack, past, future>>
    PROVE TimelineInv'
BY DEF TimelineInv, PastChain, FutureChain

\* What the typed invariants say of the stacks and the history.
LEMMA TimelineFacts ==
    ASSUME TypeInv, TimelineInv
    PROVE /\ Visible \in VisibleStates
          /\ undo_stack \in Seq(EntrySet) /\ redo_stack \in Seq(EntrySet)
          /\ past \in Seq(VisibleStates) /\ Len(past) <= Len(undo_stack)
          /\ future \in Seq(VisibleStates) /\ Len(future) <= Len(redo_stack)
          /\ PastChain(past, undo_stack, Visible)
          /\ FutureChain(future, redo_stack, Visible)
BY VisibleType DEF TypeInv, LogType, TimelineInv

LEMMA PushTimeline ==
    ASSUME TypeInv, TypeInv', TimelineInv, NEW i \in Code,
           NEW result \in Results(i), Complete(i, result), Push(i, result)
    PROVE TimelineInv'
<1>1. CASE ~Logged(i)
  <2>1. BreakHistory
    BY <1>1 DEF Push, BreakHistory
  <2> QED BY <2>1, BreakTimeline
<1>2. CASE Logged(i)
  <2>1. Link(Visible, Entry(i, result), Visible') /\ Entry(i, result) \in EntrySet
    BY <1>2, InstructionLink, CompleteType
  <2>2. /\ past' = <<Visible>> \o past /\ undo_stack' = <<Entry(i, result)>> \o undo_stack
        /\ future' = <<>> /\ redo_stack' = <<>>
    BY <1>2 DEF Push
  <2>3. /\ PastChain(<<Visible>> \o past, <<Entry(i, result)>> \o undo_stack, Visible')
        /\ Len(<<Visible>> \o past) <= Len(<<Entry(i, result)>> \o undo_stack)
        /\ <<Visible>> \o past \in Seq(VisibleStates)
    BY <2>1, TimelineFacts, ChainGrows, Grown
  <2>4. /\ PastChain(past', undo_stack', Visible') /\ Len(past') <= Len(undo_stack')
        /\ past' \in Seq(VisibleStates)
    BY <2>2, <2>3
  <2>5. /\ FutureChain(future', redo_stack', Visible') /\ Len(future') <= Len(redo_stack')
        /\ future' \in Seq(VisibleStates)
    BY <2>2 DEF FutureChain
  <2> QED BY <2>4, <2>5 DEF TimelineInv
<1> QED BY <1>1, <1>2

LEMMA RestoreVisible ==
    ASSUME NEW entry, NEW side, Restore(entry, side)
    PROVE Visible' = Replayed(Visible, entry, side)
BY DEF Restore, Replayed, Visible

LEMMA UndoTimeline ==
    ASSUME TypeInv, TypeInv', TimelineInv, UndoCommand
    PROVE TimelineInv' /\ (past # <<>> => Visible' = Head(past))
<1>1. CASE past = <<>>
  <2>1. BreakHistory
    BY <1>1 DEF UndoCommand
  <2> QED BY <1>1, <2>1, BreakTimeline
<1>2. CASE past # <<>>
  <2> DEFINE e == Head(undo_stack)
  <2>1. /\ Visible' = Replayed(Visible, e, "old")
        /\ undo_stack' = Tail(undo_stack) /\ redo_stack' = <<e>> \o redo_stack
        /\ past' = Tail(past) /\ future' = <<Visible>> \o future
    BY <1>2, RestoreVisible DEF UndoCommand
  <2>2. undo_stack \in Seq(EntrySet) /\ undo_stack # <<>>
    BY TimelineFacts DEF UndoCommand
  <2>3. e = undo_stack[1] /\ e \in EntrySet /\ Head(past) = past[1] /\ Tail(past) \in Seq(VisibleStates)
    BY <1>2, <2>2, TimelineFacts, Cut
  <2> HIDE DEF e
  <2>4. /\ Link(past[1], undo_stack[1], Visible)
        /\ PastChain(Tail(past), Tail(undo_stack), past[1])
        /\ Len(Tail(past)) <= Len(Tail(undo_stack))
    BY <1>2, TimelineFacts, ChainShrinks
  <2>5. Visible' = past[1]
    BY <2>1, <2>3, <2>4 DEF Link
  <2>6. /\ FutureChain(<<Visible>> \o future, <<e>> \o redo_stack, past[1])
        /\ Len(<<Visible>> \o future) <= Len(<<e>> \o redo_stack)
        /\ <<Visible>> \o future \in Seq(VisibleStates)
    BY <2>3, <2>4, TimelineFacts, ChainGrows, Grown
  <2> QED BY <2>1, <2>3, <2>4, <2>5, <2>6 DEF TimelineInv
<1> QED BY <1>1, <1>2

LEMMA RedoTimeline ==
    ASSUME TypeInv, TypeInv', TimelineInv, RedoCommand
    PROVE TimelineInv' /\ (future # <<>> => Visible' = Head(future))
<1>1. CASE future = <<>>
  <2>1. BreakHistory
    BY <1>1 DEF RedoCommand
  <2> QED BY <1>1, <2>1, BreakTimeline
<1>2. CASE future # <<>>
  <2> DEFINE e == Head(redo_stack)
  <2>1. /\ Visible' = Replayed(Visible, e, "new")
        /\ redo_stack' = Tail(redo_stack) /\ undo_stack' = <<e>> \o undo_stack
        /\ future' = Tail(future) /\ past' = <<Visible>> \o past
    BY <1>2, RestoreVisible DEF RedoCommand
  <2>2. redo_stack \in Seq(EntrySet) /\ redo_stack # <<>>
    BY TimelineFacts DEF RedoCommand
  <2>3. e = redo_stack[1] /\ e \in EntrySet /\ Head(future) = future[1] /\ Tail(future) \in Seq(VisibleStates)
    BY <1>2, <2>2, TimelineFacts, Cut
  <2> HIDE DEF e
  <2>4. /\ Link(Visible, redo_stack[1], future[1])
        /\ FutureChain(Tail(future), Tail(redo_stack), future[1])
        /\ Len(Tail(future)) <= Len(Tail(redo_stack))
    BY <1>2, TimelineFacts, ChainShrinks
  <2>5. Visible' = future[1]
    BY <2>1, <2>3, <2>4 DEF Link
  <2>6. /\ PastChain(<<Visible>> \o past, <<e>> \o undo_stack, future[1])
        /\ Len(<<Visible>> \o past) <= Len(<<e>> \o undo_stack)
        /\ <<Visible>> \o past \in Seq(VisibleStates)
    BY <2>3, <2>4, TimelineFacts, ChainGrows, Grown
  <2> QED BY <2>1, <2>3, <2>4, <2>5, <2>6 DEF TimelineInv
<1> QED BY <1>1, <1>2

\* Every step keeps the chain and is a step of the timeline.
LEMMA NextTimeline ==
    TypeInv /\ TypeInv' /\ TimelineInv /\ [SessionNext]_sessionVars
        => TimelineInv' /\ [History!Next]_History!vars
<1> SUFFICES ASSUME TypeInv, TypeInv', TimelineInv, [SessionNext]_sessionVars
             PROVE TimelineInv' /\ [History!Next]_History!vars
  OBVIOUS
<1>1. Visible \in VisibleStates /\ Visible' \in VisibleStates
  BY VisibleType
<1>2. ASSUME UNCHANGED <<Visible, undo_stack, redo_stack, past, future>>
      PROVE TimelineInv' /\ [History!Next]_History!vars
  BY <1>2, SameTimeline DEF History!vars
<1>3. ASSUME BreakHistory PROVE TimelineInv' /\ [History!Next]_History!vars
  BY <1>1, <1>3, BreakTimeline DEF BreakHistory, History!Next, History!Break
<1>4. ASSUME NEW result \in Results(Instruction), Complete(Instruction, result),
             Push(Instruction, result)
      PROVE TimelineInv' /\ [History!Next]_History!vars
  <2>1. TimelineInv'
    BY <1>4, InstructionInCode, PushTimeline
  <2>2. History!Next
    <3>1. CASE Logged(Instruction)
      BY <1>1, <1>4, <3>1 DEF Push, History!Next, History!Advance
    <3>2. CASE ~Logged(Instruction)
      BY <1>1, <1>4, <3>2 DEF Push, History!Next, History!Break
    <3> QED BY <3>1, <3>2
  <2> QED BY <2>1, <2>2
<1>5. CASE StepThread
  BY <1>2, <1>4, <1>5 DEF StepThread, machineAndLog, vars, banks, log, history, Visible
<1>6. CASE RunThread
  BY <1>3, <1>6 DEF RunThread
<1>7. CASE DebugThread
  BY <1>4, <1>7 DEF DebugThread
<1>8. CASE ThreadReturns \/ ThreadWaits \/ ThreadExits
  BY <1>2, <1>8 DEF ThreadReturns, ThreadWaits, ThreadExits, machineAndLog, vars, banks, log, history,
     Visible
<1>9. CASE StepCommand \/ Breakpoint \/ VmStdin
  BY <1>2, <1>9 DEF StepCommand, Breakpoint, VmStdin, vars, banks, log, history, Visible
<1>10. CASE RunCommand \/ DebugCommand \/ ResetCommand
  BY <1>3, <1>10 DEF RunCommand, DebugCommand, LaunchRun, ResetCommand, ResetMachine
<1>11. CASE LoadCommand \/ ModifyRegister \/ ModifyMemory
  BY <1>3, <1>11 DEF LoadCommand, ModifyRegister, ModifyMemory
<1>12. CASE UndoCommand
  <2>1. TimelineInv' /\ (past # <<>> => Visible' = Head(past))
    BY <1>12, UndoTimeline
  <2>2. History!Next
    <3>1. CASE past # <<>>
      BY <1>12, <2>1, <3>1 DEF UndoCommand, History!Next, History!Back
    <3>2. CASE past = <<>>
      BY <1>1, <1>12, <3>2 DEF UndoCommand, BreakHistory, History!Next, History!Break
    <3> QED BY <3>1, <3>2
  <2> QED BY <2>1, <2>2
<1>13. CASE RedoCommand
  <2>1. TimelineInv' /\ (future # <<>> => Visible' = Head(future))
    BY <1>13, RedoTimeline
  <2>2. History!Next
    <3>1. CASE future # <<>>
      BY <1>13, <2>1, <3>1 DEF RedoCommand, History!Next, History!Forward
    <3>2. CASE future = <<>>
      BY <1>1, <1>13, <3>2 DEF RedoCommand, BreakHistory, History!Next, History!Break
    <3> QED BY <3>1, <3>2
  <2> QED BY <2>1, <2>2
<1>14. CASE UNCHANGED sessionVars
  BY <1>2, <1>14 DEF sessionVars, vars, banks, log, history, Visible
<1> QED BY <1>5, <1>6, <1>7, <1>8, <1>9, <1>10, <1>11, <1>12, <1>13, <1>14
    DEF SessionNext, ThreadNext, UserNext

\* Undo and redo move along the states that instructions led through: undo
\* gives back program counter, registers, memory and count of instructions,
\* redo what was undone, for every program and any sequence of commands.
THEOREM TimelineCorrect == SessionSpec => ImplementsTimeline
<1>1. SessionInit => TypeInv /\ TimelineInv /\ History!Init
  <2> SUFFICES ASSUME SessionInit PROVE TypeInv /\ TimelineInv /\ History!Init
    OBVIOUS
  <2>1. TypeInv
    BY InitType
  <2>2. past = <<>> /\ future = <<>> /\ undo_stack = <<>> /\ redo_stack = <<>>
    BY DEF SessionInit
  <2>3. TimelineInv
    BY <2>2 DEF TimelineInv, PastChain, FutureChain
  <2>4. History!Init
    BY <2>1, <2>2, VisibleType DEF History!Init
  <2> QED BY <2>1, <2>3, <2>4
<1>2. TypeInv /\ [SessionNext]_sessionVars => TypeInv'
  BY NextType
<1>3. TypeInv /\ TypeInv' /\ TimelineInv /\ [SessionNext]_sessionVars
         => TimelineInv' /\ [History!Next]_History!vars
  BY NextTimeline
<1> QED BY <1>1, <1>2, <1>3, PTL DEF SessionSpec, ImplementsTimeline, History!Spec

-----------------------------------------------------------------------------
(***************************************************************************)
(* The counter of instructions covers the undo stack as long as it has not *)
(* wrapped around: a run that does not log its instructions counts them    *)
(* too, and no reset clears the one without the other.                     *)
(***************************************************************************)
NotWrapped == retired < CounterMod - 1

LEMMA CountUp ==
    ASSUME TypeInv, NotWrapped PROVE retired \in Nat /\ Bump(retired) = retired + 1
<1>1. CounterMod \in Nat /\ retired \in 0 .. CounterMod - 1 /\ retired < CounterMod - 1
  BY IsaAssumption DEF Counter, NotWrapped, TypeInv, MachineType
<1>2. retired + 1 \in 0 .. CounterMod - 1
  BY <1>1
<1> QED BY <1>1, <1>2 DEF Bump

LEMMA PushCounter ==
    ASSUME TypeInv, NotWrapped, CounterCoversHistory, NEW i, NEW result,
           Complete(i, result), Push(i, result)
    PROVE CounterCoversHistory'
<1>1. retired \in Nat /\ retired' = retired + 1
  BY CountUp DEF Complete
<1>2. Len(undo_stack') = 1 + Len(undo_stack)
  <2> DEFINE entry == Entry(i, result)
  <2>1. undo_stack \in Seq(EntrySet \union {entry}) /\ <<entry>> \in Seq(EntrySet \union {entry})
    BY DEF TypeInv, LogType
  <2>2. undo_stack' = <<entry>> \o undo_stack
    BY DEF Push
  <2> HIDE DEF entry
  <2> QED BY <2>1, <2>2
<1>3. Len(undo_stack) \in Nat
  BY DEF TypeInv, LogType
<1> QED BY <1>1, <1>2, <1>3 DEF CounterCoversHistory

LEMMA UndoCounter ==
    ASSUME TypeInv, CounterCoversHistory, UndoCommand PROVE CounterCoversHistory'
<1>1. undo_stack \in Seq(EntrySet) /\ undo_stack # <<>> /\ undo_stack' = Tail(undo_stack)
  BY DEF UndoCommand, TypeInv, LogType
<1>2. Len(undo_stack) \in Nat \ {0} /\ Len(undo_stack') = Len(undo_stack) - 1
  BY <1>1
<1>3. retired' = (retired - 1) % CounterMod
  BY DEF UndoCommand, Restore, Replayed, Visible
<1>4. retired \in 1 .. CounterMod - 1
  BY <1>2, IsaAssumption DEF CounterCoversHistory, TypeInv, MachineType, Counter
<1>5. retired' = retired - 1
  BY <1>3, <1>4, IsaAssumption
<1> QED BY <1>2, <1>4, <1>5 DEF CounterCoversHistory

LEMMA RedoCounter ==
    ASSUME TypeInv, NotWrapped, CounterCoversHistory, RedoCommand PROVE CounterCoversHistory'
<1>1. /\ undo_stack \in Seq(EntrySet) /\ redo_stack \in Seq(EntrySet) /\ redo_stack # <<>>
      /\ undo_stack' = <<Head(redo_stack)>> \o undo_stack
  BY DEF RedoCommand, TypeInv, LogType
<1>2. Len(undo_stack) \in Nat /\ Len(undo_stack') = 1 + Len(undo_stack)
  <2>1. <<Head(redo_stack)>> \in Seq(EntrySet)
    BY <1>1
  <2> QED BY <1>1, <2>1
<1>3. retired' = Bump(retired)
  BY DEF RedoCommand, Restore, Replayed, Visible
<1>4. retired' = retired + 1 /\ retired \in Nat
  BY <1>3, CountUp
<1> QED BY <1>2, <1>4 DEF CounterCoversHistory

LEMMA NextCounter ==
    TypeInv /\ NotWrapped /\ CounterCoversHistory /\ [SessionNext]_sessionVars
      => CounterCoversHistory'
<1> SUFFICES ASSUME TypeInv, NotWrapped, CounterCoversHistory, [SessionNext]_sessionVars
             PROVE CounterCoversHistory'
  OBVIOUS
<1>1. ASSUME UNCHANGED <<retired, undo_stack>> PROVE CounterCoversHistory'
  BY <1>1 DEF CounterCoversHistory
<1>2. CASE StepThread
  BY <1>1, <1>2, PushCounter DEF StepThread, machineAndLog, vars, log
<1>3. CASE RunThread
  <2>1. retired \in Nat /\ retired' = retired + 1
    BY <1>3, CountUp DEF RunThread, Complete
  <2>2. undo_stack' = undo_stack /\ Len(undo_stack) \in Nat
    BY <1>3 DEF RunThread, TypeInv, LogType
  <2> QED BY <2>1, <2>2 DEF CounterCoversHistory
<1>4. CASE DebugThread
  BY <1>4, PushCounter DEF DebugThread
<1>5. CASE ThreadReturns \/ ThreadWaits \/ ThreadExits
  BY <1>1, <1>5 DEF ThreadReturns, ThreadWaits, ThreadExits, machineAndLog, vars, log
<1>6. CASE StepCommand
  BY <1>1, <1>6 DEF StepCommand, vars, log
<1>7. CASE RunCommand \/ DebugCommand \/ ResetCommand
  BY <1>7 DEF RunCommand, DebugCommand, LaunchRun, ResetCommand, ResetMachine, ClearLog,
     CounterCoversHistory
<1>8. CASE UndoCommand
  BY <1>8, UndoCounter
<1>9. CASE RedoCommand
  BY <1>9, RedoCounter
<1>10. CASE LoadCommand \/ ModifyRegister \/ ModifyMemory \/ Breakpoint \/ VmStdin
  BY <1>1, <1>10 DEF LoadCommand, ModifyRegister, ModifyMemory, Breakpoint, VmStdin, vars, log
<1>11. CASE UNCHANGED sessionVars
  BY <1>1, <1>11 DEF sessionVars, vars, log
<1> QED BY <1>2, <1>3, <1>4, <1>5, <1>6, <1>7, <1>8, <1>9, <1>10, <1>11
    DEF SessionNext, ThreadNext, UserNext

\* As long as the counter of instructions has not wrapped around, undo finds
\* it above zero, whatever was run, reset, undone and redone before.
THEOREM CounterCorrect == SessionSpec /\ []NotWrapped => []CounterCoversHistory
<1>1. SessionInit => TypeInv /\ CounterCoversHistory
  <2>1. SessionInit => CounterCoversHistory
    BY DEF SessionInit, Init, CounterCoversHistory
  <2> QED BY <2>1, InitType
<1>2. TypeInv /\ [SessionNext]_sessionVars => TypeInv'
  BY NextType
<1> QED BY <1>1, <1>2, NextCounter, PTL DEF SessionSpec
=============================================================================
