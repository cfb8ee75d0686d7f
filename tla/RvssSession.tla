----------------------------- MODULE RvssSession -----------------------------
(***************************************************************************)
(* A session with the single-cycle machine: STEP, RUN and RUN_DEBUG in the *)
(* launched thread, one instruction per action, UNDO and REDO over the log *)
(* of what instructions changed, and the commands that reset, reload and   *)
(* edit the machine.  To the integer instructions of Rvss it adds floating *)
(* point, control registers and system calls, as far as the log sees them. *)
(* STOP is not here: it reaches a flag this machine does not test.         *)
(***************************************************************************)
EXTENDS Rvss

CONSTANTS
    Commands,          \* the commands the user gives
    MaxCommands,       \* how many he gives
    InstructionLimit,  \* instruction_execution_limit
    EditedCells,       \* the memory he edits
    EditedRegs,        \* the registers he edits, in both banks
    Edits,             \* the values he puts in registers and memory
    Inputs,            \* the lines he types, sequences of bytes
    FpResults,         \* the values floating-point operations give
    FpStatus,          \* the flags they leave in fcsr
    GprFunct7,         \* immediates whose upper bits are the funct7 of a
                       \* float instruction that writes a GPR
    A0, A1, A2, A7,    \* the registers of a system call
    SysRead, SysWrite, SysExit

VARIABLES
    fregs, csrs,
    reading,           \* whether a READ waits, and for what buffer
    input_queue,
    breakpoints,
    running,           \* what the launched thread executes; "none": nothing
    executed,          \* instruction_executed of the loops
    current_delta, undo_stack, redo_stack,   \* newest entry first
    commands_left,
    past, future       \* history: the states the stacks stand for

banks == <<fregs, csrs>>
log == <<current_delta, undo_stack, redo_stack>>
history == <<past, future>>
sessionVars == <<vars, banks, reading, input_queue, breakpoints, running, executed,
                 log, commands_left, history>>

Csr == {"fcsr", "other"}

\* The instructions Rvss does not have, and what their records say.
SystemOp == {"FLOAD", "FSTORE", "FP", "CSR", "ECALL"}
SystemFunction == {"to_fpr", "to_gpr", "write", "set", "none"}
SystemInstr == [op: SystemOp, fn: SystemFunction, rd: Reg, rs1: Reg, rs2: Reg, imm: Word]

\* What a user can see of the machine and undo works on; cycle_s_ counts
\* with retired on this machine.
Visible == [pc |-> pc, regs |-> regs, fregs |-> fregs, mem |-> mem, retired |-> retired]

-----------------------------------------------------------------------------
(***************************************************************************)
(* One instruction.                                                        *)
(***************************************************************************)
Address(i) == Wrap(ReadGpr(regs, i.rs1) + i.imm)

\* Cell k of a buffer, and where a cell is in a buffer.
Cell(at, k) == IF at + k < Mod THEN at + k ELSE at + k - Mod
Offset(c, at) == IF c >= at THEN c - at ELSE c - at + Mod

ExecuteInteger(i) ==
    /\ i.op \in Class
    /\ pc' = NextPc(i)
    /\ mem' = IF MemWrite(i)
               THEN [mem EXCEPT ![ExecutionResult(i)] = ReadGpr(regs, i.rs2)]
               ELSE mem
    /\ regs' = IF WritesRd(i) THEN WriteGpr(regs, i.rd, WrittenValue(i)) ELSE regs
    /\ UNCHANGED <<banks, reading, input_queue>>

\* WriteBackFloat looks at funct7 before the opcode: bits a load uses for
\* its immediate.
FloatWritesGpr(i) ==
    \/ i.op = "FP" /\ i.fn = "to_gpr"
    \/ i.op = "FLOAD" /\ i.imm \in GprFunct7

\* What it may find in execution_result_ or, for a load, in memory_result_.
Results(i) ==
    CASE i.op = "FP" -> FpResults
      [] i.op = "FLOAD" -> {IF FloatWritesGpr(i) THEN Address(i) ELSE mem[Address(i)]}
      [] OTHER -> {0}

WriteFloatResult(i, result) ==
    IF FloatWritesGpr(i)
    THEN regs' = WriteGpr(regs, i.rd, result) /\ UNCHANGED fregs
    ELSE fregs' = [fregs EXCEPT ![i.rd] = result] /\ UNCHANGED regs

\* The double instructions leave fcsr alone.
SetStatus(statuses) ==
    \/ \E status \in statuses : csrs' = [csrs EXCEPT !["fcsr"] = status]
    \/ UNCHANGED csrs

ExecuteFloat(i, result) ==
    /\ \/ /\ i.op \in {"FP", "FLOAD"}
          /\ WriteFloatResult(i, result)
          /\ SetStatus(IF i.op = "FP" THEN FpStatus ELSE {0})
          /\ UNCHANGED mem
       \/ /\ i.op = "FSTORE"
          /\ mem' = [mem EXCEPT ![Address(i)] = fregs[i.rs2]]
          /\ SetStatus({0})
          /\ UNCHANGED <<regs, fregs>>
    /\ pc' = Wrap(pc + 4)
    /\ UNCHANGED <<reading, input_queue>>

\* CSRRW and CSRRS; set and clear write only where a bit is given.
ExecuteCsr(i) ==
    /\ i.op = "CSR"
    /\ LET csr == IF i.imm = 0 THEN "fcsr" ELSE "other"
           operand == ReadGpr(regs, i.rs1)
       IN /\ regs' = WriteGpr(regs, i.rd, csrs[csr])
          /\ IF i.fn = "write"
             THEN csrs' = [csrs EXCEPT ![csr] = operand]
             ELSE IF operand = 0 THEN csrs' = csrs
             ELSE \E v \in Edits : csrs' = [csrs EXCEPT ![csr] = v]
    /\ pc' = Wrap(pc + 4)
    /\ UNCHANGED <<fregs, mem, reading, input_queue>>

-----------------------------------------------------------------------------
(***************************************************************************)
(* System calls.  READ looks at its arguments, waits for a line, writes as *)
(* much of it as fits and a terminator if there is room; WRITE gives the   *)
(* length back; the others print.                                          *)
(***************************************************************************)
IsRead(i) == i.op = "ECALL" /\ regs[A7] = SysRead /\ regs[A0] = 0
IsWrite(i) == i.op = "ECALL" /\ regs[A7] = SysWrite /\ regs[A0] = 1

NotReading == [waiting |-> FALSE, at |-> 0, length |-> 0]

ReadBegins(i) ==
    /\ IsRead(i) /\ ~reading.waiting
    /\ reading' = [waiting |-> TRUE, at |-> regs[A1], length |-> regs[A2]]

Received(line, k) == IF k < Len(line) THEN line[k + 1] ELSE 0
Smaller(a, b) == IF a < b THEN a ELSE b

\* Mutant: the terminator is written even where there is no room for it.
EndsAfterLine(line, length) == Len(line) + 1
EndsWithin(line, length) == Smaller(Len(line) + 1, length)

ReadReturns ==
    /\ reading.waiting /\ input_queue # <<>>
    /\ LET line == Head(input_queue)
           written == {Cell(reading.at, k) : k \in 0 .. EndsWithin(line, reading.length) - 1}
       IN /\ mem' = [c \in Word |-> IF c \in written THEN Received(line, Offset(c, reading.at))
                                     ELSE mem[c]]
          /\ regs' = [regs EXCEPT ![A0] = Smaller(Len(line), reading.length)]
    /\ input_queue' = Tail(input_queue)
    /\ reading' = NotReading

ExecuteSyscall(i) ==
    /\ i.op = "ECALL"
    /\ \/ ReadReturns
       \/ /\ ~reading.waiting /\ IsWrite(i)
          /\ regs' = [regs EXCEPT ![A0] = regs[A2]]
          /\ UNCHANGED <<mem, reading, input_queue>>
       \/ /\ ~reading.waiting /\ ~IsRead(i) /\ ~IsWrite(i)
          /\ UNCHANGED <<regs, mem, reading, input_queue>>
    /\ pc' = Wrap(pc + 4)
    /\ UNCHANGED banks

IsExit(i) == i.op = "ECALL" /\ regs[A7] = SysExit

Execute(i, result) ==
    ExecuteInteger(i) \/ ExecuteFloat(i, result) \/ ExecuteCsr(i) \/ ExecuteSyscall(i)

-----------------------------------------------------------------------------
(***************************************************************************)
(* The log of one instruction: values read before and again after it, but  *)
(* a float result is logged as it is, a register that ignores it included. *)
(* The bytes of a memory change are numbered from 0.                       *)
(***************************************************************************)
RegisterChange(bank, r, old, new) ==
    IF old = new THEN <<>> ELSE <<[bank |-> bank, at |-> r, old |-> old, new |-> new]>>

\* WriteBackCsr logs nothing, and nobody logs fcsr.
RegisterChanges(i, result) ==
    CASE i.op = "ECALL" -> RegisterChange("gpr", A0, regs[A0], regs'[A0])
      [] i.op \in {"FP", "FLOAD"}
           -> IF FloatWritesGpr(i)
              THEN RegisterChange("gpr", i.rd, ReadGpr(regs, i.rd), result)
              ELSE RegisterChange("fpr", i.rd, fregs[i.rd], result)
      [] i.op \in {"CSR", "FSTORE"} -> <<>>
      [] OTHER -> RegisterChange("gpr", i.rd, ReadGpr(regs, i.rd), ReadGpr(regs', i.rd))

Bytes(memory, at, length) == [k \in 0 .. length - 1 |-> memory[Cell(at, k)]]
MemoryChange(at, length) ==
    <<[at |-> at, old |-> Bytes(mem, at, length), new |-> Bytes(mem', at, length)]>>

\* A store that changes nothing is not logged; a READ always is.
MemoryChanges(i) ==
    CASE i.op \in {"STORE", "FSTORE"}
           -> IF mem[Address(i)] = mem'[Address(i)] THEN <<>> ELSE MemoryChange(Address(i), 1)
      [] i.op = "ECALL" /\ reading.waiting -> MemoryChange(reading.at, reading.length)
      [] OTHER -> <<>>

NoChanges == [registers |-> <<>>, memory |-> <<>>]
DeltaAfter(i, result) == [registers |-> current_delta.registers \o RegisterChanges(i, result),
                          memory |-> current_delta.memory \o MemoryChanges(i)]

(***************************************************************************)
(* Replaying a list of changes, in the order they were logged: the last    *)
(* one that touches a place decides.  Registers are written as ever: x0    *)
(* ignores what the log has for it.                                        *)
(***************************************************************************)
Last(S) == CHOOSE n \in S : \A k \in S : k <= n

\* Mutant: what is in the log is written, to x0 too.
ReplayEvenX0(values, bank, changes, side) ==
    [r \in DOMAIN values |->
        LET touching == {n \in DOMAIN changes : changes[n].bank = bank /\ changes[n].at = r}
        IN IF touching = {} THEN values[r] ELSE changes[Last(touching)][side]]

Ignores(bank, r) == bank = "gpr" /\ r = 0

ReplayBank(values, bank, changes, side) ==
    [r \in DOMAIN values |->
        LET touching == {n \in DOMAIN changes : changes[n].bank = bank /\ changes[n].at = r}
        IN IF touching = {} \/ Ignores(bank, r) THEN values[r]
           ELSE changes[Last(touching)][side]]

ReplayMemory(memory, changes, side) ==
    [c \in DOMAIN memory |->
        LET touching == {n \in DOMAIN changes : Offset(c, changes[n].at) \in DOMAIN changes[n].old}
        IN IF touching = {} THEN memory[c]
           ELSE LET change == changes[Last(touching)]
                IN change[side][Offset(c, change.at)]]

\* Mutant: redo goes to where the instruction began.
OldPc(entry, side) == entry.old_pc
PcOf(entry, side) == IF side = "old" THEN entry.old_pc ELSE entry.new_pc

Replayed(state, entry, side) ==
    [pc |-> PcOf(entry, side),
     regs |-> ReplayBank(state.regs, "gpr", entry.registers, side),
     fregs |-> ReplayBank(state.fregs, "fpr", entry.registers, side),
     mem |-> ReplayMemory(state.mem, entry.memory, side),
     retired |-> IF side = "old" THEN (state.retired - 1) % CounterMod ELSE Bump(state.retired)]

-----------------------------------------------------------------------------
(***************************************************************************)
(* The launched thread.  The history goes on over an instruction whose log *)
(* is its own and complete; behind any other nothing is promised.          *)
(***************************************************************************)
Logged(i) == i.op # "CSR" /\ current_delta = NoChanges

Entry(i, result) ==
    [old_pc |-> pc, new_pc |-> pc', registers |-> DeltaAfter(i, result).registers,
     memory |-> DeltaAfter(i, result).memory]

Push(i, result) ==
    /\ undo_stack' = <<Entry(i, result)>> \o undo_stack
    /\ redo_stack' = <<>>
    /\ current_delta' = NoChanges
    /\ past' = IF Logged(i) THEN <<Visible>> \o past ELSE <<>>
    /\ future' = <<>>

BreakHistory == past' = <<>> /\ future' = <<>>

\* The fetch; a READ that waits was fetched before it began to.
Ecall == [op |-> "ECALL", fn |-> "none", rd |-> 0, rs1 |-> 0, rs2 |-> 0, imm |-> 0]
Instruction == IF reading.waiting THEN Ecall ELSE ReadInstr(mem, pc)
AtEnd == pc >= ProgramSize(program)

\* An instruction that completes.
Complete(i, result) ==
    /\ ~AtEnd
    /\ ~(IsExit(i) /\ ~reading.waiting)
    /\ Execute(i, result)
    /\ retired' = Bump(retired)
    /\ UNCHANGED <<program, breakpoints, commands_left>>

\* What a thread leaves alone while it is not completing one.
machineAndLog == <<vars, banks, input_queue, breakpoints, executed, log, commands_left, history>>

StepThread ==
    /\ running = "step"
    /\ \/ AtEnd /\ UNCHANGED <<machineAndLog, reading>>
       \/ /\ \E result \in Results(Instruction) :
               Complete(Instruction, result) /\ Push(Instruction, result)
          /\ UNCHANGED executed
    /\ running' = "none"

\* Mutant: only a debug run counts its instructions.
CountInDebugRun == IF running = "debug" THEN executed' = executed + 1 ELSE UNCHANGED executed
CountExecuted == executed' = executed + 1

\* The loops end once more instructions than the limit were executed.
LoopEnds ==
    /\ ~reading.waiting
    /\ AtEnd \/ executed > InstructionLimit \/ (running = "debug" /\ pc \in breakpoints)

\* Run neither pushes nor clears the delta it adds to.
RunThread ==
    /\ running = "run" /\ ~LoopEnds
    /\ \E result \in Results(Instruction) :
         /\ Complete(Instruction, result)
         /\ current_delta' = DeltaAfter(Instruction, result)
    /\ CountExecuted
    /\ BreakHistory
    /\ UNCHANGED <<running, undo_stack, redo_stack>>

DebugThread ==
    /\ running = "debug" /\ ~LoopEnds
    /\ \E result \in Results(Instruction) :
         Complete(Instruction, result) /\ Push(Instruction, result)
    /\ CountExecuted
    /\ UNCHANGED running

ThreadReturns ==
    /\ running \in {"run", "debug"} /\ LoopEnds
    /\ running' = "none"
    /\ UNCHANGED <<machineAndLog, reading>>

InInstruction == \/ running = "step" /\ ~AtEnd
                 \/ running \in {"run", "debug"} /\ ~LoopEnds

ThreadWaits ==
    /\ InInstruction
    /\ ReadBegins(Instruction)
    /\ UNCHANGED <<machineAndLog, running>>

\* SYSCALL_EXIT ends the process.
ThreadExits ==
    /\ InInstruction
    /\ IsExit(Instruction) /\ ~reading.waiting
    /\ running' = "exited"
    /\ UNCHANGED <<machineAndLog, reading>>

ThreadNext ==
    StepThread \/ RunThread \/ DebugThread \/ ThreadReturns \/ ThreadWaits \/ ThreadExits

-----------------------------------------------------------------------------
(***************************************************************************)
(* The command loop.  What works on the machine is dropped while a thread  *)
(* runs; edits, breakpoints and input are not.                             *)
(***************************************************************************)
Command(name) ==
    /\ name \in Commands /\ running # "exited"
    /\ commands_left > 0
    /\ commands_left' = commands_left - 1

CommandWhenIdle(name) == Command(name) /\ running = "none"

StepCommand ==
    /\ CommandWhenIdle("step")
    /\ running' = "step"
    /\ UNCHANGED <<vars, banks, reading, input_queue, breakpoints, executed, log, history>>

Restore(entry, side) ==
    LET state == Replayed(Visible, entry, side)
    IN /\ pc' = state.pc /\ retired' = state.retired
       /\ regs' = state.regs /\ fregs' = state.fregs
       /\ mem' = state.mem

UndoCommand ==
    /\ CommandWhenIdle("undo")
    /\ undo_stack # <<>>
    /\ Restore(Head(undo_stack), "old")
    /\ undo_stack' = Tail(undo_stack)
    /\ redo_stack' = <<Head(undo_stack)>> \o redo_stack
    /\ IF past = <<>> THEN BreakHistory
                      ELSE past' = Tail(past) /\ future' = <<Visible>> \o future
    /\ UNCHANGED <<program, csrs, reading, input_queue, breakpoints, running, executed, current_delta>>

RedoCommand ==
    /\ CommandWhenIdle("redo")
    /\ redo_stack # <<>>
    /\ Restore(Head(redo_stack), "new")
    /\ redo_stack' = Tail(redo_stack)
    /\ undo_stack' = <<Head(redo_stack)>> \o undo_stack
    /\ IF future = <<>> THEN BreakHistory
                        ELSE past' = <<Visible>> \o past /\ future' = Tail(future)
    /\ UNCHANGED <<program, csrs, reading, input_queue, breakpoints, running, executed, current_delta>>

(***************************************************************************)
(* Reset and LoadProgram.  Registers, memory, counters, the log and the    *)
(* breakpoints go; program_ stays, and RUN writes it to the empty memory;  *)
(* a breakpoint at its end comes with it.                                  *)
(***************************************************************************)
\* Mutant: the stacks survive, as they do on the pipelined machine.
KeepLog == UNCHANGED log
ClearLog == current_delta' = NoChanges /\ undo_stack' = <<>> /\ redo_stack' = <<>>

ResetMachine ==
    /\ pc' = 0 /\ retired' = 0
    /\ regs' = [r \in Reg |-> 0] /\ fregs' = [r \in Reg |-> 0]
    /\ csrs' = [c \in Csr |-> 0]
    /\ ClearLog
    /\ BreakHistory
    /\ UNCHANGED <<program, reading, input_queue>>

ResetCommand ==
    /\ CommandWhenIdle("reset")
    /\ ResetMachine
    /\ mem' = ZeroMemory
    /\ breakpoints' = {}
    /\ UNCHANGED <<running, executed>>

\* RUN and RUN_DEBUG reset and reload before they launch the thread.
LaunchRun(name, loop) ==
    /\ CommandWhenIdle(name)
    /\ ResetMachine
    /\ mem' = LoadProgram(ZeroMemory, program)
    /\ breakpoints' = {ProgramSize(program)}
    /\ running' = loop /\ executed' = 0

RunCommand == LaunchRun("run", "run")
DebugCommand == LaunchRun("run_debug", "debug")

\* LOAD leaves the machine where it was; it waits for a thread to end.
LoadCommand ==
    /\ CommandWhenIdle("load")
    /\ program' \in [text: Programs, data: DataImages]
    /\ mem' = LoadProgram(mem, program')
    /\ breakpoints' = breakpoints \union {ProgramSize(program')}
    /\ BreakHistory
    /\ UNCHANGED <<pc, regs, retired, banks, reading, input_queue, running, executed, log>>

\* Edits are not logged.
ModifyRegister ==
    /\ Command("modify_register")
    /\ \E r \in EditedRegs, v \in Edits :
         \/ regs' = WriteGpr(regs, r, v) /\ UNCHANGED banks
         \/ fregs' = [fregs EXCEPT ![r] = v] /\ UNCHANGED <<regs, csrs>>
         \/ \E c \in Csr : csrs' = [csrs EXCEPT ![c] = v] /\ UNCHANGED <<regs, fregs>>
    /\ BreakHistory
    /\ UNCHANGED <<program, pc, mem, retired, reading, input_queue, breakpoints, running,
                   executed, log>>

ModifyMemory ==
    /\ Command("modify_memory")
    /\ \E a \in EditedCells, v \in Edits : mem' = [mem EXCEPT ![a] = v]
    /\ BreakHistory
    /\ UNCHANGED <<program, pc, regs, retired, banks, reading, input_queue, breakpoints, running,
                   executed, log>>

\* A breakpoint is the address of an instruction on some line of the file.
Breakpoint ==
    /\ \/ Command("add_breakpoint")
          /\ \E k \in DOMAIN program.text : breakpoints' = breakpoints \union {4 * (k - 1)}
       \/ Command("remove_breakpoint")
          /\ \E k \in DOMAIN program.text : breakpoints' = breakpoints \ {4 * (k - 1)}
    /\ UNCHANGED <<vars, banks, reading, input_queue, running, executed, log, history>>

VmStdin ==
    /\ Command("vm_stdin")
    /\ \E line \in Inputs : input_queue' = Append(input_queue, line)
    /\ UNCHANGED <<vars, banks, reading, breakpoints, running, executed, log, history>>

-----------------------------------------------------------------------------
SessionInit ==
    /\ Init
    /\ fregs = [r \in Reg |-> 0] /\ csrs = [c \in Csr |-> 0]
    /\ reading = NotReading /\ input_queue = <<>>
    /\ breakpoints = {ProgramSize(program)}
    /\ running = "none" /\ executed = 0
    /\ current_delta = NoChanges /\ undo_stack = <<>> /\ redo_stack = <<>>
    /\ commands_left = MaxCommands
    /\ past = <<>> /\ future = <<>>

UserNext ==
    \/ StepCommand \/ RunCommand \/ DebugCommand
    \/ UndoCommand \/ RedoCommand \/ ResetCommand \/ LoadCommand
    \/ ModifyRegister \/ ModifyMemory \/ Breakpoint \/ VmStdin

SessionNext == ThreadNext \/ UserNext

SessionSpec == SessionInit /\ [][SessionNext]_sessionVars

\* The launched thread is scheduled; nobody has to type anything.
FairSession == SessionSpec /\ WF_sessionVars(ThreadNext)

ASSUME RvssSessionAssumption ==
    /\ MaxCommands \in Nat /\ InstructionLimit \in Nat
    /\ Programs \subseteq Seq(InstrWord)
    /\ \A data \in DataImages : \A a \in DOMAIN data : a \in Word /\ data[a] \in Word
    /\ \A word \in InstrWord : Decode(word) \in Instr \union SystemInstr
    /\ EditedCells \subseteq Word /\ Edits \subseteq Word /\ EditedRegs \subseteq Reg
    /\ Inputs \subseteq Seq(Word)
    /\ FpResults \subseteq Word /\ FpStatus \subseteq Word /\ GprFunct7 \subseteq Word
    /\ A0 \in Reg \ {0} /\ A1 \in Reg \ {0} /\ A2 \in Reg \ {0} /\ A7 \in Reg \ {0}

-----------------------------------------------------------------------------
(***************************************************************************)
(* Every value is in range, and x0 is zero: the log may hold a change of   *)
(* it, and no undo or redo may make it.  The log speaks of registers and   *)
(* bytes there are.                                                        *)
(***************************************************************************)
RegisterLog == Seq([bank: {"gpr", "fpr"}, at: Reg, old: Word, new: Word])

MemoryLogOK(changes) == \A n \in DOMAIN changes :
    LET c == changes[n]
    IN /\ c.at \in Word
       /\ DOMAIN c.old = DOMAIN c.new
       /\ \E length \in Word : /\ c.old \in [0 .. length - 1 -> Word]
                               /\ c.new \in [0 .. length - 1 -> Word]

EntryOK(entry) ==
    /\ entry.old_pc \in Word /\ entry.new_pc \in Word
    /\ entry.registers \in RegisterLog /\ MemoryLogOK(entry.memory)

TypeOK ==
    /\ pc \in Word /\ retired \in Counter
    /\ regs \in [Reg -> Word] /\ regs[0] = 0
    /\ fregs \in [Reg -> Word] /\ csrs \in [Csr -> Word]
    /\ mem \in [Word -> Word]
    /\ reading \in [waiting: BOOLEAN, at: Word, length: Word]
    /\ current_delta.registers \in RegisterLog /\ MemoryLogOK(current_delta.memory)
    /\ \A n \in DOMAIN undo_stack : EntryOK(undo_stack[n])
    /\ \A n \in DOMAIN redo_stack : EntryOK(redo_stack[n])

(***************************************************************************)
(* The log is one path through the program: each entry begins where the    *)
(* one before it ended, the newest ended and the next one to redo begins   *)
(* where the machine is.                                                   *)
(***************************************************************************)
HistoryIsAPath ==
    /\ undo_stack # <<>> => Head(undo_stack).new_pc = pc
    /\ redo_stack # <<>> => Head(redo_stack).old_pc = pc
    /\ \A n \in 1 .. Len(undo_stack) - 1 : undo_stack[n].old_pc = undo_stack[n + 1].new_pc
    /\ \A n \in 1 .. Len(redo_stack) - 1 : redo_stack[n].new_pc = redo_stack[n + 1].old_pc

(***************************************************************************)
(* The unsigned counter that undo decrements never runs below zero,        *)
(* whatever runs, resets and undos came before.                            *)
(***************************************************************************)
CounterCoversHistory == retired >= Len(undo_stack)

(***************************************************************************)
(* Undo and redo move along a timeline of states: undo gives back program  *)
(* counter, both register banks, memory and count of instructions as they  *)
(* were before the last instruction, a READ into a buffer included; redo   *)
(* gives back what was undone.                                             *)
(***************************************************************************)
VisibleStates == [pc: Word, regs: [Reg -> Word], fregs: [Reg -> Word], mem: [Word -> Word],
                  retired: Counter]
History == INSTANCE Timeline WITH
    States <- VisibleStates, now <- Visible, before <- past, after <- future
ImplementsTimeline == History!Spec

(***************************************************************************)
(* A command that launched a thread gets its answer: the loop ends, at the *)
(* limit if not before, or the program waits for a line nobody has typed.  *)
(***************************************************************************)
EveryLaunchReturns ==
    running # "none" ~> \/ running \in {"none", "exited"}
                        \/ reading.waiting /\ input_queue = <<>>

(***************************************************************************)
(* UNDO reverts the last executed step (COMMANDS.md): it changes no        *)
(* register but the one the instruction it goes back to writes.            *)
(***************************************************************************)
UndoRevertsOneStep ==
    [][UndoCommand => \A r \in Reg : regs'[r] # regs[r] =>
           LET i == ReadInstr(mem', pc') IN r = (IF i.op = "ECALL" THEN A0 ELSE i.rd)
      ]_sessionVars
=============================================================================
