----------------------------- MODULE Rv5sSession -----------------------------
(***************************************************************************)
(* A user's session with the pipelined machine: the commands of main.cpp   *)
(* that step, run, reset and edit it, and the undo and redo stacks.  A     *)
(* command and a clock cycle are one step each here; how the command loop  *)
(* and the thread of a run interleave within them is VmThread's subject.   *)
(***************************************************************************)
EXTENDS Rv5sCorrect

CONSTANTS
    Commands,      \* the commands the user gives
    MaxUndos,      \* how many undo commands he gives
    EditedCells,   \* the memory he edits
    Edits          \* the values he puts in registers and memory

VARIABLES
    running,                 \* vm_running
    undo_stack, redo_stack,  \* newest entry first
    undos_left,
    past, future             \* history: the states the stacks stand for,
                             \* as far as they were not edited since

machine == <<pc, regs, mem, latches, stall_if_id, stall_counter, predictor,
             cycle, retired, mispredictions>>
stacks == <<undo_stack, redo_stack, undos_left, past, future>>
sessionVars == <<vars, running, stacks>>

-----------------------------------------------------------------------------
(***************************************************************************)
(* The log of one cycle.  At most one register and one address change, so  *)
(* each list of changes is a set with at most one element.                 *)
(***************************************************************************)
RegisterChanges ==
    {[at |-> r, old |-> regs[r], new |-> WbValue(mem_wb)] : r \in {s \in Reg : Writes(mem_wb, s)}}

\* Mutant: the old value is read after the store.
BytesAfterStore(a) == ex_mem.data
BytesBeforeStore(a) == mem[a]

\* A store that leaves memory as it was is not logged.
MemoryChanges ==
    {[at |-> a, old |-> BytesBeforeStore(a), new |-> ex_mem.data] :
        a \in {b \in Word : /\ Holds(ex_mem) /\ MemWrite(ex_mem.instr)
                            /\ b = ex_mem.result /\ mem[b] # ex_mem.data}}

Delta == [old_pc |-> pc, new_pc |-> pc', latches |-> latches,
          cycle |-> cycle, retired |-> retired,
          register_changes |-> RegisterChanges, memory_changes |-> MemoryChanges]

\* Mutant: redo undoes the changes once more.
ReplayOld(values, changes, side) ==
    [k \in DOMAIN values |->
        IF \E c \in changes : c.at = k THEN (CHOOSE c \in changes : c.at = k).old ELSE values[k]]
\* values with each change undone (side = "old") or done again ("new").
Replay(values, changes, side) ==
    [k \in DOMAIN values |->
        IF \E c \in changes : c.at = k
        THEN (CHOOSE c \in changes : c.at = k)[side]
        ELSE values[k]]

\* The part of a stack that the undo commands still to come can reach.
Reachable(stack, undos) == SubSeq(stack, 1, IF Len(stack) < undos THEN Len(stack) ELSE undos)

Visible == [pc |-> pc, regs |-> regs, mem |-> mem, latches |-> latches,
            cycle |-> cycle, retired |-> retired]

\* The log no longer stands for the states it led through.
BreakHistory == past' = <<>> /\ future' = <<>> /\ UNCHANGED <<undo_stack, redo_stack, undos_left>>

-----------------------------------------------------------------------------
(***************************************************************************)
(* One clock cycle, by the STEP command or in the loop of a run.  Step     *)
(* logs the cycle and forgets what could have been redone.                 *)
(***************************************************************************)
LoggedStep ==
    /\ Step
    /\ undo_stack' = Reachable(<<Delta>> \o undo_stack, undos_left)
    /\ redo_stack' = <<>>
    /\ past' = Reachable(<<Visible>> \o past, undos_left)
    /\ future' = <<>>
    /\ UNCHANGED undos_left

StepCommand == "step" \in Commands /\ ~running /\ LoggedStep /\ UNCHANGED running

\* The loop of Run, and its end.
RunCycle == running /\ ~Finished /\ LoggedStep /\ UNCHANGED running
RunReturns == running /\ Finished /\ running' = FALSE /\ UNCHANGED <<vars, stacks>>

(***************************************************************************)
(* Undo and Redo.  Both put back the pipeline registers and the counters   *)
(* found in the log entry, those at the start of its cycle.                *)
(***************************************************************************)
\* Mutant: MEM/WB is forgotten.
RestoreThreeLatches(entry) ==
    /\ if_id' = entry.latches[1] /\ id_ex' = entry.latches[2] /\ ex_mem' = entry.latches[3]
    /\ UNCHANGED mem_wb
RestoreLatches(entry) ==
    /\ if_id' = entry.latches[1] /\ id_ex' = entry.latches[2]
    /\ ex_mem' = entry.latches[3] /\ mem_wb' = entry.latches[4]

\* Mutant: redo goes to where the cycle began.
OldPc(entry, side) == entry.old_pc
PcOf(entry, side) == IF side = "old" THEN entry.old_pc ELSE entry.new_pc

RestoreEntry(entry, side) ==
    /\ pc' = PcOf(entry, side)
    /\ RestoreLatches(entry)
    /\ cycle' = entry.cycle
    /\ retired' = entry.retired
    /\ regs' = Replay(regs, entry.register_changes, side)
    /\ mem' = Replay(mem, entry.memory_changes, side)
    /\ UNCHANGED <<mode, program, stall_if_id, stall_counter, predictor, mispredictions>>

UndoCommand ==
    /\ "undo" \in Commands /\ ~running /\ undos_left > 0
    /\ undo_stack # <<>>
    /\ RestoreEntry(Head(undo_stack), "old")
    /\ undos_left' = undos_left - 1
    /\ undo_stack' = Reachable(Tail(undo_stack), undos_left')
    /\ redo_stack' = <<Head(undo_stack)>> \o redo_stack
    /\ IF past = <<>> THEN past' = <<>> /\ future' = <<>>
       ELSE /\ past' = Reachable(Tail(past), undos_left')
            /\ future' = <<Visible>> \o future
    /\ UNCHANGED running

\* Where an entry's cycle began: a redo behind another redo finds the
\* pipeline registers and the counters of the cycle before.
Began(entry) == [pc |-> pc, regs |-> regs, mem |-> mem, latches |-> entry.latches,
                 cycle |-> entry.cycle, retired |-> entry.retired]

RedoCommand ==
    /\ "redo" \in Commands /\ ~running
    /\ redo_stack # <<>>
    /\ RestoreEntry(Head(redo_stack), "new")
    /\ undo_stack' = Reachable(<<Head(redo_stack)>> \o undo_stack, undos_left)
    /\ redo_stack' = Tail(redo_stack)
    /\ IF future = <<>> THEN past' = <<>> /\ future' = <<>>
       ELSE /\ past' = Reachable(<<Began(Head(redo_stack))>> \o past, undos_left)
            /\ future' = Tail(future)
    /\ UNCHANGED <<running, undos_left>>

(***************************************************************************)
(* Reset clears memory, the program in it too, registers, latches and      *)
(* statistics and replaces the predictor; program_, its size, the stall    *)
(* state and the stacks survive it.  RUN loads the program right after.    *)
(***************************************************************************)
\* Mutant: what is in flight survives.
KeepLatches == UNCHANGED latches
ClearLatches ==
    /\ if_id' = IfIdOf("empty") /\ id_ex' = IdExOf("empty")
    /\ ex_mem' = ExMemOf("empty") /\ mem_wb' = MemWbOf("empty")

ResetMachine ==
    /\ pc' = 0
    /\ regs' = [r \in Reg |-> 0]
    /\ ClearLatches
    /\ predictor' = FreshPredictor(PredictorKind(mode))
    /\ cycle' = 0 /\ retired' = 0 /\ mispredictions' = 0
    /\ BreakHistory
    /\ UNCHANGED <<mode, program, stall_if_id, stall_counter>>

ResetCommand ==
    /\ "reset" \in Commands /\ ~running
    /\ ResetMachine
    /\ mem' = ZeroMemory
    /\ UNCHANGED running

RunCommand ==
    /\ "run" \in Commands /\ ~running
    /\ ResetMachine
    /\ mem' = LoadProgram(ZeroMemory, program)
    /\ running' = TRUE

\* STOP ends the loop after the cycle it is in.
StopCommand ==
    /\ "stop" \in Commands /\ running
    /\ running' = FALSE
    /\ UNCHANGED <<vars, stacks>>

\* LOAD stops a run and writes the program over whatever is there; the
\* machine goes on from where it was.
LoadCommand ==
    /\ "load" \in Commands
    /\ program' \in [text: Programs, data: DataImages]
    /\ mem' = LoadProgram(mem, program')
    /\ running' = FALSE
    /\ BreakHistory
    /\ UNCHANGED <<mode, pc, regs, latches, stall_if_id, stall_counter, predictor,
                   cycle, retired, mispredictions>>

(***************************************************************************)
(* Edits are accepted at any time and not logged.                          *)
(***************************************************************************)
ModifyRegister ==
    /\ "modify_register" \in Commands
    /\ \E r \in Reg, v \in Edits : regs' = WriteGpr(regs, r, v)
    /\ BreakHistory
    /\ UNCHANGED <<mode, program, pc, mem, latches, stall_if_id, stall_counter, predictor,
                   cycle, retired, mispredictions, running>>

ModifyMemory ==
    /\ "modify_memory" \in Commands
    /\ \E a \in EditedCells, v \in Edits : mem' = [mem EXCEPT ![a] = v]
    /\ BreakHistory
    /\ UNCHANGED <<mode, program, pc, regs, latches, stall_if_id, stall_counter, predictor,
                   cycle, retired, mispredictions, running>>

\* A change between pipelined modes keeps the machine and its state.
ModifyConfig ==
    /\ "modify_config" \in Commands
    /\ mode' \in Modes
    /\ UNCHANGED <<program, machine, running, stacks>>

-----------------------------------------------------------------------------
SessionInit ==
    /\ Init
    /\ running = FALSE
    /\ undo_stack = <<>> /\ redo_stack = <<>>
    /\ undos_left = MaxUndos
    /\ past = <<>> /\ future = <<>>

SessionNext ==
    \/ StepCommand \/ RunCycle \/ RunReturns
    \/ UndoCommand \/ RedoCommand
    \/ ResetCommand \/ RunCommand \/ StopCommand \/ LoadCommand
    \/ ModifyRegister \/ ModifyMemory \/ ModifyConfig

SessionSpec == SessionInit /\ [][SessionNext]_sessionVars

\* A user who keeps stepping to the end of the program.
PatientSpec == SessionSpec /\ WF_sessionVars(~Finished /\ StepCommand)

ASSUME SessionAssumption ==
    /\ MaxUndos \in Nat
    /\ EditedCells \subseteq Word
    /\ Edits \subseteq Word

-----------------------------------------------------------------------------
(***************************************************************************)
(* Undo goes back exactly one cycle, however many were undone, redone or   *)
(* executed again before: registers, memory, pipeline registers, program   *)
(* counter and counters are those with which the cycle began, unless       *)
(* memory or registers were edited in between.                             *)
(***************************************************************************)
UndoGoesBack == [][UndoCommand /\ past # <<>> => Visible' = Head(past)]_sessionVars

(***************************************************************************)
(* Where nothing but the pipeline registers decides what a cycle does (no  *)
(* hazard unit, no predictor), executing an undone cycle again gives what  *)
(* it gave the first time.                                                 *)
(***************************************************************************)
StepRepeats ==
    [][StepCommand /\ future # <<>> /\ mode = "NO_HAZ" => Visible' = Head(future)]_sessionVars

(***************************************************************************)
(* Redo brings the program to where it was before the undo: program        *)
(* counter, registers and memory, however undo, redo and steps alternate.  *)
(* (The pipeline registers and the counters it does not bring back.)       *)
(***************************************************************************)
RedoRestoresProgram ==
    [][RedoCommand /\ future # <<>> =>
          /\ pc' = Head(future).pc
          /\ regs' = Head(future).regs
          /\ mem' = Head(future).mem]_sessionVars

(***************************************************************************)
(* The stacks and the machine stay in step: the newest log entry ends, and *)
(* the next one to redo starts, where the program counter is.              *)
(***************************************************************************)
HistoryMeetsPc ==
    /\ undo_stack # <<>> => Head(undo_stack).new_pc = pc
    /\ redo_stack # <<>> => Head(redo_stack).old_pc = pc

(***************************************************************************)
(* RUN executes the program from its beginning whatever state the machine  *)
(* was left in, and RESET leaves an empty memory to execute: what the      *)
(* session does is what the single-cycle machine does between the two.     *)
(* As for the refinement, it is promised where the predicates of           *)
(* Rv5sCorrect hold of the session, no store over what is in flight first. *)
(***************************************************************************)
ArchReset(newMemory) ==
    /\ ArchPc' = 0
    /\ ArchRegs' = [r \in Reg |-> 0]
    /\ ArchRetired' = 0
    /\ mem' = newMemory
    /\ UNCHANGED program

ArchStep ==
    \/ Arch!Next
    \/ ArchReset(LoadProgram(ZeroMemory, program))
    \/ ArchReset(ZeroMemory)

RunStartsAfresh ==
    Arch!Init /\ [][ArchStep]_<<program, ArchPc, ArchRegs, mem, ArchRetired>>

(***************************************************************************)
(* Going back in a program never costs its completion: a user who keeps    *)
(* stepping reaches its end.                                               *)
(***************************************************************************)
UndoneProgramFinishes == <>Finished
=============================================================================
