# A TLA+ verification of the RISC-V simulator

The repository is a RISC-V simulator in C++: an assembler, a single-cycle
machine (`RVSSVM`), a five-stage pipelined machine (`RV5SVM`) with eight modes of
hazard handling and branch prediction, undo and redo of clock cycles, and a
command loop that runs either machine in a thread. This directory holds TLA+
modules translated from that code, the TLC configurations that check them on
small instances, and proofs checked by TLAPS that hold for every instance.
Paths below are relative to the repository, `rv5s_vm.cpp` stands for
`src/vm/rv5s/rv5s_vm.cpp`, and so on.

Every module parses with SANY; a run is `tlc -config <cfg> <module>`, a proof
`tlapm <module>.tla`. `PROJECT.json` lists the components, the runs, for every
property a mutation of the code that breaks it, the source lines of every
definition, the divergences met, the hazards, and the theorems.

## 1. Inventory

| component | state it keeps | operations | talks to |
|---|---|---|---|
| pipelined machine (`RV5SVM`) | program counter, register file, memory, four pipeline registers, `stall_if_id_`, `stall_counter_`, predictor, statistics, undo and redo stacks | `Step` (five stages), `Run`, `Undo`, `Redo`, `Reset`, `RequestStop` | hazard and forwarding units, predictor, ALU, memory, registers (calls) |
| hazard unit, forwarding unit | none | how long to wait; which value an operand has | called by ID and EX |
| branch predictors | a branch target buffer, and a history table of one of four kinds with, for two of them, a global history | `predict`, `update`, `reset` | called by IF (predict) and ID (update) |
| single-cycle machine (`RVSSVM`) | program counter, registers, memory, undo and redo stacks, input queue, its own stop flag | `Step`, `Run`, `Undo`, `Redo`, `Reset`, system calls | ALU, memory, registers; input queue with main |
| VM base | program image, breakpoints, stop flag, counters | `LoadProgram`, `ImmGenerator`, breakpoints | both machines |
| memory | blocks of bytes, the block size | reads and writes of 1 to 8 bytes, `Reset` | both machines; the command loop's edits and dumps, without a lock |
| registers, ALU | three register banks; none | reads and writes; integer and float operations | both machines |
| command loop (`main.cpp`) | the machine (`unique_ptr`), the thread, `vm_running`, the loaded program | every command | launches, stops and joins the thread; replaces, resets, loads and edits the machine |
| configuration | mode, limits, sizes | `modifyConfig` | read by the machine every cycle |
| assembler | tokens, symbol table, forward references, data buffer, instruction blocks, line table | lexing, parsing, back-patching, code generation | gives a program to main, which loads it |
| command parser, ELF writer, dumps, error texts, scripts | - | output and text | - |

What is hard in it, and what makes each component correct:

* **Pipeline.** Five instructions in flight read and write shared state in an
  order given by the order of the stages in `Step`; operands come from the
  register file, from latches as they are now or as they were when the cycle
  began; a stall, a flush by EX, a flush by ID and a prediction may all happen in
  one cycle. Program and data lie in one memory, so a store may change what is
  fetched next. *Correct:* it computes what the single-cycle machine computes, for
  every program whose instructions the two compute alike and which does not store
  over what the pipeline already holds (section 3); it never stops retiring; a
  stalled fetch always waits for something; no prediction goes unchecked.
* **Predictors.** Entries are shared by addresses that alias, a prediction is made
  two cycles before it is judged, counters saturate. *Correct:* tables are
  indexed in range, weights stay in their byte, the target buffer holds only
  jumps of the program, as long as the program does not store over them.
* **Undo, redo, reset.** What is logged is not all that a cycle changes, and the
  stacks are shared by commands that were written apart. *Correct:* undo goes
  back one cycle exactly, redo forward one, a run starts from nothing.
* **Command loop and thread.** Two threads share the machine, two stop flags and
  `vm_running`, and only `join` synchronises them. *Correct:* never two threads in
  the machine, the flag tells the truth, a stop ends the loop, every command is
  answered.
* **Single-cycle session.** Integer, floating-point and system instructions each log
  what they changed in their own way, and undo replays the log; a run, a debug
  run, a reset and a load each do something else to it. *Correct:* undo and redo
  move along the states the program went through, the stacks stay one path at the
  program counter, every launched command comes back.
* **Memory.** A width is checked once and the bytes are accessed one by one, over
  boundaries of blocks that are made on demand, by two threads, with a block
  size that the user may change. *Correct:* a map from addresses to bytes, no access
  outside its block, no access that stops half-way.
* **Assembler.** Two passes that each skip what the other one reads, forward
  references patched by an index recorded earlier, instructions that become two,
  and a loader that lays the data out a second time. *Correct:* every reference
  reaches its label in the loaded program, nothing of the source is lost, the line
  table finds the instruction, assembling ends.

The full list of hazards, each at its line, with the properties that watch it or
the reason why none does, is in `PROJECT.json`.

## 2. Modules

| module | models | from |
|---|---|---|
| `Isa` | width of values, decoded instructions, control lines, ALU, register file, the memory with program and data, loading and fetching | `alu.cpp`, `registers.cpp`, `vm_base.cpp`, both control units |
| `Rvss` | the single-cycle machine on the integer base instructions; the abstract specification of the pipeline | `rvss_vm.cpp`, `rvss_control_unit.cpp` |
| `Predictors` | branch target buffer and the four history tables, as values with methods | `predictors/*.cpp` |
| `Rv5s` | the pipelined machine: one action, `Step`, per clock cycle, one operator per stage | `rv5s_vm.cpp`, `hazard_unit.cpp`, `forward_unit.cpp` |
| `Rv5sCorrect` | refinement mapping to `Rvss`, type invariant and properties of the pipeline | - |
| `Rv5sSession` | step, run, stop, undo, redo, reset, load, edits and mode changes of the pipelined machine, its two stacks | `rv5s_vm.cpp`, `main.cpp` |
| `RvssSession` | the same for the single-cycle machine, with its loops (`Run`, `DebugRun`), breakpoints, limit, input, system calls, floating point and control registers | `rvss_vm.cpp`, `main.cpp`, `registers.cpp`, `vm_base.cpp` |
| `Timeline` | what undo and redo promise, for any machine; abstract specification of `RvssSession` | - |
| `VmThread` | command loop and launched thread, at the grain of accesses to what they share | `main.cpp`, `vm_base.h`, `rvss_vm.h`, both `Run` |
| `VmThreadCorrect` | its properties | - |
| `Memory` | blocks, byte-by-byte accesses of two clients, block size, reset | `main_memory.cpp`, `memory_controller.cpp` |
| `ByteMap` | what a memory promises; abstract specification of `Memory` | - |
| `Assembler` | both passes, symbols, back-patching, data layout, the line table, `LoadProgram` | `parser.cpp`, `assembler.cpp`, `parse_formats/`, `vm_base.cpp` |
| `AssemblerCorrect` | what it promises, stated over the tokens of the source | - |
| `IsaProofs`, `Rv5sProofs`, `Rv5sRefinement`, `Rv5sSessionProofs`, `RvssSessionProofs`, `VmThreadProofs`, `MemoryProofs`, `AssemblerProofs` | theorems and lemmas | - |
| `MCRv5s`, `MCSession`, `MCRvssSession`, `MCAssembler` | instances for TLC | - |

`Rv5s` extends `Isa` and `Predictors`; `Rv5sSession` extends `Rv5sCorrect` and composes
the pipeline with the user; `RvssSession` extends `Rvss` and adds the instructions,
the log and the user. `VmThread` stands beside them, with the machine reduced to
how far its program is, because the concerns meet only in which thread may be
inside the machine. `Memory` and `Assembler` stand on either side: the machines read
and write a map from addresses to cells, which `ByteMap` says `Memory` is, and execute
a program, which `Assembler` loads.

### How state and actions correspond

**Time.** One `Step` of `Rv5s` is one call of `RV5SVM::Step`. The stages run in
the order of the code, WB, MEM, EX, ID, IF. A stage that sees what an earlier
stage of the same cycle wrote reads the primed variable; where the code reads
`current_delta_`, the copy made when the cycle began, the model reads the
unprimed one. That distinction is the heart of the pipeline: EX forwards from
the unprimed `ex_mem` and `mem_wb`, ID from the primed ones.

**Pipeline registers.** `valid_` and the bubble's nop become a `kind` ("empty",
"bubble", "instr"). Control lines are functions of the instruction and not
stored. `flush_if_once_` and `flush_id_once_` live within one cycle and are the
operators `ExRedirects` and `IdRedirects`.

**Instructions** are decoded records whose register fields are the raw bits: an
instruction with no `rs1` still has a number there and the forwarding unit
looks at it, in the model as in the code.

**Program and data.** There is one memory, `mem`, a total function from addresses to
cells. `LoadProgram` writes the instruction words of the program from address 0 on
and its data; an instruction word is four cells, and `ReadInstr` puts the four cells at
an address together and decodes them, so that the fetch gets whatever is in memory by
then: `RVSSVM::Fetch` at the start of an instruction, the pipeline's IF from the
memory as MEM of the same cycle has just left it (`mem'`). Loads and stores touch one
cell, so a store can change a quarter of an instruction; widths and bytes are the
subject of `Memory`. What a word means is the constant `Decode`; the theorems ask of it
only that every word is some instruction (one of no class counts) and that a word of
zeros is one of no class. Memory wraps around at the end of the address range, where
the code throws. Program images are constants too: `Programs` are sequences of
instruction words, `DataImages` the cells of data they come with.

**Session of the pipeline.** A log entry holds what `StepDelta` holds. `undo_stack`
and `redo_stack` are the code's; `past` and `future` are history variables, the states
the entries stand for, which no other variable depends on. A redo behind another redo
finds the latches and counters of the cycle before (section 5); what it adds to
`past` is therefore the state in which the entry's cycle began (`Began`), the one a
later undo goes to. The undo stack of the code
grows without bound; the model cuts it to the entries that the undo commands
still allowed (`undos_left`) can reach, which no property can tell apart.

**Session of the single-cycle machine.** The thread executes one instruction per
action, except that a READ is two: it begins to wait (`ThreadWaits`) and returns
when a line is there (`ReadReturns`), so that commands come in between.
`current_delta`, `undo_stack` and `redo_stack` are the code's; an entry is the
two program counters and the lists of register and memory changes, replayed in
the order they were logged, for undo as for redo. What a floating-point
operation computes is any value of `FpResults` and any flags of `FpStatus`: which
bank is written, and which change is logged, is what the properties are about.
A change is logged for the bank that was written. Integer instructions read the
register again after they wrote it, so nothing is logged for x0; `WriteBackFloat` logs the
result it has, so a comparison with destination x0 is logged although x0 ignored it,
and undo and redo leave x0 alone because they too write through `WriteGpr` (`Ignores`).
`past` and `future` are history variables again; a step whose log is known not
to be complete (control registers, and the leftover of a run) begins them anew.
The single-cycle machine's `STOP` is not an action: it reaches a flag this
machine does not test (section 5).

**Threads.** `main` and `thread` are program counters, with one value per place
between two accesses to shared state: `thread` is "start" before `Run` clears its
stop flag, "check" before the loop's test, "cycle" before the body, "wait" inside
`input_cv_.wait`, "leaving" before `vm_running` is cleared, "ended" when it can
be joined, "none" when there is no joinable thread object. `rvss_stop` is
`RVSSVM::stop_requested_`, which hides the one of `VmBase`. `late_cycles` and
`stopping` are history variables.

**Memory.** `blocks` is `blocks_`, a function from the indices that are present.
`Begin` is the entry of `Read` or `Write` with its range check, `Read` and `Write` are
one byte each, so two clients interleave byte by byte. Whatever the C++ standard leaves
undefined sets `undefined`, after which nothing is modelled: an offset outside its
block, and, as one of the possible outcomes, a block made while the other
client is in the map. `start`, `alone`, `shrunk` and `raced` are history.

**Assembler.** A source is the list of tokens the lexer gives. An action consumes
what one turn of a loop of `parse`, `parseDataDirective` or `parseTextDirective`
consumes. Loops that only skip are `SkipTo` and `NextLine`, by their stopping
conditions. Of the instructions those are told apart that resolve differently:
branches, jumps, references to data, which become two instructions, and the rest.
`placed` is where `LoadProgram` puts each datum.

## 3. Refinements

**The pipeline implements the single-cycle machine.** `Rv5sCorrect` reads a state of
the pipeline as a state of `Rvss`: an instruction takes effect when it leaves MEM.
At that moment its store is in memory and its result in MEM/WB, so the
architectural registers are the register file with MEM/WB written back
(`ArchRegs`), and the architectural program counter is the address of the oldest
instruction that has not left MEM: the one in EX/MEM, else in ID/EX, else in IF/ID,
else the next to fetch (`ArchPc`). Under this mapping every clock cycle is one
instruction of `Rvss` or a stutter: `ImplementsRvss == Arch!Spec`. It fails as soon
as an operand is stale, an instruction is lost, duplicated or executed on a wrong
path, or a store and a load pass each other, in whichever cycle that happens.
`ArchPc` is right because whatever sits behind a taken branch has become a bubble
by the time the branch reaches EX/MEM, and what sits behind a wrong prediction
by the time the branch reaches ID/EX. Checked by TLC and proved.

The code's two machines do not agree on everything (section 5), and the property is
checked and proved of the runs in which they can. What that asks is stated as
predicates of a state in `Rv5sCorrect`. Where a run
reaches states that violate one it has it as a CONSTRAINT: such a
state is checked and the execution is not followed
further, so that everything up to the first difference counts. The theorems assume
that they always hold.

| predicate | what it asks | why |
|---|---|---|
| `SparesFlight` | the store in MEM changes no instruction in IF/ID or ID/EX | these were fetched before the store; the single-cycle machine fetches behind it |
| `SparesJumps` | where there is a target buffer, the store in MEM changes no jump of the program | the buffer would go on answering for the old one |
| `AgreedNext` | the next instruction is no MUL, no LUI or AUIPC whose immediate does not fit, no JALR to an odd address | the machines compute these differently |
| `AlignedFetch` | with a dynamic predictor, what is in IF/ID lies at a whole word | the target buffer does not look at the two lowest address bits |
| `KeepsApart` | in `NO_HAZ`, the instruction in ID/EX reads nothing that EX/MEM or MEM/WB writes | nothing waits in this mode |

A store over an instruction that has not been fetched yet, the one that MEM's own cycle
fetches included, is not excluded: both machines then execute the new instruction, and the
refinement says so. `SparesText`, that no store changes an instruction of the program,
is enough for the first two predicates, and what the simpler theorems ask.

**The single-cycle session implements a timeline.** `Timeline` has a present and the
states before and behind it, and four steps: advance, back, forward, and a break
after which nothing is promised of the past. `ImplementsTimeline` maps the machine's
visible state (`Visible`: program counter, both banks, memory, instruction count) to
the present. The stacks of the code hold no states but changes, so this is where an
incomplete log, a replay in the wrong order or a stack that survives too long
shows. Checked by TLC and proved.

**The blocks implement a map from bytes.** `ImplementsByteMap` maps `Contents`, what a
read of each address would give, to `ByteMap`. Making a block, crossing from
one block to the next and beginning or ending an access are stutters. Checked by
TLC and proved.

## 4. Runs

"Bounds" are those of the cfg. Passing runs finish with no error, violation
runs end with a counterexample described in section 5.

| run | specification | properties | question |
|---|---|---|---|
| `mixed` | `Spec` | `TypeOK`, `StallKeepsInstruction`, `ImplementsRvss` | do stalls, forwarding and static prediction give the single-cycle result |
| `loops` | `FairSpec` | `TypeOK`, `PredictionsAreChecked`, `BtbKnowsOnlyJumps`, `ImplementsRvss`, `KeepsRetiring` | do the predictors, and does the pipeline ever lock up |
| `undo` | `SessionSpec` | `UndoGoesBack`, `StepRepeats` | does undo restore the cycle before, however steps and undos alternate |
| `edits` | `SessionSpec` | `HistoryMeetsPc`, `UndoGoesBack`, `RedoRestoresProgram` | do the stacks stay with the machine through redo, load, edits and mode changes |
| `run` | `SessionSpec` | `RunStartsAfresh` | does RUN start afresh whatever was in flight |
| `threads` | `FairSpec` | `MachineIsExclusive`, `RunningFlagIsTrue`, `PipelineStopIsPrompt`, `StopEndsLoop`, `CommandsReturn` | do main and the thread keep out of each other's way, does a stop end the loop, does main come back |
| `rvss` | `FairSession` | `TypeOK`, `HistoryIsAPath`, `CounterCoversHistory`, `ImplementsTimeline`, `EveryLaunchReturns` | do undo and redo of the single-cycle machine move along what it did, does every launch return |
| `memory` | `Spec` | `TypeOK`, `AdmittedAccessesComplete`, `UndefinedHasACause`, `ImplementsByteMap`, `UndisturbedAccessesAreExact` | are blocks a map of bytes, and who can break them |
| `asm` | `FairSpec` | `TypeOK`, `ReferencesResolve`, `DataReferencesReach`, `NothingIsDropped`, `BreakpointsFindTheirLine`, `AssemblyEnds` | is what is loaded what was written |
| `livelock`, `lost_stop`, `leftover` | | one each | section 5 |

**`mixed`** runs every program of four instructions over a repertoire of eleven:
addition with and without x0 as destination, subtraction, load, store, branches
in both directions, JAL, JALR, LUI, AUIPC; in modes `STALL`, `FWD`,
`STATIC_BP` and `NO_HAZ`. Four instructions are enough for every pair and triple that meet in
the pipeline (a value travels at most three stages), for a branch over each of
them, and for loops whose body is the interesting sequence. In mode `NO_HAZ`
nothing waits and the result differs by design: the constraint `KeepsApart` follows
an execution in that mode as long as no instruction reads what one of the two
before it writes. Stores go to any address that the registers reach, the program
included; the constraint `SparesFlight` ends an execution at a store over an instruction
in flight. 712,892 distinct states.

**`loops`** runs every program of four over seven instructions that jump back or
make a branch depend on a load, in all seven modes that handle hazards, under
each predictor. The target buffer has two entries, so that two of the four
instructions share each; its tags tell them apart, which the mutant `BtbHitAnyTag`
removes. No instruction of the repertoire stores, so no constraint is needed for the
buffer. Two bits of history and weights between -2 and 1 let saturation happen
within a few iterations. 225,028 distinct states.

**Numbers.** Registers have 5 bits (`Mod` = 32), an "int32" is the lower 4
(`HalfMod` = 16), a shift by 12 multiplies by 4, so that a U-type immediate has a
part that is shifted out of the int32; x0, x1 and x2 exist (x0 to x4 in `rvss`);
counters wrap at `CounterMod`. A loop therefore returns to a state it has been
in, which makes the state space finite. Memory has 32 cells; a program of four takes
the first 16, data the others. In the instances an instruction is encoded by its place
in the repertoire, spread over the values of a cell, in the first cell of its word, the
other three being zero (`Encode`, `MCDecode`): the values that programs store lie among
the encodings, so that a store may turn an instruction into another one of the
repertoire, or into none. The
repertoires as loaded stay out of the places where the two machines are known to
differ (section 5), since one difference would hide the next: no multiplication, no
U-type immediate that is negative once shifted, no odd JALR target, no jump to
an address that is not a multiple of four.

**Session runs of the pipeline.** `undo` allows three undo commands among any number
of steps, with programs of three instructions over seven that store (values that
change data, that do not, and that change the first instruction), load, use and
branch, without hazard unit, with
forwarding, and with gshare. Three undos reach back over a load, its stall and
its use. `edits` allows three among seven kinds of command and two programs to
load over each other: undo, undo, redo, redo, undo is the shortest session in which an
undo meets an entry that was redone behind another. It needs no larger programs, as
its properties are about stacks, program counter and what an edit breaks. `run` gives RUN and STOP at every
cycle, steps before and after, RESET in between, with stalls and with two-bit
prediction, and compares with a single-cycle machine that may be reset. Its programs store
over their own first instruction, also where that is a jump, and a RUN loads them anew;
its constraint is `SparesJumps`, and the other predicates of section 3 hold in all its
states. 178,235 distinct states in `undo`, 366,340 in `edits`, 27,066 in
`run`. `undo` and `edits` compare the pipeline with itself and need no constraint.

**`rvss`** gives four commands out of twelve, in any order and at any moment of
the launched thread. Four are a step or a debug run, an undo, a redo and one more
to disturb them, or a reset between an instruction and its undo. Six programs:
a counted loop with a store and a load, a READ followed by a WRITE that depends
on its result, floating point through both banks with a result for x0, control registers, an exit, and a
program that never ends, which only the limit (3) stops. Lines of input are
shorter and longer than the buffer. An edit changes one register of each bank
(`EditedRegs`), a cell of the data or one of the program, to a value (10) that is
also the encoding of another instruction. 153,616 distinct states. `CounterMod` is 8, more than the undo entries four
commands can leave; `CounterCoversHistory` is about this range and says nothing of a
counter that has wrapped after 2^64 instructions, which the theorem about it
(`CounterCorrect`) states as a hypothesis, `NotWrapped`.

**`memory`** has four bytes in blocks of two or three, so that an access of two
bytes can stay in a block or cross, one of four covers all of them and crosses
once or twice, and one of eight is wider than the memory, where the bound in the
range check wraps around. Two clients make three accesses, resets, new machines or
changes of the block size, in every interleaving of their bytes; 421,447 distinct
states. Bytes have one bit: only which one arrives where matters, and the value 5
has different neighbouring bits.

**`asm`** assembles three families of sources. 1) Data and text in either order, four
fillers that leave the data behind them misaligned or more than 2048 bytes away
(where the upper part of a distance is rounded up) or begin with a string that
defines a label twice, two labelled data in either order, and three instructions
out of seven, the second and third with a label: every reference occurs forward,
backward and to itself, in reach and out of it (`BranchReach` is 8, that is two
instructions). 2) A correct program with one of sixteen odd lines at any place.
3) Every sequence of up to three odd lines.

**Thread runs.** Five commands are enough for a launch, a command that finds the
thread at any point, a relaunch over it, a replacement of the machine and an
exit. A program has two instructions: a cycle in progress and one to come. The
three programs end, loop, and wait for input. The single-cycle machine's
execution limit is 3.

Deadlock is not checked in `threads` (main may wait for a thread that waits for
input for ever), in `rvss`, `leftover` and `memory` (the user may stop giving
commands) and in `asm` (a source is assembled once).

### Fairness

* `Rv5s!FairSpec`, WF of `RunStep`: the loop in `Run` calls `Step` again and again
  until the program is over; nothing else can prevent it.
* `VmThread!FairSpec`, WF of `ThreadNext` and of `MainNext`: the operating system
  schedules both threads. Reading a command (`UserNext`) has no fairness: nobody
  has to type. WF is enough as a step of one thread never disables the other's
  for good.
* `RvssSession!FairSession`, WF of `ThreadNext`: the launched thread is scheduled. The
  commands have no fairness, input included: a READ without a line waits for ever,
  and `EveryLaunchReturns` says so.
* `Assembler!FairSpec`, WF of `Next`: one thread, which nothing blocks.
* `PatientSpec` (run `livelock`), WF of a step before the program's end: a user who
  goes on stepping. Undos are bounded, so the user cannot undo for ever.

## 5. Where the code does not do what the repository says

Shown by a run that ends with a counterexample:

* `livelock`: `Undo` does not restore `stall_if_id_`. When a load-use stall that
  directly follows a taken jump is undone, the flag is set over a bubble; `stageID`
  leaves early for a bubble, the fetch never resumes, and the user steps for
  ever (`rv5s_vm.cpp:774`, `321`). `UndoneProgramFinishes`.
* `lost_stop`: `Run` clears the stop flag when it starts, after `launch_vm_thread`
  has returned; an EXIT in between is lost and main waits in `join` for a program
  that does not end (`rv5s_vm.cpp:730`). `ExitEnds`.
* `leftover`: `RVSSVM::Run` adds every instruction's changes to `current_delta_` and
  neither pushes nor clears it (`rvss_vm.cpp:807`). After a run that the limit
  stopped, the first STEP pushes one entry with the changes of the whole run, and
  UNDO, which "reverts the last executed step" (COMMANDS.md:17), reverts them all.
  `UndoRevertsOneStep`.

Seen while modelling, without a run. Pipeline and single-cycle machine:

* The pipeline's control unit tells R-type instructions apart by `funct7 = 0100000`
  only, so MUL is executed as ADD (`rv5s_control_unit.cpp:51`), while COMMANDS.md:5
  admits programs of the M extension. In the model: `Rv5s` and `Rvss` differ so.
* LUI and AUIPC shift the 20-bit field as an `int64_t` in the pipeline
  (`rv5s_vm.cpp:515`), so an immediate with its top bit set is not sign-extended
  (`ExResult` against `WrittenValue`); examples/test_edge_cases.s expects it to be.
* The pipeline clears bit 0 of a JALR target (`rv5s_vm.cpp:253`), the single-cycle
  machine does not (`rvss_vm.cpp:92`): `BranchTarget` against `NextPc`.
* Index and tag of the target buffer drop the two low address bits: after a jump
  to a misaligned address a prediction could be followed that nobody checks.
* Both machines fetch from the memory they store to (`rv5s_vm.cpp:292`, `620`;
  `rvss_vm.cpp:38`, `457`). A store over one of the two instructions executed right behind it finds them fetched:
  the pipeline executes the old ones, the single-cycle machine the new ones (`SparesFlight`). A
  target buffer entry outlives the jump that was stored over: the prediction for what
  is there now, if it is no jump, is followed and never checked (`SparesJumps`).
* The README's mode 3, "with data forwarding", is `STALL`, which never forwards.
* WriteBackFloat of the single-cycle machine looks at funct7 before the opcode
  (`rvss_vm.cpp:649`): an FLW or FLD whose immediate has those bits writes its address
  into a general register (`FloatWritesGpr`). The change is logged for the bank that
  was written, so undo holds. FMADD and its relatives are not dispatched.
* Control-register instructions and `fcsr` are not logged (`rvss_vm.cpp:752`, `183`):
  undo does not revert them, nor give consumed input back.
* With an execution limit of 0, "no limit" in COMMANDS.md, a run of the single-cycle
  machine stops after one instruction; a limit of n runs n + 1 (`LoopEnds`).

Session and threads:

* `Redo` of the pipeline writes back the pipeline registers and counters of the start
  of the cycle together with the program counter of its end (`rv5s_vm.cpp:806`), so
  it does not move forward to the next cycle as the README says (line 73). What it
  does bring back, program counter, registers and memory, is `RedoRestoresProgram`.
* `RVSSVM` declares a stop flag of its own (`rvss_vm.h:102`); `RequestStop` called
  through `VmBase` sets the other one (`vm_base.h:107`), and a run of the single-cycle
  machine goes on to its end or to its limit. On the pipelined machine a stop is
  prompt (`PipelineStopIsPrompt`).
* `RV5SVM::Reset` leaves the stall state and both stacks; an undo after RUN goes back
  into the execution before it. `ResetMachine` does the same; `edits` therefore has no
  RUN and no RESET. Run `run` shows that the leftover stall delays the new program
  and does not change what it computes. The single-cycle machine's `Reset` clears
  its stacks.
* RUN_DEBUG resets the machine, which clears the user's breakpoints, right before it
  looks for them (`main.cpp:279`, `rvss_vm.cpp:1060`; COMMANDS.md:11): only the one
  LoadProgram sets and those given while it runs count (`DebugCommand`).
* LOAD keeps stacks, program counter and `current_delta_` (`LoadCommand`).
* At the end of its input main returns with the thread joinable, which ends in
  `std::terminate`; an EXIT while the program waits for input waits for ever
  (`InputArrives` has no other way out); a STEP given while the previous one's
  thread is finishing is dropped (`main.cpp:294`, `ReadLaunch`).
* The undo stack of the pipeline grows by an entry per cycle of every run and is never
  cleared (`rv5s_vm.cpp:709`).

Memory:

* Lowering `memory_block_size` under a machine that exists makes blocks that are
  shorter than the offsets used with them (`main_memory.cpp:40`): undefined behaviour,
  one of the two causes in `UndefinedHasACause`. The other is MODIFY_MEMORY, DUMP_MEMORY
  or GET_MEM_POINT while the thread runs, which main does not guard.
* `memory_size_ - (width - 1)` wraps around when the memory is smaller than the
  access (`Admits`), and such an access throws after some of its bytes.

Assembler:

* A label named `data`, `bss` or `section` stops the loops that skip text without
  being consumed, and the first pass never ends (`parser.cpp:536`); a string or label
  `text` ends the skipping of data in the second pass (`565`). The properties exclude
  such sources by name (`SectionSpelled`).
* A label before a data directive with nothing behind it gets an aligned address
  that LoadProgram never produces (`EmptyDirective`).
* After a label the first pass compares the text of the second token ahead with the
  data directives, whatever kind of token it is (`parser.cpp:75`): in `a: word: .byte 5`
  label `a` is aligned for a word and does not name the byte. `DirectiveSpelled`
  excludes such sources from `DataReferencesReach` and `NothingIsDropped`.
* A label is redefined silently in the data section and refused in the text.
* Of forward references to data, a branch is an error and a jump takes the datum's
  offset for an address (`645`, `Resolve`).
* `.bss` is skipped (the code says TODO). `.section` is skipped as a word of its own, and
  the name behind it is then met: one other than `.text`, `.data` and `.bss`, as in
  `.section .rodata`, is an error in both passes if it is a directive
  (`parser.cpp:544`, `578`), and if it is read as a label or an opcode the first pass
  skips what follows as text. `NothingIsDropped` excludes sources with a `.section`
  without one of the three names (`BareSection`).
* `li` of 0x7FFFF800 to 0x7FFFFFFF makes a negative upper part on RV64
  (`pseudo_formats.cpp:161`). Most errors are counted twice.

## 6. Proofs

TLAPS proves the following for every value of the constants that the named
assumptions allow; `IsaAssumption`, `PredictorAssumption`, `Rv5sAssumption`,
`SessionAssumption`, `VmThreadAssumption`, `RvssSessionAssumption`, `MemoryAssumption`,
`PowerAssumption` and `AssemblerAssumption` ask for no more than that widths and sizes
are positive, programs are sequences of instruction words, every word decodes to some
instruction, data lies in memory, sources are sequences of tokens,
argument registers are registers other than x0, and powers of `ByteMod` are positive
numbers that multiply as powers do (which exponentiation gives and the provers do not
know). What a theorem asks beyond that is in its statement.

**`TypeCorrect` (`Rv5sProofs`): `Spec => []TypeOK`.** `TypeOK` is inductive. It is more
than bookkeeping: the stall counter stays 0 or 1 although the hazard unit
answers up to 2, addresses stay in the address range, tables are indexed in
range, and saturating counters and weights never leave their width. One lemma per
stage gives the type of what it writes from the type of what it reads, in the
order the stages run, so that ID may use what EX and MEM have just produced.

**`StallCorrect`: `Spec => []StallKeepsInstruction`.** The property alone is not
inductive: with the hazard unit off a counter above 0 would not be counted down
and the flag would be cleared. `StallInv` adds that a counter above 0 means the
mode detects hazards. The step splits into the three things ID can do, squash,
stall and decode; the interesting one is squash, which leaves the flag as it
was: it never happens to a set flag, because then ID/EX holds a bubble (so EX
resolves nothing) and IF/ID an instruction.

**`BtbCorrect`: `Spec /\ []SparesJumps => []BtbKnowsOnlyJumps`.** `BtbInv` adds that a jump in
IF/ID is what memory has at its address, since the entry ID writes comes from
there (`JumpFromText`), and that its address is one of the program. That the entries and
this jump stay true while stores change memory is what `SparesJumps` is for: in a run that
stores over a jump the property is false, of the model as of the code. The proof uses that training a history table leaves the buffer alone
(`UpdateBtb`) and that only the indexed entry changes (`RecordJump`).

**`RefinementCorrect` (`Rv5sRefinement`): the pipeline implements the single-cycle
machine**, `ImplementsRvss`, in all eight modes and with every predictor, under the
hypotheses of section 3, each of them always true: `[]SparesFlight`, `[]SparesJumps`,
`[]AgreedNext`, `[]AlignedFetch` and `[]KeepsApart`. The argument
follows the program from the oldest instruction in flight to the program counter.
`CodeInv` says that each latch holds what memory has at its address now: true when it was
fetched, because the fetch reads what MEM has just written, and kept while MEM stores
because its store spares what is in flight. `FlowInv` says what else is in flight: ID/EX holds the operands that the register file gives now; the address
behind each instruction is its successor, where "successor" means the predicted
one in IF/ID, the checked one in ID/EX if branches are resolved early, and the next
word otherwise. `DataInv` says what is known of the values: no instruction in ID/EX
waits for something that can no longer be forwarded (`HazardFree`), and EX/MEM
holds what `Rvss` would compute for its instruction on the architectural registers
(`ExecuteInv`). Both were checked with TLC on `mixed` and `loops` before they were
proved. A step then retires what EX/MEM holds (`RetiringStep`) or stutters
(`IdleStep`). The hypotheses speak of a run. **`DirectRefinement`** puts most of them into
the program, where they can be read off: in the modes that handle hazards, for programs
whose words decode to instructions on which the machines agree (`AgreedPrograms`) and to no
JALR, with branches and jumps by whole words (`DirectPrograms`),
`Spec /\ []SparesText => ImplementsRvss`. That the program does not store into itself stays a
hypothesis about the run, as addresses are computed.

**`ChecksCorrect`: `Spec /\ []AlignedFetch /\ []SparesJumps => []PredictionsAreChecked`**, and
**`DirectChecks`**, the same from `DirectPrograms` and `[]SparesText`: from `FlowInv` with
`BtbInv` restricted to aligned addresses (`JumpsKnown(AlignedText)`): a hit is an entry that
control flow at this very address has left, and it is still there.

**`FlagCorrect`, `ExclusionCorrect` (`VmThreadProofs`): `Spec => []RunningFlagIsTrue`,
`Spec => []MachineIsExclusive`.** Main tests a flag and acts on the machine several
steps later. `ThreadsInv` says that in all the places between the test and the
end of the command no thread is inside the machine, that the flag is true
exactly when one is, and that it is a Boolean (which the prover needs to
conclude from both). There is one lemma for the thread's actions, one for what
main does on its own, one for the commands it reads, with a step per action.

**`StopCorrect`: `Spec => []PipelineStopIsPrompt`.** `PromptInv` adds to it where main is: a
stop that reached the loop leaves main in `join`, from which nobody clears the
flag before the thread has left, and a thread that is in a cycle has begun none
since the stop, so that the cycle is the one whose test it had passed.

**`MeetsCorrect` (`Rv5sSessionProofs`): `SessionSpec => []HistoryMeetsPc`**, for sessions without
RUN and RESET, which leave the stacks of this machine (section 5). The property
speaks of the tops; `PathInv` says of both stacks that they are paths: the
nearest entry meets the program counter and each other one its neighbour, so
that taking one off leaves a top that meets the counter too.

**`UndoCorrect`, `RedoCorrect`: `SessionSpec => UndoGoesBack`, `SessionSpec => RedoRestoresProgram`**,
for every session, RUN and RESET included. `HistoryInv` says of every state
of the history, not only of the nearest, that its entry leads from it to the
next: the changes taken back give the earlier program state, made again the
later (`Leads`), and an entry that belongs to the past has the latches and
counters of its state (`Begins`). `StepLeads` is where the pipeline comes in: a cycle
logs every register and every address it changes, old value and new. The
chains need both directions, since an undo turns what it takes from the past
into a piece of the future. Nothing else about what a cycle computes is used,
so the theorems hold in all modes.

**`RepeatCorrect`: `SessionSpec => StepRepeats`**, for sessions without REDO, which leaves the
latches of another cycle (section 5), and without change of mode (`KeepsMode`). A cycle
in `NO_HAZ` is written as a function of program and visible state (`CycleOf`,
`StepIsCycle`): that there is such a function is the property's core, since stall state,
predictor and whatever else undo does not restore must have no part in it.
`RepeatInv` says that each state of past and future is the cycle of the one before it
and that the fetch is not stalled.

**`AfreshCorrect`, `DirectAfresh`: `RunStartsAfresh`**, for sessions of STEP, RUN,
STOP and RESET (`RunsOnly`), under the hypotheses of `RefinementCorrect` and of
`DirectRefinement`, always true in the session. RUN loads the program again, so that what a
run stored into it does not reach the next; RESET leaves a memory of zeros, which decode to
an instruction of no class. Whatever a RUN or
a RESET interrupts, what is in flight afterwards is what a machine starts with
(`Started`), for which `CodeInv`, `FlowInv` and `DataInv` hold; the stall flag and counter, which
`Reset` leaves, are in neither, which is why a stall that is left over does no harm.

**`TypeCorrect` (`RvssSessionProofs`): `SessionSpec => []TypeOK`.** That x0 stays 0 needs no
strengthening for what instructions write, but undo and redo write what the log says, and
the log may name x0: a float result for it is logged as it is. The proof rests on
`WriteGpr` ignoring x0 in replay as in execution (`Ignores`); the mutant `ReplayEvenX0`,
which replays into the bank directly, breaks the property in the run. `TypeInv`
strengthens `TypeOK` by the types of the entries, so that a replay writes only registers
and cells there are (`RegisterChangeSet`, `MemoryChangeSet`), and by `ProgramType`, that the
loaded program is one of those that may be loaded. One lemma per class of instruction
(`IntegerType`, `FloatType`, `CsrType`, `SyscallType`) gives the type of what it
leaves and one (`InstructionLogged`) says that its log is true: replaying it
forward from the state before gives the state after, and backward from the state
after the state before.

**`PathCorrect`: `SessionSpec => []HistoryIsAPath`.** Not inductive: a run moves the
program counter without pushing. `PathInv` adds that while a run is under way both
stacks are empty; this holds because RUN resets the machine, which clears the
stacks on this machine, and undo and redo are dropped while a thread runs.

**`TimelineCorrect`: `SessionSpec => ImplementsTimeline`.** `TimelineInv` says that the history
variables are no longer than the stacks, and that neighbouring states are
linked: replaying the entry backward from the later state gives the earlier, and
forward from the earlier the later (`Link`). A push extends the chain by
`InstructionLogged`; an undo or a redo takes a link off one chain and puts it on the
other; whatever edits the machine empties both histories. The replay lemmas
(`ReplayBankLogged`, `ReplayMemoryLogged`) say that the last change touching a place
decides, and that x0 has its one value whatever the log says of it
(`RegistersLogged`). They are stated over sequences, without recursion.

**`CounterCorrect`: `SessionSpec /\ []NotWrapped => []CounterCoversHistory`.** Undo takes one
off the instruction counter for each entry, so the counter must not be below the
length of the undo stack. `NotWrapped` excludes a counter that has come around
(`retired < CounterMod - 1`), after which the property is false. Inductive as it
stands over `TypeInv`: a run that logs nothing counts, a reset clears both.

**`MemoryProofs`.** `MemoryInv` says that as long as the block size was not lowered under
the machine no block is shorter than the machine's block size; that an access in
progress was admitted; and that when two clients are in progress they have been
recorded as meeting. From it: `TypeCorrect`; `AdmissionCorrect`
(`Spec => []AdmittedAccessesComplete`), where the check made for the first byte must
cover the last: the next byte of an admitted access no wider than memory always lies
within memory (of blocks it says nothing); `CauseCorrect` (`Spec => []UndefinedHasACause`), where an offset must lie in
a block made at another time than the index was computed; `ByteMapCorrect`
(`Spec => ImplementsByteMap`), where storing one byte must change no other (index and
offset together tell addresses apart, `PlaceIsUnique`) and making a block must
change none, because an absent block reads as zero.
`AccessesExact` (`Spec => UndisturbedAccessesAreExact`) adds `ExactInv`: an undisturbed read
has so far put together the bytes that were there when it began and are there
still, the bytes an undisturbed write has written stand, and of two accesses that
share bytes, one of them a write, neither counts as alone. The value of an access is
a sum of powers; `ByteAppended` is the arithmetic of one more byte, from `PowerAssumption`.

**`AssemblerProofs`.** `TypeInv` has three parts: `Tables`; `Places`, where each pass is in the
source, from which it follows that the list of patches is no longer than the
tokens; and `Patches`, patches in order and within the program. From it
(`AssemblerTyped`):

* `DataReferencesCorrect` (`[]DataReferencesReach`): `References` says that the two
  instructions of a reference add up to their symbol's address, `Laid` that each datum lies
  behind the last, aligned, and that a symbol names a datum already there or the next
  one, for which its directive waits (`Awaited`); `Placed` that the loader's counter
  follows the assembler's.
* `BreakpointsCorrect` (`[]BreakpointsFindTheirLine`): lines never fall along the program.
* `ReferencesCorrect` (`[]ReferencesResolve`): `Counted` says that the instructions made so
  far are those counted in the tokens read (and that the pass is in the text, or
  where nothing counts), `Labels` that a symbol has the count at its label,
  `Bindings` that every unit is bound or still to be patched.
* `NothingDropped` (`[]NothingIsDropped`): `Kept` is the same for the first pass and the data;
  with `Counted`, each pass skips only what the other reads.

The properties exclude sources by name that the code misreads (section 5); so do the
theorems. The library's induction theorem cannot be instantiated here, so the few
inductions over naturals (how far a pass skips, the line table, the section of a token)
go over a set, `T == {n \in Nat : ...}`, and its least member outside.

**Only model-checked:** liveness (`KeepsRetiring`, `StopEndsLoop`, `CommandsReturn`,
`EveryLaunchReturns`, `AssemblyEnds`), since it needs fairness and ENABLED, which the
provers do not treat. Every safety property of the passing runs has a theorem. What
recursive definitions compute for every input, such as the perceptron's output, is
beyond the prover too; no theorem needs more of it than its type. That
the hypotheses of `RefinementCorrect` hold of programs with JALR too was checked with
TLC on those of `mixed` and `loops`, where they do not lie behind a constraint; `DirectRefinement` leaves JALR out.

## 7. Not modelled, and the plan

What is left to extend, in this order:

1. **ALU and immediates**: all integer operations and W forms against a reference over
   bit sequences, division by zero and overflow included. `Isa` has those whose
   result decides control flow or differs between the machines.
2. **Mode changes in flight**: `ModifyConfig` keeps the predictor of the old mode and
   lets a prediction be judged under another mode's rules; `edits` checks the stacks
   across such changes and not what the program then computes. Which changes keep
   `FlowInv` would answer it.
3. **Misaligned jumps** under dynamic prediction, in a run that drops `AlignedFetch`.
4. **Encoding**: the code generator against the decoders of the two machines, and with it
   the instructions whose length depends on an operand: a large `li` becomes two
   instructions in the code, which `Assembler` does not have.
5. **Breakpoints**: a run that states what COMMANDS.md says of RUN_DEBUG.

In `Memory`, `memory_size` does not change and a block size of 0 is not offered (it
divides by zero). That an exception thrown in the launched thread ends the process
is not modelled: an access beyond memory ends there. In `Assembler` the two parts of a data
address (`Upper`, `Lower`) are integers without a width.

Left out for good: the outcome of a torn access to registers when a command edits
them while the thread runs (edits are atomic in the sessions); what is printed,
dumped or written to files; the command parser, a table from words to commands; the
lexer and the encoders, functions without state; the predictor factory and the
static predictor class, which nothing calls; cache and device headers, which declare
without behaving; the Python scripts; and the pages under docs/html, which Doxygen
writes from the headers, search scripts included.
