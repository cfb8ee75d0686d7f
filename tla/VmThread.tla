------------------------------ MODULE VmThread ------------------------------
(***************************************************************************)
(* The two threads of the simulator: the command loop of main(), and the   *)
(* thread it launches for each run or step.  They share the machine, the   *)
(* stop flags, vm_running and the input queue; main waits for the thread   *)
(* only in join().  The machine is reduced to what matters to the threads: *)
(* how far its program is.                                                 *)
(***************************************************************************)
EXTENDS Naturals

CONSTANTS
    Commands,      \* the commands the user may give
    MaxCommands,   \* how many he gives before the end of the input
    Cores,         \* the machines he may ask for: "rvss", "rv5s"
    Programs,      \* the programs loaded: "halts", "loops", "reads"
    Length,        \* instructions of a program
    Limit          \* instruction_execution_limit

VARIABLES
    main,            \* where the command loop is
    task,            \* what it is about to launch, or has launched
    thread,          \* where the launched thread is; "none": not joinable
    vm_running,
    core, wanted,    \* the machine there is, the one the configuration asks for
    stop_requested,  \* VmBase::stop_requested_
    rvss_stop,       \* RVSSVM::stop_requested_
    program, position, executed,
    input_queue,     \* how many inputs wait in it
    commands_left,
    late_cycles,     \* history: cycles run since a stop found the loop running
    stopping         \* history: such a stop has been requested

vmVars == <<core, wanted, program>>
history == <<late_cycles, stopping>>
progress == <<position, executed, history>>
flags == <<vm_running, stop_requested, rvss_stop>>
vars == <<main, task, thread, flags, vmVars, progress, input_queue, commands_left>>

-----------------------------------------------------------------------------
Joinable == thread # "none"
\* The thread is inside the function it was launched for, the loop in Run.
InFunction == thread \in {"start", "check", "cycle", "wait", "leaving"}
InLoop == task = "run" /\ thread \in {"check", "cycle"}

\* Mutant: the loop of the pipelined machine tests a flag of its own too.
StopSeenOwnFlag == rvss_stop

\* What the loop of Run tests: each machine its own flag.
StopSeen == IF core = "rvss" THEN rvss_stop ELSE stop_requested

ProgramOver == position >= Length

-----------------------------------------------------------------------------
(***************************************************************************)
(* The launched thread, as long as the process is there.  Run begins by    *)
(* clearing the stop flag it tests; Step executes one instruction and      *)
(* returns.                                                                *)
(***************************************************************************)
ThreadStarts ==
    /\ main # "exited" /\ thread = "start"
    /\ IF task = "run"
       THEN /\ thread' = "check"
            /\ IF core = "rvss" THEN rvss_stop' = FALSE /\ UNCHANGED stop_requested
                                ELSE stop_requested' = FALSE /\ UNCHANGED rvss_stop
       ELSE thread' = "cycle" /\ UNCHANGED <<stop_requested, rvss_stop>>
    /\ executed' = 0
    /\ UNCHANGED <<main, task, vm_running, vmVars, position, history,
                   input_queue, commands_left>>

\* Only the single-cycle machine counts the instructions of a run.
OverLimit == core = "rvss" /\ executed > Limit

\* Mutant: the end of the program is not looked for.
LoopEndsOnStop == StopSeen \/ OverLimit
LoopEnds == StopSeen \/ ProgramOver \/ OverLimit

LoopTest ==
    /\ main # "exited" /\ thread = "check"
    /\ thread' = IF LoopEnds THEN "leaving" ELSE "cycle"
    /\ UNCHANGED <<main, task, flags, vmVars, progress, input_queue, commands_left>>

\* "reads" asks for input with its first instruction.
AsksInput == core = "rvss" /\ program = "reads" /\ position = 0

Advance ==
    /\ position' = IF ProgramOver THEN position
                   ELSE IF program = "loops" THEN (position + 1) % Length
                   ELSE position + 1
    /\ executed' = IF executed > Limit THEN executed ELSE executed + 1
    /\ late_cycles' = IF stopping /\ late_cycles < 2 THEN late_cycles + 1 ELSE late_cycles
    /\ UNCHANGED stopping
    /\ thread' = IF task = "run" THEN "check" ELSE "leaving"

Cycle ==
    /\ main # "exited" /\ thread = "cycle"
    /\ IF AsksInput
       THEN thread' = "wait" /\ UNCHANGED progress
       ELSE Advance
    /\ UNCHANGED <<main, task, flags, vmVars, input_queue, commands_left>>

\* input_cv_.wait returns when the queue holds something.
InputArrives ==
    /\ main # "exited" /\ thread = "wait" /\ input_queue > 0
    /\ input_queue' = input_queue - 1
    /\ Advance
    /\ UNCHANGED <<main, task, flags, vmVars, commands_left>>

ThreadEnds ==
    /\ main # "exited" /\ thread = "leaving"
    /\ vm_running' = FALSE
    /\ thread' = "ended"
    /\ UNCHANGED <<main, task, stop_requested, rvss_stop, vmVars, progress,
                   input_queue, commands_left>>

ThreadNext == ThreadStarts \/ LoopTest \/ Cycle \/ InputArrives \/ ThreadEnds

-----------------------------------------------------------------------------
(***************************************************************************)
(* The command loop, from the line it reads to the next getline.           *)
(***************************************************************************)
Read(command) ==
    /\ main = "getline"
    /\ command \in Commands /\ commands_left > 0
    /\ commands_left' = commands_left - 1

\* RUN and STEP are dropped while vm_running is set.
ReadLaunch(command) ==
    /\ Read(command)
    /\ IF vm_running THEN UNCHANGED <<main, task>>
                     ELSE main' = "ensure" /\ task' = command
    /\ UNCHANGED <<thread, flags, vmVars, progress, input_queue>>

\* Mutant: main goes on without joining.
StopWithoutJoin(joining, otherwise) ==
    /\ late_cycles' = 0
    /\ stopping' = InLoop
    /\ main' = otherwise

\* RequestStop, in VmBase, and join() where there is a thread to join.
StopAndJoin(joining, otherwise) ==
    /\ late_cycles' = 0
    /\ stopping' = InLoop
    /\ IF Joinable THEN main' = joining ELSE main' = otherwise

ReadStop ==
    /\ Read("stop")
    /\ stop_requested' = TRUE
    /\ StopAndJoin("stop_join", "getline")
    /\ UNCHANGED <<task, thread, vm_running, rvss_stop, vmVars, position, executed,
                   input_queue>>

ReadLoad ==
    /\ Read("load")
    /\ stop_requested' = (stop_requested \/ Joinable)
    /\ StopAndJoin("load_join", "load")
    /\ UNCHANGED <<task, thread, vm_running, rvss_stop, vmVars, position, executed,
                   input_queue>>

ReadExit ==
    /\ Read("exit")
    /\ stop_requested' = TRUE
    /\ StopAndJoin("exit_join", "exited")
    /\ UNCHANGED <<task, thread, vm_running, rvss_stop, vmVars, position, executed,
                   input_queue>>

\* UNDO, REDO and RESET work on the machine unless vm_running is set.
ReadEdit ==
    /\ Read("edit")
    /\ main' = IF vm_running THEN "getline" ELSE "edit"
    /\ UNCHANGED <<task, thread, flags, vmVars, progress, input_queue>>

\* A new pipeline mode; the machine is replaced at once when its full key
\* was used and nothing runs, otherwise at the next RUN or STEP.
ReadMode ==
    /\ Read("mode")
    /\ wanted' \in Cores
    /\ \/ UNCHANGED <<main, task>>
       \/ ~vm_running /\ main' = "ensure" /\ task' = "none"
    /\ UNCHANGED <<thread, flags, core, program, progress, input_queue>>

ReadStdin ==
    /\ Read("vm_stdin")
    /\ input_queue' = input_queue + 1
    /\ UNCHANGED <<main, task, thread, flags, vmVars, progress>>

ReadEof ==
    /\ main = "getline"
    /\ main' = "exited"
    /\ UNCHANGED <<task, thread, flags, vmVars, progress, input_queue, commands_left>>

\* ensureVmMatchesMode: a machine of the other kind takes the place of the
\* one there is, whose thread is stopped and joined before.
AfterEnsure == IF task = "none" THEN "getline" ELSE "prepare"

Ensure ==
    /\ main = "ensure"
    /\ IF core = wanted
       THEN main' = AfterEnsure /\ UNCHANGED <<stop_requested, history>>
       ELSE StopAndJoin("switch_join", "replace") /\ stop_requested' = (stop_requested \/ Joinable)
    /\ UNCHANGED <<task, thread, vm_running, rvss_stop, vmVars, position, executed,
                   input_queue, commands_left>>

Replace ==
    /\ main = "replace"
    /\ core' = wanted
    /\ stop_requested' = FALSE /\ rvss_stop' = FALSE
    /\ position' = 0 /\ executed' = 0
    /\ input_queue' = 0
    /\ main' = AfterEnsure
    /\ UNCHANGED <<task, thread, vm_running, wanted, program, history, commands_left>>

\* Reset and LoadProgram before a run.
Prepare ==
    /\ main = "prepare"
    /\ position' = IF task = "run" THEN 0 ELSE position
    /\ main' = "launch"
    /\ UNCHANGED <<task, thread, flags, vmVars, executed, history,
                   input_queue, commands_left>>

\* Mutant: vm_running is left to the thread.
MarkNothing == UNCHANGED vm_running
MarkRunning == vm_running' = TRUE

\* launch_vm_thread.
Launch ==
    /\ \/ main = "launch" /\ ~Joinable
       \/ main = "launch_join" /\ thread = "ended"
    /\ MarkRunning
    /\ stop_requested' = FALSE
    /\ thread' = "start"
    /\ main' = "getline"
    /\ UNCHANGED <<task, rvss_stop, vmVars, progress, input_queue, commands_left>>

LaunchWaits ==
    /\ main = "launch" /\ Joinable
    /\ stop_requested' = TRUE
    /\ main' = "launch_join"
    /\ UNCHANGED <<task, thread, vm_running, rvss_stop, vmVars, progress, input_queue, commands_left>>

Load ==
    /\ main = "load"
    /\ program' \in Programs
    /\ main' = "getline"
    /\ UNCHANGED <<task, thread, flags, core, wanted, progress, input_queue, commands_left>>

Edit ==
    /\ main = "edit"
    /\ position' \in 0 .. Length
    /\ main' = "getline"
    /\ UNCHANGED <<task, thread, flags, vmVars, executed, history,
                   input_queue, commands_left>>

\* join() returns when the thread has ended; EXIT leaves vm_running alone.
JoinReturns ==
    /\ thread = "ended"
    /\ \/ main = "stop_join" /\ main' = "getline" /\ vm_running' = FALSE
       \/ main = "load_join" /\ main' = "load" /\ vm_running' = FALSE
       \/ main = "switch_join" /\ main' = "replace" /\ vm_running' = FALSE
       \/ main = "exit_join" /\ main' = "exited" /\ UNCHANGED vm_running
    /\ thread' = "none"
    /\ late_cycles' = 0 /\ stopping' = FALSE
    /\ UNCHANGED <<task, stop_requested, rvss_stop, vmVars, position, executed,
                   input_queue, commands_left>>

\* What main does on its own, and what it does when the user says so.
MainNext == Ensure \/ Replace \/ Prepare \/ Launch \/ LaunchWaits \/ Load \/ Edit \/ JoinReturns
UserNext ==
    \/ ReadLaunch("run") \/ ReadLaunch("step") \/ ReadStop \/ ReadLoad \/ ReadExit
    \/ ReadEdit \/ ReadMode \/ ReadStdin \/ ReadEof

\* The process is over when main returns.
Exited == main = "exited" /\ UNCHANGED vars

Init ==
    /\ main = "getline" /\ task = "none" /\ thread = "none"
    /\ vm_running = FALSE /\ stop_requested = FALSE /\ rvss_stop = FALSE
    /\ core \in Cores /\ wanted = core
    /\ program \in Programs
    /\ position = 0 /\ executed = 0 /\ late_cycles = 0 /\ stopping = FALSE
    /\ input_queue = 0
    /\ commands_left = MaxCommands

Next == ThreadNext \/ MainNext \/ UserNext \/ Exited

Spec == Init /\ [][Next]_vars

\* Both threads are scheduled; nobody has to type anything.
FairSpec == Spec /\ WF_vars(ThreadNext) /\ WF_vars(MainNext)

ASSUME VmThreadAssumption ==
    /\ Cores \subseteq {"rvss", "rv5s"} /\ Programs \subseteq {"halts", "loops", "reads"}
    /\ Length \in Nat \ {0} /\ Limit \in Nat /\ MaxCommands \in Nat
=============================================================================
