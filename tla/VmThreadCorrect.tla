--------------------------- MODULE VmThreadCorrect ---------------------------
(***************************************************************************)
(* What the command loop and the threads it launches owe each other.       *)
(***************************************************************************)
EXTENDS VmThread

(***************************************************************************)
(* The machine is never worked on from two threads: while main resets,     *)
(* reloads, replaces, undoes or redoes, no thread is inside the machine.   *)
(* (A thread left in a machine that is replaced would use freed memory.)   *)
(***************************************************************************)
MachineIsExclusive ==
    main \in {"replace", "prepare", "load", "edit", "launch"} => ~InFunction

(***************************************************************************)
(* vm_running, which commands test instead of the thread, says that the    *)
(* thread has not finished; it is written by both threads.                 *)
(***************************************************************************)
RunningFlagIsTrue == vm_running <=> InFunction

(***************************************************************************)
(* A command gets its answer: with a program that ends, main always comes  *)
(* back to read the next one, whatever it has to wait for.                 *)
(***************************************************************************)
CommandsReturn ==
    [](program = "halts") => ((main # "getline") ~> (main \in {"getline", "exited"}))

(***************************************************************************)
(* A stop, a load or an exit that finds the loop of the pipelined machine  *)
(* running ends it, even in a program that never ends.                     *)
(***************************************************************************)
StopEndsLoop == (stopping /\ core = "rv5s") ~> ~stopping

(***************************************************************************)
(* The loop begins at most one cycle after a stop was requested, the one   *)
(* whose test it had already passed: on every machine, as VmBase says of   *)
(* its stop control, and on the pipelined one, which tests VmBase's flag.  *)
(***************************************************************************)
StopIsPrompt == late_cycles <= 1
PipelineStopIsPrompt == core = "rv5s" => StopIsPrompt

(***************************************************************************)
(* EXIT waits for the thread and the process ends.                         *)
(***************************************************************************)
ExitEnds == (main = "exit_join") ~> (main = "exited")
=============================================================================
