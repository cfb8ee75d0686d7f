--------------------------- MODULE VmThreadProofs ---------------------------
(***************************************************************************)
(* The command loop and the launched thread never share the machine, and   *)
(* vm_running tells the truth, for any number of commands, any length of   *)
(* programs and any limit.                                                 *)
(***************************************************************************)
EXTENDS VmThreadCorrect, TLAPS

MainTurns == {"ensure", "replace", "prepare", "load", "edit", "launch", "launch_join"}

(***************************************************************************)
(* The inductive invariant.  From the moment a command has found that      *)
(* vm_running is not set until it launches or reads the next command, no   *)
(* thread is inside the machine: only main could start one, and the flag   *)
(* it tested was the truth.                                                *)
(***************************************************************************)
ThreadsInv ==
    /\ vm_running \in BOOLEAN
    /\ RunningFlagIsTrue
    /\ main \in MainTurns => ~InFunction

\* No thread is launched before the first command.
LEMMA ThreadsInit == Init => ThreadsInv
  BY DEF Init, ThreadsInv, RunningFlagIsTrue, InFunction, MainTurns

\* The thread moves inside its function, and clears the flag as it leaves.
LEMMA ThreadStep == ASSUME ThreadsInv, ThreadNext PROVE ThreadsInv'
<1> USE DEF ThreadsInv, RunningFlagIsTrue, InFunction
<1>1. CASE ThreadStarts
  BY <1>1 DEF ThreadStarts, flags, vmVars, history
<1>2. CASE LoopTest
  BY <1>2 DEF LoopTest, flags
<1>3. CASE Cycle
  BY <1>3 DEF Cycle, Advance, flags
<1>4. CASE InputArrives
  BY <1>4 DEF InputArrives, Advance, flags
<1>5. CASE ThreadEnds
  BY <1>5 DEF ThreadEnds, MainTurns
<1>6. QED
  BY <1>1, <1>2, <1>3, <1>4, <1>5 DEF ThreadNext

\* What main does once a command is read: it starts a thread only where it
\* has seen that there is none, and joins before it clears the flag.
LEMMA MainStep == ASSUME ThreadsInv, MainNext PROVE ThreadsInv'
<1> USE DEF ThreadsInv, RunningFlagIsTrue, InFunction, MainTurns
<1>1. CASE Ensure
  BY <1>1 DEF Ensure, AfterEnsure, StopAndJoin, Joinable
<1>2. CASE Replace
  BY <1>2 DEF Replace, AfterEnsure
<1>3. CASE Prepare
  BY <1>3 DEF Prepare, flags
<1>4. CASE Launch
  BY <1>4 DEF Launch, MarkRunning
<1>5. CASE LaunchWaits
  BY <1>5 DEF LaunchWaits
<1>6. CASE Load
  BY <1>6 DEF Load, flags
<1>7. CASE Edit
  BY <1>7 DEF Edit, flags
<1>8. CASE JoinReturns
  <2>1. ~vm_running
    BY <1>8 DEF JoinReturns
  <2>2. vm_running' = FALSE \/ vm_running' = vm_running
    BY <1>8 DEF JoinReturns
  <2>3. thread' = "none"
    BY <1>8 DEF JoinReturns
  <2>4. ~vm_running'
    BY <2>1, <2>2, Zenon
  <2>5. vm_running' \in BOOLEAN
    BY <2>2, Zenon
  <2>6. QED
    BY <2>3, <2>4, <2>5
<1>9. QED
  BY <1>1, <1>2, <1>3, <1>4, <1>5, <1>6, <1>7, <1>8 DEF MainNext

\* Reading a command leaves the thread and the flag alone; a command that
\* will touch the machine goes on only when the flag is not set, or when
\* there is no thread to join.
LEMMA UserStep == ASSUME ThreadsInv, UserNext PROVE ThreadsInv'
<1> USE DEF ThreadsInv, RunningFlagIsTrue, InFunction, MainTurns
<1>1. ASSUME NEW command, ReadLaunch(command) PROVE ThreadsInv'
  BY <1>1 DEF ReadLaunch, Read, flags
<1>2. CASE ReadStop
  BY <1>2 DEF ReadStop, StopAndJoin, Joinable, Read
<1>3. CASE ReadLoad
  BY <1>3 DEF ReadLoad, StopAndJoin, Joinable, Read
<1>4. CASE ReadExit
  BY <1>4 DEF ReadExit, StopAndJoin, Joinable, Read
<1>5. CASE ReadEdit
  BY <1>5 DEF ReadEdit, Read, flags
<1>6. CASE ReadMode
  BY <1>6 DEF ReadMode, Read, flags
<1>7. CASE ReadStdin
  BY <1>7 DEF ReadStdin, Read, flags
<1>8. CASE ReadEof
  BY <1>8 DEF ReadEof, flags
<1>9. QED
  BY <1>1, <1>2, <1>3, <1>4, <1>5, <1>6, <1>7, <1>8 DEF UserNext

\* Every step of the simulator preserves the invariant.
LEMMA ThreadsNext == ThreadsInv /\ [Next]_vars => ThreadsInv'
<1> SUFFICES ASSUME ThreadsInv, [Next]_vars PROVE ThreadsInv'
  OBVIOUS
<1>1. CASE UNCHANGED vars
  BY <1>1 DEF ThreadsInv, RunningFlagIsTrue, InFunction, vars, flags
<1>2. CASE Exited
  BY <1>2 DEF Exited, ThreadsInv, RunningFlagIsTrue, InFunction, vars, flags
<1>3. QED
  BY <1>1, <1>2, ThreadStep, MainStep, UserStep DEF Next

\* The invariant holds in every reachable state.
LEMMA ThreadsCorrect == Spec => []ThreadsInv
  BY ThreadsInit, ThreadsNext, PTL DEF Spec

\* vm_running, which both threads write and every command tests, is set
\* exactly while the launched thread is inside its function.
THEOREM FlagCorrect == Spec => []RunningFlagIsTrue
<1>1. ThreadsInv => RunningFlagIsTrue
  BY DEF ThreadsInv
<1>2. QED
  BY <1>1, ThreadsCorrect, PTL

\* While main resets, reloads, replaces, edits or launches the machine, no
\* thread is inside it.
THEOREM ExclusionCorrect == Spec => []MachineIsExclusive
<1>1. ThreadsInv => MachineIsExclusive
  BY DEF ThreadsInv, MachineIsExclusive, MainTurns
<1>2. QED
  BY <1>1, ThreadsCorrect, PTL

-----------------------------------------------------------------------------
(***************************************************************************)
(* A stop on the pipelined machine.  Once it has found the loop, main stays*)
(* in join, so that nobody clears the flag the loop tests; the one cycle   *)
(* whose test came before the stop is the only one to come.                *)
(***************************************************************************)
Joins == {"stop_join", "load_join", "switch_join", "exit_join"}

PromptInv ==
    /\ stopping \in BOOLEAN /\ stop_requested \in BOOLEAN
    /\ ~stopping => late_cycles = 0
    /\ stopping => main \in Joins /\ task = "run" /\ thread # "start" /\ thread # "none"
    /\ stopping /\ core = "rv5s" =>
         stop_requested = TRUE /\ thread # "wait" /\ late_cycles \in {0, 1}
    /\ stopping /\ core = "rv5s" /\ thread = "cycle" => late_cycles = 0

\* The loop of a stopped run ends at its next test.
LEMMA PromptThread == ASSUME PromptInv, ThreadNext PROVE PromptInv'
<1>1. CASE ThreadStarts
  <2>1. ~stopping
    BY <1>1 DEF ThreadStarts, PromptInv
  <2>2. stop_requested' \in BOOLEAN
    BY <1>1 DEF ThreadStarts, PromptInv
  <2>3. UNCHANGED <<stopping, late_cycles>>
    BY <1>1 DEF ThreadStarts, history
  <2> QED BY <2>1, <2>2, <2>3 DEF PromptInv
<1>2. CASE LoopTest
  BY <1>2 DEF LoopTest, flags, vmVars, progress, history, LoopEnds, StopSeen, PromptInv
<1>3. ASSUME UNCHANGED <<main, task, stop_requested, core>>, Advance,
             thread = "cycle" \/ thread = "wait"
      PROVE PromptInv'
  <2>1. CASE stopping
    BY <1>3, <2>1 DEF Advance, PromptInv
  <2>2. CASE ~stopping
    BY <1>3, <2>2 DEF Advance, PromptInv
  <2> QED BY <2>1, <2>2
<1>4. CASE Cycle
  <2>1. CASE AsksInput
    BY <1>4, <2>1 DEF Cycle, AsksInput, flags, vmVars, progress, history, PromptInv
  <2>2. CASE ~AsksInput
    BY <1>3, <1>4, <2>2 DEF Cycle, flags, vmVars
  <2> QED BY <2>1, <2>2
<1>5. CASE InputArrives
  BY <1>3, <1>5 DEF InputArrives, flags, vmVars
<1>6. CASE ThreadEnds
  BY <1>6 DEF ThreadEnds, vmVars, progress, history, PromptInv
<1> QED BY <1>1, <1>2, <1>4, <1>5, <1>6 DEF ThreadNext

\* A stop that finds the loop takes main to a join.
LEMMA PromptStop ==
    ASSUME PromptInv, NEW joining \in Joins, NEW otherwise, StopAndJoin(joining, otherwise),
           stop_requested' \in BOOLEAN, Joinable => stop_requested' = TRUE,
           UNCHANGED <<task, thread, core>>
    PROVE PromptInv'
<1>1. CASE InLoop
  BY <1>1 DEF InLoop, Joinable, StopAndJoin, PromptInv
<1>2. CASE ~InLoop
  BY <1>2 DEF InLoop, StopAndJoin, PromptInv
<1> QED BY <1>1, <1>2

\* What main does elsewhere than in a join comes when no stop is under way.
LEMMA PromptElsewhere ==
    ASSUME PromptInv, main \notin Joins, UNCHANGED <<stopping, late_cycles>>,
           stop_requested' \in BOOLEAN
    PROVE PromptInv'
  BY DEF PromptInv

LEMMA PromptMain == ASSUME PromptInv, MainNext PROVE PromptInv'
<1>1. CASE Ensure
  <2>1. CASE core = wanted
    BY <1>1, <2>1, PromptElsewhere DEF Ensure, history, Joins, PromptInv
  <2>2. CASE core # wanted
    <3>1. StopAndJoin("switch_join", "replace") /\ UNCHANGED <<task, thread, core>>
      BY <1>1, <2>2 DEF Ensure, vmVars
    <3>2. stop_requested' = (stop_requested \/ Joinable)
      BY <1>1, <2>2 DEF Ensure
    <3>3. stop_requested' \in BOOLEAN /\ (Joinable => stop_requested' = TRUE)
      BY <3>2, Zenon
    <3>4. "switch_join" \in Joins
      BY DEF Joins
    <3> QED BY <3>1, <3>3, <3>4, PromptStop
  <2> QED BY <2>1, <2>2
<1>2. CASE Replace
  BY <1>2, PromptElsewhere DEF Replace, history, Joins
<1>3. CASE Prepare
  BY <1>3, PromptElsewhere DEF Prepare, flags, history, Joins, PromptInv
<1>4. CASE Launch
  BY <1>4, PromptElsewhere DEF Launch, progress, history, Joins
<1>5. CASE LaunchWaits
  BY <1>5, PromptElsewhere DEF LaunchWaits, progress, history, Joins
<1>6. CASE Load
  BY <1>6, PromptElsewhere DEF Load, flags, progress, history, Joins, PromptInv
<1>7. CASE Edit
  BY <1>7, PromptElsewhere DEF Edit, flags, history, Joins, PromptInv
<1>8. CASE JoinReturns
  BY <1>8 DEF JoinReturns, PromptInv
<1> QED BY <1>1, <1>2, <1>3, <1>4, <1>5, <1>6, <1>7, <1>8 DEF MainNext

LEMMA PromptUser == ASSUME PromptInv, UserNext PROVE PromptInv'
<1>1. ASSUME NEW command, ReadLaunch(command) PROVE PromptInv'
  BY <1>1, PromptElsewhere DEF ReadLaunch, Read, flags, progress, history, Joins, PromptInv
<1>2. CASE ReadStop
  BY <1>2, PromptStop DEF ReadStop, vmVars, Joins
<1>3. CASE ReadLoad
  <2>1. StopAndJoin("load_join", "load") /\ UNCHANGED <<task, thread, core>>
    BY <1>3 DEF ReadLoad, vmVars
  <2>2. stop_requested' = (stop_requested \/ Joinable)
    BY <1>3 DEF ReadLoad
  <2>3. stop_requested' \in BOOLEAN /\ (Joinable => stop_requested' = TRUE)
    BY <2>2, Zenon
  <2>4. "load_join" \in Joins
    BY DEF Joins
  <2> QED BY <2>1, <2>3, <2>4, PromptStop
<1>4. CASE ReadExit
  BY <1>4, PromptStop DEF ReadExit, vmVars, Joins
<1>5. CASE ReadEdit
  BY <1>5, PromptElsewhere DEF ReadEdit, Read, flags, progress, history, Joins, PromptInv
<1>6. CASE ReadMode
  BY <1>6, PromptElsewhere DEF ReadMode, Read, flags, progress, history, Joins, PromptInv
<1>7. CASE ReadStdin
  BY <1>7, PromptElsewhere DEF ReadStdin, Read, flags, progress, history, Joins, PromptInv
<1>8. CASE ReadEof
  BY <1>8, PromptElsewhere DEF ReadEof, flags, progress, history, Joins, PromptInv
<1> QED BY <1>1, <1>2, <1>3, <1>4, <1>5, <1>6, <1>7, <1>8 DEF UserNext

\* At most one cycle of the pipelined machine begins after a stop that found
\* its loop running, however the two threads interleave.
THEOREM StopCorrect == Spec => []PipelineStopIsPrompt
<1>1. Init => PromptInv
  BY DEF Init, PromptInv
<1>2. PromptInv /\ [Next]_vars => PromptInv'
  <2> SUFFICES ASSUME PromptInv, [Next]_vars PROVE PromptInv'
    OBVIOUS
  <2>1. CASE UNCHANGED vars \/ Exited
    BY <2>1 DEF Exited, vars, flags, vmVars, progress, history, PromptInv
  <2> QED BY <2>1, PromptThread, PromptMain, PromptUser DEF Next
<1>3. PromptInv => PipelineStopIsPrompt
  BY DEF PromptInv, PipelineStopIsPrompt, StopIsPrompt
<1> QED BY <1>1, <1>2, <1>3, PTL DEF Spec
=============================================================================
