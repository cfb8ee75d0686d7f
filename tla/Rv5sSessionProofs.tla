-------------------------- MODULE Rv5sSessionProofs --------------------------
(***************************************************************************)
(* Undo and redo of the pipelined machine, for every program, mode, word   *)
(* width, predictor and sequence of commands.  Nothing is assumed of what  *)
(* a cycle computes: only of what it logs.                                 *)
(***************************************************************************)
EXTENDS Rv5sSession, Rv5sRefinement, SequenceTheorems

-----------------------------------------------------------------------------
(***************************************************************************)
(* The stacks are sequences of something.                                  *)
(***************************************************************************)
IsSeq(s) == \E S : s \in Seq(S)

LEMMA Empty == IsSeq(<<>>) /\ Len(<<>>) = 0
<1>1. <<>> \in Seq({0}) /\ Len(<<>>) = 0
  BY EmptySeq
<1> QED BY <1>1 DEF IsSeq

LEMMA Grown ==
    ASSUME NEW s, IsSeq(s), NEW e
    PROVE /\ IsSeq(<<e>> \o s) /\ (<<e>> \o s)[1] = e
          /\ Len(s) \in Nat /\ Len(<<e>> \o s) = Len(s) + 1
          /\ \A n \in 1 .. Len(s) : (<<e>> \o s)[n + 1] = s[n]
<1>1. PICK S : s \in Seq(S)
  BY DEF IsSeq
<1> DEFINE T == S \cup {e}
<1>2. s \in Seq(T) /\ e \in T
  BY <1>1, SeqMonotonic
<1> HIDE DEF T
<1>3. /\ <<e>> \o s \in Seq(T) /\ (<<e>> \o s)[1] = e
      /\ Len(s) \in Nat /\ Len(<<e>> \o s) = Len(s) + 1
      /\ \A n \in 1 .. Len(s) : (<<e>> \o s)[n + 1] = s[n]
  BY <1>2
<1> QED BY <1>3 DEF IsSeq

LEMMA Shrunk ==
    ASSUME NEW s, IsSeq(s), s # <<>>
    PROVE /\ IsSeq(Tail(s)) /\ Head(s) = s[1]
          /\ Len(s) \in Nat /\ Len(s) >= 1 /\ Len(Tail(s)) = Len(s) - 1
          /\ \A n \in 1 .. Len(Tail(s)) : Tail(s)[n] = s[n + 1]
<1>1. PICK S : s \in Seq(S)
  BY DEF IsSeq
<1>2. /\ Tail(s) \in Seq(S) /\ Head(s) = s[1]
      /\ Len(s) \in Nat /\ Len(s) >= 1 /\ Len(Tail(s)) = Len(s) - 1
      /\ \A n \in 1 .. Len(Tail(s)) : Tail(s)[n] = s[n + 1]
  BY <1>1
<1> QED BY <1>2 DEF IsSeq

\* What is out of reach of the undos to come is cut from the far end.
LEMMA CutShort ==
    ASSUME NEW s, IsSeq(s), NEW m \in Nat
    PROVE /\ IsSeq(Reachable(s, m)) /\ Len(s) \in Nat
          /\ Len(Reachable(s, m)) = IF Len(s) < m THEN Len(s) ELSE m
          /\ \A n \in 1 .. Len(Reachable(s, m)) : Reachable(s, m)[n] = s[n]
<1>1. PICK S : s \in Seq(S)
  BY DEF IsSeq
<1> DEFINE last == IF Len(s) < m THEN Len(s) ELSE m
<1>2. Len(s) \in Nat /\ last \in Nat /\ last <= Len(s)
  BY <1>1
<1>3. \A n \in 1 .. last : s[n] \in S
  BY <1>1, <1>2
<1> HIDE DEF last
<1>4. /\ SubSeq(s, 1, last) \in Seq(S)
      /\ Len(SubSeq(s, 1, last)) = last
      /\ \A n \in 1 .. last : SubSeq(s, 1, last)[n] = s[n]
  <2>1. /\ SubSeq(s, 1, last) \in Seq(S)
        /\ Len(SubSeq(s, 1, last)) = IF 1 <= last THEN last - 1 + 1 ELSE 0
        /\ \A n \in 1 .. last - 1 + 1 : SubSeq(s, 1, last)[n] = s[1 + n - 1]
    BY <1>2, <1>3, SubSeqProperties
  <2>2. last - 1 + 1 = last /\ \A n \in 1 .. last : 1 + n - 1 = n
    BY <1>2
  <2> QED BY <1>2, <2>1, <2>2
<1>5. Reachable(s, m) = SubSeq(s, 1, last)
  BY DEF Reachable, last
<1> QED BY <1>2, <1>4, <1>5 DEF IsSeq, last

-----------------------------------------------------------------------------
(***************************************************************************)
(* A stack of the log is a path: the nearest entry meets the program       *)
(* counter (here) with its near end, each other one the far end of the     *)
(* entry before it.  Undo goes from new_pc to old_pc, redo back.           *)
(***************************************************************************)
Path(stack, near, far, here) ==
    \A n \in 1 .. Len(stack) : stack[n][near] = IF n = 1 THEN here ELSE stack[n - 1][far]

LEMMA PathGrows ==
    ASSUME NEW stack, IsSeq(stack), NEW near, NEW far, NEW here, NEW there,
           Path(stack, near, far, here), NEW e, e[far] = here, e[near] = there
    PROVE IsSeq(<<e>> \o stack) /\ Path(<<e>> \o stack, near, far, there)
<1> DEFINE grown == <<e>> \o stack
<1>1. /\ IsSeq(grown) /\ grown[1] = e
      /\ Len(stack) \in Nat /\ Len(grown) = Len(stack) + 1
      /\ \A n \in 1 .. Len(stack) : grown[n + 1] = stack[n]
  BY Grown
<1> HIDE DEF grown
<1>2. ASSUME NEW n \in 1 .. Len(grown)
      PROVE grown[n][near] = IF n = 1 THEN there ELSE grown[n - 1][far]
  <2>1. CASE n = 1
    BY <1>1, <2>1
  <2>2. CASE n # 1
    <3>1. PICK m \in 1 .. Len(stack) : n = m + 1
      <4>1. n - 1 \in 1 .. Len(stack) /\ n = (n - 1) + 1
        BY <1>1, <2>2
      <4> QED BY <4>1
    <3>2. grown[n] = stack[m] /\ n - 1 = m
      BY <1>1, <3>1
    <3>3. stack[m][near] = IF m = 1 THEN here ELSE stack[m - 1][far]
      BY DEF Path
    <3>4. CASE m = 1
      BY <1>1, <2>2, <3>2, <3>3, <3>4
    <3>5. CASE m # 1
      <4>1. m - 1 \in 1 .. Len(stack) /\ (m - 1) + 1 = m
        BY <1>1, <3>5
      <4>2. grown[(m - 1) + 1] = stack[m - 1]
        BY <1>1, <4>1
      <4> QED BY <2>2, <3>2, <3>3, <3>5, <4>1, <4>2
    <3> QED BY <3>4, <3>5
  <2> QED BY <2>1, <2>2
<1> QED BY <1>1, <1>2 DEF Path, grown

LEMMA PathShrinks ==
    ASSUME NEW stack, IsSeq(stack), stack # <<>>, NEW near, NEW far, NEW here,
           Path(stack, near, far, here)
    PROVE /\ Head(stack)[near] = here
          /\ IsSeq(Tail(stack)) /\ Path(Tail(stack), near, far, Head(stack)[far])
<1> DEFINE left == Tail(stack)
<1>1. /\ IsSeq(left) /\ Head(stack) = stack[1]
      /\ Len(stack) \in Nat /\ Len(stack) >= 1 /\ Len(left) = Len(stack) - 1
      /\ \A n \in 1 .. Len(left) : left[n] = stack[n + 1]
  BY Shrunk
<1> HIDE DEF left
<1>2. Head(stack)[near] = here
  <2>1. 1 \in 1 .. Len(stack)
    BY <1>1
  <2> QED BY <1>1, <2>1 DEF Path
<1>3. ASSUME NEW n \in 1 .. Len(left)
      PROVE left[n][near] = IF n = 1 THEN Head(stack)[far] ELSE left[n - 1][far]
  <2>1. n + 1 \in 1 .. Len(stack) /\ n + 1 # 1 /\ (n + 1) - 1 = n
    BY <1>1
  <2>2. stack[n + 1][near] = stack[n][far]
    BY <2>1 DEF Path
  <2>3. CASE n = 1
    BY <1>1, <2>2, <2>3
  <2>4. CASE n # 1
    <3>1. n - 1 \in 1 .. Len(left) /\ (n - 1) + 1 = n
      BY <1>1, <2>4
    <3>2. left[n - 1] = stack[n]
      BY <1>1, <3>1
    <3> QED BY <1>1, <2>2, <2>4, <3>2
  <2> QED BY <2>3, <2>4
<1> QED BY <1>1, <1>2, <1>3 DEF Path, left

LEMMA PathCut ==
    ASSUME NEW stack, IsSeq(stack), NEW m \in Nat, NEW near, NEW far, NEW here,
           Path(stack, near, far, here)
    PROVE IsSeq(Reachable(stack, m)) /\ Path(Reachable(stack, m), near, far, here)
<1> DEFINE cut == Reachable(stack, m)
<1>1. /\ IsSeq(cut) /\ Len(stack) \in Nat
      /\ Len(cut) = IF Len(stack) < m THEN Len(stack) ELSE m
      /\ \A n \in 1 .. Len(cut) : cut[n] = stack[n]
  BY CutShort
<1> HIDE DEF cut
<1>2. ASSUME NEW n \in 1 .. Len(cut)
      PROVE cut[n][near] = IF n = 1 THEN here ELSE cut[n - 1][far]
  <2>1. n \in 1 .. Len(stack)
    BY <1>1
  <2>2. stack[n][near] = IF n = 1 THEN here ELSE stack[n - 1][far]
    BY <2>1 DEF Path
  <2>3. n # 1 => n - 1 \in 1 .. Len(cut)
    BY <1>1
  <2> QED BY <1>1, <2>2, <2>3
<1> QED BY <1>1, <1>2 DEF Path, cut

(***************************************************************************)
(* Without RUN and RESET, which go back to address 0 and leave the stacks, *)
(* both stacks are paths that begin where the machine is.                  *)
(***************************************************************************)
NeverReset == {"run", "reset"} \cap Commands = {}

PathInv ==
    /\ running = FALSE
    /\ undos_left \in Nat
    /\ IsSeq(undo_stack) /\ Path(undo_stack, "new_pc", "old_pc", pc)
    /\ IsSeq(redo_stack) /\ Path(redo_stack, "old_pc", "new_pc", pc)

LEMMA NoPath == ASSUME NEW near, NEW far, NEW here PROVE Path(<<>>, near, far, here)
  BY Empty DEF Path

LEMMA StepPath == ASSUME PathInv, LoggedStep, UNCHANGED running PROVE PathInv'
<1>1. Delta.old_pc = pc /\ Delta.new_pc = pc'
  BY DEF Delta
<1> DEFINE e == Delta
<1>2. e["old_pc"] = pc /\ e["new_pc"] = pc'
  BY <1>1
<1>3. /\ undo_stack' = Reachable(<<e>> \o undo_stack, undos_left)
      /\ redo_stack' = <<>> /\ undos_left' = undos_left
  BY DEF LoggedStep
<1> HIDE DEF e
<1>4. IsSeq(<<e>> \o undo_stack) /\ Path(<<e>> \o undo_stack, "new_pc", "old_pc", pc')
  BY <1>2, PathGrows DEF PathInv
<1>5. IsSeq(undo_stack') /\ Path(undo_stack', "new_pc", "old_pc", pc')
  BY <1>3, <1>4, PathCut DEF PathInv
<1>6. IsSeq(redo_stack') /\ Path(redo_stack', "old_pc", "new_pc", pc')
  BY <1>3, Empty, NoPath
<1> QED BY <1>3, <1>5, <1>6 DEF PathInv

LEMMA UndoPath == ASSUME PathInv, UndoCommand PROVE PathInv'
<1> DEFINE e == Head(undo_stack)
<1>1. /\ undo_stack # <<>> /\ undos_left > 0 /\ undos_left' = undos_left - 1
      /\ undo_stack' = Reachable(Tail(undo_stack), undos_left')
      /\ redo_stack' = <<e>> \o redo_stack
      /\ pc' = e["old_pc"] /\ running' = running
  BY DEF UndoCommand, RestoreEntry, PcOf
<1>2. undos_left' \in Nat
  BY <1>1 DEF PathInv
<1>3. /\ e["new_pc"] = pc
      /\ IsSeq(Tail(undo_stack)) /\ Path(Tail(undo_stack), "new_pc", "old_pc", e["old_pc"])
  BY <1>1, PathShrinks DEF PathInv
<1> HIDE DEF e
<1>4. IsSeq(undo_stack') /\ Path(undo_stack', "new_pc", "old_pc", pc')
  BY <1>1, <1>2, <1>3, PathCut
<1>5. IsSeq(redo_stack') /\ Path(redo_stack', "old_pc", "new_pc", pc')
  BY <1>1, <1>3, PathGrows DEF PathInv
<1> QED BY <1>1, <1>2, <1>4, <1>5 DEF PathInv

LEMMA RedoPath == ASSUME PathInv, RedoCommand PROVE PathInv'
<1> DEFINE e == Head(redo_stack)
<1>1. /\ redo_stack # <<>> /\ undos_left' = undos_left
      /\ undo_stack' = Reachable(<<e>> \o undo_stack, undos_left)
      /\ redo_stack' = Tail(redo_stack)
      /\ pc' = e["new_pc"] /\ running' = running
  BY DEF RedoCommand, RestoreEntry, PcOf
<1>2. /\ e["old_pc"] = pc
      /\ IsSeq(Tail(redo_stack)) /\ Path(Tail(redo_stack), "old_pc", "new_pc", e["new_pc"])
  BY <1>1, PathShrinks DEF PathInv
<1> HIDE DEF e
<1>3. IsSeq(<<e>> \o undo_stack) /\ Path(<<e>> \o undo_stack, "new_pc", "old_pc", pc')
  BY <1>1, <1>2, PathGrows DEF PathInv
<1>4. IsSeq(undo_stack') /\ Path(undo_stack', "new_pc", "old_pc", pc')
  BY <1>1, <1>3, PathCut DEF PathInv
<1>5. IsSeq(redo_stack') /\ Path(redo_stack', "old_pc", "new_pc", pc')
  BY <1>1, <1>2
<1> QED BY <1>1, <1>4, <1>5 DEF PathInv

LEMMA NextPath == ASSUME NeverReset, PathInv, [SessionNext]_sessionVars PROVE PathInv'
<1>1. ASSUME UNCHANGED <<pc, undo_stack, redo_stack, undos_left>>, running' = FALSE PROVE PathInv'
  BY <1>1 DEF PathInv
<1>2. CASE StepCommand
  BY <1>2, StepPath DEF StepCommand
<1>3. CASE RunCycle \/ RunReturns \/ StopCommand
  BY <1>3 DEF RunCycle, RunReturns, StopCommand, PathInv
<1>4. CASE ResetCommand \/ RunCommand
  BY <1>4 DEF ResetCommand, RunCommand, NeverReset
<1>5. CASE LoadCommand
  BY <1>1, <1>5 DEF LoadCommand, BreakHistory
<1>6. CASE ModifyRegister \/ ModifyMemory
  BY <1>1, <1>6 DEF ModifyRegister, ModifyMemory, BreakHistory, PathInv
<1>7. CASE ModifyConfig
  BY <1>1, <1>7 DEF ModifyConfig, machine, stacks, PathInv
<1>8. CASE UNCHANGED sessionVars
  BY <1>1, <1>8 DEF sessionVars, vars, stacks, PathInv
<1> QED BY <1>2, <1>3, <1>4, <1>5, <1>6, <1>7, <1>8, UndoPath, RedoPath DEF SessionNext

\* Whatever is stepped, undone, redone, loaded and edited, the newest log
\* entry ends, and the next one to redo starts, at the program counter, as
\* long as RUN and RESET do not set the machine back under the stacks.
THEOREM MeetsCorrect == ASSUME NeverReset PROVE SessionSpec => []HistoryMeetsPc
<1>1. SessionInit => PathInv
  BY Empty, NoPath, SessionAssumption DEF SessionInit, PathInv
<1>2. PathInv /\ [SessionNext]_sessionVars => PathInv'
  BY NextPath
<1>3. PathInv => HistoryMeetsPc
  <2> SUFFICES ASSUME PathInv PROVE HistoryMeetsPc
    OBVIOUS
  <2>1. undo_stack # <<>> => Head(undo_stack)["new_pc"] = pc
    BY PathShrinks DEF PathInv
  <2>2. redo_stack # <<>> => Head(redo_stack)["old_pc"] = pc
    BY PathShrinks DEF PathInv
  <2> QED BY <2>1, <2>2 DEF HistoryMeetsPc
<1> QED BY <1>1, <1>2, <1>3, PTL DEF SessionSpec

-----------------------------------------------------------------------------
(***************************************************************************)
(* The states the history keeps.  What undo puts back of registers, memory *)
(* and program counter it computes from the present ones (Leads), the      *)
(* pipeline registers and counters come from the entry (Begins).  Redo     *)
(* puts those back too, so that only the former are those of a state that  *)
(* was undone.                                                             *)
(***************************************************************************)
Program(state) == [pc |-> state.pc, regs |-> state.regs, mem |-> state.mem]
Here == [pc |-> pc, regs |-> regs, mem |-> mem]

Leads(from, entry, to) ==
    /\ from.pc = entry.old_pc /\ to.pc = entry.new_pc
    /\ Replay(to.regs, entry.register_changes, "old") = from.regs
    /\ Replay(to.mem, entry.memory_changes, "old") = from.mem
    /\ Replay(from.regs, entry.register_changes, "new") = to.regs
    /\ Replay(from.mem, entry.memory_changes, "new") = to.mem

FourLatches(entry) ==
    entry.latches = <<entry.latches[1], entry.latches[2], entry.latches[3], entry.latches[4]>>

Begins(state, entry) ==
    /\ state = [pc |-> entry.old_pc, regs |-> state.regs, mem |-> state.mem,
                latches |-> entry.latches, cycle |-> entry.cycle, retired |-> entry.retired]
    /\ FourLatches(entry)

\* From near to far: each state, the entry that leads from it, and the
\* state that entry leads to.
PastChain(states, entries, here) ==
    \A n \in 1 .. Len(states) :
        /\ Begins(states[n], entries[n])
        /\ Leads(Program(states[n]), entries[n], IF n = 1 THEN here ELSE Program(states[n - 1]))

\* An entry that undo left knows the pipeline registers of its cycle too.
FutureChain(states, entries, here) ==
    \A n \in 1 .. Len(states) :
        /\ FourLatches(entries[n])
        /\ Leads(IF n = 1 THEN here ELSE Program(states[n - 1]), entries[n], Program(states[n]))

HistoryInv ==
    /\ undos_left \in Nat
    /\ regs = [r \in Reg |-> regs[r]] /\ mem = [a \in Word |-> mem[a]]
    /\ IsSeq(undo_stack) /\ IsSeq(redo_stack) /\ IsSeq(past) /\ IsSeq(future)
    /\ Len(past) <= Len(undo_stack) /\ Len(future) <= Len(redo_stack)
    /\ PastChain(past, undo_stack, Here) /\ FutureChain(future, redo_stack, Here)

-----------------------------------------------------------------------------
(***************************************************************************)
(* Chains grow and shrink at the near end, and the past is cut at the far. *)
(***************************************************************************)
LEMMA PastGrows ==
    ASSUME NEW states, IsSeq(states), NEW entries, IsSeq(entries), Len(states) <= Len(entries),
           NEW state, NEW entry, NEW there, PastChain(states, entries, Program(state)),
           Begins(state, entry), Leads(Program(state), entry, there)
    PROVE /\ IsSeq(<<state>> \o states) /\ IsSeq(<<entry>> \o entries)
          /\ Len(<<state>> \o states) <= Len(<<entry>> \o entries)
          /\ PastChain(<<state>> \o states, <<entry>> \o entries, there)
<1> DEFINE ss == <<state>> \o states
           es == <<entry>> \o entries
<1>1. /\ IsSeq(ss) /\ ss[1] = state /\ Len(states) \in Nat /\ Len(ss) = Len(states) + 1
      /\ \A n \in 1 .. Len(states) : ss[n + 1] = states[n]
  BY Grown
<1>2. /\ IsSeq(es) /\ es[1] = entry /\ Len(entries) \in Nat /\ Len(es) = Len(entries) + 1
      /\ \A n \in 1 .. Len(entries) : es[n + 1] = entries[n]
  BY Grown
<1> HIDE DEF ss, es
<1>3. ASSUME NEW n \in 1 .. Len(ss)
      PROVE Begins(ss[n], es[n])
            /\ Leads(Program(ss[n]), es[n], IF n = 1 THEN there ELSE Program(ss[n - 1]))
  <2>1. CASE n = 1
    BY <1>1, <1>2, <2>1
  <2>2. CASE n # 1
    <3>1. PICK m \in 1 .. Len(states) : n = m + 1
      <4>1. n - 1 \in 1 .. Len(states) /\ n = (n - 1) + 1
        BY <1>1, <2>2
      <4> QED BY <4>1
    <3>2. m \in 1 .. Len(entries) /\ n - 1 = m
      BY <1>1, <1>2, <3>1
    <3>3. ss[n] = states[m] /\ es[n] = entries[m]
      BY <1>1, <1>2, <3>1, <3>2
    <3>4. ss[m] = IF m = 1 THEN state ELSE states[m - 1]
      <4>1. CASE m = 1
        BY <1>1, <4>1
      <4>2. CASE m # 1
        <5>1. m - 1 \in 1 .. Len(states) /\ (m - 1) + 1 = m
          BY <1>1, <4>2
        <5>2. ss[(m - 1) + 1] = states[m - 1]
          BY <1>1, <5>1
        <5> QED BY <4>2, <5>1, <5>2
      <4> QED BY <4>1, <4>2
    <3>5. Begins(states[m], entries[m])
          /\ Leads(Program(states[m]), entries[m],
                   IF m = 1 THEN Program(state) ELSE Program(states[m - 1]))
      BY DEF PastChain
    <3>6. Program(ss[m]) = IF m = 1 THEN Program(state) ELSE Program(states[m - 1])
      BY <3>4
    <3> QED BY <2>2, <3>2, <3>3, <3>5, <3>6
  <2> QED BY <2>1, <2>2
<1>4. Len(ss) <= Len(es)
  BY <1>1, <1>2
<1> QED BY <1>1, <1>2, <1>3, <1>4 DEF PastChain, ss, es

LEMMA PastShrinks ==
    ASSUME NEW states, IsSeq(states), states # <<>>, NEW entries, IsSeq(entries), entries # <<>>,
           Len(states) <= Len(entries), NEW here, PastChain(states, entries, here)
    PROVE /\ Begins(Head(states), Head(entries)) /\ Leads(Program(Head(states)), Head(entries), here)
          /\ IsSeq(Tail(states)) /\ IsSeq(Tail(entries)) /\ Len(Tail(states)) <= Len(Tail(entries))
          /\ PastChain(Tail(states), Tail(entries), Program(Head(states)))
<1> DEFINE ss == Tail(states)
           es == Tail(entries)
<1>1. /\ IsSeq(ss) /\ Head(states) = states[1]
      /\ Len(states) \in Nat /\ Len(states) >= 1 /\ Len(ss) = Len(states) - 1
      /\ \A n \in 1 .. Len(ss) : ss[n] = states[n + 1]
  BY Shrunk
<1>2. /\ IsSeq(es) /\ Head(entries) = entries[1]
      /\ Len(entries) \in Nat /\ Len(entries) >= 1 /\ Len(es) = Len(entries) - 1
      /\ \A n \in 1 .. Len(es) : es[n] = entries[n + 1]
  BY Shrunk
<1> HIDE DEF ss, es
<1>3. Begins(Head(states), Head(entries)) /\ Leads(Program(Head(states)), Head(entries), here)
  <2>1. 1 \in 1 .. Len(states)
    BY <1>1
  <2> QED BY <1>1, <1>2, <2>1 DEF PastChain
<1>4. ASSUME NEW n \in 1 .. Len(ss)
      PROVE Begins(ss[n], es[n])
            /\ Leads(Program(ss[n]), es[n],
                     IF n = 1 THEN Program(Head(states)) ELSE Program(ss[n - 1]))
  <2>1. /\ n + 1 \in 1 .. Len(states) /\ n + 1 # 1 /\ (n + 1) - 1 = n
        /\ n \in 1 .. Len(es)
    BY <1>1, <1>2
  <2>2. Begins(states[n + 1], entries[n + 1])
        /\ Leads(Program(states[n + 1]), entries[n + 1], Program(states[n]))
    BY <2>1 DEF PastChain
  <2>3. ss[n] = states[n + 1] /\ es[n] = entries[n + 1]
    BY <1>1, <1>2, <2>1
  <2>4. Program(states[n]) = IF n = 1 THEN Program(Head(states)) ELSE Program(ss[n - 1])
    <3>1. CASE n = 1
      BY <1>1, <3>1
    <3>2. CASE n # 1
      <4>1. n - 1 \in 1 .. Len(ss) /\ (n - 1) + 1 = n
        BY <1>1, <3>2
      <4>2. ss[n - 1] = states[n]
        BY <1>1, <4>1
      <4> QED BY <3>2, <4>2
    <3> QED BY <3>1, <3>2
  <2> QED BY <2>2, <2>3, <2>4
<1>5. Len(ss) <= Len(es)
  BY <1>1, <1>2
<1> QED BY <1>1, <1>2, <1>3, <1>4, <1>5 DEF PastChain, ss, es

LEMMA PastCut ==
    ASSUME NEW states, IsSeq(states), NEW entries, IsSeq(entries), Len(states) <= Len(entries),
           NEW here, PastChain(states, entries, here), NEW m \in Nat
    PROVE /\ IsSeq(Reachable(states, m)) /\ IsSeq(Reachable(entries, m))
          /\ Len(Reachable(states, m)) <= Len(Reachable(entries, m))
          /\ PastChain(Reachable(states, m), Reachable(entries, m), here)
<1> DEFINE ss == Reachable(states, m)
           es == Reachable(entries, m)
<1>1. /\ IsSeq(ss) /\ Len(states) \in Nat
      /\ Len(ss) = IF Len(states) < m THEN Len(states) ELSE m
      /\ \A n \in 1 .. Len(ss) : ss[n] = states[n]
  BY CutShort
<1>2. /\ IsSeq(es) /\ Len(entries) \in Nat
      /\ Len(es) = IF Len(entries) < m THEN Len(entries) ELSE m
      /\ \A n \in 1 .. Len(es) : es[n] = entries[n]
  BY CutShort
<1> HIDE DEF ss, es
<1>3. Len(ss) <= Len(es) /\ Len(ss) <= Len(states)
  BY <1>1, <1>2
<1>4. ASSUME NEW n \in 1 .. Len(ss)
      PROVE Begins(ss[n], es[n])
            /\ Leads(Program(ss[n]), es[n], IF n = 1 THEN here ELSE Program(ss[n - 1]))
  <2>1. n \in 1 .. Len(states) /\ n \in 1 .. Len(es) /\ (n # 1 => n - 1 \in 1 .. Len(ss))
    BY <1>1, <1>2, <1>3
  <2>2. /\ ss[n] = states[n] /\ es[n] = entries[n]
        /\ n # 1 => ss[n - 1] = states[n - 1]
    BY <1>1, <1>2, <2>1
  <2>3. Begins(states[n], entries[n])
        /\ Leads(Program(states[n]), entries[n], IF n = 1 THEN here ELSE Program(states[n - 1]))
    BY <2>1 DEF PastChain
  <2> QED BY <2>2, <2>3
<1> QED BY <1>1, <1>2, <1>3, <1>4 DEF PastChain, ss, es

LEMMA FutureGrows ==
    ASSUME NEW states, IsSeq(states), NEW entries, IsSeq(entries), Len(states) <= Len(entries),
           NEW state, NEW entry, NEW there, FutureChain(states, entries, Program(state)),
           FourLatches(entry), Leads(there, entry, Program(state))
    PROVE /\ IsSeq(<<state>> \o states) /\ IsSeq(<<entry>> \o entries)
          /\ Len(<<state>> \o states) <= Len(<<entry>> \o entries)
          /\ FutureChain(<<state>> \o states, <<entry>> \o entries, there)
<1> DEFINE ss == <<state>> \o states
           es == <<entry>> \o entries
<1>1. /\ IsSeq(ss) /\ ss[1] = state /\ Len(states) \in Nat /\ Len(ss) = Len(states) + 1
      /\ \A n \in 1 .. Len(states) : ss[n + 1] = states[n]
  BY Grown
<1>2. /\ IsSeq(es) /\ es[1] = entry /\ Len(entries) \in Nat /\ Len(es) = Len(entries) + 1
      /\ \A n \in 1 .. Len(entries) : es[n + 1] = entries[n]
  BY Grown
<1> HIDE DEF ss, es
<1>3. ASSUME NEW n \in 1 .. Len(ss)
      PROVE FourLatches(es[n])
            /\ Leads(IF n = 1 THEN there ELSE Program(ss[n - 1]), es[n], Program(ss[n]))
  <2>1. CASE n = 1
    BY <1>1, <1>2, <2>1
  <2>2. CASE n # 1
    <3>1. PICK m \in 1 .. Len(states) : n = m + 1
      <4>1. n - 1 \in 1 .. Len(states) /\ n = (n - 1) + 1
        BY <1>1, <2>2
      <4> QED BY <4>1
    <3>2. m \in 1 .. Len(entries) /\ n - 1 = m
      BY <1>1, <1>2, <3>1
    <3>3. ss[n] = states[m] /\ es[n] = entries[m]
      BY <1>1, <1>2, <3>1, <3>2
    <3>4. ss[m] = IF m = 1 THEN state ELSE states[m - 1]
      <4>1. CASE m = 1
        BY <1>1, <4>1
      <4>2. CASE m # 1
        <5>1. m - 1 \in 1 .. Len(states) /\ (m - 1) + 1 = m
          BY <1>1, <4>2
        <5>2. ss[(m - 1) + 1] = states[m - 1]
          BY <1>1, <5>1
        <5> QED BY <4>2, <5>1, <5>2
      <4> QED BY <4>1, <4>2
    <3>5. FourLatches(entries[m])
          /\ Leads(IF m = 1 THEN Program(state) ELSE Program(states[m - 1]),
                   entries[m], Program(states[m]))
      BY DEF FutureChain
    <3>6. Program(ss[m]) = IF m = 1 THEN Program(state) ELSE Program(states[m - 1])
      BY <3>4
    <3> QED BY <2>2, <3>2, <3>3, <3>5, <3>6
  <2> QED BY <2>1, <2>2
<1>4. Len(ss) <= Len(es)
  BY <1>1, <1>2
<1> QED BY <1>1, <1>2, <1>3, <1>4 DEF FutureChain, ss, es

LEMMA FutureShrinks ==
    ASSUME NEW states, IsSeq(states), states # <<>>, NEW entries, IsSeq(entries), entries # <<>>,
           Len(states) <= Len(entries), NEW here, FutureChain(states, entries, here)
    PROVE /\ FourLatches(Head(entries)) /\ Leads(here, Head(entries), Program(Head(states)))
          /\ IsSeq(Tail(states)) /\ IsSeq(Tail(entries)) /\ Len(Tail(states)) <= Len(Tail(entries))
          /\ FutureChain(Tail(states), Tail(entries), Program(Head(states)))
<1> DEFINE ss == Tail(states)
           es == Tail(entries)
<1>1. /\ IsSeq(ss) /\ Head(states) = states[1]
      /\ Len(states) \in Nat /\ Len(states) >= 1 /\ Len(ss) = Len(states) - 1
      /\ \A n \in 1 .. Len(ss) : ss[n] = states[n + 1]
  BY Shrunk
<1>2. /\ IsSeq(es) /\ Head(entries) = entries[1]
      /\ Len(entries) \in Nat /\ Len(entries) >= 1 /\ Len(es) = Len(entries) - 1
      /\ \A n \in 1 .. Len(es) : es[n] = entries[n + 1]
  BY Shrunk
<1> HIDE DEF ss, es
<1>3. FourLatches(Head(entries)) /\ Leads(here, Head(entries), Program(Head(states)))
  <2>1. 1 \in 1 .. Len(states)
    BY <1>1
  <2> QED BY <1>1, <1>2, <2>1 DEF FutureChain
<1>4. ASSUME NEW n \in 1 .. Len(ss)
      PROVE FourLatches(es[n])
            /\ Leads(IF n = 1 THEN Program(Head(states)) ELSE Program(ss[n - 1]),
                     es[n], Program(ss[n]))
  <2>1. /\ n + 1 \in 1 .. Len(states) /\ n + 1 # 1 /\ (n + 1) - 1 = n
        /\ n \in 1 .. Len(es)
    BY <1>1, <1>2
  <2>2. FourLatches(entries[n + 1])
        /\ Leads(Program(states[n]), entries[n + 1], Program(states[n + 1]))
    BY <2>1 DEF FutureChain
  <2>3. ss[n] = states[n + 1] /\ es[n] = entries[n + 1]
    BY <1>1, <1>2, <2>1
  <2>4. Program(states[n]) = IF n = 1 THEN Program(Head(states)) ELSE Program(ss[n - 1])
    <3>1. CASE n = 1
      BY <1>1, <3>1
    <3>2. CASE n # 1
      <4>1. n - 1 \in 1 .. Len(ss) /\ (n - 1) + 1 = n
        BY <1>1, <3>2
      <4>2. ss[n - 1] = states[n]
        BY <1>1, <4>1
      <4> QED BY <3>2, <4>2
    <3> QED BY <3>1, <3>2
  <2> QED BY <2>2, <2>3, <2>4
<1>5. Len(ss) <= Len(es)
  BY <1>1, <1>2
<1> QED BY <1>1, <1>2, <1>3, <1>4, <1>5 DEF FutureChain, ss, es

LEMMA NoChain ==
    ASSUME NEW entries, NEW here
    PROVE PastChain(<<>>, entries, here) /\ FutureChain(<<>>, entries, here)
  BY Empty DEF PastChain, FutureChain

-----------------------------------------------------------------------------
(***************************************************************************)
(* The changes of one log entry, taken back and made again.                *)
(***************************************************************************)
LEMMA ReplayTrue ==
    ASSUME NEW D, NEW before, NEW after, before = [k \in D |-> before[k]],
           after = [k \in D |-> after[k]], NEW changes,
           \A c \in changes : c.at \in D /\ c.old = before[c.at] /\ c.new = after[c.at],
           \A k \in D : before[k] # after[k] => \E c \in changes : c.at = k
    PROVE Replay(after, changes, "old") = before /\ Replay(before, changes, "new") = after
<1>1. DOMAIN before = D /\ DOMAIN after = D
  OBVIOUS
<1>2. ASSUME NEW k \in D, \E c \in changes : c.at = k
      PROVE /\ (CHOOSE c \in changes : c.at = k)["old"] = before[k]
            /\ (CHOOSE c \in changes : c.at = k)["new"] = after[k]
  <2> DEFINE d == CHOOSE c \in changes : c.at = k
  <2>1. d \in changes /\ d.at = k
    BY <1>2
  <2> HIDE DEF d
  <2>2. d["old"] = before[k] /\ d["new"] = after[k]
    BY <2>1
  <2> QED BY <2>2 DEF d
<1>3. Replay(after, changes, "old") = [k \in D |-> before[k]]
  BY <1>1, <1>2 DEF Replay
<1>4. Replay(before, changes, "new") = [k \in D |-> after[k]]
  BY <1>1, <1>2 DEF Replay
<1> QED BY <1>3, <1>4

LEMMA ReplayKeepsDomain ==
    ASSUME NEW D, NEW values, values = [k \in D |-> values[k]], NEW changes, NEW side
    PROVE Replay(values, changes, side) = [k \in D |-> Replay(values, changes, side)[k]]
  BY DEF Replay

\* A cycle logs every register and every address it changes.
LEMMA StepLeads ==
    ASSUME Step, regs = [r \in Reg |-> regs[r]], mem = [a \in Word |-> mem[a]]
    PROVE /\ Begins(Visible, Delta) /\ Leads(Here, Delta, Here')
          /\ regs' = [r \in Reg |-> regs'[r]] /\ mem' = [a \in Word |-> mem'[a]]
<1>1. /\ regs' = [r \in Reg |-> IF Writes(mem_wb, r) THEN WbValue(mem_wb) ELSE regs[r]]
      /\ regs' = [r \in Reg |-> regs'[r]]
  BY DEF Step, StageWB
<1>2. /\ mem' = [a \in Word |-> IF Holds(ex_mem) /\ MemWrite(ex_mem.instr) /\ a = ex_mem.result
                                THEN ex_mem.data ELSE mem[a]]
      /\ mem' = [a \in Word |-> mem'[a]]
  BY DEF Step, StageMEM, MemAfterMEM
<1>3. /\ Replay(regs', RegisterChanges, "old") = regs
      /\ Replay(regs, RegisterChanges, "new") = regs'
  <2>1. \A c \in RegisterChanges : c.at \in Reg /\ c.old = regs[c.at] /\ c.new = regs'[c.at]
    BY <1>1 DEF RegisterChanges
  <2>2. ASSUME NEW r \in Reg, regs[r] # regs'[r] PROVE \E c \in RegisterChanges : c.at = r
    <3>1. Writes(mem_wb, r)
      BY <1>1, <2>2
    <3>2. [at |-> r, old |-> regs[r], new |-> WbValue(mem_wb)] \in RegisterChanges
      BY <3>1 DEF RegisterChanges
    <3> QED BY <3>2
  <2> QED BY <1>1, <2>1, <2>2, ReplayTrue
<1>4. /\ Replay(mem', MemoryChanges, "old") = mem
      /\ Replay(mem, MemoryChanges, "new") = mem'
  <2>1. \A c \in MemoryChanges : c.at \in Word /\ c.old = mem[c.at] /\ c.new = mem'[c.at]
    BY <1>2 DEF MemoryChanges, BytesBeforeStore
  <2>2. ASSUME NEW a \in Word, mem[a] # mem'[a] PROVE \E c \in MemoryChanges : c.at = a
    <3>1. /\ Holds(ex_mem) /\ MemWrite(ex_mem.instr) /\ a = ex_mem.result
          /\ mem[a] # ex_mem.data
      BY <1>2, <2>2
    <3>2. [at |-> a, old |-> BytesBeforeStore(a), new |-> ex_mem.data] \in MemoryChanges
      BY <3>1 DEF MemoryChanges
    <3> QED BY <3>2
  <2> QED BY <1>2, <2>1, <2>2, ReplayTrue
<1>5. Begins(Visible, Delta)
  BY DEF Begins, FourLatches, Visible, Delta, latches
<1> QED BY <1>1, <1>2, <1>3, <1>4, <1>5 DEF Leads, Here, Delta

-----------------------------------------------------------------------------
(***************************************************************************)
(* Every command keeps the chains.                                         *)
(***************************************************************************)
LEMMA StepHistory == ASSUME HistoryInv, LoggedStep PROVE HistoryInv'
<1>1. /\ Step /\ undos_left' = undos_left
      /\ undo_stack' = Reachable(<<Delta>> \o undo_stack, undos_left) /\ redo_stack' = <<>>
      /\ past' = Reachable(<<Visible>> \o past, undos_left) /\ future' = <<>>
  BY DEF LoggedStep
<1>2. /\ Begins(Visible, Delta) /\ Leads(Here, Delta, Here')
      /\ regs' = [r \in Reg |-> regs'[r]] /\ mem' = [a \in Word |-> mem'[a]]
  BY <1>1, StepLeads DEF HistoryInv
<1>3. Program(Visible) = Here
  BY DEF Program, Visible, Here
<1> DEFINE e == Delta
           v == Visible
<1>4. /\ IsSeq(<<v>> \o past) /\ IsSeq(<<e>> \o undo_stack)
      /\ Len(<<v>> \o past) <= Len(<<e>> \o undo_stack)
      /\ PastChain(<<v>> \o past, <<e>> \o undo_stack, Here')
  <2>1. Begins(v, e) /\ Leads(Program(v), e, Here')
    BY <1>2, <1>3
  <2>2. PastChain(past, undo_stack, Program(v))
    BY <1>3 DEF HistoryInv
  <2> HIDE DEF e, v
  <2> QED BY <2>1, <2>2, PastGrows DEF HistoryInv
<1>5. /\ IsSeq(past') /\ IsSeq(undo_stack') /\ Len(past') <= Len(undo_stack')
      /\ PastChain(past', undo_stack', Here')
  <2> HIDE DEF e, v
  <2>1. undo_stack' = Reachable(<<e>> \o undo_stack, undos_left)
        /\ past' = Reachable(<<v>> \o past, undos_left)
    BY <1>1 DEF e, v
  <2> QED BY <1>4, <2>1, PastCut DEF HistoryInv
<1>6. /\ IsSeq(future') /\ IsSeq(redo_stack') /\ Len(future') <= Len(redo_stack')
      /\ FutureChain(future', redo_stack', Here')
  BY <1>1, Empty, NoChain
<1> QED BY <1>1, <1>2, <1>5, <1>6 DEF HistoryInv

\* What undo makes of the machine, from the entry and the state it belongs to.
LEMMA UndoArrives ==
    ASSUME UndoCommand, HistoryInv, past # <<>>
    PROVE /\ undo_stack # <<>> /\ Visible' = Head(past) /\ Here' = Program(Head(past))
          /\ FourLatches(Head(undo_stack))
          /\ Leads(Here', Head(undo_stack), Program(Visible))
          /\ PastChain(Tail(past), Tail(undo_stack), Here')
          /\ IsSeq(Tail(past)) /\ IsSeq(Tail(undo_stack))
          /\ Len(Tail(past)) <= Len(Tail(undo_stack))
<1> DEFINE e == Head(undo_stack)
           v == Head(past)
<1>1. undo_stack # <<>> /\ RestoreEntry(e, "old")
  BY DEF UndoCommand
<1>2. /\ Begins(v, e) /\ Leads(Program(v), e, Here)
      /\ IsSeq(Tail(past)) /\ IsSeq(Tail(undo_stack)) /\ Len(Tail(past)) <= Len(Tail(undo_stack))
      /\ PastChain(Tail(past), Tail(undo_stack), Program(v))
  BY <1>1, PastShrinks DEF HistoryInv
<1> HIDE DEF e, v
<1>3. /\ pc' = e.old_pc /\ cycle' = e.cycle /\ retired' = e.retired
      /\ latches' = e.latches
      /\ regs' = Replay(regs, e.register_changes, "old")
      /\ mem' = Replay(mem, e.memory_changes, "old")
  BY <1>1, <1>2 DEF RestoreEntry, PcOf, RestoreLatches, Begins, FourLatches, latches
<1>4. v.regs = regs' /\ v.mem = mem'
  BY <1>2, <1>3 DEF Leads, Program, Here
<1>5. Visible' = v
  BY <1>2, <1>3, <1>4 DEF Visible, Begins
<1>6. Here' = Program(v)
  BY <1>2, <1>3, <1>4 DEF Here, Program, Leads
<1>7. Program(Visible) = Here
  BY DEF Program, Visible, Here
<1> QED BY <1>1, <1>2, <1>5, <1>6, <1>7 DEF Begins, e, v

LEMMA UndoHistory == ASSUME HistoryInv, UndoCommand PROVE HistoryInv'
<1> DEFINE e == Head(undo_stack)
           v == Visible
<1>1. /\ undo_stack # <<>> /\ undos_left > 0 /\ undos_left' = undos_left - 1
      /\ undo_stack' = Reachable(Tail(undo_stack), undos_left')
      /\ redo_stack' = <<e>> \o redo_stack
      /\ regs' = Replay(regs, e.register_changes, "old")
      /\ mem' = Replay(mem, e.memory_changes, "old")
  BY DEF UndoCommand, RestoreEntry
<1>2. undos_left' \in Nat
  BY <1>1 DEF HistoryInv
<1>3. regs' = [r \in Reg |-> regs'[r]] /\ mem' = [a \in Word |-> mem'[a]]
  <2> HIDE DEF e
  <2> QED BY <1>1, ReplayKeepsDomain DEF HistoryInv
<1>4. CASE past = <<>>
  <2>1. past' = <<>> /\ future' = <<>>
    BY <1>4 DEF UndoCommand
  <2>2. IsSeq(undo_stack') /\ IsSeq(redo_stack')
    BY <1>1, <1>2, Shrunk, CutShort, Grown DEF HistoryInv
  <2>3. 0 <= Len(undo_stack') /\ 0 <= Len(redo_stack')
    BY <2>2, <1>2, CutShort
  <2> QED BY <1>2, <1>3, <2>1, <2>2, <2>3, Empty, NoChain DEF HistoryInv
<1>5. CASE past # <<>>
  <2>1. past' = Reachable(Tail(past), undos_left') /\ future' = <<v>> \o future
    BY <1>5 DEF UndoCommand
  <2>2. /\ FourLatches(e) /\ Leads(Here', e, Program(v))
        /\ PastChain(Tail(past), Tail(undo_stack), Here')
        /\ IsSeq(Tail(past)) /\ IsSeq(Tail(undo_stack))
        /\ Len(Tail(past)) <= Len(Tail(undo_stack))
    BY <1>5, UndoArrives
  <2>3. Program(v) = Here
    BY DEF Program, Visible, Here
  <2> HIDE DEF e, v
  <2>4. /\ IsSeq(past') /\ IsSeq(undo_stack') /\ Len(past') <= Len(undo_stack')
        /\ PastChain(past', undo_stack', Here')
    BY <1>1, <1>2, <2>1, <2>2, PastCut
  <2>5. /\ IsSeq(future') /\ IsSeq(redo_stack') /\ Len(future') <= Len(redo_stack')
        /\ FutureChain(future', redo_stack', Here')
    BY <1>1, <2>1, <2>2, <2>3, FutureGrows DEF HistoryInv
  <2> QED BY <1>2, <1>3, <2>4, <2>5 DEF HistoryInv
<1> QED BY <1>4, <1>5

LEMMA RedoArrives ==
    ASSUME RedoCommand, HistoryInv, future # <<>>
    PROVE /\ redo_stack # <<>> /\ Here' = Program(Head(future))
          /\ Begins(Began(Head(redo_stack)), Head(redo_stack))
          /\ Program(Began(Head(redo_stack))) = Here
          /\ Leads(Here, Head(redo_stack), Here')
          /\ FutureChain(Tail(future), Tail(redo_stack), Here')
          /\ IsSeq(Tail(future)) /\ IsSeq(Tail(redo_stack))
          /\ Len(Tail(future)) <= Len(Tail(redo_stack))
<1> DEFINE e == Head(redo_stack)
           v == Head(future)
<1>1. redo_stack # <<>> /\ RestoreEntry(e, "new")
  BY DEF RedoCommand
<1>2. /\ FourLatches(e) /\ Leads(Here, e, Program(v))
      /\ IsSeq(Tail(future)) /\ IsSeq(Tail(redo_stack))
      /\ Len(Tail(future)) <= Len(Tail(redo_stack))
      /\ FutureChain(Tail(future), Tail(redo_stack), Program(v))
  BY <1>1, FutureShrinks DEF HistoryInv
<1> HIDE DEF e, v
<1>3. Here' = Program(v)
  BY <1>1, <1>2 DEF RestoreEntry, PcOf, Leads, Here, Program
<1>4. Program(Began(e)) = Here
  BY DEF Began, Program, Here
<1>5. Begins(Began(e), e)
  BY <1>2 DEF Began, Begins, Leads, Here
<1> QED BY <1>1, <1>2, <1>3, <1>4, <1>5 DEF e, v

LEMMA RedoHistory == ASSUME HistoryInv, RedoCommand PROVE HistoryInv'
<1> DEFINE e == Head(redo_stack)
           v == Began(e)
<1>1. /\ redo_stack # <<>> /\ undos_left' = undos_left
      /\ undo_stack' = Reachable(<<e>> \o undo_stack, undos_left)
      /\ redo_stack' = Tail(redo_stack)
      /\ regs' = Replay(regs, e.register_changes, "new")
      /\ mem' = Replay(mem, e.memory_changes, "new")
  BY DEF RedoCommand, RestoreEntry
<1>2. undos_left' \in Nat
  BY <1>1 DEF HistoryInv
<1>3. regs' = [r \in Reg |-> regs'[r]] /\ mem' = [a \in Word |-> mem'[a]]
  <2> HIDE DEF e
  <2> QED BY <1>1, ReplayKeepsDomain DEF HistoryInv
<1>4. CASE future = <<>>
  <2>1. past' = <<>> /\ future' = <<>>
    BY <1>4 DEF RedoCommand
  <2>2. IsSeq(undo_stack') /\ IsSeq(redo_stack')
    <3> HIDE DEF e
    <3>1. IsSeq(Tail(redo_stack))
      BY <1>1, Shrunk DEF HistoryInv
    <3>2. IsSeq(<<e>> \o undo_stack)
      BY Grown DEF HistoryInv
    <3>3. IsSeq(Reachable(<<e>> \o undo_stack, undos_left))
      BY <3>2, CutShort DEF HistoryInv
    <3> QED BY <1>1, <3>1, <3>3
  <2>3. 0 <= Len(undo_stack') /\ 0 <= Len(redo_stack')
    BY <2>2, <1>2, CutShort
  <2> QED BY <1>2, <1>3, <2>1, <2>2, <2>3, Empty, NoChain DEF HistoryInv
<1>5. CASE future # <<>>
  <2>1. past' = Reachable(<<v>> \o past, undos_left) /\ future' = Tail(future)
    BY <1>5 DEF RedoCommand
  <2>2. /\ Begins(v, e) /\ Program(v) = Here /\ Leads(Program(v), e, Here')
        /\ FutureChain(Tail(future), Tail(redo_stack), Here')
        /\ IsSeq(Tail(future)) /\ IsSeq(Tail(redo_stack))
        /\ Len(Tail(future)) <= Len(Tail(redo_stack))
    BY <1>5, RedoArrives
  <2> HIDE DEF e, v
  <2>3. /\ IsSeq(<<v>> \o past) /\ IsSeq(<<e>> \o undo_stack)
        /\ Len(<<v>> \o past) <= Len(<<e>> \o undo_stack)
        /\ PastChain(<<v>> \o past, <<e>> \o undo_stack, Here')
    BY <2>2, PastGrows DEF HistoryInv
  <2>4. /\ IsSeq(past') /\ IsSeq(undo_stack') /\ Len(past') <= Len(undo_stack')
        /\ PastChain(past', undo_stack', Here')
    BY <1>1, <2>1, <2>3, PastCut DEF HistoryInv
  <2> QED BY <1>1, <1>2, <1>3, <2>1, <2>2, <2>4 DEF HistoryInv
<1> QED BY <1>4, <1>5

LEMMA NextHistory == ASSUME HistoryInv, [SessionNext]_sessionVars PROVE HistoryInv'
<1>1. ASSUME UNCHANGED <<pc, regs, mem, stacks>> PROVE HistoryInv'
  BY <1>1 DEF HistoryInv, Here, stacks
<1>2. ASSUME BreakHistory, regs' = [r \in Reg |-> regs'[r]], mem' = [a \in Word |-> mem'[a]]
      PROVE HistoryInv'
  <2>1. /\ past' = <<>> /\ future' = <<>>
        /\ UNCHANGED <<undo_stack, redo_stack, undos_left>>
    BY <1>2 DEF BreakHistory
  <2>2. 0 <= Len(undo_stack) /\ 0 <= Len(redo_stack)
    BY CutShort DEF HistoryInv
  <2> QED BY <1>2, <2>1, <2>2, Empty, NoChain DEF HistoryInv
<1>3. CASE StepCommand \/ RunCycle
  BY <1>3, StepHistory DEF StepCommand, RunCycle
<1>4. CASE RunReturns \/ StopCommand \/ ModifyConfig \/ UNCHANGED sessionVars
  BY <1>1, <1>4 DEF RunReturns, StopCommand, ModifyConfig, machine, sessionVars, vars
<1>5. CASE UndoCommand \/ RedoCommand
  BY <1>5, UndoHistory, RedoHistory
<1>6. CASE ResetCommand \/ RunCommand
  <2>1. BreakHistory /\ regs' = [r \in Reg |-> 0]
    BY <1>6 DEF ResetCommand, RunCommand, ResetMachine
  <2>2. mem' = [a \in Word |-> mem'[a]]
    BY <1>6 DEF ResetCommand, RunCommand, ZeroMemory, LoadProgram
  <2> QED BY <1>2, <2>1, <2>2
<1>7. CASE LoadCommand
  BY <1>2, <1>7 DEF LoadCommand, LoadProgram, HistoryInv
<1>8. CASE ModifyRegister
  BY <1>2, <1>8 DEF ModifyRegister, WriteGpr, HistoryInv
<1>9. CASE ModifyMemory
  BY <1>2, <1>9 DEF ModifyMemory, HistoryInv
<1> QED BY <1>3, <1>4, <1>5, <1>6, <1>7, <1>8, <1>9 DEF SessionNext

LEMMA HistoryCorrect == SessionSpec => []HistoryInv
<1>1. ASSUME SessionInit PROVE HistoryInv
  <2>1. /\ regs = [r \in Reg |-> 0] /\ undos_left \in Nat
        /\ undo_stack = <<>> /\ redo_stack = <<>> /\ past = <<>> /\ future = <<>>
    BY <1>1, SessionAssumption DEF SessionInit, Init
  <2>2. mem = [a \in Word |-> mem[a]]
    BY <1>1 DEF SessionInit, Init, LoadProgram
  <2> QED BY <2>1, <2>2, Empty, NoChain DEF HistoryInv
<1>2. HistoryInv /\ [SessionNext]_sessionVars => HistoryInv'
  BY NextHistory
<1> QED BY <1>1, <1>2, PTL DEF SessionSpec

\* UNDO gives the machine exactly the state with which the cycle of its
\* entry began, whatever was stepped, run, undone and redone before.
THEOREM UndoCorrect == SessionSpec => UndoGoesBack
<1>1. HistoryInv => [UndoCommand /\ past # <<>> => Visible' = Head(past)]_sessionVars
  BY UndoArrives
<1> QED BY <1>1, HistoryCorrect, PTL DEF UndoGoesBack

\* REDO gives program counter, registers and memory what they were when
\* the entry was undone, however undo, redo and steps alternated since.
THEOREM RedoCorrect == SessionSpec => RedoRestoresProgram
<1>1. ASSUME HistoryInv, RedoCommand, future # <<>>
      PROVE /\ pc' = Head(future).pc
            /\ regs' = Head(future).regs
            /\ mem' = Head(future).mem
  <2>1. Here' = Program(Head(future))
    BY <1>1, RedoArrives
  <2> QED BY <2>1 DEF Here, Program
<1>2. HistoryInv => [RedoCommand /\ future # <<>> =>
                        /\ pc' = Head(future).pc
                        /\ regs' = Head(future).regs
                        /\ mem' = Head(future).mem]_sessionVars
  BY <1>1
<1> QED BY <1>2, HistoryCorrect, PTL DEF RedoRestoresProgram

-----------------------------------------------------------------------------
(***************************************************************************)
(* Without hazard unit and predictor a cycle is a function of what undo    *)
(* puts back: CycleOf computes it from the program and the visible state,  *)
(* with the stages of Step and nothing else.                               *)
(***************************************************************************)
ResultOf(ex) ==
    LET i == ex.instr
    IN CASE i.op = "LUI" -> Wrap(i.imm * UShift)
         [] i.op = "AUIPC" -> Wrap(ex.pc + i.imm * UShift)
         [] i.op \in {"JAL", "JALR"} -> Wrap(ex.pc + 4)
         [] OTHER -> Alu(AluSignal5(i), ex.a, IF AluSrc(i) THEN i.imm ELSE ex.b)

RedirectsFrom(ex) == Holds(ex) /\ ~ex.resolved /\ BranchTaken(ex.instr, ResultOf(ex))

PcBehind(ex, at) == IF RedirectsFrom(ex) THEN BranchTarget(ex.instr, ex.pc, ex.a) ELSE at

WrittenBack(wb, bank) == [r \in Reg |-> IF Writes(wb, r) THEN WbValue(wb) ELSE bank[r]]

Accessed(em, memory) ==
    IF Holds(em)
    THEN [kind |-> "instr", instr |-> em.instr, result |-> em.result,
          data |-> IF MemRead(em.instr) THEN memory[em.result] ELSE 0]
    ELSE MemWbOf(em.kind)

Stored(em, memory) ==
    IF Holds(em) /\ MemWrite(em.instr) THEN [memory EXCEPT ![em.result] = em.data] ELSE memory

Executed(ex) ==
    IF Holds(ex)
    THEN [kind |-> "instr", instr |-> ex.instr, pc |-> ex.pc, result |-> ResultOf(ex), data |-> ex.b]
    ELSE ExMemOf(ex.kind)

DecodedFrom(fetched, ex, bank) ==
    IF RedirectsFrom(ex) \/ fetched.kind = "bubble" THEN IdExOf("bubble")
    ELSE IF Holds(fetched)
    THEN [kind |-> "instr", instr |-> fetched.instr, pc |-> fetched.pc,
          a |-> ReadGpr(bank, fetched.instr.rs1), b |-> ReadGpr(bank, fetched.instr.rs2),
          resolved |-> FALSE]
    ELSE IdExOf("empty")

FetchedAt(image, memory, ex, at) ==
    IF RedirectsFrom(ex) THEN IfIdOf("bubble")
    ELSE IF PcBehind(ex, at) < ProgramSize(image)
    THEN [kind |-> "instr", instr |-> ReadInstr(memory, PcBehind(ex, at)),
          pc |-> PcBehind(ex, at), taken |-> FALSE, target |-> 0]
    ELSE IfIdOf("empty")

CycleOf(image, v) ==
    LET fetched == v.latches[1]
        ex == v.latches[2]
        em == v.latches[3]
        wb == v.latches[4]
        bank == WrittenBack(wb, v.regs)
    IN [pc |-> IF ~RedirectsFrom(ex) /\ PcBehind(ex, v.pc) < ProgramSize(image)
               THEN Wrap(PcBehind(ex, v.pc) + 4) ELSE PcBehind(ex, v.pc),
        regs |-> bank, mem |-> Stored(em, v.mem),
        latches |-> <<FetchedAt(image, Stored(em, v.mem), ex, v.pc),
                      DecodedFrom(fetched, ex, bank), Executed(ex), Accessed(em, v.mem)>>,
        cycle |-> Bump(v.cycle), retired |-> IF Holds(wb) THEN Bump(v.retired) ELSE v.retired]

LEMMA StepIsCycle ==
    ASSUME Step, mode = "NO_HAZ", ~stall_if_id
    PROVE Visible' = CycleOf(program, Visible) /\ ~stall_if_id'
<1>1. /\ ~Forwards /\ ~DetectsHazards /\ mode \notin DynamicMode /\ mode \notin PredictionMode
      /\ OperandA = id_ex.a /\ OperandB = id_ex.b
  BY DEF Forwards, DetectsHazards, PredictionMode, DynamicMode, OperandA, OperandB
<1>2. ExResult = ResultOf(id_ex)
  BY <1>1 DEF ExResult, ResultOf
<1>3. /\ ExRedirects <=> RedirectsFrom(id_ex)
      /\ PcAfterEX = PcBehind(id_ex, pc)
  BY <1>1, <1>2 DEF ExRedirects, RedirectsFrom, PcAfterEX, PcBehind
<1>4. ~IdStalls /\ ~IdResolves /\ ~IdRedirects
  BY <1>1 DEF IdStalls, StallPending, IdResolves, IdRedirects
<1>5. /\ Flushes <=> RedirectsFrom(id_ex)
      /\ PcAfterID = PcBehind(id_ex, pc)
      /\ IdSquashes <=> RedirectsFrom(id_ex) \/ if_id.kind = "bubble"
      /\ IdDecodes <=> ~IdSquashes /\ Holds(if_id)
  BY <1>3, <1>4 DEF Flushes, PcAfterID, IdSquashes, IdDecodes
<1>6. ~stall_if_id'
  BY <1>4 DEF Step, StageID
<1>7. regs' = WrittenBack(mem_wb, regs)
      /\ retired' = IF Holds(mem_wb) THEN Bump(retired) ELSE retired
  BY DEF Step, StageWB, WrittenBack
<1>8. mem_wb' = Accessed(ex_mem, mem) /\ mem' = Stored(ex_mem, mem)
  BY DEF Step, StageMEM, MemAfterMEM, Accessed, Stored
<1>9. ex_mem' = Executed(id_ex)
  BY <1>1, <1>2 DEF Step, StageEX, Executed
<1>10. id_ex' = DecodedFrom(if_id, id_ex, regs')
  <2>1. id_ex' = IF IdSquashes THEN IdExOf("bubble")
                 ELSE IF IdDecodes
                 THEN [kind |-> "instr", instr |-> if_id.instr, pc |-> if_id.pc,
                       a |-> ReadGpr(regs', if_id.instr.rs1),
                       b |-> ReadGpr(regs', if_id.instr.rs2),
                       resolved |-> IdResolves]
                 ELSE IdExOf("empty")
    BY <1>4 DEF Step, StageID
  <2>2. IdResolves = FALSE
    BY <1>1 DEF IdResolves
  <2> QED BY <1>5, <2>1, <2>2 DEF DecodedFrom
<1>11. /\ if_id' = FetchedAt(program, mem', id_ex, pc)
       /\ pc' = IF ~RedirectsFrom(id_ex) /\ PcBehind(id_ex, pc) < ProgramSize(program)
                THEN Wrap(PcBehind(id_ex, pc) + 4) ELSE PcBehind(id_ex, pc)
  <2>1. ~FetchTaken /\ FetchTarget = 0
    BY <1>1 DEF FetchTaken, FetchTarget
  <2>2. Fetches <=> ~RedirectsFrom(id_ex) /\ PcBehind(id_ex, pc) < ProgramSize(program)
    BY <1>5, <1>6 DEF Fetches
  <2>3. FetchTaken = FALSE
    BY <2>1 DEF FetchTaken
  <2> QED BY <1>5, <1>6, <2>1, <2>2, <2>3 DEF Step, StageIF, FetchedAt
<1>12. cycle' = Bump(cycle)
  BY DEF Step
<1>13. /\ Visible.latches[1] = if_id /\ Visible.latches[2] = id_ex
       /\ Visible.latches[3] = ex_mem /\ Visible.latches[4] = mem_wb
       /\ Visible.pc = pc /\ Visible.regs = regs /\ Visible.mem = mem
       /\ Visible.cycle = cycle /\ Visible.retired = retired
  BY DEF Visible, latches
<1>14. latches' = <<FetchedAt(program, Stored(ex_mem, mem), id_ex, pc),
                    DecodedFrom(if_id, id_ex, WrittenBack(mem_wb, regs)),
                    Executed(id_ex), Accessed(ex_mem, mem)>>
  BY <1>7, <1>8, <1>9, <1>10, <1>11 DEF latches
<1>15. Visible' = [pc |-> pc', regs |-> regs', mem |-> mem', latches |-> latches',
                   cycle |-> cycle', retired |-> retired']
  BY DEF Visible
<1>16. CycleOf(program, Visible) = [pc |-> pc', regs |-> regs', mem |-> mem', latches |-> latches',
                                  cycle |-> cycle', retired |-> retired']
  <2> DEFINE v == Visible
  <2> HIDE DEF v
  <2>1. CycleOf(program, v) =
          [pc |-> IF ~RedirectsFrom(v.latches[2]) /\ PcBehind(v.latches[2], v.pc) < ProgramSize(program)
                  THEN Wrap(PcBehind(v.latches[2], v.pc) + 4) ELSE PcBehind(v.latches[2], v.pc),
           regs |-> WrittenBack(v.latches[4], v.regs), mem |-> Stored(v.latches[3], v.mem),
           latches |-> <<FetchedAt(program, Stored(v.latches[3], v.mem), v.latches[2], v.pc),
                         DecodedFrom(v.latches[1], v.latches[2], WrittenBack(v.latches[4], v.regs)),
                         Executed(v.latches[2]), Accessed(v.latches[3], v.mem)>>,
           cycle |-> Bump(v.cycle),
           retired |-> IF Holds(v.latches[4]) THEN Bump(v.retired) ELSE v.retired]
    BY Zenon DEF CycleOf
  <2> QED BY <1>7, <1>8, <1>11, <1>12, <1>13, <1>14, <2>1 DEF v
<1> QED BY <1>6, <1>15, <1>16

(***************************************************************************)
(* So each state of the history is the cycle of the one before it, past    *)
(* and future alike, as long as one program is executed in one mode.       *)
(***************************************************************************)
Repeats(image, states, here) ==
    \A n \in 1 .. Len(states) :
        CycleOf(image, states[n]) = IF n = 1 THEN here ELSE states[n - 1]
RepeatsOn(image, states, here) ==
    \A n \in 1 .. Len(states) :
        states[n] = CycleOf(image, IF n = 1 THEN here ELSE states[n - 1])

RepeatInv ==
    mode = "NO_HAZ" => /\ ~stall_if_id
                       /\ Repeats(program, past, Visible)
                       /\ RepeatsOn(program, future, Visible)

LEMMA NothingRepeats ==
    ASSUME NEW image, NEW here
    PROVE Repeats(image, <<>>, here) /\ RepeatsOn(image, <<>>, here)
BY Empty DEF Repeats, RepeatsOn

LEMMA RepeatsGrows ==
    ASSUME NEW image, NEW states, IsSeq(states), NEW here, Repeats(image, states, here),
           NEW there, CycleOf(image, here) = there
    PROVE IsSeq(<<here>> \o states) /\ Repeats(image, <<here>> \o states, there)
<1> DEFINE grown == <<here>> \o states
<1>1. /\ IsSeq(grown) /\ grown[1] = here
      /\ Len(states) \in Nat /\ Len(grown) = Len(states) + 1
      /\ \A n \in 1 .. Len(states) : grown[n + 1] = states[n]
  BY Grown
<1> HIDE DEF grown
<1>2. ASSUME NEW n \in 1 .. Len(grown), n # 1 PROVE CycleOf(image, grown[n]) = grown[n - 1]
  <2>1. n - 1 \in 1 .. Len(states) /\ (n - 1) + 1 = n
    BY <1>1, <1>2
  <2>2. grown[n] = states[n - 1]
    BY <1>1, <2>1
  <2>3. CycleOf(image, states[n - 1]) = IF n - 1 = 1 THEN here ELSE states[(n - 1) - 1]
    BY <2>1 DEF Repeats
  <2>4. CASE n - 1 = 1
    BY <1>1, <2>2, <2>3, <2>4
  <2>5. CASE n - 1 # 1
    <3>1. (n - 1) - 1 \in 1 .. Len(states) /\ ((n - 1) - 1) + 1 = n - 1
      BY <1>1, <2>1, <2>5
    <3>2. grown[n - 1] = states[(n - 1) - 1]
      BY <1>1, <3>1
    <3> QED BY <2>2, <2>3, <2>5, <3>2
  <2> QED BY <2>4, <2>5
<1> QED BY <1>1, <1>2 DEF Repeats, grown

LEMMA RepeatsShrinks ==
    ASSUME NEW image, NEW states, IsSeq(states), states # <<>>, NEW here,
           Repeats(image, states, here)
    PROVE /\ CycleOf(image, Head(states)) = here
          /\ IsSeq(Tail(states)) /\ Repeats(image, Tail(states), Head(states))
<1> DEFINE left == Tail(states)
<1>1. /\ IsSeq(left) /\ Head(states) = states[1]
      /\ Len(states) \in Nat /\ Len(states) >= 1 /\ Len(left) = Len(states) - 1
      /\ \A n \in 1 .. Len(left) : left[n] = states[n + 1]
  BY Shrunk
<1> HIDE DEF left
<1>2. 1 \in 1 .. Len(states)
  BY <1>1
<1>3. ASSUME NEW n \in 1 .. Len(left)
      PROVE CycleOf(image, left[n]) = IF n = 1 THEN Head(states) ELSE left[n - 1]
  <2>1. n + 1 \in 1 .. Len(states) /\ n + 1 # 1 /\ (n + 1) - 1 = n
    BY <1>1
  <2>2. CycleOf(image, states[n + 1]) = states[n]
    BY <2>1 DEF Repeats
  <2>3. n # 1 => n - 1 \in 1 .. Len(left) /\ (n - 1) + 1 = n
    BY <1>1
  <2> QED BY <1>1, <2>2, <2>3
<1> QED BY <1>1, <1>2, <1>3 DEF Repeats, left

LEMMA RepeatsCut ==
    ASSUME NEW image, NEW states, IsSeq(states), NEW m \in Nat, NEW here,
           Repeats(image, states, here)
    PROVE Repeats(image, Reachable(states, m), here)
<1> DEFINE cut == Reachable(states, m)
<1>1. /\ Len(states) \in Nat /\ Len(cut) = IF Len(states) < m THEN Len(states) ELSE m
      /\ \A n \in 1 .. Len(cut) : cut[n] = states[n]
  BY CutShort
<1> HIDE DEF cut
<1>2. ASSUME NEW n \in 1 .. Len(cut)
      PROVE CycleOf(image, cut[n]) = IF n = 1 THEN here ELSE cut[n - 1]
  <2>1. n \in 1 .. Len(states) /\ (n # 1 => n - 1 \in 1 .. Len(cut))
    BY <1>1
  <2>2. CycleOf(image, states[n]) = IF n = 1 THEN here ELSE states[n - 1]
    BY <2>1 DEF Repeats
  <2> QED BY <1>1, <2>1, <2>2
<1> QED BY <1>2 DEF Repeats, cut

LEMMA RepeatsOnGrows ==
    ASSUME NEW image, NEW states, IsSeq(states), NEW here, RepeatsOn(image, states, here),
           NEW there, here = CycleOf(image, there)
    PROVE RepeatsOn(image, <<here>> \o states, there)
<1> DEFINE grown == <<here>> \o states
<1>1. /\ grown[1] = here
      /\ Len(states) \in Nat /\ Len(grown) = Len(states) + 1
      /\ \A n \in 1 .. Len(states) : grown[n + 1] = states[n]
  BY Grown
<1> HIDE DEF grown
<1>2. ASSUME NEW n \in 1 .. Len(grown), n # 1 PROVE grown[n] = CycleOf(image, grown[n - 1])
  <2>1. n - 1 \in 1 .. Len(states) /\ (n - 1) + 1 = n
    BY <1>1, <1>2
  <2>2. grown[n] = states[n - 1]
    BY <1>1, <2>1
  <2>3. states[n - 1] = CycleOf(image, IF n - 1 = 1 THEN here ELSE states[(n - 1) - 1])
    BY <2>1 DEF RepeatsOn
  <2>4. CASE n - 1 = 1
    BY <1>1, <2>2, <2>3, <2>4
  <2>5. CASE n - 1 # 1
    <3>1. (n - 1) - 1 \in 1 .. Len(states) /\ ((n - 1) - 1) + 1 = n - 1
      BY <1>1, <2>1, <2>5
    <3>2. grown[n - 1] = states[(n - 1) - 1]
      BY <1>1, <3>1
    <3> QED BY <2>2, <2>3, <2>5, <3>2
  <2> QED BY <2>4, <2>5
<1>3. ASSUME NEW n \in 1 .. Len(grown)
      PROVE grown[n] = CycleOf(image, IF n = 1 THEN there ELSE grown[n - 1])
  BY <1>1, <1>2
<1> QED BY <1>3 DEF RepeatsOn, grown

(***************************************************************************)
(* What sessions it holds in: REDO leaves the pipeline registers of        *)
(* another cycle, and a change of mode another way to execute them.        *)
(***************************************************************************)
KeepsMode == {"redo", "modify_config"} \cap Commands = {}

LEMMA StepRepeated ==
    ASSUME HistoryInv, RepeatInv, LoggedStep PROVE RepeatInv'
<1>1. /\ Step /\ UNCHANGED <<mode, program>> /\ undos_left' = undos_left
      /\ past' = Reachable(<<Visible>> \o past, undos_left) /\ future' = <<>>
  BY DEF LoggedStep, Step
<1> SUFFICES ASSUME mode = "NO_HAZ" PROVE RepeatInv'
  BY <1>1 DEF RepeatInv
<1>2. Visible' = CycleOf(program, Visible) /\ ~stall_if_id'
  BY <1>1, StepIsCycle DEF RepeatInv
<1>3. Repeats(program, past, Visible) /\ IsSeq(past) /\ undos_left \in Nat
  BY DEF RepeatInv, HistoryInv
<1>4. IsSeq(<<Visible>> \o past) /\ Repeats(program, <<Visible>> \o past, Visible')
  BY <1>2, <1>3, RepeatsGrows
<1>5. Repeats(program, past', Visible')
  BY <1>1, <1>3, <1>4, RepeatsCut
<1>6. RepeatsOn(program, future', Visible')
  BY <1>1, NothingRepeats
<1> QED BY <1>1, <1>2, <1>5, <1>6 DEF RepeatInv

LEMMA UndoRepeated ==
    ASSUME HistoryInv, RepeatInv, UndoCommand PROVE RepeatInv'
<1>1. /\ UNCHANGED <<mode, program, stall_if_id>> /\ undos_left \in Nat /\ undos_left > 0
      /\ undos_left' = undos_left - 1 /\ IsSeq(past) /\ IsSeq(future)
  BY DEF UndoCommand, RestoreEntry, HistoryInv
<1> SUFFICES ASSUME mode = "NO_HAZ" PROVE RepeatInv'
  BY <1>1 DEF RepeatInv
<1>2. CASE past = <<>>
  <2>1. past' = <<>> /\ future' = <<>>
    BY <1>2 DEF UndoCommand
  <2> QED BY <1>1, <2>1, NothingRepeats DEF RepeatInv
<1>3. CASE past # <<>>
  <2>1. past' = Reachable(Tail(past), undos_left') /\ future' = <<Visible>> \o future
    BY <1>3 DEF UndoCommand
  <2>2. Visible' = Head(past)
    BY <1>3, UndoArrives
  <2>3. /\ Repeats(program, past, Visible) /\ RepeatsOn(program, future, Visible)
        /\ undos_left' \in Nat
    BY <1>1 DEF RepeatInv
  <2>4. /\ CycleOf(program, Head(past)) = Visible
        /\ IsSeq(Tail(past)) /\ Repeats(program, Tail(past), Head(past))
    BY <1>1, <1>3, <2>3, RepeatsShrinks
  <2>5. Repeats(program, past', Visible')
    BY <2>1, <2>2, <2>3, <2>4, RepeatsCut
  <2>6. RepeatsOn(program, future', Visible')
    BY <1>1, <2>1, <2>2, <2>3, <2>4, RepeatsOnGrows
  <2> QED BY <1>1, <2>5, <2>6 DEF RepeatInv
<1> QED BY <1>2, <1>3

LEMMA NextRepeated ==
    ASSUME KeepsMode, HistoryInv, RepeatInv, [SessionNext]_sessionVars PROVE RepeatInv'
<1>1. ASSUME UNCHANGED <<vars, stacks>> PROVE RepeatInv'
  BY <1>1 DEF RepeatInv, Visible, latches, vars, stacks
<1>2. ASSUME BreakHistory, UNCHANGED <<mode, stall_if_id>> PROVE RepeatInv'
  <2>1. past' = <<>> /\ future' = <<>>
    BY <1>2 DEF BreakHistory
  <2> QED BY <1>2, <2>1, NothingRepeats DEF RepeatInv
<1>3. CASE StepCommand \/ RunCycle
  BY <1>3, StepRepeated DEF StepCommand, RunCycle
<1>4. CASE RunReturns \/ StopCommand \/ UNCHANGED sessionVars
  BY <1>1, <1>4 DEF RunReturns, StopCommand, sessionVars
<1>5. CASE UndoCommand
  BY <1>5, UndoRepeated
<1>6. CASE RedoCommand \/ ModifyConfig
  BY <1>6 DEF KeepsMode, RedoCommand, ModifyConfig
<1>7. CASE ResetCommand \/ RunCommand
  BY <1>2, <1>7 DEF ResetCommand, RunCommand, ResetMachine
<1>8. CASE LoadCommand \/ ModifyRegister \/ ModifyMemory
  BY <1>2, <1>8 DEF LoadCommand, ModifyRegister, ModifyMemory
<1> QED BY <1>3, <1>4, <1>5, <1>6, <1>7, <1>8 DEF SessionNext

\* Undone cycles can be executed again, however often and however steps,
\* runs, edits and undos alternate: where nothing but the pipeline registers
\* decides what a cycle does, STEP gives the state that undo left.
THEOREM RepeatCorrect == ASSUME KeepsMode PROVE SessionSpec => StepRepeats
<1>1. SessionInit => RepeatInv
  BY NothingRepeats DEF SessionInit, Init, RepeatInv
<1>2. HistoryInv /\ RepeatInv /\ [SessionNext]_sessionVars => RepeatInv'
  BY NextRepeated
<1>3. ASSUME HistoryInv, RepeatInv, StepCommand, future # <<>>, mode = "NO_HAZ"
      PROVE Visible' = Head(future)
  <2>1. Visible' = CycleOf(program, Visible)
    BY <1>3, StepIsCycle DEF StepCommand, LoggedStep, RepeatInv
  <2>2. RepeatsOn(program, future, Visible) /\ IsSeq(future)
    BY <1>3 DEF RepeatInv, HistoryInv
  <2>3. Head(future) = future[1] /\ 1 \in 1 .. Len(future)
    BY <1>3, <2>2, Shrunk
  <2>4. future[1] = CycleOf(program, Visible)
    BY <2>2, <2>3 DEF RepeatsOn
  <2> QED BY <2>1, <2>3, <2>4
<1>4. HistoryInv /\ RepeatInv
      => [StepCommand /\ future # <<>> /\ mode = "NO_HAZ" => Visible' = Head(future)]_sessionVars
  BY <1>3
<1> QED BY <1>1, <1>2, <1>4, HistoryCorrect, PTL DEF SessionSpec, StepRepeats

-----------------------------------------------------------------------------
(***************************************************************************)
(* RUN and RESET start the machine afresh.  A session that steps, runs,    *)
(* stops and resets either executes a cycle, leaves the machine alone or   *)
(* starts it over; and what the proof of the refinement needs of a fresh   *)
(* pipeline is what RESET gives it (the stall state, which survives a      *)
(* RESET, is not part of it).                                              *)
(***************************************************************************)
RunsOnly == Commands \subseteq {"step", "run", "stop", "reset"}

Restarts ==
    /\ Started'
    /\ UNCHANGED <<mode, program, stall_if_id, stall_counter>>
    /\ mem' = LoadProgram(ZeroMemory, program) \/ mem' = ZeroMemory

LEMMA ResetStarts == ResetMachine => Started'
BY DEF ResetMachine, ClearLatches, Started

LEMMA SessionMoves ==
    ASSUME RunsOnly, [SessionNext]_sessionVars
    PROVE Step \/ UNCHANGED vars \/ Restarts
<1>1. ~LoadCommand /\ ~UndoCommand /\ ~RedoCommand /\ ~ModifyRegister /\ ~ModifyMemory /\ ~ModifyConfig
  BY DEF RunsOnly, LoadCommand, UndoCommand, RedoCommand, ModifyRegister, ModifyMemory, ModifyConfig
<1>2. CASE StepCommand \/ RunCycle
  BY <1>2 DEF StepCommand, RunCycle, LoggedStep
<1>3. CASE RunReturns \/ StopCommand \/ UNCHANGED sessionVars
  BY <1>3 DEF RunReturns, StopCommand, sessionVars
<1>4. CASE ResetCommand \/ RunCommand
  <2>1. ResetMachine /\ (mem' = LoadProgram(ZeroMemory, program) \/ mem' = ZeroMemory)
    BY <1>4 DEF ResetCommand, RunCommand
  <2>2. Started'
    BY <2>1, ResetStarts
  <2> QED BY <2>1, <2>2 DEF ResetMachine, Restarts
<1> QED BY <1>1, <1>2, <1>3, <1>4 DEF SessionNext

LEMMA RestartTyped == ASSUME TypeOK, Restarts PROVE TypeOK'
<1>1. /\ Started' /\ mode' \in PipelineMode
      /\ program' \in [text: Programs, data: DataImages]
      /\ stall_if_id' \in BOOLEAN /\ stall_counter' \in 0 .. 1
  BY DEF TypeOK, Restarts
<1>2. mem' \in [Word -> Word]
  BY ZeroMemoryReads, LoadTyped DEF TypeOK, Restarts
<1>3. (/\ Started
       /\ mode \in PipelineMode
       /\ program \in [text: Programs, data: DataImages] /\ mem \in [Word -> Word]
       /\ stall_if_id \in BOOLEAN /\ stall_counter \in 0 .. 1
       => TypeOK)'
  BY StartsTyped, PTL
<1> QED BY <1>1, <1>2, <1>3

LEMMA TypedSession == ASSUME RunsOnly PROVE SessionSpec => []TypeOK
<1>1. SessionInit => TypeOK
  BY InitTyped DEF SessionInit
<1>2. TypeOK /\ [SessionNext]_sessionVars => TypeOK'
  <2>1. SUFFICES ASSUME TypeOK, [SessionNext]_sessionVars PROVE TypeOK'
    OBVIOUS
  <2>2. CASE UNCHANGED vars
    BY <2>1, <2>2 DEF vars, latches, TypeOK
  <2> QED BY <2>1, <2>2, SessionMoves, StepTyped, RestartTyped
<1> QED BY <1>1, <1>2, PTL DEF SessionSpec

\* What the refinement rests on, in a session.
LEMMA RestartFlows == Restarts => FlowInv' /\ CodeInv' /\ DataInv'
<1>1. (Started => FlowInv /\ CodeInv /\ DataInv)'
  BY FlowStarts, PTL
<1> QED BY <1>1 DEF Restarts

LEMMA FlowMoves ==
    ASSUME RunsOnly
    PROVE /\ TypeOK /\ TypeOK' /\ AlignedFetch /\ AlignedFetch' /\ SparesJumps
          /\ FlowInv /\ [SessionNext]_sessionVars
          => FlowInv'
BY SessionMoves, RestartFlows, FlowStep, FlowStays

LEMMA FlowSession ==
    ASSUME RunsOnly PROVE SessionSpec /\ []AlignedFetch /\ []SparesJumps => []FlowInv
<1>1. SessionInit => FlowInv
  BY InitStarts, FlowStarts DEF SessionInit
<1> QED BY <1>1, FlowMoves, TypedSession, PTL DEF SessionSpec

LEMMA CodeSession == ASSUME RunsOnly PROVE SessionSpec /\ []SparesFlight => []CodeInv
<1>1. SessionInit => CodeInv
  BY InitStarts, FlowStarts DEF SessionInit
<1>2. CodeInv /\ UNCHANGED vars => CodeInv'
  BY DEF vars, latches, CodeInv, AsInMemory, Holds
<1>3. TypeOK /\ SparesFlight /\ CodeInv /\ [SessionNext]_sessionVars => CodeInv'
  BY <1>2, SessionMoves, RestartFlows, CodeStep
<1> QED BY <1>1, <1>3, TypedSession, PTL DEF SessionSpec

LEMMA DataSession ==
    ASSUME RunsOnly
    PROVE SessionSpec /\ []AlignedFetch /\ []SparesJumps /\ []KeepsApart => []DataInv
<1>1. SessionInit => DataInv
  BY InitStarts, FlowStarts DEF SessionInit
<1>2. TypeOK /\ FlowInv /\ KeepsApart' /\ DataInv /\ [SessionNext]_sessionVars => DataInv'
  BY SessionMoves, RestartFlows, DataStep, DataStays
<1> QED BY <1>1, <1>2, TypedSession, FlowSession, PTL DEF SessionSpec

LEMMA RestartArrives ==
    ASSUME Restarts
    PROVE ArchReset(LoadProgram(ZeroMemory, program)) \/ ArchReset(ZeroMemory)
<1>1. (Started => ArchPc = 0 /\ ArchRetired = 0 /\ ArchRegs = [r \in Reg |-> 0])'
  BY ArchStarts, PTL
<1>2. ArchPc' = 0 /\ ArchRetired' = 0 /\ ArchRegs' = [r \in Reg |-> 0]
  BY <1>1 DEF Restarts
<1> QED BY <1>2 DEF Restarts, ArchReset

(***************************************************************************)
(* RUN executes the program from its beginning, whatever was stepped, run  *)
(* and stopped before: between two of them the session does what the       *)
(* single-cycle machine does, and each of them begins where that machine   *)
(* begins.  What is asked of the session is what the refinement asks of a  *)
(* run: above all that no store changes an instruction in flight.          *)
(***************************************************************************)
THEOREM AfreshCorrect ==
    ASSUME RunsOnly
    PROVE /\ SessionSpec /\ []AlignedFetch /\ []AgreedNext
          /\ []KeepsApart /\ []SparesFlight /\ []SparesJumps
          => RunStartsAfresh
<1>1. SessionInit => Arch!Init
  BY ArchInit DEF SessionInit
<1>2. TypeOK /\ FlowInv /\ CodeInv /\ DataInv /\ AgreedNext /\ [SessionNext]_sessionVars
      => [ArchStep]_<<program, ArchPc, ArchRegs, mem, ArchRetired>>
  <2>1. SUFFICES ASSUME TypeOK, FlowInv, CodeInv, DataInv, AgreedNext,
                        [SessionNext]_sessionVars
                 PROVE [ArchStep]_<<program, ArchPc, ArchRegs, mem, ArchRetired>>
    OBVIOUS
  <2>2. Step \/ UNCHANGED vars \/ Restarts
    BY <2>1, SessionMoves
  <2>3. CASE Step /\ Holds(ex_mem)
    BY <2>1, <2>3, RetiringStep DEF ArchStep, Arch!Next
  <2>4. CASE Step /\ ~Holds(ex_mem)
    BY <2>1, <2>4, IdleStep
  <2>5. CASE UNCHANGED vars
    BY <2>5, ArchStays
  <2>6. CASE Restarts
    BY <2>6, RestartArrives DEF ArchStep
  <2> QED BY <2>2, <2>3, <2>4, <2>5, <2>6
<1> QED BY <1>1, <1>2, TypedSession, FlowSession, CodeSession, DataSession, PTL
       DEF SessionSpec, RunStartsAfresh

-----------------------------------------------------------------------------
(***************************************************************************)
(* What RUN and RESET leave in the text is of the kind that the loader     *)
(* leaves, or zeros.                                                       *)
(***************************************************************************)
LEMMA RestartText ==
    ASSUME NEW kinds, LoadedFrom(kinds), ZeroInstr \in kinds, TypeOK, Restarts
    PROVE TextOf(kinds)'
<1>1. AlignedText' = AlignedText /\ program' = program
  BY DEF Restarts, AlignedText, InText, ProgramSize
<1> SUFFICES ASSUME NEW at \in AlignedText PROVE ReadInstr(mem', at) \in kinds
  BY <1>1 DEF TextOf
<1>2. at \in Word /\ at < ProgramSize(program) /\ at % 4 = 0
  BY DEF AlignedText, InText
<1>3. CASE mem' = LoadProgram(ZeroMemory, program)
  BY <1>2, <1>3 DEF LoadedFrom, TypeOK
<1>4. CASE mem' = ZeroMemory
  BY <1>2, <1>4, ZeroMemoryReads
<1> QED BY <1>3, <1>4 DEF Restarts

\* A word of zeros is an instruction that both machines execute alike.
LEMMA ZeroInKinds == ZeroInstr \in DirectInstr /\ ZeroInstr \in AgreedInstr
<1>1. ZeroInstr \in Instr
  BY ConstantsTyped, IsaAssumption DEF ZeroInstr, Instr, Class, Function, Reg
<1> QED BY <1>1 DEF ZeroInstr, DirectInstr, AgreedInstr, Agreed

\* Programs of whole-word jumps never fetch or jump between words.
LEMMA DirectSession ==
    ASSUME RunsOnly, DirectPrograms
    PROVE SessionSpec /\ []SparesText
          => []AlignedFlow /\ []AlignedFetch /\ []SparesJumps /\ []SparesFlight
<1> USE DEF DirectPrograms
<1>1. SessionInit => AlignedFlow /\ FlowInv
  BY InitStarts, FlowStarts, InitAligned DEF SessionInit
<1>2. TypeOK /\ TypeOK' /\ SparesText /\ AlignedFlow /\ FlowInv /\ [SessionNext]_sessionVars
        => AlignedFlow' /\ FlowInv'
  <2>1. SUFFICES ASSUME TypeOK, TypeOK', SparesText, AlignedFlow, FlowInv,
                        [SessionNext]_sessionVars
                 PROVE AlignedFlow' /\ FlowInv'
    OBVIOUS
  <2>2. (Started /\ TextOf(DirectInstr) => AlignedFlow)'
    BY AlignedStarts, PTL
  <2>3. ASSUME Restarts PROVE AlignedFlow'
    <3>1. TextOf(DirectInstr)'
      BY <2>1, <2>3, RestartText, ZeroInKinds
    <3>2. Started'
      BY <2>3 DEF Restarts
    <3> QED BY <2>2, <3>1, <3>2
  <2>4. AlignedFlow'
    BY <2>1, <2>3, SessionMoves, AlignedStep, AlignedStays
  <2> QED BY <2>1, <2>4, FlowIsAligned, TextSparesJumps, FlowMoves
<1> QED BY <1>1, <1>2, TypedSession, FlowIsAligned, TextSparesJumps, TextSparesFlight, PTL
       DEF SessionSpec

LEMMA AgreedSession ==
    ASSUME RunsOnly, DirectPrograms, AgreedPrograms
    PROVE SessionSpec /\ []SparesText => []AgreedNext
<1>1. SessionInit => TextOf(AgreedInstr)
  BY InitText DEF SessionInit, AgreedPrograms
<1>2. TextOf(AgreedInstr) /\ UNCHANGED vars => TextOf(AgreedInstr)'
  BY DEF vars, TextOf, AlignedText, InText
<1>3. TypeOK /\ TextOf(AgreedInstr) /\ SparesText /\ [SessionNext]_sessionVars
        => TextOf(AgreedInstr)'
  BY <1>2, SessionMoves, TextStep, RestartText, ZeroInKinds DEF AgreedPrograms
<1> QED BY <1>1, <1>3, DirectSession, AlignedAgrees, TypedSession, PTL DEF SessionSpec

\* A session without change of mode stays in one that handles hazards.
LEMMA HandledSession == ASSUME RunsOnly, "NO_HAZ" \notin Modes PROVE SessionSpec => []KeepsApart
<1>1. SessionInit => DetectsHazards
  BY DEF SessionInit, Init, DetectsHazards
<1>2. DetectsHazards /\ [SessionNext]_sessionVars => DetectsHazards'
  <2>1. SUFFICES ASSUME DetectsHazards, [SessionNext]_sessionVars PROVE DetectsHazards'
    OBVIOUS
  <2>2. mode' = mode
    BY <2>1, SessionMoves DEF Step, vars, Restarts
  <2> QED BY <2>1, <2>2 DEF DetectsHazards
<1>3. DetectsHazards => KeepsApart
  BY DEF KeepsApart, DetectsHazards
<1> QED BY <1>1, <1>2, <1>3, PTL DEF SessionSpec

\* RUN executes such a program from its beginning, in the modes that handle
\* hazards, with nothing asked of the session but that the program does not
\* store into itself.
THEOREM DirectAfresh ==
    ASSUME RunsOnly, "NO_HAZ" \notin Modes, AgreedPrograms, DirectPrograms
    PROVE SessionSpec /\ []SparesText => RunStartsAfresh
BY AfreshCorrect, DirectSession, AgreedSession, HandledSession, PTL
=============================================================================
