------------------------------ MODULE Timeline ------------------------------
(***************************************************************************)
(* What undo and redo promise, whatever machine they belong to: the states *)
(* before the present one, as far as they are known, in the order undo     *)
(* visits them, and the states after it that redo visits.                  *)
(***************************************************************************)
EXTENDS Sequences

CONSTANT States

VARIABLES now, before, after   \* newest state first

vars == <<now, before, after>>

Init == now \in States /\ before = <<>> /\ after = <<>>

\* A step makes the present part of the past; what could be redone is gone.
Advance ==
    /\ now' \in States
    /\ before' = <<now>> \o before
    /\ after' = <<>>

Back ==
    /\ before # <<>>
    /\ now' = Head(before)
    /\ before' = Tail(before)
    /\ after' = <<now>> \o after

Forward ==
    /\ after # <<>>
    /\ now' = Head(after)
    /\ before' = <<now>> \o before
    /\ after' = Tail(after)

\* What is no step of the program (an edit, a reset, a run that keeps no
\* log): nothing is promised of the states before it.
Break == now' \in States /\ before' = <<>> /\ after' = <<>>

Next == Advance \/ Back \/ Forward \/ Break

Spec == Init /\ [][Next]_vars
=============================================================================
