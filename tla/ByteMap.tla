------------------------------- MODULE ByteMap -------------------------------
(***************************************************************************)
(* What a memory promises: a byte at every address, zero until it is       *)
(* written, until the program does what leaves its behaviour undefined.    *)
(***************************************************************************)
CONSTANTS Addresses, Byte, ZeroByte

VARIABLES contents, defined

vars == <<contents, defined>>

Cleared == [a \in Addresses |-> ZeroByte]

Init == contents = Cleared /\ defined = TRUE

Store ==
    /\ \E a \in Addresses, v \in Byte : contents' = [contents EXCEPT ![a] = v]
    /\ UNCHANGED defined

Clear == contents' = Cleared /\ UNCHANGED defined

\* Nothing is promised any more.
Lose == defined' = FALSE

Next == (defined /\ (Store \/ Clear)) \/ Lose

Spec == Init /\ [][Next]_vars
=============================================================================
