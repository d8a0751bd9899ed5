---------------------------- MODULE EventCount ----------------------------
(***************************************************************************)
(* An eventfd seen as what the eventfd transport relies on: a counter that *)
(* signals increase and that its one listener takes whole, at one instant. *)
(* The two eventfds of ShmEventfd are such counters; EventFdWait           *)
(* implements one.                                                         *)
(***************************************************************************)
EXTENDS Integers

CONSTANTS
    MaxCount,  \* the count saturates here: 2^64 - 2
    Early      \* signals that may have come before the listener existed

VARIABLES
    count,     \* signals not yet taken
    taken      \* signals the listener has taken

vars == <<count, taken>>

Init == count \in 0 .. Early /\ taken = 0

Signal == count' = count + 1 /\ count' <= MaxCount /\ UNCHANGED taken
Take == count > 0 /\ count' = 0 /\ taken' = taken + count

Next == Signal \/ Take

Spec == Init /\ [][Next]_vars
=============================================================================
