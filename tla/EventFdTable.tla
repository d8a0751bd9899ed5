---------------------------- MODULE EventFdTable ----------------------------
(***************************************************************************)
(* EventFd and EventFdPair (shared-memory/src/eventfd.rs) over the file    *)
(* descriptor table of their process.                                      *)
(*                                                                         *)
(* nix's eventfd() returns an OwnedFd, which closes its descriptor when it *)
(* goes out of scope; new() keeps the number and lets it go.  Descriptors  *)
(* are allocated lowest number first, here and elsewhere in the process.   *)
(* The sender and the receiver of an EventFdPair are two values.           *)
(***************************************************************************)
EXTENDS Integers, FiniteSets, FiniteSetsExt

CONSTANTS
    Values,   \* values of type EventFd that the program makes
    Numbers,  \* descriptor numbers, integers
    MaxCount, \* bound: signals in one eventfd
    Closed,   \* what a number that is not in use refers to
    Other     \* an open file that is not an eventfd of these values

VARIABLES
    pc,       \* pc[v]: "none", "new" (in the constructor), "live" or "dropped"
    fd,       \* fd[v]: the number that v holds, or Closed
    table,    \* table[n]: the value whose eventfd n refers to, Other or Closed
    count,    \* count[v]: signals in the eventfd that was made for v
    acted     \* acted[v]: what the last call on v acted on, or Closed (EBADF)

vars == <<pc, fd, table, count, acted>>

Init ==
    /\ pc = [v \in Values |-> "none"]
    /\ fd = [v \in Values |-> Closed]
    /\ table = [n \in Numbers |-> Closed]
    /\ count = [v \in Values |-> 0]
    /\ acted = [v \in Values |-> v]

Goto(v, from, to) == pc[v] = from /\ pc' = [pc EXCEPT ![v] = to]

Free == {n \in Numbers : table[n] = Closed}

\* eventfd(), in new() or new_semaphore().
Create(v) ==
    /\ Goto(v, "none", "new")
    /\ Free # {}
    /\ fd' = [fd EXCEPT ![v] = Min(Free)]
    /\ table' = [table EXCEPT ![Min(Free)] = v]
    /\ UNCHANGED <<count, acted>>

\* The constructor returns with the number; the OwnedFd is dropped.
ReturnFd(v) ==
    /\ Goto(v, "new", "live")
    /\ table' = [table EXCEPT ![fd[v]] = Closed]
    /\ UNCHANGED <<fd, count, acted>>

\* A write or a read of the descriptor that the number refers to by now.
File(v) == table[fd[v]]

UseFd(v) ==
    /\ pc[v] = "live"
    /\ acted' = [acted EXCEPT ![v] = File(v)]
    /\ UNCHANGED <<pc, fd, table>>

Signal(v) ==
    /\ UseFd(v)
    /\ \A w \in Values : count[w] < MaxCount
    /\ count' = [w \in Values |-> IF w = File(v) THEN count[w] + 1 ELSE count[w]]

\* wait(), try_wait() and clear() differ in what they make of EAGAIN.
Wait(v) ==
    /\ UseFd(v)
    /\ count' = [w \in Values |-> IF w = File(v) THEN 0 ELSE count[w]]

\* drop() closes the number, whoever has it.
Drop(v) ==
    /\ Goto(v, "live", "dropped")
    /\ table' = [table EXCEPT ![fd[v]] = Closed]
    /\ fd' = [fd EXCEPT ![v] = Closed]
    /\ UNCHANGED <<count, acted>>

\* Another part of the process opens a file.
OpenOther ==
    /\ Free # {}
    /\ table' = [table EXCEPT ![Min(Free)] = Other]
    /\ UNCHANGED <<pc, fd, count, acted>>

Next ==
    \/ \E v \in Values : Create(v) \/ ReturnFd(v) \/ Signal(v) \/ Wait(v) \/ Drop(v)
    \/ OpenOther

Spec == Init /\ [][Next]_vars

\* "Signal the eventfd (write 1)" (eventfd.rs), and test_eventfd, which signals
\* a new EventFd and reads the count 1 back: a call on an EventFd acts on the
\* eventfd that was made for it.
ActsOnItsEventfd == \A v \in Values : acted[v] = v
=============================================================================
