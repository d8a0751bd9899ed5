---------------------------- MODULE EventFdWait ----------------------------
(***************************************************************************)
(* How a listener of the eventfd transport waits for its eventfd:          *)
(* wait_eventfd_async in gateway/src/shm_transport_eventfd.rs and          *)
(* wait_eventfd in backend/src/shm_server_eventfd.rs, which are the same   *)
(* code over tokio's AsyncFd.                                              *)
(*                                                                         *)
(* AsyncFd keeps a readiness flag and a tick.  The reactor is told of the  *)
(* eventfd edge by edge: each write() and each read() puts it on epoll's   *)
(* ready list (AsyncFd registers for both directions), and when the        *)
(* reactor gets there it advances the tick and, if the count is not zero   *)
(* by then, sets the flag.  readable() waits for the flag and notes the    *)
(* tick; clear_ready() takes the flag away unless the tick has advanced.   *)
(* Between these calls the eventfd is read without any lock, and others    *)
(* signal it at any moment.                                                *)
(*                                                                         *)
(* No name is one of ShmEventfd's, with which its proofs share a module.   *)
(***************************************************************************)
EXTENDS Integers

CONSTANTS
    MaxCount,    \* value at which the eventfd saturates: 2^64 - 2
    MaxSignals,  \* bound: signals in a behaviour
    Early        \* signals that may have come before the AsyncFd was made

ASSUME WaitConstantsOK ==
    /\ MaxCount \in Nat \ {0}
    /\ MaxSignals \in Nat
    /\ Early \in 0 .. MaxCount

VARIABLES
    step,     \* the listener: "readable", "read", "return", "retry", "loop"
    count,    \* count of the eventfd
    value,    \* what the listener has read and not yet returned
    taken,    \* sum of the counts returned to the listener's loop
    signals,  \* number of signals so far
    edge,     \* is the eventfd on epoll's ready list?
    ready,    \* the readiness flag
    current   \* is the tick the one that readable() has noted?

wait_vars == <<step, count, value, taken, signals, edge, ready, current>>

\* AsyncFd::new: a new registration is on the ready list (it is writable).
WaitInit ==
    /\ step = "readable"
    /\ count \in 0 .. Early
    /\ value = 0
    /\ taken = 0
    /\ signals = 0
    /\ edge = TRUE
    /\ ready = FALSE
    /\ current = FALSE

Proceed(from, to) == step = from /\ step' = to

BadSaturated == count > MaxCount
Saturated == count = MaxCount

\* signal_eventfd: write() adds one; EAGAIN at the limit counts as success.
Signal ==
    /\ signals < MaxSignals
    /\ signals' = signals + 1
    /\ IF Saturated THEN UNCHANGED <<count, edge>>
                    ELSE count' = count + 1 /\ edge' = TRUE
    /\ UNCHANGED <<step, value, taken, ready, current>>

Reactor ==
    /\ edge
    /\ edge' = FALSE
    /\ ready' = (ready \/ count > 0)
    /\ current' = FALSE
    /\ UNCHANGED <<step, count, value, taken, signals>>

NoteReadable ==
    /\ Proceed("readable", "read")
    /\ ready
    /\ current' = TRUE
    /\ UNCHANGED <<count, value, taken, signals, edge, ready>>

\* What is left of the count (an eventfd with EFD_SEMAPHORE would give out one).
BadAfterRead == count - 1
AfterRead == 0

ReadCount ==
    /\ Proceed("read", "return")
    /\ count > 0
    /\ value' = count
    /\ count' = AfterRead
    /\ edge' = TRUE
    /\ UNCHANGED <<taken, signals, ready, current>>

\* EAGAIN.
ReadNothing ==
    /\ Proceed("read", "retry")
    /\ count = 0
    /\ UNCHANGED <<count, value, taken, signals, edge, ready, current>>

\* The flag after clear_ready().
BadAfterClear == FALSE
AfterClear == ready /\ ~current

ReturnCount ==
    /\ Proceed("return", "loop")
    /\ ready' = AfterClear
    /\ taken' = taken + value
    /\ value' = 0
    /\ UNCHANGED <<count, signals, edge, current>>

Retry ==
    /\ Proceed("retry", "readable")
    /\ ready' = AfterClear
    /\ UNCHANGED <<count, value, taken, signals, edge, current>>

\* The listener has read its messages and waits again.
WaitAgain ==
    /\ Proceed("loop", "readable")
    /\ UNCHANGED <<count, value, taken, signals, edge, ready, current>>

Listener == NoteReadable \/ ReadCount \/ ReadNothing \/ ReturnCount \/ Retry \/ WaitAgain

WaitNext == Signal \/ Reactor \/ Listener

WaitSpec == WaitInit /\ [][WaitNext]_wait_vars

\* The runtime polls its ready tasks and its reactor; nobody has to signal.
FairWaitSpec == WaitSpec /\ WF_wait_vars(Reactor) /\ WF_wait_vars(Listener)

-----------------------------------------------------------------------------
\* Properties.

\* The variables have their types; the count stays within its limit.
WaitTypeOK ==
    /\ step \in {"readable", "read", "return", "retry", "loop"}
    /\ {count, value} \subseteq 0 .. MaxCount
    /\ taken \in 0 .. MaxSignals + Early
    /\ signals \in 0 .. MaxSignals
    /\ {edge, ready, current} \subseteq BOOLEAN

\* A signal that comes at any moment between readable() and clear_ready() is
\* not lost: while the count is not zero, the reactor is about to look, or the
\* flag is set and what the listener is about to clear is not this flag.
NoSignalLost ==
    count > 0 =>
        \/ edge
        \/ ready /\ (step \in {"return", "retry"} => ~current)

\* wait_eventfd implements the counter that the transport relies on: what it
\* returns is what was signalled, taken at one instant.
Event == INSTANCE EventCount WITH taken <- taken + value
ImplementsEvent == Event!Spec

\* A signal wakes the listener: the count does not stay in the eventfd.
SignalsTaken == count > 0 ~> count = 0
=============================================================================
