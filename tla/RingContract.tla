--------------------------- MODULE RingContract ---------------------------
(***************************************************************************)
(* The promise of SharedMemoryRingBuffer to the threads that call it: a    *)
(* call of write() or read() takes effect at one instant, on a bounded     *)
(* FIFO queue, and returns the outcome that the queue has at that instant. *)
(* RingBuffer, which copies bytes in several steps, implements it.         *)
(***************************************************************************)
EXTENDS MessageQueue

CONSTANTS Writers, Readers, Messages

VARIABLE ret       \* ret[t]: what the last completed call of thread t returned

Result(tag, m) == [tag |-> tag, msg |-> m]

Return(t, tag, m) == ret' = [ret EXCEPT ![t] = Result(tag, m)]

Init ==
    /\ queue = <<>>
    /\ used = 0
    /\ ret = [t \in Writers \union Readers |-> Result("None", <<>>)]

CallWrite(t, m) ==
    \/ Write(m) /\ Return(t, "Ok", <<>>)
    \/ Full(m) /\ Return(t, "BufferFull", <<>>)

CallRead(t) ==
    \/ Read /\ Return(t, "Ok", queue[1])
    \/ Empty /\ Return(t, "BufferEmpty", <<>>)
    \/ Invalid /\ Return(t, "InvalidState", <<>>)

Next ==
    \/ \E t \in Writers, m \in Messages : CallWrite(t, m)
    \/ \E t \in Readers : CallRead(t)

Spec == Init /\ [][Next]_<<queue, used, ret>>
=============================================================================
