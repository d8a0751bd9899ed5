--------------------------- MODULE MessageQueue ---------------------------
(***************************************************************************)
(* One shared-memory ring buffer seen as what it promises to its two       *)
(* users: a bounded first-in first-out queue of messages.                  *)
(*                                                                         *)
(* A message occupies FrameSize(m) bytes of the ring (its length prefix    *)
(* and its payload).  One byte of the ring always stays free, so that a    *)
(* full ring is not taken for an empty one.  A message that does not fit   *)
(* the buffer the reader passes in is not Readable: the read fails and     *)
(* leaves the message where it is, at the head.                            *)
(*                                                                         *)
(* The module has no behaviour of its own: RingContract makes a            *)
(* specification of it, and the transports use its actions for their two   *)
(* rings.                                                                  *)
(***************************************************************************)
LOCAL INSTANCE Integers
LOCAL INSTANCE Sequences

CONSTANTS
    Capacity,      \* bytes in the data area of the ring
    FrameSize(_),  \* bytes a message occupies, prefix included
    Readable(_)    \* does the message fit the reader's buffer?

VARIABLES
    queue,         \* the messages written and not yet read, oldest first
    used           \* the bytes they occupy

BadFits(m) == used + FrameSize(m) <= Capacity
Fits(m) == used + FrameSize(m) <= Capacity - 1

\* write() returns Ok: the message is behind every earlier one.
Write(m) ==
    /\ Fits(m)
    /\ queue' = Append(queue, m)
    /\ used' = used + FrameSize(m)

\* write() returns BufferFull and changes nothing.
Full(m) == ~Fits(m) /\ UNCHANGED <<queue, used>>

\* read() returns Ok with the oldest message and removes it.
Read ==
    /\ queue # <<>>
    /\ Readable(Head(queue))
    /\ queue' = Tail(queue)
    /\ used' = used - FrameSize(Head(queue))

\* read() returns BufferEmpty.
Empty == queue = <<>> /\ UNCHANGED <<queue, used>>

\* read() returns InvalidState: the oldest message is too long for the buffer
\* and stays the oldest message.
Invalid ==
    /\ queue # <<>>
    /\ ~Readable(Head(queue))
    /\ UNCHANGED <<queue, used>>

\* read() returns an error of either kind.
NothingRead ==
    /\ ~(queue # <<>> /\ Readable(Head(queue)))
    /\ UNCHANGED <<queue, used>>
=============================================================================
