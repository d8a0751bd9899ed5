----------------------------- MODULE StreamEcho -----------------------------
(***************************************************************************)
(* One call of EchoServiceImpl::stream_echo (backend/src/main.rs): a       *)
(* spawned task reads the requests of the client one by one and sends a    *)
(* response to each into a channel of Capacity (128), from which the       *)
(* server streams them to the client.                                      *)
(*                                                                         *)
(* HTTP/2 carries requests and responses in order, at most Window of each  *)
(* under way (flow control).  A message that cannot be decoded, or is too  *)
(* large, is an Err at its place in the stream: the task ends, and the     *)
(* client sees the stream end without an error.                            *)
(***************************************************************************)
EXTENDS Integers, Sequences, SequencesExt

CONSTANTS
    Messages,     \* bound: requests the client sends, numbered from 1
    Undecodable,  \* requests that cannot be decoded
    Capacity,     \* of the channel
    Window        \* messages under way in one direction

ASSUME StreamConstantsOK ==
    /\ Messages \in Nat
    /\ Undecodable \subseteq 1 .. Messages
    /\ Capacity \in Nat \ {0}
    /\ Window \in Nat \ {0}

VARIABLES
    sent,      \* number of requests the client has sent
    client,    \* "sending", "closed" (it has said it is done) or "gone"
    inbound,   \* requests on their way to the task
    task,      \* "read", "send" or "ended"
    hand,      \* the response that the task is sending, 0 if none
    channel,   \* responses in the channel
    body,      \* the ReceiverStream: "open", "finished" or "dropped"
    outbound,  \* responses on their way to the client
    got,       \* responses the client has received
    seen       \* what the client has seen of the end: "none", "end" or "error"

stream == <<sent, client, inbound, task, hand, channel, body, outbound, got, seen>>

StreamInit ==
    /\ sent = 0
    /\ client = "sending"
    /\ inbound = <<>>
    /\ task = "read"
    /\ hand = 0
    /\ channel = <<>>
    /\ body = "open"
    /\ outbound = <<>>
    /\ got = <<>>
    /\ seen = "none"

\* The client.

SendMessage ==
    /\ client = "sending"
    /\ body # "dropped" /\ seen = "none"
    /\ sent < Messages
    /\ Len(inbound) < Window
    /\ sent' = sent + 1
    /\ inbound' = Append(inbound, sent + 1)
    /\ UNCHANGED <<client, task, hand, channel, body, outbound, got, seen>>

CloseSending ==
    /\ client = "sending"
    /\ client' = "closed"
    /\ UNCHANGED <<sent, inbound, task, hand, channel, body, outbound, got, seen>>

ReceiveMessage ==
    /\ client # "gone"
    /\ outbound # <<>>
    /\ got' = Append(got, Head(outbound))
    /\ outbound' = Tail(outbound)
    /\ UNCHANGED <<sent, client, inbound, task, hand, channel, body, seen>>

ReceiveEnd ==
    /\ client # "gone"
    /\ body = "finished" /\ outbound = <<>> /\ seen = "none"
    /\ seen' = "end"
    /\ UNCHANGED <<sent, client, inbound, task, hand, channel, body, outbound, got>>

\* It resets the stream or disconnects: the server drops the response body,
\* and with it the receiver of the channel, and the request stream fails.
LeaveStream ==
    /\ client # "gone"
    /\ client' = "gone"
    /\ inbound' = <<>>
    /\ outbound' = <<>>
    /\ channel' = <<>>
    /\ body' = "dropped"
    /\ UNCHANGED <<sent, task, hand, got, seen>>

\* The task.

TakeMessage ==
    /\ task = "read"
    /\ inbound # <<>>
    /\ inbound' = Tail(inbound)
    /\ LET m == Head(inbound)
       IN  IF m \in Undecodable THEN task' = "ended" /\ hand' = 0
                               ELSE task' = "send" /\ hand' = m
    /\ UNCHANGED <<sent, client, channel, body, outbound, got, seen>>

BadAfterNone == "read"
AfterNone == "ended"

\* message() returns None, or an Err after a reset.
EndOfStream ==
    /\ task = "read"
    /\ inbound = <<>>
    /\ client # "sending"
    /\ task' = AfterNone
    /\ UNCHANGED <<sent, client, inbound, hand, channel, body, outbound, got, seen>>

BadRoom == TRUE
Room == Len(channel) < Capacity

SendResponse ==
    /\ task = "send"
    /\ body = "open"
    /\ Room
    /\ channel' = Append(channel, hand)
    /\ hand' = 0
    /\ task' = "read"
    /\ UNCHANGED <<sent, client, inbound, body, outbound, got, seen>>

\* send() fails when the receiver is dropped: break.
BadAfterSendError == "send"
AfterSendError == "ended"

FailSend ==
    /\ task = "send"
    /\ body = "dropped"
    /\ task' = AfterSendError
    /\ hand' = 0
    /\ UNCHANGED <<sent, client, inbound, channel, body, outbound, got, seen>>

\* The server.

Stream ==
    /\ body = "open"
    /\ channel # <<>>
    /\ Len(outbound) < Window
    /\ outbound' = Append(outbound, Head(channel))
    /\ channel' = Tail(channel)
    /\ UNCHANGED <<sent, client, inbound, task, hand, body, got, seen>>

\* The channel is closed once the task has dropped its sender.
BadSenderDropped == inbound = <<>>
SenderDropped == task = "ended"

FinishStream ==
    /\ body = "open"
    /\ channel = <<>>
    /\ SenderDropped
    /\ body' = "finished"
    /\ UNCHANGED <<sent, client, inbound, task, hand, channel, outbound, got, seen>>

\* The backend process ends: of what is under way the client may still receive
\* some, and then sees an error, unless it had seen the end.
KillStream ==
    /\ task' = "ended"
    /\ hand' = 0
    /\ inbound' = <<>>
    /\ channel' = <<>>
    /\ body' = "dropped"
    /\ \E n \in 0 .. Len(outbound) : outbound' = SubSeq(outbound, 1, n)
    /\ UNCHANGED <<sent, client, got, seen>>

ReceiveError ==
    /\ client # "gone"
    /\ body = "dropped" /\ outbound = <<>> /\ seen = "none"
    /\ seen' = "error"
    /\ UNCHANGED <<sent, client, inbound, task, hand, channel, body, outbound, got>>

ClientReceives == ReceiveMessage \/ ReceiveEnd \/ ReceiveError
ServerStreams ==
    TakeMessage \/ EndOfStream \/ SendResponse \/ FailSend \/ Stream \/ FinishStream

StreamNext ==
    \/ SendMessage \/ CloseSending \/ LeaveStream \/ ClientReceives
    \/ ServerStreams

-----------------------------------------------------------------------------
\* Properties.

\* The variables have their types; channel and windows stay within their limits.
StreamTypeOK ==
    /\ sent \in 0 .. Messages
    /\ client \in {"sending", "closed", "gone"}
    /\ task \in {"read", "send", "ended"}
    /\ hand \in 0 .. Messages
    /\ \A s \in {inbound, channel, outbound, got} : s \in Seq(1 .. Messages)
    /\ Len(inbound) <= Window /\ Len(channel) <= Capacity /\ Len(outbound) <= Window
    /\ body \in {"open", "finished", "dropped"}
    /\ seen \in {"none", "end", "error"}

\* The requests that can be answered: those before the first bad one.
Answerable(n) == {m \in 1 .. n : \A b \in Undecodable : m < b}

\* A client that sees the stream end without an error has the response to each
\* request it has sent, once and in order, if it had said that it was done:
\* none is left with the task, in the channel or under way.  The exception is
\* a request that cannot be decoded: it truncates the stream, silently.
EndMeansAll ==
    seen = "end" =>
        /\ got = [i \in 1 .. Len(got) |-> i]
        /\ 1 .. Len(got) = Answerable(sent)

\* A client that has said it is done and goes on receiving sees an end.
StreamEnds == client = "closed" ~> seen # "none" \/ client = "gone"

\* The task does not outlive its client: it is not left waiting for a channel
\* that nobody empties, nor for a request that nobody sends.
TaskEndsWithClient == client = "gone" ~> task = "ended"
=============================================================================
