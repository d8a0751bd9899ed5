---------------------------- MODULE ShmPolling ----------------------------
(***************************************************************************)
(* The transport that polls: ShmTransport in the gateway                   *)
(* (gateway/src/transport.rs) and run_shm_server in the backend            *)
(* (backend/src/main.rs), with nothing between them but the two rings.     *)
(*                                                                         *)
(*   call()   write the request, then read the response ring again and     *)
(*            again until something comes out or 30 seconds are over       *)
(*   backend  read a request, sleep, write the response, in one loop       *)
(*                                                                         *)
(* Requests and responses carry no id: a call returns whatever response it *)
(* reads first.  The rings are the bounded queues of MessageQueue in units *)
(* of one message.  The tokio mutexes around them are never held across an *)
(* await, so that one read or write of a ring is one step here, and they   *)
(* serve their waiters in order, so that every call keeps polling.         *)
(***************************************************************************)
EXTENDS Integers, Sequences, FiniteSets, Functions

CONSTANTS
    Calls,          \* invocations of Transport::call
    Connections,    \* HTTP connections; each has one call at a time
    Slots,          \* messages a ring can hold
    LongRequests,   \* calls whose request exceeds the backend's buffer
    LongResponses,  \* calls whose response exceeds the gateway's buffer
    MayGiveUp,      \* may a call time out or lose its client?
    None

ASSUME ConstantsOK ==
    /\ IsFiniteSet(Calls)
    /\ Connections \in Nat \ {0}
    /\ Slots \in Nat \ {0}
    /\ LongRequests \subseteq Calls
    /\ LongResponses \subseteq Calls
    /\ MayGiveUp \in BOOLEAN
    /\ None \notin Calls

VARIABLES
    pc,         \* pc[c]: next step of call c, or how it ended
    got,        \* got[c]: the request whose response call c returned
    requests,   \* request ring
    responses,  \* response ring
    serving,    \* backend: the request it has read, or None
    sent,       \* history: the requests written, in order
    taken,      \* history: the responses read by calls, in order
    lost        \* history: the responses that found the ring full

calls == <<pc, got>>
rings == <<requests, responses>>
history == <<sent, taken, lost>>
vars == <<calls, rings, serving, history>>

One(m) == 1
FitsBackend(c) == c \notin LongRequests
FitsGateway(c) == c \notin LongResponses

Request == INSTANCE MessageQueue WITH
    queue <- requests, used <- Len(requests),
    Capacity <- Slots + 1, FrameSize <- One, Readable <- FitsBackend
Response == INSTANCE MessageQueue WITH
    queue <- responses, used <- Len(responses),
    Capacity <- Slots + 1, FrameSize <- One, Readable <- FitsGateway

Init ==
    /\ pc = [c \in Calls |-> "idle"]
    /\ got = [c \in Calls |-> None]
    /\ requests = <<>>
    /\ responses = <<>>
    /\ serving = None
    /\ sent = <<>>
    /\ taken = <<>>
    /\ lost = {}

-----------------------------------------------------------------------------
\* ShmTransport::call

Goto(c, from, to) == pc[c] = from /\ pc' = [pc EXCEPT ![c] = to]

InProgress == {c \in Calls : pc[c] \in {"write", "poll"}}

\* One connection is served one request at a time.
Start(c) ==
    /\ Goto(c, "idle", "write")
    /\ Cardinality(InProgress) < Connections
    /\ UNCHANGED <<got, rings, serving, history>>

WriteRequest(c) ==
    /\ Goto(c, "write", "poll")
    /\ Request!Write(c)
    /\ sent' = Append(sent, c)
    /\ UNCHANGED <<got, responses, serving, taken, lost>>

FailRequest(c) ==
    /\ Goto(c, "write", "failed")
    /\ Request!Full(c)
    /\ UNCHANGED <<got, responses, serving, history>>

\* A read that succeeds returns, whoever the response belongs to; one that
\* fails goes round the loop, which is no step here.
TakeResponse(c) ==
    /\ Goto(c, "poll", "ok")
    /\ Response!Read
    /\ got' = [got EXCEPT ![c] = Head(responses)]
    /\ taken' = Append(taken, Head(responses))
    /\ UNCHANGED <<requests, serving, sent, lost>>

\* start.elapsed() > timeout is tested each time round the loop, whatever the
\* last read returned.  The response, if any, will still come.
BadTimeoutTested == responses = <<>>
TimeoutTested == TRUE

Expire(c) ==
    /\ MayGiveUp
    /\ TimeoutTested
    /\ Goto(c, "poll", "expired")
    /\ UNCHANGED <<got, rings, serving, history>>

\* The HTTP client goes away: hyper drops the future between two attempts.  (A
\* call that is dropped before it has written, at the lock of the request ring,
\* has changed nothing: it is one that never starts.)
Cancel(c) ==
    /\ MayGiveUp
    /\ Goto(c, "poll", "dropped")
    /\ UNCHANGED <<got, rings, serving, history>>

-----------------------------------------------------------------------------
\* run_shm_server

BadAvailable == TRUE
Available == serving = None

TakeRequest ==
    /\ Available
    /\ Request!Read
    /\ serving' = Head(requests)
    /\ UNCHANGED <<calls, responses, history>>

\* A response is written once, then the loop reads the next request.
WriteResponse ==
    /\ serving # None
    /\ Response!Write(serving)
    /\ serving' = None
    /\ UNCHANGED <<calls, requests, history>>

\* The loop logs a warning and goes on: nobody tells the caller.
DropResponse ==
    /\ serving # None
    /\ Response!Full(serving)
    /\ lost' = lost \union {serving}
    /\ serving' = None
    /\ UNCHANGED <<calls, requests, sent, taken>>

-----------------------------------------------------------------------------
CallSteps(c) ==
    WriteRequest(c) \/ FailRequest(c) \/ TakeResponse(c) \/ Expire(c)
Backend == TakeRequest \/ WriteResponse \/ DropResponse

Next ==
    \/ \E c \in Calls : Start(c) \/ CallSteps(c) \/ Cancel(c)
    \/ Backend

Spec == Init /\ [][Next]_vars

\* The runtimes poll every ready task, and the clock of a call goes on;
\* clients need not call, nor go away.
Fairness == WF_vars(Backend) /\ \A c \in Calls : WF_vars(CallSteps(c))

FairSpec == Spec /\ Fairness

-----------------------------------------------------------------------------
\* Properties.

\* The variables have their types; no ring holds more than it can.
TypeOK ==
    /\ pc \in [Calls -> {"idle", "write", "poll", "ok", "failed", "expired", "dropped"}]
    /\ got \in [Calls -> Calls \union {None}]
    /\ requests \in Seq(Calls) /\ Len(requests) <= Slots
    /\ responses \in Seq(Calls) /\ Len(responses) <= Slots
    /\ serving \in Calls \union {None}
    /\ sent \in Seq(Calls)
    /\ taken \in Seq(Calls)
    /\ lost \subseteq Calls

\* The request of a was written before that of b.
Earlier(a, b) == \E i, j \in DOMAIN sent : i < j /\ sent[i] = a /\ sent[j] = b

\* The responses taken, those in the response ring, the one being served and
\* the requests in the ring: the way of a message, from its end.
Served == IF serving = None THEN <<>> ELSE <<serving>>
Chain == taken \o responses \o Served \o requests

\* The responses come out in the order of the requests, each exactly once,
\* through both rings and the backend, whichever calls take them and however
\* many have given up: the chain holds the requests written, in the order in
\* which they were written, without those whose response found the ring full.
InOrder ==
    /\ IsInjective(sent)
    /\ Range(Chain) = Range(sent) \ lost
    /\ \A i, j \in DOMAIN Chain : i < j => Earlier(Chain[i], Chain[j])

\* What the signature of Transport::call promises ("Transport trait for
\* different backend communication methods"): a call that returns a response
\* returns the response to its own request.
OwnResponse == \A c \in Calls : pc[c] = "ok" => got[c] = c

\* The 30 seconds of call(): every call that has written its request ends,
\* also when the response ring is blocked by a response no call can read.
CallsEnd ==
    \A c \in Calls :
        pc[c] = "poll" ~> pc[c] \in {"ok", "expired", "dropped"}
=============================================================================
