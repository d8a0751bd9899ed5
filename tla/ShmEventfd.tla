---------------------------- MODULE ShmEventfd ----------------------------
(***************************************************************************)
(* The eventfd transport: ShmTransportEventfd in the gateway               *)
(* (gateway/src/shm_transport_eventfd.rs), ShmServerEventfd in the backend *)
(* (backend/src/shm_server_eventfd.rs), two rings and two eventfds between *)
(* them, after the control socket has carried the eventfds over.           *)
(*                                                                         *)
(*   call()             register in pending_requests, write the request,   *)
(*                      signal request_event, await the response           *)
(*   backend listener   wait for request_event, read as many requests as   *)
(*                      its count says, spawn a task for each              *)
(*   backend task       sleep, write the response, signal response_event   *)
(*   gateway listener   wait for response_event, read as many responses as *)
(*                      its count says, hand each one to its call          *)
(*                                                                         *)
(* A ring is the bounded queue of RingContract, in units of one message.   *)
(* A request and its response carry the id of their call, which stands for *)
(* both.  An eventfd is the counter that EventCount specifies, and         *)
(* EventFdWait shows wait_eventfd and wait_eventfd_async to implement; the *)
(* number of calls bounds its count, so that it never saturates.           *)
(***************************************************************************)
EXTENDS Integers, Sequences, FiniteSets

CONSTANTS
    Calls,           \* invocations of Transport::call, each with a fresh id
    Slots,           \* messages a ring can hold
    LongRequests,    \* calls whose request exceeds the backend's buffer
    LongResponses,   \* calls whose response exceeds the gateway's buffer
    None

ASSUME ConstantsOK ==
    /\ IsFiniteSet(Calls)
    /\ Slots \in Nat \ {0}
    /\ LongRequests \subseteq Calls
    /\ LongResponses \subseteq Calls
    /\ None \notin Calls

VARIABLES
    pc,              \* pc[c]: next step of call c, or how it ended
    pending,         \* keys of pending_requests
    mailbox,         \* mailbox[c]: the response sent on the oneshot channel of c
    requests,        \* request ring
    responses,       \* response ring
    request_event,   \* count of the eventfd that the backend waits for
    response_event,  \* count of the eventfd that the gateway waits for
    request_todo,    \* backend listener: iterations its for loop has left
    task,            \* task[c]: state of the backend task that serves c
    response_todo,   \* gateway listener: iterations its for loop has left
    held             \* gateway listener: the response it has read, or None

calls == <<pc, pending, mailbox>>
rings == <<requests, responses>>
events == <<request_event, response_event>>
backend == <<request_todo, task>>
listener == <<response_todo, held>>
vars == <<calls, rings, events, backend, listener>>

One(m) == 1
FitsBackend(c) == c \notin LongRequests
FitsGateway(c) == c \notin LongResponses

Request == INSTANCE MessageQueue WITH
    queue <- requests, used <- Len(requests),
    Capacity <- Slots + 1, FrameSize <- One, Readable <- FitsBackend
Response == INSTANCE MessageQueue WITH
    queue <- responses, used <- Len(responses),
    Capacity <- Slots + 1, FrameSize <- One, Readable <- FitsGateway

Init ==
    /\ pc = [c \in Calls |-> "idle"]
    /\ pending = {}
    /\ mailbox = [c \in Calls |-> None]
    /\ requests = <<>>
    /\ responses = <<>>
    /\ request_event = 0
    /\ response_event = 0
    /\ request_todo = 0
    /\ task = [c \in Calls |-> "none"]
    /\ response_todo = 0
    /\ held = None

-----------------------------------------------------------------------------
\* ShmTransportEventfd::call

Goto(c, from, to) == pc[c] = from /\ pc' = [pc EXCEPT ![c] = to]

\* signal_eventfd: add 1 to the count.
BadSignalled(count) == count + 2
Signalled(count) == count + 1

Register(c) ==
    /\ Goto(c, "idle", "write")
    /\ pending' = pending \union {c}
    /\ UNCHANGED <<mailbox, rings, events, backend, listener>>

WriteRequest(c) ==
    /\ Goto(c, "write", "signal")
    /\ Request!Write(c)
    /\ UNCHANGED <<pending, mailbox, responses, events, backend, listener>>

\* The early return leaves the entry in pending_requests.
FailRequest(c) ==
    /\ Goto(c, "write", "failed")
    /\ Request!Full(c)
    /\ UNCHANGED <<pending, mailbox, responses, events, backend, listener>>

SignalRequest(c) ==
    /\ Goto(c, "signal", "await")
    /\ request_event' = Signalled(request_event)
    /\ UNCHANGED <<pending, mailbox, rings, response_event, backend, listener>>

Return(c) ==
    /\ Goto(c, "await", "ok")
    /\ mailbox[c] # None
    /\ UNCHANGED <<pending, mailbox, rings, events, backend, listener>>

\* The HTTP client goes away: hyper drops the future while it awaits.
Cancel(c) ==
    /\ Goto(c, "await", "dropped")
    /\ UNCHANGED <<pending, mailbox, rings, events, backend, listener>>

-----------------------------------------------------------------------------
\* ShmServerEventfd::run

\* wait_eventfd: read() takes the whole count and resets it.
BackendWakes ==
    /\ request_todo = 0
    /\ request_event > 0
    /\ request_todo' = request_event
    /\ request_event' = 0
    /\ UNCHANGED <<calls, rings, response_event, task, listener>>

TakeRequest ==
    /\ request_todo > 0
    /\ Request!Read
    /\ request_todo' = request_todo - 1
    /\ task' = [task EXCEPT ![Head(requests)] = "running"]
    /\ UNCHANGED <<calls, responses, events, listener>>

\* read() fails: continue with the next iteration.
SkipRequest ==
    /\ request_todo > 0
    /\ Request!NothingRead
    /\ request_todo' = request_todo - 1
    /\ UNCHANGED <<calls, responses, events, task, listener>>

Step(c, from, to) == task[c] = from /\ task' = [task EXCEPT ![c] = to]

WriteResponse(c) ==
    /\ Step(c, "running", "signal")
    /\ Response!Write(c)
    /\ UNCHANGED <<calls, requests, events, request_todo, listener>>

\* The task logs a warning and ends: nobody tells the caller.
BadSignalAfterDrop == Signalled(response_event)
SignalAfterDrop == response_event

DropResponse(c) ==
    /\ Step(c, "running", "lost")
    /\ Response!Full(c)
    /\ response_event' = SignalAfterDrop
    /\ UNCHANGED <<calls, requests, request_event, request_todo, listener>>

SignalResponse(c) ==
    /\ Step(c, "signal", "done")
    /\ response_event' = Signalled(response_event)
    /\ UNCHANGED <<calls, rings, request_event, request_todo, listener>>

-----------------------------------------------------------------------------
\* ShmTransportEventfd::start_response_listener

BadIterations(count) == 1
Iterations(count) == count

ListenerWakes ==
    /\ response_todo = 0
    /\ held = None
    /\ response_event > 0
    /\ response_todo' = Iterations(response_event)
    /\ response_event' = 0
    /\ UNCHANGED <<calls, rings, request_event, backend, held>>

TakeResponse ==
    /\ response_todo > 0
    /\ held = None
    /\ Response!Read
    /\ held' = Head(responses)
    /\ response_todo' = response_todo - 1
    /\ UNCHANGED <<calls, requests, events, backend>>

\* read() fails: leave the for loop, with what is left of the count.
StopReading ==
    /\ response_todo > 0
    /\ held = None
    /\ Response!NothingRead
    /\ response_todo' = 0
    /\ UNCHANGED <<calls, requests, events, backend, held>>

\* The entry of pending_requests whose sender gets the response.
BadRecipient(id) == IF pending = {} THEN id ELSE CHOOSE c \in pending : TRUE
Recipient(id) == id

BadUnregister(c) == pending
Unregister(c) == pending \ {c}

\* Under the lock of pending_requests; send() fails when the call was dropped.
Deliver ==
    /\ held # None
    /\ held' = None
    /\ LET c == Recipient(held)
       IN  /\ pending' = Unregister(c)
           /\ mailbox' = IF c \in pending /\ pc[c] # "dropped"
                         THEN [mailbox EXCEPT ![c] = held] ELSE mailbox
    /\ UNCHANGED <<pc, rings, events, backend, response_todo>>

-----------------------------------------------------------------------------
CallSteps(c) ==
    WriteRequest(c) \/ FailRequest(c) \/ SignalRequest(c) \/ Return(c)
BackendListener == BackendWakes \/ TakeRequest \/ SkipRequest
TaskSteps(c) == WriteResponse(c) \/ DropResponse(c) \/ SignalResponse(c)
GatewayListener == ListenerWakes \/ TakeResponse \/ StopReading \/ Deliver

Next ==
    \/ \E c \in Calls : Register(c) \/ CallSteps(c) \/ Cancel(c) \/ TaskSteps(c)
    \/ BackendListener
    \/ GatewayListener

Spec == Init /\ [][Next]_vars

\* The runtimes poll every ready task; clients need not call, nor go away.
Fairness ==
    /\ \A c \in Calls : WF_vars(CallSteps(c)) /\ WF_vars(TaskSteps(c))
    /\ WF_vars(BackendListener)
    /\ WF_vars(GatewayListener)

FairSpec == Spec /\ Fairness

-----------------------------------------------------------------------------
\* Properties.

CallEnds == {"ok", "failed", "dropped"}

\* The variables have their types; no count exceeds the number of calls.
TypeOK ==
    /\ pc \in [Calls -> {"idle", "write", "signal", "await"} \union CallEnds]
    /\ pending \subseteq Calls
    /\ mailbox \in [Calls -> Calls \union {None}]
    /\ requests \in Seq(Calls) /\ Len(requests) <= Slots
    /\ responses \in Seq(Calls) /\ Len(responses) <= Slots
    /\ request_event \in 0 .. Cardinality(Calls)
    /\ response_event \in 0 .. Cardinality(Calls)
    /\ request_todo \in 0 .. Cardinality(Calls)
    /\ task \in [Calls -> {"none", "running", "signal", "done", "lost"}]
    /\ response_todo \in 0 .. Cardinality(Calls)
    /\ held \in Calls \union {None}

\* The messages of a ring that are announced or about to be: the count of its
\* eventfd, what is left of the counts already taken, and the writers that
\* have written and not yet signalled.
RequestsAnnounced ==
    request_event + request_todo + Cardinality({c \in Calls : pc[c] = "signal"})
ResponsesAnnounced ==
    response_event + response_todo + Cardinality({c \in Calls : task[c] = "signal"})

\* The head of a ring is too long for the buffer it is read into: nothing
\* behind it is ever read.
RequestsBlocked == requests # <<>> /\ ~FitsBackend(Head(requests))
ResponsesBlocked == responses # <<>> /\ ~FitsGateway(Head(responses))

\* Every message in a ring has one signal on its way, and every signal one
\* message: no listener sleeps on a message or wakes for nothing, although
\* writes and signals of concurrent calls interleave and a count is taken
\* whole.  A ring that is blocked uses up its signals, and even then a signal
\* never runs ahead of its message.
SignalsMatchMessages ==
    /\ Len(requests) >= RequestsAnnounced
    /\ Len(responses) >= ResponsesAnnounced
    /\ ~RequestsBlocked => Len(requests) = RequestsAnnounced
    /\ ~ResponsesBlocked => Len(responses) = ResponsesAnnounced

\* Where the request of c or its response is.
Occurrences(ring, c) == Cardinality({i \in 1 .. Len(ring) : ring[i] = c})
InFlight(c) ==
    Occurrences(requests, c) + Occurrences(responses, c)
        + (IF task[c] = "running" THEN 1 ELSE 0) + (IF held = c THEN 1 ELSE 0)

\* A request that was written is in exactly one place: in a ring, with its
\* task, in the listener's hands, or lost with a full response ring; and its
\* entry stays in pending_requests until its response has been handed over.
\* A call that could not write leaves an entry behind, and nothing else.
InOnePlace ==
    \A c \in Calls :
        /\ pc[c] \in {"write", "failed"} => InFlight(c) = 0 /\ c \in pending
        /\ pc[c] \in {"signal", "await", "ok", "dropped"} =>
               InFlight(c) = IF c \in pending /\ task[c] # "lost" THEN 1 ELSE 0

\* The transport keeps the contract of EchoRpc: at most one end for each call,
\* and only its own response.
Phase(c) == IF pc[c] \in {"write", "signal", "await"} THEN "waiting" ELSE pc[c]
Rpc == INSTANCE EchoRpc WITH
    NoAnswer <- None,
    phase <- [c \in Calls |-> Phase(c)],
    answer <- [c \in Calls |-> IF pc[c] = "ok" THEN mailbox[c] ELSE None]
ImplementsRpc == Rpc!Spec

\* A call whose request is in the ring returns its response, unless it is
\* dropped, its response found the response ring full, or a message that
\* cannot be read blocks a ring.
AnsweredUnlessLost ==
    \A c \in Calls :
        pc[c] = "await" ~> \/ pc[c] \in {"ok", "dropped"}
                           \/ task[c] = "lost"
                           \/ RequestsBlocked \/ ResponsesBlocked
=============================================================================
