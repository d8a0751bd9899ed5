------------------------------ MODULE ShmUds ------------------------------
(***************************************************************************)
(* The transport that announces messages with bytes on a Unix socket:      *)
(* ShmTransportUds in the gateway (gateway/src/shm_transport_uds.rs),      *)
(* ShmServerUds in the backend (backend/src/shm_server_uds.rs).            *)
(*                                                                         *)
(*   call()             register in pending_requests, write the request,   *)
(*                      lock notify_write, send a byte, await the response *)
(*   backend listener   for each byte, read one request and spawn a task   *)
(*   backend task       sleep, write the response, lock the write half,    *)
(*                      send a byte                                        *)
(*   gateway listener   at a byte, read responses until there is none and  *)
(*                      hand each one to its call                          *)
(*                                                                         *)
(* The rings are the bounded queues of MessageQueue in units of one        *)
(* message.  A request may be too long for the backend's buffer (65536     *)
(* bytes); the gateway's (131072) takes every response to a request that   *)
(* the backend can read.  tokio's Mutex serves its waiters in order: a     *)
(* lock is the sequence of those who asked for it, and its head holds it.  *)
(* The socket holds SockCap bytes in each direction; a sender waits for    *)
(* room while it holds the lock.                                           *)
(***************************************************************************)
EXTENDS Integers, Sequences, SequencesExt, FiniteSets

CONSTANTS
    Calls,         \* invocations of Transport::call, each with a fresh id
    Slots,         \* messages a ring can hold
    SockCap,       \* bytes in flight in one direction of the socket
    LongRequests,  \* the sets of calls whose request may exceed the backend's buffer
    MayLeave,      \* calls whose HTTP client may go away
    MayStop,       \* may either process end?
    None

ASSUME ConstantsOK ==
    /\ IsFiniteSet(Calls)
    /\ Slots \in Nat \ {0}
    /\ SockCap \in Nat \ {0}
    /\ LongRequests \subseteq SUBSET Calls
    /\ MayLeave \subseteq Calls
    /\ MayStop \in BOOLEAN
    /\ None \notin Calls

VARIABLES
    long,         \* calls whose request exceeds the backend's buffer (fixed)
    pc,           \* pc[c]: next step of call c, or how it ended
    pending,      \* keys of pending_requests
    mailbox,      \* mailbox[c]: the response sent on the oneshot channel of c
    requests,     \* request ring
    responses,    \* response ring
    to_backend,   \* bytes in the socket on their way to the backend
    to_gateway,   \* bytes in the socket on their way to the gateway
    call_lock,    \* notify_write: the calls that hold it or wait for it
    task_lock,    \* the backend's write half: the tasks likewise
    serving,      \* backend listener: awaits a "byte", has to read its "request",
                  \* or has "exited" at an error
    task,         \* task[c]: state of the backend task that serves c
    listening,    \* gateway listener: "byte", "drain" or, after an error, "exited"
    held,         \* gateway listener: the response it has read, or None
    backend_up,   \* is the backend process running?
    gateway_up    \* is the gateway process running?

calls == <<pc, pending, mailbox, call_lock>>
rings == <<requests, responses>>
socket == <<to_backend, to_gateway>>
backend == <<serving, task, task_lock>>
listener == <<listening, held>>
processes == <<long, backend_up, gateway_up>>
vars == <<calls, rings, socket, backend, listener, processes>>

One(m) == 1
AnyLength(m) == TRUE

Request == INSTANCE MessageQueue WITH
    queue <- requests, used <- Len(requests),
    Capacity <- Slots + 1, FrameSize <- One, Readable <- AnyLength
Response == INSTANCE MessageQueue WITH
    queue <- responses, used <- Len(responses),
    Capacity <- Slots + 1, FrameSize <- One, Readable <- AnyLength

Init ==
    /\ long \in LongRequests
    /\ pc = [c \in Calls |-> "idle"]
    /\ pending = {}
    /\ mailbox = [c \in Calls |-> None]
    /\ requests = <<>>
    /\ responses = <<>>
    /\ to_backend = 0
    /\ to_gateway = 0
    /\ call_lock = <<>>
    /\ task_lock = <<>>
    /\ serving = "byte"
    /\ task = [c \in Calls |-> "none"]
    /\ listening = "byte"
    /\ held = None
    /\ backend_up = TRUE
    /\ gateway_up = TRUE

\* write_u8 puts one byte into the socket, read_exact takes one out.
BadHasRoom(bytes) == bytes <= SockCap
HasRoom(bytes) == bytes < SockCap
Sent(bytes) == bytes + 1
Received(bytes) == bytes - 1

-----------------------------------------------------------------------------
\* ShmTransportUds::call

Goto(c, from, to) ==
    gateway_up /\ pc[c] = from /\ pc' = [pc EXCEPT ![c] = to]

Register(c) ==
    /\ Goto(c, "idle", "write")
    /\ pending' = pending \union {c}
    /\ UNCHANGED <<mailbox, call_lock, rings, socket, backend, listener, processes>>

WriteRequest(c) ==
    /\ Goto(c, "write", "lock")
    /\ Request!Write(c)
    /\ UNCHANGED <<pending, mailbox, call_lock, responses, socket, backend, listener, processes>>

\* The early return leaves the entry in pending_requests.
BadAfterFull == "lock"
AfterFull == "failed"

FailRequest(c) ==
    /\ Goto(c, "write", AfterFull)
    /\ Request!Full(c)
    /\ UNCHANGED <<pending, mailbox, call_lock, responses, socket, backend, listener, processes>>

LockNotify(c) ==
    /\ Goto(c, "lock", "notify")
    /\ call_lock' = Append(call_lock, c)
    /\ UNCHANGED <<pending, mailbox, rings, socket, backend, listener, processes>>

Holds(lock, c) == lock # <<>> /\ Head(lock) = c

NotifyBackend(c) ==
    /\ Goto(c, "notify", "await")
    /\ Holds(call_lock, c)
    /\ backend_up
    /\ HasRoom(to_backend)
    /\ to_backend' = Sent(to_backend)
    /\ call_lock' = Tail(call_lock)
    /\ UNCHANGED <<pending, mailbox, rings, to_gateway, backend, listener, processes>>

\* write_u8 fails (EPIPE): the request stays in the ring, the entry in the map.
FailNotify(c) ==
    /\ Goto(c, "notify", "unannounced")
    /\ Holds(call_lock, c)
    /\ ~backend_up
    /\ call_lock' = Tail(call_lock)
    /\ UNCHANGED <<pending, mailbox, rings, socket, backend, listener, processes>>

Return(c) ==
    /\ Goto(c, "await", "ok")
    /\ mailbox[c] # None
    /\ UNCHANGED <<pending, mailbox, call_lock, rings, socket, backend, listener, processes>>

\* The HTTP client goes away and hyper drops the future: before it has sent
\* its byte (it leaves the mutex's queue), or while it awaits the response.
Abandon(c) ==
    /\ c \in MayLeave
    /\ Goto(c, "notify", "abandoned")
    /\ \E i \in DOMAIN call_lock :
           call_lock[i] = c /\ call_lock' = RemoveAt(call_lock, i)
    /\ UNCHANGED <<pending, mailbox, rings, socket, backend, listener, processes>>

Cancel(c) ==
    /\ c \in MayLeave
    /\ Goto(c, "await", "dropped")
    /\ UNCHANGED <<pending, mailbox, call_lock, rings, socket, backend, listener, processes>>

-----------------------------------------------------------------------------
\* ShmServerUds::run

Listens(from) == backend_up /\ serving = from

BackendWakes ==
    /\ Listens("byte")
    /\ to_backend > 0
    /\ to_backend' = Received(to_backend)
    /\ serving' = "request"
    /\ UNCHANGED <<calls, rings, to_gateway, task, task_lock, listener, processes>>

\* The end of the stream, once the bytes in flight are read.  The backend
\* goes on without its listener.
BackendExits ==
    /\ Listens("byte")
    /\ ~gateway_up
    /\ to_backend = 0
    /\ serving' = "exited"
    /\ UNCHANGED <<calls, rings, socket, task, task_lock, listener, processes>>

\* A request that is too long for the backend's buffer is at the head of the
\* ring, for ever.
Blocked == requests # <<>> /\ Head(requests) \in long

TakeRequest ==
    /\ Listens("request")
    /\ ~Blocked
    /\ Request!Read
    /\ serving' = "byte"
    /\ task' = [task EXCEPT ![Head(requests)] = "running"]
    /\ UNCHANGED <<calls, responses, socket, task_lock, listener, processes>>

\* read() fails: back to waiting for the next byte.
SkipRequest ==
    /\ Listens("request")
    /\ Blocked \/ Request!Empty
    /\ serving' = "byte"
    /\ UNCHANGED <<calls, rings, socket, task, task_lock, listener, processes>>

Step(c, from, to) ==
    /\ backend_up
    /\ task[c] = from
    /\ task' = [task EXCEPT ![c] = to]
    /\ UNCHANGED <<calls, requests, to_backend, serving, listener, processes>>

\* What a task does after it has written its response.
BadAfterResponse == "done"
AfterResponse == "lock"

WriteResponse(c) ==
    /\ Step(c, "running", AfterResponse)
    /\ Response!Write(c)
    /\ UNCHANGED <<to_gateway, task_lock>>

\* The task logs a warning and ends: nobody tells the caller.
DropResponse(c) ==
    /\ Step(c, "running", "lost")
    /\ Response!Full(c)
    /\ UNCHANGED <<to_gateway, task_lock>>

LockReply(c) ==
    /\ Step(c, "lock", "notify")
    /\ task_lock' = Append(task_lock, c)
    /\ UNCHANGED <<responses, to_gateway>>

NotifyGateway(c) ==
    /\ Step(c, "notify", "done")
    /\ Holds(task_lock, c)
    /\ gateway_up
    /\ HasRoom(to_gateway)
    /\ to_gateway' = Sent(to_gateway)
    /\ task_lock' = Tail(task_lock)
    /\ UNCHANGED responses

\* write_u8 fails (EPIPE): a warning, and the task ends like any other.
BadAfterError == "lock"
AfterError == "done"

FailReply(c) ==
    /\ Step(c, "notify", AfterError)
    /\ Holds(task_lock, c)
    /\ ~gateway_up
    /\ task_lock' = Tail(task_lock)
    /\ UNCHANGED <<responses, to_gateway>>

\* A process ends, and with it its tasks and its end of the socket.  The rings
\* stay in memory, with what was published to them.  What happens when both
\* have ended is nothing.
BackendStops ==
    /\ MayStop
    /\ backend_up /\ gateway_up
    /\ backend_up' = FALSE
    /\ UNCHANGED <<calls, rings, socket, backend, listener, long, gateway_up>>

GatewayStops ==
    /\ MayStop
    /\ gateway_up /\ backend_up
    /\ gateway_up' = FALSE
    /\ UNCHANGED <<calls, rings, socket, backend, listener, long, backend_up>>

-----------------------------------------------------------------------------
\* The task spawned by ShmTransportUds::new

Awaits(from) == gateway_up /\ listening = from /\ held = None

ListenerWakes ==
    /\ Awaits("byte")
    /\ to_gateway > 0
    /\ to_gateway' = Received(to_gateway)
    /\ listening' = "drain"
    /\ UNCHANGED <<calls, rings, to_backend, backend, held, processes>>

\* The end of the stream, once the bytes in flight are read.
ListenerExits ==
    /\ Awaits("byte")
    /\ ~backend_up
    /\ to_gateway = 0
    /\ listening' = "exited"
    /\ UNCHANGED <<calls, rings, socket, backend, held, processes>>

TakeResponse ==
    /\ Awaits("drain")
    /\ Response!Read
    /\ held' = Head(responses)
    /\ UNCHANGED <<calls, requests, socket, backend, listening, processes>>

StopDraining ==
    /\ Awaits("drain")
    /\ Response!NothingRead
    /\ listening' = "byte"
    /\ UNCHANGED <<calls, requests, socket, backend, held, processes>>

\* The entry of pending_requests whose sender gets the response.
BadRecipient(id) == IF pending = {} THEN id ELSE CHOOSE c \in pending : TRUE
Recipient(id) == id

BadUnregister(c) == pending
Unregister(c) == pending \ {c}

\* The call's future still exists.  A response may come before its call has sent
\* its byte: the byte of another call made the backend read the request.
BadWaiting(c) == pc[c] = "await"
Waiting(c) == pc[c] \in {"lock", "notify", "await"}

\* Under the lock of pending_requests; send() fails when the call is gone.
Deliver ==
    /\ gateway_up
    /\ held # None
    /\ held' = None
    /\ LET c == Recipient(held)
       IN  /\ pending' = Unregister(c)
           /\ mailbox' = IF c \in pending /\ Waiting(c)
                         THEN [mailbox EXCEPT ![c] = held] ELSE mailbox
    /\ UNCHANGED <<pc, call_lock, rings, socket, backend, listening, processes>>

-----------------------------------------------------------------------------
CallSteps(c) ==
    \/ WriteRequest(c) \/ FailRequest(c) \/ LockNotify(c)
    \/ NotifyBackend(c) \/ FailNotify(c) \/ Return(c)
BackendListener == BackendWakes \/ BackendExits \/ TakeRequest \/ SkipRequest
TaskSteps(c) ==
    \/ WriteResponse(c) \/ DropResponse(c) \/ LockReply(c)
    \/ NotifyGateway(c) \/ FailReply(c)
GatewayListener ==
    ListenerWakes \/ ListenerExits \/ TakeResponse \/ StopDraining \/ Deliver

Next ==
    \/ \E c \in Calls :
           Register(c) \/ CallSteps(c) \/ Abandon(c) \/ Cancel(c) \/ TaskSteps(c)
    \/ BackendListener
    \/ GatewayListener
    \/ BackendStops \/ GatewayStops

Spec == Init /\ [][Next]_vars

\* The runtimes poll every ready task; clients need not call, nor go away.
Fairness ==
    /\ \A c \in Calls : WF_vars(CallSteps(c)) /\ WF_vars(TaskSteps(c))
    /\ WF_vars(BackendListener)
    /\ WF_vars(GatewayListener)

FairSpec == Spec /\ Fairness

-----------------------------------------------------------------------------
\* Properties.

Dropped == {"abandoned", "dropped"}
Failed == {"failed", "unannounced"}

\* The variables have their types; neither ring nor socket exceeds its size.
TypeOK ==
    /\ long \in LongRequests
    /\ pc \in [Calls -> {"idle", "write", "lock", "notify", "await", "ok"}
                           \union Dropped \union Failed]
    /\ pending \subseteq Calls
    /\ mailbox \in [Calls -> Calls \union {None}]
    /\ requests \in Seq(Calls) /\ Len(requests) <= Slots
    /\ responses \in Seq(Calls) /\ Len(responses) <= Slots
    /\ {to_backend, to_gateway} \subseteq 0 .. SockCap
    /\ call_lock \in Seq(Calls) /\ IsInjective(call_lock)
    /\ task_lock \in Seq(Calls) /\ IsInjective(task_lock)
    /\ serving \in {"byte", "request", "exited"}
    /\ task \in [Calls -> {"none", "running", "lock", "notify", "done", "lost"}]
    /\ listening \in {"byte", "drain", "exited"}
    /\ held \in Calls \union {None}
    /\ {backend_up, gateway_up} \subseteq BOOLEAN

\* Calls that have written their request and not sent their byte.
Announcing == {c \in Calls : pc[c] \in {"lock", "notify"}}
\* Calls that never will.
Silent == {c \in Calls : pc[c] \in {"abandoned", "unannounced"}}

\* The backend reads one request for each byte, so the requests in the ring
\* are the bytes that are under way, still to be sent, or never sent: each
\* call dropped before its byte leaves the backend one request behind for
\* ever.  A blocked ring uses up bytes, and even then a byte never runs ahead
\* of its request.
RequestsMatchBytes ==
    LET announced == to_backend + Cardinality(Announcing)
                         + (IF serving = "request" THEN 1 ELSE 0)
    IN  backend_up =>
            /\ Len(requests) >= announced
            /\ ~Blocked => Len(requests) = announced + Cardinality(Silent)

\* The gateway reads responses until there is none, so a response in the ring
\* has a byte under way, or a task that will send one, or the listener is
\* reading; the listener never sleeps on it while both processes live.
ResponsesAnnounced ==
    backend_up /\ gateway_up /\ responses # <<>> =>
        \/ to_gateway > 0
        \/ listening = "drain"
        \/ \E c \in Calls : task[c] \in {"lock", "notify"}

\* Where the request of c or its response is.
Occurrences(ring, c) == Cardinality({i \in 1 .. Len(ring) : ring[i] = c})
InFlight(c) ==
    Occurrences(requests, c) + Occurrences(responses, c)
        + (IF task[c] = "running" THEN 1 ELSE 0) + (IF held = c THEN 1 ELSE 0)

\* A request that was written is in exactly one place: in a ring, with its
\* task, in the listener's hands, or lost with a full response ring; and its
\* entry stays in pending_requests until its response has been handed over.
\* A call that could not write leaves an entry behind, and nothing else.
InOnePlace ==
    \A c \in Calls :
        /\ pc[c] \in {"write", "failed"} => InFlight(c) = 0 /\ c \in pending
        /\ pc[c] \notin {"idle", "write", "failed"} =>
               InFlight(c) = IF c \in pending /\ task[c] # "lost" THEN 1 ELSE 0

\* The transport keeps the contract of EchoRpc: at most one end for each call,
\* and only its own response.
Phase(c) ==
    CASE pc[c] \in {"idle", "ok"} -> pc[c]
      [] pc[c] \in Dropped -> "dropped"
      [] pc[c] \in Failed -> "failed"
      [] OTHER -> "waiting"
Rpc == INSTANCE EchoRpc WITH
    NoAnswer <- None,
    phase <- [c \in Calls |-> Phase(c)],
    answer <- [c \in Calls |-> IF pc[c] = "ok" THEN mailbox[c] ELSE None]
ImplementsRpc == Rpc!Spec

\* While both processes live, no call has been dropped before its byte and no
\* request blocks the ring, a call whose request is in the ring returns its
\* response, through both locks and a socket that may be full, unless it is
\* dropped or its response found the response ring full.
AnsweredUnlessLost ==
    \A c \in Calls :
        pc[c] = "lock" ~> \/ pc[c] \in {"ok", "dropped"}
                          \/ task[c] = "lost"
                          \/ Silent # {} \/ Blocked
                          \/ ~backend_up \/ ~gateway_up

\* A task of the backend that has written its response comes to its end, even
\* when the gateway has gone and the socket is full: it does not hold the lock
\* for ever, nor make the tasks behind it wait for ever.
TasksEnd ==
    \A c \in Calls : task[c] = "lock" ~> task[c] = "done" \/ ~backend_up
=============================================================================
