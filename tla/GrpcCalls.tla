----------------------------- MODULE GrpcCalls -----------------------------
(***************************************************************************)
(* HTTP requests that become unary gRPC calls: Gateway::handle_request     *)
(* (gateway/src/main.rs), TcpTransport::call and UdsTransport::call        *)
(* (gateway/src/transport.rs, the same code over two kinds of socket),     *)
(* EchoServiceImpl::echo (backend/src/main.rs), and the counters that both *)
(* programs keep of them.                                                  *)
(*                                                                         *)
(* The clones of the tonic client share one HTTP/2 connection, on which    *)
(* each call has a stream of its own.  tonic notices the end of the        *)
(* connection after a while, connects again for a later call, fails a call *)
(* after 30 seconds, and resets the stream of a call that has ended; the   *)
(* server then drops the handler.  The backend may end and be started      *)
(* again.                                                                  *)
(***************************************************************************)
EXTENDS Integers, FiniteSets

CONSTANTS
    Requests,  \* HTTP requests
    MaxStarts  \* bound: how often the backend is started

ASSUME GrpcConstantsOK == IsFiniteSet(Requests) /\ MaxStarts \in Nat \ {0}

VARIABLES
    pc,             \* pc[r]: handle_request: "idle", "body", "call", or how it ended
    wire,           \* wire[r]: the stream of r: "none", "request", "handling",
                    \* "response" or "broken"
    run,            \* number of times the backend has been started
    up,             \* is it running?
    link,           \* the run that the channel is connected to, 0 for none
    http_total,     \* HTTP_REQUESTS_TOTAL
    http_observed,  \* observations of HTTP_REQUEST_DURATION
    grpc_total,     \* GRPC_REQUESTS_TOTAL
    grpc_observed,  \* observations of GRPC_REQUEST_DURATION
    served,         \* REQUEST_COUNTER, summed over the runs of the backend
    timed           \* observations of REQUEST_DURATION, likewise

gateway_counters == <<http_total, http_observed, grpc_total, grpc_observed>>
backend_counters == <<served, timed>>
process == <<run, up, link>>
unary == <<pc, wire, process, gateway_counters, backend_counters>>

UnaryInit ==
    /\ pc = [r \in Requests |-> "idle"]
    /\ wire = [r \in Requests |-> "none"]
    /\ run = 1
    /\ up = TRUE
    /\ link = 1  \* TcpTransport::new connects before the server starts
    /\ http_total = 0 /\ http_observed = 0
    /\ grpc_total = 0 /\ grpc_observed = 0
    /\ served = 0 /\ timed = 0

Goto(r, from, to) == pc[r] = from /\ pc' = [pc EXCEPT ![r] = to]
Becomes(r, from, to) == wire[r] = from /\ wire' = [wire EXCEPT ![r] = to]

-----------------------------------------------------------------------------
\* Gateway::handle_request and the transport

ReceiveRequest(r) ==
    /\ Goto(r, "idle", "body")
    /\ http_total' = http_total + 1
    /\ UNCHANGED <<wire, process, http_observed, grpc_total, grpc_observed, backend_counters>>

\* The body cannot be read: 400, without an observation.
RefuseBody(r) ==
    /\ Goto(r, "body", "400")
    /\ UNCHANGED <<wire, process, gateway_counters, backend_counters>>

Linked == link = run /\ up

\* On a connection whose end tonic has not noticed the call breaks, and so it
\* does when no backend can be connected to.
Connects == Linked \/ (link = 0 /\ up)

\* GRPC_REQUESTS_TOTAL.inc() comes before the call.
BadCountsCall == grpc_total
CountsCall == grpc_total + 1

CallBackend(r) ==
    /\ Goto(r, "body", "call")
    /\ grpc_total' = CountsCall
    /\ wire' = [wire EXCEPT ![r] = IF Connects THEN "request" ELSE "broken"]
    /\ link' = IF Connects THEN run ELSE 0
    /\ UNCHANGED <<run, up, http_total, http_observed, grpc_observed, backend_counters>>

\* The connection task of the channel sees the end of the stream.
NoticeEnd ==
    /\ link # 0
    /\ ~Linked
    /\ link' = 0
    /\ UNCHANGED <<pc, wire, run, up, gateway_counters, backend_counters>>

Return(r) ==
    /\ Goto(r, "call", "200")
    /\ Becomes(r, "response", "none")
    /\ grpc_observed' = grpc_observed + 1
    /\ http_observed' = http_observed + 1
    /\ UNCHANGED <<process, http_total, grpc_total, backend_counters>>

\* Err of the transport.
FailCall(r) ==
    /\ Goto(r, "call", "503")
    /\ http_observed' = http_observed + 1
    /\ UNCHANGED <<wire, process, http_total, grpc_total, grpc_observed, backend_counters>>

\* A call whose connection is lost, or that finds no backend to connect to,
\* fails; it does not wait for the next backend.
BadFails(r) == wire[r] = "broken" /\ up
Fails(r) == wire[r] = "broken"

BreakCall(r) == Fails(r) /\ FailCall(r)

\* The timeout of the endpoint, at any moment of a call.
TimeOut(r) == FailCall(r)

\* The HTTP client goes away: hyper drops the future.
DropRequest(r) ==
    /\ pc[r] \in {"body", "call"}
    /\ pc' = [pc EXCEPT ![r] = "dropped"]
    /\ UNCHANGED <<wire, process, gateway_counters, backend_counters>>

\* The stream of a call that has ended is reset: the handler is dropped.
Ended == {"200", "400", "503", "dropped"}

ResetStream(r) ==
    /\ pc[r] \in Ended
    /\ wire[r] # "none"
    /\ wire' = [wire EXCEPT ![r] = "none"]
    /\ UNCHANGED <<pc, process, gateway_counters, backend_counters>>

-----------------------------------------------------------------------------
\* EchoServiceImpl::echo

Handle(r) ==
    /\ up
    /\ Becomes(r, "request", "handling")
    /\ served' = served + 1
    /\ UNCHANGED <<pc, process, gateway_counters, timed>>

\* After the delay.
Respond(r) ==
    /\ up
    /\ Becomes(r, "handling", "response")
    /\ timed' = timed + 1
    /\ UNCHANGED <<pc, process, gateway_counters, served>>

\* The process ends.  A response that is under way may still arrive.
StopBackend ==
    /\ up
    /\ up' = FALSE
    /\ \E kept \in SUBSET {r \in Requests : wire[r] = "response"} :
           wire' = [r \in Requests |->
                       IF wire[r] = "none" \/ r \in kept THEN wire[r] ELSE "broken"]
    /\ UNCHANGED <<pc, run, link, gateway_counters, backend_counters>>

StartBackend ==
    /\ ~up
    /\ run < MaxStarts
    /\ up' = TRUE
    /\ run' = run + 1
    /\ UNCHANGED <<pc, wire, link, gateway_counters, backend_counters>>

\* What the awaited call returns when its timer does not fire, and the handler.
CallSteps(r) == Return(r) \/ BreakCall(r)
HandlerSteps(r) == Handle(r) \/ Respond(r)

UnaryNext ==
    \/ \E r \in Requests :
           \/ ReceiveRequest(r) \/ RefuseBody(r) \/ CallBackend(r) \/ CallSteps(r)
           \/ TimeOut(r) \/ DropRequest(r) \/ ResetStream(r) \/ HandlerSteps(r)
    \/ NoticeEnd
    \/ StartBackend

-----------------------------------------------------------------------------
\* Properties.

\* The variables have their types.
UnaryTypeOK ==
    /\ pc \in [Requests -> {"idle", "body", "call"} \union Ended]
    /\ wire \in [Requests -> {"none", "request", "handling", "response", "broken"}]
    /\ run \in 1 .. MaxStarts
    /\ up \in BOOLEAN
    /\ link \in 0 .. MaxStarts
    /\ {http_total, http_observed, grpc_total, grpc_observed, served, timed}
           \subseteq 0 .. Cardinality(Requests)

Having(states) == Cardinality({r \in Requests : pc[r] \in states})

\* What the two programs export agrees, whoever times out, goes away or is
\* restarted: a call the gateway has timed was timed by a backend, one that a
\* backend has timed was counted by it, and one that a backend has counted was
\* counted by the gateway; the requests that the gateway has received are the
\* observed ones, those in progress, and those refused or dropped, which it
\* does not observe.
CountersAgree ==
    /\ grpc_observed <= timed /\ timed <= served
    /\ served + Cardinality({r \in Requests : wire[r] = "request"}) <= grpc_total
    /\ http_total = http_observed + Having({"body", "call", "400", "dropped"})

\* A call ends without the help of its timer, whenever the backend ends and
\* whether or not it is started again, on a new connection, on one whose end
\* has not been noticed, or on none: as long as it is in progress, a handler
\* is at work for it, its response is under way, or its stream is broken.
CallsEnd == \A r \in Requests : pc[r] = "call" ~> pc[r] \in Ended
=============================================================================
