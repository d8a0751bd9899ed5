-------------------------------- MODULE Grpc --------------------------------
(***************************************************************************)
(* The backend as a gRPC server: the unary calls of the gateway and a      *)
(* streaming call of some other client, served by one process.             *)
(***************************************************************************)
EXTENDS GrpcCalls, StreamEcho

vars == <<unary, stream>>

Init == UnaryInit /\ StreamInit

\* The end of the process breaks its unary calls and its stream at once.
BackendEnds == StopBackend /\ KillStream

Next ==
    \/ UnaryNext /\ UNCHANGED stream
    \/ StreamNext /\ UNCHANGED unary
    \/ BackendEnds

Spec == Init /\ [][Next]_vars

\* The runtimes poll what is ready, a handler sleeps for a finite time, and the
\* client of the stream receives what arrives.  No timer of the gateway has to
\* fire, no backend to start again, nobody to call, close, or go away, and the
\* end of a connection may go unnoticed.
FairSpec ==
    /\ Spec
    /\ \A r \in Requests : /\ WF_vars(CallSteps(r) /\ UNCHANGED stream)
                           /\ WF_vars(HandlerSteps(r) /\ UNCHANGED stream)
    /\ WF_vars(ServerStreams /\ UNCHANGED unary)
    /\ WF_vars(ClientReceives /\ UNCHANGED unary)

\* The types of the two parts.
TypeOK == UnaryTypeOK /\ StreamTypeOK
=============================================================================
