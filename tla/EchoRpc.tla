------------------------------ MODULE EchoRpc ------------------------------
(***************************************************************************)
(* What a user of a Transport (gateway/src/transport.rs) relies on: a call *)
(* that has started ends at most once, and it ends with the response to    *)
(* its own request or with an error.  The backend echoes the message and   *)
(* the payload of the request, so a response is named by the call whose    *)
(* request it answers.  A user may also drop the future of the call, which *)
(* the HTTP server does when a client goes away.                           *)
(***************************************************************************)
CONSTANTS
    Calls,  \* invocations of Transport::call
    NoAnswer

VARIABLES
    phase,  \* phase[c]: how far call c has got
    answer  \* answer[c]: the request whose response call c returned

vars == <<phase, answer>>

Init ==
    /\ phase = [c \in Calls |-> "idle"]
    /\ answer = [c \in Calls |-> NoAnswer]

Move(c, from, to) == phase[c] = from /\ phase' = [phase EXCEPT ![c] = to]

Start(c)  == Move(c, "idle", "waiting") /\ UNCHANGED answer
Answer(c) == Move(c, "waiting", "ok") /\ answer' = [answer EXCEPT ![c] = c]
Fail(c)   == Move(c, "waiting", "failed") /\ UNCHANGED answer
Drop(c)   == Move(c, "waiting", "dropped") /\ UNCHANGED answer

Next == \E c \in Calls : Start(c) \/ Answer(c) \/ Fail(c) \/ Drop(c)

Spec == Init /\ [][Next]_vars
=============================================================================
