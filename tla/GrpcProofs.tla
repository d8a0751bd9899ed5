----------------------------- MODULE GrpcProofs -----------------------------
(***************************************************************************)
(* Proofs about Grpc: the counters of the two programs agree, and the end  *)
(* of a stream means that every request of it that can be answered was.    *)
(***************************************************************************)
EXTENDS Grpc, QueueLemmas

\* Requests not yet received, those without a call to the backend, and those
\* received but not observed.
Waiting == {"idle"}
Uncalled == {"idle", "body"}
Unobserved == {"body", "call", "400", "dropped"}
Calls(steps) == Count(Requests, pc, steps)

\* Streams on their way to a handler, handled, and on their way back.
Requested == {"request"}
Handled == {"handling"}
Responded == {"response"}
Wires(states) == Count(Requests, wire, states)

\* The counters are numbers here: that they count no request twice follows
\* from Counted.
UnaryTypes ==
    /\ pc \in [Requests -> {"idle", "body", "call"} \union Ended]
    /\ wire \in [Requests -> {"none", "request", "handling", "response", "broken"}]
    /\ run \in 1 .. MaxStarts
    /\ up \in BOOLEAN
    /\ link \in 0 .. MaxStarts
    /\ http_total \in Nat /\ http_observed \in Nat
    /\ grpc_total \in Nat /\ grpc_observed \in Nat
    /\ served \in Nat /\ timed \in Nat

\* Each counter is behind the one before it by at least the calls in between.
Counted ==
    /\ http_total + Calls(Waiting) = Cardinality(Requests)
    /\ http_total = http_observed + Calls(Unobserved)
    /\ grpc_total + Calls(Uncalled) <= Cardinality(Requests)
    /\ served + Wires(Requested) <= grpc_total
    /\ timed + Wires(Handled) <= served
    /\ grpc_observed + Wires(Responded) <= timed

UnaryInv == UnaryTypes /\ Counted

\* The messages of q are numbered from n + 1.
From(q, n) == \A i \in 1 .. Len(q) : q[i] = n + i

\* The responses received, on their way, in the channel, and with the task.
Answered == Len(got) + Len(outbound) + Len(channel) + (IF task = "send" THEN 1 ELSE 0)

\* As long as the response is not dropped, the responses are those to the
\* first Answered requests, wherever they are, and the task that has ended has
\* seen a bad request or the last one.
InSequence ==
    /\ From(got, 0)
    /\ From(outbound, Len(got))
    /\ From(channel, Len(got) + Len(outbound))
    /\ task = "send" => hand = Answered
    /\ \A b \in Undecodable : Answered < b
    /\ task # "ended" => From(inbound, Answered) /\ Answered + Len(inbound) = sent
    /\ task = "ended" => \/ Answered + 1 \in Undecodable /\ Answered < sent
                         \/ Answered = sent /\ client # "sending"

StreamInv ==
    /\ StreamTypeOK
    /\ body # "dropped" => InSequence
    /\ body = "finished" => channel = <<>> /\ task = "ended"
    /\ seen = "end" => EndMeansAll /\ outbound = <<>> /\ body # "open"

IInv == UnaryInv /\ StreamInv

-----------------------------------------------------------------------------
\* Counts of requests.

\* The number of requests in one of the states of V, before and after one of
\* them has moved.
Moved(old, new, V, from, to) ==
    /\ old \in Nat /\ new \in Nat
    /\ to \in V /\ from \notin V => new = old + 1
    /\ to \notin V /\ from \in V => new = old - 1
    /\ (to \in V <=> from \in V) => new = old

\* The states that are counted.
LEMMA Members ==
    /\ \A x : x \in Waiting <=> x = "idle"
    /\ \A x : x \in Uncalled <=> x \in {"idle", "body"}
    /\ \A x : x \in Unobserved <=> x \in {"body", "call", "400", "dropped"}
    /\ \A x : x \in Requested <=> x = "request"
    /\ \A x : x \in Handled <=> x = "handling"
    /\ \A x : x \in Responded <=> x = "response"
BY DEF Waiting, Uncalled, Unobserved, Requested, Handled, Responded

\* The counts are numbers.
LEMMA Counts == \A V : Calls(V) \in Nat /\ Wires(V) \in Nat
<1> SUFFICES ASSUME NEW V PROVE Calls(V) \in Nat /\ Wires(V) \in Nat
  OBVIOUS
<1>1. /\ IsFiniteSet({r \in Requests : pc[r] \in V})
      /\ IsFiniteSet({r \in Requests : wire[r] \in V})
  BY FS_Subset, GrpcConstantsOK DEF GrpcConstantsOK
<1> QED
  BY <1>1, FS_CardinalityType DEF Calls, Wires, Count

\* One request takes a step.
LEMMA CallMoves ==
    ASSUME UnaryTypes, NEW r \in Requests, NEW from, NEW to, Goto(r, from, to)
    PROVE  /\ Moved(Calls(Waiting), Calls(Waiting)', Waiting, from, to)
           /\ Moved(Calls(Uncalled), Calls(Uncalled)', Uncalled, from, to)
           /\ Moved(Calls(Unobserved), Calls(Unobserved)', Unobserved, from, to)
<1>1. pc[r] = from /\ pc'[r] = to /\ OnlyMoves(Requests, pc, pc', r)
  BY DEF Goto, UnaryTypes, OnlyMoves
<1>2. IsFiniteSet(Requests)
  BY GrpcConstantsOK DEF GrpcConstantsOK
<1>3. ASSUME NEW V PROVE Moved(Calls(V), Calls(V)', V, from, to)
  <2>1. /\ Count(Requests, pc, V) \in Nat /\ Count(Requests, pc', V) \in Nat
        /\ pc'[r] \in V /\ pc[r] \notin V => Count(Requests, pc', V) = Count(Requests, pc, V) + 1
        /\ pc'[r] \notin V /\ pc[r] \in V => Count(Requests, pc', V) = Count(Requests, pc, V) - 1
        /\ (pc'[r] \in V <=> pc[r] \in V) => Count(Requests, pc', V) = Count(Requests, pc, V)
    BY <1>1, <1>2, CountMove
  <2> QED
    BY <1>1, <2>1 DEF Moved, Calls
<1>4. /\ Calls(Waiting)' = Count(Requests, pc', Waiting)
      /\ Calls(Uncalled)' = Count(Requests, pc', Uncalled)
      /\ Calls(Unobserved)' = Count(Requests, pc', Unobserved)
  BY DEF Calls, Waiting, Uncalled, Unobserved
<1> QED
  BY <1>3, <1>4 DEF Calls

\* The stream of one request changes its state.
LEMMA WireMoves ==
    ASSUME UnaryTypes, NEW r \in Requests, NEW to, wire' = [wire EXCEPT ![r] = to]
    PROVE  /\ Moved(Wires(Requested), Wires(Requested)', Requested, wire[r], to)
           /\ Moved(Wires(Handled), Wires(Handled)', Handled, wire[r], to)
           /\ Moved(Wires(Responded), Wires(Responded)', Responded, wire[r], to)
<1>1. wire'[r] = to /\ OnlyMoves(Requests, wire, wire', r)
  BY DEF UnaryTypes, OnlyMoves
<1>2. IsFiniteSet(Requests)
  BY GrpcConstantsOK DEF GrpcConstantsOK
<1>3. ASSUME NEW V
      PROVE  Moved(Count(Requests, wire, V), Count(Requests, wire', V), V, wire[r], to)
  <2> DEFINE g == wire'
             f == wire
  <2>1. OnlyMoves(Requests, f, g, r) /\ g[r] = to
    BY <1>1
  <2> HIDE DEF f, g
  <2>2. /\ Count(Requests, f, V) \in Nat /\ Count(Requests, g, V) \in Nat
        /\ g[r] \in V /\ f[r] \notin V => Count(Requests, g, V) = Count(Requests, f, V) + 1
        /\ g[r] \notin V /\ f[r] \in V => Count(Requests, g, V) = Count(Requests, f, V) - 1
        /\ (g[r] \in V <=> f[r] \in V) => Count(Requests, g, V) = Count(Requests, f, V)
    BY <1>2, <2>1, CountMove
  <2> QED
    BY <2>1, <2>2 DEF f, g, Moved
<1> QED
  BY <1>3 DEF Wires, Requested, Handled, Responded

\* When the backend ends, no stream gets into a state that counts.
LEMMA WiresBreak ==
    ASSUME UnaryTypes, \A r \in Requests : wire'[r] \in {wire[r], "broken"}
    PROVE  /\ Wires(Requested)' <= Wires(Requested)
           /\ Wires(Handled)' <= Wires(Handled)
           /\ Wires(Responded)' <= Wires(Responded)
<1>1. ASSUME NEW V, "broken" \notin V
      PROVE  Count(Requests, wire', V) <= Count(Requests, wire, V)
  <2>1. {r \in Requests : wire'[r] \in V} \subseteq {r \in Requests : wire[r] \in V}
    BY <1>1
  <2>2. IsFiniteSet({r \in Requests : wire[r] \in V})
    BY FS_Subset, GrpcConstantsOK DEF GrpcConstantsOK
  <2> QED
    BY <2>1, <2>2, FS_Subset DEF Count
<1>2. "broken" \notin Requested /\ "broken" \notin Handled /\ "broken" \notin Responded
  BY DEF Requested, Handled, Responded
<1> QED
  BY <1>1, <1>2 DEF Wires, Requested, Handled, Responded

-----------------------------------------------------------------------------
\* The unary calls.

\* The invariant holds at the start.
LEMMA UnaryInitInv == UnaryInit => UnaryInv
<1> SUFFICES ASSUME UnaryInit PROVE UnaryInv
  OBVIOUS
<1> USE DEF UnaryInit
<1>1. UnaryTypes
  BY GrpcConstantsOK DEF GrpcConstantsOK, UnaryTypes
<1>2. /\ {r \in Requests : pc[r] \in Waiting} = Requests
      /\ {r \in Requests : pc[r] \in Uncalled} = Requests
  BY DEF Waiting, Uncalled
<1>3. /\ {r \in Requests : pc[r] \in Unobserved} = {}
      /\ {r \in Requests : wire[r] \in Requested} = {}
      /\ {r \in Requests : wire[r] \in Handled} = {}
      /\ {r \in Requests : wire[r] \in Responded} = {}
  BY DEF Unobserved, Requested, Handled, Responded
<1>4. Calls(Waiting) = Cardinality(Requests) /\ Calls(Uncalled) = Cardinality(Requests)
  BY <1>2 DEF Calls, Count
<1>5. Calls(Unobserved) = 0
  BY <1>3, FS_EmptySet, Zenon DEF Calls, Count
<1>6. Wires(Requested) = 0 /\ Wires(Handled) = 0 /\ Wires(Responded) = 0
  BY <1>3, FS_EmptySet, Zenon DEF Wires, Count
<1>7. Cardinality(Requests) \in Nat
  BY FS_CardinalityType, GrpcConstantsOK DEF GrpcConstantsOK
<1> QED
  BY <1>1, <1>4, <1>5, <1>6, <1>7 DEF UnaryInv, Counted

\* The gateway receives a request, or refuses its body.
LEMMA ReceiveInv ==
    ASSUME UnaryInv, NEW r \in Requests, ReceiveRequest(r) \/ RefuseBody(r)
    PROVE  UnaryInv'
<1> USE DEF UnaryInv
<1>1. /\ \/ Goto(r, "idle", "body") /\ http_total' = http_total + 1
         \/ Goto(r, "body", "400") /\ http_total' = http_total
      /\ UNCHANGED <<wire, run, up, link, http_observed, grpc_total, grpc_observed, served, timed>>
  BY DEF ReceiveRequest, RefuseBody, process, gateway_counters, backend_counters
<1>2. UnaryTypes'
  BY <1>1 DEF Goto, UnaryTypes, Ended
<1>3. Wires(Requested)' = Wires(Requested) /\ Wires(Handled)' = Wires(Handled)
          /\ Wires(Responded)' = Wires(Responded)
  BY <1>1 DEF Wires, Requested, Handled, Responded
<1>4. CASE Goto(r, "idle", "body") /\ http_total' = http_total + 1
  <2>1. /\ Moved(Calls(Waiting), Calls(Waiting)', Waiting, "idle", "body")
        /\ Moved(Calls(Uncalled), Calls(Uncalled)', Uncalled, "idle", "body")
        /\ Moved(Calls(Unobserved), Calls(Unobserved)', Unobserved, "idle", "body")
    BY <1>4, CallMoves
  <2> QED
    BY <1>1, <1>2, <1>3, <1>4, <2>1, Members DEF UnaryTypes, Counted, Moved
<1>5. CASE Goto(r, "body", "400") /\ http_total' = http_total
  <2>1. /\ Moved(Calls(Waiting), Calls(Waiting)', Waiting, "body", "400")
        /\ Moved(Calls(Uncalled), Calls(Uncalled)', Uncalled, "body", "400")
        /\ Moved(Calls(Unobserved), Calls(Unobserved)', Unobserved, "body", "400")
    BY <1>5, CallMoves
  <2>2. Cardinality(Requests) \in Nat
    BY FS_CardinalityType, GrpcConstantsOK DEF GrpcConstantsOK
  <2> QED
    BY <1>1, <1>2, <1>3, <1>5, <2>1, <2>2, Members DEF UnaryTypes, Counted, Moved
<1> QED
  BY <1>1, <1>4, <1>5

\* The gateway counts a call and begins it.
LEMMA CallBackendInv ==
    ASSUME UnaryInv, NEW r \in Requests, CallBackend(r)
    PROVE  UnaryInv'
<1> USE DEF UnaryInv
<1>1. /\ Goto(r, "body", "call")
      /\ grpc_total' = grpc_total + 1
      /\ \E to \in {"request", "broken"} : wire' = [wire EXCEPT ![r] = to]
      /\ link' \in {run, 0}
      /\ UNCHANGED <<run, up, http_total, http_observed, grpc_observed, served, timed>>
  BY DEF CallBackend, CountsCall, backend_counters
<1>2. PICK to \in {"request", "broken"} : wire' = [wire EXCEPT ![r] = to]
  BY <1>1
<1>3. UnaryTypes'
  BY <1>1, <1>2, GrpcConstantsOK DEF GrpcConstantsOK, Goto, UnaryTypes, Ended
<1>4. /\ Moved(Calls(Waiting), Calls(Waiting)', Waiting, "body", "call")
      /\ Moved(Calls(Uncalled), Calls(Uncalled)', Uncalled, "body", "call")
      /\ Moved(Calls(Unobserved), Calls(Unobserved)', Unobserved, "body", "call")
  BY <1>1, CallMoves
<1>5. /\ Wires(Requested)' <= Wires(Requested) + 1
      /\ Wires(Handled)' <= Wires(Handled)
      /\ Wires(Responded)' <= Wires(Responded)
  <2>1. /\ Moved(Wires(Requested), Wires(Requested)', Requested, wire[r], to)
        /\ Moved(Wires(Handled), Wires(Handled)', Handled, wire[r], to)
        /\ Moved(Wires(Responded), Wires(Responded)', Responded, wire[r], to)
    BY <1>2, WireMoves
  <2>2. to \notin Handled /\ to \notin Responded
    BY <1>2 DEF Handled, Responded
  <2> QED
    BY <2>1, <2>2, Members DEF Moved
<1>6. /\ Wires(Requested) \in Nat /\ Wires(Handled) \in Nat /\ Wires(Responded) \in Nat
      /\ Wires(Requested)' \in Nat /\ Wires(Handled)' \in Nat /\ Wires(Responded)' \in Nat
  BY <1>2, WireMoves DEF Moved
<1>7. Cardinality(Requests) \in Nat
  BY FS_CardinalityType, GrpcConstantsOK DEF GrpcConstantsOK
<1> QED
  BY <1>1, <1>3, <1>4, <1>5, <1>6, <1>7, Members DEF UnaryTypes, Counted, Moved

\* The gateway times a call, which a backend has timed before.
LEMMA ReturnInv ==
    ASSUME UnaryInv, NEW r \in Requests, Return(r)
    PROVE  UnaryInv'
<1> USE DEF UnaryInv
<1>1. /\ Goto(r, "call", "200")
      /\ wire[r] = "response" /\ wire' = [wire EXCEPT ![r] = "none"]
      /\ grpc_observed' = grpc_observed + 1
      /\ http_observed' = http_observed + 1
      /\ UNCHANGED <<run, up, link, http_total, grpc_total, served, timed>>
  BY DEF Return, Becomes, process, backend_counters
<1>2. UnaryTypes'
  BY <1>1 DEF Goto, UnaryTypes, Ended
<1>3. /\ Moved(Calls(Waiting), Calls(Waiting)', Waiting, "call", "200")
      /\ Moved(Calls(Uncalled), Calls(Uncalled)', Uncalled, "call", "200")
      /\ Moved(Calls(Unobserved), Calls(Unobserved)', Unobserved, "call", "200")
  BY <1>1, CallMoves
<1>4. /\ Moved(Wires(Requested), Wires(Requested)', Requested, "response", "none")
      /\ Moved(Wires(Handled), Wires(Handled)', Handled, "response", "none")
      /\ Moved(Wires(Responded), Wires(Responded)', Responded, "response", "none")
  BY <1>1, WireMoves
<1>5. Cardinality(Requests) \in Nat
  BY FS_CardinalityType, GrpcConstantsOK DEF GrpcConstantsOK
<1> QED
  BY <1>1, <1>2, <1>3, <1>4, <1>5, Members DEF UnaryTypes, Counted, Moved

\* The gateway gives a call up, or its client does.
LEMMA EndCallInv ==
    ASSUME UnaryInv, NEW r \in Requests, FailCall(r) \/ DropRequest(r)
    PROVE  UnaryInv'
<1> USE DEF UnaryInv
<1>1. /\ \/ Goto(r, "call", "503") /\ http_observed' = http_observed + 1
         \/ Goto(r, "call", "dropped") /\ http_observed' = http_observed
         \/ Goto(r, "body", "dropped") /\ http_observed' = http_observed
      /\ UNCHANGED <<wire, run, up, link, http_total, grpc_total, grpc_observed, served, timed>>
  BY DEF FailCall, DropRequest, Goto, process, gateway_counters, backend_counters
<1>2. UnaryTypes'
  BY <1>1 DEF Goto, UnaryTypes, Ended
<1>3. Wires(Requested)' = Wires(Requested) /\ Wires(Handled)' = Wires(Handled)
          /\ Wires(Responded)' = Wires(Responded)
  BY <1>1 DEF Wires, Requested, Handled, Responded
<1>4. Cardinality(Requests) \in Nat
  BY FS_CardinalityType, GrpcConstantsOK DEF GrpcConstantsOK
<1>5. CASE Goto(r, "call", "503") /\ http_observed' = http_observed + 1
  <2>1. /\ Moved(Calls(Waiting), Calls(Waiting)', Waiting, "call", "503")
        /\ Moved(Calls(Uncalled), Calls(Uncalled)', Uncalled, "call", "503")
        /\ Moved(Calls(Unobserved), Calls(Unobserved)', Unobserved, "call", "503")
    BY <1>5, CallMoves
  <2> QED
    BY <1>1, <1>2, <1>3, <1>4, <1>5, <2>1, Members DEF UnaryTypes, Counted, Moved
<1>6. CASE Goto(r, "call", "dropped") /\ http_observed' = http_observed
  <2>1. /\ Moved(Calls(Waiting), Calls(Waiting)', Waiting, "call", "dropped")
        /\ Moved(Calls(Uncalled), Calls(Uncalled)', Uncalled, "call", "dropped")
        /\ Moved(Calls(Unobserved), Calls(Unobserved)', Unobserved, "call", "dropped")
    BY <1>6, CallMoves
  <2> QED
    BY <1>1, <1>2, <1>3, <1>4, <1>6, <2>1, Members DEF UnaryTypes, Counted, Moved
<1>7. CASE Goto(r, "body", "dropped") /\ http_observed' = http_observed
  <2>1. /\ Moved(Calls(Waiting), Calls(Waiting)', Waiting, "body", "dropped")
        /\ Moved(Calls(Uncalled), Calls(Uncalled)', Uncalled, "body", "dropped")
        /\ Moved(Calls(Unobserved), Calls(Unobserved)', Unobserved, "body", "dropped")
    BY <1>7, CallMoves
  <2> QED
    BY <1>1, <1>2, <1>3, <1>4, <1>7, <2>1, Members DEF UnaryTypes, Counted, Moved
<1> QED
  BY <1>1, <1>5, <1>6, <1>7

\* A stream is reset, handled or answered: what leaves one count is in the next.
LEMMA WireInv ==
    ASSUME UnaryInv, NEW r \in Requests, ResetStream(r) \/ Handle(r) \/ Respond(r)
    PROVE  UnaryInv'
<1> USE DEF UnaryInv
<1>1. /\ \/ /\ wire' = [wire EXCEPT ![r] = "none"]
            /\ UNCHANGED <<served, timed>>
         \/ /\ wire[r] = "request" /\ wire' = [wire EXCEPT ![r] = "handling"]
            /\ served' = served + 1 /\ timed' = timed
         \/ /\ wire[r] = "handling" /\ wire' = [wire EXCEPT ![r] = "response"]
            /\ served' = served /\ timed' = timed + 1
      /\ UNCHANGED <<pc, run, up, link, http_total, http_observed, grpc_total, grpc_observed>>
  BY DEF ResetStream, Handle, Respond, Becomes, process, gateway_counters, backend_counters
<1>2. UnaryTypes'
  BY <1>1 DEF UnaryTypes, Ended
<1>3. /\ Calls(Waiting)' = Calls(Waiting) /\ Calls(Uncalled)' = Calls(Uncalled)
      /\ Calls(Unobserved)' = Calls(Unobserved)
  BY <1>1 DEF Calls, Waiting, Uncalled, Unobserved
<1>4. /\ Wires(Requested) \in Nat /\ Wires(Handled) \in Nat /\ Wires(Responded) \in Nat
      /\ Wires(Requested)' \in Nat /\ Wires(Handled)' \in Nat /\ Wires(Responded)' \in Nat
  BY <1>1, WireMoves DEF Moved
<1>5. CASE wire' = [wire EXCEPT ![r] = "none"] /\ UNCHANGED <<served, timed>>
  <2>1. /\ Moved(Wires(Requested), Wires(Requested)', Requested, wire[r], "none")
        /\ Moved(Wires(Handled), Wires(Handled)', Handled, wire[r], "none")
        /\ Moved(Wires(Responded), Wires(Responded)', Responded, wire[r], "none")
    BY <1>5, WireMoves
  <2>2. /\ Wires(Requested)' <= Wires(Requested)
        /\ Wires(Handled)' <= Wires(Handled)
        /\ Wires(Responded)' <= Wires(Responded)
    BY <1>4, <2>1, Members DEF Moved
  <2> QED
    BY <1>1, <1>2, <1>3, <1>4, <1>5, <2>2 DEF UnaryTypes, Counted
<1>6. CASE /\ wire[r] = "request" /\ wire' = [wire EXCEPT ![r] = "handling"]
           /\ served' = served + 1 /\ timed' = timed
  <2>1. /\ Moved(Wires(Requested), Wires(Requested)', Requested, "request", "handling")
        /\ Moved(Wires(Handled), Wires(Handled)', Handled, "request", "handling")
        /\ Moved(Wires(Responded), Wires(Responded)', Responded, "request", "handling")
    BY <1>6, WireMoves
  <2> QED
    BY <1>1, <1>2, <1>3, <1>6, <2>1, Members DEF UnaryTypes, Counted, Moved
<1>7. CASE /\ wire[r] = "handling" /\ wire' = [wire EXCEPT ![r] = "response"]
           /\ served' = served /\ timed' = timed + 1
  <2>1. /\ Moved(Wires(Requested), Wires(Requested)', Requested, "handling", "response")
        /\ Moved(Wires(Handled), Wires(Handled)', Handled, "handling", "response")
        /\ Moved(Wires(Responded), Wires(Responded)', Responded, "handling", "response")
    BY <1>7, WireMoves
  <2> QED
    BY <1>1, <1>2, <1>3, <1>7, <2>1, Members DEF UnaryTypes, Counted, Moved
<1> QED
  BY <1>1, <1>5, <1>6, <1>7

\* The backend or its connection ends, or the backend is started again.
LEMMA ProcessInv ==
    ASSUME UnaryInv, NoticeEnd \/ StartBackend \/ StopBackend
    PROVE  UnaryInv'
<1> USE DEF UnaryInv
<1>1. /\ \A r \in Requests : wire'[r] \in {wire[r], "broken"}
      /\ wire' \in [Requests -> {"none", "request", "handling", "response", "broken"}]
      /\ run' \in 1 .. MaxStarts /\ up' \in BOOLEAN /\ link' \in 0 .. MaxStarts
      /\ UNCHANGED <<pc, http_total, http_observed, grpc_total, grpc_observed, served, timed>>
  <2>1. CASE NoticeEnd \/ StartBackend
    <3>1. UNCHANGED <<pc, wire, http_total, http_observed, grpc_total, grpc_observed, served, timed>>
      BY <2>1 DEF NoticeEnd, StartBackend, gateway_counters, backend_counters
    <3>2. run' \in 1 .. MaxStarts /\ up' \in BOOLEAN /\ link' \in 0 .. MaxStarts
      <4>1. run' \in 1 .. MaxStarts /\ link' \in 0 .. MaxStarts
        BY <2>1, GrpcConstantsOK DEF GrpcConstantsOK, UnaryTypes, NoticeEnd, StartBackend
      <4>2. up' \in BOOLEAN
        BY <2>1 DEF UnaryTypes, NoticeEnd, StartBackend
      <4> QED
        BY <4>1, <4>2
    <3> QED
      BY <3>1, <3>2 DEF UnaryTypes
  <2>2. CASE StopBackend
    <3>1. UNCHANGED <<pc, run, link, http_total, http_observed, grpc_total, grpc_observed,
                      served, timed>> /\ up' = FALSE
      BY <2>2 DEF StopBackend, gateway_counters, backend_counters
    <3>2. PICK kept \in SUBSET {r \in Requests : wire[r] = "response"} :
              wire' = [r \in Requests |->
                           IF wire[r] = "none" \/ r \in kept THEN wire[r] ELSE "broken"]
      BY <2>2 DEF StopBackend
    <3> QED
      BY <3>1, <3>2 DEF UnaryTypes
  <2> QED
    BY <2>1, <2>2
<1>2. UnaryTypes'
  BY <1>1 DEF UnaryTypes, Ended
<1>3. /\ Calls(Waiting)' = Calls(Waiting) /\ Calls(Uncalled)' = Calls(Uncalled)
      /\ Calls(Unobserved)' = Calls(Unobserved)
  BY <1>1 DEF Calls, Waiting, Uncalled, Unobserved
<1>4. /\ Wires(Requested)' <= Wires(Requested)
      /\ Wires(Handled)' <= Wires(Handled)
      /\ Wires(Responded)' <= Wires(Responded)
  BY <1>1, WiresBreak
<1>5. /\ Wires(Requested) \in Nat /\ Wires(Handled) \in Nat /\ Wires(Responded) \in Nat
      /\ Wires(Requested)' \in Nat /\ Wires(Handled)' \in Nat /\ Wires(Responded)' \in Nat
  <2>1. ASSUME NEW V PROVE Count(Requests, wire', V) \in Nat
    <3>1. IsFiniteSet({r \in Requests : wire'[r] \in V})
      BY FS_Subset, GrpcConstantsOK DEF GrpcConstantsOK
    <3> QED
      BY <3>1, FS_CardinalityType DEF Count
  <2> QED
    BY <2>1, Counts DEF Wires, Requested, Handled, Responded
<1> QED
  BY <1>1, <1>2, <1>3, <1>4, <1>5 DEF UnaryTypes, Counted

\* Every step of the unary calls keeps their invariant.
LEMMA UnaryStepInv == UnaryInv /\ (UnaryNext \/ StopBackend \/ UNCHANGED unary) => UnaryInv'
<1> SUFFICES ASSUME UnaryInv, UnaryNext \/ StopBackend \/ UNCHANGED unary PROVE UnaryInv'
  OBVIOUS
<1>1. ASSUME UNCHANGED unary PROVE UnaryInv'
  BY <1>1 DEF unary, process, gateway_counters, backend_counters, UnaryInv, UnaryTypes, Counted,
     Calls, Wires, Waiting, Uncalled, Unobserved, Requested, Handled, Responded
<1> QED
  BY <1>1, ReceiveInv, CallBackendInv, ReturnInv, EndCallInv, WireInv, ProcessInv
  DEF UnaryNext, CallSteps, BreakCall, TimeOut, HandlerSteps

-----------------------------------------------------------------------------
\* The stream.

\* An empty queue, one with another message, and one without its head.
LEMMA FromEmpty == \A n : From(<<>>, n)
BY EmptySeq DEF From

LEMMA FromAppend ==
    ASSUME NEW S, NEW q \in Seq(S), NEW n \in Nat, From(q, n), NEW x \in S, x = n + Len(q) + 1
    PROVE  From(Append(q, x), n)
<1>1. /\ Len(q) \in Nat /\ Len(Append(q, x)) = Len(q) + 1
      /\ \A i \in 1 .. Len(q) : Append(q, x)[i] = q[i]
      /\ Append(q, x)[Len(q) + 1] = x
  BY AppendProperties, LenProperties
<1> DEFINE r == Append(q, x)
<1> HIDE DEF r
<1>2. ASSUME NEW i \in 1 .. Len(r) PROVE r[i] = n + i
  <2>1. CASE i = Len(q) + 1
    BY <1>1, <2>1 DEF r
  <2>2. CASE i # Len(q) + 1
    <3>1. i \in 1 .. Len(q)
      BY <1>1, <2>2 DEF r
    <3> QED
      BY <1>1, <3>1 DEF From, r
  <2> QED
    BY <2>1, <2>2
<1> QED
  BY <1>2 DEF From, r

LEMMA FromTail ==
    ASSUME NEW S, NEW q \in Seq(S), NEW n \in Nat, From(q, n), q # <<>>
    PROVE  Head(q) = n + 1 /\ From(Tail(q), n + 1)
<1>1. /\ Len(q) \in Nat \ {0} /\ Head(q) = q[1]
      /\ Len(Tail(q)) = Len(q) - 1
      /\ \A i \in 1 .. Len(Tail(q)) : Tail(q)[i] = q[i + 1]
  BY EmptySeq, HeadTailProperties
<1>2. Head(q) = n + 1
  BY <1>1 DEF From
<1>3. ASSUME NEW i \in 1 .. Len(Tail(q)) PROVE Tail(q)[i] = (n + 1) + i
  <2>1. i + 1 \in 1 .. Len(q) /\ Tail(q)[i] = q[i + 1] /\ n + (i + 1) = (n + 1) + i
    BY <1>1
  <2> QED
    BY <2>1 DEF From
<1> QED
  BY <1>2, <1>3 DEF From

\* What the queues are, and their lengths.
LEMMA StreamTypes ==
    ASSUME StreamTypeOK
    PROVE  /\ inbound \in Seq(1 .. Messages) /\ Len(inbound) \in Nat
           /\ channel \in Seq(1 .. Messages) /\ Len(channel) \in Nat
           /\ outbound \in Seq(1 .. Messages) /\ Len(outbound) \in Nat
           /\ got \in Seq(1 .. Messages) /\ Len(got) \in Nat
           /\ sent \in Nat /\ hand \in Nat /\ Answered \in Nat
<1>1. /\ inbound \in Seq(1 .. Messages)
      /\ channel \in Seq(1 .. Messages)
      /\ outbound \in Seq(1 .. Messages)
      /\ got \in Seq(1 .. Messages)
  BY DEF StreamTypeOK
<1>2. Len(inbound) \in Nat /\ Len(channel) \in Nat /\ Len(outbound) \in Nat /\ Len(got) \in Nat
  BY <1>1, LenProperties
<1> QED
  BY <1>1, <1>2, StreamConstantsOK DEF StreamConstantsOK, StreamTypeOK, Answered

\* The invariant holds at the start.
LEMMA StreamInitInv == StreamInit => StreamInv
<1> SUFFICES ASSUME StreamInit PROVE StreamInv
  OBVIOUS
<1> USE StreamConstantsOK DEF StreamConstantsOK, StreamInit
<1>1. <<>> \in Seq(1 .. Messages) /\ Len(<<>>) = 0
  BY EmptySeq
<1>2. StreamTypeOK
  BY <1>1 DEF StreamTypeOK
<1>3. InSequence
  BY <1>1, FromEmpty DEF InSequence, Answered
<1> QED
  BY <1>2, <1>3 DEF StreamInv

\* The client sends a request, or says that it has sent the last.
LEMMA ClientSendsInv ==
    ASSUME StreamInv, SendMessage \/ CloseSending
    PROVE  StreamInv'
<1> USE DEF StreamInv
<1>1. CASE SendMessage
  <2>1. /\ client = "sending" /\ body # "dropped" /\ seen = "none"
        /\ sent < Messages /\ Len(inbound) < Window
        /\ sent' = sent + 1
        /\ inbound' = Append(inbound, sent + 1)
        /\ UNCHANGED <<client, task, hand, channel, body, outbound, got, seen>>
    BY <1>1 DEF SendMessage
  <2>2. sent + 1 \in 1 .. Messages
    BY <2>1, StreamTypes, StreamConstantsOK DEF StreamConstantsOK
  <2>3. inbound' \in Seq(1 .. Messages) /\ Len(inbound') = Len(inbound) + 1
    BY <2>1, <2>2, StreamTypes, AppendQueue
  <2>4. StreamTypeOK'
    BY <2>1, <2>2, <2>3, StreamTypes, StreamConstantsOK DEF StreamConstantsOK, StreamTypeOK
  <2>5. InSequence'
    <3>1. Answered' = Answered
      BY <2>1 DEF Answered
    <3>2. task # "ended" => From(inbound', Answered)
      BY <2>1, <2>2, StreamTypes, FromAppend DEF InSequence
    <3>3. Undecodable \subseteq Nat
      BY StreamConstantsOK DEF StreamConstantsOK
    <3> QED
      BY <2>1, <2>3, <3>1, <3>2, <3>3, StreamTypes DEF InSequence
  <2> QED
    BY <2>1, <2>4, <2>5
<1>2. CASE CloseSending
  BY <1>2 DEF CloseSending, StreamTypeOK, InSequence, Answered, EndMeansAll
<1> QED
  BY <1>1, <1>2

\* The client receives a response: it leaves the way for the responses received.
LEMMA ReceiveMessageInv ==
    ASSUME StreamInv, ReceiveMessage
    PROVE  StreamInv'
<1> USE DEF StreamInv
<1>1. /\ outbound # <<>>
      /\ got' = Append(got, Head(outbound))
      /\ outbound' = Tail(outbound)
      /\ UNCHANGED <<sent, client, inbound, task, hand, channel, body, seen>>
  BY DEF ReceiveMessage
<1>2. /\ Head(outbound) \in 1 .. Messages
      /\ outbound' \in Seq(1 .. Messages)
      /\ Len(outbound') = Len(outbound) - 1
  BY <1>1, StreamTypes, TailQueue
<1>3. got' \in Seq(1 .. Messages) /\ Len(got') = Len(got) + 1
  BY <1>1, <1>2, StreamTypes, AppendQueue
<1>4. StreamTypeOK'
  BY <1>1, <1>2, <1>3, StreamTypes, StreamConstantsOK DEF StreamConstantsOK, StreamTypeOK
<1>5. body # "dropped" => InSequence'
  <2> SUFFICES ASSUME body # "dropped" PROVE InSequence'
    OBVIOUS
  <2>1. Answered' = Answered /\ Len(got') + Len(outbound') = Len(got) + Len(outbound)
    BY <1>1, <1>2, <1>3, StreamTypes DEF Answered
  <2>2. Head(outbound) = Len(got) + 1 /\ From(outbound', Len(got) + 1)
    BY <1>1, StreamTypes, FromTail DEF InSequence
  <2>3. From(got', 0)
    <3>1. Head(outbound) = 0 + Len(got) + 1
      BY <2>2, StreamTypes
    <3> QED
      BY <1>1, <1>2, <3>1, StreamTypes, FromAppend DEF InSequence
  <2> QED
    BY <1>1, <1>3, <2>1, <2>2, <2>3 DEF InSequence
<1> QED
  BY <1>1, <1>4, <1>5

\* The client sees the end: everything is received that will be.
LEMMA ReceiveEndInv ==
    ASSUME StreamInv, ReceiveEnd
    PROVE  StreamInv'
<1> USE DEF StreamInv
<1>1. /\ body = "finished" /\ outbound = <<>> /\ channel = <<>> /\ task = "ended"
      /\ seen' = "end"
      /\ UNCHANGED <<sent, client, inbound, task, hand, channel, body, outbound, got>>
  BY DEF ReceiveEnd
<1>2. StreamTypeOK' /\ InSequence'
  BY <1>1 DEF StreamTypeOK, InSequence, Answered
<1>3. Answered = Len(got)
  BY <1>1, StreamTypes, EmptySeq DEF Answered
<1>4. got = [i \in 1 .. Len(got) |-> i]
  <2>1. /\ got \in [1 .. Len(got) -> 1 .. Messages]
        /\ \A i \in 1 .. Len(got) : got[i] = 0 + i
    BY <1>1, StreamTypes, LenProperties DEF InSequence, From
  <2>2. \A i \in 1 .. Len(got) : got[i] = i
    BY <2>1
  <2> QED
    BY <2>1, <2>2
<1>5. 1 .. Len(got) = Answerable(sent)
  <2>1. /\ \A b \in Undecodable : Len(got) < b
        /\ \/ Len(got) + 1 \in Undecodable /\ Len(got) < sent
           \/ Len(got) = sent
    BY <1>1, <1>3 DEF InSequence
  <2>2. Undecodable \subseteq Nat /\ Len(got) \in Nat /\ sent \in Nat
    BY StreamTypes, StreamConstantsOK DEF StreamConstantsOK
  <2>3. ASSUME NEW m \in 1 .. Len(got) PROVE m \in Answerable(sent)
    BY <2>1, <2>2 DEF Answerable
  <2>4. ASSUME NEW m \in Answerable(sent) PROVE m \in 1 .. Len(got)
    BY <2>1, <2>2 DEF Answerable
  <2> QED
    BY <2>3, <2>4
<1> QED
  BY <1>1, <1>2, <1>4, <1>5 DEF EndMeansAll

\* The client goes away, the backend ends, or the client sees that it has:
\* the rest of the responses is not needed.
LEMMA DroppedInv ==
    ASSUME StreamInv, LeaveStream \/ KillStream \/ ReceiveError
    PROVE  StreamInv'
<1> USE DEF StreamInv
<1>1. /\ body' = "dropped"
      /\ \E n \in 0 .. Len(outbound) : outbound' = SubSeq(outbound, 1, n)
      /\ inbound' \in {<<>>, inbound} /\ channel' \in {<<>>, channel}
      /\ client' \in {client, "gone"} /\ task' \in {task, "ended"} /\ hand' \in {hand, 0}
      /\ seen' \in {seen, "error"}
      /\ UNCHANGED <<sent, got>>
  <2>1. SubSeq(outbound, 1, 0) = <<>> /\ SubSeq(outbound, 1, Len(outbound)) = outbound
    BY StreamTypes
  <2>2. 0 \in 0 .. Len(outbound) /\ Len(outbound) \in 0 .. Len(outbound)
    BY StreamTypes
  <2>3. CASE LeaveStream
    BY <2>1, <2>2, <2>3 DEF LeaveStream
  <2>4. CASE KillStream
    BY <2>4 DEF KillStream
  <2>5. CASE ReceiveError
    BY <2>1, <2>2, <2>5 DEF ReceiveError
  <2> QED
    BY <2>3, <2>4, <2>5
<1>2. PICK n \in 0 .. Len(outbound) : outbound' = SubSeq(outbound, 1, n)
  BY <1>1
<1>3. /\ outbound' \in Seq(1 .. Messages)
      /\ Len(outbound') = n
      /\ outbound = <<>> => outbound' = <<>>
  <2> DEFINE q == outbound
             S == 1 .. Messages
             r == SubSeq(q, 1, n)
  <2>1. q \in Seq(S) /\ Len(q) \in Nat
    BY StreamTypes
  <2>2. n \in Nat /\ n <= Len(q) /\ \A i \in 1 .. n : i \in 1 .. Len(q)
    BY <2>1
  <2>3. outbound = <<>> => n = 0
    BY <2>2, EmptySeq
  <2> HIDE DEF q, S
  <2>4. \A i \in 1 .. n : q[i] \in S
    BY <2>1, <2>2, ElementOfSeq
  <2>5. r \in Seq(S) /\ Len(r) = IF 1 <= n THEN n - 1 + 1 ELSE 0
    BY <2>2, <2>4, SubSeqProperties
  <2> HIDE DEF r
  <2>6. Len(r) = n
    BY <2>2, <2>5
  <2>7. n = 0 => r = <<>>
    BY <2>5, <2>6, EmptySeq
  <2> QED
    BY <1>2, <2>3, <2>5, <2>6, <2>7 DEF q, S, r
<1>4. <<>> \in Seq(1 .. Messages) /\ Len(<<>>) = 0
  BY EmptySeq
<1>5. StreamTypeOK'
  <2>1. Len(outbound') <= Window
    BY <1>3, StreamTypes, StreamConstantsOK DEF StreamConstantsOK, StreamTypeOK
  <2>2. /\ inbound' \in Seq(1 .. Messages) /\ Len(inbound') <= Window
        /\ channel' \in Seq(1 .. Messages) /\ Len(channel') <= Capacity
    <3>1. Len(inbound) <= Window /\ Len(channel) <= Capacity /\ 0 <= Window /\ 0 <= Capacity
      BY StreamConstantsOK DEF StreamConstantsOK, StreamTypeOK
    <3> QED
      BY <1>1, <1>4, <3>1, StreamTypes
  <2>3. /\ client' \in {"sending", "closed", "gone"} /\ task' \in {"read", "send", "ended"}
        /\ hand' \in 0 .. Messages /\ seen' \in {"none", "end", "error"}
    BY <1>1, StreamConstantsOK DEF StreamConstantsOK, StreamTypeOK
  <2> QED
    BY <1>1, <1>3, <2>1, <2>2, <2>3, StreamTypes DEF StreamTypeOK
<1> QED
  BY <1>1, <1>3, <1>5 DEF EndMeansAll

\* The task reads a request: it answers it, or ends at a bad one.
LEMMA TakeMessageInv ==
    ASSUME StreamInv, TakeMessage
    PROVE  StreamInv'
<1> USE DEF StreamInv
<1> DEFINE m == Head(inbound)
<1>1. /\ task = "read" /\ inbound # <<>>
      /\ inbound' = Tail(inbound)
      /\ \/ m \in Undecodable /\ task' = "ended" /\ hand' = 0
         \/ m \notin Undecodable /\ task' = "send" /\ hand' = m
      /\ UNCHANGED <<sent, client, channel, body, outbound, got, seen>>
  BY DEF TakeMessage
<1>2. /\ m \in 1 .. Messages
      /\ inbound' \in Seq(1 .. Messages)
      /\ Len(inbound) > 0 /\ Len(inbound') = Len(inbound) - 1
  BY <1>1, StreamTypes, TailQueue
<1>3. body # "dropped" => m = Answered + 1 /\ From(inbound', Answered + 1)
  BY <1>1, StreamTypes, FromTail DEF InSequence
<1> HIDE DEF m
<1>4. StreamTypeOK'
  BY <1>1, <1>2, StreamTypes, StreamConstantsOK DEF StreamConstantsOK, StreamTypeOK
<1>5. body # "dropped" => InSequence'
  <2> SUFFICES ASSUME body # "dropped" PROVE InSequence'
    OBVIOUS
  <2>1. /\ InSequence /\ Answered \in Nat /\ Len(inbound) \in Nat
        /\ Undecodable \subseteq Nat /\ sent \in Nat
    BY StreamTypes, StreamConstantsOK DEF StreamConstantsOK
  <2>2. Answered + 1 <= sent
    BY <1>1, <1>2, <2>1 DEF InSequence
  <2>3. Answered = Len(got) + Len(outbound) + Len(channel)
    BY <1>1, StreamTypes DEF Answered
  <2>4. From(got', 0) /\ From(outbound', Len(got')) /\ From(channel', Len(got') + Len(outbound'))
    BY <1>1 DEF InSequence
  <2>5. CASE m \in Undecodable
    <3>1. task' = "ended"
      BY <1>1, <2>5
    <3>2. Answered' = Answered
      BY <1>1, <2>3, <3>1, StreamTypes DEF Answered
    <3>3. Answered' + 1 \in Undecodable /\ Answered' < sent'
      BY <1>1, <1>3, <2>1, <2>2, <2>5, <3>2
    <3>4. \A b \in Undecodable' : Answered' < b
      BY <2>1, <3>2 DEF InSequence
    <3> QED
      BY <2>4, <3>1, <3>3, <3>4 DEF InSequence
  <2>6. CASE m \notin Undecodable
    <3>1. task' = "send" /\ hand' = m
      BY <1>1, <2>6
    <3>2. Answered' = Answered + 1
      BY <1>1, <2>3, <3>1, StreamTypes DEF Answered
    <3>3. \A b \in Undecodable : Answered + 1 < b
      <4>1. ASSUME NEW b \in Undecodable PROVE Answered + 1 < b
        <5>1. Answered < b /\ b # Answered + 1 /\ b \in Nat
          BY <1>3, <2>1, <2>6 DEF InSequence
        <5> QED
          BY <2>1, <5>1
      <4> QED
        BY <4>1
    <3>4. From(inbound', Answered') /\ Answered' + Len(inbound') = sent'
      BY <1>1, <1>2, <1>3, <2>1, <3>2 DEF InSequence
    <3> QED
      BY <1>3, <2>4, <3>1, <3>2, <3>3, <3>4 DEF InSequence
  <2> QED
    BY <2>5, <2>6
<1> QED
  BY <1>1, <1>4, <1>5 DEF EndMeansAll

\* The task has read the last request.
LEMMA EndOfStreamInv ==
    ASSUME StreamInv, EndOfStream
    PROVE  StreamInv'
<1> USE DEF StreamInv
<1>1. /\ task = "read" /\ inbound = <<>> /\ client # "sending" /\ task' = "ended"
      /\ UNCHANGED <<sent, client, inbound, hand, channel, body, outbound, got, seen>>
  BY DEF EndOfStream, AfterNone
<1>2. StreamTypeOK'
  BY <1>1 DEF StreamTypeOK
<1>3. Answered' = Answered
  BY <1>1 DEF Answered
<1>4. body # "dropped" => Answered = sent
  BY <1>1, StreamTypes, EmptySeq DEF InSequence
<1>5. body # "dropped" => InSequence'
  BY <1>1, <1>3, <1>4 DEF InSequence
<1> QED
  BY <1>1, <1>2, <1>5 DEF EndMeansAll

\* The task sends its response into the channel.
LEMMA SendResponseInv ==
    ASSUME StreamInv, SendResponse
    PROVE  StreamInv'
<1> USE DEF StreamInv
<1>1. /\ task = "send" /\ body = "open" /\ Len(channel) < Capacity
      /\ channel' = Append(channel, hand)
      /\ hand' = 0 /\ task' = "read"
      /\ UNCHANGED <<sent, client, inbound, body, outbound, got, seen>>
  BY DEF SendResponse, Room
<1>2. Answered = Len(got) + Len(outbound) + Len(channel) + 1 /\ hand = Answered
  BY <1>1, StreamTypes DEF Answered, InSequence
<1>3. hand \in 1 .. Messages
  BY <1>2, StreamTypes, StreamConstantsOK DEF StreamConstantsOK, StreamTypeOK
<1>4. /\ channel' \in Seq(1 .. Messages) /\ Len(channel') = Len(channel) + 1
      /\ From(channel', Len(got) + Len(outbound))
  <2> DEFINE n == Len(got) + Len(outbound)
  <2>1. n \in Nat /\ hand = n + Len(channel) + 1 /\ From(channel, n)
    BY <1>1, <1>2, StreamTypes DEF InSequence
  <2> HIDE DEF n
  <2>2. channel \in Seq(1 .. Messages)
    BY StreamTypes
  <2>3. From(channel', n)
    BY <1>1, <1>3, <2>1, <2>2, FromAppend
  <2>4. channel' \in Seq(1 .. Messages) /\ Len(channel') = Len(channel) + 1
    BY <1>1, <1>3, <2>2, AppendQueue
  <2> QED
    BY <2>3, <2>4 DEF n
<1>5. StreamTypeOK'
  BY <1>1, <1>4, StreamTypes, StreamConstantsOK DEF StreamConstantsOK, StreamTypeOK
<1>6. Answered' = Answered
  BY <1>1, <1>2, <1>4, StreamTypes DEF Answered
<1>7. InSequence'
  BY <1>1, <1>4, <1>6 DEF InSequence
<1> QED
  BY <1>1, <1>5, <1>7 DEF EndMeansAll

\* The server takes a response from the channel.
LEMMA StreamOutInv ==
    ASSUME StreamInv, Stream
    PROVE  StreamInv'
<1> USE DEF StreamInv
<1>1. /\ body = "open" /\ channel # <<>> /\ Len(outbound) < Window
      /\ outbound' = Append(outbound, Head(channel))
      /\ channel' = Tail(channel)
      /\ UNCHANGED <<sent, client, inbound, task, hand, body, got, seen>>
  BY DEF Stream
<1>2. /\ Head(channel) \in 1 .. Messages
      /\ channel' \in Seq(1 .. Messages) /\ Len(channel') = Len(channel) - 1
  BY <1>1, StreamTypes, TailQueue
<1>3. /\ Head(channel) = Len(got) + Len(outbound) + 1
      /\ From(channel', Len(got) + Len(outbound) + 1)
  <2>1. Len(got) + Len(outbound) \in Nat
    BY StreamTypes
  <2> QED
    BY <1>1, <2>1, StreamTypes, FromTail DEF InSequence
<1>4. /\ outbound' \in Seq(1 .. Messages) /\ Len(outbound') = Len(outbound) + 1
      /\ From(outbound', Len(got))
  BY <1>1, <1>2, <1>3, StreamTypes, AppendQueue, FromAppend DEF InSequence
<1>5. StreamTypeOK'
  BY <1>1, <1>2, <1>4, StreamTypes, StreamConstantsOK DEF StreamConstantsOK, StreamTypeOK
<1>6. Answered' = Answered /\ Len(got) + Len(outbound) + 1 = Len(got') + Len(outbound')
  BY <1>1, <1>2, <1>4, StreamTypes DEF Answered
<1>7. InSequence'
  BY <1>1, <1>3, <1>4, <1>6 DEF InSequence
<1> QED
  BY <1>1, <1>5, <1>7 DEF EndMeansAll

\* The channel is closed and empty; or the task finds its receiver dropped.
LEMMA CloseInv ==
    ASSUME StreamInv, FinishStream \/ FailSend
    PROVE  StreamInv'
<1> USE DEF StreamInv
<1>1. CASE FinishStream
  BY <1>1 DEF FinishStream, SenderDropped, StreamTypeOK, InSequence, Answered, EndMeansAll
<1>2. CASE FailSend
  BY <1>2, StreamConstantsOK
  DEF StreamConstantsOK, FailSend, AfterSendError, StreamTypeOK, EndMeansAll
<1> QED
  BY <1>1, <1>2

\* Every step of the stream keeps its invariant.
LEMMA StreamStepInv == StreamInv /\ (StreamNext \/ KillStream \/ UNCHANGED stream) => StreamInv'
<1> SUFFICES ASSUME StreamInv, StreamNext \/ KillStream \/ UNCHANGED stream PROVE StreamInv'
  OBVIOUS
<1>1. ASSUME UNCHANGED stream PROVE StreamInv'
  BY <1>1 DEF stream, StreamInv, StreamTypeOK, InSequence, Answered, EndMeansAll
<1> QED
  BY <1>1, ClientSendsInv, ReceiveMessageInv, ReceiveEndInv, DroppedInv, TakeMessageInv,
     EndOfStreamInv, SendResponseInv, StreamOutInv, CloseInv
  DEF StreamNext, ClientReceives, ServerStreams

-----------------------------------------------------------------------------
\* The invariant is one of every reachable state.
THEOREM GrpcInvariance == Spec => []IInv
<1>1. Init => IInv
  BY UnaryInitInv, StreamInitInv DEF Init, IInv
<1>2. IInv /\ [Next]_vars => IInv'
  BY UnaryStepInv, StreamStepInv DEF IInv, Next, BackendEnds, vars
<1> QED
  BY <1>1, <1>2, PTL DEF Spec

\* The variables of both parts have their types: no counter exceeds the number
\* of requests, the channel and the windows keep to their limits.
THEOREM GrpcTypes == Spec => []TypeOK
<1>1. IInv => TypeOK
  <2> SUFFICES ASSUME IInv PROVE TypeOK
    OBVIOUS
  <2>1. /\ Calls(Waiting) \in Nat /\ Calls(Uncalled) \in Nat /\ Calls(Unobserved) \in Nat
        /\ Wires(Requested) \in Nat /\ Wires(Handled) \in Nat /\ Wires(Responded) \in Nat
    BY Counts
  <2>2. Cardinality(Requests) \in Nat
    BY FS_CardinalityType, GrpcConstantsOK DEF GrpcConstantsOK
  <2>3. \A n \in {http_total, http_observed, grpc_total, grpc_observed, served, timed} :
            n \in 0 .. Cardinality(Requests)
    BY <2>1, <2>2 DEF IInv, UnaryInv, UnaryTypes, Counted
  <2>4. UnaryTypeOK
    BY <2>3 DEF IInv, UnaryInv, UnaryTypes, UnaryTypeOK
  <2> QED
    BY <2>4 DEF IInv, StreamInv, TypeOK
<1> QED
  BY <1>1, GrpcInvariance, PTL

\* The counters that the two programs export agree, for any number of requests
\* in any order, and however often the backend ends and is started again.
THEOREM CountersAlwaysAgree == Spec => []CountersAgree
<1>1. IInv => CountersAgree
  <2> SUFFICES ASSUME IInv PROVE CountersAgree
    OBVIOUS
  <2>1. /\ Wires(Requested) \in Nat /\ Wires(Handled) \in Nat /\ Wires(Responded) \in Nat
    BY Counts
  <2>2. Wires(Requested) = Cardinality({r \in Requests : wire[r] = "request"})
    BY DEF Wires, Count, Requested
  <2>3. Calls(Unobserved) = Having({"body", "call", "400", "dropped"})
    BY DEF Calls, Count, Unobserved, Having
  <2> QED
    BY <2>1, <2>2, <2>3 DEF IInv, UnaryInv, UnaryTypes, Counted, CountersAgree
<1> QED
  BY <1>1, GrpcInvariance, PTL

\* The end of a stream tells its client that it has the responses to all its
\* requests before the first that cannot be decoded, for any number of
\* requests, any capacity of the channel and any window.
THEOREM EndOfStreamMeansAll == Spec => []EndMeansAll
<1>1. IInv => EndMeansAll
  BY DEF IInv, StreamInv, EndMeansAll
<1> QED
  BY <1>1, GrpcInvariance, PTL
=============================================================================
