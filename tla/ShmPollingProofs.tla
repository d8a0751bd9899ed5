-------------------------- MODULE ShmPollingProofs --------------------------
(***************************************************************************)
(* Proofs about ShmPolling: the types, the order of the responses, and     *)
(* when a call is sure to get its own: with one connection whose calls     *)
(* wait for their responses, and not otherwise.                            *)
(***************************************************************************)
EXTENDS ShmPolling, QueueLemmas

\* The request of c has been in the ring.
Written(c) == pc[c] \in {"poll", "ok", "expired", "dropped"}

\* A request is written once, and only responses to requests are lost.
Writes ==
    /\ Unique(sent)
    /\ \A c \in Calls : In(sent, c) <=> Written(c)
    /\ \A c \in lost : In(sent, c)

\* What InOrder says, in the terms of the lemmas about queues.
Order ==
    /\ InOrderOf(Chain, sent)
    /\ \A x : In(Chain, x) <=> In(sent, x) /\ x \notin lost

IInv == TypeOK /\ Writes /\ Order

-----------------------------------------------------------------------------
\* The chain is a queue of calls.
LEMMA ChainType ==
    ASSUME TypeOK
    PROVE  /\ Served \in Seq(Calls)
           /\ taken \o responses \in Seq(Calls)
           /\ (taken \o responses) \o Served \in Seq(Calls)
           /\ Chain \in Seq(Calls)
           /\ Chain = ((taken \o responses) \o Served) \o requests
BY DEF TypeOK, Served, Chain

\* A step that leaves the chain, the requests written and those lost alone.
LEMMA SameChain ==
    ASSUME IInv, TypeOK', Chain' = Chain, UNCHANGED <<sent, lost>>,
           \A c \in Calls : Written(c)' <=> Written(c)
    PROVE  IInv'
BY DEF IInv, Writes, Order

\* The invariant holds at the start.
LEMMA InitInv == Init => IInv
<1> SUFFICES ASSUME Init PROVE IInv
  OBVIOUS
<1>1. TypeOK
  BY EmptySeq, ConstantsOK DEF Init, TypeOK, ConstantsOK
<1>2. Chain = <<>>
  BY EmptySeq, ConcatEmptySeq DEF Init, Chain, Served
<1>3. InOrderOf(<<>>, <<>>)
  BY EmptySeq DEF InOrderOf
<1> QED
  BY <1>1, <1>2, <1>3, EmptyQueue DEF Init, IInv, Writes, Order, Written

\* A call that begins.
LEMMA StartInv ==
    ASSUME IInv, NEW c \in Calls, Start(c)
    PROVE  IInv'
<1>1. /\ Goto(c, "idle", "write")
      /\ UNCHANGED <<got, requests, responses, serving, sent, taken, lost>>
  BY DEF Start, rings, history
<1>2. TypeOK'
  BY <1>1 DEF IInv, Goto, TypeOK
<1>3. Chain' = Chain
  BY <1>1 DEF Chain, Served
<1>4. \A d \in Calls : Written(d)' <=> Written(d)
  BY <1>1 DEF IInv, TypeOK, Goto, Written
<1> QED
  BY <1>1, <1>2, <1>3, <1>4, SameChain

\* A call that writes its request: it is the last written, and the end of the chain.
LEMMA WriteRequestInv ==
    ASSUME IInv, NEW c \in Calls, WriteRequest(c)
    PROVE  IInv'
<1>1. /\ Goto(c, "write", "poll")
      /\ requests' = Append(requests, c)
      /\ Len(requests) + 1 <= Slots
      /\ sent' = Append(sent, c)
      /\ UNCHANGED <<got, responses, serving, taken, lost>>
  BY ConstantsOK DEF ConstantsOK, IInv, TypeOK, Request!Write, Request!Fits, One, WriteRequest
<1>2. ~In(sent, c) /\ c \notin lost
  BY <1>1 DEF IInv, Writes, Written, Goto
<1>3. /\ sent' \in Seq(Calls)
      /\ Unique(sent')
      /\ \A x : In(sent', x) <=> In(sent, x) \/ x = c
  BY <1>1, <1>2, AppendQueue DEF IInv, TypeOK, Writes
<1>4. requests' \in Seq(Calls) /\ Len(requests') = Len(requests) + 1
  BY <1>1, AppendQueue DEF IInv, TypeOK
<1>5. TypeOK'
  BY <1>1, <1>3, <1>4 DEF IInv, Goto, TypeOK
<1>6. Chain' = Append(Chain, c)
  <2>1. Served' = Served
    BY <1>1 DEF Served
  <2> DEFINE q == (taken \o responses) \o Served
  <2>2. q \o requests' = Append(q \o requests, c)
    <3>1. q \in Seq(Calls)
      BY ChainType DEF IInv
    <3> HIDE DEF q
    <3> QED
      BY <1>1, <3>1, AppendBehind DEF IInv, TypeOK
  <2> QED
    BY <1>1, <2>1, <2>2 DEF Chain
<1>7. Writes'
  BY <1>1, <1>3 DEF IInv, TypeOK, Writes, Written, Goto
<1>8. Order'
  <2>1. InOrderOf(Chain', sent')
    BY <1>1, <1>6, ChainType, AppendInOrder DEF IInv, TypeOK, Order
  <2>2. \A x : In(Chain', x) <=> In(Chain, x) \/ x = c
    BY <1>6, ChainType, AppendQueue DEF IInv
  <2> QED
    BY <1>1, <1>2, <1>3, <2>1, <2>2 DEF IInv, Order
<1> QED
  BY <1>5, <1>7, <1>8 DEF IInv

\* A call that finds the request ring full.
LEMMA FailRequestInv ==
    ASSUME IInv, NEW c \in Calls, FailRequest(c)
    PROVE  IInv'
<1>1. /\ Goto(c, "write", "failed")
      /\ UNCHANGED <<got, requests, responses, serving, sent, taken, lost>>
  BY DEF FailRequest, Request!Full, history
<1>2. TypeOK'
  BY <1>1 DEF IInv, Goto, TypeOK
<1>3. Chain' = Chain
  BY <1>1 DEF Chain, Served
<1>4. \A d \in Calls : Written(d)' <=> Written(d)
  BY <1>1 DEF IInv, TypeOK, Goto, Written
<1> QED
  BY <1>1, <1>2, <1>3, <1>4, SameChain

\* A call that takes the head of the response ring, whoever it belongs to.
LEMMA TakeResponseInv ==
    ASSUME IInv, NEW c \in Calls, TakeResponse(c)
    PROVE  IInv'
<1>1. /\ Goto(c, "poll", "ok")
      /\ responses # <<>>
      /\ responses' = Tail(responses)
      /\ got' = [got EXCEPT ![c] = Head(responses)]
      /\ taken' = Append(taken, Head(responses))
      /\ UNCHANGED <<requests, serving, sent, lost>>
  BY DEF TakeResponse, Response!Read
<1>2. /\ Head(responses) \in Calls
      /\ responses' \in Seq(Calls)
      /\ Len(responses) \in Nat /\ Len(responses') = Len(responses) - 1
  BY <1>1, TailQueue DEF IInv, TypeOK
<1>3. taken' \in Seq(Calls)
  BY <1>1, <1>2, AppendQueue DEF IInv, TypeOK
<1>4. TypeOK'
  BY <1>1, <1>2, <1>3, ConstantsOK DEF ConstantsOK, IInv, Goto, TypeOK
<1>5. Chain' = Chain
  <2>1. taken' \o responses' = taken \o responses
    BY <1>1, MoveHead DEF IInv, TypeOK
  <2> QED
    BY <1>1, <2>1 DEF Chain, Served
<1>6. \A d \in Calls : Written(d)' <=> Written(d)
  BY <1>1 DEF IInv, TypeOK, Goto, Written
<1> QED
  BY <1>1, <1>4, <1>5, <1>6, SameChain

\* A call that gives up: its response stays where it is.
LEMMA GiveUpInv ==
    ASSUME IInv, NEW c \in Calls, Expire(c) \/ Cancel(c)
    PROVE  IInv'
<1>1. /\ Goto(c, "poll", "expired") \/ Goto(c, "poll", "dropped")
      /\ UNCHANGED <<got, requests, responses, serving, sent, taken, lost>>
  BY DEF Expire, Cancel, rings, history
<1>2. TypeOK'
  BY <1>1 DEF IInv, Goto, TypeOK
<1>3. Chain' = Chain
  BY <1>1 DEF Chain, Served
<1>4. \A d \in Calls : Written(d)' <=> Written(d)
  BY <1>1 DEF IInv, TypeOK, Goto, Written
<1> QED
  BY <1>1, <1>2, <1>3, <1>4, SameChain

\* The backend reads a request: from the ring into its hands.
LEMMA TakeRequestInv ==
    ASSUME IInv, TakeRequest
    PROVE  IInv'
<1>1. /\ serving = None
      /\ requests # <<>>
      /\ requests' = Tail(requests)
      /\ serving' = Head(requests)
      /\ UNCHANGED <<pc, got, responses, sent, taken, lost>>
  BY DEF TakeRequest, Available, Request!Read, calls, history
<1>2. /\ Head(requests) \in Calls
      /\ requests' \in Seq(Calls)
      /\ Len(requests) \in Nat /\ Len(requests') = Len(requests) - 1
  BY <1>1, TailQueue DEF IInv, TypeOK
<1>3. TypeOK'
  BY <1>1, <1>2, ConstantsOK DEF ConstantsOK, IInv, TypeOK
<1>4. Chain' = Chain
  <2> DEFINE q == taken \o responses
  <2>1. q \in Seq(Calls)
    BY ChainType DEF IInv
  <2>2. Served = <<>> /\ Served' = <<Head(requests)>>
    BY <1>1, <1>2, ConstantsOK DEF ConstantsOK, Served
  <2>3. q \o <<>> = q
    BY <2>1, ConcatEmptySeq
  <2> HIDE DEF q
  <2>4. q \o <<Head(requests)>> = Append(q, Head(requests))
    BY <1>2, <2>1, AppendIsConcat
  <2>5. Append(q, Head(requests)) \o Tail(requests) = q \o requests
    BY <1>1, <2>1, MoveHead DEF IInv, TypeOK
  <2> QED
    BY <1>1, <2>2, <2>3, <2>4, <2>5 DEF Chain, q
<1>5. \A d \in Calls : Written(d)' <=> Written(d)
  BY <1>1 DEF Written
<1> QED
  BY <1>1, <1>3, <1>4, <1>5, SameChain

\* The backend writes the response: from its hands into the ring.
LEMMA WriteResponseInv ==
    ASSUME IInv, WriteResponse
    PROVE  IInv'
<1>1. /\ serving \in Calls /\ serving # None
      /\ responses' = Append(responses, serving)
      /\ Len(responses) + 1 <= Slots
      /\ serving' = None
      /\ UNCHANGED <<pc, got, requests, sent, taken, lost>>
  BY ConstantsOK DEF ConstantsOK, IInv, TypeOK, WriteResponse, Response!Write,
                     Response!Fits, One, calls, history
<1>2. responses' \in Seq(Calls) /\ Len(responses') = Len(responses) + 1
  BY <1>1, AppendQueue DEF IInv, TypeOK
<1>3. TypeOK'
  BY <1>1, <1>2 DEF IInv, TypeOK
<1>4. Chain' = Chain
  <2> DEFINE q == taken \o responses
             r == taken \o responses'
  <2>1. q \in Seq(Calls) /\ r \in Seq(Calls)
    BY <1>2, ChainType, ConcatProperties DEF IInv, TypeOK
  <2>2. Served = <<serving>> /\ Served' = <<>>
    BY <1>1 DEF Served
  <2>3. r = Append(q, serving)
    BY <1>1, AppendBehind DEF IInv, TypeOK
  <2> HIDE DEF q, r
  <2>4. r \o <<>> = r
    BY <2>1, ConcatEmptySeq
  <2>5. q \o <<serving>> = Append(q, serving)
    BY <1>1, <2>1, AppendIsConcat
  <2> QED
    BY <1>1, <2>2, <2>3, <2>4, <2>5 DEF Chain, q, r
<1>5. \A d \in Calls : Written(d)' <=> Written(d)
  BY <1>1 DEF Written
<1> QED
  BY <1>1, <1>3, <1>4, <1>5, SameChain

\* The backend finds the response ring full: the response leaves the chain
\* from the middle.
LEMMA DropResponseInv ==
    ASSUME IInv, DropResponse
    PROVE  IInv'
<1>1. /\ serving \in Calls /\ serving # None
      /\ lost' = lost \union {serving}
      /\ serving' = None
      /\ UNCHANGED <<pc, got, requests, responses, sent, taken>>
  BY DEF IInv, TypeOK, DropResponse, Response!Full, calls
<1>2. TypeOK'
  BY <1>1 DEF IInv, TypeOK
<1> DEFINE q == taken \o responses
<1>3. q \in Seq(Calls)
  BY ChainType DEF IInv
<1>4. q \o <<>> = q
  BY <1>3, ConcatEmptySeq
<1>5. /\ Chain = (q \o <<serving>>) \o requests
      /\ Chain' = q \o requests
  BY <1>1, <1>4 DEF Chain, Served
<1> HIDE DEF q
<1>6. /\ InOrderOf(Chain', sent)
      /\ In(Chain, serving)
      /\ \A x : In(Chain', x) <=> In(Chain, x) /\ x # serving
  BY <1>1, <1>3, <1>5, RemoveInOrder DEF IInv, TypeOK, Writes, Order
<1>7. Writes'
  BY <1>1, <1>6 DEF IInv, Writes, Order, Written
<1>8. Order'
  BY <1>1, <1>6 DEF IInv, Order
<1> QED
  BY <1>2, <1>7, <1>8 DEF IInv

\* Every step keeps the invariant.
LEMMA NextInv == IInv /\ [Next]_vars => IInv'
<1> SUFFICES ASSUME IInv, [Next]_vars PROVE IInv'
  OBVIOUS
<1>1. ASSUME NEW c \in Calls, Start(c) \/ CallSteps(c) \/ Cancel(c) PROVE IInv'
  BY <1>1, StartInv, WriteRequestInv, FailRequestInv, TakeResponseInv, GiveUpInv DEF CallSteps
<1>2. CASE Backend
  BY <1>2, TakeRequestInv, WriteResponseInv, DropResponseInv DEF Backend
<1>3. CASE UNCHANGED vars
  <2>1. UNCHANGED <<pc, got, requests, responses, serving, sent, taken, lost>>
    BY <1>3 DEF vars, calls, rings, history
  <2>2. TypeOK' /\ Chain' = Chain /\ \A c \in Calls : Written(c)' <=> Written(c)
    BY <2>1 DEF IInv, TypeOK, Chain, Served, Written
  <2> QED
    BY <2>1, <2>2, SameChain
<1> QED
  BY <1>1, <1>2, <1>3 DEF Next

\* The invariant is one of every reachable state.
THEOREM PollingInvariance == Spec => []IInv
BY InitInv, NextInv, PTL DEF Spec

\* The variables of the polling transport have their types, and no ring holds
\* more than it can.
THEOREM PollingTypes == Spec => []TypeOK
<1>1. IInv => TypeOK
  BY DEF IInv
<1> QED
  BY <1>1, PollingInvariance, PTL

\* The responses that calls of ShmTransport take come out in the order of the
\* requests, each once, for any number of calls that take one another's and
\* give up, and any size of the rings.
THEOREM ResponsesInOrder == Spec => []InOrder
<1>1. IInv => InOrder
  <2> SUFFICES ASSUME IInv PROVE InOrder
    OBVIOUS
  <2>1. DOMAIN sent = 1 .. Len(sent) /\ DOMAIN Chain = 1 .. Len(Chain)
    BY ChainType, LenProperties DEF IInv, TypeOK
  <2>2. IsInjective(sent)
    BY <2>1 DEF IInv, Writes, Unique, IsInjective
  <2>3. Range(Chain) = Range(sent) \ lost
    BY <2>1 DEF IInv, Order, In, Range
  <2>4. \A i, j \in DOMAIN Chain : i < j => Earlier(Chain[i], Chain[j])
    <3> SUFFICES ASSUME NEW i \in DOMAIN Chain, NEW j \in DOMAIN Chain, i < j
                 PROVE  Earlier(Chain[i], Chain[j])
      OBVIOUS
    <3>1. Precedes(sent, Chain[i], Chain[j])
      BY <2>1 DEF IInv, Order, InOrderOf
    <3> QED
      BY <2>1, <3>1 DEF Precedes, Earlier
  <2> QED
    BY <2>2, <2>3, <2>4 DEF InOrder
<1> QED
  BY <1>1, PollingInvariance, PTL

-----------------------------------------------------------------------------
\* What keeps a call from taking another's response when it is alone: it is
\* the only call in progress, at most one message is under way, and that one
\* is its own.
UnderWay == Len(requests) + Len(responses) + Len(Served)

Alone ==
    /\ \A c, d \in InProgress : c = d
    /\ UnderWay <= 1
    /\ \A c \in Calls : In(requests, c) \/ In(responses, c) \/ serving = c => pc[c] = "poll"

AloneInv == IInv /\ Alone /\ OwnResponse

\* Nobody is in progress when the only connection takes a call.
LEMMA OneConnection ==
    ASSUME Connections = 1, Cardinality(InProgress) < Connections
    PROVE  InProgress = {}
<1>1. IsFiniteSet(InProgress)
  BY FS_Subset, ConstantsOK DEF ConstantsOK, InProgress
<1>2. Cardinality(InProgress) = 0
  BY <1>1, FS_CardinalityType
<1> QED
  BY <1>1, <1>2, FS_EmptySet

\* A queue has a length, and an element when it has one.
LEMMA Lengths ==
    ASSUME TypeOK
    PROVE  /\ Len(requests) \in Nat /\ Len(responses) \in Nat /\ Len(Served) \in Nat
           /\ Len(Served) = 0 <=> serving = None
           /\ requests = <<>> <=> Len(requests) = 0
           /\ responses = <<>> <=> Len(responses) = 0
           /\ requests # <<>> => In(requests, Head(requests)) /\ Head(requests) \in Calls
           /\ responses # <<>> => In(responses, Head(responses)) /\ Head(responses) \in Calls
BY LenProperties, EmptySeq, TailQueue, ChainType DEF TypeOK, Served

\* Three numbers that make one at most.
LEMMA OnlyOne ==
    ASSUME NEW i \in Nat, NEW j \in Nat, NEW k \in Nat, i + j + k <= 1
    PROVE  /\ i # 0 => i = 1 /\ j = 0 /\ k = 0
           /\ j # 0 => j = 1 /\ i = 0 /\ k = 0
OBVIOUS

\* A call alone on the only connection gets its own response, if none gives up.
LEMMA AloneNext ==
    ASSUME Connections = 1, MayGiveUp = FALSE, AloneInv, IInv', [Next]_vars
    PROVE  AloneInv'
<1> USE DEF AloneInv, IInv
<1>0. /\ Len(requests) \in Nat /\ Len(responses) \in Nat /\ Len(Served) \in Nat
      /\ requests = <<>> <=> Len(requests) = 0
      /\ responses = <<>> <=> Len(responses) = 0
  BY Lengths
<1>1. ASSUME NEW c \in Calls, Start(c) PROVE (Alone /\ OwnResponse)'
  <2>1. /\ Goto(c, "idle", "write")
        /\ InProgress = {}
        /\ UNCHANGED <<got, requests, responses, serving>>
    BY <1>1, OneConnection DEF Start, rings
  <2>2. InProgress' = {c}
    BY <2>1 DEF Goto, TypeOK, InProgress
  <2>3. UnderWay' = UnderWay
    BY <2>1 DEF UnderWay, Served
  <2>4. OwnResponse'
    BY <2>1 DEF Goto, TypeOK, OwnResponse
  <2> QED
    BY <2>1, <2>2, <2>3, <2>4 DEF Goto, TypeOK, Alone
<1>2. ASSUME NEW c \in Calls, WriteRequest(c) PROVE (Alone /\ OwnResponse)'
  <2>1. /\ Goto(c, "write", "poll")
        /\ requests' = Append(requests, c)
        /\ UNCHANGED <<got, responses, serving>>
    BY <1>2 DEF WriteRequest, Request!Write
  <2>2. \A d \in Calls : pc[d] # "poll"
    <3> SUFFICES ASSUME NEW d \in Calls, pc[d] = "poll" PROVE FALSE
      OBVIOUS
    <3> QED
      BY <2>1 DEF Goto, Alone, InProgress
  <2>3. requests = <<>> /\ responses = <<>> /\ serving = None
    BY <2>2, Lengths DEF Alone, TypeOK
  <2>4. /\ Len(requests') = 1
        /\ \A x : In(requests', x) <=> x = c
    <3>1. /\ Len(Append(requests, c)) = Len(requests) + 1
          /\ \A x : In(Append(requests, c), x) <=> In(requests, x) \/ x = c
      BY AppendQueue DEF TypeOK
    <3>2. Len(requests) = 0 /\ \A x : ~In(requests, x)
      BY <1>0, <2>3, EmptyQueue
    <3> QED
      BY <2>1, <3>1, <3>2
  <2>5. UnderWay' <= 1
    BY <2>1, <2>3, <2>4, Lengths DEF UnderWay, Served
  <2>6. InProgress' = InProgress
    BY <2>1 DEF Goto, TypeOK, InProgress
  <2>7. OwnResponse'
    BY <2>1 DEF Goto, TypeOK, OwnResponse
  <2> QED
    BY <2>1, <2>3, <2>4, <2>5, <2>6, <2>7, EmptyQueue, ConstantsOK
    DEF ConstantsOK, Goto, TypeOK, Alone
<1>3. ASSUME NEW c \in Calls, FailRequest(c) PROVE (Alone /\ OwnResponse)'
  <2>1. /\ Goto(c, "write", "failed")
        /\ UNCHANGED <<got, requests, responses, serving>>
    BY <1>3 DEF FailRequest, Request!Full
  <2>2. InProgress' \subseteq InProgress
    BY <2>1 DEF Goto, TypeOK, InProgress
  <2>3. UnderWay' = UnderWay
    BY <2>1 DEF UnderWay, Served
  <2>4. OwnResponse'
    BY <2>1 DEF Goto, TypeOK, OwnResponse
  <2> QED
    BY <2>1, <2>2, <2>3, <2>4 DEF Goto, TypeOK, Alone
<1>4. ASSUME NEW c \in Calls, TakeResponse(c) PROVE (Alone /\ OwnResponse)'
  <2>1. /\ Goto(c, "poll", "ok")
        /\ responses # <<>>
        /\ responses' = Tail(responses)
        /\ got' = [got EXCEPT ![c] = Head(responses)]
        /\ UNCHANGED <<requests, serving>>
    BY <1>4 DEF TakeResponse, Response!Read
  <2>2. Head(responses) = c
    BY <2>1, Lengths DEF Goto, Alone, InProgress
  <2>3. Len(responses') = Len(responses) - 1
    BY <2>1, TailQueue DEF TypeOK
  <2>4. responses' = <<>> /\ requests = <<>> /\ serving = None /\ UnderWay' <= 1
    <3>1. Len(responses) = 1 /\ Len(requests) = 0 /\ Len(Served) = 0
      <4>1. Len(responses) # 0
        BY <2>1, <1>0
      <4>2. Len(requests) + Len(responses) + Len(Served) <= 1
        BY DEF Alone, UnderWay
      <4> QED
        BY <1>0, <4>1, <4>2, OnlyOne
    <3>2. responses' \in Seq(Calls)
      BY DEF TypeOK
    <3> QED
      BY <2>1, <2>3, <3>1, <3>2, Lengths, EmptySeq DEF UnderWay, Served
  <2>5. InProgress' \subseteq InProgress
    BY <2>1 DEF Goto, TypeOK, InProgress
  <2>6. OwnResponse'
    BY <2>1, <2>2 DEF Goto, TypeOK, OwnResponse
  <2> QED
    BY <2>1, <2>4, <2>5, <2>6, EmptyQueue, ConstantsOK DEF ConstantsOK, Alone
<1>5. ASSUME TakeRequest PROVE (Alone /\ OwnResponse)'
  <2>1. /\ serving = None
        /\ requests # <<>>
        /\ requests' = Tail(requests)
        /\ serving' = Head(requests)
        /\ UNCHANGED <<pc, got, responses>>
    BY <1>5 DEF TakeRequest, Available, Request!Read, calls
  <2>2. Len(requests') = Len(requests) - 1
    BY <2>1, TailQueue DEF TypeOK
  <2>3. requests' = <<>> /\ responses = <<>>
    <3>1. Len(requests) = 1 /\ Len(responses) = 0
      <4>1. Len(requests) # 0
        BY <2>1, <1>0
      <4>2. Len(requests) + Len(responses) + Len(Served) <= 1
        BY DEF Alone, UnderWay
      <4> QED
        BY <1>0, <4>1, <4>2, OnlyOne
    <3>2. requests' \in Seq(Calls)
      BY DEF TypeOK
    <3> QED
      BY <2>1, <2>2, <3>1, <3>2, Lengths, EmptySeq
  <2>4. UnderWay' <= 1
    <3>1. Len(requests') = 0 /\ Len(responses') = 0
      BY <2>1, <2>3, EmptySeq
    <3>2. Len(Served') = 1
      BY <2>1, Lengths, ConstantsOK DEF ConstantsOK, Served
    <3> QED
      BY <3>1, <3>2 DEF UnderWay
  <2>5. pc[Head(requests)] = "poll" /\ Head(requests) \in Calls
    BY <2>1, Lengths DEF Alone
  <2>6. OwnResponse' /\ InProgress' = InProgress
    BY <2>1 DEF OwnResponse, InProgress
  <2> QED
    BY <2>1, <2>3, <2>4, <2>5, <2>6, EmptyQueue DEF Alone
<1>6. ASSUME WriteResponse \/ DropResponse PROVE (Alone /\ OwnResponse)'
  <2>1. /\ serving \in Calls
        /\ serving' = None
        /\ responses' = Append(responses, serving) \/ responses' = responses
        /\ UNCHANGED <<pc, got, requests>>
    BY <1>6 DEF WriteResponse, DropResponse, Response!Write, Response!Full, calls, TypeOK
  <2>2. /\ Len(responses') <= Len(responses) + 1
        /\ \A x : In(responses', x) => In(responses, x) \/ x = serving
    <3>1. /\ Len(Append(responses, serving)) = Len(responses) + 1
          /\ \A x : In(Append(responses, serving), x) <=> In(responses, x) \/ x = serving
      BY <2>1, AppendQueue DEF TypeOK
    <3>2. CASE responses' = Append(responses, serving)
      BY <1>0, <3>1, <3>2
    <3>3. CASE responses' = responses
      BY <1>0, <3>3
    <3> QED
      BY <2>1, <3>2, <3>3
  <2>3. UnderWay' <= 1
    <3>1. Len(Served) = 1 /\ Len(Served') = 0
      BY <2>1, ConstantsOK DEF ConstantsOK, Served
    <3>2. Len(responses') \in Nat
      BY LenProperties DEF TypeOK
    <3> QED
      BY <2>1, <2>2, <3>1, <3>2, Lengths DEF Alone, UnderWay
  <2>4. OwnResponse' /\ InProgress' = InProgress
    BY <2>1 DEF OwnResponse, InProgress
  <2> QED
    BY <2>1, <2>2, <2>3, <2>4, ConstantsOK DEF ConstantsOK, Alone
<1>7. CASE UNCHANGED vars
  BY <1>7 DEF vars, calls, rings, Alone, OwnResponse, InProgress, UnderWay, Served
<1> QED
  BY <1>1, <1>2, <1>3, <1>4, <1>5, <1>6, <1>7 DEF Next, CallSteps, Backend, Expire, Cancel

\* The promise of Transport::call, kept in the case in which the code can keep
\* it: the calls of a single connection, each waiting for its response, return
\* their own.  With a second connection, or a call that has given up, they
\* need not.
THEOREM OwnResponseWhenAlone ==
    ASSUME Connections = 1, MayGiveUp = FALSE
    PROVE  Spec => []OwnResponse
<1>1. Init => AloneInv
  <2> SUFFICES ASSUME Init PROVE AloneInv
    OBVIOUS
  <2>1. IInv
    BY InitInv
  <2>2. InProgress = {} /\ OwnResponse
    BY DEF Init, InProgress, OwnResponse
  <2>3. UnderWay <= 1
    BY EmptySeq DEF Init, UnderWay, Served
  <2> QED
    BY <2>1, <2>2, <2>3, EmptyQueue, ConstantsOK DEF ConstantsOK, Init, AloneInv, Alone
<1>2. AloneInv /\ [Next]_vars => AloneInv'
  BY AloneNext, NextInv DEF AloneInv
<1>3. AloneInv => OwnResponse
  BY DEF AloneInv
<1> QED
  BY <1>1, <1>2, <1>3, PTL DEF Spec
=============================================================================
