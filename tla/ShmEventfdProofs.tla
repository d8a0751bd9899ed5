-------------------------- MODULE ShmEventfdProofs --------------------------
(***************************************************************************)
(* Proofs about the eventfd transport, for any calls, any ring and any     *)
(* limit of an eventfd.  First ShmEventfd: there is one signal for each    *)
(* message, a request is in one place, and the transport implements        *)
(* EchoRpc.  Then EventFdWait: no signal is lost, and the wait implements  *)
(* the counter that ShmEventfd has in the place of an eventfd.             *)
(***************************************************************************)
EXTENDS ShmEventfd, EventFdWait, QueueLemmas

\* The types, with numbers for the counts: their bounds follow from
\* SignalsMatchMessages and Places.
Types ==
    /\ pc \in [Calls -> {"idle", "write", "signal", "await"} \union CallEnds]
    /\ pending \subseteq Calls
    /\ mailbox \in [Calls -> Calls \union {None}]
    /\ requests \in Seq(Calls) /\ Len(requests) <= Slots
    /\ responses \in Seq(Calls) /\ Len(responses) <= Slots
    /\ request_event \in Nat
    /\ response_event \in Nat
    /\ request_todo \in Nat
    /\ task \in [Calls -> {"none", "running", "signal", "done", "lost"}]
    /\ response_todo \in Nat
    /\ held \in Calls \union {None}

\* The request of c has been in the ring.
Written(c) == pc[c] \in {"signal", "await", "ok", "dropped"}

\* Where a message is, told by the steps of its call and its task: the
\* request is in the ring until a task has it, the response is in the ring or
\* in the listener's hands until the entry of the call is removed.
Places ==
    /\ Unique(requests) /\ Unique(responses)
    /\ \A c \in Calls :
           /\ In(requests, c) <=> Written(c) /\ task[c] = "none"
           /\ In(responses, c) \/ held = c <=>
                  task[c] \in {"signal", "done"} /\ c \in pending
           /\ held = c => ~In(responses, c)
           /\ task[c] # "none" => Written(c)
           /\ pc[c] = "idle" => c \notin pending
           /\ pc[c] \in {"write", "failed"} => c \in pending
           /\ Written(c) /\ task[c] \in {"none", "running", "lost"} => c \in pending

\* A call gets its own response or none, and has it when it returns.
Mailboxes ==
    \A c \in Calls : /\ mailbox[c] \in {c, None}
                     /\ pc[c] = "ok" => mailbox[c] = c

IInv == Types /\ Places /\ Mailboxes /\ SignalsMatchMessages

\* Calls between their write and their signal, and tasks.
Callers == Cardinality({c \in Calls : pc[c] = "signal"})
Tasks == Cardinality({c \in Calls : task[c] = "signal"})

-----------------------------------------------------------------------------
\* How many callers are about to signal after a call has moved.
LEMMA CallerMoves ==
    ASSUME Types, NEW c \in Calls, NEW from, NEW to, Goto(c, from, to)
    PROVE  /\ Callers \in Nat /\ Callers' \in Nat
           /\ from # "signal" /\ to = "signal" => Callers' = Callers + 1
           /\ from = "signal" /\ to # "signal" => Callers' = Callers - 1
           /\ from # "signal" /\ to # "signal" => Callers' = Callers
<1> DEFINE V == {"signal"}
<1>1. /\ pc[c] = from /\ pc'[c] = to
      /\ OnlyMoves(Calls, pc, pc', c)
  BY DEF Goto, Types, OnlyMoves
<1>2. Callers = Count(Calls, pc, V) /\ Callers' = Count(Calls, pc', V)
  BY DEF Callers, Count
<1>3. IsFiniteSet(Calls)
  BY ConstantsOK DEF ConstantsOK
<1>4. \A x : x \in V <=> x = "signal"
  OBVIOUS
<1> HIDE DEF V
<1>5. /\ Count(Calls, pc, V) \in Nat /\ Count(Calls, pc', V) \in Nat
      /\ pc'[c] \in V /\ pc[c] \notin V => Count(Calls, pc', V) = Count(Calls, pc, V) + 1
      /\ pc'[c] \notin V /\ pc[c] \in V => Count(Calls, pc', V) = Count(Calls, pc, V) - 1
      /\ (pc'[c] \in V <=> pc[c] \in V) => Count(Calls, pc', V) = Count(Calls, pc, V)
  BY <1>1, <1>3, CountMove
<1> QED
  BY <1>1, <1>2, <1>4, <1>5

\* How many tasks are about to signal after a task has moved.
LEMMA TaskMoves ==
    ASSUME Types, NEW c \in Calls, NEW from, NEW to, Step(c, from, to)
    PROVE  /\ Tasks \in Nat /\ Tasks' \in Nat
           /\ from # "signal" /\ to = "signal" => Tasks' = Tasks + 1
           /\ from = "signal" /\ to # "signal" => Tasks' = Tasks - 1
           /\ from # "signal" /\ to # "signal" => Tasks' = Tasks
<1> DEFINE V == {"signal"}
<1>1. /\ task[c] = from /\ task'[c] = to
      /\ OnlyMoves(Calls, task, task', c)
  BY DEF Step, Types, OnlyMoves
<1>2. Tasks = Count(Calls, task, V) /\ Tasks' = Count(Calls, task', V)
  BY DEF Tasks, Count
<1>3. IsFiniteSet(Calls)
  BY ConstantsOK DEF ConstantsOK
<1>4. \A x : x \in V <=> x = "signal"
  OBVIOUS
<1> HIDE DEF V
<1>5. /\ Count(Calls, task, V) \in Nat /\ Count(Calls, task', V) \in Nat
      /\ task'[c] \in V /\ task[c] \notin V => Count(Calls, task', V) = Count(Calls, task, V) + 1
      /\ task'[c] \notin V /\ task[c] \in V => Count(Calls, task', V) = Count(Calls, task, V) - 1
      /\ (task'[c] \in V <=> task[c] \in V) => Count(Calls, task', V) = Count(Calls, task, V)
  BY <1>1, <1>3, CountMove
<1> QED
  BY <1>1, <1>2, <1>4, <1>5

\* The counts are numbers.
LEMMA Counts == Types => Callers \in Nat /\ Tasks \in Nat
<1> SUFFICES ASSUME Types PROVE Callers \in Nat /\ Tasks \in Nat
  OBVIOUS
<1>1. /\ IsFiniteSet({c \in Calls : pc[c] = "signal"})
      /\ IsFiniteSet({c \in Calls : task[c] = "signal"})
  BY FS_Subset, ConstantsOK DEF ConstantsOK
<1> QED
  BY <1>1, FS_CardinalityType DEF Callers, Tasks

-----------------------------------------------------------------------------
\* The invariant holds at the start.
LEMMA InitInv == Init => IInv
<1> SUFFICES ASSUME Init PROVE IInv
  OBVIOUS
<1> USE ConstantsOK DEF ConstantsOK, Init
<1>1. Types
  BY EmptySeq DEF Types
<1>2. Places
  BY EmptyQueue DEF Places, Written
<1>3. Mailboxes
  BY DEF Mailboxes
<1>4. SignalsMatchMessages
  <2>1. {c \in Calls : pc[c] = "signal"} = {} /\ {c \in Calls : task[c] = "signal"} = {}
    OBVIOUS
  <2>2. Cardinality({c \in Calls : pc[c] = "signal"}) = 0
    BY <2>1, FS_EmptySet, Zenon
  <2>3. Cardinality({c \in Calls : task[c] = "signal"}) = 0
    BY <2>1, FS_EmptySet, Zenon
  <2>4. Len(requests) = 0 /\ Len(responses) = 0
    BY EmptySeq
  <2> QED
    BY <2>2, <2>3, <2>4
    DEF SignalsMatchMessages, RequestsAnnounced, ResponsesAnnounced
<1> QED
  BY <1>1, <1>2, <1>3, <1>4 DEF IInv


\* A call that registers.
LEMMA RegisterInv ==
    ASSUME IInv, NEW c \in Calls, Register(c)
    PROVE  IInv'
<1> USE DEF IInv
<1>1. /\ Goto(c, "idle", "write")
      /\ pending' = pending \union {c}
      /\ UNCHANGED <<mailbox, requests, responses, request_event, response_event,
                     request_todo, task, response_todo, held>>
  BY DEF Register, rings, events, backend, listener
<1>2. Types'
  BY <1>1 DEF Goto, Types, CallEnds
<1>3. Places'
  BY <1>1 DEF Goto, Types, Places, Written
<1>4. Mailboxes'
  BY <1>1 DEF Goto, Types, Mailboxes
<1>5. SignalsMatchMessages'
  <2>1. Callers \in Nat /\ Callers' = Callers
    BY <1>1, CallerMoves
  <2> QED
    BY <1>1, <2>1 DEF SignalsMatchMessages, RequestsAnnounced, ResponsesAnnounced,
                      Callers, RequestsBlocked, ResponsesBlocked
<1> QED
  BY <1>2, <1>3, <1>4, <1>5

\* A call that writes its request: one more message, one more about to be announced.
LEMMA WriteRequestInv ==
    ASSUME IInv, NEW c \in Calls, WriteRequest(c)
    PROVE  IInv'
<1> USE DEF IInv
<1>1. /\ Goto(c, "write", "signal")
      /\ requests' = Append(requests, c)
      /\ Len(requests) + 1 <= Slots
      /\ UNCHANGED <<pending, mailbox, responses, request_event, response_event,
                     request_todo, task, response_todo, held>>
  BY ConstantsOK DEF ConstantsOK, Types, Request!Write, Request!Fits, One,
                     WriteRequest, events, backend, listener
<1>2. ~In(requests, c)
  BY <1>1 DEF Goto, Places, Written
<1>3. /\ requests' \in Seq(Calls)
      /\ Len(requests') = Len(requests) + 1
      /\ \A x : In(requests', x) <=> In(requests, x) \/ x = c
      /\ Unique(requests')
      /\ requests' # <<>>
      /\ Head(requests') = IF requests = <<>> THEN c ELSE Head(requests)
  BY <1>1, <1>2, AppendQueue DEF Types, Places
<1>4. Types'
  BY <1>1, <1>3 DEF Goto, Types, CallEnds
<1>5. Places'
  BY <1>1, <1>3 DEF Goto, Types, Places, Written
<1>6. Mailboxes'
  BY <1>1 DEF Goto, Types, Mailboxes
<1>7. SignalsMatchMessages'
  <2>1. Callers \in Nat /\ Callers' = Callers + 1
    BY <1>1, CallerMoves
  <2>2. RequestsBlocked => RequestsBlocked'
    BY <1>3 DEF RequestsBlocked
  <2>3. Len(requests) \in Nat
    BY LenProperties DEF Types
  <2> QED
    BY <1>1, <1>3, <2>1, <2>2, <2>3
    DEF Types, SignalsMatchMessages, RequestsAnnounced, ResponsesAnnounced,
        Callers, ResponsesBlocked
<1> QED
  BY <1>4, <1>5, <1>6, <1>7
\* A call that finds the request ring full: its entry stays.
LEMMA FailRequestInv ==
    ASSUME IInv, NEW c \in Calls, FailRequest(c)
    PROVE  IInv'
<1> USE DEF IInv
<1>1. /\ Goto(c, "write", "failed")
      /\ UNCHANGED <<pending, mailbox, requests, responses, request_event,
                     response_event, request_todo, task, response_todo, held>>
  BY DEF FailRequest, Request!Full, events, backend, listener
<1>2. Types'
  BY <1>1 DEF Goto, Types, CallEnds
<1>3. Places'
  BY <1>1 DEF Goto, Types, Places, Written
<1>4. Mailboxes'
  BY <1>1 DEF Goto, Types, Mailboxes
<1>5. SignalsMatchMessages'
  <2>1. Callers \in Nat /\ Callers' = Callers
    BY <1>1, CallerMoves
  <2> QED
    BY <1>1, <2>1 DEF SignalsMatchMessages, RequestsAnnounced, ResponsesAnnounced,
                      Callers, RequestsBlocked, ResponsesBlocked
<1> QED
  BY <1>2, <1>3, <1>4, <1>5

\* A call that signals: from about to be announced to announced.
LEMMA SignalRequestInv ==
    ASSUME IInv, NEW c \in Calls, SignalRequest(c)
    PROVE  IInv'
<1> USE DEF IInv
<1>1. /\ Goto(c, "signal", "await")
      /\ request_event' = request_event + 1
      /\ UNCHANGED <<pending, mailbox, requests, responses, response_event,
                     request_todo, task, response_todo, held>>
  BY DEF SignalRequest, Signalled, rings, backend, listener
<1>2. Types'
  BY <1>1 DEF Goto, Types, CallEnds
<1>3. Places'
  BY <1>1 DEF Goto, Types, Places, Written
<1>4. Mailboxes'
  BY <1>1 DEF Goto, Types, Mailboxes
<1>5. SignalsMatchMessages'
  <2>1. Callers \in Nat /\ Callers' = Callers - 1
    BY <1>1, CallerMoves
  <2>2. RequestsAnnounced' = RequestsAnnounced
    BY <1>1, <2>1 DEF Types, RequestsAnnounced, Callers, Signalled
  <2>3. ResponsesAnnounced' = ResponsesAnnounced
    BY <1>1 DEF ResponsesAnnounced
  <2>4. (RequestsBlocked' <=> RequestsBlocked) /\ (ResponsesBlocked' <=> ResponsesBlocked)
    BY <1>1 DEF RequestsBlocked, ResponsesBlocked
  <2> QED
    BY <1>1, <2>2, <2>3, <2>4 DEF SignalsMatchMessages
<1> QED
  BY <1>2, <1>3, <1>4, <1>5

\* A call that returns: its mailbox holds its own response.
LEMMA ReturnInv ==
    ASSUME IInv, NEW c \in Calls, Return(c)
    PROVE  IInv'
<1> USE DEF IInv
<1>1. /\ Goto(c, "await", "ok")
      /\ mailbox[c] # None
      /\ UNCHANGED <<pending, mailbox, requests, responses, request_event,
                     response_event, request_todo, task, response_todo, held>>
  BY DEF Return, rings, events, backend, listener
<1>2. Types'
  BY <1>1 DEF Goto, Types, CallEnds
<1>3. Places'
  BY <1>1 DEF Goto, Types, Places, Written
<1>4. Mailboxes'
  BY <1>1 DEF Goto, Types, Mailboxes
<1>5. SignalsMatchMessages'
  <2>1. Callers \in Nat /\ Callers' = Callers
    BY <1>1, CallerMoves
  <2> QED
    BY <1>1, <2>1 DEF SignalsMatchMessages, RequestsAnnounced, ResponsesAnnounced,
                      Callers, RequestsBlocked, ResponsesBlocked
<1> QED
  BY <1>2, <1>3, <1>4, <1>5

\* A call whose future is dropped.
LEMMA CancelInv ==
    ASSUME IInv, NEW c \in Calls, Cancel(c)
    PROVE  IInv'
<1> USE DEF IInv
<1>1. /\ Goto(c, "await", "dropped")
      /\ UNCHANGED <<pending, mailbox, requests, responses, request_event,
                     response_event, request_todo, task, response_todo, held>>
  BY DEF Cancel, rings, events, backend, listener
<1>2. Types'
  BY <1>1 DEF Goto, Types, CallEnds
<1>3. Places'
  BY <1>1 DEF Goto, Types, Places, Written
<1>4. Mailboxes'
  BY <1>1 DEF Goto, Types, Mailboxes
<1>5. SignalsMatchMessages'
  <2>1. Callers \in Nat /\ Callers' = Callers
    BY <1>1, CallerMoves
  <2> QED
    BY <1>1, <2>1 DEF SignalsMatchMessages, RequestsAnnounced, ResponsesAnnounced,
                      Callers, RequestsBlocked, ResponsesBlocked
<1> QED
  BY <1>2, <1>3, <1>4, <1>5

\* The backend takes the whole count: what it announces is left to do.
LEMMA BackendWakesInv ==
    ASSUME IInv, BackendWakes
    PROVE  IInv'
<1> USE DEF IInv
<1>1. /\ request_todo = 0
      /\ request_todo' = request_event
      /\ request_event' = 0
      /\ UNCHANGED <<pc, pending, mailbox, requests, responses, response_event,
                     task, response_todo, held>>
  BY DEF BackendWakes, calls, rings, listener
<1>2. Types'
  BY <1>1 DEF Types
<1>3. Places'
  BY <1>1 DEF Places, Written
<1>4. Mailboxes'
  BY <1>1 DEF Mailboxes
<1>5. SignalsMatchMessages'
  <2>1. Callers \in Nat
    BY Counts
  <2> QED
    BY <1>1, <2>1 DEF Types, SignalsMatchMessages, RequestsAnnounced, ResponsesAnnounced,
                      Callers, RequestsBlocked, ResponsesBlocked
<1> QED
  BY <1>2, <1>3, <1>4, <1>5

\* The backend reads the request that was announced and gives it a task.
LEMMA TakeRequestInv ==
    ASSUME IInv, TakeRequest
    PROVE  IInv'
<1> USE DEF IInv
<1>1. /\ requests # <<>> /\ FitsBackend(Head(requests))
      /\ requests' = Tail(requests)
      /\ request_todo > 0
      /\ request_todo' = request_todo - 1
      /\ task' = [task EXCEPT ![Head(requests)] = "running"]
      /\ UNCHANGED <<pc, pending, mailbox, responses, request_event,
                     response_event, response_todo, held>>
  BY DEF TakeRequest, Request!Read, calls, events, listener
<1>2. /\ Head(requests) \in Calls
      /\ In(requests, Head(requests))
      /\ Unique(requests')
      /\ requests' \in Seq(Calls)
      /\ Len(requests) \in Nat /\ Len(requests') = Len(requests) - 1
      /\ \A x : In(requests', x) <=> In(requests, x) /\ x # Head(requests)
  BY <1>1, TailQueue DEF Types, Places
<1>3. Step(Head(requests), "none", "running")
  BY <1>1, <1>2 DEF Step, Places
<1>4. Types'
  BY <1>1, <1>2, ConstantsOK DEF ConstantsOK, Types
<1>5. Places'
  BY <1>1, <1>2, <1>3 DEF Types, Places, Written, Step
<1>6. Mailboxes'
  BY <1>1 DEF Mailboxes
<1>7. SignalsMatchMessages'
  <2>1. Callers \in Nat /\ Callers' = Callers
    BY <1>1, Counts DEF Callers
  <2>2. Tasks \in Nat /\ Tasks' = Tasks
    BY <1>2, <1>3, TaskMoves
  <2>3. ~RequestsBlocked
    BY <1>1 DEF RequestsBlocked
  <2> QED
    BY <1>1, <1>2, <2>1, <2>2, <2>3
    DEF Types, SignalsMatchMessages, RequestsAnnounced, ResponsesAnnounced,
        Callers, Tasks, ResponsesBlocked
<1> QED
  BY <1>4, <1>5, <1>6, <1>7

\* The backend cannot read a request: the ring is blocked, for it has a signal to use up.
LEMMA SkipRequestInv ==
    ASSUME IInv, SkipRequest
    PROVE  IInv'
<1> USE DEF IInv
<1>1. /\ ~(requests # <<>> /\ FitsBackend(Head(requests)))
      /\ request_todo > 0
      /\ request_todo' = request_todo - 1
      /\ UNCHANGED <<pc, pending, mailbox, requests, responses, request_event,
                     response_event, task, response_todo, held>>
  BY DEF SkipRequest, Request!NothingRead, calls, events, listener
<1>2. Types'
  BY <1>1 DEF Types
<1>3. Places'
  BY <1>1 DEF Places, Written
<1>4. Mailboxes'
  BY <1>1 DEF Mailboxes
<1>5. SignalsMatchMessages'
  <2>1. Callers \in Nat
    BY Counts
  <2>2. requests # <<>>
    BY <1>1, <2>1, EmptySeq DEF Types, SignalsMatchMessages, RequestsAnnounced, ResponsesAnnounced, Callers
  <2>3. RequestsBlocked /\ RequestsBlocked'
    BY <1>1, <2>2 DEF RequestsBlocked
  <2> QED
    BY <1>1, <2>1, <2>3 DEF Types, SignalsMatchMessages, RequestsAnnounced, ResponsesAnnounced,
                      Callers, Tasks, ResponsesBlocked
<1> QED
  BY <1>2, <1>3, <1>4, <1>5

\* A task that writes its response: one more message, one more about to be announced.
LEMMA WriteResponseInv ==
    ASSUME IInv, NEW c \in Calls, WriteResponse(c)
    PROVE  IInv'
<1> USE DEF IInv
<1>1. /\ Step(c, "running", "signal")
      /\ responses' = Append(responses, c)
      /\ Len(responses) + 1 <= Slots
      /\ UNCHANGED <<pc, pending, mailbox, requests, request_event,
                     response_event, request_todo, response_todo, held>>
  BY ConstantsOK DEF ConstantsOK, Types, Response!Write, Response!Fits, One,
                     WriteResponse, calls, events, listener
<1>2. ~In(responses, c) /\ held # c /\ c \in pending /\ Written(c)
  BY <1>1 DEF Step, Places, Written
<1>3. /\ responses' \in Seq(Calls)
      /\ Len(responses') = Len(responses) + 1
      /\ \A x : In(responses', x) <=> In(responses, x) \/ x = c
      /\ Unique(responses')
      /\ responses' # <<>>
      /\ Head(responses') = IF responses = <<>> THEN c ELSE Head(responses)
  BY <1>1, <1>2, AppendQueue DEF Types, Places
<1>4. Types'
  BY <1>1, <1>3 DEF Step, Types
<1>5. Places'
  BY <1>1, <1>2, <1>3 DEF Step, Types, Places, Written
<1>6. Mailboxes'
  BY <1>1 DEF Mailboxes
<1>7. SignalsMatchMessages'
  <2>1. Tasks \in Nat /\ Tasks' = Tasks + 1
    BY <1>1, TaskMoves
  <2>2. ResponsesBlocked => ResponsesBlocked'
    BY <1>3 DEF ResponsesBlocked
  <2>3. Len(responses) \in Nat
    BY LenProperties DEF Types
  <2> QED
    BY <1>1, <1>3, <2>1, <2>2, <2>3
    DEF Types, SignalsMatchMessages, RequestsAnnounced, ResponsesAnnounced,
        Tasks, RequestsBlocked
<1> QED
  BY <1>4, <1>5, <1>6, <1>7

\* A task that finds the response ring full: the response is lost, the entry stays.
LEMMA DropResponseInv ==
    ASSUME IInv, NEW c \in Calls, DropResponse(c)
    PROVE  IInv'
<1> USE DEF IInv
<1>1. /\ Step(c, "running", "lost")
      /\ UNCHANGED <<pc, pending, mailbox, requests, responses, request_event,
                     response_event, request_todo, response_todo, held>>
  BY DEF DropResponse, SignalAfterDrop, Response!Full, calls, listener
<1>2. Types'
  BY <1>1 DEF Step, Types
<1>3. Places'
  BY <1>1 DEF Step, Types, Places, Written
<1>4. Mailboxes'
  BY <1>1 DEF Mailboxes
<1>5. SignalsMatchMessages'
  <2>1. Tasks \in Nat /\ Tasks' = Tasks
    BY <1>1, TaskMoves
  <2> QED
    BY <1>1, <2>1 DEF SignalsMatchMessages, RequestsAnnounced, ResponsesAnnounced,
                      Tasks, RequestsBlocked, ResponsesBlocked
<1> QED
  BY <1>2, <1>3, <1>4, <1>5

\* A task that signals: from about to be announced to announced.
LEMMA SignalResponseInv ==
    ASSUME IInv, NEW c \in Calls, SignalResponse(c)
    PROVE  IInv'
<1> USE DEF IInv
<1>1. /\ Step(c, "signal", "done")
      /\ response_event' = response_event + 1
      /\ UNCHANGED <<pc, pending, mailbox, requests, responses, request_event,
                     request_todo, response_todo, held>>
  BY DEF SignalResponse, Signalled, calls, rings, listener
<1>2. Types'
  BY <1>1 DEF Step, Types
<1>3. Places'
  BY <1>1 DEF Step, Types, Places, Written
<1>4. Mailboxes'
  BY <1>1 DEF Mailboxes
<1>5. SignalsMatchMessages'
  <2>1. Tasks \in Nat /\ Tasks' = Tasks - 1
    BY <1>1, TaskMoves
  <2>2. ResponsesAnnounced' = ResponsesAnnounced
    BY <1>1, <2>1 DEF Types, ResponsesAnnounced, Tasks
  <2>3. RequestsAnnounced' = RequestsAnnounced
    BY <1>1 DEF RequestsAnnounced
  <2>4. (RequestsBlocked' <=> RequestsBlocked) /\ (ResponsesBlocked' <=> ResponsesBlocked)
    BY <1>1 DEF RequestsBlocked, ResponsesBlocked
  <2> QED
    BY <1>1, <2>2, <2>3, <2>4 DEF SignalsMatchMessages
<1> QED
  BY <1>2, <1>3, <1>4, <1>5

\* The gateway takes the whole count: what it announces is left to do.
LEMMA ListenerWakesInv ==
    ASSUME IInv, ListenerWakes
    PROVE  IInv'
<1> USE DEF IInv
<1>1. /\ response_todo = 0
      /\ response_todo' = response_event
      /\ response_event' = 0
      /\ UNCHANGED <<pc, pending, mailbox, requests, responses, request_event,
                     request_todo, task, held>>
  BY DEF ListenerWakes, Iterations, calls, rings, backend
<1>2. Types'
  BY <1>1 DEF Types
<1>3. Places'
  BY <1>1 DEF Places, Written
<1>4. Mailboxes'
  BY <1>1 DEF Mailboxes
<1>5. SignalsMatchMessages'
  <2>1. Tasks \in Nat
    BY Counts
  <2> QED
    BY <1>1, <2>1 DEF Types, SignalsMatchMessages, RequestsAnnounced, ResponsesAnnounced,
                      Tasks, RequestsBlocked, ResponsesBlocked
<1> QED
  BY <1>2, <1>3, <1>4, <1>5

\* The gateway reads a response that was announced: it moves from the ring to its hands.
LEMMA TakeResponseInv ==
    ASSUME IInv, TakeResponse
    PROVE  IInv'
<1> USE DEF IInv
<1>1. /\ responses # <<>> /\ FitsGateway(Head(responses))
      /\ responses' = Tail(responses)
      /\ held = None
      /\ held' = Head(responses)
      /\ response_todo > 0
      /\ response_todo' = response_todo - 1
      /\ UNCHANGED <<pc, pending, mailbox, requests, request_event,
                     response_event, request_todo, task>>
  BY DEF TakeResponse, Response!Read, calls, events, backend
<1>2. /\ Head(responses) \in Calls
      /\ In(responses, Head(responses))
      /\ Unique(responses')
      /\ responses' \in Seq(Calls)
      /\ Len(responses) \in Nat /\ Len(responses') = Len(responses) - 1
      /\ \A x : In(responses', x) <=> In(responses, x) /\ x # Head(responses)
  BY <1>1, TailQueue DEF Types, Places
<1>3. Types'
  BY <1>1, <1>2, ConstantsOK DEF ConstantsOK, Types
<1>4. Places'
  BY <1>1, <1>2, ConstantsOK DEF ConstantsOK, Places, Written
<1>5. Mailboxes'
  BY <1>1 DEF Mailboxes
<1>6. SignalsMatchMessages'
  <2>1. Tasks \in Nat /\ Tasks' = Tasks
    BY <1>1, Counts DEF Tasks
  <2>2. ~ResponsesBlocked
    BY <1>1 DEF ResponsesBlocked
  <2> QED
    BY <1>1, <1>2, <2>1, <2>2
    DEF Types, SignalsMatchMessages, RequestsAnnounced, ResponsesAnnounced,
        Tasks, RequestsBlocked
<1> QED
  BY <1>3, <1>4, <1>5, <1>6

\* The gateway cannot read a response: the ring is blocked, and the rest of the count is dropped.
LEMMA StopReadingInv ==
    ASSUME IInv, StopReading
    PROVE  IInv'
<1> USE DEF IInv
<1>1. /\ ~(responses # <<>> /\ FitsGateway(Head(responses)))
      /\ response_todo > 0
      /\ response_todo' = 0
      /\ UNCHANGED <<pc, pending, mailbox, requests, responses, request_event,
                     response_event, request_todo, task, held>>
  BY DEF StopReading, Response!NothingRead, calls, events, backend
<1>2. Types'
  BY <1>1 DEF Types
<1>3. Places'
  BY <1>1 DEF Places, Written
<1>4. Mailboxes'
  BY <1>1 DEF Mailboxes
<1>5. SignalsMatchMessages'
  <2>1. Tasks \in Nat
    BY Counts
  <2>2. responses # <<>>
    BY <1>1, <2>1, EmptySeq DEF Types, SignalsMatchMessages, RequestsAnnounced, ResponsesAnnounced, Tasks
  <2>3. ResponsesBlocked /\ ResponsesBlocked'
    BY <1>1, <2>2 DEF ResponsesBlocked
  <2> QED
    BY <1>1, <2>1, <2>3 DEF Types, SignalsMatchMessages, RequestsAnnounced, ResponsesAnnounced,
                      Callers, Tasks, RequestsBlocked
<1> QED
  BY <1>2, <1>3, <1>4, <1>5

\* The gateway hands the response over to the call whose id it carries, and to no other.
LEMMA DeliverInv ==
    ASSUME IInv, Deliver
    PROVE  IInv'
<1> USE DEF IInv
<1>1. /\ held \in Calls
      /\ held' = None
      /\ pending' = pending \ {held}
      /\ mailbox' = IF held \in pending /\ pc[held] # "dropped"
                    THEN [mailbox EXCEPT ![held] = held] ELSE mailbox
      /\ UNCHANGED <<pc, requests, responses, request_event, response_event,
                     request_todo, task, response_todo>>
  BY DEF Deliver, Recipient, Unregister, Types, rings, events, backend
<1>2. Types'
  BY <1>1 DEF Types
<1>3. Places'
  BY <1>1, ConstantsOK DEF ConstantsOK, Types, Places, Written
<1>4. Mailboxes'
  BY <1>1 DEF Types, Mailboxes
<1>5. SignalsMatchMessages'
  BY <1>1 DEF SignalsMatchMessages, RequestsAnnounced, ResponsesAnnounced, RequestsBlocked, ResponsesBlocked
<1> QED
  BY <1>2, <1>3, <1>4, <1>5

\* Every step keeps the invariant.
LEMMA NextInv == IInv /\ [Next]_vars => IInv'
<1> SUFFICES ASSUME IInv, [Next]_vars PROVE IInv'
  OBVIOUS
<1>1. ASSUME NEW c \in Calls, Register(c) \/ CallSteps(c) \/ Cancel(c) PROVE IInv'
  BY <1>1, RegisterInv, WriteRequestInv, FailRequestInv, SignalRequestInv, ReturnInv,
     CancelInv DEF CallSteps
<1>2. ASSUME NEW c \in Calls, TaskSteps(c) PROVE IInv'
  BY <1>2, WriteResponseInv, DropResponseInv, SignalResponseInv DEF TaskSteps
<1>3. CASE BackendListener
  BY <1>3, BackendWakesInv, TakeRequestInv, SkipRequestInv DEF BackendListener
<1>4. CASE GatewayListener
  BY <1>4, ListenerWakesInv, TakeResponseInv, StopReadingInv, DeliverInv DEF GatewayListener
<1>5. CASE UNCHANGED vars
  BY <1>5 DEF vars, calls, rings, events, backend, listener, IInv, Types, Places, Written,
     Mailboxes, SignalsMatchMessages, RequestsAnnounced, ResponsesAnnounced,
     RequestsBlocked, ResponsesBlocked
<1> QED
  BY <1>1, <1>2, <1>3, <1>4, <1>5 DEF Next

\* The invariant is one of every reachable state.
THEOREM EventfdInvariance == Spec => []IInv
BY InitInv, NextInv, PTL DEF Spec
-----------------------------------------------------------------------------
\* Types of the variables, with the number of calls as the bound of every
\* count: a count announces messages of a ring, and a ring holds nothing twice.
THEOREM EventfdTypes == Spec => []TypeOK
<1>1. IInv => TypeOK
  <2> SUFFICES ASSUME IInv PROVE TypeOK
    OBVIOUS
  <2>1. Len(requests) <= Cardinality(Calls) /\ Len(responses) <= Cardinality(Calls)
    BY UniqueIsShort, ConstantsOK DEF ConstantsOK, IInv, Types, Places
  <2>2. Callers \in Nat /\ Tasks \in Nat
    BY Counts DEF IInv
  <2>3. Cardinality(Calls) \in Nat /\ Len(requests) \in Nat /\ Len(responses) \in Nat
    BY FS_CardinalityType, LenProperties, ConstantsOK DEF ConstantsOK, IInv, Types
  <2> QED
    BY <2>1, <2>2, <2>3 DEF IInv, Types, TypeOK, SignalsMatchMessages, RequestsAnnounced,
       ResponsesAnnounced, Callers, Tasks
<1> QED
  BY <1>1, EventfdInvariance, PTL

\* No listener sleeps on a message and none wakes for nothing, for any number
\* of concurrent calls and any size of the rings: every message in a ring that
\* is not blocked has exactly one signal on its way.
THEOREM EverySignalHasItsMessage == Spec => []SignalsMatchMessages
<1>1. IInv => SignalsMatchMessages
  BY DEF IInv
<1> QED
  BY <1>1, EventfdInvariance, PTL

\* A request that was written is in exactly one place until its response has
\* been handed over or lost.
THEOREM EveryRequestInOnePlace == Spec => []InOnePlace
<1>1. IInv => InOnePlace
  <2> SUFFICES ASSUME IInv, NEW c \in Calls
               PROVE  /\ pc[c] \in {"write", "failed"} => InFlight(c) = 0 /\ c \in pending
                      /\ pc[c] \in {"signal", "await", "ok", "dropped"} =>
                             InFlight(c) = IF c \in pending /\ task[c] # "lost" THEN 1 ELSE 0
    BY DEF InOnePlace
  <2>1. Occurrences(requests, c) = IF In(requests, c) THEN 1 ELSE 0
    BY UniqueOccurs DEF IInv, Types, Places, Occurrences
  <2>2. Occurrences(responses, c) = IF In(responses, c) THEN 1 ELSE 0
    BY UniqueOccurs DEF IInv, Types, Places, Occurrences
  <2> HIDE DEF Occurrences
  <2> QED
    BY <2>1, <2>2 DEF IInv, Types, Places, Written, InFlight
<1> QED
  BY <1>1, EventfdInvariance, PTL

-----------------------------------------------------------------------------
\* The initial states are initial states of the contract.
LEMMA InitRpc == Init => Rpc!Init
BY DEF Init, Phase, Rpc!Init

\* A step that no user of the transport can see.
LEMMA HiddenStep ==
    ASSUME Types, Types', \A c \in Calls : Phase(c)' = Phase(c),
           \A c \in Calls : pc[c] = "ok" => mailbox'[c] = mailbox[c]
    PROVE  UNCHANGED Rpc!vars
BY DEF Types, Phase, Rpc!vars

\* Every step of the transport is a step of the contract, or none.
LEMMA StepRpc == IInv /\ IInv' /\ [Next]_vars => [Rpc!Next]_(Rpc!vars)
<1> SUFFICES ASSUME IInv, IInv', [Next]_vars PROVE [Rpc!Next]_(Rpc!vars)
  OBVIOUS
<1> USE DEF IInv
<1>1. ASSUME NEW c \in Calls, Register(c) PROVE Rpc!Start(c)
  BY <1>1 DEF Register, Goto, Types, Phase, Rpc!Start, Rpc!Move
<1>2. ASSUME NEW c \in Calls, FailRequest(c) PROVE Rpc!Fail(c)
  BY <1>2 DEF FailRequest, Goto, Types, Phase, Rpc!Fail, Rpc!Move
<1>3. ASSUME NEW c \in Calls, Return(c) PROVE Rpc!Answer(c)
  BY <1>3 DEF Return, Goto, Types, Mailboxes, Phase, Rpc!Answer, Rpc!Move
<1>4. ASSUME NEW c \in Calls, Cancel(c) PROVE Rpc!Drop(c)
  BY <1>4 DEF Cancel, Goto, Types, Phase, Rpc!Drop, Rpc!Move
<1>5. ASSUME NEW c \in Calls, WriteRequest(c) \/ SignalRequest(c)
      PROVE  UNCHANGED Rpc!vars
  BY <1>5, HiddenStep DEF WriteRequest, SignalRequest, Goto, Types, Phase
<1>6. CASE UNCHANGED calls
  BY <1>6 DEF calls, Phase, Rpc!vars
<1>7. CASE Deliver
  BY <1>7, HiddenStep DEF Deliver, Recipient, Types, Places, Mailboxes, Phase
<1>8. UNCHANGED vars \/ BackendListener \/ (\E c \in Calls : TaskSteps(c))
         \/ ListenerWakes \/ TakeResponse \/ StopReading => UNCHANGED calls
  BY DEF vars, BackendListener, BackendWakes, TakeRequest, SkipRequest, TaskSteps,
         WriteResponse, DropResponse, SignalResponse, ListenerWakes, TakeResponse, StopReading
<1> QED
  BY <1>1, <1>2, <1>3, <1>4, <1>5, <1>6, <1>7, <1>8
  DEF Next, CallSteps, GatewayListener, Rpc!Next

\* The transport implements EchoRpc: a call ends at most once, and it returns
\* the response to its own request or none, however calls, tasks and listeners
\* interleave.
THEOREM EventfdImplementsRpc == Spec => ImplementsRpc
<1>1. IInv /\ [Next]_vars => IInv'
  BY NextInv
<1> QED
  BY <1>1, InitRpc, StepRpc, EventfdInvariance, PTL DEF Spec, ImplementsRpc, Rpc!Spec

-----------------------------------------------------------------------------
\* The wait for an eventfd.

\* A value in hand is on its way to the listener's loop, and nowhere else.
ValueInHand == step # "return" => value = 0

\* Whatever has been taken, is in hand or is in the eventfd was signalled.
NothingFromNowhere == taken + value + count <= signals + Early

WaitInv == WaitTypeOK /\ ValueInHand /\ NothingFromNowhere /\ NoSignalLost

\* The invariant holds at the start.
LEMMA InitWait == WaitInit => WaitInv
<1> SUFFICES ASSUME WaitInit PROVE WaitInv
  OBVIOUS
<1>1. count \in 0 .. MaxCount
  BY WaitConstantsOK DEF WaitConstantsOK, WaitInit
<1>2. {edge, ready, current} \subseteq BOOLEAN
  BY DEF WaitInit
<1>3. WaitTypeOK
  <2>1. 0 \in 0 .. MaxCount /\ 0 \in 0 .. MaxSignals /\ 0 \in 0 .. MaxSignals + Early
    BY WaitConstantsOK DEF WaitConstantsOK
  <2>2. {count, value} \subseteq 0 .. MaxCount
    BY <1>1, <2>1 DEF WaitInit
  <2> QED
    BY <1>2, <2>1, <2>2 DEF WaitInit, WaitTypeOK
<1> QED
  BY <1>3, WaitConstantsOK DEF WaitConstantsOK, WaitInit, WaitInv, ValueInHand, NothingFromNowhere, NoSignalLost

\* Every step keeps the invariant.
LEMMA NextWait == WaitInv /\ [WaitNext]_wait_vars => WaitInv'
<1> SUFFICES ASSUME WaitInv, [WaitNext]_wait_vars PROVE WaitInv'
  OBVIOUS
<1> USE WaitConstantsOK DEF WaitConstantsOK, WaitInv, WaitTypeOK, ValueInHand, NothingFromNowhere, NoSignalLost
<1>1. CASE Signal
  <2>1. CASE Saturated
    BY <1>1, <2>1 DEF Signal
  <2>2. CASE ~Saturated
    <3>1. /\ count' = count + 1 /\ signals' = signals + 1 /\ edge' = TRUE
          /\ count' \in 0 .. MaxCount /\ signals' \in 0 .. MaxSignals
          /\ UNCHANGED <<step, value, taken, ready, current>>
      BY <1>1, <2>2 DEF Signal, Saturated
    <3>2. WaitTypeOK'
      BY <3>1
    <3> QED
      BY <3>1, <3>2
  <2> QED
    BY <2>1, <2>2
<1>2. CASE Reactor
  BY <1>2 DEF Reactor
<1>3. CASE NoteReadable
  BY <1>3 DEF NoteReadable, Proceed
<1>4. CASE ReadCount
  BY <1>4 DEF ReadCount, Proceed, AfterRead
<1>5. CASE ReadNothing
  BY <1>5 DEF ReadNothing, Proceed
<1>6. CASE ReturnCount
  BY <1>6 DEF ReturnCount, Proceed, AfterClear
<1>7. CASE Retry
  BY <1>7 DEF Retry, Proceed, AfterClear
<1>8. CASE WaitAgain
  BY <1>8 DEF WaitAgain, Proceed
<1>9. CASE UNCHANGED wait_vars
  BY <1>9 DEF wait_vars
<1> QED
  BY <1>1, <1>2, <1>3, <1>4, <1>5, <1>6, <1>7, <1>8, <1>9 DEF WaitNext, Listener

\* The inductive invariant of wait_eventfd and its reactor.
THEOREM WaitInvariance == WaitSpec => []WaitInv
BY InitWait, NextWait, PTL DEF WaitSpec

\* What the listener of the eventfd holds and counts has its type: it never takes
\* more than was signalled.
THEOREM WaitTypes == WaitSpec => []WaitTypeOK
<1>1. WaitInv => WaitTypeOK
  BY DEF WaitInv
<1> QED
  BY <1>1, WaitInvariance, PTL

\* A signal that comes between readable() and clear_ready() is not lost.
THEOREM SignalsAreNotLost == WaitSpec => []NoSignalLost
<1>1. WaitInv => NoSignalLost
  BY DEF WaitInv
<1> QED
  BY <1>1, WaitInvariance, PTL

\* The initial states are initial states of the counter.
LEMMA InitEvent == WaitInit => Event!Init
BY WaitConstantsOK DEF WaitConstantsOK, WaitInit, Event!Init

\* Each step of the wait is a step of the counter, or none.
LEMMA StepEvent == WaitInv /\ [WaitNext]_wait_vars => [Event!Next]_(Event!vars)
<1> SUFFICES ASSUME WaitInv, [WaitNext]_wait_vars PROVE [Event!Next]_(Event!vars)
  OBVIOUS
<1> USE WaitConstantsOK DEF WaitConstantsOK, WaitInv, WaitTypeOK, ValueInHand, Event!Next, Event!vars
<1>1. CASE Signal
  BY <1>1 DEF Signal, Saturated, Event!Signal
<1>2. CASE Reactor
  BY <1>2 DEF Reactor
<1>3. CASE NoteReadable
  BY <1>3 DEF NoteReadable
<1>4. CASE ReadCount
  BY <1>4 DEF ReadCount, Proceed, AfterRead, Event!Take
<1>5. CASE ReadNothing
  BY <1>5 DEF ReadNothing
<1>6. CASE ReturnCount
  BY <1>6 DEF ReturnCount
<1>7. CASE Retry
  BY <1>7 DEF Retry
<1>8. CASE WaitAgain
  BY <1>8 DEF WaitAgain
<1>9. CASE UNCHANGED wait_vars
  BY <1>9 DEF wait_vars
<1> QED
  BY <1>1, <1>2, <1>3, <1>4, <1>5, <1>6, <1>7, <1>8, <1>9 DEF WaitNext, Listener

\* wait_eventfd implements a counter like the two of ShmEventfd.
THEOREM WaitImplementsEvent == WaitSpec => ImplementsEvent
BY InitEvent, StepEvent, WaitInvariance, PTL DEF WaitSpec, ImplementsEvent, Event!Spec
=============================================================================
