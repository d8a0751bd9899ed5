---------------------------- MODULE ShmUdsProofs ----------------------------
(***************************************************************************)
(* Proofs about ShmUds: for any number of calls, any size of the rings and *)
(* of the socket, any requests that are too long, any clients that leave,  *)
(* and either process ending at any moment.                                *)
(***************************************************************************)
EXTENDS ShmUds, QueueLemmas

CallStates ==
    {"idle", "write", "lock", "notify", "await", "ok"} \union Dropped \union Failed

\* The types, as in TypeOK, but that a lock holds nobody twice.
Types ==
    /\ long \in LongRequests
    /\ pc \in [Calls -> CallStates]
    /\ pending \subseteq Calls
    /\ mailbox \in [Calls -> Calls \union {None}]
    /\ requests \in Seq(Calls) /\ Len(requests) <= Slots
    /\ responses \in Seq(Calls) /\ Len(responses) <= Slots
    /\ to_backend \in 0 .. SockCap
    /\ to_gateway \in 0 .. SockCap
    /\ call_lock \in Seq(Calls)
    /\ task_lock \in Seq(Calls)
    /\ serving \in {"byte", "request", "exited"}
    /\ task \in [Calls -> {"none", "running", "lock", "notify", "done", "lost"}]
    /\ listening \in {"byte", "drain", "exited"}
    /\ held \in Calls \union {None}
    /\ backend_up \in BOOLEAN
    /\ gateway_up \in BOOLEAN

\* Who holds a lock or waits for it is about to send its byte, and the other way round.
Locks ==
    /\ Unique(call_lock) /\ Unique(task_lock)
    /\ \A c \in Calls : /\ In(call_lock, c) <=> pc[c] = "notify"
                        /\ In(task_lock, c) <=> task[c] = "notify"

\* The request of c has been in the ring.
Written(c) == pc[c] \notin {"idle", "write", "failed"}

\* Where a message is, told by the steps of its call and its task: the
\* request is in the ring until a task has it, the response is in the ring or
\* in the listener's hands until the entry of the call is removed.
Places ==
    /\ Unique(requests) /\ Unique(responses)
    /\ \A c \in Calls :
           /\ In(requests, c) <=> Written(c) /\ task[c] = "none"
           /\ In(responses, c) \/ held = c <=>
                  task[c] \in {"lock", "notify", "done"} /\ c \in pending
           /\ held = c => ~In(responses, c)
           /\ task[c] # "none" => Written(c)
           /\ pc[c] = "idle" => c \notin pending
           /\ pc[c] \in {"write", "failed"} => c \in pending
           /\ Written(c) /\ task[c] \in {"none", "running", "lost"} => c \in pending

\* A call gets its own response or none, and has it when it returns.
Mailboxes ==
    \A c \in Calls : /\ mailbox[c] \in {c, None}
                     /\ pc[c] = "ok" => mailbox[c] = c

IInv ==
    /\ Types /\ Locks /\ Places /\ Mailboxes
    /\ RequestsMatchBytes /\ ResponsesAnnounced

Announcers == Cardinality(Announcing)
Silenced == Cardinality(Silent)

-----------------------------------------------------------------------------
\* Taking a process out of the middle of a queue removes it, and nothing else.
LEMMA RemoveQueue ==
    ASSUME NEW S, NEW q \in Seq(S), NEW i \in 1 .. Len(q), Unique(q)
    PROVE  /\ RemoveAt(q, i) \in Seq(S)
           /\ Unique(RemoveAt(q, i))
           /\ \A y : In(RemoveAt(q, i), y) <=> In(q, y) /\ y # q[i]
<1> DEFINE front == SubSeq(q, 1, i - 1)
           back == SubSeq(q, i + 1, Len(q))
           r == RemoveAt(q, i)
<1>1. Len(q) \in Nat /\ \A j \in 1 .. Len(q) : q[j] \in S
  BY LenProperties, ElementOfSeq
<1>2. /\ front \in Seq(S) /\ Len(front) = i - 1
      /\ \A j \in 1 .. i - 1 : front[j] = q[j]
  <2>1. \A j \in 1 .. i - 1 : q[j] \in S
    BY <1>1
  <2>2. /\ front \in Seq(S)
        /\ Len(front) = IF 1 <= i - 1 THEN (i - 1) - 1 + 1 ELSE 0
        /\ \A j \in 1 .. (i - 1) - 1 + 1 : front[j] = q[1 + j - 1]
    BY <1>1, <2>1, SubSeqProperties
  <2> HIDE DEF front
  <2>3. Len(front) = i - 1
    BY <1>1, <2>2
  <2>4. ASSUME NEW j \in 1 .. i - 1 PROVE front[j] = q[j]
    <3>1. j \in 1 .. (i - 1) - 1 + 1 /\ 1 + j - 1 = j
      OBVIOUS
    <3> QED
      BY <2>2, <3>1
  <2> QED
    BY <2>2, <2>3, <2>4
<1>3. /\ back \in Seq(S) /\ Len(back) = Len(q) - i
      /\ \A j \in 1 .. Len(q) - i : back[j] = q[i + j]
  <2>1. \A j \in i + 1 .. Len(q) : q[j] \in S
    BY <1>1
  <2>2. /\ back \in Seq(S)
        /\ Len(back) = IF i + 1 <= Len(q) THEN Len(q) - (i + 1) + 1 ELSE 0
        /\ \A j \in 1 .. Len(q) - (i + 1) + 1 : back[j] = q[(i + 1) + j - 1]
    BY <1>1, <2>1, SubSeqProperties
  <2> HIDE DEF back
  <2>3. Len(back) = Len(q) - i
    BY <1>1, <2>2
  <2>4. ASSUME NEW j \in 1 .. Len(q) - i PROVE back[j] = q[i + j]
    <3>1. j \in 1 .. Len(q) - (i + 1) + 1 /\ (i + 1) + j - 1 = i + j
      BY <1>1
    <3> QED
      BY <2>2, <3>1
  <2> QED
    BY <2>2, <2>3, <2>4
<1> HIDE DEF front, back
<1>4. /\ r \in Seq(S)
      /\ Len(r) = Len(q) - 1
      /\ \A j \in 1 .. Len(q) - 1 : r[j] = IF j < i THEN q[j] ELSE q[j + 1]
  <2>1. r = front \o back
    BY DEF RemoveAt, front, back
  <2> HIDE DEF r
  <2>2. /\ r \in Seq(S)
        /\ Len(r) = Len(front) + Len(back)
        /\ \A j \in 1 .. Len(front) + Len(back) :
               r[j] = IF j <= Len(front) THEN front[j] ELSE back[j - Len(front)]
    <3>1. front \in Seq(S) /\ back \in Seq(S)
      BY <1>2, <1>3
    <3> QED
      BY <2>1, <3>1, ConcatProperties
  <2>3. Len(front) + Len(back) = Len(q) - 1
    BY <1>1, <1>2, <1>3
  <2>4. ASSUME NEW j \in 1 .. Len(q) - 1
        PROVE  r[j] = IF j < i THEN q[j] ELSE q[j + 1]
    <3>1. CASE j < i
      BY <1>1, <1>2, <2>2, <2>3, <3>1
    <3>2. CASE ~(j < i)
      <4>1. j - (i - 1) \in 1 .. Len(q) - i /\ i + (j - (i - 1)) = j + 1
        BY <1>1, <3>2
      <4>2. r[j] = back[j - (i - 1)]
        BY <1>1, <1>2, <2>2, <2>3, <3>2
      <4> QED
        BY <1>3, <3>2, <4>1, <4>2
    <3> QED
      BY <3>1, <3>2
  <2> QED
    BY <2>2, <2>3, <2>4
<1> HIDE DEF r
<1>5. Unique(r)
  <2> SUFFICES ASSUME NEW j \in 1 .. Len(r), NEW k \in 1 .. Len(r), r[j] = r[k]
               PROVE  j = k
    BY DEF Unique
  <2> DEFINE at(n) == IF n < i THEN n ELSE n + 1
  <2>1. /\ at(j) \in 1 .. Len(q) /\ at(k) \in 1 .. Len(q)
        /\ r[j] = q[at(j)] /\ r[k] = q[at(k)]
    BY <1>1, <1>4
  <2>2. at(j) = at(k)
    BY <2>1 DEF Unique
  <2> QED
    BY <1>1, <1>4, <2>2
<1>6. ASSUME NEW y, In(r, y) PROVE In(q, y) /\ y # q[i]
  <2>1. PICK j \in 1 .. Len(r) : r[j] = y
    BY <1>6 DEF In
  <2> DEFINE k == IF j < i THEN j ELSE j + 1
  <2>2. k \in 1 .. Len(q) /\ k # i /\ q[k] = y
    BY <1>1, <1>4, <2>1
  <2> QED
    BY <2>2 DEF In, Unique
<1>7. ASSUME NEW y, In(q, y), y # q[i] PROVE In(r, y)
  <2>1. PICK j \in 1 .. Len(q) : q[j] = y
    BY <1>7 DEF In
  <2>2. j # i
    BY <1>7, <2>1
  <2> DEFINE k == IF j < i THEN j ELSE j - 1
  <2>3. k \in 1 .. Len(r) /\ r[k] = y
    <3>1. CASE j < i
      BY <1>1, <1>4, <2>1, <3>1
    <3>2. CASE j > i
      <4>1. j - 1 \in 1 .. Len(q) - 1 /\ ~(j - 1 < i) /\ (j - 1) + 1 = j
        BY <1>1, <3>2
      <4> QED
        BY <1>1, <1>4, <2>1, <3>2, <4>1
    <3> QED
      BY <1>1, <2>2, <3>1, <3>2
  <2> QED
    BY <2>3 DEF In
<1> QED
  BY <1>4, <1>5, <1>6, <1>7 DEF r

-----------------------------------------------------------------------------
\* How many calls have still to send their byte, and how many never will, after
\* a call has moved.
LEMMA CallMoves ==
    ASSUME Types, NEW c \in Calls, NEW from, NEW to, Goto(c, from, to)
    PROVE  LET yet == {"lock", "notify"}
               never == {"abandoned", "unannounced"}
           IN  /\ Announcers \in Nat /\ Announcers' \in Nat
               /\ Silenced \in Nat /\ Silenced' \in Nat
               /\ from \notin yet /\ to \in yet => Announcers' = Announcers + 1
               /\ from \in yet /\ to \notin yet => Announcers' = Announcers - 1
               /\ (from \in yet <=> to \in yet) => Announcers' = Announcers
               /\ from \notin never /\ to \in never => Silenced' = Silenced + 1
               /\ (from \in never <=> to \in never) => Silenced' = Silenced
<1> DEFINE yet == {"lock", "notify"}
           never == {"abandoned", "unannounced"}
<1>1. /\ pc[c] = from /\ pc'[c] = to
      /\ OnlyMoves(Calls, pc, pc', c)
  BY DEF Goto, Types, OnlyMoves
<1>2. /\ Announcers = Count(Calls, pc, yet) /\ Announcers' = Count(Calls, pc', yet)
      /\ Silenced = Count(Calls, pc, never) /\ Silenced' = Count(Calls, pc', never)
  BY DEF Announcers, Announcing, Silenced, Silent, Count
<1>3. IsFiniteSet(Calls)
  BY ConstantsOK DEF ConstantsOK
<1> HIDE DEF yet, never
<1>4. ASSUME NEW V
      PROVE  /\ Count(Calls, pc, V) \in Nat /\ Count(Calls, pc', V) \in Nat
             /\ from \notin V /\ to \in V => Count(Calls, pc', V) = Count(Calls, pc, V) + 1
             /\ from \in V /\ to \notin V => Count(Calls, pc', V) = Count(Calls, pc, V) - 1
             /\ (from \in V <=> to \in V) => Count(Calls, pc', V) = Count(Calls, pc, V)
  BY <1>1, <1>3, CountMove
<1> QED
  BY <1>2, <1>4 DEF yet, never

\* The counts are numbers.
LEMMA Counts == Announcers \in Nat /\ Silenced \in Nat
<1>1. IsFiniteSet(Announcing) /\ IsFiniteSet(Silent)
  BY FS_Subset, ConstantsOK DEF ConstantsOK, Announcing, Silent
<1> QED
  BY <1>1, FS_CardinalityType DEF Announcers, Silenced

-----------------------------------------------------------------------------
\* The invariant holds at the start.
LEMMA InitInv == Init => IInv
<1> SUFFICES ASSUME Init PROVE IInv
  OBVIOUS
<1> USE ConstantsOK DEF ConstantsOK, Init
<1>1. Types
  BY EmptySeq DEF Types, CallStates
<1>2. Places /\ Locks
  BY EmptyQueue DEF Places, Locks, Written
<1>3. Mailboxes /\ ResponsesAnnounced
  BY DEF Mailboxes, ResponsesAnnounced
<1>4. RequestsMatchBytes
  <2>1. Announcing = {} /\ Silent = {}
    BY DEF Announcing, Silent
  <2>2. Cardinality(Announcing) = 0 /\ Cardinality(Silent) = 0
    BY <2>1, FS_EmptySet, Zenon
  <2>3. Len(requests) = 0
    BY EmptySeq
  <2> QED
    BY <2>2, <2>3 DEF RequestsMatchBytes
<1> QED
  BY <1>1, <1>2, <1>3, <1>4 DEF IInv

-----------------------------------------------------------------------------
\* A call that registers.
LEMMA RegisterInv ==
    ASSUME IInv, NEW c \in Calls, Register(c)
    PROVE  IInv'
<1> USE DEF IInv
<1>1. /\ Goto(c, "idle", "write")
      /\ pending' = pending \union {c}
      /\ UNCHANGED <<long, mailbox, requests, responses, to_backend,
                     to_gateway, call_lock, task_lock, serving, task,
                     listening, held, backend_up, gateway_up>>
  BY DEF Register, calls, rings, socket, backend, listener, processes
<1>2. Types'
  BY <1>1 DEF Goto, Types, CallStates, Dropped, Failed
<1>3. Locks'
  BY <1>1 DEF Goto, Types, Locks
<1>4. Places'
  BY <1>1 DEF Goto, Types, Places, Written
<1>5. Mailboxes'
  BY <1>1 DEF Goto, Types, Mailboxes
<1>6. RequestsMatchBytes'
  <2>1. /\ Announcers \in Nat /\ Announcers' = Announcers
        /\ Silenced \in Nat /\ Silenced' = Silenced
    BY <1>1, CallMoves
  <2> QED
    BY <1>1, <2>1
    DEF RequestsMatchBytes, Announcers, Silenced, Blocked, Types
<1>7. ResponsesAnnounced'
  BY <1>1 DEF ResponsesAnnounced
<1> QED
  BY <1>2, <1>3, <1>4, <1>5, <1>6, <1>7

\* A call that writes its request: one more message, one more to announce.
LEMMA WriteRequestInv ==
    ASSUME IInv, NEW c \in Calls, WriteRequest(c)
    PROVE  IInv'
<1> USE DEF IInv
<1>1. /\ Goto(c, "write", "lock")
      /\ requests' = Append(requests, c)
      /\ Len(requests) + 1 <= Slots
      /\ UNCHANGED <<long, pending, mailbox, responses, to_backend,
                     to_gateway, call_lock, task_lock, serving, task,
                     listening, held, backend_up, gateway_up>>
  BY ConstantsOK DEF ConstantsOK, Types, Request!Write, Request!Fits, One,
     WriteRequest, calls, rings, socket, backend, listener, processes
<1>2. ~In(requests, c)
  BY <1>1 DEF Goto, Places, Written
<1>3. /\ requests' \in Seq(Calls)
      /\ Len(requests) \in Nat /\ Len(requests') = Len(requests) + 1
      /\ \A x : In(requests', x) <=> In(requests, x) \/ x = c
      /\ Unique(requests')
      /\ requests' # <<>>
      /\ Head(requests') = IF requests = <<>> THEN c ELSE Head(requests)
  BY <1>1, <1>2, AppendQueue, LenProperties DEF Types, Places
<1>4. Types'
  BY <1>1, <1>3 DEF Goto, Types, CallStates, Dropped, Failed
<1>5. Locks'
  BY <1>1 DEF Goto, Types, Locks
<1>6. Places'
  BY <1>1, <1>3 DEF Goto, Types, Places, Written
<1>7. Mailboxes'
  BY <1>1 DEF Goto, Types, Mailboxes
<1>8. RequestsMatchBytes'
  <2>1. /\ Announcers \in Nat /\ Announcers' = Announcers + 1
        /\ Silenced \in Nat /\ Silenced' = Silenced
    BY <1>1, CallMoves
  <2>2. Blocked => Blocked'
    BY <1>1, <1>3 DEF Blocked
  <2> DEFINE byte == IF serving = "request" THEN 1 ELSE 0
  <2>3. to_backend \in Nat /\ byte \in Nat /\ byte' = byte
    BY <1>1 DEF Types
  <2>4. backend_up => /\ Len(requests) >= to_backend + Announcers + byte
                      /\ ~Blocked => Len(requests) = to_backend + Announcers + byte + Silenced
    BY DEF RequestsMatchBytes, Announcers, Silenced
  <2> HIDE DEF byte
  <2>5. backend_up' => /\ Len(requests') >= to_backend' + Announcers' + byte'
                       /\ ~Blocked' => Len(requests') = to_backend' + Announcers' + byte' + Silenced'
    BY <1>1, <1>3, <2>1, <2>2, <2>3, <2>4
  <2> QED
    BY <1>1, <1>3, <2>1, <2>2, <2>3, <2>4, <2>5
    DEF RequestsMatchBytes, Announcers, Silenced, byte
<1>9. ResponsesAnnounced'
  BY <1>1 DEF ResponsesAnnounced
<1> QED
  BY <1>4, <1>5, <1>6, <1>7, <1>8, <1>9

\* A call that finds the request ring full: its entry stays.
LEMMA FailRequestInv ==
    ASSUME IInv, NEW c \in Calls, FailRequest(c)
    PROVE  IInv'
<1> USE DEF IInv
<1>1. /\ Goto(c, "write", "failed")
      /\ UNCHANGED <<long, pending, mailbox, requests, responses, to_backend,
                     to_gateway, call_lock, task_lock, serving, task,
                     listening, held, backend_up, gateway_up>>
  BY DEF AfterFull, Request!Full, FailRequest, calls, rings, socket, backend,
     listener, processes
<1>2. Types'
  BY <1>1 DEF Goto, Types, CallStates, Dropped, Failed
<1>3. Locks'
  BY <1>1 DEF Goto, Types, Locks
<1>4. Places'
  BY <1>1 DEF Goto, Types, Places, Written
<1>5. Mailboxes'
  BY <1>1 DEF Goto, Types, Mailboxes
<1>6. RequestsMatchBytes'
  <2>1. /\ Announcers \in Nat /\ Announcers' = Announcers
        /\ Silenced \in Nat /\ Silenced' = Silenced
    BY <1>1, CallMoves
  <2> QED
    BY <1>1, <2>1
    DEF RequestsMatchBytes, Announcers, Silenced, Blocked, Types
<1>7. ResponsesAnnounced'
  BY <1>1 DEF ResponsesAnnounced
<1> QED
  BY <1>2, <1>3, <1>4, <1>5, <1>6, <1>7

\* A call that asks for the lock of the write half: it waits behind the others.
LEMMA LockNotifyInv ==
    ASSUME IInv, NEW c \in Calls, LockNotify(c)
    PROVE  IInv'
<1> USE DEF IInv
<1>1. /\ Goto(c, "lock", "notify")
      /\ call_lock' = Append(call_lock, c)
      /\ UNCHANGED <<long, pending, mailbox, requests, responses, to_backend,
                     to_gateway, task_lock, serving, task, listening, held,
                     backend_up, gateway_up>>
  BY DEF LockNotify, calls, rings, socket, backend, listener, processes
<1>2. ~In(call_lock, c)
  BY <1>1 DEF Goto, Locks
<1>3. /\ call_lock' \in Seq(Calls)
      /\ Unique(call_lock')
      /\ \A x : In(call_lock', x) <=> In(call_lock, x) \/ x = c
  BY <1>1, <1>2, AppendQueue DEF Types, Locks
<1>4. Types'
  BY <1>1, <1>3 DEF Goto, Types, CallStates, Dropped, Failed
<1>5. Locks'
  BY <1>1, <1>3 DEF Goto, Types, Locks
<1>6. Places'
  BY <1>1 DEF Goto, Types, Places, Written
<1>7. Mailboxes'
  BY <1>1 DEF Goto, Types, Mailboxes
<1>8. RequestsMatchBytes'
  <2>1. /\ Announcers \in Nat /\ Announcers' = Announcers
        /\ Silenced \in Nat /\ Silenced' = Silenced
    BY <1>1, CallMoves
  <2> QED
    BY <1>1, <2>1
    DEF RequestsMatchBytes, Announcers, Silenced, Blocked, Types
<1>9. ResponsesAnnounced'
  BY <1>1 DEF ResponsesAnnounced
<1> QED
  BY <1>4, <1>5, <1>6, <1>7, <1>8, <1>9

\* A call that sends its byte and lets the next one have the lock.
LEMMA NotifyBackendInv ==
    ASSUME IInv, NEW c \in Calls, NotifyBackend(c)
    PROVE  IInv'
<1> USE DEF IInv
<1>1. /\ Goto(c, "notify", "await")
      /\ call_lock # <<>> /\ Head(call_lock) = c
      /\ call_lock' = Tail(call_lock)
      /\ to_backend < SockCap
      /\ to_backend' = to_backend + 1
      /\ UNCHANGED <<long, pending, mailbox, requests, responses, to_gateway,
                     task_lock, serving, task, listening, held, backend_up,
                     gateway_up>>
  BY DEF NotifyBackend, Holds, HasRoom, Sent, calls, rings, socket, backend,
     listener, processes
<1>2. /\ call_lock' \in Seq(Calls)
      /\ Unique(call_lock')
      /\ \A x : In(call_lock', x) <=> In(call_lock, x) /\ x # c
  BY <1>1, TailQueue DEF Types, Locks
<1>3. Types'
  BY <1>1, <1>2, ConstantsOK DEF ConstantsOK, Goto, Types, CallStates, Dropped, Failed
<1>4. Locks'
  BY <1>1, <1>2 DEF Goto, Types, Locks
<1>5. Places'
  BY <1>1 DEF Goto, Types, Places, Written
<1>6. Mailboxes'
  BY <1>1 DEF Goto, Types, Mailboxes
<1>7. RequestsMatchBytes'
  <2>1. /\ Announcers \in Nat /\ Announcers' = Announcers - 1
        /\ Silenced \in Nat /\ Silenced' = Silenced
    BY <1>1, CallMoves
  <2> QED
    BY <1>1, <2>1
    DEF RequestsMatchBytes, Announcers, Silenced, Blocked, Types
<1>8. ResponsesAnnounced'
  BY <1>1 DEF ResponsesAnnounced
<1> QED
  BY <1>3, <1>4, <1>5, <1>6, <1>7, <1>8

\* A call that cannot send its byte, for the backend has ended.
LEMMA FailNotifyInv ==
    ASSUME IInv, NEW c \in Calls, FailNotify(c)
    PROVE  IInv'
<1> USE DEF IInv
<1>1. /\ Goto(c, "notify", "unannounced")
      /\ call_lock # <<>> /\ Head(call_lock) = c
      /\ call_lock' = Tail(call_lock)
      /\ ~backend_up
      /\ UNCHANGED <<long, pending, mailbox, requests, responses, to_backend,
                     to_gateway, task_lock, serving, task, listening, held,
                     backend_up, gateway_up>>
  BY DEF FailNotify, Holds, calls, rings, socket, backend, listener, processes
<1>2. /\ call_lock' \in Seq(Calls)
      /\ Unique(call_lock')
      /\ \A x : In(call_lock', x) <=> In(call_lock, x) /\ x # c
  BY <1>1, TailQueue DEF Types, Locks
<1>3. Types'
  BY <1>1, <1>2 DEF Goto, Types, CallStates, Dropped, Failed
<1>4. Locks'
  BY <1>1, <1>2 DEF Goto, Types, Locks
<1>5. Places'
  BY <1>1 DEF Goto, Types, Places, Written
<1>6. Mailboxes'
  BY <1>1 DEF Goto, Types, Mailboxes
<1>7. RequestsMatchBytes'
  BY <1>1 DEF RequestsMatchBytes
<1>8. ResponsesAnnounced'
  BY <1>1 DEF ResponsesAnnounced
<1> QED
  BY <1>3, <1>4, <1>5, <1>6, <1>7, <1>8

\* A call that returns: its mailbox holds its own response.
LEMMA ReturnInv ==
    ASSUME IInv, NEW c \in Calls, Return(c)
    PROVE  IInv'
<1> USE DEF IInv
<1>1. /\ Goto(c, "await", "ok")
      /\ mailbox[c] # None
      /\ UNCHANGED <<long, pending, mailbox, requests, responses, to_backend,
                     to_gateway, call_lock, task_lock, serving, task,
                     listening, held, backend_up, gateway_up>>
  BY DEF Return, calls, rings, socket, backend, listener, processes
<1>2. Types'
  BY <1>1 DEF Goto, Types, CallStates, Dropped, Failed
<1>3. Locks'
  BY <1>1 DEF Goto, Types, Locks
<1>4. Places'
  BY <1>1 DEF Goto, Types, Places, Written
<1>5. Mailboxes'
  BY <1>1 DEF Goto, Types, Mailboxes
<1>6. RequestsMatchBytes'
  <2>1. /\ Announcers \in Nat /\ Announcers' = Announcers
        /\ Silenced \in Nat /\ Silenced' = Silenced
    BY <1>1, CallMoves
  <2> QED
    BY <1>1, <2>1
    DEF RequestsMatchBytes, Announcers, Silenced, Blocked, Types
<1>7. ResponsesAnnounced'
  BY <1>1 DEF ResponsesAnnounced
<1> QED
  BY <1>2, <1>3, <1>4, <1>5, <1>6, <1>7

\* A call that is dropped before it has sent its byte: it leaves the lock, and its
\* request stays in the ring without a byte.
LEMMA AbandonInv ==
    ASSUME IInv, NEW c \in Calls, Abandon(c)
    PROVE  IInv'
<1> USE DEF IInv
<1>1. /\ Goto(c, "notify", "abandoned")
      /\ \E i \in DOMAIN call_lock : call_lock[i] = c /\ call_lock' = RemoveAt(call_lock, i)
      /\ UNCHANGED <<long, pending, mailbox, requests, responses, to_backend,
                     to_gateway, task_lock, serving, task, listening, held,
                     backend_up, gateway_up>>
  BY DEF Abandon, calls, rings, socket, backend, listener, processes
<1>2. /\ call_lock' \in Seq(Calls)
      /\ Unique(call_lock')
      /\ \A x : In(call_lock', x) <=> In(call_lock, x) /\ x # c
  BY <1>1, RemoveQueue, LenProperties DEF Types, Locks
<1>3. Types'
  BY <1>1, <1>2 DEF Goto, Types, CallStates, Dropped, Failed
<1>4. Locks'
  BY <1>1, <1>2 DEF Goto, Types, Locks
<1>5. Places'
  BY <1>1 DEF Goto, Types, Places, Written
<1>6. Mailboxes'
  BY <1>1 DEF Goto, Types, Mailboxes
<1>7. RequestsMatchBytes'
  <2>1. /\ Announcers \in Nat /\ Announcers' = Announcers - 1
        /\ Silenced \in Nat /\ Silenced' = Silenced + 1
    BY <1>1, CallMoves
  <2>2. Blocked' = Blocked
    BY <1>1 DEF Blocked
  <2>3. to_backend \in Nat /\ Len(requests) \in Nat
    BY LenProperties DEF Types
  <2> QED
    BY <1>1, <2>1, <2>2, <2>3
    DEF RequestsMatchBytes, Announcers, Silenced
<1>8. ResponsesAnnounced'
  BY <1>1 DEF ResponsesAnnounced
<1> QED
  BY <1>3, <1>4, <1>5, <1>6, <1>7, <1>8

\* A call that is dropped while it awaits its response.
LEMMA CancelInv ==
    ASSUME IInv, NEW c \in Calls, Cancel(c)
    PROVE  IInv'
<1> USE DEF IInv
<1>1. /\ Goto(c, "await", "dropped")
      /\ UNCHANGED <<long, pending, mailbox, requests, responses, to_backend,
                     to_gateway, call_lock, task_lock, serving, task,
                     listening, held, backend_up, gateway_up>>
  BY DEF Cancel, calls, rings, socket, backend, listener, processes
<1>2. Types'
  BY <1>1 DEF Goto, Types, CallStates, Dropped, Failed
<1>3. Locks'
  BY <1>1 DEF Goto, Types, Locks
<1>4. Places'
  BY <1>1 DEF Goto, Types, Places, Written
<1>5. Mailboxes'
  BY <1>1 DEF Goto, Types, Mailboxes
<1>6. RequestsMatchBytes'
  <2>1. /\ Announcers \in Nat /\ Announcers' = Announcers
        /\ Silenced \in Nat /\ Silenced' = Silenced
    BY <1>1, CallMoves
  <2> QED
    BY <1>1, <2>1
    DEF RequestsMatchBytes, Announcers, Silenced, Blocked, Types
<1>7. ResponsesAnnounced'
  BY <1>1 DEF ResponsesAnnounced
<1> QED
  BY <1>2, <1>3, <1>4, <1>5, <1>6, <1>7

-----------------------------------------------------------------------------
\* The backend receives a byte: it has a request to read.
LEMMA BackendWakesInv ==
    ASSUME IInv, BackendWakes
    PROVE  IInv'
<1> USE DEF IInv
<1>1. /\ backend_up /\ serving = "byte"
      /\ to_backend > 0
      /\ to_backend' = to_backend - 1
      /\ serving' = "request"
      /\ UNCHANGED <<long, pc, pending, mailbox, requests, responses,
                     to_gateway, call_lock, task_lock, task, listening, held,
                     backend_up, gateway_up>>
  BY DEF BackendWakes, Listens, Received, calls, rings, socket, backend,
     listener, processes
<1>2. Types'
  BY <1>1, ConstantsOK DEF ConstantsOK, Types
<1>3. RequestsMatchBytes'
  <2>1. Announcers \in Nat /\ Silenced \in Nat
    BY Counts
  <2> QED
    BY <1>1, <2>1
    DEF RequestsMatchBytes, Announcers, Silenced, Announcing, Silent, Blocked, Types
<1>4. (Locks /\ Places /\ Mailboxes /\ ResponsesAnnounced)'
  BY <1>1 DEF Locks, Places, Written, Mailboxes, ResponsesAnnounced
<1> QED
  BY <1>2, <1>3, <1>4

\* The backend's listener leaves at the end of the stream.
LEMMA BackendExitsInv ==
    ASSUME IInv, BackendExits
    PROVE  IInv'
<1> USE DEF IInv
<1>1. /\ serving = "byte"
      /\ serving' = "exited"
      /\ UNCHANGED <<long, pc, pending, mailbox, requests, responses,
                     to_backend, to_gateway, call_lock, task_lock, task,
                     listening, held, backend_up, gateway_up>>
  BY DEF BackendExits, Listens, calls, rings, socket, backend, listener,
     processes
<1>2. Types'
  BY <1>1 DEF Types
<1>3. RequestsMatchBytes'
  <2>1. Announcers \in Nat /\ Silenced \in Nat
    BY Counts
  <2> QED
    BY <1>1, <2>1
    DEF RequestsMatchBytes, Announcers, Silenced, Announcing, Silent, Blocked, Types
<1>4. (Locks /\ Places /\ Mailboxes /\ ResponsesAnnounced)'
  BY <1>1 DEF Locks, Places, Written, Mailboxes, ResponsesAnnounced
<1> QED
  BY <1>2, <1>3, <1>4

\* The backend reads the oldest request and gives it a task.
LEMMA TakeRequestInv ==
    ASSUME IInv, TakeRequest
    PROVE  IInv'
<1> USE DEF IInv
<1>1. /\ backend_up /\ serving = "request"
      /\ serving' = "byte"
      /\ ~Blocked /\ requests # <<>>
      /\ requests' = Tail(requests)
      /\ task' = [task EXCEPT ![Head(requests)] = "running"]
      /\ UNCHANGED <<long, pc, pending, mailbox, responses, to_backend,
                     to_gateway, call_lock, task_lock, listening, held,
                     backend_up, gateway_up>>
  BY DEF TakeRequest, Listens, Request!Read, calls, rings, socket, backend,
     listener, processes
<1>2. /\ Head(requests) \in Calls
      /\ In(requests, Head(requests))
      /\ Unique(requests')
      /\ requests' \in Seq(Calls)
      /\ Len(requests) \in Nat /\ Len(requests') = Len(requests) - 1
      /\ \A x : In(requests', x) <=> In(requests, x) /\ x # Head(requests)
  BY <1>1, TailQueue DEF Types, Places
<1>3. task[Head(requests)] = "none"
  BY <1>2 DEF Places
<1>4. Types'
  BY <1>1, <1>2, ConstantsOK DEF ConstantsOK, Types
<1>5. Locks'
  BY <1>1, <1>2, <1>3 DEF Types, Locks
<1>6. Places'
  BY <1>1, <1>2, <1>3 DEF Types, Places, Written
<1>7. RequestsMatchBytes'
  <2>1. Announcers \in Nat /\ Silenced \in Nat
    BY Counts
  <2>2. ~Blocked /\ UNCHANGED <<Announcing, Silent>>
    BY <1>1 DEF Announcing, Silent
  <2>3. to_backend \in Nat
    BY DEF Types
  <2>4. Len(requests) = to_backend + Announcers + 1 + Silenced
    BY <1>1, <2>2 DEF RequestsMatchBytes, Announcers, Silenced
  <2>5. Len(requests') = to_backend' + Announcers + 0 + Silenced
    BY <1>1, <1>2, <2>1, <2>3, <2>4
  <2> QED
    BY <1>1, <1>2, <2>1, <2>2, <2>3, <2>4, <2>5
    DEF RequestsMatchBytes, Announcers, Silenced
<1>8. ResponsesAnnounced'
  BY <1>1, <1>2, <1>3 DEF Types, ResponsesAnnounced
<1>9. Mailboxes'
  BY <1>1 DEF Mailboxes
<1> QED
  BY <1>4, <1>5, <1>6, <1>7, <1>8, <1>9

\* The backend has a byte and cannot read a request: the ring is blocked.
LEMMA SkipRequestInv ==
    ASSUME IInv, SkipRequest
    PROVE  IInv'
<1> USE DEF IInv
<1>1. /\ backend_up /\ serving = "request"
      /\ serving' = "byte"
      /\ Blocked \/ requests = <<>>
      /\ UNCHANGED <<long, pc, pending, mailbox, requests, responses,
                     to_backend, to_gateway, call_lock, task_lock, task,
                     listening, held, backend_up, gateway_up>>
  BY DEF SkipRequest, Listens, Request!Empty, calls, rings, socket, backend,
     listener, processes
<1>2. Types'
  BY <1>1 DEF Types
<1>3. RequestsMatchBytes'
  <2>1. Announcers \in Nat /\ Silenced \in Nat
    BY Counts
  <2>2. requests = <<>> => Len(requests) = 0
    BY EmptySeq
  <2> QED
    BY <1>1, <2>1, <2>2
    DEF RequestsMatchBytes, Announcers, Silenced, Announcing, Silent, Blocked, Types
<1>4. (Locks /\ Places /\ Mailboxes /\ ResponsesAnnounced)'
  BY <1>1 DEF Locks, Places, Written, Mailboxes, ResponsesAnnounced
<1> QED
  BY <1>2, <1>3, <1>4

\* A task that writes its response, and will announce it.
LEMMA WriteResponseInv ==
    ASSUME IInv, NEW c \in Calls, WriteResponse(c)
    PROVE  IInv'
<1> USE DEF IInv
<1>1. /\ Step(c, "running", "lock")
      /\ responses' = Append(responses, c)
      /\ Len(responses) + 1 <= Slots
      /\ UNCHANGED <<long, pc, pending, mailbox, requests, to_backend,
                     to_gateway, call_lock, task_lock, serving, listening,
                     held, backend_up, gateway_up>>
  BY ConstantsOK DEF ConstantsOK, Types, Response!Write, Response!Fits, One,
     WriteResponse, AfterResponse, Step, calls, rings, socket, backend,
     listener, processes
<1>2. ~In(responses, c) /\ held # c /\ c \in pending /\ Written(c)
  BY <1>1 DEF Step, Places, Written
<1>3. /\ responses' \in Seq(Calls)
      /\ Len(responses') = Len(responses) + 1
      /\ \A x : In(responses', x) <=> In(responses, x) \/ x = c
      /\ Unique(responses')
  BY <1>1, <1>2, AppendQueue DEF Types, Places
<1>4. Types'
  BY <1>1, <1>3 DEF Step, Types
<1>5. Locks'
  BY <1>1 DEF Step, Types, Locks
<1>6. Places'
  BY <1>1, <1>2, <1>3 DEF Step, Types, Places, Written
<1>7. ResponsesAnnounced'
  BY <1>1 DEF Step, Types, ResponsesAnnounced
<1>8. (Mailboxes /\ RequestsMatchBytes)'
  BY <1>1 DEF Mailboxes, RequestsMatchBytes, Announcing, Silent, Blocked
<1> QED
  BY <1>4, <1>5, <1>6, <1>7, <1>8

\* A task that finds the response ring full: the response is lost, the entry stays.
LEMMA DropResponseInv ==
    ASSUME IInv, NEW c \in Calls, DropResponse(c)
    PROVE  IInv'
<1> USE DEF IInv
<1>1. /\ Step(c, "running", "lost")
      /\ UNCHANGED <<long, pc, pending, mailbox, requests, responses,
                     to_backend, to_gateway, call_lock, task_lock, serving,
                     listening, held, backend_up, gateway_up>>
  BY DEF DropResponse, Response!Full, Step, calls, rings, socket, backend,
     listener, processes
<1>2. Types'
  BY <1>1 DEF Step, Types
<1>3. Locks'
  BY <1>1 DEF Step, Types, Locks
<1>4. Places'
  BY <1>1 DEF Step, Types, Places, Written
<1>5. ResponsesAnnounced'
  BY <1>1 DEF Step, Types, ResponsesAnnounced
<1>6. (Mailboxes /\ RequestsMatchBytes)'
  BY <1>1 DEF Mailboxes, RequestsMatchBytes, Announcing, Silent, Blocked
<1> QED
  BY <1>2, <1>3, <1>4, <1>5, <1>6

\* A task that asks for the lock of the write half: it waits behind the others.
LEMMA LockReplyInv ==
    ASSUME IInv, NEW c \in Calls, LockReply(c)
    PROVE  IInv'
<1> USE DEF IInv
<1>1. /\ Step(c, "lock", "notify")
      /\ task_lock' = Append(task_lock, c)
      /\ UNCHANGED <<long, pc, pending, mailbox, requests, responses,
                     to_backend, to_gateway, call_lock, serving, listening,
                     held, backend_up, gateway_up>>
  BY DEF LockReply, Step, calls, rings, socket, backend, listener, processes
<1>2. ~In(task_lock, c)
  BY <1>1 DEF Step, Locks
<1>3. /\ task_lock' \in Seq(Calls)
      /\ Unique(task_lock')
      /\ \A x : In(task_lock', x) <=> In(task_lock, x) \/ x = c
  BY <1>1, <1>2, AppendQueue DEF Types, Locks
<1>4. Types'
  BY <1>1, <1>3 DEF Step, Types
<1>5. Locks'
  BY <1>1, <1>3 DEF Step, Types, Locks
<1>6. Places'
  BY <1>1 DEF Step, Types, Places, Written
<1>7. ResponsesAnnounced'
  BY <1>1 DEF Step, Types, ResponsesAnnounced
<1>8. (Mailboxes /\ RequestsMatchBytes)'
  BY <1>1 DEF Mailboxes, RequestsMatchBytes, Announcing, Silent, Blocked
<1> QED
  BY <1>4, <1>5, <1>6, <1>7, <1>8

\* A task that sends its byte and lets the next one have the lock.
LEMMA NotifyGatewayInv ==
    ASSUME IInv, NEW c \in Calls, NotifyGateway(c)
    PROVE  IInv'
<1> USE DEF IInv
<1>1. /\ Step(c, "notify", "done")
      /\ task_lock # <<>> /\ Head(task_lock) = c
      /\ task_lock' = Tail(task_lock)
      /\ to_gateway < SockCap
      /\ to_gateway' = to_gateway + 1
      /\ UNCHANGED <<long, pc, pending, mailbox, requests, responses,
                     to_backend, call_lock, serving, listening, held,
                     backend_up, gateway_up>>
  BY DEF NotifyGateway, Holds, HasRoom, Sent, Step, calls, rings, socket,
     backend, listener, processes
<1>2. /\ task_lock' \in Seq(Calls)
      /\ Unique(task_lock')
      /\ \A x : In(task_lock', x) <=> In(task_lock, x) /\ x # c
  BY <1>1, TailQueue DEF Types, Locks
<1>3. Types'
  BY <1>1, <1>2, ConstantsOK DEF ConstantsOK, Step, Types
<1>4. Locks'
  BY <1>1, <1>2 DEF Step, Types, Locks
<1>5. Places'
  BY <1>1 DEF Step, Types, Places, Written
<1>6. ResponsesAnnounced'
  BY <1>1 DEF Types, ResponsesAnnounced
<1>7. (Mailboxes /\ RequestsMatchBytes)'
  BY <1>1 DEF Mailboxes, RequestsMatchBytes, Announcing, Silent, Blocked
<1> QED
  BY <1>3, <1>4, <1>5, <1>6, <1>7

\* A task that cannot send its byte, for the gateway has ended.
LEMMA FailReplyInv ==
    ASSUME IInv, NEW c \in Calls, FailReply(c)
    PROVE  IInv'
<1> USE DEF IInv
<1>1. /\ Step(c, "notify", "done")
      /\ task_lock # <<>> /\ Head(task_lock) = c
      /\ task_lock' = Tail(task_lock)
      /\ ~gateway_up
      /\ UNCHANGED <<long, pc, pending, mailbox, requests, responses,
                     to_backend, to_gateway, call_lock, serving, listening,
                     held, backend_up, gateway_up>>
  BY DEF FailReply, AfterError, Holds, Step, calls, rings, socket, backend,
     listener, processes
<1>2. /\ task_lock' \in Seq(Calls)
      /\ Unique(task_lock')
      /\ \A x : In(task_lock', x) <=> In(task_lock, x) /\ x # c
  BY <1>1, TailQueue DEF Types, Locks
<1>3. Types'
  BY <1>1, <1>2 DEF Step, Types
<1>4. Locks'
  BY <1>1, <1>2 DEF Step, Types, Locks
<1>5. Places'
  BY <1>1 DEF Step, Types, Places, Written
<1>6. ResponsesAnnounced'
  BY <1>1 DEF ResponsesAnnounced
<1>7. (Mailboxes /\ RequestsMatchBytes)'
  BY <1>1 DEF Mailboxes, RequestsMatchBytes, Announcing, Silent, Blocked
<1> QED
  BY <1>3, <1>4, <1>5, <1>6, <1>7

\* The backend ends: what it held stays where it was.
LEMMA BackendStopsInv ==
    ASSUME IInv, BackendStops
    PROVE  IInv'
<1> USE DEF IInv
<1>1. /\ backend_up' = FALSE
      /\ UNCHANGED <<long, pc, pending, mailbox, requests, responses,
                     to_backend, to_gateway, call_lock, task_lock, serving,
                     task, listening, held, gateway_up>>
  BY DEF BackendStops, calls, rings, socket, backend, listener, processes
<1>2. Types'
  BY <1>1 DEF Types
<1>3. RequestsMatchBytes'
  BY <1>1 DEF RequestsMatchBytes
<1>4. ResponsesAnnounced'
  BY <1>1 DEF ResponsesAnnounced
<1>5. (Locks /\ Places /\ Mailboxes)'
  BY <1>1 DEF Locks, Places, Written, Mailboxes
<1> QED
  BY <1>2, <1>3, <1>4, <1>5

\* The gateway ends: what it held stays where it was.
LEMMA GatewayStopsInv ==
    ASSUME IInv, GatewayStops
    PROVE  IInv'
<1> USE DEF IInv
<1>1. /\ gateway_up' = FALSE
      /\ UNCHANGED <<long, pc, pending, mailbox, requests, responses,
                     to_backend, to_gateway, call_lock, task_lock, serving,
                     task, listening, held, backend_up>>
  BY DEF GatewayStops, calls, rings, socket, backend, listener, processes
<1>2. Types'
  BY <1>1 DEF Types
<1>3. ResponsesAnnounced'
  BY <1>1 DEF ResponsesAnnounced
<1>4. (Locks /\ Places /\ Mailboxes /\ RequestsMatchBytes)'
  BY <1>1 DEF Locks, Places, Written, Mailboxes, RequestsMatchBytes,
     Announcing, Silent, Blocked
<1> QED
  BY <1>2, <1>3, <1>4

-----------------------------------------------------------------------------
\* The gateway receives a byte, and reads.
LEMMA ListenerWakesInv ==
    ASSUME IInv, ListenerWakes
    PROVE  IInv'
<1> USE DEF IInv
<1>1. /\ to_gateway > 0
      /\ to_gateway' = to_gateway - 1
      /\ listening' = "drain"
      /\ UNCHANGED <<long, pc, pending, mailbox, requests, responses,
                     to_backend, call_lock, task_lock, serving, task, held,
                     backend_up, gateway_up>>
  BY DEF ListenerWakes, Awaits, Received, calls, rings, socket, backend,
     listener, processes
<1>2. Types'
  BY <1>1, ConstantsOK DEF ConstantsOK, Types
<1>3. ResponsesAnnounced'
  BY <1>1 DEF ResponsesAnnounced
<1>4. (Locks /\ Places /\ Mailboxes /\ RequestsMatchBytes)'
  BY <1>1 DEF Locks, Places, Written, Mailboxes, RequestsMatchBytes,
     Announcing, Silent, Blocked
<1> QED
  BY <1>2, <1>3, <1>4

\* The gateway's listener leaves at the end of the stream.
LEMMA ListenerExitsInv ==
    ASSUME IInv, ListenerExits
    PROVE  IInv'
<1> USE DEF IInv
<1>1. /\ ~backend_up
      /\ listening' = "exited"
      /\ UNCHANGED <<long, pc, pending, mailbox, requests, responses,
                     to_backend, to_gateway, call_lock, task_lock, serving,
                     task, held, backend_up, gateway_up>>
  BY DEF ListenerExits, Awaits, calls, rings, socket, backend, listener,
     processes
<1>2. Types'
  BY <1>1 DEF Types
<1>3. ResponsesAnnounced'
  BY <1>1 DEF ResponsesAnnounced
<1>4. (Locks /\ Places /\ Mailboxes /\ RequestsMatchBytes)'
  BY <1>1 DEF Locks, Places, Written, Mailboxes, RequestsMatchBytes,
     Announcing, Silent, Blocked
<1> QED
  BY <1>2, <1>3, <1>4

\* The gateway reads a response: it moves from the ring to its hands.
LEMMA TakeResponseInv ==
    ASSUME IInv, TakeResponse
    PROVE  IInv'
<1> USE DEF IInv
<1>1. /\ responses # <<>>
      /\ responses' = Tail(responses)
      /\ held = None
      /\ held' = Head(responses)
      /\ listening = "drain"
      /\ UNCHANGED <<long, pc, pending, mailbox, requests, to_backend,
                     to_gateway, call_lock, task_lock, serving, task,
                     listening, backend_up, gateway_up>>
  BY DEF TakeResponse, Awaits, Response!Read, calls, rings, socket, backend,
     listener, processes
<1>2. /\ Head(responses) \in Calls
      /\ In(responses, Head(responses))
      /\ Unique(responses')
      /\ responses' \in Seq(Calls)
      /\ Len(responses) \in Nat /\ Len(responses') = Len(responses) - 1
      /\ \A x : In(responses', x) <=> In(responses, x) /\ x # Head(responses)
  BY <1>1, TailQueue DEF Types, Places
<1>3. Types'
  BY <1>1, <1>2, ConstantsOK DEF ConstantsOK, Types
<1>4. Places'
  BY <1>1, <1>2, ConstantsOK DEF ConstantsOK, Places, Written
<1>5. ResponsesAnnounced'
  BY <1>1 DEF ResponsesAnnounced
<1>6. (Locks /\ Mailboxes /\ RequestsMatchBytes)'
  BY <1>1 DEF Locks, Mailboxes, RequestsMatchBytes, Announcing, Silent, Blocked
<1> QED
  BY <1>3, <1>4, <1>5, <1>6

\* The gateway finds the ring empty, and waits for the next byte.
LEMMA StopDrainingInv ==
    ASSUME IInv, StopDraining
    PROVE  IInv'
<1> USE DEF IInv
<1>1. /\ responses = <<>>
      /\ listening' = "byte"
      /\ UNCHANGED <<long, pc, pending, mailbox, requests, responses,
                     to_backend, to_gateway, call_lock, task_lock, serving,
                     task, held, backend_up, gateway_up>>
  BY DEF StopDraining, Awaits, Response!NothingRead, AnyLength, calls, rings,
     socket, backend, listener, processes
<1>2. Types'
  BY <1>1 DEF Types
<1>3. ResponsesAnnounced'
  BY <1>1 DEF ResponsesAnnounced
<1>4. (Locks /\ Places /\ Mailboxes /\ RequestsMatchBytes)'
  BY <1>1 DEF Locks, Places, Written, Mailboxes, RequestsMatchBytes,
     Announcing, Silent, Blocked
<1> QED
  BY <1>2, <1>3, <1>4

\* The gateway hands the response over to the call whose id it carries, and to no other.
LEMMA DeliverInv ==
    ASSUME IInv, Deliver
    PROVE  IInv'
<1> USE DEF IInv
<1>1. /\ held \in Calls
      /\ held' = None
      /\ pending' = pending \ {held}
      /\ mailbox' = IF held \in pending /\ Waiting(held)
                    THEN [mailbox EXCEPT ![held] = held] ELSE mailbox
      /\ UNCHANGED <<long, pc, requests, responses, to_backend, to_gateway,
                     call_lock, task_lock, serving, task, listening,
                     backend_up, gateway_up>>
  BY DEF Deliver, Recipient, Unregister, Types, calls, rings, socket, backend,
     listener, processes
<1>2. Types'
  BY <1>1 DEF Types
<1>3. Places'
  BY <1>1, ConstantsOK DEF ConstantsOK, Types, Places, Written
<1>4. Mailboxes'
  BY <1>1 DEF Types, Mailboxes
<1>5. (Locks /\ RequestsMatchBytes /\ ResponsesAnnounced)'
  BY <1>1 DEF Locks, RequestsMatchBytes, Announcing, Silent, Blocked,
     ResponsesAnnounced
<1> QED
  BY <1>2, <1>3, <1>4, <1>5

-----------------------------------------------------------------------------
\* Every step keeps the invariant.
LEMMA NextInv == IInv /\ [Next]_vars => IInv'
<1> SUFFICES ASSUME IInv, [Next]_vars PROVE IInv'
  OBVIOUS
<1>1. ASSUME NEW c \in Calls, Register(c) \/ CallSteps(c) \/ Abandon(c) \/ Cancel(c)
      PROVE  IInv'
  BY <1>1, RegisterInv, WriteRequestInv, FailRequestInv, LockNotifyInv, NotifyBackendInv,
     FailNotifyInv, ReturnInv, AbandonInv, CancelInv DEF CallSteps
<1>2. ASSUME NEW c \in Calls, TaskSteps(c) PROVE IInv'
  BY <1>2, WriteResponseInv, DropResponseInv, LockReplyInv, NotifyGatewayInv, FailReplyInv
     DEF TaskSteps
<1>3. CASE BackendListener
  BY <1>3, BackendWakesInv, BackendExitsInv, TakeRequestInv, SkipRequestInv
     DEF BackendListener
<1>4. CASE GatewayListener
  BY <1>4, ListenerWakesInv, ListenerExitsInv, TakeResponseInv, StopDrainingInv, DeliverInv
     DEF GatewayListener
<1>5. CASE BackendStops \/ GatewayStops
  BY <1>5, BackendStopsInv, GatewayStopsInv
<1>6. CASE UNCHANGED vars
  <2>1. UNCHANGED <<long, pc, pending, mailbox, requests, responses, to_backend, to_gateway,
                    call_lock, task_lock, serving, task, listening, held, backend_up,
                    gateway_up>>
    BY <1>6 DEF vars, calls, rings, socket, backend, listener, processes
  <2> QED
    BY <2>1 DEF IInv, Types, Locks, Places, Written, Mailboxes, RequestsMatchBytes,
                Announcing, Silent, Blocked, ResponsesAnnounced
<1> QED
  BY <1>1, <1>2, <1>3, <1>4, <1>5, <1>6 DEF Next

\* The invariant is one of every reachable state.
THEOREM UdsInvariance == Spec => []IInv
BY InitInv, NextInv, PTL DEF Spec
-----------------------------------------------------------------------------
\* Types of the variables; the waiters of a lock are distinct.
THEOREM UdsTypes == Spec => []TypeOK
<1>1. IInv => TypeOK
  <2> SUFFICES ASSUME IInv PROVE TypeOK
    OBVIOUS
  <2>1. IsInjective(call_lock) /\ IsInjective(task_lock)
    BY LenProperties DEF IInv, Types, Locks, Unique, IsInjective
  <2> QED
    BY <2>1 DEF IInv, Types, CallStates, TypeOK
<1> QED
  BY <1>1, UdsInvariance, PTL

\* While the backend lives, the requests in a ring that is not blocked are the
\* bytes under way, still to be sent, or never sent because the call was dropped.
THEOREM EveryByteHasItsRequest == Spec => []RequestsMatchBytes
<1>1. IInv => RequestsMatchBytes
  BY DEF IInv
<1> QED
  BY <1>1, UdsInvariance, PTL

\* While both processes live, the gateway's listener does not sleep on a
\* response that nobody will announce.
THEOREM EveryResponseAnnounced == Spec => []ResponsesAnnounced
<1>1. IInv => ResponsesAnnounced
  BY DEF IInv
<1> QED
  BY <1>1, UdsInvariance, PTL

\* A request that was written is in exactly one place until its response has
\* been handed over or lost, whoever leaves or ends.
THEOREM EveryRequestInOnePlace == Spec => []InOnePlace
<1>1. IInv => InOnePlace
  <2> SUFFICES ASSUME IInv, NEW c \in Calls
               PROVE  /\ pc[c] \in {"write", "failed"} => InFlight(c) = 0 /\ c \in pending
                      /\ pc[c] \notin {"idle", "write", "failed"} =>
                             InFlight(c) = IF c \in pending /\ task[c] # "lost" THEN 1 ELSE 0
    BY DEF InOnePlace
  <2>1. Occurrences(requests, c) = IF In(requests, c) THEN 1 ELSE 0
    BY UniqueOccurs DEF IInv, Types, Places, Occurrences
  <2>2. Occurrences(responses, c) = IF In(responses, c) THEN 1 ELSE 0
    BY UniqueOccurs DEF IInv, Types, Places, Occurrences
  <2> HIDE DEF Occurrences
  <2> QED
    BY <2>1, <2>2 DEF IInv, Types, Places, Written, InFlight
<1> QED
  BY <1>1, UdsInvariance, PTL

-----------------------------------------------------------------------------
\* How far a step of a call is, seen by its user.
Seen(step) ==
    CASE step \in {"idle", "ok"} -> step
      [] step \in Dropped -> "dropped"
      [] step \in Failed -> "failed"
      [] OTHER -> "waiting"

\* Phase as a function of the step alone, one step at a time.
LEMMA PhaseOf ==
    /\ \A c : Phase(c) = Seen(pc[c]) /\ Phase(c)' = Seen(pc'[c])
    /\ Seen("idle") = "idle" /\ Seen("ok") = "ok"
    /\ \A step \in {"write", "lock", "notify", "await"} : Seen(step) = "waiting"
    /\ \A step \in {"abandoned", "dropped"} : Seen(step) = "dropped"
    /\ \A step \in {"failed", "unannounced"} : Seen(step) = "failed"
<1>1. ASSUME NEW c PROVE Phase(c) = Seen(pc[c]) /\ Phase(c)' = Seen(pc'[c])
  BY DEF Phase, Seen
<1> QED
  BY <1>1 DEF Seen, Dropped, Failed

\* The initial states are initial states of the contract.
LEMMA InitRpc == Init => Rpc!Init
BY PhaseOf DEF Init, Rpc!Init

\* A step that no user of the transport can see.
LEMMA HiddenStep ==
    ASSUME Types, Types', \A c \in Calls : Phase(c)' = Phase(c),
           \A c \in Calls : (pc'[c] = "ok" <=> pc[c] = "ok")
                            /\ (pc[c] = "ok" => mailbox'[c] = mailbox[c])
    PROVE  UNCHANGED Rpc!vars
BY DEF Types, Rpc!vars

\* A step that moves one call to another phase, and leaves its answer alone.
LEMMA VisibleStep ==
    ASSUME Types, Types', NEW c \in Calls, NEW from, NEW to,
           from \in {"idle", "waiting"}, to \in {"waiting", "failed", "dropped"},
           Phase(c) = from, Phase(c)' = to,
           OnlyMoves(Calls, pc, pc', c), mailbox' = mailbox
    PROVE  /\ Rpc!Move(c, from, to)
           /\ UNCHANGED [x \in Calls |-> IF pc[x] = "ok" THEN mailbox[x] ELSE None]
<1>1. ASSUME NEW x \in Calls, x # c PROVE pc'[x] = pc[x] /\ Phase(x)' = Phase(x)
  BY <1>1 DEF OnlyMoves, Phase
<1>2. pc[c] # "ok" /\ pc'[c] # "ok"
  BY PhaseOf
<1> HIDE DEF Phase
<1>3. Rpc!Move(c, from, to)
  BY <1>1 DEF Rpc!Move
<1> QED
  BY <1>1, <1>2, <1>3

\* Every step of the transport is a step of the contract, or none.
LEMMA StepRpc == IInv /\ IInv' /\ [Next]_vars => [Rpc!Next]_(Rpc!vars)
<1> SUFFICES ASSUME IInv, IInv', [Next]_vars PROVE [Rpc!Next]_(Rpc!vars)
  OBVIOUS
<1> USE DEF IInv
<1>0. ASSUME NEW c \in Calls, NEW from, NEW to, Goto(c, from, to)
      PROVE  pc[c] = from /\ pc'[c] = to /\ OnlyMoves(Calls, pc, pc', c)
  BY <1>0 DEF Goto, Types, OnlyMoves
<1>1. ASSUME NEW c \in Calls, Register(c) PROVE Rpc!Start(c)
  <2>1. Goto(c, "idle", "write") /\ mailbox' = mailbox
    BY <1>1 DEF Register
  <2> QED
    BY <1>0, <2>1, PhaseOf, VisibleStep DEF Rpc!Start
<1>2. ASSUME NEW c \in Calls, FailRequest(c) \/ FailNotify(c) PROVE Rpc!Fail(c)
  <2>1. PICK from \in {"write", "notify"}, to \in {"failed", "unannounced"} :
            Goto(c, from, to) /\ mailbox' = mailbox
    BY <1>2 DEF FailRequest, FailNotify, AfterFull
  <2> QED
    BY <1>0, <2>1, PhaseOf, VisibleStep DEF Rpc!Fail
<1>3. ASSUME NEW c \in Calls, Abandon(c) \/ Cancel(c) PROVE Rpc!Drop(c)
  <2>1. PICK from \in {"notify", "await"}, to \in {"abandoned", "dropped"} :
            Goto(c, from, to) /\ mailbox' = mailbox
    BY <1>3 DEF Abandon, Cancel
  <2> QED
    BY <1>0, <2>1, PhaseOf, VisibleStep DEF Rpc!Drop
<1>4. ASSUME NEW c \in Calls, Return(c) PROVE Rpc!Answer(c)
  <2>1. Goto(c, "await", "ok") /\ mailbox' = mailbox /\ mailbox[c] = c
    BY <1>4 DEF Return, Mailboxes
  <2>2. Phase(c) = "waiting" /\ Phase(c)' = "ok"
    BY <1>0, <2>1, PhaseOf
  <2>3. ASSUME NEW x \in Calls, x # c PROVE pc'[x] = pc[x] /\ Phase(x)' = Phase(x)
    BY <1>0, <2>1, <2>3 DEF OnlyMoves, Phase
  <2>4. pc[c] = "await" /\ pc'[c] = "ok"
    BY <1>0, <2>1
  <2> QED
    BY <2>1, <2>2, <2>3, <2>4 DEF Rpc!Answer, Rpc!Move
<1>5. ASSUME NEW c \in Calls, WriteRequest(c) \/ LockNotify(c) \/ NotifyBackend(c)
      PROVE  UNCHANGED Rpc!vars
  <2>1. PICK from \in {"write", "lock", "notify"}, to \in {"lock", "notify", "await"} :
            Goto(c, from, to) /\ mailbox' = mailbox
    BY <1>5 DEF WriteRequest, LockNotify, NotifyBackend
  <2>2. Phase(c) = "waiting" /\ Phase(c)' = "waiting" /\ pc[c] # "ok" /\ pc'[c] # "ok"
    BY <1>0, <2>1, PhaseOf
  <2>3. ASSUME NEW x \in Calls, x # c PROVE pc'[x] = pc[x] /\ Phase(x)' = Phase(x)
    BY <1>0, <2>1, <2>3 DEF OnlyMoves, Phase
  <2> QED
    BY <2>1, <2>2, <2>3, HiddenStep
<1>6. ASSUME pc' = pc, \A c \in Calls : pc[c] = "ok" => mailbox'[c] = mailbox[c]
      PROVE  UNCHANGED Rpc!vars
  BY <1>6, HiddenStep DEF Phase
<1>7. CASE Deliver
  <2>1. pc' = pc
    BY <1>7 DEF Deliver
  <2>2. \A c \in Calls : pc[c] = "ok" => mailbox'[c] = mailbox[c]
    BY <1>7 DEF Deliver, Recipient, Waiting, Types
  <2> QED
    BY <1>6, <2>1, <2>2
<1>8. ASSUME UNCHANGED vars \/ BackendListener \/ (\E c \in Calls : TaskSteps(c))
                \/ ListenerWakes \/ ListenerExits \/ TakeResponse \/ StopDraining
                \/ BackendStops \/ GatewayStops
      PROVE  UNCHANGED Rpc!vars
  <2>1. UNCHANGED calls
    BY <1>8 DEF vars, BackendListener, BackendWakes, BackendExits, TakeRequest, SkipRequest,
       TaskSteps, Step, WriteResponse, DropResponse, LockReply, NotifyGateway, FailReply,
       ListenerWakes, ListenerExits, TakeResponse, StopDraining, BackendStops, GatewayStops
  <2> QED
    BY <1>6, <2>1 DEF calls
<1> QED
  BY <1>1, <1>2, <1>3, <1>4, <1>5, <1>7, <1>8 DEF Next, CallSteps, GatewayListener, Rpc!Next

\* The transport implements EchoRpc: a call ends at most once, and it returns
\* the response to its own request or none, whoever leaves or ends.
THEOREM UdsImplementsRpc == Spec => ImplementsRpc
<1>1. IInv /\ [Next]_vars => IInv'
  BY NextInv
<1> QED
  BY <1>1, InitRpc, StepRpc, UdsInvariance, PTL DEF Spec, ImplementsRpc, Rpc!Spec
=============================================================================
