--------------------------- MODULE ShmSetupProofs ---------------------------
(***************************************************************************)
(* Proofs about ShmSetup: whatever processes end and are started again, a  *)
(* gateway that gets through the start-up has the two rings of the backend *)
(* it is connected to, the request ring with its whole header, and nobody  *)
(* writes that header again while it runs.                                 *)
(***************************************************************************)
EXTENDS ShmSetup, QueueLemmas

\* The backend has both rings; it has one ring under construction.
Built == {"unlink", "bind", "accept", "send_request_event", "send_response_event", "serve"}
Building == {"truncate", "header", "other_field"}

\* What the backend has made when it is at a step, and what there is in
\* /dev/shm: no response ring without the complete request ring of its run.
Files ==
    /\ bpc # "down" => run > 0
    /\ bpc = "truncate" => ring[making] = "empty"
    /\ bpc = "header" => ring[making] = "zeroed"
    /\ bpc = "other_field" => ring[making] \in {"capacity", "magic"}
    /\ bpc \in Building => maker[making] = run
    /\ bpc # "down" /\ making = "resp" => ring["req"] = "ready" /\ maker["req"] = run
    /\ bpc \in Built => making = "resp" /\ ring["resp"] = "ready" /\ maker["resp"] = run
    /\ ring["resp"] # "absent" => ring["req"] = "ready" /\ maker["req"] = maker["resp"]

\* The rings that a running gateway has mapped are those in /dev/shm, and a
\* gateway that has connected has the rings of its backend.
Mappings ==
    \A g \in Gateways :
        /\ gpc[g] = "wait_resp" => ring["req"] # "absent" /\ mapped[g]["req"] = maker["req"]
        /\ gpc[g] \in {"connect", "recv_request_event", "recv_response_event", "ready"} =>
               /\ ring["resp"] # "absent"
               /\ \A r \in Rings : mapped[g][r] = maker[r]
        /\ gpc[g] \in {"wait_req", "wait_resp", "connect"} => peer[g] = 0
        /\ gpc[g] \in {"wait_req", "wait_resp"} => attempts[g] < Attempts
        /\ peer[g] # 0 => \A r \in Rings : mapped[g][r] = peer[g]

\* A gateway connects once each time it is started; the connection is in one
\* place, and as many eventfds as the backend has sent are on it at most.
Sockets ==
    /\ ~In(backlog, client)
    /\ \A g \in Gateways : \A n \in 1 .. MaxStarts :
           In(backlog, <<g, n>>) \/ client = <<g, n>> => n <= starts[g]
    /\ \A g \in Gateways :
           /\ ~Gone(g) => starts[g] > 0
           /\ gpc[g] \in {"wait_req", "wait_resp", "connect"} =>
                  fds[g] = 0 /\ ~In(backlog, Connection(g)) /\ client # Connection(g)
           /\ In(backlog, Connection(g)) => fds[g] = 0
           /\ client = Connection(g) =>
                  /\ bpc = "send_request_event" => fds[g] = 0
                  /\ bpc = "send_response_event" => fds[g] <= 1
    /\ bpc \in {"send_request_event", "send_response_event"} => client # None

IInv == TypeOK /\ Files /\ Mappings /\ Sockets

-----------------------------------------------------------------------------
\* None is no connection; the connection of a gateway that was started is one.
LEMMA NoConnection ==
    /\ \A g \in Gateways, n \in 1 .. MaxStarts : <<g, n>> # None
    /\ TypeOK => \A g \in Gateways :
           starts[g] > 0 => /\ Connection(g) \in Gateways \X (1 .. MaxStarts)
                            /\ Connection(g) # None
<1>1. \A g \in Gateways, n \in 1 .. MaxStarts : <<g, n>> # None
  BY ConstantsOK DEF ConstantsOK
<1>2. ASSUME TypeOK, NEW g \in Gateways, starts[g] > 0
      PROVE  starts[g] \in 1 .. MaxStarts
  BY <1>2, ConstantsOK DEF ConstantsOK, TypeOK
<1> QED
  BY <1>1, <1>2 DEF Connection

\* The invariant holds at the start.
LEMMA InitInv == Init => IInv
<1> SUFFICES ASSUME Init PROVE IInv
  OBVIOUS
<1> USE ConstantsOK DEF ConstantsOK, Init
<1>1. TypeOK
  <2>1. <<>> \in Seq(Gateways \X (1 .. MaxStarts)) /\ IsInjective(<<>>)
    BY EmptySeq DEF IsInjective
  <2> QED
    BY <2>1 DEF TypeOK, NothingMapped, Rings, FirstRing
<1>2. Files
  BY DEF Files, Building, Built, FirstRing, Rings
<1>3. Mappings
  BY DEF Mappings
<1>4. Sockets
  <2>1. /\ \A x : ~In(backlog, x)
        /\ \A g \in Gateways, n \in 1 .. MaxStarts : client # <<g, n>>
        /\ \A g \in Gateways : Gone(g)
    BY EmptyQueue, NoConnection DEF Gone
  <2> QED
    BY <2>1 DEF Sockets
<1> QED
  BY <1>1, <1>2, <1>3, <1>4 DEF IInv

-----------------------------------------------------------------------------
\* Steps of the backend that make files.

\* The backend is started.
LEMMA BackendStartsInv == IInv /\ BackendStarts => IInv'
<1> SUFFICES ASSUME IInv, BackendStarts PROVE IInv'
  OBVIOUS
<1> USE DEF IInv
<1>1. /\ bpc = "down" /\ run < MaxStarts /\ run' = run + 1 /\ bpc' = "create"
      /\ making' = "req"
      /\ UNCHANGED <<transport, ring, maker, socket, backlog, client,
                     starts, gpc, attempts, mapped, peer, fds>>
  BY DEF BackendStarts, FirstRing, files, gateways
<1>2. TypeOK'
  <2>1. run' \in 0 .. MaxStarts
    BY <1>1, ConstantsOK DEF ConstantsOK, TypeOK
  <2>2. making' \in Rings
    BY <1>1 DEF Rings
  <2> QED
    BY <1>1, <2>1, <2>2, Zenon DEF TypeOK
<1>3. Files'
  BY <1>1 DEF TypeOK, Files, Building, Built
<1>4. Mappings'
  BY <1>1 DEF Mappings
<1>5. Sockets'
  BY <1>1 DEF Sockets, Gone, Connection
<1> QED
  BY <1>2, <1>3, <1>4, <1>5

\* The backend creates a ring: one that was not there.
LEMMA CreateRingInv == IInv /\ CreateRing => IInv'
<1> SUFFICES ASSUME IInv, CreateRing PROVE IInv'
  OBVIOUS
<1> USE DEF IInv
<1>1. /\ bpc = "create" /\ bpc' = "truncate"
      /\ ring[making] = "absent"
      /\ ring' = [ring EXCEPT ![making] = "empty"]
      /\ maker' = [maker EXCEPT ![making] = run]
      /\ UNCHANGED <<transport, socket, run, making, backlog, client,
                     starts, gpc, attempts, mapped, peer, fds>>
  BY DEF CreateRing, MayCreate, gateways
<1>2. TypeOK'
  BY <1>1 DEF TypeOK
<1>3. Files'
  BY <1>1 DEF TypeOK, Files, Building, Built, Rings
<1>4. Mappings'
  <2>1. ring["resp"] # "absent" => ring["req"] # "absent"
    BY DEF Files
  <2> QED
    BY <1>1, <2>1 DEF TypeOK, Mappings, Rings
<1>5. Sockets'
  BY <1>1 DEF Sockets, Gone, Connection
<1> QED
  BY <1>2, <1>3, <1>4, <1>5

\* The backend goes on with the ring it is creating.
LEMMA MakeRingInv == IInv /\ (SizeRing \/ StoreField \/ InitRing) => IInv'
<1> SUFFICES ASSUME IInv, SizeRing \/ StoreField \/ InitRing PROVE IInv'
  OBVIOUS
<1> USE DEF IInv
<1>1. /\ bpc \in Building
      /\ ring[making] # "absent"
      /\ \E step \in {"zeroed", "capacity", "magic", "ready"} :
             ring' = [ring EXCEPT ![making] = step]
      /\ UNCHANGED <<transport, maker, socket, run, backlog, client,
                     starts, gpc, attempts, mapped, peer, fds>>
  BY DEF Building, Files, SizeRing, StoreField, InitRing, gateways
<1>2. TypeOK'
  <2>1. /\ ring' \in [Rings -> {"absent", "empty", "zeroed", "capacity", "magic", "ready"}]
        /\ bpc' \in {"header", "other_field", "create", "serve", "unlink"}
        /\ making' \in Rings
    BY <1>1 DEF TypeOK, SizeRing, StoreField, InitRing
  <2> QED
    BY <1>1, <2>1 DEF TypeOK
<1>3. Files'
  BY DEF TypeOK, Files, Building, Built, Rings, SizeRing, StoreField, InitRing, FirstRing
<1>4. Mappings'
  BY <1>1 DEF TypeOK, Mappings, Rings
<1>5. Sockets'
  <2>1. bpc' \notin {"send_request_event", "send_response_event"}
    BY DEF SizeRing, StoreField, InitRing
  <2> QED
    BY <1>1, <2>1 DEF Sockets, Gone, Connection
<1> QED
  BY <1>2, <1>3, <1>4, <1>5

\* The backend replaces the path of the socket.
LEMMA SocketInv == IInv /\ (RemoveSocket \/ BindSocket) => IInv'
<1> SUFFICES ASSUME IInv, RemoveSocket \/ BindSocket PROVE IInv'
  OBVIOUS
<1> USE DEF IInv
<1>1. /\ bpc \in {"unlink", "bind"} /\ bpc' \in {"bind", "accept"}
      /\ socket' \in {0, run}
      /\ UNCHANGED <<transport, ring, maker, run, making, backlog, client,
                     starts, gpc, attempts, mapped, peer, fds>>
  BY DEF RemoveSocket, BindSocket, gateways
<1>2. TypeOK'
  BY <1>1, ConstantsOK DEF ConstantsOK, TypeOK
<1>3. Files'
  BY <1>1 DEF Files, Building, Built
<1>4. Mappings'
  BY <1>1 DEF Mappings
<1>5. Sockets'
  BY <1>1 DEF Sockets, Gone, Connection
<1> QED
  BY <1>2, <1>3, <1>4, <1>5

\* The backend is gone, and its sockets with it; its files are not.
LEMMA DownInv == IInv /\ (FailCreate \/ Down) => IInv'
<1> SUFFICES ASSUME IInv, FailCreate \/ Down PROVE IInv'
  OBVIOUS
<1> USE DEF IInv
<1>1. /\ bpc' = "down"
      /\ backlog' = <<>> \/ backlog' = backlog
      /\ client' = None \/ client' = client
      /\ UNCHANGED <<transport, ring, maker, socket, run, making,
                     starts, gpc, attempts, mapped, peer, fds>>
  BY DEF FailCreate, Down, files, gateways
<1>2. TypeOK'
  <2>1. <<>> \in Seq(Gateways \X (1 .. MaxStarts)) /\ IsInjective(<<>>)
    BY EmptySeq DEF IsInjective
  <2> QED
    BY <1>1, <2>1 DEF TypeOK
<1>3. Files'
  BY <1>1 DEF Files, Building, Built
<1>4. Mappings'
  BY <1>1 DEF Mappings
<1>5. Sockets'
  <2>1. CASE FailCreate
    BY <1>1, <2>1 DEF FailCreate, Sockets, Gone, Connection
  <2>2. CASE Down
    <3>1. /\ backlog' = <<>> /\ client' = None
          /\ \A x : ~In(backlog', x)
          /\ \A g \in Gateways : Connection(g)' = Connection(g) /\ (Gone(g)' <=> Gone(g))
      BY <1>1, <2>2, EmptyQueue DEF Down, Connection, Gone
    <3>2. ASSUME NEW g \in Gateways, gpc[g] \in {"wait_req", "wait_resp", "connect"}
          PROVE  client' # Connection(g)
      BY <3>1, <3>2, NoConnection DEF Sockets, Gone
    <3> QED
      BY <1>1, <3>1, <3>2, NoConnection DEF Sockets
  <2> QED
    BY <2>1, <2>2
<1> QED
  BY <1>2, <1>3, <1>4, <1>5

\* The backend accepts its first gateway: a connection moves out of the backlog.
LEMMA AcceptInv == IInv /\ Accept => IInv'
<1> SUFFICES ASSUME IInv, Accept PROVE IInv'
  OBVIOUS
<1> USE DEF IInv
<1>1. /\ bpc = "accept" /\ bpc' \in {"serve", "send_request_event"}
      /\ backlog # <<>>
      /\ client' = Head(backlog)
      /\ backlog' = Tail(backlog)
      /\ UNCHANGED <<transport, ring, maker, socket, run, making,
                     starts, gpc, attempts, mapped, peer, fds>>
  BY DEF Accept, files, gateways
<1> DEFINE C == Gateways \X (1 .. MaxStarts)
<1>2. /\ Head(backlog) \in C
      /\ In(backlog, Head(backlog))
      /\ backlog' \in Seq(C)
      /\ Unique(backlog')
      /\ \A x : In(backlog', x) <=> In(backlog, x) /\ x # Head(backlog)
  <2>1. backlog \in Seq(C) /\ Unique(backlog)
    BY LenProperties DEF TypeOK, Unique, IsInjective
  <2> HIDE DEF C
  <2> QED
    BY <1>1, <2>1, TailQueue
<1>3. IsInjective(backlog')
  BY <1>2, LenProperties DEF Unique, IsInjective
<1>4. TypeOK'
  BY <1>1, <1>2, <1>3 DEF TypeOK
<1>5. Files'
  BY <1>1 DEF Files, Building, Built
<1>6. Mappings'
  BY <1>1 DEF Mappings
<1>7. Sockets'
  <2>1. Head(backlog) # None
    BY <1>2, ConstantsOK DEF ConstantsOK
  <2>2. \A g \in Gateways : Connection(g)' = Connection(g) /\ (Gone(g)' <=> Gone(g))
    BY <1>1 DEF Connection, Gone
  <2> QED
    BY <1>1, <1>2, <2>1, <2>2 DEF Sockets
<1> QED
  BY <1>4, <1>5, <1>6, <1>7

\* The backend sends an eventfd: its first or its second.
LEMMA SendEventfdInv ==
    IInv /\ (\/ SendEventfd("send_request_event", "send_response_event")
             \/ SendEventfd("send_response_event", "serve")) => IInv'
<1> SUFFICES ASSUME IInv, NEW from, NEW to, SendEventfd(from, to),
                    \/ from = "send_request_event" /\ to = "send_response_event"
                    \/ from = "send_response_event" /\ to = "serve"
             PROVE  IInv'
  OBVIOUS
<1> USE DEF IInv
<1>1. /\ bpc = from /\ bpc' = to
      /\ ~Closed(client)
      /\ fds' = [fds EXCEPT ![client[1]] = @ + 1]
      /\ UNCHANGED <<transport, ring, maker, socket, run, making, backlog, client,
                     starts, gpc, attempts, mapped, peer>>
  BY DEF SendEventfd, files
<1>2. PICK h \in Gateways : client = Connection(h) /\ client[1] = h /\ ~Gone(h)
  <2>1. client \in Gateways \X (1 .. MaxStarts)
    BY <1>1 DEF TypeOK, Sockets
  <2> QED
    BY <1>1, <2>1 DEF Closed
<1>3. /\ fds[h] \in 0 .. 2
      /\ from = "send_request_event" => fds[h] = 0
      /\ from = "send_response_event" => fds[h] <= 1
  BY <1>1, <1>2 DEF TypeOK, Sockets
<1>4. /\ fds' \in [Gateways -> 0 .. 2]
      /\ fds'[h] = fds[h] + 1
      /\ \A g \in Gateways \ {h} : fds'[g] = fds[g]
  BY <1>1, <1>2, <1>3 DEF TypeOK
<1>5. TypeOK'
  BY <1>1, <1>4 DEF TypeOK
<1>6. Files'
  BY <1>1 DEF Files, Building, Built
<1>7. Mappings'
  BY <1>1 DEF Mappings
<1>8. Sockets'
  <2>1. /\ gpc[h] \notin {"wait_req", "wait_resp", "connect"}
        /\ ~In(backlog, Connection(h))
    BY <1>2 DEF Sockets
  <2>2. \A g \in Gateways : Connection(g)' = Connection(g) /\ (Gone(g)' <=> Gone(g))
    BY <1>1 DEF Connection, Gone
  <2>3. \A g \in Gateways : client = Connection(g) => g = h
    BY <1>2 DEF Connection
  <2> QED
    BY <1>1, <1>3, <1>4, <2>1, <2>2, <2>3 DEF Sockets
<1> QED
  BY <1>5, <1>6, <1>7, <1>8

-----------------------------------------------------------------------------
\* Steps of a gateway, and of the scripts.

\* A gateway that goes nowhere new: it ends, or gives up.
LEMMA GatewayLeavesInv ==
    ASSUME IInv, NEW g \in Gateways,
           Goto(g, "failed") \/ Goto(g, "killed") \/ Goto(g, "down"),
           UNCHANGED <<transport, files, backend, starts, mapped, peer, fds>>,
           attempts' \in [Gateways -> 0 .. Attempts],
           OnlyMoves(Gateways, attempts, attempts', g)
    PROVE  IInv'
<1> USE DEF IInv
<1>1. /\ \E to \in {"failed", "killed", "down"} : gpc' = [gpc EXCEPT ![g] = to]
      /\ UNCHANGED <<transport, ring, maker, socket, run, bpc, making, backlog, client,
                     starts, mapped, peer, fds>>
  BY DEF Goto, files, backend
<1>2. TypeOK'
  BY <1>1 DEF TypeOK
<1>3. Files'
  BY <1>1 DEF Files
<1>4. Mappings'
  BY <1>1 DEF TypeOK, Mappings, OnlyMoves
<1>5. Sockets'
  BY <1>1 DEF TypeOK, Sockets, Gone, Connection
<1> QED
  BY <1>2, <1>3, <1>4, <1>5

\* A gateway is started: a connection of its name has not been made before.
LEMMA GatewayStartsInv ==
    ASSUME IInv, NEW g \in Gateways, GatewayStarts(g)
    PROVE  IInv'
<1> USE DEF IInv
<1>1. /\ gpc' = [gpc EXCEPT ![g] = "wait_req"]
      /\ starts[g] < MaxStarts
      /\ starts' = [starts EXCEPT ![g] = @ + 1]
      /\ attempts' = [attempts EXCEPT ![g] = 0]
      /\ mapped' = [mapped EXCEPT ![g] = NothingMapped]
      /\ peer' = [peer EXCEPT ![g] = 0]
      /\ fds' = [fds EXCEPT ![g] = 0]
      /\ UNCHANGED <<transport, ring, maker, socket, run, bpc, making, backlog, client>>
  BY DEF GatewayStarts, Goto, files, backend
<1>2. starts[g] \in Nat /\ starts[g] + 1 \in 1 .. MaxStarts
  BY <1>1, ConstantsOK DEF ConstantsOK, TypeOK
<1>3. TypeOK'
  <2>1. NothingMapped \in [Rings -> 0 .. MaxStarts]
    BY ConstantsOK DEF ConstantsOK, NothingMapped
  <2> QED
    BY <1>1, <1>2, <2>1, ConstantsOK DEF ConstantsOK, TypeOK
<1>4. Files'
  BY <1>1 DEF Files
<1>5. Mappings'
  BY <1>1, ConstantsOK DEF ConstantsOK, TypeOK, Mappings
<1>6. Sockets'
  <2>1. /\ ~In(backlog, <<g, starts[g] + 1>>)
        /\ client # <<g, starts[g] + 1>>
    BY <1>2 DEF Sockets
  <2>2. /\ Connection(g)' = <<g, starts[g] + 1>>
        /\ \A h \in Gateways \ {g} : /\ Connection(h)' = Connection(h)
                                     /\ Gone(h)' <=> Gone(h)
    BY <1>1 DEF TypeOK, Connection, Gone
  <2>3. /\ starts'[g] = starts[g] + 1 /\ fds'[g] = 0
        /\ \A h \in Gateways \ {g} : starts'[h] = starts[h] /\ fds'[h] = fds[h] /\ gpc'[h] = gpc[h]
    BY <1>1 DEF TypeOK
  <2> HIDE DEF IInv
  <2>4. /\ ~In(backlog', client')
        /\ bpc' \in {"send_request_event", "send_response_event"} => client' # None
    BY <1>1 DEF IInv, Sockets
  <2>5. \A h \in Gateways : \A n \in 1 .. MaxStarts :
           In(backlog', <<h, n>>) \/ client' = <<h, n>> => n <= starts'[h]
    BY <1>1, <1>2, <2>3 DEF IInv, TypeOK, Sockets
  <2>6. \A h \in Gateways :
           /\ ~Gone(h)' => starts'[h] > 0
           /\ gpc'[h] \in {"wait_req", "wait_resp", "connect"} =>
                  fds'[h] = 0 /\ ~In(backlog', Connection(h)') /\ client' # Connection(h)'
           /\ In(backlog', Connection(h)') => fds'[h] = 0
           /\ client' = Connection(h)' =>
                  /\ bpc' = "send_request_event" => fds'[h] = 0
                  /\ bpc' = "send_response_event" => fds'[h] <= 1
    BY <1>1, <1>2, <2>1, <2>2, <2>3 DEF IInv, TypeOK, Sockets
  <2> QED
    BY <2>4, <2>5, <2>6 DEF Sockets
<1> QED
  BY <1>3, <1>4, <1>5, <1>6

\* A gateway opens the ring it waits for, and goes on.
LEMMA OpenRingInv ==
    ASSUME IInv, NEW g \in Gateways, NEW r \in Rings, OpenRing(g, r)
    PROVE  IInv'
<1> USE DEF IInv
<1>1. /\ WaitsFor(g, r)
      /\ ring[r] # "absent"
      /\ mapped' = [mapped EXCEPT ![g][r] = maker[r]]
      /\ attempts' = [attempts EXCEPT ![g] = 0]
      /\ \E to \in {"wait_resp", "ready", "connect"} :
             /\ gpc' = [gpc EXCEPT ![g] = to]
             /\ to = "wait_resp" <=> r = "req"
      /\ UNCHANGED <<transport, ring, maker, socket, run, bpc, making, backlog, client,
                     starts, peer, fds>>
  BY DEF OpenRing, Goto, files, backend
<1>2. TypeOK'
  <2>1. mapped' \in [Gateways -> [Rings -> 0 .. MaxStarts]]
    <3>1. /\ mapped[g] \in [Rings -> 0 .. MaxStarts] /\ maker[r] \in 0 .. MaxStarts
          /\ mapped' = [mapped EXCEPT ![g] = [mapped[g] EXCEPT ![r] = maker[r]]]
      BY <1>1 DEF TypeOK
    <3>2. [mapped[g] EXCEPT ![r] = maker[r]] \in [Rings -> 0 .. MaxStarts]
      BY <3>1
    <3> QED
      BY <3>1, <3>2 DEF TypeOK
  <2>2. /\ attempts' \in [Gateways -> 0 .. Attempts]
        /\ gpc' \in [Gateways -> {"down", "wait_req", "wait_resp", "connect", "recv_request_event",
                              "recv_response_event", "ready", "failed", "killed"}]
    BY <1>1, ConstantsOK DEF ConstantsOK, TypeOK
  <2> QED
    BY <1>1, <2>1, <2>2 DEF TypeOK
<1>3. Files'
  BY <1>1 DEF Files
<1>4. Mappings'
  <2>1. \A h \in Gateways \ {g} : /\ mapped'[h] = mapped[h] /\ attempts'[h] = attempts[h]
                                  /\ gpc'[h] = gpc[h]
    BY <1>1 DEF TypeOK
  <2>2. /\ mapped'[g][r] = maker[r]
        /\ \A q \in Rings \ {r} : mapped'[g][q] = mapped[g][q]
        /\ attempts'[g] = 0
    BY <1>1 DEF TypeOK
  <2>3. peer[g] = 0
    BY <1>1 DEF WaitsFor, Mappings
  <2>4. CASE r = "req"
    <3>1. gpc'[g] = "wait_resp"
      BY <1>1, <2>4 DEF TypeOK
    <3> QED
      BY <1>1, <2>1, <2>2, <2>3, <2>4, <3>1, ConstantsOK DEF ConstantsOK, Mappings
  <2>5. CASE r = "resp"
    <3>1. gpc[g] = "wait_resp" /\ gpc'[g] \in {"ready", "connect"}
      BY <1>1, <2>5 DEF WaitsFor, TypeOK
    <3>2. mapped[g]["req"] = maker["req"]
      BY <3>1 DEF Mappings
    <3>3. \A q \in Rings : mapped'[g][q] = maker[q]
      BY <2>2, <2>5, <3>2 DEF Rings
    <3> QED
      BY <1>1, <2>1, <2>2, <2>3, <2>5, <3>1, <3>3 DEF Mappings
  <2> QED
    BY <2>4, <2>5 DEF Rings
<1>5. Sockets'
  BY <1>1 DEF WaitsFor, TypeOK, Sockets, Gone, Connection
<1> QED
  BY <1>2, <1>3, <1>4, <1>5

\* A gateway misses the ring it waits for: it tries again, or gives up.
LEMMA MissRingInv ==
    ASSUME IInv, NEW g \in Gateways, NEW r \in Rings, MissRing(g, r)
    PROVE  IInv'
<1>1. /\ gpc[g] \in {"wait_req", "wait_resp"}
      /\ attempts' = [attempts EXCEPT ![g] = attempts[g] + 1]
      /\ Goto(g, IF attempts'[g] >= Attempts THEN "failed" ELSE gpc[g])
      /\ UNCHANGED <<transport, files, backend, starts, mapped, peer, fds>>
  BY DEF MissRing, WaitsFor, Counted, GivesUp, IInv, TypeOK
<1>2. /\ attempts' \in [Gateways -> 0 .. Attempts]
      /\ attempts'[g] = attempts[g] + 1
      /\ \A h \in Gateways \ {g} : attempts'[h] = attempts[h]
  BY <1>1, ConstantsOK DEF ConstantsOK, IInv, TypeOK, Mappings
<1>3. CASE attempts'[g] >= Attempts
  BY <1>1, <1>2, <1>3, GatewayLeavesInv DEF OnlyMoves
<1>4. CASE ~(attempts'[g] >= Attempts)
  <2>1. UNCHANGED <<transport, ring, maker, socket, run, bpc, making, backlog, client,
                    starts, gpc, mapped, peer, fds>>
    BY <1>1, <1>4 DEF Goto, files, backend, IInv, TypeOK
  <2>2. attempts'[g] < Attempts
    BY <1>2, <1>4, ConstantsOK DEF ConstantsOK
  <2>3. TypeOK' /\ Files'
    BY <1>2, <2>1 DEF IInv, TypeOK, Files
  <2>4. Mappings'
    BY <1>2, <2>1, <2>2 DEF IInv, Mappings
  <2>5. Sockets'
    BY <2>1 DEF IInv, Sockets, Gone, Connection
  <2> QED
    BY <2>3, <2>4, <2>5 DEF IInv
<1> QED
  BY <1>3, <1>4

\* A gateway connects: its rings are those of the backend that listens.
LEMMA ConnectInv ==
    ASSUME IInv, NEW g \in Gateways, Connect(g)
    PROVE  IInv'
<1> USE DEF IInv
<1>1. /\ gpc[g] = "connect"
      /\ Listening
      /\ backlog' = Append(backlog, Connection(g))
      /\ peer' = [peer EXCEPT ![g] = run]
      /\ \E to \in {"ready", "recv_request_event"} : gpc' = [gpc EXCEPT ![g] = to]
      /\ UNCHANGED <<transport, ring, maker, socket, run, bpc, making, client,
                     starts, attempts, mapped, fds>>
  BY DEF Connect, Goto, files
<1> DEFINE C == Gateways \X (1 .. MaxStarts)
<1>2. /\ Connection(g) \in C /\ Connection(g) # None
      /\ ~In(backlog, Connection(g)) /\ client # Connection(g) /\ fds[g] = 0
  BY <1>1, NoConnection DEF Sockets, Gone
<1>3. /\ backlog' \in Seq(C)
      /\ Unique(backlog')
      /\ \A x : In(backlog', x) <=> In(backlog, x) \/ x = Connection(g)
  <2>1. backlog \in Seq(C) /\ Unique(backlog)
    BY LenProperties DEF TypeOK, Unique, IsInjective
  <2> HIDE DEF C
  <2> QED
    BY <1>1, <1>2, <2>1, AppendQueue
<1>4. IsInjective(backlog')
  BY <1>3, LenProperties DEF Unique, IsInjective
<1>5. TypeOK'
  BY <1>1, <1>3, <1>4 DEF TypeOK
<1>6. Files'
  BY <1>1 DEF Files
<1>7. Mappings'
  <2>1. \A r \in Rings : mapped[g][r] = run
    BY <1>1 DEF Listening, Mappings, Files, Built, Rings
  <2>2. /\ peer'[g] = run
        /\ \A h \in Gateways \ {g} : peer'[h] = peer[h] /\ gpc'[h] = gpc[h]
        /\ gpc'[g] \in {"ready", "recv_request_event"}
    BY <1>1 DEF TypeOK
  <2> QED
    BY <1>1, <2>1, <2>2 DEF Mappings
<1>8. Sockets'
  <2>1. /\ \A h \in Gateways : Connection(h)' = Connection(h)
        /\ \A h \in Gateways \ {g} : Connection(h) # Connection(g) /\ gpc'[h] = gpc[h]
        /\ gpc'[g] \in {"ready", "recv_request_event"}
    BY <1>1 DEF TypeOK, Connection
  <2>2. \A h \in Gateways : ~Gone(h)' => ~Gone(h)
    BY <1>1, <2>1 DEF Gone
  <2>3. \A h \in Gateways : \A n \in 1 .. MaxStarts :
            <<h, n>> = Connection(g) => n <= starts[h]
    BY DEF Connection, TypeOK
  <2> HIDE DEF IInv
  <2>4. /\ ~In(backlog', client')
        /\ bpc' \in {"send_request_event", "send_response_event"} => client' # None
    BY <1>1, <1>2, <1>3 DEF IInv, Sockets
  <2>5. \A h \in Gateways : \A n \in 1 .. MaxStarts :
           In(backlog', <<h, n>>) \/ client' = <<h, n>> => n <= starts'[h]
    BY <1>1, <1>3, <2>3 DEF IInv, Sockets
  <2>6. \A h \in Gateways :
           /\ ~Gone(h)' => starts'[h] > 0
           /\ gpc'[h] \in {"wait_req", "wait_resp", "connect"} =>
                  fds'[h] = 0 /\ ~In(backlog', Connection(h)') /\ client' # Connection(h)'
           /\ In(backlog', Connection(h)') => fds'[h] = 0
           /\ client' = Connection(h)' =>
                  /\ bpc' = "send_request_event" => fds'[h] = 0
                  /\ bpc' = "send_response_event" => fds'[h] <= 1
    BY <1>1, <1>2, <1>3, <2>1, <2>2 DEF IInv, Sockets
  <2> QED
    BY <2>4, <2>5, <2>6 DEF Sockets
<1> QED
  BY <1>5, <1>6, <1>7, <1>8

\* A gateway receives an eventfd.
LEMMA ReceiveEventfdInv ==
    ASSUME IInv, NEW g \in Gateways,
           \/ ReceiveEventfd(g, "recv_request_event", "recv_response_event")
           \/ ReceiveEventfd(g, "recv_response_event", "ready")
    PROVE  IInv'
<1> USE DEF IInv
<1>1. /\ gpc[g] \in {"recv_request_event", "recv_response_event"}
      /\ \E to \in {"recv_response_event", "ready"} : gpc' = [gpc EXCEPT ![g] = to]
      /\ fds[g] > 0
      /\ fds' = [fds EXCEPT ![g] = @ - 1]
      /\ UNCHANGED <<transport, ring, maker, socket, run, bpc, making, backlog, client,
                     starts, attempts, mapped, peer>>
  BY DEF ReceiveEventfd, Goto, files, backend
<1>2. TypeOK'
  BY <1>1 DEF TypeOK
<1>3. Files'
  BY <1>1 DEF Files
<1>4. Mappings'
  BY <1>1 DEF TypeOK, Mappings
<1>5. Sockets'
  <2>1. /\ fds[g] \in 0 .. 2 /\ fds'[g] \in 0 .. fds[g]
        /\ gpc'[g] \in {"recv_response_event", "ready"}
        /\ \A h \in Gateways \ {g} : fds'[h] = fds[h] /\ gpc'[h] = gpc[h]
    BY <1>1 DEF TypeOK
  <2>2. \A h \in Gateways : Connection(h)' = Connection(h) /\ (~Gone(h)' => ~Gone(h))
    BY <1>1, <2>1 DEF Gone, Connection
  <2>3. \A h \in Gateways : fds[h] \in 0 .. 2
    BY DEF TypeOK
  <2> HIDE DEF IInv
  <2>4. /\ ~In(backlog', client')
        /\ bpc' \in {"send_request_event", "send_response_event"} => client' # None
        /\ \A h \in Gateways : \A n \in 1 .. MaxStarts :
               In(backlog', <<h, n>>) \/ client' = <<h, n>> => n <= starts'[h]
    BY <1>1 DEF IInv, Sockets
  <2>5. \A h \in Gateways :
           /\ ~Gone(h)' => starts'[h] > 0
           /\ gpc'[h] \in {"wait_req", "wait_resp", "connect"} =>
                  fds'[h] = 0 /\ ~In(backlog', Connection(h)') /\ client' # Connection(h)'
           /\ In(backlog', Connection(h)') => fds'[h] = 0
           /\ client' = Connection(h)' =>
                  /\ bpc' = "send_request_event" => fds'[h] = 0
                  /\ bpc' = "send_response_event" => fds'[h] <= 1
    BY <1>1, <2>1, <2>2, <2>3 DEF IInv, Sockets
  <2> QED
    BY <2>4, <2>5 DEF Sockets
<1> QED
  BY <1>2, <1>3, <1>4, <1>5

\* The scripts remove the rings when nobody is left.
LEMMA CleanUpInv == IInv /\ CleanUp => IInv'
<1> SUFFICES ASSUME IInv, CleanUp PROVE IInv'
  OBVIOUS
<1> USE DEF IInv
<1>1. /\ bpc = "down" /\ \A g \in Gateways : Gone(g)
      /\ ring' = [r \in Rings |-> "absent"]
      /\ maker' = [r \in Rings |-> 0]
      /\ socket' \in {socket, 0}
      /\ UNCHANGED <<transport, run, bpc, making, backlog, client,
                     starts, gpc, attempts, mapped, peer, fds>>
  BY DEF CleanUp, NobodyLeft, backend, gateways
<1>2. TypeOK'
  BY <1>1, ConstantsOK DEF ConstantsOK, TypeOK
<1>3. Files'
  BY <1>1 DEF Files, Building, Built, Rings
<1>4. Mappings'
  BY <1>1 DEF Gone, Mappings
<1>5. Sockets'
  BY <1>1 DEF Sockets, Gone, Connection
<1> QED
  BY <1>2, <1>3, <1>4, <1>5

\* Every step keeps the invariant.
LEMMA NextInv == IInv /\ [Next]_vars => IInv'
<1> SUFFICES ASSUME IInv, [Next]_vars PROVE IInv'
  OBVIOUS
<1>1. CASE BackendSteps
  BY <1>1, DownInv, CreateRingInv, MakeRingInv, SocketInv, AcceptInv, SendEventfdInv
  DEF BackendSteps, FailSend
<1>2. CASE BackendStarts \/ BackendEnds \/ CleanUp
  BY <1>2, BackendStartsInv, DownInv, CleanUpInv DEF BackendEnds
<1>3. ASSUME NEW g \in Gateways,
             FailConnect(g) \/ FailReceive(g) \/ GatewayEnds(g)
                 \/ \E r \in Rings : FaultRing(g, r)
      PROVE  IInv'
  <2>1. /\ Goto(g, "failed") \/ Goto(g, "killed") \/ Goto(g, "down")
        /\ UNCHANGED <<transport, files, backend, starts, attempts, mapped, peer, fds>>
    BY <1>3 DEF FailConnect, FailReceive, GatewayEnds, FaultRing
  <2>2. attempts' \in [Gateways -> 0 .. Attempts] /\ OnlyMoves(Gateways, attempts, attempts', g)
    BY <2>1 DEF IInv, TypeOK, OnlyMoves
  <2>3. UNCHANGED <<transport, files, backend, starts, mapped, peer, fds>>
    BY <2>1
  <2> QED
    BY <2>1, <2>2, <2>3, GatewayLeavesInv
<1>4. ASSUME NEW g \in Gateways, GatewaySteps(g) PROVE IInv'
  BY <1>3, <1>4, OpenRingInv, MissRingInv, ConnectInv, ReceiveEventfdInv DEF GatewaySteps
<1>5. CASE UNCHANGED vars
  <2>1. UNCHANGED <<transport, ring, maker, socket, run, bpc, making, backlog, client,
                    starts, gpc, attempts, mapped, peer, fds>>
    BY <1>5 DEF vars, files, backend, gateways
  <2>2. TypeOK' /\ Files'
    BY <2>1 DEF IInv, TypeOK, Files
  <2>3. Mappings'
    BY <2>1 DEF IInv, Mappings
  <2>4. Sockets'
    BY <2>1 DEF IInv, Sockets, Gone, Connection
  <2> QED
    BY <2>2, <2>3, <2>4 DEF IInv
<1> QED
  BY <1>1, <1>2, <1>3, <1>4, <1>5, GatewayStartsInv DEF Next

\* The invariant is one of every reachable state.
THEOREM SetupInvariance == Spec => []IInv
BY InitInv, NextInv, PTL DEF Spec

-----------------------------------------------------------------------------
\* The variables of the start-up have their types: no connection is twice in a
\* backlog, no more than two eventfds are on their way to a gateway, and no
\* gateway tries more often than wait_for_shm lets it.
THEOREM SetupTypes == Spec => []TypeOK
<1>1. IInv => TypeOK
  BY DEF IInv
<1> QED
  BY <1>1, SetupInvariance, PTL

\* A gateway works on the rings of the backend it is connected to, both of one
\* run, for any number of gateways and of restarts.
THEOREM GatewayHasRingsOfItsBackend == Spec => []RingsOfItsBackend
<1>1. IInv => RingsOfItsBackend
  BY DEF IInv, Mappings, Files, RingsOfItsBackend, Rings
<1> QED
  BY <1>1, SetupInvariance, PTL

\* The request ring has its whole header when a gateway writes to it, although
\* open() looks at the magic number only.
THEOREM RequestRingComplete == Spec => []HeaderCompleteWhenUsed
<1>1. IInv => HeaderCompleteWhenUsed
  BY DEF IInv, TypeOK, Mappings, Files, HeaderCompleteWhenUsed, Gone
<1> QED
  BY <1>1, SetupInvariance, PTL

\* No step writes the header of a ring that is complete.
THEOREM HeaderWrittenOnce == Spec => NeverReinitialised
<1> DEFINE Kept == \A r \in Rings : ring[r] = "ready" => ring'[r] \in {"ready", "absent"}
<1>1. IInv /\ [Next]_vars => [Kept]_vars
  <2> SUFFICES ASSUME IInv, [Next]_vars PROVE [Kept]_vars
    OBVIOUS
  <2>1. CASE CreateRing \/ SizeRing \/ StoreField \/ InitRing
    BY <2>1 DEF IInv, TypeOK, Files, CreateRing, MayCreate, SizeRing, StoreField, InitRing
  <2>2. CASE CleanUp
    BY <2>2 DEF CleanUp
  <2>3. Next => \/ CreateRing \/ SizeRing \/ StoreField \/ InitRing \/ CleanUp
                \/ UNCHANGED ring
    BY DEF Next, BackendSteps, GatewaySteps, BackendStarts, FailCreate, RemoveSocket, BindSocket,
       Accept, SendEventfd, FailSend, BackendEnds, Down, GatewayStarts, OpenRing, MissRing,
       FaultRing, Connect, FailConnect, ReceiveEventfd, FailReceive, GatewayEnds, files
  <2> QED
    BY <2>1, <2>2, <2>3
<1> QED
  BY <1>1, SetupInvariance, PTL DEF Spec, NeverReinitialised
=============================================================================
