----------------------------- MODULE ShmSetup -----------------------------
(***************************************************************************)
(* How a backend and its gateways find each other: the creation of the     *)
(* rings (SharedMemoryRingBuffer::create, shared-memory/src/shm.rs), the   *)
(* gateways' wait for them (open and wait_for_shm), and the connection     *)
(* over a Unix socket that carries the notification bytes or, once, the    *)
(* two eventfds.  Processes end at any step and are started again; the     *)
(* files in /dev/shm and /tmp stay behind, and the scripts remove those in *)
(* /dev/shm when no process is left.                                       *)
(*                                                                         *)
(* A gateway makes at most Attempts attempts to open each ring (51 in the  *)
(* code, 100 ms apart).  A ring that exists and has not got its size yet   *)
(* is mapped all the same (memmap2 maps at least one byte), and the first  *)
(* look at its header is an access beyond the end of the file: SIGBUS.     *)
(* The header is written field by field with plain stores while gateways   *)
(* may look at it: the capacity and the magic number, the fields that are  *)
(* not zero, become visible in either order.                               *)
(***************************************************************************)
EXTENDS Integers, Sequences, SequencesExt, FiniteSets

CONSTANTS
    Transports,  \* those considered, of "polling", "uds" and "eventfd"
    Gateways,    \* gateway processes
    MaxStarts,   \* bound: how often the backend, and each gateway, is started
    Attempts,    \* attempts to open a ring before a gateway gives up
    MayEnd,      \* may processes end once started?
    None         \* "no connection"

ASSUME ConstantsOK ==
    /\ Transports \subseteq {"polling", "uds", "eventfd"}
    /\ IsFiniteSet(Gateways)
    /\ MaxStarts \in Nat \ {0}
    /\ Attempts \in Nat \ {0}
    /\ MayEnd \in BOOLEAN
    /\ None \notin Gateways \X (1 .. MaxStarts)

VARIABLES
    transport,  \* the --transport option of both programs
    \* In /dev/shm and /tmp:
    ring,       \* ring[r]: "absent", "empty", "zeroed" (no header yet), "capacity" or
                \* "magic" (one field of the header is visible), "ready"
    maker,      \* maker[r]: the run of the backend that created r, 0 for none
    socket,     \* the run of the backend that bound the socket's path, 0 for none
    \* The backend:
    run,        \* number of times it has been started
    bpc,        \* its next step
    making,     \* the ring it is creating
    backlog,    \* connections to it that it has not accepted
    client,     \* the connection it has accepted, or None
    \* Each gateway:
    starts,     \* starts[g]: number of times it has been started
    gpc,        \* gpc[g]: its next step
    attempts,   \* attempts[g]: failed attempts to open the ring it waits for
    mapped,     \* mapped[g][r]: the maker of the ring it has mapped, 0 for none
    peer,       \* peer[g]: the run of the backend it has connected to, 0 for none
    fds         \* fds[g]: eventfds sent to it and not yet received

files == <<ring, maker, socket>>
backend == <<run, bpc, making, backlog, client>>
gateways == <<starts, gpc, attempts, mapped, peer, fds>>
vars == <<transport, files, backend, gateways>>

Rings == {"req", "resp"}  \* <name>_req_buf and <name>_resp_buf

\* The ring that the backend creates first.
BadFirstRing == "resp"
FirstRing == "req"

\* A connection is named by the run of the gateway that made it; it is closed
\* when that process is gone.
Connection(g) == <<g, starts[g]>>
Gone(g) == gpc[g] \in {"down", "failed", "killed"}
Closed(conn) == conn # Connection(conn[1]) \/ Gone(conn[1])

NothingMapped == [r \in Rings |-> 0]

Init ==
    /\ transport \in Transports
    /\ ring = [r \in Rings |-> "absent"]
    /\ maker = [r \in Rings |-> 0]
    /\ socket = 0
    /\ run = 0
    /\ bpc = "down"
    /\ making = FirstRing
    /\ backlog = <<>>
    /\ client = None
    /\ starts = [g \in Gateways |-> 0]
    /\ gpc = [g \in Gateways |-> "down"]
    /\ attempts = [g \in Gateways |-> 0]
    /\ mapped = [g \in Gateways |-> NothingMapped]
    /\ peer = [g \in Gateways |-> 0]
    /\ fds = [g \in Gateways |-> 0]

-----------------------------------------------------------------------------
\* The backend.

BackendStarts ==
    /\ bpc = "down"
    /\ run < MaxStarts
    /\ run' = run + 1
    /\ bpc' = "create"
    /\ making' = FirstRing
    /\ UNCHANGED <<transport, files, backlog, client, gateways>>

\* shm_open with O_CREAT | O_EXCL.
BadMayCreate(r) == TRUE
MayCreate(r) == ring[r] = "absent"

\* EEXIST: a ring of that name is there, and the process exits.
FailCreate ==
    /\ bpc = "create"
    /\ ~MayCreate(making)
    /\ bpc' = "down"
    /\ UNCHANGED <<transport, files, run, making, backlog, client, gateways>>

CreateRing ==
    /\ bpc = "create"
    /\ MayCreate(making)
    /\ ring' = [ring EXCEPT ![making] = "empty"]
    /\ maker' = [maker EXCEPT ![making] = run]
    /\ bpc' = "truncate"
    /\ UNCHANGED <<transport, socket, run, making, backlog, client, gateways>>

\* ftruncate: the pages are zero.
SizeRing ==
    /\ bpc = "truncate"
    /\ ring' = [ring EXCEPT ![making] = "zeroed"]
    /\ bpc' = "header"
    /\ UNCHANGED <<transport, maker, socket, run, making, backlog, client, gateways>>

\* header.write: two stores that others may see in either order.
StoreField ==
    /\ bpc = "header"
    /\ \E field \in {"capacity", "magic"} : ring' = [ring EXCEPT ![making] = field]
    /\ bpc' = "other_field"
    /\ UNCHANGED <<transport, maker, socket, run, making, backlog, client, gateways>>

\* The ring is ready, and the next thing is made.
InitRing ==
    /\ bpc = "other_field"
    /\ ring' = [ring EXCEPT ![making] = "ready"]
    /\ making' \in Rings \ {FirstRing}
    /\ bpc' = IF making = FirstRing THEN "create"
              ELSE IF transport = "polling" THEN "serve" ELSE "unlink"
    /\ UNCHANGED <<transport, maker, socket, run, backlog, client, gateways>>

\* remove_file: the path of an earlier run goes away.
RemoveSocket ==
    /\ bpc = "unlink"
    /\ socket' = 0
    /\ bpc' = "bind"
    /\ UNCHANGED <<transport, ring, maker, run, making, backlog, client, gateways>>

BindSocket ==
    /\ bpc = "bind"
    /\ socket' = run
    /\ bpc' = "accept"
    /\ UNCHANGED <<transport, ring, maker, run, making, backlog, client, gateways>>

\* accept() is called once: the first gateway that connects is the only one.
Accept ==
    /\ bpc = "accept"
    /\ backlog # <<>>
    /\ client' = Head(backlog)
    /\ backlog' = Tail(backlog)
    /\ bpc' = IF transport = "uds" THEN "serve" ELSE "send_request_event"
    /\ UNCHANGED <<transport, files, run, making, gateways>>

SendEventfd(from, to) ==
    /\ bpc = from
    /\ ~Closed(client)
    /\ bpc' = to
    /\ fds' = [fds EXCEPT ![client[1]] = @ + 1]
    /\ UNCHANGED <<transport, files, run, making, backlog, client>>
    /\ UNCHANGED <<starts, gpc, attempts, mapped, peer>>

Down ==
    /\ bpc' = "down"
    /\ backlog' = <<>>
    /\ client' = None
    /\ UNCHANGED <<transport, files, run, making, gateways>>

\* sendmsg fails (EPIPE): run() returns the error, the process exits.
FailSend ==
    /\ bpc \in {"send_request_event", "send_response_event"}
    /\ Closed(client)
    /\ Down

\* An error, ctrl-c or a kill: the sockets close, nothing is removed.
BackendEnds ==
    /\ MayEnd
    /\ bpc # "down"
    /\ Down

-----------------------------------------------------------------------------
\* A gateway.

Goto(g, to) == gpc' = [gpc EXCEPT ![g] = to]

GatewayStarts(g) ==
    /\ Gone(g)
    /\ starts[g] < MaxStarts
    /\ Goto(g, "wait_req")
    /\ starts' = [starts EXCEPT ![g] = @ + 1]
    /\ attempts' = [attempts EXCEPT ![g] = 0]
    /\ mapped' = [mapped EXCEPT ![g] = NothingMapped]
    /\ peer' = [peer EXCEPT ![g] = 0]
    /\ fds' = [fds EXCEPT ![g] = 0]
    /\ UNCHANGED <<transport, files, backend>>

WaitsFor(g, r) ==
    \/ gpc[g] = "wait_req" /\ r = "req"
    \/ gpc[g] = "wait_resp" /\ r = "resp"

\* open() looks at the magic number only.
OpenRing(g, r) ==
    /\ WaitsFor(g, r)
    /\ ring[r] \in {"magic", "ready"}
    /\ mapped' = [mapped EXCEPT ![g][r] = maker[r]]
    /\ attempts' = [attempts EXCEPT ![g] = 0]
    /\ Goto(g, IF r = "req" THEN "wait_resp"
               ELSE IF transport = "polling" THEN "ready" ELSE "connect")
    /\ UNCHANGED <<transport, files, backend, starts, peer, fds>>

\* ENOENT, or a header without the magic number: try again, or give up.
BadCounted(n) == 1
Counted(n) == n + 1

BadGivesUp(n) == n > Attempts
GivesUp(n) == n >= Attempts

MissRing(g, r) ==
    /\ WaitsFor(g, r)
    /\ ring[r] \in {"absent", "zeroed", "capacity"}
    /\ attempts' = [attempts EXCEPT ![g] = Counted(@)]
    /\ Goto(g, IF GivesUp(attempts'[g]) THEN "failed" ELSE gpc[g])
    /\ UNCHANGED <<transport, files, backend, starts, mapped, peer, fds>>

\* The header of a file of no bytes: SIGBUS.
FaultRing(g, r) ==
    /\ WaitsFor(g, r)
    /\ ring[r] = "empty"
    /\ Goto(g, "killed")
    /\ UNCHANGED <<transport, files, backend, starts, attempts, mapped, peer, fds>>

Listening == socket = run /\ bpc \in {"accept", "send_request_event", "send_response_event", "serve"}

Connect(g) ==
    /\ gpc[g] = "connect"
    /\ Listening
    /\ backlog' = Append(backlog, Connection(g))
    /\ peer' = [peer EXCEPT ![g] = run]
    /\ Goto(g, IF transport = "uds" THEN "ready" ELSE "recv_request_event")
    /\ UNCHANGED <<transport, files, run, bpc, making, client, starts, attempts, mapped, fds>>

\* ENOENT or ECONNREFUSED: connect is tried once, the process exits.
FailConnect(g) ==
    /\ gpc[g] = "connect"
    /\ ~Listening
    /\ Goto(g, "failed")
    /\ UNCHANGED <<transport, files, backend, starts, attempts, mapped, peer, fds>>

ReceiveEventfd(g, from, to) ==
    /\ gpc[g] = from
    /\ fds[g] > 0
    /\ fds' = [fds EXCEPT ![g] = @ - 1]
    /\ Goto(g, to)
    /\ UNCHANGED <<transport, files, backend, starts, attempts, mapped, peer>>

\* The end of the stream: "No file descriptor received".
FailReceive(g) ==
    /\ gpc[g] \in {"recv_request_event", "recv_response_event"}
    /\ fds[g] = 0
    /\ client # Connection(g)
    /\ ~Contains(backlog, Connection(g))
    /\ Goto(g, "failed")
    /\ UNCHANGED <<transport, files, backend, starts, attempts, mapped, peer, fds>>

GatewayEnds(g) ==
    /\ MayEnd
    /\ ~Gone(g)
    /\ Goto(g, "down")
    /\ UNCHANGED <<transport, files, backend, starts, attempts, mapped, peer, fds>>

-----------------------------------------------------------------------------
\* scripts/: kill both programs, then rm -f /dev/shm/<name>_*, and, but for
\* run_shm.sh, the socket's path.  The kill is over before anything is started
\* again (sleep 2), so that nobody is left who uses the files: an assumption,
\* as the rm does not wait, and a user may do it while the programs run
\* (scripts/README.md).
BadNobodyLeft == bpc = "down"
NobodyLeft == bpc = "down" /\ \A g \in Gateways : Gone(g)

CleanUp ==
    /\ NobodyLeft
    /\ ring' = [r \in Rings |-> "absent"]
    /\ maker' = [r \in Rings |-> 0]
    /\ socket' \in {socket, 0}
    /\ UNCHANGED <<transport, backend, gateways>>

-----------------------------------------------------------------------------
BackendSteps ==
    \/ FailCreate \/ CreateRing \/ SizeRing \/ StoreField \/ InitRing
    \/ RemoveSocket \/ BindSocket \/ Accept
    \/ SendEventfd("send_request_event", "send_response_event")
    \/ SendEventfd("send_response_event", "serve")
    \/ FailSend

GatewaySteps(g) ==
    \/ \E r \in Rings : OpenRing(g, r) \/ MissRing(g, r) \/ FaultRing(g, r)
    \/ Connect(g)
    \/ FailConnect(g)
    \/ ReceiveEventfd(g, "recv_request_event", "recv_response_event")
    \/ ReceiveEventfd(g, "recv_response_event", "ready")
    \/ FailReceive(g)

Next ==
    \/ BackendStarts \/ BackendSteps \/ BackendEnds
    \/ \E g \in Gateways : GatewayStarts(g) \/ GatewaySteps(g) \/ GatewayEnds(g)
    \/ CleanUp

Spec == Init /\ [][Next]_vars

\* A process that runs goes on; none need be started, nor end.
Fairness == WF_vars(BackendSteps) /\ \A g \in Gateways : WF_vars(GatewaySteps(g))

FairSpec == Spec /\ Fairness

-----------------------------------------------------------------------------
\* Properties.

\* The variables have their types.
TypeOK ==
    /\ transport \in Transports
    /\ ring \in [Rings -> {"absent", "empty", "zeroed", "capacity", "magic", "ready"}]
    /\ maker \in [Rings -> 0 .. MaxStarts]
    /\ socket \in 0 .. MaxStarts
    /\ run \in 0 .. MaxStarts
    /\ bpc \in {"down", "create", "truncate", "header", "other_field", "unlink", "bind",
                "accept", "send_request_event", "send_response_event", "serve"}
    /\ making \in Rings
    /\ backlog \in Seq(Gateways \X (1 .. MaxStarts)) /\ IsInjective(backlog)
    /\ client \in (Gateways \X (1 .. MaxStarts)) \union {None}
    /\ starts \in [Gateways -> 0 .. MaxStarts]
    /\ gpc \in [Gateways -> {"down", "wait_req", "wait_resp", "connect", "recv_request_event",
                              "recv_response_event", "ready", "failed", "killed"}]
    /\ attempts \in [Gateways -> 0 .. Attempts]
    /\ mapped \in [Gateways -> [Rings -> 0 .. MaxStarts]]
    /\ peer \in [Gateways -> 0 .. MaxStarts]
    /\ fds \in [Gateways -> 0 .. 2]

\* The rings a gateway has mapped are those of the backend it is connected to,
\* and of one run of the backend, although /dev/shm and the socket outlive
\* their processes and a gateway opens the two rings one after the other.
RingsOfItsBackend ==
    \A g \in Gateways :
        /\ peer[g] # 0 => \A r \in Rings : mapped[g][r] = peer[g]
        /\ gpc[g] = "ready" => mapped[g]["req"] = mapped[g]["resp"]

\* A gateway may open a ring before its capacity is visible, or a ring whose
\* backend was killed at that point, but the ring it writes requests to is
\* complete by the time it does: the backend creates it first, and the gateway
\* waits for the other one too.  (Nothing of the kind protects the response
\* ring, whose capacity the gateway needs once there is a message in it.)
HeaderCompleteWhenUsed ==
    \A g \in Gateways :
        ~Gone(g) /\ gpc[g] \notin {"wait_req", "wait_resp"} => ring["req"] = "ready"

\* O_EXCL: the header of a ring is written once.  A backend that is started
\* again does not reset the positions under a gateway that has it mapped.
NeverReinitialised ==
    [][\A r \in Rings : ring[r] = "ready" => ring'[r] \in {"ready", "absent"}]_vars

\* A gateway that is started gets ready or exits, whichever processes end and
\* are started again meanwhile, unless the backend it is connected to has
\* accepted another gateway.
SetupEnds ==
    \A g \in Gateways :
        gpc[g] = "wait_req" ~> \/ Gone(g) \/ gpc[g] = "ready"
                               \/ client \notin {None, Connection(g)}

\* "Wait for backend to create the shared memory" (transport.rs): the wait
\* ends with the rings or with an error, not with the death of the gateway.
NoFault == \A g \in Gateways : gpc[g] # "killed"
=============================================================================
