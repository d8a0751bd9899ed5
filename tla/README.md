# Gateway-gRPC in TLA+

Models, model-checking runs and machine-checked proofs for the gateway, the
backend and the shared-memory library in `src/`. Paths below are relative to
the repository; line numbers are in `PROJECT.json`.

    tlc -workers 2 -config MCRingBuffer.cfg MCRingBuffer     model-check
    tlapm RingBufferProofs.tla                               check the proofs

and the same for the other proof modules: `ShmEventfdProofs`, `ShmUdsProofs`,
`ShmPollingProofs`, `ShmSetupProofs`, `GrpcProofs`, `AtomicCountersProofs` and the
`QueueLemmas` that five of them use.

## 1. The system

A gateway accepts HTTP requests and passes each to a backend through one of five
`--transport` options: two gRPC transports (TCP, Unix socket) and three that
exchange messages through two ring buffers in shared memory, one for requests
and one for responses, and differ in how a message is announced.

    HTTP client -> handle_request -> Transport::call
                                        |  request ring  -> backend: one task per
                                        |                   request (polling: one loop)
                                        <- response ring <-

| Component | State | Operations | What is hard | What makes it correct |
|---|---|---|---|---|
| Ring buffer (`shared-memory/src/shm.rs`) | `write_pos`, `read_pos` and the bytes, shared by two processes; a mutex per direction, private to each process | `create`, `open`, `write`, `read`, drop | two processes copy and publish with no lock in common; positions wrap; a frame may straddle the end | bounded FIFO; no byte touched from both sides; published frames intact |
| eventfd transport (`gateway/src/shm_transport_eventfd.rs`, `backend/src/shm_server_eventfd.rs`) | the rings, two eventfd counts, `pending_requests`, a oneshot channel per call, a task per request | `call`, response listener, server loop, tasks | a count is taken whole while others write and signal; a readiness flag that is cleared after the read; lost responses; no timeout | one signal per message; no signal lost; own response; answered unless lost |
| UDS transport (`shm_transport_uds.rs`, `shm_server_uds.rs`) | the same with bytes on a socket, a lock around each write half | the same | calls dropped between write and byte; a full socket under a lock; either process stops | bytes account for requests; no response left unannounced; own response; tasks end |
| Polling transport (`gateway/src/transport.rs`, `backend/src/main.rs`) | the rings, nothing else | `call`, `run_shm_server` | responses have no id; 30 s timeout against late responses | order of responses; every call ends |
| Start-up (`create`, `open`, `wait_for_shm`, sockets, SCM_RIGHTS) | `/dev/shm` objects, the socket path, connections | start, create, size, initialise, open, connect, accept, pass fds, end, restart, clean up | everything interleaves; files outlive processes; the header is written with plain stores | a gateway uses the rings of the backend it talks to, once they are complete; start-up ends |
| HTTP front end (`gateway/src/main.rs`) | the transport; counters; a task per connection | `handle_request`, accept loop | returns and drops between two counters; an unused limit on concurrency | counters agree with the backend's; every call ends |
| gRPC transports (`transport.rs`) | a clone of one tonic channel | `new`, `call` | a timeout against a late answer; the channel outlives its connection | one end per call |
| Pool and balancer (`transport.rs`) | an atomic counter | next entry | wrap-around | round robin |
| gRPC service (`backend/src/main.rs`) | counters; a channel of 128 and a task per stream | `echo`, `compute`, `stream_echo` | back-pressure; clients that go away; messages that cannot be decoded | a stream that ends is complete; tasks end |
| Metrics (`gateway/src/metrics.rs`) | atomic buckets and a total | `observe`, `percentile` | total and buckets updated and read one after the other | nothing counted twice or lost; percentile between two moments |
| eventfd wrapper (`shared-memory/src/eventfd.rs`) | a descriptor number | `new`, `signal`, `wait`, drop | a descriptor that is closed early | calls act on the eventfd made for the value |
| Protocol definition, scripts | none; `/dev/shm` files removed between runs | | | |

The components interact through the rings (shared memory), through eventfds or
bytes (notifications), through HTTP/2 streams, and, inside a process, through `pending_requests` and
the oneshot channels. `PROJECT.json` lists what each can go wrong on
("hazards"), each at its line, with the property that would catch it or the reason why none does.

## 2. Modules

    MessageQueue ---- RingContract <== refined by == RingBuffer
         |
         |  (actions for their two rings)
         |
         +-- ShmEventfd ==> EchoRpc
         |       .
         |   EventFdWait ==> EventCount
         +-- ShmUds     ==> EchoRpc
         +-- ShmPolling
    ShmSetup
    GrpcCalls --+
    StreamEcho -+-- Grpc
    AtomicCounters
    EventFdTable

(`==>`: implements; dotted: `EventCount` is what `ShmEventfd` has in the place of an
eventfd.) `MC<module>` is the instance for TLC, with its `.cfg`; `EventFdWait` needs no
model values and is its own instance. `<module>Proofs` holds the theorems;
those about `EventFdWait` are with those about `ShmEventfd`, whose second half they
are, which is why its names begin with `Wait` where `ShmEventfd` has the name as
well. `QueueLemmas` is about sequences without repetitions, their order, and
counting the members of a set that are in given states.

Abstract specifications

* `MessageQueue`: what a ring promises: a bounded FIFO queue; `Write`/`Full`,
  `Read`/`Empty`/`Invalid` for the outcomes of the two calls. No behaviour of
  its own.
* `RingContract`: a specification made of it: each call takes effect at one
  instant and returns the outcome the queue has at that instant.
* `EchoRpc`: what a user of `Transport::call` relies on: a call ends at most
  once, with the response to its own request or with an error.
* `EventCount`: what `ShmEventfd` relies on in its two eventfds: a counter that
  signals increase and the one listener takes whole, at one instant.

`RingBuffer` (`shm.rs` 186-315). Memory is a function from positions to bytes,
with three cells past the end, where a straddling prefix lands (the rest of the
mapping's last page). A call is four steps: take the mutex, load the positions
and compare; prefix; payload; store the position and release. Writers and
readers interleave between them. The load of the position a call owns commutes
with the other side's steps, so both loads are one step. Memory is sequentially
consistent in the model: the code stores each position with `Release` and loads
it with `Acquire`, which orders the copies before it. The data race-freedom that this
argument needs is itself a property (`NoDataRace`). `frames` is a history variable.

`ShmEventfd`, `ShmUds`, `ShmPolling` use `MessageQueue` for their rings, in
units of one message (`Slots` messages fit). This is what `RingBuffer` is shown
to implement; messages of different sizes and the byte that stays free are its
subject, not theirs. A response is named by its call: the backend echoes the
id. A call, the backend's loop, each backend task and the gateway's listener
are separate processes. Points to know:

* eventfd: `read()` takes the whole count; the gateway's `for` loop breaks on a
  failed read and the backend's continues (`StopReading`, `SkipRequest`). The
  count is at most the number of calls, so saturation at 2^64-2 never occurs.
* UDS: which requests the backend's buffer cannot take is chosen at the start
  (`long`), so that one run covers rings that block and rings that do not. Either
  process may end, at any step; the other's `write_u8` then fails and its listener
  exits after the bytes in flight. A lock is the queue of its waiters (tokio's
  Mutex is fair) and its head holds it; a sender that finds the socket full waits
  with the lock held. The gateway drains the response ring at each byte, the
  backend reads one request per byte.
* `Cancel` and `Abandon`: hyper drops the in-flight service future when the
  client disconnects, at an `await` of the call.
* Polling: calls and loop touch a ring in one step, because no lock is held
  across an `await`. A failed poll changes nothing and is no step; nor is the drop of a call that waits for
the lock of the request ring (`transport.rs:147`), which has written nothing yet: it is a call that does not start. The busy
  loop of a call does await its mutexes, where tokio's cooperative budget makes
  it yield, so that other tasks run. `Chain` is the calls whose responses
  have come out, then those in the response ring, the one being served, and the
  requests in the ring. `InOrder` says that it is `sent` without the responses that
  were lost, in the same order; it speaks of positions in the two sequences, so that it can be
  proved without recursion.

`EventFdWait` is `wait_eventfd_async` (and the backend's `wait_eventfd`, the same
code) at the level of tokio's `AsyncFd`: `readable()`, `read()` and `clear_ready()`
are steps, signals come between any two of them, and the reactor, which is an
external part, turns edges of the eventfd into the readiness flag and its tick.
`clear_ready()` clears the flag only if the reactor has not set it since
`readable()` returned. `value` is what has been read and not returned, which counts
as taken in the refinement of `EventCount`: the eventfd is emptied by `read()`.

`ShmSetup`: `create` is four steps (object, size, and the header's capacity and magic
number in either order, since they are plain stores), `open` of an object
with no size is a `SIGBUS` (memmap2 maps at least one byte, and the header is
read through the mapping), anything else missing is another attempt. `open` looks at
the magic number only. Processes
end at any step; rings and socket path stay. The scripts in `scripts/` remove the rings and, but for `run_shm.sh`, the socket's path
(`CleanUp` may leave it). That they do so only when no process is left (`NobodyLeft`) is an
assumption, on which `RingsOfItsBackend` rests in the run and in the proof: the scripts remove the files right
after a `kill` that does not wait (`run_shm.sh:114-116`), but sleep before they start anything
again. The manual clean-up of `scripts/README.md:145-149`, `rm -f /dev/shm/backend_*`
without killing anything, is outside of it: with a backend that still runs, a new one
makes new rings, and a gateway can then have those of the one and the connection of the
other. The mutant of `RingsOfItsBackend` is a removal that does not look at the gateways.

`GrpcCalls`: `handle_request` over `TcpTransport` or `UdsTransport` (the same code
over two kinds of socket), `echo`, and the six counters that the programs export. tonic
is external: one connection shared by the clones of the client, whose end is
noticed after a while; a stream for each call; the timeout of the endpoint, which may fire at any moment of a call (`TimeOut`) and need not; a broken stream, which fails its call (`BreakCall`); the reset of the stream of a call that has ended.
Bodies and their parsing are left out, as they have no effect on control:
every body makes a request.

`StreamEcho`: one call of `stream_echo`, with its task, its channel, the server
that empties it, and a client that sends, finishes, receives or goes away. Messages are
numbers. `Grpc` puts both in one process, whose end breaks both.

`AtomicCounters`: `observe` and `percentile` with a step for each atomic operation (the
total, then the bucket; the total, then bucket after bucket), and `get` of
the pool, whose one `fetch_add` is its only step. Atomic operations on different
variables are `Relaxed`; the model lets the threads see them in the order of
their code, which is what x86-64 does for read-modify-writes; on a weaker machine the
loads of `percentile` may see a bucket before the total it was counted in, and
`PercentileBracketed`'s second part then relates to an earlier moment.

`EventFdTable`: the descriptor table of a process, with the lowest free
number given out first; other parts of the process open files too.

## 3. What the runs check

Passing runs (all properties hold):

| Run | Instance | Shows |
|---|---|---|
| `ring_fifo` | 2 writing + 2 reading threads, capacity 24, frames of 8, 12 and 16 bytes, a buffer of 8 that the longest payload does not fit | `TypeOK`, no data race, frames intact, frames tile the used region, reads hand out the oldest message; the ring implements `RingContract`, in which a message that cannot be read stays at the head |
| `eventfd_calls` | 4 calls, 2 slots, one unreadable request, one unreadable response, fair | one signal for each message, and never one ahead of its message; each request in one place; `EchoRpc`; a call that has signalled returns, unless dropped, its response was lost or a ring is blocked |
| `eventfd_wait` | 5 signals, 1 before the listener exists, a count that saturates at 3, fair | no signal is lost between `readable()` and `clear_ready()`; `EventCount`; every signal is taken |
| `uds_calls` | 3 calls, 2 slots, the third request readable or not, socket of 1 byte, the first client may go away, either process may end, fair | bytes account for requests, and never run ahead of them; responses are announced; each request in one place; `EchoRpc`; a call gets through both locks and the socket and returns, unless dropped, its response was lost, a request is silent or blocks the ring, or a process has ended; a backend task ends even when the gateway has gone |
| `polling_order` | 4 calls, 3 connections, 2 slots, calls give up, one unreadable request, one unreadable response, fair | responses come out once each, in request order; every call ends |
| `setup_restarts` | 1 backend and 2 gateways, each started twice and ending anywhere, three transports, fair | gateways use the rings of the backend they are connected to; the request ring is complete before it is used; a ring is never initialised twice; start-up ends, unless the backend has accepted another gateway |
| `grpc_calls` | 2 requests, a stream of 3 messages of which the third cannot be decoded, a channel of 1, one message under way in each direction, 2 runs of the backend, fair | the counters agree, on both sides; every call ends even if its timer never fires; a stream that ends has answered all that its client sent (up to a message that cannot be decoded), ends once its client has finished, and its task does not outlive its client |
| `counters` | 3 threads, 4 observations at, between and beyond 3 bounds, percentiles 50 and 99, 8 picks among 3 entries, counter modulo 5 | total and buckets account for each observation; a percentile lies between two moments; the entries are used evenly, give or take one for each wrap |

Runs that show a disagreement between the code and what the repository says of
it (TLC finds the property violated):

| Run | Property | What happens |
|---|---|---|
| `ring_straddle` | `ReadsWhatWasWritten` | a length prefix in the last three bytes is written past the end (`shm.rs:213`) and read from positions modulo the capacity: with messages of one byte in a ring of 261, a read hands out 257 bytes |
| `polling_mixup` | `OwnResponse` | of two concurrent calls, one returns the response to the other's request |
| `setup_fault` | `NoFault` | a gateway that opens a ring before `ftruncate` dies |
| `fd_closed` | `ActsOnItsEventfd` | `EventFd::new()` keeps the number of a descriptor that is closed when it returns (`eventfd.rs:17`): a signal fails with EBADF or acts on another file |

Other things a reader of the code may not expect, which the properties state as
their exceptions rather than as runs of their own:

* a shared-memory call has no timeout: `ShmConfig::timeout_ms` and `ShmError::Timeout`
  are not used, and a call whose response is lost or unreadable waits for ever
  (`AnsweredUnlessLost`);
* a UDS call dropped between its write and its byte leaves the backend one request behind
  for good (`Silent` in `RequestsMatchBytes`);
* nothing unlinks the rings: a backend that is started again fails with EEXIST until
  a script has removed them (`NeverReinitialised` is why that is the safe choice);
* a gateway may open the response ring before its capacity is visible
  (`HeaderCompleteWhenUsed` speaks of the request ring only, and says why);
* `percentile` truncates the rank: `p50` of a single observation looks for rank 0 and
  returns the first bound;
* a message that cannot be decoded ends a stream without an error (`EndMeansAll`);
* `--max-concurrent` is not used;
* a shared-memory call whose write fails leaves its entry in `pending_requests` for good
  (`InOnePlace` has it there);
* a gateway that is faster than its backend's `bind` exits, since `connect` is not retried, and a second gateway
  connects and is never served (`SetupEnds` counts the one as an end and excludes the other).

`ShmConfig::max_message_size` is tested nowhere either: `write` compares a message with the
room in the ring only, so that a message that no reader's buffer can take gets
into the ring and blocks it (`Invalid` in the contract, and the unreadable messages
of the runs).

In `ring_straddle` the last byte of the ring holds the 1 of the 53rd length and its other three bytes
are read from positions 0 to 2, which hold 1, 0, 0 of the first: 1 + 256 = 257. A length
that the reader's buffer does not take makes the read fail instead, although the message
fits, and blocks the ring. The programs read into buffers of 64 or 128 KB; after messages shorter than 256
bytes a prefix that starts in the last byte decodes to less than 64 KB, as in the run. With
the default capacity of 64 MB it needs a ring filled once around with messages whose lengths are not all
multiples of four; what the transports write, requests and responses serialized by `bincode` or as
JSON, is of any length.

Bounds, and why they are enough

* Ring: 23 bytes can be used, which two frames of 8 and 12 bytes fill and
  one of 16 leaves too few of, so the ring is full, empty and in between; frames of
  8 and 12 bytes start at every multiple of four, so that payloads are cut at
  the end at different places. Two threads per side are enough to make each
  mutex matter. The theorems below drop the bounds.
* Transports: rings of two messages: either ring can be full while another
  call writes, and a count can cover two messages while a third is under way.
  An unreadable message is an ordinary one to everybody until it is at the
  head of its ring, so the runs also cover what the readable ones do among
  each other. Three calls in `uds_calls` are the least where two wait behind a lock
  whose holder waits for a full socket. `polling_order` has one call more than connections, so
  that a later call can take the late response of an earlier one.
* `eventfd_wait`: the count saturates with signals left over; the theorems drop
  both bounds.
* Set-up: two starts of each process are the least with a leftover; two gateways are
  the least with a competitor; two attempts (51 in the code) the least where a retry
  succeeds and where it does not.
* gRPC: two calls share the channel and can be on either side of a restart; three messages fill the task, the
  channel and the window of a stream at once.
* Counters: two observers can run while a third thread scans; five is no multiple of three, so that
  the wrap of the pool's counter upsets the round robin as 2^64 does for three
  entries.
* Runs with `CHECK_DEADLOCK FALSE` make each call, or start each process, a
  bounded number of times and then rest. The ring runs check deadlock. Symmetry is
  used in `counters` only, which checks no liveness.

Fairness. Weak fairness of each task, of each loop and of the steps of each
process: both runtimes poll every task that is ready, and tokio's Mutex is fair,
which `ShmUds` models by the queue, so weak fairness suffices. Nothing
is assumed of clients: they need not call, nor go away (`Cancel`, `Abandon`, `DropRequest`, `CloseSending` and `LeaveStream`
are unfair), and no process need be started or end. The reactor of `EventFdWait` is polled
by the runtime. In `Grpc` a call takes what its stream has for it (`CallSteps`), a handler of the
backend, which only sleeps for a given delay, goes on while its process runs (`HandlerSteps`), and the client of
the stream takes what has arrived; timeouts (`TimeOut`), tonic's connection task (`NoticeEnd`) and the next start of
the backend are unfair, so that `CallsEnd` does not rest on the 30 seconds: those are for a backend
that hangs or a network that is silent, which the model does not have. In `ShmPolling` the expiry of the
30 seconds is part of a call's steps, as clocks go on; the run does not say how long a call takes.

## 4. What is proved

`RingBufferProofs`, for every set of threads and messages, every capacity
and every buffer length allowed by `ConstantsOK` (capacity below 2^31, above 4; disjoint
writers and readers; the readers' buffer no longer than the ring):

| Theorem | Statement |
|---|---|
| `TypeCorrect` | `Spec => []TypeOK`, with no further assumption |
| `Invariance` | `Aligned /\ Spec => []IInv` |
| `FramesStayIntact`, `FramesAlwaysTile`, `NoRace` | the three safety invariants |
| `AlignedReads` | a read returns the oldest message, and refuses it only when it is too long |
| `RingIsQueue` | `Aligned /\ Spec => ImplementsQueue`: the refinement of `RingContract` |

`Aligned` (capacity and all message lengths are multiples of 4) says that no
prefix straddles the end. It is needed: `ring_straddle` is the counterexample
without it. It is sufficient, not necessary, and the code does not establish
it. A message longer than `BufLen` and the contents of a fresh mapping need no
assumption: the theorems cover both.

The argument. `TypeCorrect` is proved without alignment, by noting that whatever is decoded
and copied is bytes and that a length that is not refused is at most `BufLen`.
For the rest, `FramesIntact` is not inductive: a
writer that is between its steps has to be known to stay within the free
bytes. `IInv` is the conjunction of

* `LockInv`: a thread is inside a call exactly when it holds the lock of its
  side, so there is at most one per side;
* `AlignInv`: `write_pos` is a multiple of 4;
* `TileInv`: `FramesTile`, and each frame ends, measured from `read_pos`, before
  any later one starts;
* `FramesIntact` itself;
* `WriterInv`: the frame being written starts at `write_pos`, fits the free
  bytes by the room test (the free space only grows meanwhile), and what has been copied
  so far is in memory;
* `ReaderInv`: the frame being read is the oldest, its decoded length is the
  length of its message, what is copied out is its payload.

Then there is one lemma per action (`BeginWriteStep`, `WritePrefixStep`, ...,
`AdvanceStep`); `IInvStep` collects them. The modular arithmetic is done once, in lemmas on
`Plus` and `Dist`. The refinement maps `queue` to the payloads of `frames` and `used` to
`Used`: `Publish`, `Advance` and the failing outcomes are steps of the contract, the others
stutter. That is, a write takes effect when its position is stored, a failing one when the positions are
loaded.

`ShmEventfdProofs`, first half, for any set of calls, any ring size, and any unreadable
requests and responses:

| Theorem | Statement |
|---|---|
| `EventfdInvariance` | `Spec => []IInv` |
| `EventfdTypes`, `EverySignalHasItsMessage`, `EveryRequestInOnePlace` | `TypeOK`, `SignalsMatchMessages`, `InOnePlace` |
| `EventfdImplementsRpc` | `Spec => ImplementsRpc`: the refinement of `EchoRpc` |

`InOnePlace` counts occurrences in rings, which no step preserves by itself. `IInv` says
instead, per call, where things are:

* `Types`, with the counts as naturals: that they do not exceed the number of calls follows
  from the other clauses;
* `Places`: the rings hold nobody twice; the request of `c` is in its ring exactly when
  `c` has written and no task has it; the response is in its ring or in the listener's
  hands exactly when the task has written it and `c` is still in `pending`. Without
  it, a second response to the same call could not be excluded;
* `Mailboxes`: the oneshot channel of `c` holds the response to `c` or nothing. This is
  the refinement;
* `SignalsMatchMessages`, which is inductive once a task or call is known to write before it
  signals, at most once.

`InOnePlace` and the bounds of `TypeOK` follow. In the refinement, the steps of rings, tasks
and listener stutter until the call itself returns or is dropped.

Second half, for every limit of an eventfd, every number of signals, and any number before
the listener exists:

| Theorem | Statement |
|---|---|
| `WaitInvariance` | `WaitSpec => []WaitInv` |
| `WaitTypes`, `SignalsAreNotLost` | `WaitTypeOK`, `NoSignalLost` |
| `WaitImplementsEvent` | `WaitSpec => ImplementsEvent`: the refinement of `EventCount` |

`NoSignalLost` is almost inductive: `WaitInv` adds the types, `ValueInHand` (what has
been read is forgotten once it is returned) and `NothingFromNowhere` (what has been taken, is in
hand or in the eventfd was signalled), which bounds `taken`. The interesting steps are
`Reactor`, which sets the flag if the count is
not zero, and `ReturnCount` and `Retry`, which need the tick. `ReadCount` is `Take`,
`Signal` is `Signal` or, at the limit, a stutter, and all else stutters.

`ShmUdsProofs`, for any calls, ring size, socket size, requests that are too long, and
calls and processes that go away at any step:

| Theorem | Statement |
|---|---|
| `UdsInvariance` | `Spec => []IInv` |
| `UdsTypes`, `EveryByteHasItsRequest`, `EveryResponseAnnounced`, `EveryRequestInOnePlace` | `TypeOK`, `RequestsMatchBytes`, `ResponsesAnnounced`, `InOnePlace` |
| `UdsImplementsRpc` | `Spec => ImplementsRpc` |

`IInv` has `Places` and `Mailboxes` as above, `Types`, and

* `Locks`: who waits for a lock or holds it is about to send its byte, and the other way
  round, and nobody waits twice: dropping a call takes it out of the middle of the queue, and
  without this clause a dropped call could leave a trace there;
* `RequestsMatchBytes` and `ResponsesAnnounced` themselves. The accounts balance
  because a write, a byte and the loss of either move one call from one of the counted
  sets to another; a lemma per kind of move says by how much.

`ShmPollingProofs`, for any calls, connections and ring size:

| Theorem | Statement |
|---|---|
| `PollingInvariance` | `Spec => []IInv` |
| `PollingTypes`, `ResponsesInOrder` | `TypeOK`, `InOrder` |
| `OwnResponseWhenAlone` | `Spec => []OwnResponse` if `Connections = 1` and `MayGiveUp = FALSE` |

`IInv` is `TypeOK`, `Writes` (a request is in `sent` once it is written, and once only) and
`Order` (`InOrder`, with the order of the chain in the form of the lemmas about queues).
`OwnResponseWhenAlone` is the boundary of the finding of `polling_mixup`: with one
connection whose calls neither time out nor are dropped, there is at most one message under
way and it belongs to the call that polls (`Alone`); a second connection mixes responses
up, as the run shows with two. A late response does it as well: that is the case of
`MayGiveUp = TRUE`.

`ShmSetupProofs`, for any gateways, numbers of starts and attempts, and the three transports:

| Theorem | Statement |
|---|---|
| `SetupInvariance` | `Spec => []IInv` |
| `SetupTypes`, `GatewayHasRingsOfItsBackend`, `RequestRingComplete` | `TypeOK`, `RingsOfItsBackend`, `HeaderCompleteWhenUsed` |
| `HeaderWrittenOnce` | `Spec => NeverReinitialised`, an action property |

`IInv` is `TypeOK` and

* `Files`: how far the running backend is with its rings, and that there is no response
  ring without the complete request ring of the same run: this is what makes leftovers
  harmless, and why a gateway that has got as far as the second ring may use the first;
* `Mappings`: what a running gateway has mapped are the rings in `/dev/shm` (they are
  removed only when nobody is left), and, once it has connected, its backend's;
* `Sockets`: a connection is in the backlog or with the backend, of a gateway that was
  started, and has carried as many eventfds as the backend has sent; `TypeOK` needs it.

`GrpcProofs`, for any requests, messages, capacities, windows, restarts, and any messages
that cannot be decoded:

| Theorem | Statement |
|---|---|
| `GrpcInvariance` | `Spec => []IInv` |
| `GrpcTypes`, `CountersAlwaysAgree`, `EndOfStreamMeansAll` | `TypeOK`, `CountersAgree`, `EndMeansAll` |

`IInv` is `UnaryInv` and `StreamInv`, one for each component; a step of the one leaves
the other alone, but for the end of the backend.

* `Counted` (of `UnaryInv`) relates each counter to the next by the number of requests in between, by
  their place in the handler or on the wire. A lemma about how such numbers change when one request moves (`CountMove`)
  takes the place of a proof by induction over the requests.
* `InSequence` (of `StreamInv`): what the client has got, what is on its way back, in the channel, in the
  task's hand and on its way there are the numbers 1, 2, 3 and so on without a gap, until the
  body is dropped. `EndMeansAll` alone says nothing before the end of the stream.

`AtomicCountersProofs`, for any threads, buckets, latencies, percents, entries, and any width of
the pool's counter:

| Theorem | Statement |
|---|---|
| `CountersInvariance` | `Spec => []IInv` |
| `CountersTypes`, `NoObservationLost`, `PercentileBetweenTwoMoments`, `RoundRobinIsEven` | `TypeOK`, `CountsAddUp`, `PercentileBracketed`, `PicksBalanced` |

`IInv` is `TypeOK`, `CountsAddUp`, `PercentileBracketed` and

* `Scanning`: the cumulative number of a `percentile` under way lies between the sums of the
  buckets as they were at its start and as they are now, bucket by bucket, and has not
  reached the rank. `PercentileBracketed` speaks of finished ones only;
* `InTurn`: the number of times an entry was picked is `wraps` times its share of a full
  turn of the counter, plus its share of the present one (`Laps`). `PicksBalanced` follows, since no
  two shares differ by more than one; it is not inductive itself.

The sum of a function over a set is the number of the pairs of an argument and a number up to
its value (`Counted`), so that facts about sums (`SumOfIncrement`, `SumOfNext`, `SumMonotone`) are
facts about cardinalities and need no induction.

Each inductive invariant was checked by TLC on the instance of its run, or a smaller one, before it was
proved. All theorems use the assumptions on the constants that the modules state, and no others
but those named above (`Aligned`; `Connections = 1` and `MayGiveUp = FALSE`).

Only model-checked: liveness (`AnsweredUnlessLost`, `SignalsTaken`, `CallsEnd`, `SetupEnds`,
`StreamEnds`, `TaskEndsWithClient`, `TasksEnd`), since TLAPS does not reason about fairness and
ENABLED; the four runs that show a violation, which are about single behaviours; and the
ring's behaviour with unaligned messages (type correctness apart), where the safety
properties do not hold. `EventFdTable` has no property that holds. The invariants quantify over
frames, calls and positions rather than recurse over sequences, since facts that need induction over
data are out of the provers' reach.

## 5. Not modelled, and the plan

Not modelled: `compute`, a pure function of floating-point numbers; the
parsing and formatting of HTTP bodies; `LatencyHistogram::mean`, `ConnectionMetrics`
and the reports, which read or format single counters; the protocol definitions
and generated code; logging; the benchmarking part of the scripts. The
socket of `ShmUds` has no byte-level failure other than a closed peer. Two
gateways writing to one ring, each with a mutex of its own, are not in
`RingBuffer`: `ShmSetup` shows when it can come to that.

Plan, in this order; the first six steps are done.

1. Ring buffer with its contract and proofs.
2. Transports and start-up, model-checked.
3. The wait for an eventfd with its proofs; the gRPC path and the HTTP front end; streams;
   metrics and pool; the eventfd wrapper; a header written field by field.
4. Proofs for the three shared-memory transports, with their refinements of `EchoRpc`.
5. Proofs for start-up.
6. Proofs for the gRPC path, streams, histogram and pool.
7. The gRPC path as a refinement of what a client of the gateway relies on, as `EchoRpc` is for the
   shared-memory transports, proved and checked by TLC.
8. When an unaligned ring is safe: whether `Aligned` can be replaced by the condition that
   no prefix straddles the end, which the code could test.
