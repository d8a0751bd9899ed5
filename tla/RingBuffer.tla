---------------------------- MODULE RingBuffer ----------------------------
(***************************************************************************)
(* SharedMemoryRingBuffer (shared-memory/src/shm.rs): a ring of bytes in   *)
(* shared memory.  The threads of one process write messages, those of     *)
(* another read them.  A message is a frame: 4 bytes of length (little     *)
(* endian) and the payload.                                                *)
(*                                                                         *)
(* A call holds its process's mutex from its first step to its last, and   *)
(* the steps of a writer interleave with those of a reader:                *)
(*                                                                         *)
(*   write()  BeginWrite   lock, load both positions, compare the room     *)
(*            WritePrefix  copy the 4 bytes of the length                  *)
(*            WritePayload copy the payload, in two parts at the end       *)
(*            Publish      store write_pos, unlock                         *)
(*   read()   BeginRead    lock, load both positions, compare them         *)
(*            ReadPrefix   decode the length, compare it with the buffer   *)
(*            CopyOut      copy the payload to the caller's buffer         *)
(*            Advance      store read_pos, unlock                          *)
(*                                                                         *)
(* The load of the position a call owns (write_pos for a writer) commutes  *)
(* with every step of the other side, so both loads are one step, at the   *)
(* instant of the load of the position owned by the other side.            *)
(*                                                                         *)
(* The length prefix is copied as 4 consecutive bytes, also when fewer     *)
(* than 4 are left before the end of the ring; read() takes it from        *)
(* positions modulo the capacity.  The bytes copied past the end land in   *)
(* the unused rest of the mapping's last page: data has 3 cells for them.  *)
(***************************************************************************)
EXTENDS Integers, Sequences

CONSTANTS
    Writers,   \* threads of the writing process
    Readers,   \* threads of the reading process
    Messages,  \* payloads that are written: sequences of bytes
    Capacity,  \* size in bytes of the data area
    BufLen,    \* size in bytes of the buffer the readers pass in
    None       \* "no thread"

Byte == 0 .. 255
PrefixLen == 4
MaxCapacity == 2147483647  \* keeps every length within the four prefix bytes

ASSUME ConstantsOK ==
    /\ Writers \intersect Readers = {}
    /\ None \notin Writers \union Readers
    /\ Messages \subseteq Seq(Byte)
    /\ Capacity \in PrefixLen + 1 .. MaxCapacity
    /\ BufLen \in 0 .. Capacity

VARIABLES
    write_pos, read_pos,  \* the header's two atomic positions
    data,                 \* the data area and 3 bytes past its end
    write_lock,           \* the writer that holds write_lock, or None
    wpc, wat, wmsg,       \* per writer: next step, write_pos as loaded, payload
    read_lock,            \* the reader that holds read_lock, or None
    rpc, rat, rlen, rbuf, \* per reader: next step, read_pos as loaded, length
                          \* decoded, bytes copied out
    ret,                  \* per thread: what its last completed call returned
    frames                \* history: the frames published and not consumed

header == <<write_pos, read_pos>>
wvars == <<write_lock, wpc, wat, wmsg>>
rvars == <<read_lock, rpc, rat, rlen, rbuf>>
vars == <<header, data, wvars, rvars, ret, frames>>

-----------------------------------------------------------------------------
\* Bytes, positions and frames.

\* u32::to_le_bytes and u32::from_le_bytes.
ToLeBytes(n) ==
    <<n % 256, (n \div 256) % 256, (n \div 65536) % 256, (n \div 16777216) % 256>>
FromLeBytes(b) == b[1] + 256 * b[2] + 65536 * b[3] + 16777216 * b[4]

\* The position n bytes after p.
BadPlus(p, n) == p + n
Plus(p, n) == (p + n) % Capacity

\* The bytes from position p on to position q.
Dist(p, q) == IF q >= p THEN q - p ELSE q - p + Capacity

Used == Dist(read_pos, write_pos)

\* write()'s computation of the free space, from the positions it loaded.
BadAvailable == Capacity - Used
Available ==
    IF write_pos >= read_pos
    THEN Capacity - (write_pos - read_pos) - 1
    ELSE read_pos - write_pos - 1

FrameSize(m) == PrefixLen + Len(m)
Readable(m) == Len(m) <= BufLen  \* m fits the buffer the reader passes in

Result(tag, m) == [tag |-> tag, msg |-> m]
Return(t, tag, m) == ret' = [ret EXCEPT ![t] = Result(tag, m)]

\* No length prefix ever starts in the last three bytes of the ring: the
\* capacity and the length of every message are multiples of 4.
Aligned == Capacity % 4 = 0 /\ \A m \in Messages : Len(m) % 4 = 0

-----------------------------------------------------------------------------
Init ==
    /\ write_pos = 0
    /\ read_pos = 0
    /\ data = [i \in 0 .. Capacity + 2 |-> 0]
    /\ write_lock = None
    /\ wpc = [t \in Writers |-> "idle"]
    /\ wat = [t \in Writers |-> 0]
    /\ wmsg = [t \in Writers |-> <<>>]
    /\ read_lock = None
    /\ rpc = [t \in Readers |-> "idle"]
    /\ rat = [t \in Readers |-> 0]
    /\ rlen = [t \in Readers |-> 0]
    /\ rbuf = [t \in Readers |-> <<>>]
    /\ ret = [t \in Writers \union Readers |-> Result("None", <<>>)]
    /\ frames = <<>>

-----------------------------------------------------------------------------
\* write()

\* write_lock.lock() returns only when no other call is inside write().
BadCanLockWrite == TRUE
CanLockWrite == write_lock = None

\* Not enough room: the guard's drop releases the mutex at once.
WriteFull(t, m) ==
    /\ CanLockWrite
    /\ Available < FrameSize(m)
    /\ Return(t, "BufferFull", <<>>)
    /\ UNCHANGED <<header, data, wvars, rvars, frames>>

BeginWrite(t, m) ==
    /\ CanLockWrite
    /\ Available >= FrameSize(m)
    /\ write_lock' = t
    /\ wpc' = [wpc EXCEPT ![t] = "prefix"]
    /\ wat' = [wat EXCEPT ![t] = write_pos]
    /\ wmsg' = [wmsg EXCEPT ![t] = m]
    /\ UNCHANGED <<header, data, rvars, ret, frames>>

\* The 4 bytes go to consecutive addresses: no wrap-around.
WritePrefix(t) ==
    /\ wpc[t] = "prefix"
    /\ data' = [i \in DOMAIN data |->
                   IF i \in wat[t] .. wat[t] + 3
                   THEN ToLeBytes(Len(wmsg[t]))[i - wat[t] + 1]
                   ELSE data[i]]
    /\ wpc' = [wpc EXCEPT ![t] = "payload"]
    /\ UNCHANGED <<header, write_lock, wat, wmsg, rvars, ret, frames>>

\* The cells of the payload whose first cell is start: it goes on at position 0
\* when it crosses the end of the ring.
BadInPayload(start, n, i) == i < Capacity /\ i \in start .. start + n - 1
InPayload(start, n, i) == i < Capacity /\ Dist(start, i) < n

WritePayload(t) ==
    /\ wpc[t] = "payload"
    /\ LET start == Plus(wat[t], PrefixLen)
       IN  data' = [i \in DOMAIN data |->
                       IF InPayload(start, Len(wmsg[t]), i)
                       THEN wmsg[t][Dist(start, i) + 1]
                       ELSE data[i]]
    /\ wpc' = [wpc EXCEPT ![t] = "publish"]
    /\ UNCHANGED <<header, write_lock, wat, wmsg, rvars, ret, frames>>

Publish(t) ==
    /\ wpc[t] = "publish"
    /\ write_pos' = Plus(wat[t], FrameSize(wmsg[t]))
    /\ write_lock' = None
    /\ wpc' = [wpc EXCEPT ![t] = "idle"]
    /\ wat' = [wat EXCEPT ![t] = 0]
    /\ wmsg' = [wmsg EXCEPT ![t] = <<>>]
    /\ Return(t, "Ok", <<>>)
    /\ frames' = Append(frames, [pos |-> wat[t], msg |-> wmsg[t]])
    /\ UNCHANGED <<read_pos, data, rvars>>

-----------------------------------------------------------------------------
\* read()

ReadEmpty(t) ==
    /\ read_lock = None
    /\ write_pos = read_pos
    /\ Return(t, "BufferEmpty", <<>>)
    /\ UNCHANGED <<header, data, wvars, rvars, frames>>

BeginRead(t) ==
    /\ read_lock = None
    /\ write_pos # read_pos
    /\ read_lock' = t
    /\ rpc' = [rpc EXCEPT ![t] = "prefix"]
    /\ rat' = [rat EXCEPT ![t] = read_pos]
    /\ UNCHANGED <<header, data, wvars, rlen, rbuf, ret, frames>>

\* The length as the reader decodes it, from positions modulo the capacity.
DecodedLen(p) == FromLeBytes([k \in 1 .. 4 |-> data[Plus(p, k - 1)]])

\* "buf.len() < data_len"
BadTooLong(n) == BufLen <= n
TooLong(n) == BufLen < n

ReadPrefix(t) ==
    /\ rpc[t] = "prefix"
    /\ ~TooLong(DecodedLen(rat[t]))
    /\ rlen' = [rlen EXCEPT ![t] = DecodedLen(rat[t])]
    /\ rpc' = [rpc EXCEPT ![t] = "copy"]
    /\ UNCHANGED <<header, data, wvars, read_lock, rat, rbuf, ret, frames>>

\* The caller's buffer is too short: read_pos stays where it is.
ReadInvalid(t) ==
    /\ rpc[t] = "prefix"
    /\ TooLong(DecodedLen(rat[t]))
    /\ Return(t, "InvalidState", <<>>)
    /\ read_lock' = None
    /\ rpc' = [rpc EXCEPT ![t] = "idle"]
    /\ rat' = [rat EXCEPT ![t] = 0]
    /\ UNCHANGED <<header, data, wvars, rlen, rbuf, frames>>

CopyOut(t) ==
    /\ rpc[t] = "copy"
    /\ rbuf' = [rbuf EXCEPT ![t] =
                   [k \in 1 .. rlen[t] |-> data[Plus(rat[t], PrefixLen + k - 1)]]]
    /\ rpc' = [rpc EXCEPT ![t] = "advance"]
    /\ UNCHANGED <<header, data, wvars, read_lock, rat, rlen, ret, frames>>

BadNextReadPos(t) == Plus(rat[t], rlen[t])
NextReadPos(t) == Plus(rat[t], PrefixLen + rlen[t])

Advance(t) ==
    /\ rpc[t] = "advance"
    /\ read_pos' = NextReadPos(t)
    /\ read_lock' = None
    /\ rpc' = [rpc EXCEPT ![t] = "idle"]
    /\ rat' = [rat EXCEPT ![t] = 0]
    /\ rlen' = [rlen EXCEPT ![t] = 0]
    /\ rbuf' = [rbuf EXCEPT ![t] = <<>>]
    /\ Return(t, "Ok", rbuf[t])
    /\ frames' = IF frames = <<>> THEN frames ELSE Tail(frames)
    /\ UNCHANGED <<write_pos, data, wvars>>

-----------------------------------------------------------------------------
WriterStep(t) ==
    \/ \E m \in Messages : WriteFull(t, m) \/ BeginWrite(t, m)
    \/ WritePrefix(t)
    \/ WritePayload(t)
    \/ Publish(t)

ReaderStep(t) ==
    \/ ReadEmpty(t)
    \/ BeginRead(t)
    \/ ReadPrefix(t)
    \/ ReadInvalid(t)
    \/ CopyOut(t)
    \/ Advance(t)

Next ==
    \/ \E t \in Writers : WriterStep(t)
    \/ \E t \in Readers : ReaderStep(t)

Spec == Init /\ [][Next]_vars

-----------------------------------------------------------------------------
\* Properties.

\* Positions, memory and the calls in progress have the types of the code's
\* variables; a position never leaves the data area.
TypeOK ==
    /\ write_pos \in 0 .. Capacity - 1
    /\ read_pos \in 0 .. Capacity - 1
    /\ data \in [0 .. Capacity + 2 -> Byte]
    /\ write_lock \in Writers \union {None}
    /\ wpc \in [Writers -> {"idle", "prefix", "payload", "publish"}]
    /\ wat \in [Writers -> 0 .. Capacity - 1]
    /\ wmsg \in [Writers -> Messages \union {<<>>}]
    /\ read_lock \in Readers \union {None}
    /\ rpc \in [Readers -> {"idle", "prefix", "copy", "advance"}]
    /\ rat \in [Readers -> 0 .. Capacity - 1]
    /\ rlen \in [Readers -> 0 .. BufLen]
    /\ rbuf \in [Readers -> Seq(Byte)]
    /\ ret \in [Writers \union Readers ->
                   [tag : {"None", "Ok", "BufferFull", "BufferEmpty", "InvalidState"},
                    msg : Seq(Byte)]]
    /\ frames \in Seq([pos : 0 .. Capacity - 1, msg : Messages])

\* The bytes a writer that is copying may still touch, and those a reader may:
\* the frame being written and the frame being read.
BeingWritten(i) ==
    \E t \in Writers : wpc[t] # "idle" /\ Dist(wat[t], i) < FrameSize(wmsg[t])
BeingRead(i) ==
    \E t \in Readers : \/ rpc[t] = "prefix" /\ Dist(rat[t], i) < PrefixLen
                       \/ rpc[t] \in {"copy", "advance"} /\ Dist(rat[t], i) < PrefixLen + rlen[t]

\* A writer and a reader never work on the same byte at the same time: the
\* two mutexes, the free byte, and the order of copies and stores are enough.
NoDataRace == \A i \in 0 .. Capacity - 1 : ~(BeingWritten(i) /\ BeingRead(i))

\* Every frame published and not yet consumed is in memory byte for byte, at
\* the positions where a reader looks for it, whatever later calls wrote: its
\* length decodes to the length of its payload, and its payload is unharmed.
FramesIntact ==
    \A n \in 1 .. Len(frames) :
        /\ DecodedLen(frames[n].pos) = Len(frames[n].msg)
        /\ \A k \in 1 .. Len(frames[n].msg) :
               data[Plus(frames[n].pos, PrefixLen + k - 1)] = frames[n].msg[k]

\* The frames in flight tile the region between the two positions: the first
\* starts at read_pos, each starts where the one before it ends, the last ends
\* at write_pos, and the region is empty when there is none.
FramesTile ==
    /\ frames = <<>> => write_pos = read_pos
    /\ frames # <<>> => frames[1].pos = read_pos
    /\ \A n \in 1 .. Len(frames) :
           /\ Dist(read_pos, frames[n].pos) + FrameSize(frames[n].msg) <= Used
           /\ Plus(frames[n].pos, FrameSize(frames[n].msg))
                  = IF n = Len(frames) THEN write_pos ELSE frames[n + 1].pos

\* RingBuffer implements the bounded FIFO queue of RingContract.
Contract == INSTANCE RingContract WITH
    queue <- [n \in 1 .. Len(frames) |-> frames[n].msg],
    used <- Used
ImplementsQueue == Contract!Spec

\* The comments of read() ("Read length prefix (4 bytes)", "Read data"): a read
\* that succeeds hands out the oldest message written and not yet read, and a
\* read refuses that message only when it is too long for the caller's buffer.
ReadsWhatWasWritten ==
    [][\A t \in Readers :
          /\ Advance(t) => frames # <<>> /\ rbuf[t] = frames[1].msg
          /\ ReadInvalid(t) => frames # <<>> /\ ~Readable(frames[1].msg)]_vars
=============================================================================
