------------------------- MODULE RingBufferProofs -------------------------
(***************************************************************************)
(* Proofs about RingBuffer, for every capacity, buffer length, set of      *)
(* threads and set of messages.                                            *)
(*                                                                         *)
(* Types are preserved unconditionally.  Everything else holds when no     *)
(* length prefix straddles the end of the ring, which Aligned guarantees.  *)
(* The argument measures every position by its distance from read_pos:     *)
(* queued bytes are at distances below Used, the bytes of the frame being  *)
(* written are at distances from Used on, and the mutexes make the         *)
(* positions a call has loaded those of the header.                        *)
(***************************************************************************)
EXTENDS RingBuffer, SequenceTheorems, TLAPS

-----------------------------------------------------------------------------
\* The inductive invariant.

\* A thread is inside a call exactly when it holds the mutex of its side.
LockInv ==
    /\ \A t \in Writers : wpc[t] # "idle" <=> write_lock = t
    /\ \A t \in Readers : rpc[t] # "idle" <=> read_lock = t

\* The next prefix starts at a multiple of 4.
AlignInv == write_pos % 4 = 0

\* Where frame n starts, in bytes from read_pos.
Start(n) == Dist(read_pos, frames[n].pos)
Size(n) == FrameSize(frames[n].msg)

\* FramesTile, with the order of the frames made explicit.
TileInv ==
    /\ FramesTile
    /\ \A m, n \in 1 .. Len(frames) : m < n => Start(m) + Size(m) <= Start(n)

\* A frame's length and payload in a memory d, to compare two memories.
LenAt(d, p) ==
    d[Plus(p, 0)] + 256 * d[Plus(p, 1)] + 65536 * d[Plus(p, 2)] + 16777216 * d[Plus(p, 3)]
PayloadIn(d, p, m) == \A k \in 1 .. Len(m) : d[Plus(p, PrefixLen + k - 1)] = m[k]

\* What the writer inside write() has established so far.
WriterInv ==
    \A t \in Writers : wpc[t] # "idle" =>
        /\ wat[t] = write_pos
        /\ wmsg[t] \in Messages
        /\ Used + FrameSize(wmsg[t]) <= Capacity - 1
        /\ wpc[t] # "prefix" => LenAt(data, wat[t]) = Len(wmsg[t])
        /\ wpc[t] = "publish" => PayloadIn(data, wat[t], wmsg[t])

\* What the reader inside read() has established so far.
ReaderInv ==
    \A t \in Readers : rpc[t] # "idle" =>
        /\ frames # <<>>
        /\ rat[t] = read_pos
        /\ rpc[t] # "prefix" => rlen[t] = Len(frames[1].msg)
        /\ rpc[t] = "advance" => rbuf[t] = frames[1].msg

IInv == TypeOK /\ LockInv /\ AlignInv /\ TileInv /\ FramesIntact /\ WriterInv /\ ReaderInv

-----------------------------------------------------------------------------
\* Arithmetic of positions.

Pos == 0 .. Capacity - 1

LEMMA CapacityRange == Capacity \in Nat /\ Capacity > 4
<1>1. MaxCapacity \in Int
  BY SMT DEF MaxCapacity
<1> QED
  BY SMT, <1>1, ConstantsOK DEF PrefixLen

\* The remainder of a sum of less than two capacities.
LEMMA ModCapacity ==
    ASSUME NEW a \in Nat, a < 2 * Capacity
    PROVE  a % Capacity = IF a < Capacity THEN a ELSE a - Capacity
BY SMT, CapacityRange

\* Plus without the modulo operation.
LEMMA PlusIs ==
    ASSUME NEW p \in Pos, NEW n \in Nat, n <= Capacity
    PROVE  /\ Plus(p, n) = IF p + n < Capacity THEN p + n ELSE p + n - Capacity
           /\ Plus(p, n) \in Pos
<1> DEFINE a == p + n
<1>1. a \in Nat /\ a < 2 * Capacity
  BY SMT, CapacityRange DEF Pos
<1>2. Plus(p, n) = a % Capacity
  BY DEF Plus
<1>3. p + n = a
  OBVIOUS
<1> HIDE DEF a
<1>4. Plus(p, n) = IF a < Capacity THEN a ELSE a - Capacity
  BY <1>1, <1>2, ModCapacity
<1> QED
  BY SMT, <1>1, <1>3, <1>4, CapacityRange DEF Pos

LEMMA DistRange ==
    ASSUME NEW p \in Pos, NEW q \in Pos
    PROVE  Dist(p, q) \in Pos
BY SMT, CapacityRange DEF Dist, Pos

\* A position moved forward is that much further away.
LEMMA DistPlus ==
    ASSUME NEW p \in Pos, NEW q \in Pos, NEW n \in Nat, Dist(p, q) + n < Capacity
    PROVE  Dist(p, Plus(q, n)) = Dist(p, q) + n
<1>1. n <= Capacity
  BY SMT, CapacityRange, DistRange DEF Pos
<1>2. Plus(q, n) = IF q + n < Capacity THEN q + n ELSE q + n - Capacity
  BY <1>1, PlusIs
<1> QED
  BY SMT, <1>1, <1>2, CapacityRange DEF Dist, Pos

\* Distances shrink by what their origin moves forward.
LEMMA DistShift ==
    ASSUME NEW p \in Pos, NEW q \in Pos, NEW n \in Nat, n <= Dist(p, q)
    PROVE  Dist(Plus(p, n), q) = Dist(p, q) - n
<1>1. n <= Capacity
  BY SMT, CapacityRange, DistRange DEF Pos
<1>2. Plus(p, n) = IF p + n < Capacity THEN p + n ELSE p + n - Capacity
  BY <1>1, PlusIs
<1> QED
  BY SMT, <1>1, <1>2, CapacityRange DEF Dist, Pos

\* A position is determined by its distance from another one.
LEMMA PlusDist ==
    ASSUME NEW p \in Pos, NEW q \in Pos
    PROVE  Plus(p, Dist(p, q)) = q
<1> DEFINE n == Dist(p, q)
<1>1. n \in Nat /\ n <= Capacity
  BY SMT, CapacityRange DEF Pos, Dist
<1>2. n = IF q >= p THEN q - p ELSE q - p + Capacity
  BY DEF Dist
<1> HIDE DEF n
<1>3. Plus(p, n) = IF p + n < Capacity THEN p + n ELSE p + n - Capacity
  BY <1>1, PlusIs
<1>4. Plus(p, n) = q
  BY SMT, <1>1, <1>2, <1>3, CapacityRange DEF Pos
<1> QED
  BY <1>4 DEF n

LEMMA PlusPlus ==
    ASSUME NEW p \in Pos, NEW m \in Nat, NEW n \in Nat, m + n < Capacity
    PROVE  Plus(Plus(p, m), n) = Plus(p, m + n)
<1>1. /\ m <= Capacity
      /\ n <= Capacity
      /\ m + n <= Capacity
      /\ m + n \in Nat
  BY SMT, CapacityRange
<1>2. /\ Plus(p, m) \in Pos
      /\ Plus(p, m) = IF p + m < Capacity THEN p + m ELSE p + m - Capacity
  BY <1>1, PlusIs
<1> DEFINE x == Plus(p, m)
           s == m + n
<1> HIDE DEF x, s
<1>3. Plus(x, n) = IF x + n < Capacity THEN x + n ELSE x + n - Capacity
  BY <1>1, <1>2, PlusIs DEF x
<1>4. Plus(p, s) = IF p + s < Capacity THEN p + s ELSE p + s - Capacity
  BY <1>1, PlusIs DEF s
<1>5. Plus(x, n) = Plus(p, s)
  BY SMT, <1>1, <1>2, <1>3, <1>4, CapacityRange DEF Pos, x, s
<1> QED
  BY <1>5 DEF x, s

\* u32::to_le_bytes yields bytes, and u32::from_le_bytes undoes it.
LEMMA ToLeIsBytes ==
    ASSUME NEW n \in Nat
    PROVE  /\ ToLeBytes(n) \in Seq(Byte)
           /\ Len(ToLeBytes(n)) = 4
<1>1. n % 256 \in Byte /\ (n \div 256) % 256 \in Byte
      /\ (n \div 65536) % 256 \in Byte /\ (n \div 16777216) % 256 \in Byte
  BY SMT DEF Byte
<1> QED
  BY SMT, <1>1 DEF ToLeBytes

LEMMA LeRoundTrip ==
    ASSUME NEW n \in Nat, n <= MaxCapacity
    PROVE  FromLeBytes(ToLeBytes(n)) = n
<1> DEFINE q1 == n \div 256
           q2 == n \div 65536
           q3 == n \div 16777216
<1>1. FromLeBytes(ToLeBytes(n))
        = (n % 256) + 256 * (q1 % 256) + 65536 * (q2 % 256) + 16777216 * (q3 % 256)
  BY SMT DEF FromLeBytes, ToLeBytes
<1>2. n % 256 = n - 256 * q1
  BY SMT
<1>3. q1 % 256 = q1 - 256 * q2
  BY SMT
<1>4. q2 % 256 = q2 - 256 * q3
  BY SMT
<1>5. q3 % 256 = q3
  BY SMT DEF MaxCapacity
<1>6. q1 \in Nat /\ q2 \in Nat /\ q3 \in Nat
  BY SMT
<1> HIDE DEF q1, q2, q3
<1> QED
  BY SMT, <1>1, <1>2, <1>3, <1>4, <1>5, <1>6

-----------------------------------------------------------------------------
\* Types.

\* A writer inside write() holds one of the messages.
HoldsMessage == \A t \in Writers : wpc[t] # "idle" => wmsg[t] \in Messages

TypeInv == TypeOK /\ HoldsMessage

LEMMA PlusRange ==
    ASSUME NEW p \in Pos, NEW n \in Nat
    PROVE  Plus(p, n) \in Pos
<1> DEFINE a == p + n
<1>1. a \in Nat
  BY SMT, CapacityRange DEF Pos
<1> HIDE DEF a
<1>2. a % Capacity \in Pos
  BY SMT, <1>1, CapacityRange DEF Pos
<1> QED
  BY <1>2 DEF Plus, a

LEMMA MessageTypes ==
    ASSUME NEW m \in Messages \union {<<>>}
    PROVE  /\ m \in Seq(Byte)
           /\ Len(m) \in Nat
           /\ FrameSize(m) \in Nat
<1>a. Messages \subseteq Seq(Byte)
  BY ConstantsOK
<1>b. <<>> \in Seq(Byte)
  BY SMT
<1>1. m \in Seq(Byte)
  BY <1>a, <1>b, Zenon
<1>2. Len(m) \in Nat
  BY SMT, <1>1
<1> QED
  BY SMT, <1>1, <1>2 DEF FrameSize, PrefixLen

\* Every cell that a reader looks at is in the data area.
LEMMA CellTypes ==
    ASSUME data \in [0 .. Capacity + 2 -> Byte], NEW p \in Pos
    PROVE  /\ \A n \in Nat : data[Plus(p, n)] \in Byte
           /\ DecodedLen(p) \in Nat
<1>1. \A n \in Nat : data[Plus(p, n)] \in Byte
  <2> TAKE n \in Nat
  <2>1. Plus(p, n) \in Pos
    BY PlusRange
  <2> QED
    BY SMT, <2>1, CapacityRange DEF Pos
<1>2. /\ data[Plus(p, 0)] \in Byte
      /\ data[Plus(p, 1)] \in Byte
      /\ data[Plus(p, 2)] \in Byte
      /\ data[Plus(p, 3)] \in Byte
  BY <1>1, SMT
<1>3. DecodedLen(p) = data[Plus(p, 0)] + 256 * data[Plus(p, 1)]
                      + 65536 * data[Plus(p, 2)] + 16777216 * data[Plus(p, 3)]
  BY SMT DEF DecodedLen, FromLeBytes
<1>4. ASSUME NEW a \in Byte, NEW b \in Byte, NEW c \in Byte, NEW d \in Byte
      PROVE  a + 256 * b + 65536 * c + 16777216 * d \in Nat
  BY SMT DEF Byte
<1>5. DecodedLen(p) \in Nat
  <2> DEFINE c(n) == data[Plus(p, n)]
  <2>1. c(0) \in Byte /\ c(1) \in Byte /\ c(2) \in Byte /\ c(3) \in Byte
    BY <1>2
  <2>2. DecodedLen(p) = c(0) + 256 * c(1) + 65536 * c(2) + 16777216 * c(3)
    BY <1>3, SMT
  <2> HIDE DEF c
  <2> QED
    BY SMT, <1>4, <2>1, <2>2
<1> QED
  BY <1>1, <1>5

LEMMA TypeInit == Init => TypeInv
<1> SUFFICES ASSUME Init PROVE TypeInv
  OBVIOUS
<1>1. 0 \in 0 .. Capacity - 1 /\ 0 \in Byte /\ 0 \in 0 .. BufLen
  BY SMT, CapacityRange, ConstantsOK DEF Byte
<1>2. <<>> \in Seq(Byte) /\ <<>> \in Seq([pos : 0 .. Capacity - 1, msg : Messages])
  BY SMT
<1>3. TypeOK
  BY SMT, <1>1, <1>2 DEF Init, TypeOK, Result
<1>4. HoldsMessage
  BY SMT DEF Init, HoldsMessage
<1> QED
  BY <1>3, <1>4 DEF TypeInv

\* What a call can return.
Results ==
    [Writers \union Readers ->
        [tag : {"None", "Ok", "BufferFull", "BufferEmpty", "InvalidState"},
         msg : Seq(Byte)]]

LEMMA ReturnTypes ==
    ASSUME ret \in Results, NEW t \in Writers \union Readers,
           NEW tag \in {"Ok", "BufferFull", "BufferEmpty", "InvalidState"},
           NEW m \in Seq(Byte), Return(t, tag, m)
    PROVE  ret' \in Results
BY SMT DEF Return, Result, Results

\* No step breaks the types.
LEMMA TypeStep == TypeInv /\ [Next]_vars => TypeInv'
<1> SUFFICES ASSUME TypeOK, HoldsMessage, [Next]_vars
             PROVE  TypeInv'
  BY DEF TypeInv
<1> USE DEF header, wvars, rvars
<1>a. <<>> \in Seq(Byte)
  BY SMT
<1>b. ret \in Results
  BY DEF TypeOK, Results
<1>c. 0 \in 0 .. Capacity - 1 /\ 0 \in 0 .. BufLen
  BY SMT, CapacityRange, ConstantsOK
<1>d. /\ data \in [0 .. Capacity + 2 -> Byte]
      /\ wat \in [Writers -> Pos]
      /\ rat \in [Readers -> Pos]
      /\ wmsg \in [Writers -> Messages \union {<<>>}]
  BY DEF TypeOK, Pos
<1>e. \A t \in Readers : rlen[t] \in Nat
  BY SMT, ConstantsOK DEF TypeOK
<1>1. ASSUME NEW t \in Writers, NEW m \in Messages, WriteFull(t, m)
      PROVE  TypeInv'
  <2>1. ret' \in Results
    BY <1>1, <1>a, <1>b, ReturnTypes, Zenon DEF WriteFull
  <2> QED
    BY <1>1, <2>1, Zenon DEF WriteFull, TypeInv, TypeOK, HoldsMessage, Results
<1>2. ASSUME NEW t \in Writers, NEW m \in Messages, BeginWrite(t, m)
      PROVE  TypeInv'
  BY SMT, <1>2 DEF BeginWrite, TypeInv, TypeOK, HoldsMessage
<1>3. ASSUME NEW t \in Writers, WritePrefix(t)
      PROVE  TypeInv'
  <2> DEFINE b == ToLeBytes(Len(wmsg[t]))
             p == wat[t]
  <2>1. \A k \in 1 .. 4 : b[k] \in Byte
    <3>1. Len(wmsg[t]) \in Nat
      BY <1>d, MessageTypes
    <3>2. b \in Seq(Byte) /\ Len(b) = 4
      BY <3>1, ToLeIsBytes
    <3> HIDE DEF b
    <3> QED
      BY <3>2, ElementOfSeq
  <2>2. p \in Int
    BY SMT, CapacityRange, <1>d DEF Pos
  <2>3. data' = [i \in DOMAIN data |-> IF i \in p .. p + 3 THEN b[i - p + 1] ELSE data[i]]
    BY <1>3 DEF WritePrefix
  <2> HIDE DEF b, p
  <2>4. ASSUME NEW i \in 0 .. Capacity + 2, i \in p .. p + 3
        PROVE  b[i - p + 1] \in Byte
    <3>1. i - p + 1 \in 1 .. 4
      BY SMT, <2>2, <2>4, CapacityRange
    <3> QED
      BY <2>1, <3>1
  <2>5. data' \in [0 .. Capacity + 2 -> Byte]
    BY <2>3, <2>4, <1>d, Zenon
  <2> QED
    BY SMT, <1>3, <2>5 DEF WritePrefix, TypeInv, TypeOK, HoldsMessage
<1>4. ASSUME NEW t \in Writers, WritePayload(t)
      PROVE  TypeInv'
  <2> DEFINE start == Plus(wat[t], PrefixLen)
             m == wmsg[t]
  <2>1. start \in Pos
    <3>1. PrefixLen \in Nat
      BY SMT DEF PrefixLen
    <3> QED
      BY <3>1, PlusRange, <1>d
  <2>2. m \in Seq(Byte) /\ Len(m) \in Nat
    BY MessageTypes, <1>d
  <2>3. data' = [i \in DOMAIN data |-> IF InPayload(start, Len(m), i)
                                       THEN m[Dist(start, i) + 1] ELSE data[i]]
    BY <1>4 DEF WritePayload
  <2> HIDE DEF start, m
  <2>4. ASSUME NEW i \in 0 .. Capacity + 2, InPayload(start, Len(m), i)
        PROVE  m[Dist(start, i) + 1] \in Byte
    <3>1. i \in Pos
      BY SMT, <2>4, CapacityRange DEF InPayload, Pos
    <3>2. Dist(start, i) \in Pos
      BY <3>1, <2>1, DistRange
    <3>3. Dist(start, i) < Len(m)
      BY <2>4 DEF InPayload
    <3>4. Dist(start, i) + 1 \in 1 .. Len(m)
      BY SMT, <3>2, <3>3, <2>2, CapacityRange DEF Pos
    <3> QED
      BY SMT, <3>4, <2>2
  <2>5. data' \in [0 .. Capacity + 2 -> Byte]
    BY <2>3, <2>4, <1>d, Zenon
  <2> QED
    BY SMT, <1>4, <2>5 DEF WritePayload, TypeInv, TypeOK, HoldsMessage
<1>5. ASSUME NEW t \in Writers, Publish(t)
      PROVE  TypeInv'
  <2>1. write_pos' \in 0 .. Capacity - 1
    <3>1. FrameSize(wmsg[t]) \in Nat
      BY MessageTypes, <1>d
    <3> QED
      BY <3>1, <1>d, PlusRange, <1>5 DEF Publish, Pos
  <2>2. wmsg[t] \in Messages /\ wat[t] \in 0 .. Capacity - 1
    BY SMT, <1>5 DEF Publish, HoldsMessage, TypeOK
  <2>3. frames' \in Seq([pos : 0 .. Capacity - 1, msg : Messages])
    <3>1. [pos |-> wat[t], msg |-> wmsg[t]] \in [pos : 0 .. Capacity - 1, msg : Messages]
      BY <2>2, Zenon
    <3>2. frames \in Seq([pos : 0 .. Capacity - 1, msg : Messages])
      BY DEF TypeOK
    <3>3. frames' = Append(frames, [pos |-> wat[t], msg |-> wmsg[t]])
      BY <1>5 DEF Publish
    <3> QED
      BY <3>1, <3>2, <3>3, AppendProperties
  <2>4. ret' \in Results
    BY <1>5, <1>a, <1>b, ReturnTypes, Zenon DEF Publish
  <2>5. /\ write_lock' \in Writers \union {None}
        /\ wpc' \in [Writers -> {"idle", "prefix", "payload", "publish"}]
        /\ wat' \in [Writers -> 0 .. Capacity - 1]
        /\ wmsg' \in [Writers -> Messages \union {<<>>}]
        /\ HoldsMessage'
    BY SMT, <1>5, <1>c DEF Publish, TypeOK, HoldsMessage
  <2> QED
    BY <1>5, <2>1, <2>3, <2>4, <2>5, Zenon DEF Publish, TypeInv, TypeOK, Results
<1>6. ASSUME NEW t \in Readers, ReadEmpty(t)
      PROVE  TypeInv'
  <2>1. ret' \in Results
    BY <1>6, <1>a, <1>b, ReturnTypes, Zenon DEF ReadEmpty
  <2> QED
    BY <1>6, <2>1, Zenon DEF ReadEmpty, TypeInv, TypeOK, HoldsMessage, Results
<1>7. ASSUME NEW t \in Readers, BeginRead(t)
      PROVE  TypeInv'
  BY SMT, <1>7 DEF BeginRead, TypeInv, TypeOK, HoldsMessage
<1>8. ASSUME NEW t \in Readers, ReadPrefix(t)
      PROVE  TypeInv'
  <2>1. DecodedLen(rat[t]) \in Nat
    BY CellTypes, <1>d
  <2>2. DecodedLen(rat[t]) \in 0 .. BufLen
    BY SMT, <1>8, <2>1, ConstantsOK DEF ReadPrefix, TooLong
  <2> QED
    BY SMT, <1>8, <2>2 DEF ReadPrefix, TypeInv, TypeOK, HoldsMessage
<1>9. ASSUME NEW t \in Readers, ReadInvalid(t)
      PROVE  TypeInv'
  <2>1. ret' \in Results
    BY <1>9, <1>a, <1>b, ReturnTypes, Zenon DEF ReadInvalid
  <2>2. /\ read_lock' \in Readers \union {None}
        /\ rpc' \in [Readers -> {"idle", "prefix", "copy", "advance"}]
        /\ rat' \in [Readers -> 0 .. Capacity - 1]
    BY SMT, <1>9, <1>c DEF ReadInvalid, TypeOK
  <2> QED
    BY <1>9, <2>1, <2>2, Zenon DEF ReadInvalid, TypeInv, TypeOK, HoldsMessage, Results
<1>10. ASSUME NEW t \in Readers, CopyOut(t)
       PROVE  TypeInv'
  <2> DEFINE n == rlen[t]
             cell(k) == data[Plus(rat[t], PrefixLen + k - 1)]
  <2>1. n \in Nat
    BY <1>e
  <2>2. ASSUME NEW k \in 1 .. n
        PROVE  cell(k) \in Byte
    <3>1. PrefixLen + k - 1 \in Nat
      BY SMT, <2>1 DEF PrefixLen
    <3> QED
      BY <3>1, <1>d, CellTypes
  <2>3. rbuf' = [rbuf EXCEPT ![t] = [k \in 1 .. n |-> cell(k)]]
    BY <1>10 DEF CopyOut
  <2> HIDE DEF n, cell
  <2>4. [k \in 1 .. n |-> cell(k)] \in Seq(Byte)
    BY SMT, <2>1, <2>2
  <2>5. rbuf' \in [Readers -> Seq(Byte)]
    BY <2>3, <2>4, Zenon DEF TypeOK
  <2>6. rpc' \in [Readers -> {"idle", "prefix", "copy", "advance"}]
    BY SMT, <1>10 DEF CopyOut, TypeOK
  <2> QED
    BY <1>10, <2>5, <2>6, Zenon DEF CopyOut, TypeInv, TypeOK, HoldsMessage
<1>11. ASSUME NEW t \in Readers, Advance(t)
       PROVE  TypeInv'
  <2>1. read_pos' \in 0 .. Capacity - 1
    <3>1. PrefixLen + rlen[t] \in Nat
      BY SMT, <1>e DEF PrefixLen
    <3> QED
      BY <3>1, <1>d, PlusRange, <1>11 DEF Advance, NextReadPos, Pos
  <2>2. frames' \in Seq([pos : 0 .. Capacity - 1, msg : Messages])
    <3>1. frames \in Seq([pos : 0 .. Capacity - 1, msg : Messages])
      BY DEF TypeOK
    <3>2. frames' = IF frames = <<>> THEN frames ELSE Tail(frames)
      BY <1>11 DEF Advance
    <3> QED
      BY <3>1, <3>2, HeadTailProperties
  <2>3. ret' \in Results
    <3>1. rbuf[t] \in Seq(Byte)
      BY DEF TypeOK
    <3> QED
      BY <1>11, <3>1, <1>b, ReturnTypes, Zenon DEF Advance
  <2>4. /\ read_lock' \in Readers \union {None}
        /\ rpc' \in [Readers -> {"idle", "prefix", "copy", "advance"}]
        /\ rat' \in [Readers -> 0 .. Capacity - 1]
        /\ rlen' \in [Readers -> 0 .. BufLen]
    BY SMT, <1>11, <1>c DEF Advance, TypeOK
  <2>5. rbuf' \in [Readers -> Seq(Byte)]
    BY <1>11, <1>a, Zenon DEF Advance, TypeOK
  <2> QED
    BY <1>11, <2>1, <2>2, <2>3, <2>4, <2>5, Zenon
    DEF Advance, TypeInv, TypeOK, HoldsMessage, Results
<1>12. CASE UNCHANGED vars
  BY <1>12, Zenon DEF vars, TypeInv, TypeOK, HoldsMessage
<1> QED
  BY <1>1, <1>2, <1>3, <1>4, <1>5, <1>6, <1>7, <1>8, <1>9, <1>10, <1>11, <1>12
  DEF Next, WriterStep, ReaderStep

\* Positions stay in the data area, only bytes are stored and read, and every
\* call's local variables have their types, in every reachable state: also
\* when a straddling prefix makes a reader decode an arbitrary length.
THEOREM TypeCorrect == Spec => []TypeOK
<1>1. TypeInv => TypeOK
  BY DEF TypeInv
<1> QED
  BY TypeInit, TypeStep, <1>1, PTL DEF Spec

-----------------------------------------------------------------------------
\* Frames and the cells they occupy.

LEMMA UsedRange == TypeOK => /\ write_pos \in Pos
                             /\ read_pos \in Pos
                             /\ Used \in Pos
BY DistRange DEF TypeOK, Used, Pos

LEMMA FrameTypes ==
    ASSUME TypeOK, NEW n \in 1 .. Len(frames)
    PROVE  /\ frames[n].pos \in Pos
           /\ frames[n].msg \in Messages
           /\ frames[n].msg \in Seq(Byte)
           /\ Len(frames[n].msg) \in Nat
           /\ Size(n) = 4 + Len(frames[n].msg)
           /\ Start(n) \in Pos
<1>1. frames[n] \in [pos : 0 .. Capacity - 1, msg : Messages]
  BY ElementOfSeq DEF TypeOK
<1>2. frames[n].pos \in Pos /\ frames[n].msg \in Messages
  BY <1>1, Zenon DEF Pos
<1>3. frames[n].msg \in Seq(Byte) /\ Len(frames[n].msg) \in Nat
  BY <1>2, MessageTypes
<1>4. Size(n) = 4 + Len(frames[n].msg)
  BY DEF Size, FrameSize, PrefixLen
<1>5. Start(n) \in Pos
  BY <1>2, UsedRange, DistRange DEF Start
<1> QED
  BY <1>2, <1>3, <1>4, <1>5

\* The cells of a queued frame are the ones in use.
LEMMA FrameCells ==
    ASSUME TypeOK, FramesTile, NEW n \in 1 .. Len(frames),
           NEW k \in Nat, k < Size(n)
    PROVE  /\ Plus(frames[n].pos, k) \in Pos
           /\ Dist(read_pos, Plus(frames[n].pos, k)) < Used
<1>1. frames[n].pos \in Pos /\ Start(n) \in Pos
  BY FrameTypes
<1>2. Start(n) + Size(n) <= Used
  BY DEF FramesTile, Start, Size
<1>3. read_pos \in Pos /\ Used \in Pos
  BY UsedRange
<1>4. Start(n) + k < Capacity /\ Start(n) + k < Used
  <2>1. Size(n) \in Int
    BY SMT, FrameTypes
  <2> QED
    BY SMT, <1>1, <1>2, <1>3, <2>1, CapacityRange DEF Pos
<1>5. Dist(read_pos, Plus(frames[n].pos, k)) = Start(n) + k
  BY <1>1, <1>3, <1>4, DistPlus DEF Start
<1> QED
  BY <1>1, <1>4, <1>5, PlusRange

\* The cells behind write_pos are not in use.
LEMMA NewCells ==
    ASSUME TypeOK, NEW k \in Nat, Used + k < Capacity
    PROVE  /\ Plus(write_pos, k) \in Pos
           /\ Dist(read_pos, Plus(write_pos, k)) = Used + k
BY UsedRange, PlusRange, DistPlus DEF Used

\* A cell at a distance of less than the free space behind write_pos.
LEMMA NewCellAt ==
    ASSUME TypeOK, NEW i \in Pos, Used + Dist(write_pos, i) < Capacity
    PROVE  Dist(read_pos, i) = Used + Dist(write_pos, i)
<1>1. Dist(write_pos, i) \in Nat
  BY SMT, UsedRange, DistRange DEF Pos
<1>2. Plus(write_pos, Dist(write_pos, i)) = i
  BY UsedRange, PlusDist
<1> QED
  BY <1>1, <1>2, NewCells

LEMMA DecodedLenIs ==
    \A p : /\ DecodedLen(p) = LenAt(data, p)
           /\ DecodedLen(p)' = LenAt(data', p)
BY SMT DEF DecodedLen, FromLeBytes, LenAt

LEMMA FramesIntactIs ==
    /\ FramesIntact <=>
         \A n \in 1 .. Len(frames) : /\ LenAt(data, frames[n].pos) = Len(frames[n].msg)
                                     /\ PayloadIn(data, frames[n].pos, frames[n].msg)
    /\ FramesIntact' <=>
         \A n \in 1 .. Len(frames') : /\ LenAt(data', frames'[n].pos) = Len(frames'[n].msg)
                                      /\ PayloadIn(data', frames'[n].pos, frames'[n].msg)
<1>1. \A n \in 1 .. Len(frames) : DecodedLen(frames[n].pos) = LenAt(data, frames[n].pos)
  BY SMT DEF DecodedLen, FromLeBytes, LenAt
<1>2. \A n \in 1 .. Len(frames') : DecodedLen(frames[n].pos)' = LenAt(data', frames'[n].pos)
  BY SMT DEF DecodedLen, FromLeBytes, LenAt
<1> HIDE DEF DecodedLen
<1>3. FramesIntact <=>
         \A n \in 1 .. Len(frames) : /\ LenAt(data, frames[n].pos) = Len(frames[n].msg)
                                     /\ PayloadIn(data, frames[n].pos, frames[n].msg)
  BY <1>1 DEF FramesIntact, PayloadIn
<1>4. FramesIntact' <=>
         \A n \in 1 .. Len(frames') : /\ LenAt(data', frames'[n].pos) = Len(frames'[n].msg)
                                      /\ PayloadIn(data', frames'[n].pos, frames'[n].msg)
  BY <1>2 DEF FramesIntact, PayloadIn
<1> QED
  BY <1>3, <1>4

\* Two memories that agree on a frame's cells hold the same frame.
LEMMA SameFrame ==
    ASSUME NEW d, NEW e, NEW p \in Pos, NEW m \in Seq(Byte),
           \A k \in Nat : k < 4 + Len(m) => e[Plus(p, k)] = d[Plus(p, k)]
    PROVE  /\ LenAt(e, p) = LenAt(d, p)
           /\ PayloadIn(d, p, m) => PayloadIn(e, p, m)
<1>1. Len(m) \in Nat
  BY SMT
<1>2. LenAt(e, p) = LenAt(d, p)
  <2>1. /\ e[Plus(p, 0)] = d[Plus(p, 0)]
        /\ e[Plus(p, 1)] = d[Plus(p, 1)]
        /\ e[Plus(p, 2)] = d[Plus(p, 2)]
        /\ e[Plus(p, 3)] = d[Plus(p, 3)]
    BY SMT, <1>1
  <2> QED
    BY <2>1 DEF LenAt
<1>3. ASSUME NEW k \in 1 .. Len(m)
      PROVE  e[Plus(p, PrefixLen + k - 1)] = d[Plus(p, PrefixLen + k - 1)]
  <2>1. PrefixLen + k - 1 \in Nat /\ PrefixLen + k - 1 < 4 + Len(m)
    BY SMT, <1>1 DEF PrefixLen
  <2> QED
    BY <2>1
<1> QED
  BY <1>2, <1>3, Zenon DEF PayloadIn

\* A step that writes only to cells that are not in use harms no queued frame.
LEMMA FramesUntouched ==
    ASSUME TypeOK, FramesTile, FramesIntact, frames' = frames,
           \A i \in Pos : Dist(read_pos, i) < Used => data'[i] = data[i]
    PROVE  FramesIntact'
<1> SUFFICES ASSUME NEW n \in 1 .. Len(frames)
             PROVE  /\ LenAt(data', frames[n].pos) = Len(frames[n].msg)
                    /\ PayloadIn(data', frames[n].pos, frames[n].msg)
  BY FramesIntactIs
<1> DEFINE p == frames[n].pos
           m == frames[n].msg
<1>1. p \in Pos /\ m \in Seq(Byte) /\ Size(n) = 4 + Len(m)
  BY FrameTypes
<1>2. ASSUME NEW k \in Nat, k < 4 + Len(m)
      PROVE  data'[Plus(p, k)] = data[Plus(p, k)]
  BY <1>1, <1>2, FrameCells
<1>3. LenAt(data, p) = Len(m) /\ PayloadIn(data, p, m)
  BY FramesIntactIs
<1> QED
  BY <1>1, <1>2, <1>3, SameFrame

LEMMA PlusAligned ==
    ASSUME Aligned, NEW p \in Pos, NEW n \in Nat, n <= Capacity, p % 4 = 0, n % 4 = 0
    PROVE  Plus(p, n) % 4 = 0
<1>1. Plus(p, n) = IF p + n < Capacity THEN p + n ELSE p + n - Capacity
  BY PlusIs
<1>2. Capacity % 4 = 0
  BY DEF Aligned
<1> QED
  BY SMT, <1>1, <1>2, CapacityRange DEF Pos

LEMMA FrameSizeAligned ==
    ASSUME Aligned, NEW m \in Messages
    PROVE  FrameSize(m) % 4 = 0
<1>1. Len(m) \in Nat /\ Len(m) % 4 = 0
  BY MessageTypes DEF Aligned
<1> QED
  BY SMT, <1>1 DEF FrameSize, PrefixLen

\* What the comparison in write() establishes.
LEMMA AvailableIs == TypeOK => Available = Capacity - 1 - Used
BY SMT, UsedRange, CapacityRange DEF Available, Used, Dist, Pos

-----------------------------------------------------------------------------
\* The invariant is inductive: one lemma per action that disturbs it.

LEMMA InitIInv == Init => IInv
<1> SUFFICES ASSUME Init PROVE IInv
  OBVIOUS
<1>1. TypeOK
  BY TypeInit DEF TypeInv
<1>2. frames = <<>> /\ Len(frames) = 0 /\ write_pos = 0 /\ read_pos = 0
  BY SMT DEF Init
<1>3. LockInv
  BY SMT, ConstantsOK DEF Init, LockInv
<1>4. AlignInv
  BY SMT, <1>2 DEF AlignInv
<1>5. TileInv /\ FramesIntact
  BY SMT, <1>2 DEF TileInv, FramesTile, FramesIntact
<1>6. WriterInv /\ ReaderInv
  BY Zenon DEF Init, WriterInv, ReaderInv
<1> QED
  BY <1>1, <1>3, <1>4, <1>5, <1>6 DEF IInv

LEMMA SameFrames ==
    ASSUME AlignInv, TileInv, UNCHANGED <<header, frames>>
    PROVE  /\ AlignInv' /\ TileInv' /\ Used' = Used
           /\ UNCHANGED data /\ FramesIntact => FramesIntact'
<1>1. write_pos' = write_pos /\ read_pos' = read_pos /\ frames' = frames
  BY DEF header
<1> QED
  BY <1>1 DEF AlignInv, TileInv, FramesTile, FramesIntact, Start, Size, Used, DecodedLen

\* The steps of other threads, and calls that return at once.
LEMMA SameThreads ==
    ASSUME LockInv, WriterInv, ReaderInv, UNCHANGED <<header, data, frames, wvars, rvars>>
    PROVE  LockInv' /\ WriterInv' /\ ReaderInv'
BY DEF header, wvars, rvars, LockInv, WriterInv, ReaderInv, Used

\* A writer inside write() is the only one.
LEMMA WriterAlone ==
    ASSUME LockInv, NEW t \in Writers, wpc[t] # "idle"
    PROVE  write_lock = t /\ \A u \in Writers \ {t} : wpc[u] = "idle"
BY DEF LockInv

LEMMA ReaderAlone ==
    ASSUME LockInv, NEW t \in Readers, rpc[t] # "idle"
    PROVE  read_lock = t /\ \A u \in Readers \ {t} : rpc[u] = "idle"
BY DEF LockInv

LEMMA NoneIsNoThread == None \notin Writers /\ None \notin Readers
BY ConstantsOK, Zenon

\* A reader's knowledge survives every step of a writer.
LEMMA ReaderKept ==
    ASSUME ReaderInv, UNCHANGED <<read_pos, rvars>>, frames # <<>> => frames' # <<>>,
           frames # <<>> => frames'[1] = frames[1]
    PROVE  ReaderInv'
<1>1. rpc' = rpc /\ rat' = rat /\ rlen' = rlen /\ rbuf' = rbuf /\ read_pos' = read_pos
  BY DEF rvars
<1> QED
  BY <1>1 DEF ReaderInv

\* A writer's knowledge survives every step of a reader, which can only make room.
LEMMA WriterKept ==
    ASSUME TypeOK, TypeOK', WriterInv, UNCHANGED <<write_pos, data, wvars>>, Used' <= Used
    PROVE  WriterInv'
<1>1. wpc' = wpc /\ wat' = wat /\ wmsg' = wmsg /\ write_pos' = write_pos /\ data' = data
  BY DEF wvars
<1>2. Used \in Int /\ Used' \in Int
  <2>1. Used \in Pos
    BY UsedRange
  <2>2. Used' \in Pos
    BY DistRange DEF Used, TypeOK, Pos
  <2> QED
    BY SMT, <2>1, <2>2 DEF Pos
<1> SUFFICES ASSUME NEW t \in Writers, wpc[t] # "idle"
             PROVE  Used' + FrameSize(wmsg[t]) <= Capacity - 1
  BY <1>1, Zenon DEF WriterInv
<1>3. Used + FrameSize(wmsg[t]) <= Capacity - 1
  BY DEF WriterInv
<1>4. FrameSize(wmsg[t]) \in Int
  BY SMT, MessageTypes DEF TypeOK
<1> QED
  BY SMT, <1>2, <1>3, <1>4, CapacityRange

LEMMA BeginWriteStep ==
    ASSUME IInv, TypeOK', NEW t \in Writers, NEW m \in Messages, BeginWrite(t, m)
    PROVE  IInv'
<1> USE DEF IInv
<1>1. /\ write_lock = None /\ write_lock' = t
      /\ wpc' = [wpc EXCEPT ![t] = "prefix"]
      /\ wat' = [wat EXCEPT ![t] = write_pos]
      /\ wmsg' = [wmsg EXCEPT ![t] = m]
      /\ UNCHANGED <<header, data, rvars, frames>>
  BY DEF BeginWrite, CanLockWrite
<1>2. AlignInv' /\ TileInv' /\ Used' = Used /\ FramesIntact'
  BY <1>1, SameFrames
<1>3. \A u \in Writers : wpc[u] = "idle"
  BY <1>1, NoneIsNoThread DEF LockInv
<1>4. LockInv'
  BY SMT, <1>1, <1>3 DEF LockInv, TypeOK, rvars
<1>5. Used + FrameSize(m) <= Capacity - 1
  <2>1. Available >= FrameSize(m)
    BY DEF BeginWrite
  <2>2. FrameSize(m) \in Int /\ Used \in Int
    BY SMT, MessageTypes, UsedRange DEF Pos
  <2> QED
    BY SMT, <2>1, <2>2, AvailableIs, CapacityRange
<1>6. WriterInv'
  <2>1. \A u \in Writers : wpc'[u] # "idle" => u = t
    BY SMT, <1>1, <1>3 DEF TypeOK
  <2>2. wpc'[t] = "prefix" /\ wat'[t] = write_pos /\ wmsg'[t] = m /\ write_pos' = write_pos
    BY SMT, <1>1 DEF TypeOK, header
  <2> QED
    BY SMT, <1>2, <1>5, <2>1, <2>2 DEF WriterInv
<1>7. ReaderInv'
  BY <1>1, ReaderKept DEF header
<1> QED
  BY <1>2, <1>4, <1>6, <1>7

LEMMA WritePrefixStep ==
    ASSUME Aligned, IInv, TypeOK', NEW t \in Writers, WritePrefix(t)
    PROVE  IInv'
<1> USE DEF IInv
<1> DEFINE m == wmsg[t]
           b == ToLeBytes(Len(m))
<1>1. /\ wpc[t] = "prefix"
      /\ wpc' = [wpc EXCEPT ![t] = "payload"]
      /\ UNCHANGED <<header, write_lock, wat, wmsg, rvars, frames>>
  BY DEF WritePrefix
<1>2. wat[t] = write_pos /\ m \in Messages /\ Used + FrameSize(m) <= Capacity - 1
  BY <1>1 DEF WriterInv
<1>3. /\ Used \in Pos /\ write_pos \in Pos /\ read_pos \in Pos
      /\ Len(m) \in Nat /\ FrameSize(m) = 4 + Len(m)
  BY <1>2, UsedRange, MessageTypes DEF FrameSize, PrefixLen
<1>4. data' = [i \in 0 .. Capacity + 2 |-> IF i \in write_pos .. write_pos + 3
                                           THEN b[i - write_pos + 1] ELSE data[i]]
  BY <1>2 DEF WritePrefix, TypeOK
<1> HIDE DEF m, b
<1>5. \A k \in 0 .. 3 : Plus(write_pos, k) = write_pos + k
  <2>1. write_pos + 3 < Capacity
    BY SMT, <1>3, CapacityRange DEF AlignInv, Aligned, Pos
  <2> SUFFICES ASSUME NEW k \in 0 .. 3
               PROVE  Plus(write_pos, k) = write_pos + k
    OBVIOUS
  <2>2. k \in Nat /\ k <= Capacity /\ write_pos + k < Capacity
    BY SMT, <2>1, <1>3, CapacityRange DEF Pos
  <2> QED
    BY <2>2, <1>3, PlusIs
<1>6. \A i \in Pos : Dist(read_pos, i) < Used => data'[i] = data[i]
  <2> SUFFICES ASSUME NEW i \in Pos, i \in write_pos .. write_pos + 3
               PROVE  ~(Dist(read_pos, i) < Used)
    BY SMT, <1>4, CapacityRange DEF Pos
  <2> DEFINE k == i - write_pos
  <2>1. k \in 0 .. 3 /\ write_pos + k = i /\ k \in Nat
    BY SMT, <1>3 DEF Pos
  <2>2. Used + k < Capacity
    BY SMT, <2>1, <1>2, <1>3, CapacityRange DEF Pos
  <2> HIDE DEF k
  <2>3. Dist(read_pos, i) = Used + k
    BY <2>1, <2>2, <1>5, NewCells
  <2> QED
    BY SMT, <2>1, <2>3, <1>3 DEF Pos
<1>7. LenAt(data', write_pos) = Len(m)
  <2>1. ASSUME NEW k \in 0 .. 3
        PROVE  data'[write_pos + k] = b[k + 1]
    <3> DEFINE i == write_pos + k
    <3>1. /\ i \in 0 .. Capacity + 2
          /\ i \in write_pos .. write_pos + 3
          /\ i - write_pos + 1 = k + 1
      BY SMT, <1>3, CapacityRange DEF Pos
    <3> HIDE DEF i
    <3>2. data'[i] = b[i - write_pos + 1]
      BY <1>4, <3>1
    <3> QED
      BY <3>1, <3>2 DEF i
  <2>2. LenAt(data', write_pos) = b[1] + 256 * b[2] + 65536 * b[3] + 16777216 * b[4]
    BY SMT, <2>1, <1>5 DEF LenAt
  <2>3. Len(m) <= MaxCapacity
    <3>1. MaxCapacity \in Int
      BY SMT DEF MaxCapacity
    <3>2. Capacity <= MaxCapacity
      BY SMT, <3>1, ConstantsOK DEF PrefixLen
    <3> QED
      BY SMT, <3>1, <3>2, <1>2, <1>3, CapacityRange DEF Pos
  <2> QED
    BY <2>2, <2>3, <1>3, LeRoundTrip DEF b, FromLeBytes
<1>8. AlignInv' /\ TileInv' /\ Used' = Used
  BY <1>1, SameFrames
<1>9. FramesIntact'
  BY <1>1, <1>6, FramesUntouched DEF TileInv
<1>10. LockInv'
  BY SMT, <1>1 DEF LockInv, TypeOK, rvars
<1>11. WriterInv'
  <2>1. \A u \in Writers : wpc'[u] # "idle" => u = t
    BY SMT, <1>1, WriterAlone DEF TypeOK
  <2>2. wpc'[t] = "payload" /\ wat'[t] = write_pos' /\ wmsg'[t] = m /\ write_pos' = write_pos
    BY SMT, <1>1, <1>2 DEF TypeOK, header, m
  <2> QED
    BY SMT, <1>2, <1>7, <1>8, <2>1, <2>2 DEF WriterInv
<1>12. ReaderInv'
  BY <1>1, ReaderKept DEF header
<1> QED
  BY <1>8, <1>9, <1>10, <1>11, <1>12

LEMMA WritePayloadStep ==
    ASSUME IInv, TypeOK', NEW t \in Writers, WritePayload(t)
    PROVE  IInv'
<1> USE DEF IInv
<1> DEFINE m == wmsg[t]
           start == Plus(write_pos, 4)
<1>1. /\ wpc[t] = "payload"
      /\ wpc' = [wpc EXCEPT ![t] = "publish"]
      /\ UNCHANGED <<header, write_lock, wat, wmsg, rvars, frames>>
  BY DEF WritePayload
<1>2. /\ wat[t] = write_pos /\ m \in Messages /\ Used + FrameSize(m) <= Capacity - 1
      /\ LenAt(data, write_pos) = Len(m)
  BY <1>1 DEF WriterInv
<1>3. /\ Used \in Pos /\ write_pos \in Pos /\ read_pos \in Pos
      /\ m \in Seq(Byte) /\ Len(m) \in Nat /\ FrameSize(m) = 4 + Len(m)
  BY <1>2, UsedRange, MessageTypes DEF FrameSize, PrefixLen
<1>4. data' = [i \in 0 .. Capacity + 2 |-> IF InPayload(start, Len(m), i)
                                           THEN m[Dist(start, i) + 1] ELSE data[i]]
  BY <1>2 DEF WritePayload, TypeOK, PrefixLen
<1>5. start \in Pos
  BY <1>3, PlusRange, SMT
<1> HIDE DEF m
<1>6. \* how far the cells behind start are from read_pos
      ASSUME NEW d \in Nat, d < Len(m)
      PROVE  /\ Plus(start, d) = Plus(write_pos, 4 + d)
             /\ Plus(start, d) \in Pos
             /\ Dist(read_pos, Plus(start, d)) = Used + 4 + d
             /\ Dist(start, Plus(start, d)) = d
  <2>1. /\ 4 \in Nat /\ 4 + d \in Nat /\ 4 + d < Capacity /\ Used + (4 + d) < Capacity
        /\ Used + (4 + d) = Used + 4 + d
    <3>1. Used \in Nat
      BY SMT, <1>3, CapacityRange DEF Pos
    <3>2. Used + FrameSize(m) <= Capacity - 1
      BY <1>2
    <3> HIDE DEF start
    <3> QED
      BY SMT, <3>1, <3>2, <1>3, <1>6, CapacityRange
  <2>2. Plus(start, d) = Plus(write_pos, 4 + d)
    BY <2>1, <1>3, PlusPlus
  <2>3. Dist(read_pos, Plus(write_pos, 4 + d)) = Used + (4 + d)
    BY <2>1, NewCells
  <2>4. Dist(start, start) = 0 /\ 0 + d < Capacity
    BY SMT, <1>5, <2>1, CapacityRange DEF Dist, Pos
  <2>5. Dist(start, Plus(start, d)) = Dist(start, start) + d
    BY <1>5, <2>4, DistPlus
  <2> HIDE DEF start
  <2>6. Plus(start, d) \in Pos
    BY <1>5, PlusRange
  <2> QED
    BY SMT, <2>1, <2>2, <2>3, <2>4, <2>5, <2>6
<1> HIDE DEF start
<1>7. \* a cell that the copy changes is behind the prefix of the new frame
      \A i \in Pos : Dist(read_pos, i) < Used + 4 => data'[i] = data[i]
  <2> SUFFICES ASSUME NEW i \in Pos, InPayload(start, Len(m), i)
               PROVE  ~(Dist(read_pos, i) < Used + 4)
    BY SMT, <1>4, CapacityRange DEF Pos
  <2> DEFINE d == Dist(start, i)
  <2>1. d \in Nat /\ d < Len(m)
    <3>1. d \in Pos
      BY <1>5, DistRange
    <3> QED
      BY SMT, <3>1, CapacityRange DEF InPayload, Pos
  <2>2. Plus(start, d) = i
    BY <1>5, PlusDist
  <2> HIDE DEF d
  <2>3. Dist(read_pos, i) = Used + 4 + d
    BY <2>1, <2>2, <1>6
  <2> QED
    BY SMT, <2>1, <2>3, <1>3 DEF Pos
<1>8. LenAt(data', write_pos) = Len(m)
  <2>1. ASSUME NEW k \in 0 .. 3
        PROVE  data'[Plus(write_pos, k)] = data[Plus(write_pos, k)]
    <3>1. k \in Nat /\ Used + k < Capacity
      BY SMT, <1>2, <1>3, CapacityRange DEF Pos
    <3>2. /\ Plus(write_pos, k) \in Pos
          /\ Dist(read_pos, Plus(write_pos, k)) = Used + k
      BY <3>1, NewCells
    <3>3. Used + k < Used + 4
      BY SMT, <1>3 DEF Pos
    <3> QED
      BY <3>2, <3>3, <1>7
  <2>2. /\ data'[Plus(write_pos, 0)] = data[Plus(write_pos, 0)]
        /\ data'[Plus(write_pos, 1)] = data[Plus(write_pos, 1)]
        /\ data'[Plus(write_pos, 2)] = data[Plus(write_pos, 2)]
        /\ data'[Plus(write_pos, 3)] = data[Plus(write_pos, 3)]
    BY SMT, <2>1
  <2> QED
    BY <2>2, <1>2 DEF LenAt
<1>9. PayloadIn(data', write_pos, m)
  <2> SUFFICES ASSUME NEW k \in 1 .. Len(m)
               PROVE  data'[Plus(write_pos, PrefixLen + k - 1)] = m[k]
    BY DEF PayloadIn
  <2> DEFINE d == k - 1
             i == Plus(start, d)
  <2>1. d \in Nat /\ d < Len(m) /\ d + 1 = k /\ PrefixLen + k - 1 = 4 + d
    BY SMT, <1>3 DEF PrefixLen
  <2> HIDE DEF d
  <2>2. /\ i = Plus(write_pos, PrefixLen + k - 1)
        /\ i \in Pos
        /\ Dist(start, i) = d
    BY <2>1, <1>6
  <2> HIDE DEF i
  <2>3. InPayload(start, Len(m), i) /\ i \in 0 .. Capacity + 2
    BY SMT, <2>1, <2>2, CapacityRange DEF InPayload, Pos
  <2>4. data'[i] = m[Dist(start, i) + 1]
    BY <2>3, <1>4, Zenon
  <2> QED
    BY <2>1, <2>2, <2>4
<1>10. AlignInv' /\ TileInv' /\ Used' = Used
  BY <1>1, SameFrames
<1>11. FramesIntact'
  <2>1. \A i \in Pos : Dist(read_pos, i) < Used => data'[i] = data[i]
    <3> SUFFICES ASSUME NEW i \in Pos, Dist(read_pos, i) < Used
                 PROVE  Dist(read_pos, i) < Used + 4
      BY <1>7
    <3>1. Dist(read_pos, i) \in Pos
      BY <1>3, DistRange
    <3> QED
      BY SMT, <3>1, <1>3 DEF Pos
  <2> QED
    BY <1>1, <2>1, FramesUntouched DEF TileInv
<1>12. LockInv'
  BY SMT, <1>1 DEF LockInv, TypeOK, rvars
<1>13. WriterInv'
  <2>1. \A u \in Writers : wpc'[u] # "idle" => u = t
    BY SMT, <1>1, WriterAlone DEF TypeOK
  <2>2. wpc'[t] = "publish" /\ wat'[t] = write_pos' /\ wmsg'[t] = m /\ write_pos' = write_pos
    BY SMT, <1>1, <1>2 DEF TypeOK, header, m
  <2> QED
    BY SMT, <1>2, <1>8, <1>9, <1>10, <2>1, <2>2 DEF WriterInv
<1>14. ReaderInv'
  BY <1>1, ReaderKept DEF header
<1> QED
  BY <1>10, <1>11, <1>12, <1>13, <1>14

LEMMA PublishStep ==
    ASSUME Aligned, IInv, TypeOK', NEW t \in Writers, Publish(t)
    PROVE  IInv' /\ Used' = Used + FrameSize(wmsg[t])
<1> USE DEF IInv
<1> DEFINE m == wmsg[t]
           size == FrameSize(m)
           new == Len(frames) + 1
<1>1. /\ wpc[t] = "publish"
      /\ write_lock' = None
      /\ wpc' = [wpc EXCEPT ![t] = "idle"]
      /\ UNCHANGED <<read_pos, data, rvars>>
  BY DEF Publish
<1>2. /\ wat[t] = write_pos /\ m \in Messages /\ Used + size <= Capacity - 1
      /\ LenAt(data, write_pos) = Len(m)
      /\ PayloadIn(data, write_pos, m)
  BY <1>1 DEF WriterInv
<1>3. /\ Used \in Pos /\ write_pos \in Pos /\ read_pos \in Pos
      /\ Len(m) \in Nat /\ size \in Nat /\ size = 4 + Len(m)
  BY <1>2, UsedRange, MessageTypes DEF FrameSize, PrefixLen
<1>4. write_pos' = Plus(write_pos, size)
  BY <1>2 DEF Publish
<1>5. /\ frames' = Append(frames, [pos |-> write_pos, msg |-> m])
      /\ frames \in Seq([pos : Pos, msg : Messages])
  BY <1>2 DEF Publish, TypeOK, Pos
<1> HIDE DEF m, size
<1>6. /\ Len(frames) \in Nat
      /\ Len(frames') = new
      /\ frames'[new] = [pos |-> write_pos, msg |-> m]
      /\ \A n \in 1 .. Len(frames) : frames'[n] = frames[n]
      /\ frames' # <<>>
  <2> DEFINE e == [pos |-> write_pos, msg |-> m]
  <2>1. e \in [pos : Pos, msg : Messages]
    BY <1>2, <1>3, Zenon
  <2> HIDE DEF e
  <2>2. frames' = Append(frames, e)
    BY <1>5 DEF e
  <2>3. /\ Append(frames, e) \in Seq([pos : Pos, msg : Messages])
        /\ Append(frames, e) # <<>>
        /\ Len(Append(frames, e)) = Len(frames) + 1
        /\ \A n \in 1 .. Len(frames) : Append(frames, e)[n] = frames[n]
        /\ Append(frames, e)[Len(frames) + 1] = e
    BY <1>5, <2>1, AppendProperties
  <2>4. Len(frames) \in Nat
    BY <1>5, LenProperties
  <2> QED
    BY <2>2, <2>3, <2>4 DEF e
<1>7. Used' = Used + size /\ Used + size < Capacity
  <2>1. Used + size < Capacity
    BY SMT, <1>2, <1>3, CapacityRange DEF Pos
  <2> QED
    BY <1>1, <1>3, <1>4, <2>1, NewCells DEF Used
<1>8. AlignInv'
  <2>1. size % 4 = 0
    BY <1>2, FrameSizeAligned DEF size
  <2>2. size <= Capacity
    BY SMT, <1>3, <1>7, CapacityRange DEF Pos
  <2> QED
    BY <1>3, <1>4, <2>1, <2>2, PlusAligned DEF AlignInv
<1>9. \* where the frames start and how long they are
      /\ \A n \in 1 .. Len(frames) : Start(n)' = Start(n) /\ Size(n)' = Size(n)
      /\ \A n : n = new => Start(n)' = Used /\ Size(n)' = size
  BY <1>1, <1>6 DEF Start, Size, Used, size
<1>10. \A n \in 1 .. Len(frames) : /\ Start(n) \in Nat /\ Size(n) \in Nat
                                   /\ Start(n) + Size(n) <= Used
  <2> SUFFICES ASSUME NEW n \in 1 .. Len(frames)
               PROVE  /\ Start(n) \in Nat /\ Size(n) \in Nat
                      /\ Start(n) + Size(n) <= Used
    OBVIOUS
  <2>1. Start(n) \in Pos /\ Size(n) \in Nat
    BY FrameTypes, SMT
  <2>2. Start(n) + Size(n) <= Used
    BY DEF TileInv, FramesTile, Start, Size
  <2> QED
    BY SMT, <2>1, <2>2 DEF Pos
<1>11. FramesTile'
  <2>1. frames'[1].pos = read_pos'
    <3>1. CASE frames = <<>>
      <4>1. new = 1
        BY SMT, <3>1
      <4>2. write_pos = read_pos
        BY <3>1 DEF TileInv, FramesTile
      <4> QED
        BY <1>1, <1>6, <4>1, <4>2
    <3>2. CASE frames # <<>>
      <4>1. 1 \in 1 .. Len(frames)
        BY SMT, <3>2, <1>5, <1>6, EmptySeq
      <4> QED
        BY <1>1, <1>6, <3>2, <4>1 DEF TileInv, FramesTile
    <3> QED
      BY <3>1, <3>2
  <2>2. ASSUME NEW n \in 1 .. Len(frames')
        PROVE  Start(n)' + Size(n)' <= Used'
    <3>1. n \in 1 .. Len(frames) \/ n = new
      BY SMT, <1>6
    <3>2. CASE n \in 1 .. Len(frames)
      <4>1. Start(n)' = Start(n) /\ Size(n)' = Size(n)
        BY <1>9, <3>2
      <4>2. Start(n) \in Nat /\ Size(n) \in Nat /\ Start(n) + Size(n) <= Used
        BY <1>10, <3>2
      <4> QED
        BY SMT, <4>1, <4>2, <1>3, <1>7 DEF Pos
    <3>3. CASE n = new
      <4>1. Start(n)' = Used /\ Size(n)' = size
        BY <1>9, <3>3
      <4> QED
        BY SMT, <4>1, <1>3, <1>7 DEF Pos
    <3> QED
      BY <3>1, <3>2, <3>3
  <2>3. ASSUME NEW n \in 1 .. Len(frames')
        PROVE  Plus(frames'[n].pos, FrameSize(frames'[n].msg))
                   = IF n = Len(frames') THEN write_pos' ELSE frames'[n + 1].pos
    <3>1. CASE n = new
      BY <3>1, <1>4, <1>6 DEF size
    <3>2. CASE n \in 1 .. Len(frames) /\ n # Len(frames)
      <4>1. n + 1 \in 1 .. Len(frames) /\ n # new
        BY SMT, <3>2, <1>6
      <4>2. Plus(frames[n].pos, FrameSize(frames[n].msg)) = frames[n + 1].pos
        BY <3>2 DEF TileInv, FramesTile
      <4> QED
        BY <3>2, <4>1, <4>2, <1>6
    <3>3. CASE n = Len(frames)
      <4>1. n \in 1 .. Len(frames) /\ n + 1 = new /\ n # new
        BY SMT, <3>3, <1>6
      <4>2. Plus(frames[n].pos, FrameSize(frames[n].msg)) = write_pos
        BY <3>3, <4>1 DEF TileInv, FramesTile
      <4> QED
        BY <4>1, <4>2, <1>6
    <3>4. n = new \/ (n \in 1 .. Len(frames) /\ n # Len(frames)) \/ n = Len(frames)
      BY SMT, <1>6
    <3> QED
      BY <3>1, <3>2, <3>3, <3>4
  <2> QED
    BY <1>6, <2>1, <2>2, <2>3, Zenon DEF FramesTile, Start, Size
<1>12. ASSUME NEW k \in 1 .. Len(frames'), NEW n \in 1 .. Len(frames'), k < n
       PROVE  Start(k)' + Size(k)' <= Start(n)'
  <2>1. k \in 1 .. Len(frames) /\ (n \in 1 .. Len(frames) \/ n = new)
    BY SMT, <1>6, <1>12
  <2>2. CASE n \in 1 .. Len(frames)
    BY <1>9, <1>12, <2>1, <2>2 DEF TileInv
  <2>3. CASE n = new
    <3>1. Start(k)' = Start(k) /\ Size(k)' = Size(k) /\ Start(n)' = Used
      BY <1>9, <2>1, <2>3
    <3> QED
      BY <3>1, <1>10, <2>1
  <2> QED
    BY <2>1, <2>2, <2>3
<1>13. FramesIntact'
  <2> SUFFICES ASSUME NEW n \in 1 .. Len(frames')
               PROVE  /\ LenAt(data', frames'[n].pos) = Len(frames'[n].msg)
                      /\ PayloadIn(data', frames'[n].pos, frames'[n].msg)
    BY FramesIntactIs
  <2>1. n \in 1 .. Len(frames) \/ n = new
    BY SMT, <1>6
  <2>2. CASE n \in 1 .. Len(frames)
    BY <1>1, <1>6, <2>2, FramesIntactIs
  <2>3. CASE n = new
    BY <1>1, <1>2, <1>6, <2>3
  <2> QED
    BY <2>1, <2>2, <2>3
<1>14. \A u \in Writers : wpc'[u] = "idle"
  BY SMT, <1>1, WriterAlone DEF TypeOK
<1>15. LockInv' /\ WriterInv'
  BY <1>1, <1>14, NoneIsNoThread DEF LockInv, WriterInv, rvars
<1>16. ReaderInv'
  <2>1. frames # <<>> => 1 \in 1 .. Len(frames)
    BY SMT, <1>5, EmptySeq
  <2> QED
    BY <1>1, <1>6, <2>1, ReaderKept
<1> QED
  BY <1>7, <1>8, <1>11, <1>12, <1>13, <1>15, <1>16 DEF TileInv, size, m

\* The frame at the head, when a reader has found the ring not empty.
LEMMA HeadFrame ==
    ASSUME TypeOK, TileInv, FramesIntact, frames # <<>>
    PROVE  /\ 1 \in 1 .. Len(frames) /\ Len(frames) \in Nat
           /\ frames[1].pos = read_pos
           /\ DecodedLen(read_pos) = Len(frames[1].msg)
           /\ Start(1) = 0
           /\ Size(1) \in Nat /\ Size(1) = 4 + Len(frames[1].msg) /\ Size(1) <= Used
<1>1. frames \in Seq([pos : Pos, msg : Messages])
  BY DEF TypeOK, Pos
<1>2. Len(frames) \in Nat \ {0}
  BY <1>1, EmptySeq
<1>3. 1 \in 1 .. Len(frames)
  BY SMT, <1>2
<1>4. frames[1].pos = read_pos
  BY DEF TileInv, FramesTile
<1>5. Start(1) = 0
  BY SMT, <1>4, UsedRange DEF Start, Dist, Pos
<1>6. /\ Start(1) + Size(1) <= Used
      /\ Len(frames[1].msg) \in Nat /\ Size(1) = 4 + Len(frames[1].msg)
  BY <1>3, FrameTypes DEF TileInv, FramesTile, Start, Size
<1>7. Size(1) \in Nat /\ Size(1) <= Used
  BY SMT, <1>5, <1>6
<1>8. DecodedLen(read_pos) = Len(frames[1].msg)
  BY <1>3, <1>4 DEF FramesIntact
<1> QED
  BY <1>2, <1>3, <1>4, <1>5, <1>6, <1>7, <1>8

LEMMA BeginReadStep ==
    ASSUME IInv, TypeOK', NEW t \in Readers, BeginRead(t)
    PROVE  IInv'
<1> USE DEF IInv
<1>1. /\ read_lock = None /\ read_lock' = t
      /\ rpc' = [rpc EXCEPT ![t] = "prefix"]
      /\ rat' = [rat EXCEPT ![t] = read_pos]
      /\ UNCHANGED <<header, data, wvars, frames>>
      /\ frames # <<>>
  BY DEF BeginRead, TileInv, FramesTile
<1>2. AlignInv' /\ TileInv' /\ Used' = Used /\ FramesIntact'
  BY <1>1, SameFrames
<1>3. \A u \in Readers : rpc[u] = "idle"
  BY <1>1, NoneIsNoThread DEF LockInv
<1>4. LockInv'
  <2>1. rpc \in [Readers -> {"idle", "prefix", "copy", "advance"}]
    BY DEF TypeOK
  <2>2. wpc' = wpc /\ write_lock' = write_lock
    BY <1>1 DEF wvars
  <2> QED
    BY SMT, <1>1, <1>3, <2>1, <2>2 DEF LockInv
<1>5. WriterInv'
  BY <1>1, <1>2 DEF WriterInv, header, wvars
<1>6. ReaderInv'
  <2>1. \A u \in Readers : rpc'[u] # "idle" => u = t
    BY SMT, <1>1, <1>3 DEF TypeOK
  <2>2. rpc'[t] = "prefix" /\ rat'[t] = read_pos /\ read_pos' = read_pos /\ frames' = frames
    BY SMT, <1>1 DEF TypeOK, header
  <2> QED
    BY SMT, <1>1, <2>1, <2>2 DEF ReaderInv
<1> QED
  BY <1>2, <1>4, <1>5, <1>6

LEMMA ReadPrefixStep ==
    ASSUME IInv, TypeOK', NEW t \in Readers, ReadPrefix(t)
    PROVE  IInv'
<1> USE DEF IInv
<1>1. /\ rpc[t] = "prefix"
      /\ rlen' = [rlen EXCEPT ![t] = DecodedLen(rat[t])]
      /\ rpc' = [rpc EXCEPT ![t] = "copy"]
      /\ UNCHANGED <<header, data, wvars, read_lock, rat, frames>>
  BY DEF ReadPrefix
<1>2. AlignInv' /\ TileInv' /\ Used' = Used /\ FramesIntact'
  BY <1>1, SameFrames
<1>3. frames # <<>> /\ rat[t] = read_pos
  BY <1>1 DEF ReaderInv
<1>4. LockInv'
  <2>1. rpc \in [Readers -> {"idle", "prefix", "copy", "advance"}]
    BY DEF TypeOK
  <2>2. wpc' = wpc /\ write_lock' = write_lock
    BY <1>1 DEF wvars
  <2> QED
    BY SMT, <1>1, <2>1, <2>2 DEF LockInv
<1>5. WriterInv'
  BY <1>1, <1>2 DEF WriterInv, header, wvars
<1>6. ReaderInv'
  <2>1. \A u \in Readers : rpc'[u] # "idle" => u = t
    BY SMT, <1>1, ReaderAlone DEF TypeOK
  <2>2. DecodedLen(rat[t]) = Len(frames[1].msg)
    BY <1>3, HeadFrame
  <2>3. /\ rpc'[t] = "copy" /\ rlen'[t] = Len(frames'[1].msg)
        /\ rat'[t] = read_pos' /\ frames' # <<>>
    BY SMT, <1>1, <1>3, <2>2 DEF TypeOK, header
  <2> QED
    BY SMT, <2>1, <2>3 DEF ReaderInv
<1> QED
  BY <1>2, <1>4, <1>5, <1>6

LEMMA ReadInvalidStep ==
    ASSUME IInv, TypeOK', NEW t \in Readers, ReadInvalid(t)
    PROVE  IInv'
<1> USE DEF IInv
<1>1. /\ rpc[t] = "prefix"
      /\ read_lock' = None
      /\ rpc' = [rpc EXCEPT ![t] = "idle"]
      /\ UNCHANGED <<header, data, wvars, frames>>
  BY DEF ReadInvalid
<1>2. AlignInv' /\ TileInv' /\ Used' = Used /\ FramesIntact'
  BY <1>1, SameFrames
<1>3. \A u \in Readers : rpc'[u] = "idle"
  BY SMT, <1>1, ReaderAlone DEF TypeOK
<1>4. LockInv' /\ ReaderInv'
  BY <1>1, <1>3, NoneIsNoThread DEF LockInv, ReaderInv, wvars
<1>5. WriterInv'
  BY <1>1, <1>2 DEF WriterInv, header, wvars
<1> QED
  BY <1>2, <1>4, <1>5

LEMMA CopyOutStep ==
    ASSUME IInv, TypeOK', NEW t \in Readers, CopyOut(t)
    PROVE  IInv'
<1> USE DEF IInv
<1> DEFINE m == frames[1].msg
<1>1. /\ rpc[t] = "copy"
      /\ rpc' = [rpc EXCEPT ![t] = "advance"]
      /\ UNCHANGED <<header, data, wvars, read_lock, rat, rlen, frames>>
  BY DEF CopyOut
<1>2. AlignInv' /\ TileInv' /\ Used' = Used /\ FramesIntact'
  BY <1>1, SameFrames
<1>3. frames # <<>> /\ rat[t] = read_pos /\ rlen[t] = Len(m)
  BY SMT, <1>1 DEF ReaderInv
<1>4. 1 \in 1 .. Len(frames) /\ frames[1].pos = read_pos
  BY <1>3, HeadFrame
<1>5. m \in Seq(Byte)
  BY <1>4, FrameTypes
<1>6. rbuf' = [rbuf EXCEPT ![t] = m]
  <2> DEFINE copy == [k \in 1 .. Len(m) |-> data[Plus(read_pos, PrefixLen + k - 1)]]
  <2>1. \A k \in 1 .. Len(m) : data[Plus(read_pos, PrefixLen + k - 1)] = m[k]
    BY <1>4 DEF FramesIntact
  <2>2. copy = [k \in 1 .. Len(m) |-> m[k]]
    BY <2>1, Zenon
  <2>3. m = [k \in 1 .. Len(m) |-> m[k]]
    BY <1>5, LenProperties
  <2> QED
    BY <1>3, <2>2, <2>3 DEF CopyOut
<1>7. LockInv'
  <2>1. rpc \in [Readers -> {"idle", "prefix", "copy", "advance"}]
    BY DEF TypeOK
  <2>2. wpc' = wpc /\ write_lock' = write_lock
    BY <1>1 DEF wvars
  <2> QED
    BY SMT, <1>1, <2>1, <2>2 DEF LockInv
<1>8. WriterInv'
  BY <1>1, <1>2 DEF WriterInv, header, wvars
<1>9. ReaderInv'
  <2>1. \A u \in Readers : rpc'[u] # "idle" => u = t
    BY SMT, <1>1, ReaderAlone DEF TypeOK
  <2>2. /\ rpc'[t] = "advance" /\ rbuf'[t] = frames'[1].msg /\ rlen'[t] = Len(frames'[1].msg)
        /\ rat'[t] = read_pos' /\ frames' # <<>>
    BY SMT, <1>1, <1>3, <1>6 DEF TypeOK, header
  <2> QED
    BY SMT, <2>1, <2>2 DEF ReaderInv
<1> QED
  BY <1>2, <1>7, <1>8, <1>9

LEMMA AdvanceStep ==
    ASSUME IInv, TypeOK', NEW t \in Readers, Advance(t)
    PROVE  IInv' /\ Used' = Used - Size(1)
<1> USE DEF IInv
<1> DEFINE size == Size(1)
<1>1. /\ rpc[t] = "advance"
      /\ read_lock' = None
      /\ rpc' = [rpc EXCEPT ![t] = "idle"]
      /\ UNCHANGED <<write_pos, data, wvars>>
  BY DEF Advance
<1>2. frames # <<>> /\ rat[t] = read_pos /\ rlen[t] = Len(frames[1].msg)
  BY SMT, <1>1 DEF ReaderInv
<1>3. /\ 1 \in 1 .. Len(frames) /\ Len(frames) \in Nat /\ frames[1].pos = read_pos
      /\ Start(1) = 0 /\ size \in Nat /\ size = PrefixLen + rlen[t] /\ size <= Used
  BY <1>2, HeadFrame DEF PrefixLen
<1>4. read_pos' = Plus(read_pos, size) /\ frames' = Tail(frames)
  BY <1>2, <1>3 DEF Advance, NextReadPos
<1>5. /\ Len(frames') = Len(frames) - 1
      /\ \A n \in 1 .. Len(frames') : frames'[n] = frames[n + 1]
      /\ frames' # <<>> => Len(frames') >= 1
  <2>1. frames \in Seq([pos : Pos, msg : Messages])
    BY DEF TypeOK, Pos
  <2>2. /\ Tail(frames) \in Seq([pos : Pos, msg : Messages])
        /\ Len(Tail(frames)) = Len(frames) - 1
        /\ \A n \in 1 .. Len(Tail(frames)) : Tail(frames)[n] = frames[n + 1]
    BY <2>1, <1>2, HeadTailProperties
  <2>3. Tail(frames) # <<>> => Len(Tail(frames)) \in Nat \ {0}
    BY <2>2, EmptySeq
  <2>4. Tail(frames) # <<>> => Len(Tail(frames)) >= 1
    BY SMT, <2>3
  <2> QED
    BY <1>4, <2>2, <2>4
<1>6. /\ Used \in Pos /\ write_pos \in Pos /\ read_pos \in Pos
  BY UsedRange
<1>7. Used' = Used - size
  BY <1>1, <1>3, <1>4, <1>6, DistShift DEF Used
<1> HIDE DEF size
<1>8. \* what is known of the frame that becomes frame n
      ASSUME NEW n \in 1 .. Len(frames')
      PROVE  /\ n + 1 \in 1 .. Len(frames)
             /\ Start(n)' = Start(n + 1) - size
             /\ Size(n)' = Size(n + 1)
             /\ Start(n + 1) \in Nat /\ Size(n + 1) \in Nat
             /\ Start(n + 1) + Size(n + 1) <= Used
  <2>1. n + 1 \in 1 .. Len(frames) /\ 1 < n + 1
    BY SMT, <1>3, <1>5
  <2>2. frames'[n] = frames[n + 1]
    BY <1>5
  <2>3. frames[n + 1].pos \in Pos /\ Start(n + 1) \in Pos /\ Size(n + 1) \in Nat
    BY <2>1, FrameTypes, SMT
  <2>4. size <= Start(n + 1)
    <3>1. Start(1) + size <= Start(n + 1)
      BY <1>3, <2>1 DEF TileInv, size
    <3> QED
      BY SMT, <3>1, <1>3
  <2>5. Start(n)' = Start(n + 1) - size
    BY <1>3, <1>4, <1>6, <2>2, <2>3, <2>4, DistShift DEF Start
  <2>6. Size(n)' = Size(n + 1)
    BY <2>2 DEF Size
  <2>7. Start(n + 1) + Size(n + 1) <= Used
    BY <2>1 DEF TileInv, FramesTile, Start, Size
  <2>8. Start(n + 1) \in Nat
    BY SMT, <2>3 DEF Pos
  <2> QED
    BY <2>1, <2>3, <2>5, <2>6, <2>7, <2>8
<1>9. AlignInv'
  BY <1>1 DEF AlignInv
<1>10. read_pos' = IF 1 = Len(frames) THEN write_pos ELSE frames[2].pos
  <2>1. Plus(frames[1].pos, FrameSize(frames[1].msg))
            = IF 1 = Len(frames) THEN write_pos ELSE frames[1 + 1].pos
    BY <1>3 DEF TileInv, FramesTile
  <2>2. 1 + 1 = 2
    BY SMT
  <2> QED
    BY <1>3, <1>4, <2>1, <2>2 DEF size, Size
<1>11. FramesTile'
  <2>1. frames' = <<>> => write_pos' = read_pos'
    <3>1. frames' = <<>> => 1 = Len(frames)
      BY SMT, <1>3, <1>5
    <3> QED
      BY <3>1, <1>1, <1>10
  <2>2. frames' # <<>> => frames'[1].pos = read_pos'
    <3> SUFFICES ASSUME frames' # <<>> PROVE frames'[1].pos = read_pos'
      OBVIOUS
    <3>1. 1 \in 1 .. Len(frames') /\ 1 # Len(frames) /\ 1 + 1 = 2
      BY SMT, <1>3, <1>5
    <3> QED
      BY <3>1, <1>5, <1>10
  <2>3. ASSUME NEW n \in 1 .. Len(frames')
        PROVE  Start(n)' + Size(n)' <= Used'
    <3>1. /\ Start(n)' = Start(n + 1) - size
          /\ Size(n)' = Size(n + 1)
          /\ Start(n + 1) \in Nat /\ Size(n + 1) \in Nat
          /\ Start(n + 1) + Size(n + 1) <= Used
      BY <1>8
    <3> QED
      BY SMT, <3>1, <1>3, <1>6, <1>7 DEF Pos
  <2>4. ASSUME NEW n \in 1 .. Len(frames')
        PROVE  Plus(frames'[n].pos, FrameSize(frames'[n].msg))
                   = IF n = Len(frames') THEN write_pos' ELSE frames'[n + 1].pos
    <3>1. n + 1 \in 1 .. Len(frames) /\ (n = Len(frames') <=> n + 1 = Len(frames))
      BY SMT, <1>3, <1>5
    <3>2. Plus(frames[n + 1].pos, FrameSize(frames[n + 1].msg))
              = IF n + 1 = Len(frames) THEN write_pos ELSE frames[n + 1 + 1].pos
      BY <3>1 DEF TileInv, FramesTile
    <3>3. n # Len(frames') => n + 1 \in 1 .. Len(frames')
      BY SMT, <1>3, <1>5
    <3>4. n # Len(frames') => frames'[n + 1] = frames[n + 1 + 1]
      BY <3>3, <1>5
    <3> QED
      BY <3>1, <3>2, <3>4, <1>1, <1>5
  <2> QED
    BY <2>1, <2>2, <2>3, <2>4, Zenon DEF FramesTile, Start, Size
<1>12. ASSUME NEW k \in 1 .. Len(frames'), NEW n \in 1 .. Len(frames'), k < n
       PROVE  Start(k)' + Size(k)' <= Start(n)'
  <2>1. /\ k + 1 \in 1 .. Len(frames)
        /\ Start(k)' = Start(k + 1) - size /\ Size(k)' = Size(k + 1)
        /\ Start(k + 1) \in Nat /\ Size(k + 1) \in Nat
    BY <1>8
  <2>2. n + 1 \in 1 .. Len(frames) /\ Start(n)' = Start(n + 1) - size /\ Start(n + 1) \in Nat
    BY <1>8
  <2>3. k + 1 < n + 1
    BY SMT, <1>12
  <2>4. Start(k + 1) + Size(k + 1) <= Start(n + 1)
    BY <2>1, <2>2, <2>3 DEF TileInv
  <2> QED
    BY SMT, <2>1, <2>2, <2>4, <1>3
<1>13. FramesIntact'
  <2> SUFFICES ASSUME NEW n \in 1 .. Len(frames')
               PROVE  /\ LenAt(data', frames'[n].pos) = Len(frames'[n].msg)
                      /\ PayloadIn(data', frames'[n].pos, frames'[n].msg)
    BY FramesIntactIs
  <2>1. n + 1 \in 1 .. Len(frames) /\ frames'[n] = frames[n + 1]
    BY <1>5, <1>8
  <2> QED
    BY <2>1, <1>1, FramesIntactIs
<1>14. \A u \in Readers : rpc'[u] = "idle"
  BY SMT, <1>1, ReaderAlone DEF TypeOK
<1>15. LockInv' /\ ReaderInv'
  BY <1>1, <1>14, NoneIsNoThread DEF LockInv, ReaderInv, wvars
<1>16. WriterInv'
  <2>1. Used' <= Used
    BY SMT, <1>3, <1>6, <1>7 DEF Pos
  <2> QED
    BY <1>1, <2>1, WriterKept
<1> QED
  BY <1>7, <1>9, <1>11, <1>12, <1>13, <1>15, <1>16 DEF TileInv, size

\* No step breaks the invariant.
LEMMA IInvStep == Aligned /\ IInv /\ [Next]_vars => IInv'
<1> SUFFICES ASSUME Aligned, IInv, [Next]_vars
             PROVE  IInv'
  OBVIOUS
<1>0. TypeOK'
  BY TypeStep DEF IInv, WriterInv, TypeInv, HoldsMessage
<1>1. ASSUME NEW t \in Writers, NEW m \in Messages, WriteFull(t, m)
      PROVE  IInv'
  <2>1. UNCHANGED <<header, data, frames, wvars, rvars>>
    BY <1>1 DEF WriteFull
  <2> QED
    BY <1>0, <2>1, SameFrames, SameThreads DEF IInv
<1>2. ASSUME NEW t \in Writers, NEW m \in Messages, BeginWrite(t, m)
      PROVE  IInv'
  BY <1>0, <1>2, BeginWriteStep
<1>3. ASSUME NEW t \in Writers, WritePrefix(t)
      PROVE  IInv'
  BY <1>0, <1>3, WritePrefixStep
<1>4. ASSUME NEW t \in Writers, WritePayload(t)
      PROVE  IInv'
  BY <1>0, <1>4, WritePayloadStep
<1>5. ASSUME NEW t \in Writers, Publish(t)
      PROVE  IInv'
  BY <1>0, <1>5, PublishStep
<1>6. ASSUME NEW t \in Readers, ReadEmpty(t)
      PROVE  IInv'
  <2>1. UNCHANGED <<header, data, frames, wvars, rvars>>
    BY <1>6 DEF ReadEmpty
  <2> QED
    BY <1>0, <2>1, SameFrames, SameThreads DEF IInv
<1>7. ASSUME NEW t \in Readers, BeginRead(t)
      PROVE  IInv'
  BY <1>0, <1>7, BeginReadStep
<1>8. ASSUME NEW t \in Readers, ReadPrefix(t)
      PROVE  IInv'
  BY <1>0, <1>8, ReadPrefixStep
<1>9. ASSUME NEW t \in Readers, ReadInvalid(t)
      PROVE  IInv'
  BY <1>0, <1>9, ReadInvalidStep
<1>10. ASSUME NEW t \in Readers, CopyOut(t)
       PROVE  IInv'
  BY <1>0, <1>10, CopyOutStep
<1>11. ASSUME NEW t \in Readers, Advance(t)
       PROVE  IInv'
  BY <1>0, <1>11, AdvanceStep
<1>12. CASE UNCHANGED vars
  <2>1. UNCHANGED <<header, data, frames, wvars, rvars>>
    BY <1>12 DEF vars
  <2> QED
    BY <1>0, <2>1, SameFrames, SameThreads DEF IInv
<1> QED
  BY <1>1, <1>2, <1>3, <1>4, <1>5, <1>6, <1>7, <1>8, <1>9, <1>10, <1>11, <1>12
  DEF Next, WriterStep, ReaderStep

\* In an aligned ring the invariant holds in every reachable state.
THEOREM Invariance == Aligned /\ Spec => []IInv
<1> SUFFICES ASSUME Aligned PROVE Spec => []IInv
  BY DEF Aligned
<1>1. IInv /\ [Next]_vars => IInv'
  BY IInvStep
<1> QED
  BY InitIInv, <1>1, PTL DEF Spec

-----------------------------------------------------------------------------
\* What the invariant implies.

\* In an aligned ring no call of the other side ever damages a message in
\* flight: it stays in memory byte for byte until its reader advances.
THEOREM FramesStayIntact == Aligned /\ Spec => []FramesIntact
<1>1. IInv => FramesIntact
  BY DEF IInv
<1> QED
  BY Invariance, <1>1, PTL

\* In an aligned ring the frames in flight fill the region between the two
\* positions without gap or overlap.
THEOREM FramesAlwaysTile == Aligned /\ Spec => []FramesTile
<1>1. IInv => FramesTile
  BY DEF IInv, TileInv
<1> QED
  BY Invariance, <1>1, PTL

\* In an aligned ring, although write() and read() take different mutexes, no
\* byte is ever being written and being read at the same time.
THEOREM NoRace == Aligned /\ Spec => []NoDataRace
<1>1. ASSUME IInv PROVE NoDataRace
  <2> SUFFICES ASSUME NEW i \in Pos, BeingWritten(i), BeingRead(i)
               PROVE  FALSE
    BY DEF NoDataRace, Pos
  <2>1. PICK w \in Writers : wpc[w] # "idle" /\ Dist(wat[w], i) < FrameSize(wmsg[w])
    BY DEF BeingWritten
  <2>2. PICK r \in Readers :
            \/ rpc[r] = "prefix" /\ Dist(rat[r], i) < PrefixLen
            \/ rpc[r] \in {"copy", "advance"} /\ Dist(rat[r], i) < PrefixLen + rlen[r]
    BY DEF BeingRead
  <2>3. /\ wat[w] = write_pos /\ wmsg[w] \in Messages
        /\ Used + FrameSize(wmsg[w]) <= Capacity - 1
    BY <1>1, <2>1 DEF IInv, WriterInv
  <2>4. /\ Used \in Pos /\ write_pos \in Pos /\ read_pos \in Pos
        /\ FrameSize(wmsg[w]) \in Nat /\ Dist(write_pos, i) \in Pos
    BY <1>1, <2>3, UsedRange, MessageTypes, DistRange DEF IInv
  <2>5. Used + Dist(write_pos, i) < Capacity
    BY SMT, <2>1, <2>3, <2>4, CapacityRange DEF Pos
  <2>6. Dist(read_pos, i) = Used + Dist(write_pos, i)
    BY <1>1, <2>5, NewCellAt DEF IInv
  <2>7. /\ rpc[r] # "idle" /\ frames # <<>> /\ rat[r] = read_pos
        /\ rpc[r] # "prefix" => rlen[r] = Len(frames[1].msg)
    BY SMT, <1>1, <2>2 DEF IInv, ReaderInv
  <2>8. Size(1) \in Nat /\ Size(1) = 4 + Len(frames[1].msg) /\ Size(1) <= Used
        /\ 1 \in 1 .. Len(frames)
    BY <1>1, <2>7, HeadFrame DEF IInv
  <2>9. Len(frames[1].msg) \in Nat
    BY <1>1, <2>8, FrameTypes DEF IInv
  <2>10. Dist(read_pos, i) < Size(1)
    <3>1. CASE rpc[r] = "prefix" /\ Dist(rat[r], i) < PrefixLen
      <4>1. Dist(read_pos, i) < 4 /\ Dist(read_pos, i) \in Pos
        BY <2>4, <2>7, <3>1, DistRange DEF PrefixLen
      <4> QED
        BY SMT, <4>1, <2>8, <2>9 DEF Pos
    <3>2. CASE rpc[r] \in {"copy", "advance"} /\ Dist(rat[r], i) < PrefixLen + rlen[r]
      <4>1. rpc[r] # "prefix"
        BY SMT, <3>2
      <4> QED
        BY <4>1, <3>2, <2>7, <2>8 DEF PrefixLen
    <3> QED
      BY <2>2, <3>1, <3>2
  <2> QED
    BY SMT, <2>4, <2>6, <2>8, <2>10 DEF Pos
<1> QED
  BY Invariance, <1>1, PTL

-----------------------------------------------------------------------------
\* RingBuffer implements RingContract.

\* The refinement mapping for the queue.
Queue == [n \in 1 .. Len(frames) |-> frames[n].msg]

LEMMA QueueTypes ==
    ASSUME NEW f \in Seq([pos : Pos, msg : Messages]),
           NEW q, q = [n \in 1 .. Len(f) |-> f[n].msg]
    PROVE  /\ q \in Seq(Messages)
           /\ Len(q) = Len(f)
           /\ \A n \in 1 .. Len(f) : q[n] = f[n].msg
           /\ q = <<>> <=> f = <<>>
<1>1. Len(f) \in Nat
  BY LenProperties
<1>2. \A n \in 1 .. Len(f) : f[n].msg \in Messages
  <2> SUFFICES ASSUME NEW n \in 1 .. Len(f) PROVE f[n].msg \in Messages
    OBVIOUS
  <2>1. f[n] \in [pos : Pos, msg : Messages]
    BY ElementOfSeq
  <2> QED
    BY <2>1
<1>3. q \in Seq(Messages) /\ Len(q) = Len(f)
  BY SMT, <1>1, <1>2
<1>4. q = <<>> <=> f = <<>>
  <2>1. Len(q) = 0 <=> q = <<>>
    BY SMT, <1>3, EmptySeq
  <2>2. Len(f) = 0 <=> f = <<>>
    BY SMT, EmptySeq
  <2> QED
    BY <1>3, <2>1, <2>2
<1> QED
  BY <1>3, <1>4, Zenon

\* A frame appended, or the first one dropped, is a message appended or dropped.
LEMMA QueueAppend ==
    ASSUME NEW f \in Seq([pos : Pos, msg : Messages]), NEW e \in [pos : Pos, msg : Messages],
           NEW q, q = [n \in 1 .. Len(f) |-> f[n].msg],
           NEW r, r = [n \in 1 .. Len(Append(f, e)) |-> Append(f, e)[n].msg]
    PROVE  r = Append(q, e.msg)
<1> DEFINE g == Append(f, e)
<1>1. /\ g \in Seq([pos : Pos, msg : Messages])
      /\ Len(g) = Len(f) + 1
      /\ \A n \in 1 .. Len(f) : g[n] = f[n]
      /\ g[Len(f) + 1] = e
  BY AppendProperties
<1>2. r = [n \in 1 .. Len(g) |-> g[n].msg]
  OBVIOUS
<1>3. Len(f) \in Nat
  BY LenProperties
<1> HIDE DEF g
<1>4. r \in Seq(Messages) /\ Len(r) = Len(f) + 1 /\ \A n \in 1 .. Len(f) + 1 : r[n] = g[n].msg
  BY <1>1, <1>2, QueueTypes
<1>5. q \in Seq(Messages) /\ Len(q) = Len(f) /\ \A n \in 1 .. Len(f) : q[n] = f[n].msg
  BY QueueTypes
<1>6. e.msg \in Messages
  OBVIOUS
<1>7. /\ Append(q, e.msg) \in Seq(Messages)
      /\ Len(Append(q, e.msg)) = Len(f) + 1
      /\ \A n \in 1 .. Len(f) : Append(q, e.msg)[n] = q[n]
      /\ Append(q, e.msg)[Len(f) + 1] = e.msg
  BY <1>5, <1>6, AppendProperties
<1>8. ASSUME NEW n \in 1 .. Len(r)
      PROVE  r[n] = Append(q, e.msg)[n]
  <2>1. n \in 1 .. Len(f) \/ n = Len(f) + 1
    BY SMT, <1>3, <1>4
  <2>2. CASE n \in 1 .. Len(f)
    BY <1>1, <1>4, <1>5, <1>7, <2>2
  <2>3. CASE n = Len(f) + 1
    BY <1>1, <1>4, <1>7, <2>3
  <2> QED
    BY <2>1, <2>2, <2>3
<1> QED
  BY <1>4, <1>7, <1>8, SeqEqual

LEMMA QueueTail ==
    ASSUME NEW f \in Seq([pos : Pos, msg : Messages]), f # <<>>,
           NEW q, q = [n \in 1 .. Len(f) |-> f[n].msg],
           NEW r, r = [n \in 1 .. Len(Tail(f)) |-> Tail(f)[n].msg]
    PROVE  r = Tail(q)
<1> DEFINE g == Tail(f)
<1>1. /\ g \in Seq([pos : Pos, msg : Messages])
      /\ Len(g) = Len(f) - 1
      /\ \A n \in 1 .. Len(g) : g[n] = f[n + 1]
  BY HeadTailProperties
<1>2. r = [n \in 1 .. Len(g) |-> g[n].msg]
  OBVIOUS
<1>3. Len(f) \in Nat
  BY LenProperties
<1> HIDE DEF g
<1>4. r \in Seq(Messages) /\ Len(r) = Len(g) /\ \A n \in 1 .. Len(g) : r[n] = g[n].msg
  BY <1>1, <1>2, QueueTypes
<1>5. /\ q \in Seq(Messages) /\ Len(q) = Len(f) /\ q # <<>>
      /\ \A n \in 1 .. Len(f) : q[n] = f[n].msg
  BY QueueTypes
<1>6. /\ Tail(q) \in Seq(Messages)
      /\ Len(Tail(q)) = Len(q) - 1
      /\ \A n \in 1 .. Len(Tail(q)) : Tail(q)[n] = q[n + 1]
  BY <1>5, HeadTailProperties
<1>7. ASSUME NEW n \in 1 .. Len(r)
      PROVE  r[n] = Tail(q)[n]
  <2>1. n \in 1 .. Len(g) /\ n \in 1 .. Len(Tail(q))
    BY <1>1, <1>4, <1>5, <1>6
  <2>2. n + 1 \in 1 .. Len(f)
    BY SMT, <1>1, <1>3, <2>1
  <2> QED
    BY <1>1, <1>4, <1>5, <1>6, <2>1, <2>2
<1> QED
  BY <1>1, <1>4, <1>5, <1>6, <1>7, SeqEqual

LEMMA RefineInit == Init => Contract!Init
<1> SUFFICES ASSUME Init PROVE Contract!Init
  OBVIOUS
<1>1. frames = <<>> /\ write_pos = 0 /\ read_pos = 0
      /\ ret = [t \in Writers \union Readers |-> Result("None", <<>>)]
  BY DEF Init
<1>2. <<>> \in Seq([pos : Pos, msg : Messages])
  BY EmptySeq
<1>3. Queue = <<>>
  BY <1>1, <1>2, QueueTypes DEF Queue
<1>4. Used = 0
  BY SMT, <1>1 DEF Used, Dist
<1> QED
  BY <1>1, <1>3, <1>4 DEF Contract!Init, Contract!Result, Queue, Result

LEMMA RefineStep == Aligned /\ IInv /\ [Next]_vars => [Contract!Next]_<<Queue, Used, ret>>
<1> SUFFICES ASSUME Aligned, IInv, [Next]_vars
             PROVE  [Contract!Next]_<<Queue, Used, ret>>
  OBVIOUS
<1>0. TypeOK /\ TileInv /\ FramesIntact /\ TypeOK'
  BY TypeStep DEF IInv, WriterInv, TypeInv, HoldsMessage
<1> DEFINE q == Queue
           r == Queue'
<1>a. /\ frames \in Seq([pos : Pos, msg : Messages])
      /\ q = [n \in 1 .. Len(frames) |-> frames[n].msg]
      /\ r = [n \in 1 .. Len(frames') |-> frames'[n].msg]
  BY <1>0 DEF TypeOK, Pos, Queue
<1> HIDE DEF q, r
<1>b. /\ q \in Seq(Messages) /\ Len(q) = Len(frames)
      /\ \A n \in 1 .. Len(frames) : q[n] = frames[n].msg
      /\ q = <<>> <=> frames = <<>>
  BY <1>a, QueueTypes
<1>c. q # <<>> => /\ Head(q) = q[1] /\ q[1] = frames[1].msg
                  /\ Readable(Head(q)) <=> ~(BufLen < Len(frames[1].msg))
  <2> SUFFICES ASSUME q # <<>>
               PROVE  /\ Head(q) = q[1] /\ q[1] = frames[1].msg
                      /\ Readable(Head(q)) <=> ~(BufLen < Len(frames[1].msg))
    OBVIOUS
  <2>1. 1 \in 1 .. Len(frames) /\ Len(frames[1].msg) \in Nat
    BY <1>0, <1>b, HeadFrame, FrameTypes
  <2>2. Head(q) = q[1]
    BY SMT, <1>b
  <2>3. BufLen \in Nat
    BY SMT, CapacityRange, ConstantsOK
  <2>4. Len(frames[1].msg) <= BufLen <=> ~(BufLen < Len(frames[1].msg))
    BY SMT, <2>1, <2>3
  <2> QED
    BY <1>b, <2>1, <2>2, <2>4 DEF Readable
<1>1. ASSUME NEW t \in Writers, NEW m \in Messages, WriteFull(t, m)
      PROVE  Contract!CallWrite(t, m)
  <2>1. ~(Used + FrameSize(m) <= Capacity - 1)
    <3>1. Available < FrameSize(m)
      BY <1>1 DEF WriteFull
    <3>2. FrameSize(m) \in Int /\ Used \in Int
      BY SMT, <1>0, MessageTypes, UsedRange DEF Pos
    <3> QED
      BY SMT, <1>0, <3>1, <3>2, AvailableIs, CapacityRange
  <2>2. UNCHANGED <<header, frames>> /\ Return(t, "BufferFull", <<>>)
    BY <1>1 DEF WriteFull
  <2>3. Queue' = Queue /\ Used' = Used
    BY <2>2 DEF Queue, Used, header
  <2> QED
    BY <2>1, <2>2, <2>3
    DEF Contract!CallWrite, Contract!Full, Contract!Fits, Contract!Return, Contract!Result,
        Return, Result, Queue
<1>2. ASSUME NEW t \in Writers, Publish(t)
      PROVE  \E m \in Messages : Contract!CallWrite(t, m)
  <2>1. wpc[t] = "publish" /\ Return(t, "Ok", <<>>)
    BY <1>2 DEF Publish
  <2>2. wmsg[t] \in Messages /\ Used + FrameSize(wmsg[t]) <= Capacity - 1
    BY <2>1 DEF IInv, WriterInv
  <2>3. Used' = Used + FrameSize(wmsg[t])
    BY <1>0, <1>2, PublishStep
  <2>4. Queue' = Append(Queue, wmsg[t])
    <3> DEFINE e == [pos |-> wat[t], msg |-> wmsg[t]]
    <3>1. e \in [pos : Pos, msg : Messages] /\ e.msg = wmsg[t]
      <4>1. wat[t] \in Pos
        BY <1>0 DEF TypeOK, Pos
      <4> QED
        BY <2>2, <4>1, Zenon
    <3>2. frames' = Append(frames, e)
      BY <1>2 DEF Publish
    <3> HIDE DEF e
    <3> QED
      BY <1>a, <3>1, <3>2, QueueAppend DEF q, r
  <2>5. PICK m \in Messages : m = wmsg[t]
    BY <2>2
  <2>6. Contract!CallWrite(t, m)
    BY <2>1, <2>2, <2>3, <2>4, <2>5
    DEF Contract!CallWrite, Contract!Write, Contract!Fits, Contract!Return, Contract!Result,
        Return, Result, Queue
  <2> QED
    BY <2>6
<1>3. ASSUME NEW t \in Readers, ReadEmpty(t)
      PROVE  Contract!CallRead(t)
  <2>1. write_pos = read_pos /\ UNCHANGED <<header, frames>> /\ Return(t, "BufferEmpty", <<>>)
    BY <1>3 DEF ReadEmpty
  <2>2. frames = <<>>
    <3>1. Used = 0
      BY SMT, <1>0, <2>1, UsedRange DEF Used, Dist, Pos
    <3>2. frames # <<>> => Size(1) = 4 + Len(frames[1].msg) /\ Size(1) <= Used
                           /\ Len(frames[1].msg) \in Nat
      BY <1>0, HeadFrame, FrameTypes
    <3> QED
      BY SMT, <3>1, <3>2
  <2>3. Queue = <<>> /\ Queue' = Queue /\ Used' = Used
    BY <1>b, <2>1, <2>2 DEF Queue, Used, header, q
  <2> QED
    BY <2>1, <2>3
    DEF Contract!CallRead, Contract!Empty, Contract!Return, Contract!Result, Return, Result, Queue
<1>4. ASSUME NEW t \in Readers, ReadInvalid(t)
      PROVE  Contract!CallRead(t)
  <2>1. /\ rpc[t] = "prefix" /\ BufLen < DecodedLen(rat[t])
        /\ UNCHANGED <<header, frames>> /\ Return(t, "InvalidState", <<>>)
    BY <1>4 DEF ReadInvalid, TooLong
  <2>2. frames # <<>> /\ rat[t] = read_pos
    BY SMT, <2>1 DEF IInv, ReaderInv
  <2>3. DecodedLen(rat[t]) = Len(frames[1].msg)
    BY <1>0, <2>2, HeadFrame
  <2>4. Queue # <<>> /\ ~Readable(Head(Queue))
    BY <1>b, <1>c, <2>1, <2>2, <2>3 DEF q
  <2>5. Queue' = Queue /\ Used' = Used
    BY <2>1 DEF Queue, Used, header
  <2> QED
    BY <2>1, <2>4, <2>5
    DEF Contract!CallRead, Contract!Invalid, Contract!Return, Contract!Result, Return, Result, Queue
<1>5. ASSUME NEW t \in Readers, Advance(t)
      PROVE  Contract!CallRead(t)
  <2>1. rpc[t] = "advance" /\ Return(t, "Ok", rbuf[t])
    BY <1>5 DEF Advance
  <2>2. frames # <<>> /\ rlen[t] = Len(frames[1].msg) /\ rbuf[t] = frames[1].msg
    BY SMT, <2>1 DEF IInv, ReaderInv
  <2>3. ~(BufLen < rlen[t])
    BY SMT, <1>0, CapacityRange, ConstantsOK DEF TypeOK
  <2>4. Queue # <<>> /\ Readable(Head(Queue)) /\ Queue[1] = rbuf[t] /\ Head(Queue) = frames[1].msg
    BY <1>b, <1>c, <2>2, <2>3 DEF q
  <2>5. Used' = Used - FrameSize(Head(Queue))
    BY <1>0, <1>5, <2>4, AdvanceStep DEF Size
  <2>6. Queue' = Tail(Queue)
    <3>1. frames' = Tail(frames)
      BY <1>5, <2>2 DEF Advance
    <3> QED
      BY <1>a, <2>2, <3>1, QueueTail DEF q, r
  <2> QED
    BY <2>1, <2>4, <2>5, <2>6
    DEF Contract!CallRead, Contract!Read, Contract!Return, Contract!Result, Return, Result, Queue
<1>6. ASSUME UNCHANGED <<header, frames, ret>>
      PROVE  UNCHANGED <<Queue, Used, ret>>
  BY <1>6 DEF Queue, Used, header
<1>7. ASSUME NEW t \in Writers, NEW m \in Messages, BeginWrite(t, m)
      PROVE  UNCHANGED <<header, frames, ret>>
  BY <1>7 DEF BeginWrite
<1>8. ASSUME NEW t \in Writers, WritePrefix(t) \/ WritePayload(t)
      PROVE  UNCHANGED <<header, frames, ret>>
  BY <1>8 DEF WritePrefix, WritePayload
<1>9. ASSUME NEW t \in Readers, BeginRead(t) \/ ReadPrefix(t) \/ CopyOut(t)
      PROVE  UNCHANGED <<header, frames, ret>>
  BY <1>9 DEF BeginRead, ReadPrefix, CopyOut
<1>10. CASE UNCHANGED vars
  BY <1>10, <1>6 DEF vars
<1>11. ASSUME NEW t \in Writers, WriterStep(t)
       PROVE  Contract!Next \/ UNCHANGED <<Queue, Used, ret>>
  <2>1. ASSUME NEW m \in Messages, Contract!CallWrite(t, m)
        PROVE  Contract!Next
    BY <2>1 DEF Contract!Next
  <2>2. ASSUME NEW m \in Messages, WriteFull(t, m)
        PROVE  Contract!Next
    BY <1>1, <2>1, <2>2
  <2>3. ASSUME NEW m \in Messages, BeginWrite(t, m)
        PROVE  UNCHANGED <<Queue, Used, ret>>
    BY <1>6, <1>7, <2>3
  <2>4. WritePrefix(t) \/ WritePayload(t) => UNCHANGED <<Queue, Used, ret>>
    BY <1>6, <1>8
  <2>5. Publish(t) => Contract!Next
    BY <1>2 DEF Contract!Next
  <2> QED
    BY <1>11, <2>2, <2>3, <2>4, <2>5 DEF WriterStep
<1>12. ASSUME NEW t \in Readers, ReaderStep(t)
       PROVE  Contract!Next \/ UNCHANGED <<Queue, Used, ret>>
  <2>1. Contract!CallRead(t) => Contract!Next
    BY DEF Contract!Next
  <2> QED
    BY <1>12, <1>3, <1>4, <1>5, <1>6, <1>9, <2>1 DEF ReaderStep
<1> QED
  BY <1>10, <1>11, <1>12 DEF Next

\* In an aligned ring, write() and read() are the operations of a bounded FIFO
\* queue, each taking effect at one instant, however their byte copies interleave.
THEOREM RingIsQueue == Aligned /\ Spec => ImplementsQueue
<1> SUFFICES ASSUME Aligned PROVE Spec => ImplementsQueue
  BY DEF Aligned
<1>1. IInv /\ [Next]_vars => [Contract!Next]_<<Queue, Used, ret>>
  BY RefineStep
<1>2. Spec => []IInv
  BY InitIInv, IInvStep, PTL DEF Spec
<1>3. Spec => Contract!Init /\ [][Contract!Next]_<<Queue, Used, ret>>
  BY RefineInit, <1>1, <1>2, PTL DEF Spec
<1> QED
  BY <1>3, PTL DEF ImplementsQueue, Contract!Spec, Queue

\* In an aligned ring a read that succeeds hands out the oldest message in
\* flight, and a read that fails with InvalidState met one too long for it: what
\* the straddling prefix of an unaligned ring breaks.
THEOREM AlignedReads == Aligned /\ Spec => ReadsWhatWasWritten
<1> SUFFICES ASSUME Aligned PROVE Spec => ReadsWhatWasWritten
  BY DEF Aligned
<1> DEFINE Good(t) ==
             /\ Advance(t) => frames # <<>> /\ rbuf[t] = frames[1].msg
             /\ ReadInvalid(t) => frames # <<>> /\ ~Readable(frames[1].msg)
<1>1. ASSUME IInv, NEW t \in Readers PROVE Good(t)
  <2>1. ASSUME Advance(t) PROVE frames # <<>> /\ rbuf[t] = frames[1].msg
    <3>1. rpc[t] = "advance"
      BY <2>1 DEF Advance
    <3> QED
      BY SMT, <1>1, <3>1 DEF IInv, ReaderInv
  <2>2. ASSUME ReadInvalid(t) PROVE frames # <<>> /\ ~Readable(frames[1].msg)
    <3>1. rpc[t] = "prefix" /\ BufLen < DecodedLen(rat[t])
      BY <2>2 DEF ReadInvalid, TooLong
    <3>2. frames # <<>> /\ rat[t] = read_pos
      BY SMT, <1>1, <3>1 DEF IInv, ReaderInv
    <3>3. DecodedLen(rat[t]) = Len(frames[1].msg) /\ Len(frames[1].msg) \in Nat
      BY <1>1, <3>2, HeadFrame, FrameTypes DEF IInv
    <3> QED
      BY SMT, <3>1, <3>2, <3>3, CapacityRange, ConstantsOK DEF Readable
  <2> QED
    BY <2>1, <2>2
<1> HIDE DEF Good
<1>2. IInv => [\A t \in Readers : Good(t)]_vars
  BY <1>1
<1>3. Spec => []IInv
  BY InitIInv, IInvStep, PTL DEF Spec
<1>4. Spec => [][\A t \in Readers : Good(t)]_vars
  BY <1>2, <1>3, PTL
<1> QED
  BY <1>4, PTL DEF ReadsWhatWasWritten, Good
=============================================================================
