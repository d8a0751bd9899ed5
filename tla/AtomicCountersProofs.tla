------------------------ MODULE AtomicCountersProofs ------------------------
(***************************************************************************)
(* Proofs about AtomicCounters, for any threads, any histogram and any     *)
(* pool: no observation is lost, a percentile lies between two moments,    *)
(* and the entries of a pool are used evenly, wraps apart.                 *)
(***************************************************************************)
EXTENDS AtomicCounters, FiniteSetTheorems, TLAPS

-----------------------------------------------------------------------------
\* Sums as numbers of things counted.

\* What is counted at j are the pairs of j and 1 to counts[j].
LEMMA CountedPairs ==
    ASSUME NEW counts, NEW S, NEW p
    PROVE  p \in Counted(counts, S) <=> \E j \in S : \E k \in 1 .. counts[j] : p = <<j, k>>
BY DEF Counted

\* A sum of numbers over a finite set is a number.
LEMMA SumIsNumber ==
    ASSUME NEW S, IsFiniteSet(S), NEW most \in Nat, NEW counts,
           \A j \in S : counts[j] \in 0 .. most
    PROVE  IsFiniteSet(Counted(counts, S)) /\ SumOver(counts, S) \in Nat
<1>1. Counted(counts, S) \in SUBSET (S \X (1 .. most))
  BY CountedPairs
<1>2. IsFiniteSet(S \X (1 .. most))
  <2>1. IsFiniteSet(1 .. most)
    BY FS_Interval
  <2> QED
    BY <2>1, FS_Product
<1> QED
  BY <1>1, <1>2, FS_Subset, FS_CardinalityType DEF SumOver

\* more is counts with one more at j.
OneMore(counts, more, j) == more = [counts EXCEPT ![j] = @ + 1]

\* Counting one more at j adds one to the sums that j is in.
LEMMA SumOfIncrement ==
    ASSUME NEW D, NEW S \in SUBSET D, IsFiniteSet(S), NEW most \in Nat,
           NEW counts \in [D -> 0 .. most], NEW j \in D,
           NEW more, OneMore(counts, more, j)
    PROVE  SumOver(more, S) = SumOver(counts, S) + (IF j \in S THEN 1 ELSE 0)
<1> DEFINE new == <<j, counts[j] + 1>>
<1>1. IsFiniteSet(Counted(counts, S)) /\ SumOver(counts, S) \in Nat
  BY SumIsNumber
<1>2. CASE j \in S
  <2>1. Counted(more, S) = Counted(counts, S) \union {new}
    <3>1. ASSUME NEW p PROVE p \in Counted(more, S) <=> p \in Counted(counts, S) \/ p = new
      <4>1. ASSUME NEW i \in S, NEW k
            PROVE  k \in 1 .. more[i] <=> k \in 1 .. counts[i] \/ (i = j /\ k = counts[j] + 1)
        <5>1. counts[i] \in Nat
          OBVIOUS
        <5>2. more[i] = IF i = j THEN counts[i] + 1 ELSE counts[i]
          BY DEF OneMore
        <5> QED
          BY <5>1, <5>2
      <4> DEFINE Among(c) == \E i \in S : \E k \in 1 .. c[i] : p = <<i, k>>
      <4>2. Among(more) <=> Among(counts) \/ p = new
        BY <4>1, <1>2
      <4> HIDE DEF new
      <4>3. p \in Counted(more, S) <=> Among(more)
        BY CountedPairs
      <4>4. p \in Counted(counts, S) <=> Among(counts)
        BY CountedPairs
      <4> HIDE DEF Among
      <4> QED
        BY <4>2, <4>3, <4>4
    <3> QED
      BY <3>1
  <2>2. new \notin Counted(counts, S)
    <3>1. counts[j] \in Nat
      OBVIOUS
    <3> QED
      BY <3>1, CountedPairs
  <2> QED
    BY <2>1, <2>2, <1>1, <1>2, FS_AddElement DEF SumOver
<1>3. CASE j \notin S
  <2>1. \A i \in S : more[i] = counts[i]
    BY <1>3 DEF OneMore
  <2>2. Counted(more, S) = Counted(counts, S)
    BY <2>1 DEF Counted
  <2> QED
    BY <2>2, <1>1, <1>3 DEF SumOver
<1> QED
  BY <1>2, <1>3

\* A sum over fewer things, or of smaller numbers, is not greater.
LEMMA SumMonotone ==
    ASSUME NEW T, IsFiniteSet(T), NEW S \in SUBSET T, NEW most \in Nat, NEW counts, NEW greater,
           \A j \in T : counts[j] \in Nat /\ greater[j] \in 0 .. most,
           \A j \in S : counts[j] <= greater[j]
    PROVE  SumOver(counts, S) <= SumOver(greater, T)
<1>1. Counted(counts, S) \in SUBSET Counted(greater, T)
  <2> SUFFICES ASSUME NEW j \in S, NEW k \in 1 .. counts[j] PROVE k \in 1 .. greater[j]
    BY CountedPairs
  <2> QED
    OBVIOUS
<1>2. IsFiniteSet(Counted(greater, T))
  BY SumIsNumber
<1> QED
  BY <1>1, <1>2, FS_Subset DEF SumOver

\* The sum over one thing is its number.
LEMMA SumOfOne ==
    ASSUME NEW counts, NEW j, counts[j] \in Nat
    PROVE  IsFiniteSet(Counted(counts, {j})) /\ SumOver(counts, {j}) = counts[j]
<1>1. Counted(counts, {j}) = {j} \X (1 .. counts[j])
  BY DEF Counted
<1>2. IsFiniteSet(1 .. counts[j]) /\ Cardinality(1 .. counts[j]) = counts[j]
  BY FS_Interval
<1>3. IsFiniteSet({j}) /\ Cardinality({j}) = 1
  BY FS_Singleton
<1>4. IsFiniteSet({j} \X (1 .. counts[j])) /\ Cardinality({j} \X (1 .. counts[j])) = 1 * counts[j]
  BY <1>2, <1>3, FS_Product
<1>5. 1 * counts[j] = counts[j]
  OBVIOUS
<1>6. IsFiniteSet(Counted(counts, {j})) /\ Cardinality(Counted(counts, {j})) = counts[j]
  BY <1>1, <1>4, <1>5, Zenon
<1> QED
  BY <1>6 DEF SumOver

\* No number exceeds a sum that it is part of.
LEMMA PartOfSum ==
    ASSUME NEW S, IsFiniteSet(S), NEW most \in Nat, NEW counts,
           \A j \in S : counts[j] \in 0 .. most, NEW j \in S
    PROVE  counts[j] <= SumOver(counts, S)
<1>1. SumOver(counts, {j}) = counts[j]
  BY SumOfOne
<1>2. SumOver(counts, {j}) <= SumOver(counts, S)
  <2>1. {j} \in SUBSET S /\ \A i \in {j} : counts[i] <= counts[i]
    OBVIOUS
  <2> QED
    BY <2>1, SumMonotone
<1> QED
  BY <1>1, <1>2

\* A sum up to the next bucket.
LEMMA SumOfNext ==
    ASSUME NEW most \in Nat, NEW counts, NEW i \in Nat,
           \A j \in 1 .. i + 1 : counts[j] \in 0 .. most
    PROVE  UpTo(counts, i + 1) = UpTo(counts, i) + counts[i + 1]
<1> DEFINE A == Counted(counts, 1 .. i)
           B == Counted(counts, {i + 1})
<1>1. Counted(counts, 1 .. i + 1) = A \union B
  <2>1. 1 .. i + 1 = (1 .. i) \union {i + 1}
    OBVIOUS
  <2> QED
    BY <2>1 DEF Counted
<1>2. A \intersect B = {}
  BY CountedPairs
<1>3. IsFiniteSet(A) /\ Cardinality(A) \in Nat
  <2>1. IsFiniteSet(1 .. i)
    BY FS_Interval
  <2> QED
    BY <2>1, SumIsNumber DEF SumOver
<1>4. IsFiniteSet(B) /\ Cardinality(B) = counts[i + 1]
  BY SumOfOne DEF SumOver
<1>5. Cardinality(A \union B) = Cardinality(A) + Cardinality(B) - Cardinality(A \intersect B)
  BY <1>3, <1>4, FS_Union
<1>6. Cardinality(A \intersect B) = 0
  BY <1>2, FS_EmptySet
<1>7. Cardinality(A \union B) = Cardinality(A) + counts[i + 1]
  BY <1>3, <1>4, <1>5, <1>6
<1> QED
  BY <1>1, <1>7 DEF UpTo, SumOver

\* Nothing counted, or nowhere to count: the sum is zero.
LEMMA SumOfNothing ==
    ASSUME NEW counts, NEW S, \A j \in S : counts[j] = 0
    PROVE  SumOver(counts, S) = 0
<1>1. Counted(counts, S) = {}
  BY CountedPairs
<1> QED
  BY <1>1, FS_EmptySet DEF SumOver

-----------------------------------------------------------------------------
\* Products and quotients.

\* A number is its quotient and its remainder.
LEMMA QuotientAndRemainder ==
    ASSUME NEW d \in Nat \ {0}, NEW n \in Nat
    PROVE  n = d * (n \div d) + (n % d) /\ n % d \in 0 .. d - 1 /\ n \div d \in Nat
OBVIOUS

\* The quotient is the only one.
LEMMA Quotient ==
    ASSUME NEW d \in Nat \ {0}, NEW q \in Nat, NEW r \in 0 .. d - 1
    PROVE  (d * q + r) \div d = q
OBVIOUS

\* Products of naturals: monotone, and one more of either factor.
LEMMA ProductMonotone ==
    ASSUME NEW w \in Nat, NEW x \in Nat, NEW y \in Nat, x <= y
    PROVE  w * x <= w * y
OBVIOUS

LEMMA ProductOfNext ==
    ASSUME NEW w \in Nat, NEW x \in Nat
    PROVE  w * x \in Nat /\ w * (x + 1) = w * x + w /\ (w + 1) * x = w * x + x
OBVIOUS

\* The rank that percentile() looks for is at most the number of observations.
LEMMA RankInRange ==
    ASSUME NEW n \in Nat, NEW p \in 0 .. 100
    PROVE  Rank(n, p) \in 0 .. n
<1>1. n * p \in Nat /\ n * p <= n * 100
  BY ProductMonotone
<1> QED
  BY <1>1 DEF Rank

\* How many of the turns 0 to n - 1 fall to entry e.
Laps(n, e) == (n + Entries - 1 - e) \div Entries

\* Turn n falls to entry n % Entries.
LEMMA LapsOfNext ==
    ASSUME NEW n \in Nat, NEW e \in 0 .. Entries - 1
    PROVE  Laps(n + 1, e) = Laps(n, e) + (IF e = n % Entries THEN 1 ELSE 0)
<1> DEFINE q == n \div Entries
           r == n % Entries
<1>1. Entries \in Nat \ {0}
  BY ConstantsOK DEF ConstantsOK
<1>2. n = Entries * q + r /\ r \in 0 .. Entries - 1 /\ q \in Nat
  BY <1>1, QuotientAndRemainder
<1>3. Entries * (q + 1) = Entries * q + Entries /\ Entries * q \in Nat
  BY <1>1, <1>2, ProductOfNext
<1> HIDE DEF q, r
<1>4. Laps(n, e) = IF r <= e THEN q ELSE q + 1
  <2>1. CASE r <= e
    <3>1. n + Entries - 1 - e = Entries * q + (r + Entries - 1 - e) /\ r + Entries - 1 - e \in 0 .. Entries - 1
      BY <1>1, <1>2, <1>3, <2>1
    <3> QED
      BY <1>1, <1>2, <2>1, <3>1, Quotient DEF Laps
  <2>2. CASE ~(r <= e)
    <3>1. n + Entries - 1 - e = Entries * (q + 1) + (r - 1 - e) /\ r - 1 - e \in 0 .. Entries - 1
      BY <1>1, <1>2, <1>3, <2>2
    <3> QED
      BY <1>1, <1>2, <2>2, <3>1, Quotient DEF Laps
  <2> QED
    BY <2>1, <2>2
<1>5. Laps(n + 1, e) = IF r < e THEN q ELSE q + 1
  <2>1. CASE r < e
    <3>1. n + 1 + Entries - 1 - e = Entries * q + (r + Entries - e) /\ r + Entries - e \in 0 .. Entries - 1
      BY <1>1, <1>2, <1>3, <2>1
    <3> QED
      BY <1>1, <1>2, <2>1, <3>1, Quotient DEF Laps
  <2>2. CASE ~(r < e)
    <3>1. n + 1 + Entries - 1 - e = Entries * (q + 1) + (r - e) /\ r - e \in 0 .. Entries - 1
      BY <1>1, <1>2, <1>3, <2>2
    <3> QED
      BY <1>1, <1>2, <2>2, <3>1, Quotient DEF Laps
  <2> QED
    BY <2>1, <2>2
<1> QED
  BY <1>2, <1>4, <1>5 DEF r

\* No turn, no lap; a number of laps is a number.
LEMMA LapsType ==
    ASSUME NEW n \in Nat, NEW e \in 0 .. Entries - 1
    PROVE  Laps(n, e) \in Nat /\ Laps(0, e) = 0
<1>1. Entries \in Nat \ {0}
  BY ConstantsOK DEF ConstantsOK
<1>2. n + Entries - 1 - e \in Nat
  BY <1>1
<1>3. Laps(n, e) \in Nat
  BY <1>1, <1>2, QuotientAndRemainder DEF Laps
<1>4. 0 + Entries - 1 - e = Entries * 0 + (Entries - 1 - e) /\ Entries - 1 - e \in 0 .. Entries - 1
  BY <1>1
<1>5. Laps(0, e) = 0
  BY <1>1, <1>4, Quotient DEF Laps
<1> QED
  BY <1>3, <1>5

\* No entry is more than a lap ahead of another.
LEMMA LapsBalanced ==
    ASSUME NEW n \in Nat, NEW d \in 0 .. Entries - 1, NEW e \in 0 .. Entries - 1
    PROVE  Laps(n, d) <= Laps(n, e) + 1
<1> DEFINE a == n + Entries - 1 - d
           b == n + Entries - 1 - e
<1>1. Entries \in Nat \ {0}
  BY ConstantsOK DEF ConstantsOK
<1>2. a \in Nat /\ b \in Nat /\ a < b + Entries
  BY <1>1
<1> HIDE DEF a, b
<1>3. /\ a = Entries * (a \div Entries) + (a % Entries) /\ a % Entries \in 0 .. Entries - 1
      /\ b = Entries * (b \div Entries) + (b % Entries) /\ b % Entries \in 0 .. Entries - 1
      /\ a \div Entries \in Nat /\ b \div Entries \in Nat
  BY <1>1, <1>2, QuotientAndRemainder
<1>4. ASSUME NEW x \in Nat, NEW y \in Nat, x > y + 1 PROVE Entries * x >= Entries * y + Entries + Entries
  <2>1. Entries * (y + 2) <= Entries * x
    BY <1>1, <1>4, ProductMonotone
  <2>2. Entries * (y + 1) = Entries * y + Entries /\ Entries * (y + 1 + 1) = Entries * (y + 1) + Entries
    BY <1>1, <1>4, ProductOfNext
  <2>3. y + 1 + 1 = y + 2
    OBVIOUS
  <2> QED
    BY <2>1, <2>2, <2>3, <1>1
<1>5. a \div Entries <= b \div Entries + 1
  <2> SUFFICES ASSUME a \div Entries > b \div Entries + 1 PROVE FALSE
    BY <1>3
  <2> DEFINE x == a \div Entries
             y == b \div Entries
             u == Entries * x
             v == Entries * y
  <2>1. u >= v + Entries + Entries /\ u \in Nat /\ v \in Nat
    BY <1>1, <1>3, <1>4, ProductOfNext
  <2> HIDE DEF u, v
  <2> QED
    BY <1>1, <1>2, <1>3, <2>1 DEF u, v
<1> QED
  BY <1>5 DEF Laps, a, b

-----------------------------------------------------------------------------
\* The inductive invariant.

\* A percentile under way has read, of each bucket before at[t], a number between
\* what the bucket held at the start and what it holds now.
ScanOf(t) ==
    pc[t] = "scan" =>
        /\ \A i \in BucketIds : before[t][i] <= bucket[i]
        /\ UpTo(before[t], at[t] - 1) <= sum_to[t]
        /\ sum_to[t] <= UpTo(bucket, at[t] - 1)
        /\ at[t] > 1 => sum_to[t] < target[t]

Scanning == \A t \in Threads : ScanOf(t)

\* PercentileBracketed, for one thread.
ResultOf(t) ==
    pc[t] = "got" =>
        /\ at[t] < Buckets => UpTo(bucket, at[t]) >= target[t]
        /\ at[t] > 1 => UpTo(before[t], at[t] - 1) < target[t]

\* Where the round robin stands.
InTurn ==
    /\ \A e \in 0 .. Entries - 1 : picked[e] = wraps * Laps(Wrap, e) + Laps(turn, e)
    /\ wraps <= SumOver(picked, DOMAIN picked)
    /\ SumOver(picked, DOMAIN picked) <= MaxPicks

IInv == TypeOK /\ CountsAddUp /\ Scanning /\ PercentileBracketed /\ InTurn

\* The sums of the buckets are numbers.
LEMMA BucketSums ==
    ASSUME NEW most \in Nat, NEW counts \in [BucketIds -> 0 .. most], NEW i \in 0 .. Buckets
    PROVE  UpTo(counts, i) \in Nat
<1>1. IsFiniteSet(1 .. i)
  BY FS_Interval
<1>2. \A j \in 1 .. i : counts[j] \in 0 .. most
  BY ConstantsOK DEF ConstantsOK, BucketIds
<1> QED
  BY <1>1, <1>2, SumIsNumber DEF UpTo

\* While the buckets fill, their sums do not shrink.
LEMMA BucketsGrow ==
    ASSUME NEW most \in Nat, NEW counts \in [BucketIds -> 0 .. most], NEW greater \in [BucketIds -> 0 .. most],
           \A j \in BucketIds : counts[j] <= greater[j], NEW i \in 0 .. Buckets
    PROVE  UpTo(counts, i) <= UpTo(greater, i)
<1>1. IsFiniteSet(1 .. i)
  BY FS_Interval
<1>2. \A j \in 1 .. i : j \in BucketIds
  BY ConstantsOK DEF ConstantsOK, BucketIds
<1>3. \A j \in 1 .. i : counts[j] \in Nat /\ greater[j] \in 0 .. most
  BY <1>2
<1> QED
  BY <1>1, <1>2, <1>3, SumMonotone DEF UpTo

\* A sum up to a bucket is at most the sum of all.
LEMMA PartialSum ==
    ASSUME NEW most \in Nat, NEW counts \in [BucketIds -> 0 .. most], NEW i \in 0 .. Buckets
    PROVE  UpTo(counts, i) <= UpTo(counts, Buckets)
<1>1. IsFiniteSet(1 .. Buckets) /\ 1 .. i \in SUBSET (1 .. Buckets)
  BY ConstantsOK, FS_Interval DEF ConstantsOK
<1>2. \A j \in 1 .. Buckets : counts[j] \in Nat /\ counts[j] \in 0 .. most
  BY DEF BucketIds
<1>3. \A j \in 1 .. i : counts[j] <= counts[j]
  BY <1>1, <1>2
<1> QED
  BY <1>1, <1>2, <1>3, SumMonotone DEF UpTo

\* The threads between the two additions of observe().
Observing == {t \in Threads : pc[t] = "bucket"}

\* They are finitely many.
LEMMA ObservingFinite == IsFiniteSet(Observing) /\ Cardinality(Observing) \in Nat
<1>1. IsFiniteSet(Threads) /\ Observing \in SUBSET Threads
  BY ConstantsOK DEF ConstantsOK, Observing
<1> QED
  BY <1>1, FS_Subset, FS_CardinalityType

\* A thread that goes from one place to another enters or leaves the set.
LEMMA ObservingChanges ==
    ASSUME TypeOK, NEW t \in Threads, NEW from, NEW to, Goto(t, from, to)
    PROVE  Cardinality(Observing') = Cardinality(Observing)
               - (IF from = "bucket" THEN 1 ELSE 0) + (IF to = "bucket" THEN 1 ELSE 0)
<1> DEFINE others == Observing \ {t}
<1>1. pc \in [Threads -> {"idle", "bucket", "scan", "got"}]
  BY DEF TypeOK
<1>2. Observing = IF from = "bucket" THEN others \union {t} ELSE others
  BY <1>1 DEF Observing, Goto
<1>3. Observing' = IF to = "bucket" THEN others \union {t} ELSE others
  BY <1>1 DEF Observing, Goto
<1>4. IsFiniteSet(others) /\ Cardinality(others) \in Nat
  BY ObservingFinite, FS_Difference, FS_CardinalityType
<1>5. Cardinality(others \union {t}) = Cardinality(others) + 1
  BY <1>4, FS_AddElement
<1> HIDE DEF others
<1> QED
  BY <1>2, <1>3, <1>4, <1>5

\* The invariant holds at the start.
LEMMA InitInv == Init => IInv
<1> SUFFICES ASSUME Init PROVE IInv
  OBVIOUS
<1>1. /\ Buckets \in Nat \ {0} /\ Entries \in Nat \ {0} /\ Wrap \in Nat \ {0}
      /\ MaxObservations \in Nat /\ MaxPicks \in Nat
  BY ConstantsOK DEF ConstantsOK
<1>2. TypeOK
  <2>1. /\ pc \in [Threads -> {"idle", "bucket", "scan", "got"}]
        /\ latency \in [Threads -> Latencies \union {0}]
    BY DEF Init
  <2>2. 0 \in 0 .. MaxObservations /\ 0 \in 0 .. MaxPicks /\ 0 \in 0 .. Wrap - 1 /\ 1 \in BucketIds
    BY <1>1 DEF BucketIds
  <2>3. Zero \in [BucketIds -> 0 .. MaxObservations]
    BY <2>2 DEF Zero
  <2> QED
    BY <2>1, <2>2, <2>3 DEF Init, TypeOK
<1>3. CountsAddUp
  <2>1. UpTo(bucket, Buckets) = 0
    <3>1. \A j \in 1 .. Buckets : bucket[j] = 0
      BY DEF Init, Zero, BucketIds
    <3> QED
      BY <3>1, SumOfNothing DEF UpTo
  <2>2. Cardinality(Observing) = 0
    <3>1. Observing = {}
      BY DEF Init, Observing
    <3> QED
      BY <3>1, FS_EmptySet
  <2>3. total = 0 /\ beyond = 0
    BY DEF Init
  <2> QED
    BY <2>1, <2>2, <2>3 DEF CountsAddUp, Observing
<1>4. Scanning /\ PercentileBracketed
  BY DEF Init, Scanning, ScanOf, PercentileBracketed
<1>5. InTurn
  <2>1. SumOver(picked, DOMAIN picked) = 0
    <3>1. \A e \in DOMAIN picked : picked[e] = 0
      BY DEF Init
    <3> QED
      BY <3>1, SumOfNothing
  <2>2. ASSUME NEW e \in 0 .. Entries - 1
        PROVE  picked[e] = wraps * Laps(Wrap, e) + Laps(turn, e)
    <3>1. Laps(0, e) = 0 /\ Laps(Wrap, e) \in Nat
      BY <1>1, LapsType
    <3>2. 0 * Laps(Wrap, e) + 0 = 0
      BY <3>1
    <3>3. picked[e] = 0 /\ wraps = 0 /\ turn = 0
      BY DEF Init
    <3> QED
      BY <3>1, <3>2, <3>3
  <2>3. wraps = 0
    BY DEF Init
  <2> QED
    BY <1>1, <2>1, <2>2, <2>3 DEF InTurn
<1> QED
  BY <1>2, <1>3, <1>4, <1>5 DEF IInv

\* What the other threads scan and have found stays true while one takes a step.
LEMMA OthersScan ==
    ASSUME TypeOK, TypeOK', Scanning, PercentileBracketed, NEW s \in Threads,
           UNCHANGED <<pc[s], target[s], at[s], sum_to[s], before[s]>>,
           \A i \in BucketIds : bucket[i] <= bucket'[i]
    PROVE  ScanOf(s)' /\ ResultOf(s)'
<1>1. /\ bucket \in [BucketIds -> 0 .. MaxObservations] /\ bucket' \in [BucketIds -> 0 .. MaxObservations]
      /\ before[s] \in [BucketIds -> 0 .. MaxObservations]
      /\ at[s] \in BucketIds /\ sum_to[s] \in Nat /\ target[s] \in Nat
      /\ MaxObservations \in Nat /\ Buckets \in Nat \ {0}
  BY ConstantsOK DEF TypeOK, ConstantsOK
<1>2. at[s] \in 0 .. Buckets /\ at[s] - 1 \in 0 .. Buckets
  BY <1>1 DEF BucketIds
<1>3. ASSUME NEW i \in 0 .. Buckets
      PROVE  UpTo(bucket, i) <= UpTo(bucket', i) /\ UpTo(bucket, i) \in Nat /\ UpTo(bucket', i) \in Nat
  BY <1>1, BucketsGrow, BucketSums
<1>4. ScanOf(s) /\ ResultOf(s)
  BY DEF Scanning, PercentileBracketed, ResultOf
<1>5. ScanOf(s)'
  <2> SUFFICES ASSUME pc'[s] = "scan" PROVE ScanOf(s)'
    BY DEF ScanOf
  <2>1. /\ \A i \in BucketIds : before[s][i] <= bucket[i]
        /\ UpTo(before[s], at[s] - 1) <= sum_to[s]
        /\ sum_to[s] <= UpTo(bucket, at[s] - 1)
        /\ at[s] > 1 => sum_to[s] < target[s]
    BY <1>4 DEF ScanOf
  <2>2. \A i \in BucketIds : before[s][i] <= bucket'[i]
    BY <1>1, <2>1
  <2>3. sum_to[s] <= UpTo(bucket', at[s] - 1)
    BY <1>1, <1>2, <1>3, <2>1
  <2> QED
    BY <2>1, <2>2, <2>3 DEF ScanOf, UpTo, SumOver, Counted
<1>6. ResultOf(s)'
  <2> SUFFICES ASSUME pc'[s] = "got" PROVE ResultOf(s)'
    BY DEF ResultOf
  <2>1. /\ at[s] < Buckets => UpTo(bucket, at[s]) >= target[s]
        /\ at[s] > 1 => UpTo(before[s], at[s] - 1) < target[s]
    BY <1>4 DEF ResultOf
  <2>2. at[s] < Buckets => UpTo(bucket', at[s]) >= target[s]
    BY <1>1, <1>2, <1>3, <2>1
  <2> QED
    BY <2>1, <2>2 DEF ResultOf, UpTo, SumOver, Counted
<1> QED
  BY <1>5, <1>6

\* The threads that have no step to take keep what they have found; t is the
\* one that takes a step.
LEMMA AllScan ==
    ASSUME TypeOK, TypeOK', Scanning, PercentileBracketed, NEW t \in Threads,
           \A s \in Threads \ {t} : UNCHANGED <<pc[s], target[s], at[s], sum_to[s], before[s]>>,
           \A i \in BucketIds : bucket[i] <= bucket'[i],
           ScanOf(t)', ResultOf(t)'
    PROVE  Scanning' /\ PercentileBracketed'
<1>1. \A s \in Threads : ScanOf(s)' /\ ResultOf(s)'
  <2> SUFFICES ASSUME NEW s \in Threads \ {t} PROVE ScanOf(s)' /\ ResultOf(s)'
    OBVIOUS
  <2> QED
    BY OthersScan
<1>2. Scanning'
  BY <1>1 DEF Scanning
<1>3. PercentileBracketed'
  BY <1>1 DEF PercentileBracketed, ResultOf
<1> QED
  BY <1>2, <1>3

\* The pool is not touched by the histogram.
LEMMA PoolAlone ==
    ASSUME InTurn, UNCHANGED pool
    PROVE  InTurn'
BY DEF InTurn, pool, Laps, SumOver, Counted

\* observe() counts an observation in the total.
LEMMA CountObservationStep ==
    ASSUME IInv, NEW t \in Threads, NEW v \in Latencies, CountObservation(t, v)
    PROVE  IInv'
<1>1. /\ Goto(t, "idle", "bucket") /\ pc' = [pc EXCEPT ![t] = "bucket"]
      /\ total < MaxObservations /\ total' = total + 1
      /\ latency' = [latency EXCEPT ![t] = v]
      /\ UNCHANGED <<bucket, beyond, target, at, sum_to, before, turn, picked, wraps>>
  BY DEF CountObservation, Goto, scanning, pool
<1>2. TypeOK /\ CountsAddUp /\ Scanning /\ PercentileBracketed /\ InTurn
  BY DEF IInv
<1>3. TypeOK'
  <2>1. /\ pc' \in [Threads -> {"idle", "bucket", "scan", "got"}]
        /\ latency' \in [Threads -> Latencies \union {0}]
    BY <1>1, <1>2 DEF TypeOK
  <2>2. total' \in 0 .. MaxObservations
    BY <1>1, <1>2, ConstantsOK DEF TypeOK, ConstantsOK
  <2> QED
    BY <1>1, <1>2, <2>1, <2>2 DEF TypeOK
<1>4. CountsAddUp'
  <2>1. Cardinality(Observing') = Cardinality(Observing) + 1
    BY <1>1, <1>2, ObservingChanges, ObservingFinite
  <2>2. UpTo(bucket', Buckets) = UpTo(bucket, Buckets) /\ UpTo(bucket, Buckets) \in Nat
    <3>1. /\ bucket \in [BucketIds -> 0 .. MaxObservations]
          /\ MaxObservations \in Nat /\ Buckets \in 0 .. Buckets
      BY <1>2, ConstantsOK DEF TypeOK, ConstantsOK
    <3>2. UpTo(bucket', Buckets) = UpTo(bucket, Buckets)
      BY <1>1
    <3> QED
      BY <3>1, <3>2, BucketSums
  <2>3. total = UpTo(bucket, Buckets) + beyond + Cardinality(Observing)
    BY <1>2 DEF CountsAddUp, Observing
  <2>4. total' = UpTo(bucket', Buckets) + beyond' + Cardinality(Observing')
    BY <1>1, <1>2, <2>1, <2>2, <2>3, ObservingFinite DEF TypeOK
  <2> QED
    BY <2>4 DEF CountsAddUp, Observing, UpTo, SumOver, Counted
<1>5. Scanning' /\ PercentileBracketed'
  <2>1. pc'[t] = "bucket"
    BY <1>1, <1>2 DEF TypeOK
  <2>2. ScanOf(t)' /\ ResultOf(t)'
    BY <2>1 DEF ScanOf, ResultOf
  <2>3. \A s \in Threads \ {t} : UNCHANGED <<pc[s], target[s], at[s], sum_to[s], before[s]>>
    BY <1>1, <1>2 DEF TypeOK
  <2>4. \A i \in BucketIds : bucket[i] <= bucket'[i]
    BY <1>1, <1>2 DEF TypeOK
  <2> QED
    BY <1>2, <1>3, <2>2, <2>3, <2>4, AllScan
<1>6. InTurn'
  BY <1>1, <1>2, PoolAlone DEF pool
<1> QED
  BY <1>3, <1>4, <1>5, <1>6 DEF IInv

\* Whether there is a bucket for a latency is decided by the last bound.
LEMMA LastBound ==
    ASSUME NEW v \in Nat
    PROVE  (\E i \in BucketIds : Covers(i, v)) <=> ~(v > Bound(Buckets))
BY ConstantsOK DEF ConstantsOK, Covers, Bound, BucketIds

\* observe() counts it in a bucket, or in none.
LEMMA FillBucketStep ==
    ASSUME IInv, NEW t \in Threads, FillBucket(t)
    PROVE  IInv'
<1> DEFINE v == latency[t]
           over == IF v > Bound(Buckets) THEN 1 ELSE 0
<1>1. /\ Goto(t, "bucket", "idle") /\ pc' = [pc EXCEPT ![t] = "idle"]
      /\ latency' = [latency EXCEPT ![t] = 0]
      /\ beyond' = beyond + over
      /\ UNCHANGED <<total, target, at, sum_to, before, turn, picked, wraps>>
      /\ \/ \E i \in BucketIds : Covers(i, v) /\ bucket' = [bucket EXCEPT ![i] = @ + 1]
         \/ (\A i \in BucketIds : ~Covers(i, v)) /\ UNCHANGED bucket
  BY DEF FillBucket, Goto, scanning, pool
<1>2. TypeOK /\ CountsAddUp /\ Scanning /\ PercentileBracketed /\ InTurn
  BY DEF IInv
<1>3. /\ Buckets \in Nat \ {0} /\ Buckets \in 0 .. Buckets /\ MaxObservations \in Nat
      /\ bucket \in [BucketIds -> 0 .. MaxObservations] /\ beyond \in Nat /\ total \in 0 .. MaxObservations
      /\ IsFiniteSet(BucketIds)
  <2>1. Buckets \in Nat \ {0} /\ MaxObservations \in Nat
    BY ConstantsOK DEF ConstantsOK
  <2>2. IsFiniteSet(1 .. Buckets)
    BY <2>1, FS_Interval
  <2> QED
    BY <1>2, <2>1, <2>2 DEF TypeOK, BucketIds
<1>4. v \in Nat
  <2>1. latency[t] \in Latencies \union {0}
    BY <1>2 DEF TypeOK
  <2>2. Latencies \subseteq Nat
    BY ConstantsOK DEF ConstantsOK
  <2>3. 0 \in Nat
    OBVIOUS
  <2> QED
    BY <2>1, <2>2, <2>3, Zenon
<1>5. over \in {0, 1}
  OBVIOUS
<1>6. /\ bucket' \in [BucketIds -> 0 .. MaxObservations + 1]
      /\ \A i \in BucketIds : bucket[i] <= bucket'[i]
      /\ UpTo(bucket', Buckets) + over = UpTo(bucket, Buckets) + 1
      /\ UpTo(bucket, Buckets) \in Nat /\ UpTo(bucket', Buckets) \in Nat
  <2>1. UpTo(bucket, Buckets) \in Nat
    BY <1>3, BucketSums
  <2>2. CASE \E i \in BucketIds : Covers(i, v) /\ bucket' = [bucket EXCEPT ![i] = @ + 1]
    <3>1. PICK i \in BucketIds : Covers(i, v) /\ bucket' = [bucket EXCEPT ![i] = @ + 1]
      BY <2>2
    <3>2. over = 0
      BY <3>1, <1>4, LastBound
    <3>3. UpTo(bucket', Buckets) = UpTo(bucket, Buckets) + 1
      <4>1. SumOver(bucket', BucketIds) = SumOver(bucket, BucketIds) + 1
        <5>1. OneMore(bucket, bucket', i)
          BY <3>1 DEF OneMore
        <5> QED
          BY <1>3, <5>1, SumOfIncrement
      <4> QED
        BY <4>1 DEF UpTo, BucketIds
    <3>4. /\ bucket' \in [BucketIds -> 0 .. MaxObservations + 1]
          /\ \A j \in BucketIds : bucket[j] <= bucket'[j]
      BY <1>3, <3>1
    <3> QED
      BY <2>1, <3>2, <3>3, <3>4
  <2>3. CASE (\A i \in BucketIds : ~Covers(i, v)) /\ UNCHANGED bucket
    <3>1. over = 1
      BY <2>3, <1>4, LastBound
    <3>2. UpTo(bucket', Buckets) = UpTo(bucket, Buckets)
      BY <2>3
    <3>3. /\ bucket' \in [BucketIds -> 0 .. MaxObservations + 1]
          /\ \A j \in BucketIds : bucket[j] <= bucket'[j]
      BY <1>3, <2>3
    <3> QED
      BY <2>1, <3>1, <3>2, <3>3
  <2> QED
    BY <1>1, <2>2, <2>3
<1>7. total' = UpTo(bucket', Buckets) + beyond' + Cardinality(Observing')
  <2>1. Cardinality(Observing') = Cardinality(Observing) - 1
    BY <1>1, <1>2, ObservingChanges, ObservingFinite
  <2>2. total = UpTo(bucket, Buckets) + beyond + Cardinality(Observing)
    BY <1>2 DEF CountsAddUp, Observing
  <2> HIDE DEF over
  <2> QED
    BY <1>1, <1>3, <1>5, <1>6, <2>1, <2>2, ObservingFinite
<1>8. CountsAddUp'
  BY <1>7 DEF CountsAddUp, Observing, UpTo, SumOver, Counted
<1>9. TypeOK'
  <2>1. /\ pc' \in [Threads -> {"idle", "bucket", "scan", "got"}]
        /\ latency' \in [Threads -> Latencies \union {0}]
    BY <1>1, <1>2 DEF TypeOK
  <2>2. Cardinality(Observing') \in Nat
    <3>1. IsFiniteSet(Threads) /\ Observing' \in SUBSET Threads
      BY ConstantsOK DEF ConstantsOK, Observing
    <3> QED
      BY <3>1, FS_Subset, FS_CardinalityType
  <2>3. beyond' \in Nat
    BY <1>1, <1>3, <1>5
  <2>4. UpTo(bucket', Buckets) <= MaxObservations /\ beyond' \in 0 .. MaxObservations
    BY <1>1, <1>3, <1>6, <1>7, <2>2, <2>3
  <2>5. ASSUME NEW i \in BucketIds PROVE bucket'[i] <= UpTo(bucket', Buckets)
    <3>1. \A j \in BucketIds : bucket'[j] \in 0 .. MaxObservations + 1
      BY <1>3, <1>6
    <3>2. MaxObservations + 1 \in Nat
      BY <1>3
    <3>3. bucket'[i] <= SumOver(bucket', BucketIds)
      BY <1>3, <3>1, <3>2, PartOfSum
    <3> QED
      BY <3>3 DEF UpTo, BucketIds
  <2>6. bucket' \in [BucketIds -> 0 .. MaxObservations]
    <3>1. ASSUME NEW i \in BucketIds PROVE bucket'[i] \in 0 .. MaxObservations
      BY <1>3, <1>6, <2>4, <2>5
    <3> QED
      BY <1>6, <3>1
  <2> QED
    BY <1>1, <1>2, <2>1, <2>4, <2>6 DEF TypeOK
<1>10. Scanning' /\ PercentileBracketed'
  <2>1. pc'[t] = "idle"
    BY <1>1, <1>2 DEF TypeOK
  <2>2. ScanOf(t)' /\ ResultOf(t)'
    BY <2>1 DEF ScanOf, ResultOf
  <2>3. \A s \in Threads \ {t} : UNCHANGED <<pc[s], target[s], at[s], sum_to[s], before[s]>>
    BY <1>1, <1>2 DEF TypeOK
  <2> QED
    BY <1>2, <1>6, <1>9, <2>2, <2>3, AllScan
<1>11. InTurn'
  BY <1>1, <1>2, PoolAlone DEF pool
<1> QED
  BY <1>8, <1>9, <1>10, <1>11 DEF IInv

\* The sums do not change when only the scans do.
LEMMA CountsAlone ==
    ASSUME IInv, NEW t \in Threads, NEW from, NEW to, Goto(t, from, to),
           from # "bucket", to # "bucket", UNCHANGED observing
    PROVE  CountsAddUp'
<1>1. TypeOK /\ total = UpTo(bucket, Buckets) + beyond + Cardinality(Observing)
  BY DEF IInv, CountsAddUp, Observing
<1>2. Cardinality(Observing') = Cardinality(Observing)
  BY <1>1, ObservingChanges, ObservingFinite
<1>3. UNCHANGED <<total, bucket, beyond>>
  BY DEF observing
<1>4. UpTo(bucket', Buckets) = UpTo(bucket, Buckets)
  BY <1>3
<1>5. total' = UpTo(bucket', Buckets) + beyond' + Cardinality(Observing')
  BY <1>1, <1>2, <1>3, <1>4
<1> QED
  BY <1>5 DEF CountsAddUp, Observing, UpTo, SumOver, Counted

\* percentile() loads the total and computes the rank.
LEMMA StartScanStep ==
    ASSUME IInv, NEW t \in Threads, NEW p \in Percents, StartScan(t, p)
    PROVE  IInv'
<1>1. /\ total > 0 /\ Goto(t, "idle", "scan") /\ pc' = [pc EXCEPT ![t] = "scan"]
      /\ target' = [target EXCEPT ![t] = Rank(total, p)]
      /\ at' = [at EXCEPT ![t] = 1]
      /\ sum_to' = [sum_to EXCEPT ![t] = 0]
      /\ before' = [before EXCEPT ![t] = bucket]
      /\ UNCHANGED <<latency, total, bucket, beyond, turn, picked, wraps>>
  BY DEF StartScan, Goto, observing, pool
<1>2. TypeOK /\ CountsAddUp /\ Scanning /\ PercentileBracketed /\ InTurn
  BY DEF IInv
<1>3. /\ Buckets \in Nat \ {0} /\ MaxObservations \in Nat /\ total \in 0 .. MaxObservations
      /\ bucket \in [BucketIds -> 0 .. MaxObservations]
  BY <1>2, ConstantsOK DEF TypeOK, ConstantsOK
<1>4. TypeOK'
  <2>1. Rank(total, p) \in 0 .. MaxObservations
    <3>1. p \in 0 .. 100
      BY ConstantsOK DEF ConstantsOK
    <3>2. total \in Nat
      BY <1>3
    <3>3. Rank(total, p) \in 0 .. total
      BY <3>1, <3>2, RankInRange
    <3> QED
      BY <1>3, <3>3
  <2>2. 1 \in BucketIds /\ 0 \in 0 .. MaxObservations
    BY <1>3 DEF BucketIds
  <2>3. pc' \in [Threads -> {"idle", "bucket", "scan", "got"}]
    BY <1>1, <1>2 DEF TypeOK
  <2>4. /\ target' \in [Threads -> 0 .. MaxObservations]
        /\ at' \in [Threads -> BucketIds]
        /\ sum_to' \in [Threads -> 0 .. MaxObservations]
        /\ before' \in [Threads -> [BucketIds -> 0 .. MaxObservations]]
    BY <1>1, <1>2, <1>3, <2>1, <2>2 DEF TypeOK
  <2> QED
    BY <1>1, <1>2, <2>3, <2>4 DEF TypeOK
<1>5. CountsAddUp'
  BY <1>1, CountsAlone DEF observing
<1>6. Scanning' /\ PercentileBracketed'
  <2>1. pc'[t] = "scan" /\ at'[t] = 1 /\ sum_to'[t] = 0 /\ before'[t] = bucket
    BY <1>1, <1>2 DEF TypeOK
  <2>2. ASSUME NEW counts PROVE UpTo(counts, 0) = 0
    <3>1. \A j \in 1 .. 0 : counts[j] = 0
      OBVIOUS
    <3> QED
      BY <3>1, SumOfNothing DEF UpTo
  <2>3. at'[t] - 1 = 0
    BY <2>1
  <2>4. UpTo(before'[t], at'[t] - 1) = 0 /\ UpTo(bucket', at'[t] - 1) = 0
    BY <2>2, <2>3
  <2>5. \A i \in BucketIds : bucket[i] <= bucket'[i]
    BY <1>1, <1>3
  <2>6. \A i \in BucketIds : before'[t][i] <= bucket'[i]
    BY <1>1, <1>3, <2>1
  <2>7. ~(at'[t] > 1) /\ UpTo(before'[t], at'[t] - 1) <= sum_to'[t] /\ sum_to'[t] <= UpTo(bucket', at'[t] - 1)
    BY <2>1, <2>4
  <2>8. ScanOf(t)' /\ ResultOf(t)'
    BY <2>1, <2>6, <2>7 DEF ScanOf, ResultOf, UpTo, SumOver, Counted
  <2>9. \A s \in Threads \ {t} : UNCHANGED <<pc[s], target[s], at[s], sum_to[s], before[s]>>
    BY <1>1, <1>2 DEF TypeOK
  <2> QED
    BY <1>2, <1>4, <2>5, <2>8, <2>9, AllScan
<1>7. InTurn'
  BY <1>1, <1>2, PoolAlone DEF pool
<1> QED
  BY <1>4, <1>5, <1>6, <1>7 DEF IInv

\* percentile() loads a bucket.
LEMMA ScanBucketStep ==
    ASSUME IInv, NEW t \in Threads, ScanBucket(t)
    PROVE  IInv'
<1> DEFINE k == at[t]
           n == sum_to[t] + bucket[k]
           found == Reached(n, target[t]) \/ k = Buckets
<1>1. /\ pc[t] = "scan" /\ pc' = [pc EXCEPT ![t] = IF found THEN "got" ELSE "scan"]
      /\ Goto(t, "scan", IF found THEN "got" ELSE "scan")
      /\ sum_to' = [sum_to EXCEPT ![t] = n]
      /\ at' = [at EXCEPT ![t] = IF found THEN @ ELSE @ + 1]
      /\ UNCHANGED <<latency, total, bucket, beyond, target, before, turn, picked, wraps>>
  BY DEF ScanBucket, Goto, observing, pool
<1>2. TypeOK /\ CountsAddUp /\ Scanning /\ PercentileBracketed /\ InTurn
  BY DEF IInv
<1>3. /\ Buckets \in Nat \ {0} /\ MaxObservations \in Nat
      /\ bucket \in [BucketIds -> 0 .. MaxObservations] /\ before[t] \in [BucketIds -> 0 .. MaxObservations]
      /\ target[t] \in Nat /\ sum_to[t] \in Nat /\ k \in BucketIds
      /\ total \in 0 .. MaxObservations /\ beyond \in Nat
  BY <1>2, ConstantsOK DEF TypeOK, ConstantsOK
<1>4. k \in 1 .. Buckets /\ k - 1 \in 0 .. Buckets /\ k \in 0 .. Buckets /\ Buckets \in 0 .. Buckets
  BY <1>3 DEF BucketIds
<1>5. /\ \A i \in BucketIds : before[t][i] <= bucket[i]
      /\ UpTo(before[t], k - 1) <= sum_to[t]
      /\ sum_to[t] <= UpTo(bucket, k - 1)
      /\ k > 1 => sum_to[t] < target[t]
  BY <1>1, <1>2 DEF Scanning, ScanOf
<1>6. ASSUME NEW counts \in [BucketIds -> 0 .. MaxObservations]
      PROVE  UpTo(counts, k) = UpTo(counts, k - 1) + counts[k] /\ UpTo(counts, k - 1) \in Nat
  <2>1. k - 1 \in Nat /\ k - 1 + 1 = k
    BY <1>4
  <2>2. \A j \in 1 .. k : j \in BucketIds
    BY <1>3, <1>4 DEF BucketIds
  <2>3. \A j \in 1 .. k - 1 + 1 : counts[j] \in 0 .. MaxObservations
    BY <2>1, <2>2
  <2>4. UpTo(counts, k - 1 + 1) = UpTo(counts, k - 1) + counts[k - 1 + 1]
    BY <1>3, <2>1, <2>3, SumOfNext
  <2> QED
    BY <1>3, <1>4, <2>1, <2>4, BucketSums
<1>7. UpTo(before[t], k) <= n /\ n <= UpTo(bucket, k) /\ n \in Nat
  BY <1>3, <1>5, <1>6
<1>8. UpTo(bucket, k) <= MaxObservations /\ UpTo(bucket, k) \in Nat
  <2>1. UpTo(bucket, k) <= UpTo(bucket, Buckets)
    BY <1>3, <1>4, PartialSum
  <2>2. UpTo(bucket, Buckets) \in Nat /\ UpTo(bucket, k) \in Nat
    BY <1>3, <1>4, BucketSums
  <2>3. total = UpTo(bucket, Buckets) + beyond + Cardinality(Observing)
    BY <1>2 DEF CountsAddUp, Observing
  <2> QED
    BY <1>3, <2>1, <2>2, <2>3, ObservingFinite
<1>9. TypeOK'
  <2>1. n \in 0 .. MaxObservations
    BY <1>3, <1>7, <1>8
  <2>2. found \/ k + 1 \in BucketIds
    BY <1>4 DEF BucketIds
  <2>3. pc' \in [Threads -> {"idle", "bucket", "scan", "got"}]
    BY <1>1, <1>2 DEF TypeOK
  <2>4. at' \in [Threads -> BucketIds]
    BY <1>1, <1>2, <1>3, <2>2 DEF TypeOK
  <2>5. sum_to' \in [Threads -> 0 .. MaxObservations]
    BY <1>1, <1>2, <2>1 DEF TypeOK
  <2> QED
    BY <1>1, <1>2, <2>3, <2>4, <2>5 DEF TypeOK
<1>10. CountsAddUp'
  BY <1>1, CountsAlone DEF observing
<1>11. Scanning' /\ PercentileBracketed'
  <2>1. /\ pc'[t] = (IF found THEN "got" ELSE "scan")
        /\ sum_to'[t] = n
        /\ at'[t] = (IF found THEN k ELSE k + 1)
        /\ bucket' = bucket /\ target' = target /\ before' = before
    BY <1>1, <1>2 DEF TypeOK
  <2>2. \A i \in BucketIds : bucket[i] <= bucket'[i]
    BY <1>3, <2>1
  <2>3. \A s \in Threads \ {t} : UNCHANGED <<pc[s], target[s], at[s], sum_to[s], before[s]>>
    BY <1>1, <1>2 DEF TypeOK
  <2>4. CASE found
    <3>1. pc'[t] = "got" /\ at'[t] = k
      BY <2>1, <2>4
    <3>2. k < Buckets => UpTo(bucket, k) >= target[t]
      BY <1>3, <1>4, <1>7, <1>8, <2>4 DEF Reached
    <3>3. k > 1 => UpTo(before[t], k - 1) < target[t]
      BY <1>3, <1>5, <1>6
    <3>4. ScanOf(t)'
      BY <3>1 DEF ScanOf
    <3>5. ResultOf(t)'
      BY <2>1, <3>1, <3>2, <3>3 DEF ResultOf, UpTo, SumOver, Counted
    <3> QED
      BY <1>2, <1>9, <2>2, <2>3, <3>4, <3>5, AllScan
  <2>5. CASE ~found
    <3>1. pc'[t] = "scan" /\ at'[t] = k + 1
      BY <2>1, <2>5
    <3>2. n < target[t]
      BY <1>3, <1>7, <2>5 DEF Reached
    <3>3. at'[t] - 1 = k
      BY <3>1, <1>4
    <3>4. ScanOf(t)'
      <4>1. /\ \A i \in BucketIds : before'[t][i] <= bucket'[i]
            /\ UpTo(before'[t], at'[t] - 1) <= sum_to'[t]
            /\ sum_to'[t] <= UpTo(bucket', at'[t] - 1)
            /\ sum_to'[t] < target'[t]
        BY <1>5, <1>7, <2>1, <3>2, <3>3
      <4> QED
        BY <4>1 DEF ScanOf, UpTo, SumOver, Counted
    <3>5. ResultOf(t)'
      BY <3>1 DEF ResultOf
    <3> QED
      BY <1>2, <1>9, <2>2, <2>3, <3>4, <3>5, AllScan
  <2> QED
    BY <2>4, <2>5
<1>12. InTurn'
  BY <1>1, <1>2, PoolAlone DEF pool
<1> QED
  BY <1>9, <1>10, <1>11, <1>12 DEF IInv

\* The caller of percentile() uses the result.
LEMMA UseResultStep ==
    ASSUME IInv, NEW t \in Threads, UseResult(t)
    PROVE  IInv'
<1>1. /\ Goto(t, "got", "idle") /\ pc' = [pc EXCEPT ![t] = "idle"]
      /\ target' = [target EXCEPT ![t] = 0]
      /\ at' = [at EXCEPT ![t] = 1]
      /\ sum_to' = [sum_to EXCEPT ![t] = 0]
      /\ before' = [before EXCEPT ![t] = Zero]
      /\ UNCHANGED <<latency, total, bucket, beyond, turn, picked, wraps>>
  BY DEF UseResult, Goto, observing, pool
<1>2. TypeOK /\ CountsAddUp /\ Scanning /\ PercentileBracketed /\ InTurn
  BY DEF IInv
<1>3. TypeOK'
  <2>1. 1 \in BucketIds /\ 0 \in 0 .. MaxObservations
    BY ConstantsOK DEF ConstantsOK, BucketIds
  <2>2. Zero \in [BucketIds -> 0 .. MaxObservations]
    BY <2>1 DEF Zero
  <2>3. pc' \in [Threads -> {"idle", "bucket", "scan", "got"}]
    BY <1>1, <1>2 DEF TypeOK
  <2>4. /\ target' \in [Threads -> 0 .. MaxObservations]
        /\ at' \in [Threads -> BucketIds]
        /\ sum_to' \in [Threads -> 0 .. MaxObservations]
        /\ before' \in [Threads -> [BucketIds -> 0 .. MaxObservations]]
    BY <1>1, <1>2, <2>1, <2>2 DEF TypeOK
  <2> QED
    BY <1>1, <1>2, <2>3, <2>4 DEF TypeOK
<1>4. CountsAddUp'
  BY <1>1, CountsAlone DEF observing
<1>5. Scanning' /\ PercentileBracketed'
  <2>1. pc'[t] = "idle"
    BY <1>1, <1>2 DEF TypeOK
  <2>2. ScanOf(t)' /\ ResultOf(t)'
    BY <2>1 DEF ScanOf, ResultOf
  <2>3. \A s \in Threads \ {t} : UNCHANGED <<pc[s], target[s], at[s], sum_to[s], before[s]>>
    BY <1>1, <1>2 DEF TypeOK
  <2>4. \A i \in BucketIds : bucket[i] <= bucket'[i]
    BY <1>1, <1>2, ConstantsOK DEF TypeOK, ConstantsOK
  <2> QED
    BY <1>2, <1>3, <2>2, <2>3, <2>4, AllScan
<1>6. InTurn'
  BY <1>1, <1>2, PoolAlone DEF pool
<1> QED
  BY <1>3, <1>4, <1>5, <1>6 DEF IInv

\* The histogram is not touched by the pool.
LEMMA HistogramAlone ==
    ASSUME UNCHANGED <<pc, observing, scanning>>
    PROVE  /\ CountsAddUp => CountsAddUp'
           /\ Scanning => Scanning'
           /\ PercentileBracketed => PercentileBracketed'
<1>1. UNCHANGED <<pc, total, bucket, beyond, target, at, sum_to, before>>
  BY DEF observing, scanning
<1>2. CountsAddUp => CountsAddUp'
  BY <1>1 DEF CountsAddUp, UpTo, SumOver, Counted
<1>3. Scanning => Scanning'
  BY <1>1 DEF Scanning, ScanOf, UpTo, SumOver, Counted
<1>4. PercentileBracketed => PercentileBracketed'
  BY <1>1 DEF PercentileBracketed, UpTo, SumOver, Counted
<1> QED
  BY <1>2, <1>3, <1>4

\* get() hands out the next entry.
LEMMA PickStep ==
    ASSUME IInv, NEW t \in Threads, Pick(t)
    PROVE  IInv'
<1> DEFINE e == turn % Entries
           wrapping == IF turn = Wrap - 1 THEN 1 ELSE 0
<1>1. /\ SumOver(picked, DOMAIN picked) < MaxPicks
      /\ turn' = Advanced(turn)
      /\ picked' = [picked EXCEPT ![e] = @ + 1]
      /\ wraps' = wraps + wrapping
      /\ UNCHANGED <<pc, observing, scanning>>
  BY DEF Pick
<1>2. TypeOK /\ CountsAddUp /\ Scanning /\ PercentileBracketed /\ InTurn
  BY DEF IInv
<1>3. /\ Entries \in Nat \ {0} /\ Wrap \in Nat \ {0} /\ MaxPicks \in Nat
      /\ turn \in 0 .. Wrap - 1 /\ turn \in Nat /\ wraps \in Nat
      /\ picked \in [0 .. Entries - 1 -> 0 .. MaxPicks] /\ DOMAIN picked = 0 .. Entries - 1
  BY <1>2, ConstantsOK DEF TypeOK, ConstantsOK
<1>4. IsFiniteSet(0 .. Entries - 1)
  BY <1>3, FS_Interval
<1>5. e \in 0 .. Entries - 1
  BY <1>3, QuotientAndRemainder
<1>6. turn' = IF turn = Wrap - 1 THEN 0 ELSE turn + 1
  <2>1. CASE turn = Wrap - 1
    <3>1. Wrap % Wrap = 0 /\ turn + 1 = Wrap
      BY <1>3, <2>1
    <3> QED
      BY <1>1, <1>3, <2>1, <3>1 DEF Advanced
  <2>2. CASE turn # Wrap - 1
    <3>1. (turn + 1) % Wrap = turn + 1
      BY <1>3, <2>2
    <3> QED
      BY <1>1, <2>2, <3>1 DEF Advanced
  <2> QED
    BY <2>1, <2>2
<1> HIDE DEF e
<1>7. /\ picked' \in [0 .. Entries - 1 -> 0 .. MaxPicks + 1] /\ DOMAIN picked' = 0 .. Entries - 1
      /\ \A d \in 0 .. Entries - 1 : picked'[d] = picked[d] + (IF d = e THEN 1 ELSE 0)
  BY <1>1, <1>3, <1>5
<1>8. /\ SumOver(picked', 0 .. Entries - 1) = SumOver(picked, 0 .. Entries - 1) + 1
      /\ SumOver(picked, 0 .. Entries - 1) \in Nat
  <2>1. OneMore(picked, picked', e)
    BY <1>1 DEF OneMore
  <2>2. SumOver(picked', 0 .. Entries - 1) = SumOver(picked, 0 .. Entries - 1) + 1
    <3> DEFINE D == 0 .. Entries - 1
    <3>1. D \in SUBSET D /\ picked \in [D -> 0 .. MaxPicks] /\ e \in D /\ IsFiniteSet(D)
      BY <1>3, <1>4, <1>5
    <3> HIDE DEF D
    <3>2. SumOver(picked', D) = SumOver(picked, D) + 1
      BY <1>3, <2>1, <3>1, SumOfIncrement
    <3> QED
      BY <3>2 DEF D
  <2>3. \A d \in 0 .. Entries - 1 : picked[d] \in 0 .. MaxPicks
    BY <1>3
  <2> QED
    BY <1>3, <1>4, <2>2, <2>3, SumIsNumber
<1>9. wraps' <= SumOver(picked', 0 .. Entries - 1) /\ SumOver(picked', 0 .. Entries - 1) <= MaxPicks /\ wraps' \in Nat
  <2>1. wraps <= SumOver(picked, 0 .. Entries - 1) /\ SumOver(picked, 0 .. Entries - 1) < MaxPicks
    BY <1>1, <1>2, <1>3 DEF InTurn
  <2> QED
    BY <1>1, <1>3, <1>8, <2>1
<1>10. TypeOK'
  <2>1. turn' \in 0 .. Wrap - 1
    BY <1>3, <1>6
  <2>2. wraps' \in 0 .. MaxPicks
    BY <1>3, <1>8, <1>9
  <2>3. ASSUME NEW d \in 0 .. Entries - 1 PROVE picked'[d] \in 0 .. MaxPicks
    <3>1. MaxPicks + 1 \in Nat /\ \A c \in 0 .. Entries - 1 : picked'[c] \in 0 .. MaxPicks + 1
      BY <1>3, <1>7
    <3>2. picked'[d] <= SumOver(picked', 0 .. Entries - 1)
      BY <1>4, <3>1, PartOfSum
    <3> QED
      BY <1>3, <1>8, <1>9, <3>1, <3>2
  <2>4. picked' \in [0 .. Entries - 1 -> 0 .. MaxPicks]
    BY <1>7, <2>3
  <2> QED
    BY <1>1, <1>2, <2>1, <2>2, <2>4 DEF TypeOK, observing, scanning
<1>11. InTurn'
  <2>1. ASSUME NEW d \in 0 .. Entries - 1
        PROVE  picked'[d] = wraps' * Laps(Wrap, d) + Laps(turn', d)
    <3> DEFINE L == Laps(Wrap, d)
               l == Laps(turn, d)
               one == IF d = e THEN 1 ELSE 0
    <3>1. L \in Nat /\ l \in Nat /\ Laps(0, d) = 0
      BY <1>3, LapsType
    <3>2. Laps(turn + 1, d) = l + one
      BY <1>3, LapsOfNext DEF e
    <3>3. picked[d] = wraps * L + l
      BY <1>2 DEF InTurn
    <3>4. picked'[d] = picked[d] + one
      BY <1>7
    <3>5. wraps * L \in Nat /\ (wraps + 1) * L = wraps * L + L
      BY <1>3, <3>1, ProductOfNext
    <3>6. CASE turn = Wrap - 1
      <4>1. turn + 1 = Wrap /\ turn' = 0 /\ wraps' = wraps + 1
        BY <1>1, <1>3, <1>6, <3>6
      <4>2. L = l + one
        BY <3>2, <4>1
      <4>3. wraps' * L + Laps(turn', d) = wraps * L + L
        BY <3>1, <3>5, <4>1
      <4> HIDE DEF L, l, one
      <4> QED
        BY <3>1, <3>3, <3>4, <3>5, <4>2, <4>3 DEF L, one
    <3>7. CASE turn # Wrap - 1
      <4>1. turn' = turn + 1 /\ wraps' = wraps
        BY <1>1, <1>3, <1>6, <3>7
      <4>2. Laps(turn', d) = l + one
        BY <3>2, <4>1
      <4> HIDE DEF l, one
      <4> QED
        BY <3>1, <3>3, <3>4, <3>5, <4>1, <4>2 DEF one
    <3> QED
      BY <3>6, <3>7
  <2>2. /\ \A d \in 0 .. Entries - 1 : picked'[d] = wraps' * Laps(Wrap, d) + Laps(turn', d)
        /\ wraps' <= SumOver(picked', DOMAIN picked') /\ SumOver(picked', DOMAIN picked') <= MaxPicks
    BY <1>7, <1>9, <2>1
  <2> QED
    BY <2>2 DEF InTurn, Laps, SumOver, Counted
<1>12. CountsAddUp' /\ Scanning' /\ PercentileBracketed'
  BY <1>1, <1>2, HistogramAlone
<1> QED
  BY <1>10, <1>11, <1>12 DEF IInv

\* Every step keeps the invariant.
LEMMA NextInv == IInv /\ [Next]_vars => IInv'
<1> SUFFICES ASSUME IInv, [Next]_vars PROVE IInv'
  OBVIOUS
<1>1. CASE UNCHANGED vars
  <2>1. UNCHANGED <<pc, observing, scanning, pool>>
    BY <1>1 DEF vars
  <2>2. TypeOK'
    BY <2>1 DEF IInv, TypeOK, observing, scanning, pool
  <2>3. InTurn'
    BY <2>1, PoolAlone DEF IInv
  <2> QED
    BY <2>1, <2>2, <2>3, HistogramAlone DEF IInv
<1>2. CASE Next
  BY <1>2, CountObservationStep, FillBucketStep, StartScanStep, ScanBucketStep, UseResultStep, PickStep DEF Next
<1> QED
  BY <1>1, <1>2

-----------------------------------------------------------------------------
\* Theorems.

\* The inductive invariant of the histogram and the round robin.
THEOREM CountersInvariance == Spec => []IInv
BY InitInv, NextInv, PTL DEF Spec

\* The counters have their types: no bucket and no sum that percentile() forms
\* exceeds the number of observations.
THEOREM CountersTypes == Spec => []TypeOK
<1>1. IInv => TypeOK
  BY DEF IInv
<1> QED
  BY <1>1, CountersInvariance, PTL

\* observe() loses no observation and counts none twice, whatever the threads
\* and the bounds.
THEOREM NoObservationLost == Spec => []CountsAddUp
<1>1. IInv => CountsAddUp
  BY DEF IInv
<1> QED
  BY <1>1, CountersInvariance, PTL

\* What percentile() returns lies between the histogram at its start and the
\* histogram at its end, although it reads the buckets one after the other.
THEOREM PercentileBetweenTwoMoments == Spec => []PercentileBracketed
<1>1. IInv => PercentileBracketed
  BY DEF IInv
<1> QED
  BY <1>1, CountersInvariance, PTL

\* What is in turn is balanced.
LEMMA TurnsBalanced == TypeOK /\ InTurn => PicksBalanced
<1> SUFFICES ASSUME TypeOK, InTurn, NEW d \in DOMAIN picked, NEW e \in DOMAIN picked
             PROVE  picked[d] <= picked[e] + 1 + wraps
  BY DEF PicksBalanced
<1>1. /\ turn \in Nat /\ Wrap \in Nat /\ wraps \in Nat /\ d \in 0 .. Entries - 1 /\ e \in 0 .. Entries - 1
  BY ConstantsOK DEF TypeOK, ConstantsOK
<1> DEFINE x == Laps(Wrap, d)
           y == Laps(Wrap, e)
<1>2. x \in Nat /\ y \in Nat /\ Laps(turn, d) \in Nat /\ Laps(turn, e) \in Nat
  BY <1>1, LapsType
<1>3. x <= y + 1 /\ Laps(turn, d) <= Laps(turn, e) + 1
  BY <1>1, LapsBalanced
<1>4. picked[d] = wraps * x + Laps(turn, d) /\ picked[e] = wraps * y + Laps(turn, e)
  BY <1>1 DEF InTurn
<1> HIDE DEF x, y
<1>5. wraps * x <= wraps * (y + 1)
  BY <1>1, <1>2, <1>3, ProductMonotone
<1>6. wraps * (y + 1) = wraps * y + wraps /\ wraps * x \in Nat /\ wraps * y \in Nat
  BY <1>1, <1>2, ProductOfNext
<1> QED
  BY <1>1, <1>2, <1>3, <1>4, <1>5, <1>6

\* The round robin is even, whatever the number of entries and wherever the
\* counter wraps, give or take one pick and one for each wrap.
THEOREM RoundRobinIsEven == Spec => []PicksBalanced
<1>1. IInv => PicksBalanced
  BY TurnsBalanced DEF IInv
<1> QED
  BY <1>1, CountersInvariance, PTL
=============================================================================
