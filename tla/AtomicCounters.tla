--------------------------- MODULE AtomicCounters ---------------------------
(***************************************************************************)
(* The lock-free counters of the gateway, used by many threads at once     *)
(* with relaxed atomic operations: LatencyHistogram::observe and           *)
(* percentile (gateway/src/metrics.rs), and the round robin of             *)
(* ConnectionPool::get and LoadBalancer::next_backend                      *)
(* (gateway/src/transport.rs).                                             *)
(*                                                                         *)
(* Every fetch_add and every load is a step.  A latency is a number; the   *)
(* bounds of the Buckets buckets are the even numbers 2, 4, ... so that a  *)
(* latency can meet a bound, fall between two, or exceed the last one,     *)
(* when it is counted in total and in no bucket.  The sum of the latencies *)
(* and mean(), which relate to nothing else, are left out.                 *)
(***************************************************************************)
EXTENDS Integers, FiniteSets

CONSTANTS
    Threads,          \* threads that use the counters
    Buckets,          \* number of buckets
    Latencies,        \* the latencies that are observed
    Percents,         \* the arguments of percentile()
    MaxObservations,  \* bound: calls of observe()
    Entries,          \* connections of the pool (backends of the balancer)
    Wrap,             \* 2^64, where fetch_add on an AtomicUsize wraps
    MaxPicks          \* bound: calls of get()

ASSUME ConstantsOK ==
    /\ IsFiniteSet(Threads)
    /\ Buckets \in Nat \ {0}
    /\ Latencies \subseteq Nat
    /\ Percents \subseteq 0 .. 100
    /\ MaxObservations \in Nat
    /\ Entries \in Nat \ {0}  \* with an empty pool, get() divides by zero
    /\ Wrap \in Nat \ {0}
    /\ MaxPicks \in Nat

VARIABLES
    pc,       \* pc[t]: "idle", "bucket" (in observe), "scan" or "got" (in percentile)
    latency,  \* latency[t]: the latency that t observes
    total,    \* observations counted
    bucket,   \* bucket[i]: those counted in bucket i
    target,   \* target[t]: the rank that percentile() looks for
    at,       \* at[t]: the bucket it loads next, then the one it returns
    sum_to,   \* sum_to[t]: cumulative
    before,   \* before[t]: history: the buckets when percentile() loaded total
    beyond,   \* history: completed observations that no bucket counts
    turn,     \* ConnectionPool::current
    picked,   \* picked[e]: history: how often entry e was returned
    wraps     \* history: how often the counter has wrapped

observing == <<latency, total, bucket, beyond>>
scanning == <<target, at, sum_to, before>>
pool == <<turn, picked, wraps>>
vars == <<pc, observing, scanning, pool>>

Bound(i) == 2 * i
BucketIds == 1 .. Buckets
Zero == [i \in BucketIds |-> 0]

\* The sum of counts[j] for the j in S: the number of all that is counted.
Counted(counts, S) == UNION {{j} \X (1 .. counts[j]) : j \in S}
SumOver(counts, S) == Cardinality(Counted(counts, S))
UpTo(counts, i) == SumOver(counts, 1 .. i)

Init ==
    /\ pc = [t \in Threads |-> "idle"]
    /\ latency = [t \in Threads |-> 0]
    /\ total = 0
    /\ bucket = Zero
    /\ beyond = 0
    /\ target = [t \in Threads |-> 0]
    /\ at = [t \in Threads |-> 1]
    /\ sum_to = [t \in Threads |-> 0]
    /\ before = [t \in Threads |-> Zero]
    /\ turn = 0
    /\ picked = [e \in 0 .. Entries - 1 |-> 0]
    /\ wraps = 0

Goto(t, from, to) == pc[t] = from /\ pc' = [pc EXCEPT ![t] = to]

-----------------------------------------------------------------------------
\* LatencyHistogram::observe

CountObservation(t, v) ==
    /\ Goto(t, "idle", "bucket")
    /\ total < MaxObservations
    /\ total' = total + 1
    /\ latency' = [latency EXCEPT ![t] = v]
    /\ UNCHANGED <<bucket, beyond, scanning, pool>>

BadCovers(i, v) == v < Bound(i)
Covers(i, v) == v <= Bound(i)

\* The first bucket whose bound is not exceeded, if there is one.
FillBucket(t) ==
    /\ Goto(t, "bucket", "idle")
    /\ \/ \E i \in BucketIds :
             /\ Covers(i, latency[t])
             /\ \A j \in 1 .. i - 1 : ~Covers(j, latency[t])
             /\ bucket' = [bucket EXCEPT ![i] = @ + 1]
       \/ /\ \A i \in BucketIds : ~Covers(i, latency[t])
          /\ UNCHANGED bucket
    /\ beyond' = beyond + (IF latency[t] > Bound(Buckets) THEN 1 ELSE 0)
    /\ latency' = [latency EXCEPT ![t] = 0]
    /\ UNCHANGED <<total, scanning, pool>>

-----------------------------------------------------------------------------
\* LatencyHistogram::percentile

\* The rank is truncated to an integer.
BadRank(n, p) == n * p
Rank(n, p) == (n * p) \div 100

\* No observation: 0.0.
StartScan(t, p) ==
    /\ total > 0
    /\ Goto(t, "idle", "scan")
    /\ target' = [target EXCEPT ![t] = Rank(total, p)]
    /\ at' = [at EXCEPT ![t] = 1]
    /\ sum_to' = [sum_to EXCEPT ![t] = 0]
    /\ before' = [before EXCEPT ![t] = bucket]
    /\ UNCHANGED <<observing, pool>>

BadReached(n, rank) == n > rank
Reached(n, rank) == n >= rank

\* One bucket is loaded.  The last bound is also the answer when no bucket
\* reaches the rank.
ScanBucket(t) ==
    LET n == sum_to[t] + bucket[at[t]]
        found == Reached(n, target[t]) \/ at[t] = Buckets
    IN  /\ Goto(t, "scan", IF found THEN "got" ELSE "scan")
        /\ sum_to' = [sum_to EXCEPT ![t] = n]
        /\ at' = [at EXCEPT ![t] = IF found THEN @ ELSE @ + 1]
        /\ UNCHANGED <<observing, target, before, pool>>

\* The caller uses the result.
UseResult(t) ==
    /\ Goto(t, "got", "idle")
    /\ target' = [target EXCEPT ![t] = 0]
    /\ at' = [at EXCEPT ![t] = 1]
    /\ sum_to' = [sum_to EXCEPT ![t] = 0]
    /\ before' = [before EXCEPT ![t] = Zero]
    /\ UNCHANGED <<observing, pool>>

-----------------------------------------------------------------------------
\* ConnectionPool::get, LoadBalancer::next_backend

BadAdvanced(n) == IF n = Entries THEN 0 ELSE n + 1
Advanced(n) == (n + 1) % Wrap

Pick(t) ==
    LET e == turn % Entries
    IN  /\ pc[t] = "idle"
        /\ SumOver(picked, DOMAIN picked) < MaxPicks
        /\ turn' = Advanced(turn)
        /\ picked' = [picked EXCEPT ![e] = @ + 1]
        /\ wraps' = wraps + (IF turn = Wrap - 1 THEN 1 ELSE 0)
        /\ UNCHANGED <<pc, observing, scanning>>

-----------------------------------------------------------------------------
Next ==
    \E t \in Threads :
        \/ \E v \in Latencies : CountObservation(t, v)
        \/ FillBucket(t)
        \/ \E p \in Percents : StartScan(t, p)
        \/ ScanBucket(t)
        \/ UseResult(t)
        \/ Pick(t)

Spec == Init /\ [][Next]_vars

-----------------------------------------------------------------------------
\* Properties.

\* The variables have their types.
TypeOK ==
    /\ pc \in [Threads -> {"idle", "bucket", "scan", "got"}]
    /\ latency \in [Threads -> Latencies \union {0}]
    /\ {total, beyond} \subseteq 0 .. MaxObservations
    /\ bucket \in [BucketIds -> 0 .. MaxObservations]
    /\ target \in [Threads -> 0 .. MaxObservations]
    /\ at \in [Threads -> BucketIds]
    /\ sum_to \in [Threads -> 0 .. MaxObservations]
    /\ before \in [Threads -> [BucketIds -> 0 .. MaxObservations]]
    /\ turn \in 0 .. Wrap - 1
    /\ picked \in [0 .. Entries - 1 -> 0 .. MaxPicks]
    /\ wraps \in 0 .. MaxPicks

\* The total and the buckets differ by the observations that are under way and
\* those that exceed the last bound: a latency equal to a bound is not lost.
CountsAddUp ==
    total = UpTo(bucket, Buckets) + beyond + Cardinality({t \in Threads : pc[t] = "bucket"})

\* A percentile computed while others observe lies between two moments: in the
\* buckets as they are when it returns, the rank is reached at the result
\* (unless that is the last bucket), and in the buckets as they were when it
\* loaded the total, the rank was not reached before the result.
PercentileBracketed ==
    \A t \in Threads :
        pc[t] = "got" =>
            /\ at[t] < Buckets => UpTo(bucket, at[t]) >= target[t]
            /\ at[t] > 1 => UpTo(before[t], at[t] - 1) < target[t]

\* The entries are used equally often, give or take one, whichever threads
\* pick; each time the counter wraps the balance may shift by one more.
PicksBalanced ==
    \A d, e \in DOMAIN picked : picked[d] <= picked[e] + 1 + wraps
=============================================================================
