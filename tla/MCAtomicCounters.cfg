\* Three threads, four observations over three buckets, eight picks among three
\* entries with a counter that wraps at five.
SPECIFICATION Spec
CONSTANTS
    t1 = t1
    t2 = t2
    t3 = t3
    Threads <- ThreeThreads
    Buckets = 3
    Latencies <- ThreeKinds
    Percents <- HalfAndMost
    MaxObservations = 4
    Entries = 3
    Wrap = 5
    MaxPicks = 8
SYMMETRY Symmetry
INVARIANTS TypeOK CountsAddUp PercentileBracketed PicksBalanced
\* Observations and picks are bounded.
CHECK_DEADLOCK FALSE
