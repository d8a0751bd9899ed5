\* Two gateways, processes that end at any step and are started again.
SPECIFICATION FairSpec
CONSTANTS
    g1 = g1
    g2 = g2
    None = None
    Transports <- AllTransports
    Gateways <- TwoGateways
    MaxStarts = 2
    Attempts = 2
    MayEnd = TRUE
INVARIANTS TypeOK RingsOfItsBackend HeaderCompleteWhenUsed
PROPERTIES NeverReinitialised SetupEnds
\* No process need be started again.
CHECK_DEADLOCK FALSE
