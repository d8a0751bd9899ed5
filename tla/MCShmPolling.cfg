\* Three calls at a time.  The response to the first call and the request of
\* the second cannot be read.
SPECIFICATION FairSpec
CONSTANTS
    c1 = c1
    c2 = c2
    c3 = c3
    c4 = c4
    None = None
    Calls <- FourCalls
    Connections = 3
    Slots = 2
    LongRequests <- SecondCall
    LongResponses <- FirstCall
    MayGiveUp = TRUE
INVARIANTS TypeOK InOrder
PROPERTIES CallsEnd
\* Each call is made once: when all have ended the system rests.
CHECK_DEADLOCK FALSE
