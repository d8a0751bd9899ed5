\* Four concurrent calls, rings of two messages: either ring can be full.  The
\* response to the third call and the request of the fourth cannot be read.
SPECIFICATION FairSpec
CONSTANTS
    c1 = c1
    c2 = c2
    c3 = c3
    c4 = c4
    None = None
    Calls <- FourCalls
    Slots = 2
    LongRequests <- FourthCall
    LongResponses <- ThirdCall
INVARIANTS TypeOK SignalsMatchMessages InOnePlace
PROPERTIES ImplementsRpc AnsweredUnlessLost
\* Each call is made once: when all have ended the system rests.
CHECK_DEADLOCK FALSE
