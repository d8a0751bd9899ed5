\* Three concurrent calls; either ring and the socket can be full, either
\* process may end, the client of the first call may go away, and the request of
\* the third call may be unreadable.
SPECIFICATION FairSpec
CONSTANTS
    c1 = c1
    c2 = c2
    c3 = c3
    None = None
    Calls <- ThreeCalls
    Slots = 2
    SockCap = 1
    LongRequests <- NoneOrThird
    MayLeave <- FirstCall
    MayStop = TRUE
INVARIANTS TypeOK RequestsMatchBytes ResponsesAnnounced InOnePlace
PROPERTIES ImplementsRpc AnsweredUnlessLost TasksEnd
\* Each call is made once: when all have ended the system rests.
CHECK_DEADLOCK FALSE
