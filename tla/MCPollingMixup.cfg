\* Two connections; their calls may give up, so that late responses are covered,
\* but the shortest counterexample has two calls that wait.
SPECIFICATION Spec
CONSTANTS
    c1 = c1
    c2 = c2
    c3 = c3
    c4 = c4
    None = None
    Calls <- TwoCalls
    Connections = 2
    Slots = 2
    LongRequests <- NoCalls
    LongResponses <- NoCalls
    MayGiveUp = TRUE
INVARIANTS OwnResponse
\* Each call is made once: when all have ended the system rests.
CHECK_DEADLOCK FALSE
