\* Two HTTP requests and a stream of three messages, the last of which cannot
\* be decoded; a channel of one; a backend that is started twice.
SPECIFICATION FairSpec
CONSTANTS
    r1 = r1
    r2 = r2
    Requests <- TwoRequests
    MaxStarts = 2
    Messages = 3
    Undecodable <- ThirdMessage
    Capacity = 1
    Window = 1
INVARIANTS TypeOK CountersAgree EndMeansAll
PROPERTIES CallsEnd StreamEnds TaskEndsWithClient
\* Each request is made once: when all have ended the system rests.
CHECK_DEADLOCK FALSE
