\* Two values of type EventFd.
SPECIFICATION Spec
CONSTANTS
    v1 = v1
    v2 = v2
    Values <- TwoValues
    Numbers = {3, 4}
    MaxCount = 2
    Closed = Closed
    Other = Other
INVARIANTS ActsOnItsEventfd
\* A dropped EventFd is not made again.
CHECK_DEADLOCK FALSE
