\* Two writing and two reading threads, frames that never straddle the end;
\* the longest message does not fit the readers' buffer.
SPECIFICATION Spec
CONSTANTS
    w1 = w1
    w2 = w2
    r1 = r1
    r2 = r2
    none = none
    None = none
    Writers <- TwoWriters
    Readers <- TwoReaders
    Messages <- AlignedMessages
    Capacity = 24
    BufLen = 8
INVARIANTS TypeOK NoDataRace FramesIntact FramesTile
PROPERTIES ImplementsQueue ReadsWhatWasWritten
