\* Frames of 5 bytes in a ring of 261 = 52 * 5 + 1: the length prefix of the 53rd
\* starts in the last byte, and its other bytes are read from position 0, where
\* the first frame has left the length 1: 1 + 256 * 1 = 257, which fits the
\* reader's buffer.
SPECIFICATION Spec
CONSTANTS
    w1 = w1
    w2 = w2
    r1 = r1
    r2 = r2
    none = none
    None = none
    Writers <- OneWriter
    Readers <- OneReader
    Messages <- OddMessages
    Capacity = 261
    BufLen = 260
PROPERTIES ReadsWhatWasWritten
