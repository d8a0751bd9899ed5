\* Five signals, one more before the listener exists, a count of at most three.
SPECIFICATION FairWaitSpec
CONSTANTS
    MaxCount = 3
    MaxSignals = 5
    Early = 1
INVARIANTS WaitTypeOK NoSignalLost
PROPERTIES ImplementsEvent SignalsTaken
\* When all signals are taken the listener waits.
CHECK_DEADLOCK FALSE
