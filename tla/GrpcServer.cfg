CONSTANTS
    Names = {ann, ben}
    MaxStreams = 2
    MaxCalls = 1
    MaxMessages = 2
SPECIFICATION FairSpec
CHECK_DEADLOCK FALSE
INVARIANT WriterValid
INVARIANT Busy
INVARIANT Switched
INVARIANT Reachable
PROPERTY AllWritten
