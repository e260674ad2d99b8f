CONSTANTS
    Addresses = {a, b}
    MaxSessions = 2
    MaxRequests = 2
    MaxQueue = 2
    Garbage = {FALSE, TRUE}
    Reused = FALSE
SPECIFICATION Spec
SYMMETRY Symmetry
CHECK_DEADLOCK FALSE
INVARIANT Findable
INVARIANT NoExpiredEntry
INVARIANT OneWrite
INVARIANT KeepsWriting
INVARIANT InOrder
