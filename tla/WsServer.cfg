CONSTANTS
    Endpoints = {ann, ben}
    Types = {"LIST_PEERS", "SEND_MSG"}
    MaxConns = 2
    MaxBatch = 1
SPECIFICATION FairSpec
CHECK_DEADLOCK FALSE
INVARIANT TableAccurate
INVARIANT WalkValid
PROPERTY Forgotten
