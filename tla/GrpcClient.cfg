CONSTANTS
    MaxMessages = 4
    Early = FALSE
    Breaking = TRUE
SPECIFICATION FairSpec
CHECK_DEADLOCK FALSE
INVARIANT OneWrite
INVARIANT InOrder
INVARIANT SenderExists
PROPERTY SentOrAsleep
PROPERTY LoginNoticed
