CONSTANTS
    Near = near
    Far = far
    Senders = {near}
    DataSizes = {1, 3}
    MaxBytes = 5
    SegmentMax = 2
    OffsetSpan = 8
    Pipelined = TRUE
    Lossy = {"data", "data_ack"}
    Duplicating = TRUE
    EarlyTimeout = TRUE
    MaxInFlight = 3
SPECIFICATION Spec
CHECK_DEADLOCK FALSE
INVARIANT TypeOK
INVARIANT AckSound
INVARIANT NothingDropped
INVARIANT Contiguous
INVARIANT Authentic
