CONSTANTS
    Near = near
    Far = far
    Senders = {near, far}
    DataSizes = {1, 3}
    MaxBytes = 3
    SegmentMax = 2
    OffsetSpan = 8
    Pipelined = FALSE
    Lossy = {"data", "data_ack"}
    Duplicating = FALSE
    EarlyTimeout = TRUE
    MaxInFlight = 2
SPECIFICATION FairSpec
CHECK_DEADLOCK FALSE
PROPERTY ArrivesOrWedged
PROPERTY IsBytePipe
