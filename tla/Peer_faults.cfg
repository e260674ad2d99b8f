CONSTANTS
    Sites = {alice, bob}
    UserStreams = {}
    MaxKeys = 2
    MaxInFlight = 2
    MaxCommands = 1
    Lossy = {"hello"}
    Duplicating = {"ack"}
    EarlyTimeout = TRUE
    Lingering = TRUE
    Commands = {"add", "add_again", "del", "restart", "fail"}
SPECIFICATION Spec
CHECK_DEADLOCK FALSE
INVARIANT TypeOK
INVARIANT NeverThrows
INVARIANT EncryptorReady
SYMMETRY Symmetry
