CONSTANTS
    Sites = {alice, bob}
    UserStreams = {1}
    MaxKeys = 2
    MaxInFlight = 4
    MaxCommands = 3
    Lossy = {"hello", "ack", "public_key", "echo", "echo_back", "data"}
    Duplicating = {"data"}
    EarlyTimeout = FALSE
    Lingering = FALSE
    Commands = {"add", "stream", "restart"}
SPECIFICATION Spec
CHECK_DEADLOCK FALSE
INVARIANT KeyAgreement
INVARIANT NoPhantomStream
SYMMETRY Symmetry
