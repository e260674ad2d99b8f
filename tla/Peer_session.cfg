CONSTANTS
    Sites = {alice, bob}
    UserStreams = {}
    MaxKeys = 1
    MaxInFlight = 4
    MaxCommands = 1
    Lossy = {"hello", "ack", "public_key", "echo", "echo_back", "data"}
    Duplicating = {}
    EarlyTimeout = FALSE
    Lingering = FALSE
    Commands = {"add"}
SPECIFICATION FairSpec
CHECK_DEADLOCK FALSE
INVARIANT EchoProvesKey
INVARIANT NeverSilent
PROPERTY HandshakeCompletes
