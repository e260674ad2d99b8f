CONSTANTS
    Clients = {ann, ben}
    Watched = {ann}
    Server = server
    Timeout = 3
    MaxLost = 1
    Failing = {ann}
SPECIFICATION FairSpec
INVARIANT TablesAgree
INVARIANT StaysListed
PROPERTY Discovery
PROPERTY Forgets
