SPECIFICATION FairSpec
CONSTANTS
    a = a
    b = b
    c = c
    Disconnect = Disconnect
    Stale = Stale
    Unit <- MCUnit
    Blocks <- MCBlocks
    Direct <- MCDirect
    Slack = {0, 1}
    MaxSize = 4
    MaxBackBuffers = 2
    Handlers = {"signon", "modellist", "spawn"}
    MaxWrites = 5
INVARIANTS
    ClientOK
PROPERTIES
    NothingLost
    Drained
