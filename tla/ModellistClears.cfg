SPECIFICATION Spec
CONSTANTS
    a = a
    b = b
    c = c
    Disconnect = Disconnect
    Stale = Stale
    Unit <- MCUnit
    Blocks <- MCBlocks
    Direct <- MCDirect
    Slack = {0}
    MaxSize = 4
    MaxBackBuffers = 2
    Handlers = {"modellist"}
    MaxWrites = 5
INVARIANTS
    NothingStale
