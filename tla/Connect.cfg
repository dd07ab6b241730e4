SPECIFICATION Spec
CONSTANTS
    c1 = c1
    c2 = c2
    Client <- MCClient
    Base <- MCBase
    Port <- MCPort
    Qport <- MCPort
    Slots = {1, 2}
    maxclients = 2
    MAX_CHALLENGES = 1
    Ports = {1, 2, 3, 4}
    Qports = {1, 2, 3, 4}
    PathLength = 2
    MaxSequence = 4
    MaxFaults = 2
INVARIANTS
    TypeOK
    OneSlot
    InStep
PROPERTIES
    NotStolen
    Settles
CHECK_DEADLOCK FALSE
