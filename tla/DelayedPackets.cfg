SPECIFICATION Spec
CONSTANTS
    MAX_CLIENTS = 2
    MAX_DELAYED_PACKETS = 3
    MaxDelay = 2
    MaxArrived = 4
    MaxInputs = 10
INVARIANTS
    TypeOK
    OnePointer
    Conserved
    Exhausted
PROPERTIES
    Executes
    InOrder
