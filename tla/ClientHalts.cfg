SPECIFICATION Spec
CONSTANTS
    a = a
    b = b
    Data <- MCData
    Blocks <- MCUnits
    DatagramSizes = {1}
    MaxSize <- MCMaxSize
    PacketHeader = 2
    QportSize = 1
    MaxSequence <- MCShortSequence
    MaxWritten <- MCBothWrite
INVARIANTS
    NeverHalts
CHECK_DEADLOCK FALSE
