SPECIFICATION Spec
CONSTANTS
    a = a
    b = b
    Data <- MCData
    Blocks <- MCBlocks
    DatagramSizes = {1}
    MaxSize <- MCMaxSize
    PacketHeader = 2
    QportSize = 1
    MaxSequence <- MCShortSequence
    MaxWritten <- MCBothWrite
INVARIANTS
    TypeOK
    ServerCanSend
    PacketsFit
PROPERTIES
    StreamSpec
CHECK_DEADLOCK FALSE
