SPECIFICATION Spec
CONSTANTS
    a = a
    b = b
    Data <- MCData
    Blocks <- MCUnits
    DatagramSizes = {0}
    MaxSize <- MCMaxSize
    PacketHeader = 2
    QportSize = 1
    MaxSequence <- MCServerSequence
    MaxWritten <- MCServerWrites
INVARIANTS
    IInv
    StreamIntact
    BufferFreeMeansReceived
    OneAcceptable
PROPERTIES
    RetransmitOnlyLost
    StreamSpec
CHECK_DEADLOCK FALSE
