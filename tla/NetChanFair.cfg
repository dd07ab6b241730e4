SPECIFICATION FairSpec
CONSTANTS
    a = a
    b = b
    Data <- MCData
    Blocks <- MCUnits
    DatagramSizes = {0}
    MaxSize <- MCMaxSize
    PacketHeader = 2
    QportSize = 1
    MaxSequence <- MCSequence
    MaxWritten <- MCWritten
    Window = 2
    MaxLost = 1
    MaxChoked = 1
    MaxToAll = 1
    LastWrite = 1
INVARIANTS
    AnswersMatch
    SlipBounded
PROPERTIES
    AllDelivered
CHECK_DEADLOCK FALSE
