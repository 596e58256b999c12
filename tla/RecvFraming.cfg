CONSTANTS
    HeaderSize = 2
    MaxPacket = 3
    BufferSize = 12
    BodySizes = {0, 1, 3, 4}
    MaxSent = 3

SPECIFICATION Spec

INVARIANTS
    TypeOK
    
    QueuedBodiesIntact
    ExactWhileAligned
    InOrderOnce
