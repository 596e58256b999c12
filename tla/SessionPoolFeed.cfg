CONSTANTS
    SessionCount = 2
    SendBufferSize = 2
    BackLogCount = 1
    MaxPacketsPerRead = 1
    Conns = {c1, c2, c3}
    NoSocket = NoSocket
    InvalidSocket = InvalidSocket

SPECIFICATION Spec

INVARIANTS
    TypeOK
    PoolExact
    
    StaleDataFirst

PROPERTIES
    
    EndReported
    CallersServed
