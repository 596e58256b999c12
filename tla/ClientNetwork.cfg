CONSTANTS
    HeaderSize = 1
    ReadMax = 3
    BufferSize = 5
    BodySizes <- MCBodySizes
    MaxSent = 2
    MaxConns = 2

SPECIFICATION Spec
INVARIANTS TypeOK NeverTerminated CleanStart ExactWhileClean
PROPERTIES JoinReturns AllHandled
CHECK_DEADLOCK FALSE
