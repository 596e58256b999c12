CONSTANTS
    Requests = {r1, r2, r3}
    Seconds = {1, 2}
    Absent = Absent
    MaxFailedReads = 2

SPECIFICATION Spec

INVARIANTS
    TypeOK
    SequentialOnceCreated
    TakenMeansHeld

PROPERTIES
    LockComesFree
