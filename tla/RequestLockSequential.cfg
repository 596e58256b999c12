CONSTANTS
    Requests = {r1, r2, r3}
    Seconds = {1, 2}
    Absent = Absent
    MaxFailedReads = 0

SPECIFICATION Spec

INVARIANTS
    Sequential
