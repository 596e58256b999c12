CONSTANTS
    SessionCount = 2
    MaxUserCount = 2
    MaxLobbyCount = 1
    MaxLobbyUserCount = 2
    MaxRoomCount = 1
    MaxRoomUserCount = 2
    MaxListCount = 1
    Offsets = {4}
    IDs = {"a"}

SPECIFICATION Spec

INVARIANTS
    DuplicateIdRefused
