CONSTANTS
    SessionCount = 2
    MaxUserCount = 2
    MaxLobbyCount = 2
    MaxLobbyUserCount = 2
    MaxRoomCount = 1
    MaxRoomUserCount = 1
    MaxListCount = 1
    Offsets = {4}
    IDs = {"a"}

SPECIFICATION Spec

INVARIANTS
    TypeOK
    LobbyIndexSound
    NeverPastEnd
