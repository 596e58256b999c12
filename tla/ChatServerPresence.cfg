CONSTANTS
    SessionCount = 2
    MaxUserCount = 3
    MaxLobbyCount = 1
    MaxLobbyUserCount = 2
    MaxRoomCount = 2
    MaxRoomUserCount = 1
    MaxListCount = 1
    Offsets = {4, 8}
    IDs = {"a"}

SPECIFICATION Spec

INVARIANTS
    PoolSound
    SessionsOwnUsers
    OnlyOwnedUsersMove

PROPERTIES
    PresenceSpec
