CONSTANTS
    SessionCount = 3
    MaxUserCount = 3
    MaxLobbyCount = 1
    MaxLobbyUserCount = 3
    MaxRoomCount = 1
    MaxRoomUserCount = 2
    MaxListCount = 1
    Offsets = {4}
    IDs = {"a"}

SPECIFICATION Spec

INVARIANTS
    RoomsSound

PROPERTIES
    RoomDepartureHeard
    RoomChatStaysInRoom
