CONSTANTS
    u1 = u1
    u2 = u2
    Viewer = viewer
    Others <- MCOthers
    SlotCount = 3
    RoomCount = 3
    RoomLimit = 2
    MaxRoomList = 1
    MaxUserList = 1
    MaxDown = 3

SPECIFICATION Spec
INVARIANTS TypeOK 
PROPERTIES ListsArrive
CHECK_DEADLOCK FALSE
