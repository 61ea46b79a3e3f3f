\* A user who looks for a room.
SPECIFICATION FairSpec
CONSTANTS
    ListenerSize = 4
    PacketSize = 1
    Rows = 2
    MaxKeys = 0
    MaxRooms = 1
    MaxPosts = 0
CHECK_DEADLOCK FALSE
PROPERTY SelectedRoomIsEntered
