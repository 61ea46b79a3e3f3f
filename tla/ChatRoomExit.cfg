\* The menu's Exit Chat, with a message that has just been received.
SPECIFICATION FairSpec
CONSTANTS
    ListenerSize = 3
    PendingSize = 10
    Exits = {"menu"}
    MaxMessages = 1
    MaxSent = 1
    MaxRooms = 1
\* Without a message or a key nothing happens.
CHECK_DEADLOCK FALSE
PROPERTY RoomIsLeft
