\* Two rooms after one another, left by the menu and by a typed quit.
SPECIFICATION FairSpec
CONSTANTS
    ListenerSize = 3
    PendingSize = 10
    Exits = {"menu", "typed"}
    MaxMessages = 3
    MaxSent = 1
    MaxRooms = 2
\* Without a message or a key nothing happens.
CHECK_DEADLOCK FALSE
INVARIANTS
    TypeOK
    NoLostWakeup
    NoStrandedInput
    OneWindowOwner

PROPERTY ReceivedIsDrawn
