\* One user, three rooms and three lines, a log area of two messages.
SPECIFICATION FairSpec
CONSTANTS
    ListenerSize = 5
    PacketSize = 1
    Rows = 2
    MaxKeys = 2
    MaxRooms = 3
    MaxPosts = 3
\* The user may stop, and a process may end.
CHECK_DEADLOCK FALSE
INVARIANTS
    TypeOK
    WindowNeverWaitsForItself
    LinesAreConserved
    QuietOutsideRooms
    StoredOrFailed
    SlicesInRange
PROPERTIES
    EveryPacketIsProcessed
