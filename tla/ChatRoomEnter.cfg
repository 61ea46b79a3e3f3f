\* A message is received while a line is being entered.
SPECIFICATION Spec
CONSTANTS
    ListenerSize = 3
    PendingSize = 10
    Exits = {}
    MaxMessages = 1
    MaxSent = 1
    MaxRooms = 1
\* Without a message or a key nothing happens.
CHECK_DEADLOCK FALSE
PROPERTY EnteredIsSent
