\* Two packets within the limit arrive together.
SPECIFICATION Spec
CONSTANTS
    HeaderSize = 2
    MaxPacketSize = 4
    MaxBuffer = 8
    Sizes = {2, 3}
    MaxPackets = 2
CHECK_DEADLOCK FALSE
INVARIANT SmallPacketsAreProcessed
