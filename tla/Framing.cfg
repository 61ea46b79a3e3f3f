\* A header alone, a body, a packet over the limit, one over the buffer.
SPECIFICATION FairSpec
CONSTANTS
    HeaderSize = 2
    MaxPacketSize = 5
    MaxBuffer = 8
    Sizes = {2, 3, 6, 9}
    MaxPackets = 4
\* Nothing happens when everything has been sent and received.
CHECK_DEADLOCK FALSE
INVARIANTS
    TypeOK
    DeliveredInOrder
    NothingCompleteWaits
PROPERTIES
    FifoSpec
    EveryPacketArrives
