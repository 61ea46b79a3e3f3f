\* Fair scheduling, and a client that may stop reading for a while.
SPECIFICATION FairSpec
CONSTANTS
    Conn = {c1, c2}
    NoConn = NoConn
    Dispatcher = Dispatcher
    PacketChanSize = 1
    PoolSize = 1
    Kind = {"create"}
    Stallers = {c1}
    MaxSessionId = 2
    MaxFlushes = 0
\* The server waits for clients when every client has come and gone.
CHECK_DEADLOCK FALSE
PROPERTIES
    GoneIsRemoved
    DispatcherReturns
