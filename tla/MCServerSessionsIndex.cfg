\* The reader and the dispatcher both close the first client's session.
SPECIFICATION Spec
CONSTANTS
    Conn = {c1, c2, c3}
    NoConn = NoConn
    Dispatcher = Dispatcher
    PacketChanSize = 1
    PoolSize = 1
    Kind = {"other"}
    Stallers = {}
    MaxSessionId = 3
    MaxFlushes = 0
CHECK_DEADLOCK FALSE
INVARIANT IndexUnique
