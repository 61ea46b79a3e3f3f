\* Two clients log in and post while sessions are closed in every order;
\* Redis loses its data once, so that session ids are handed out again.
SPECIFICATION Spec
CONSTANTS
    Conn = {c1, c2}
    NoConn = NoConn
    Dispatcher = Dispatcher
    PacketChanSize = 1
    PoolSize = 2
    Kind = {"login", "transfer"}
    Stallers = {}
    MaxSessionId = 2
    MaxFlushes = 1
SYMMETRY ConnSymmetry
\* The server waits for clients when every client has come and gone.
CHECK_DEADLOCK FALSE
INVARIANTS
    TypeOK
    IndexPartition
    NoZombieSession
    ServedIsReachable
