SPECIFICATION Spec
CONSTANTS
    srvA = srvA
    srvB = srvB
    s1 = s1
    s2 = s2
    s3 = s3
    Servers = {srvA, srvB}
    Sessions = {s1, s2, s3}
    Home <- MCHome
    Users = {"ann"}
    Strangers = {"eve"}
    NoUser = ""
    NoSession = NoSession
    Failing = {srvB}
    Quitters = {s2}
    Viewers = {s2}
    MaxRooms <- MCRooms
    MaxPosts <- MCPosts
\* Clients that wait for an answer that never comes, or have posted all, stop.
CHECK_DEADLOCK FALSE
INVARIANTS
    TypeOK
    OwnNumber
    InOrder
    OnlyMembersHear
    RecordFollowsClient
    OwnLineReturns
    StoredUnderItsRoom

