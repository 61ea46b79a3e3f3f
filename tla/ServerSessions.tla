--------------------------- MODULE ServerSessions ---------------------------
(***************************************************************************)
(* The connection handling of the chat server: the accept loop             *)
(* (network.go, StartServerBlock), one reader goroutine per connection     *)
(* (handleTcpRead), the single packet-processing goroutine                 *)
(* (distributePacket.go, PacketProcessGoroutine), and what they share: the *)
(* pool of session indices (a capped Deque), the SessionMap, the bounded   *)
(* PacketChan, and the two things Redis keeps, the session counter and the *)
(* user_<id> keys.                                                         *)
(*                                                                         *)
(* Any goroutine that fails on a connection runs closeProcess on it: the   *)
(* reader when Read or makePacket fails, the dispatcher when Write fails.  *)
(* closeProcess is four separate steps here because another goroutine can  *)
(* run between any two of them, and can be running closeProcess on the     *)
(* same session.                                                           *)
(***************************************************************************)
EXTENDS Integers, Sequences, FiniteSets

CONSTANTS
    Conn,           \* the connections clients may open, each opened once
    NoConn,         \* no connection
    Dispatcher,     \* the packet-processing goroutine
    PoolSize,       \* POOL_SIZE of network/define.go
    PacketChanSize, \* the capacity of PacketChan
    Kind,           \* bound: the kinds of packet clients send, of AllKinds
    Stallers,       \* bound: the clients that may stop reading
    MaxSessionId,   \* bound: how far the Redis counter is followed
    MaxFlushes      \* bound: how often Redis loses its data

ASSUME ConnAssumption ==
    /\ NoConn \notin Conn
    /\ Dispatcher \notin Conn
    /\ Stallers \subseteq Conn
ASSUME SizeAssumption ==
    /\ PoolSize \in Nat \ {0}
    /\ PacketChanSize \in Nat \ {0}
    /\ MaxSessionId \in Nat
    /\ MaxFlushes \in Nat

(* What a packet makes its handler do here.  "other" is join, ping, the    *)
(* list of rooms and every id the dispatcher does not know.                *)
AllKinds == {"login", "create", "transfer", "other"}
ASSUME KindAssumption == Kind \subseteq AllKinds

Index     == 0 .. PoolSize - 1
NoIndex   == -1
SessionId == 1 .. MaxSessionId
NoId      == 0
Thread    == Conn \cup {Dispatcher}

Packet   == [id : SessionId, kind : AllKinds]
NoPacket == [id |-> NoId, kind |-> "other"]

(* The four steps of closeProcess: the goroutine is about to run           *)
(* Conn.Close, OnClose, freeSession and SessionMap.Delete.                 *)
Closing == {"close", "onclose", "free", "delete"}

VARIABLES
    redisSeq,    \* Redis: the session counter, 0 when its key is absent
    userInfo,    \* Redis: the ids that have a user_<id> key
    pool,        \* TcpSessionManager.SessionIndexPool
    sessionMap,  \* TcpSessionManager.SessionMap: id -> the session's connection
    packetChan,  \* LifeGameServer.PacketChan
    seqIndex,    \* TcpSession.SeqIndex of each connection
    index,       \* TcpSession.Index of each connection
    connOpen,    \* the server has not closed the connection
    peer,        \* the client's side of each connection
    acceptPc,    \* where the accept loop is
    accepting,   \* conn, the accept loop's local
    acceptIndex, \* sessionIndex, the local of appendSession
    pc,          \* where each reader and the dispatcher are
    current,     \* the packet the dispatcher is handling
    replyTo,     \* the sender the handler has still to answer
    outbox,      \* the ids the handler has still to broadcast to
    target,      \* the session sendPacket has found
    flushes,     \* how often Redis has lost its data
    freed,       \* history: how often freeSession ran for each session
    lost         \* history: the indices appendSession took and dropped

redisVars  == <<redisSeq, userInfo, flushes>>
acceptVars == <<acceptPc, accepting, acceptIndex>>
connVars   == <<seqIndex, index>>
sendVars   == <<current, replyTo, outbox, target>>
vars == <<redisVars, pool, sessionMap, packetChan, connVars, connOpen, peer,
          acceptVars, pc, sendVars, freed, lost>>

TypeOK ==
    /\ redisSeq \in 0 .. MaxSessionId
    /\ userInfo \subseteq SessionId
    /\ pool \in Seq(Index)
    /\ Len(pool) <= PoolSize
    /\ sessionMap \in [SessionId -> Conn \cup {NoConn}]
    /\ packetChan \in Seq(Packet)
    /\ Len(packetChan) <= PacketChanSize
    /\ seqIndex \in [Conn -> SessionId \cup {NoId}]
    /\ index \in [Conn -> Index \cup {NoIndex}]
    /\ connOpen \in [Conn -> BOOLEAN]
    /\ peer \in [Conn -> {"none", "ok", "stalled", "gone"}]
    /\ acceptPc \in {"accept", "seq", "alloc", "store", "spawn"}
    /\ accepting \in Conn \cup {NoConn}
    /\ acceptIndex \in Index \cup {NoIndex}
    /\ pc \in [Thread -> {"none", "read", "deliver", "done",
                          "idle", "handle", "send", "write"} \cup Closing]
    /\ current \in Packet \cup {NoPacket}
    /\ replyTo \in SessionId \cup {NoId}
    /\ outbox \subseteq SessionId
    /\ target \in Conn \cup {NoConn}
    /\ flushes \in 0 .. MaxFlushes
    /\ freed \in [Conn -> Nat]
    /\ lost \subseteq Index

-----------------------------------------------------------------------------
(* The Deque operations the pool uses (network/queue.go).                  *)

\* Mutant of PoolAppend: the Deque without its capacity.
PoolAppend_Uncapped(q, i) == Append(q, i)

PoolAppend(q, i) == IF Len(q) < PoolSize THEN Append(q, i) ELSE q
Shift(q) == Tail(q)

createSessionPool == [n \in 1 .. PoolSize |-> n - 1]

Init ==
    /\ redisSeq = 0
    /\ userInfo = {}
    /\ pool = createSessionPool
    /\ sessionMap = [id \in SessionId |-> NoConn]
    /\ packetChan = <<>>
    /\ seqIndex = [c \in Conn |-> NoId]
    /\ index = [c \in Conn |-> NoIndex]
    /\ connOpen = [c \in Conn |-> FALSE]
    /\ peer = [c \in Conn |-> "none"]
    /\ acceptPc = "accept"
    /\ accepting = NoConn
    /\ acceptIndex = NoIndex
    /\ pc = [t \in Thread |-> IF t = Dispatcher THEN "idle" ELSE "none"]
    /\ current = NoPacket
    /\ replyTo = NoId
    /\ outbox = {}
    /\ target = NoConn
    /\ flushes = 0
    /\ freed = [c \in Conn |-> 0]
    /\ lost = {}

-----------------------------------------------------------------------------
(* The accept loop.  A connection it gives up on stays open and unserved.  *)

NextAccept ==
    /\ acceptPc' = "accept"
    /\ accepting' = NoConn
    /\ acceptIndex' = NoIndex

Accept(c) ==
    /\ acceptPc = "accept"
    /\ peer[c] = "none"
    /\ peer' = [peer EXCEPT ![c] = "ok"]
    /\ connOpen' = [connOpen EXCEPT ![c] = TRUE]
    /\ accepting' = c
    /\ acceptPc' = "seq"
    /\ UNCHANGED <<acceptIndex, redisVars, pool, sessionMap, packetChan,
                   connVars, pc, sendVars, freed, lost>>

(* EXISTS, then SET 1 or INCR: with an absent key standing for 0, both add *)
(* one.                                                                    *)
GetUniqueSessionId ==
    /\ acceptPc = "seq"
    /\ redisSeq < MaxSessionId
    /\ redisSeq' = redisSeq + 1
    /\ seqIndex' = [seqIndex EXCEPT ![accepting] = redisSeq + 1]
    /\ acceptPc' = "alloc"
    /\ UNCHANGED <<accepting, acceptIndex, userInfo, flushes, pool, sessionMap,
                   packetChan, index, connOpen, peer, pc, sendVars, freed, lost>>

(* The script failed, or it ran and its answer was lost.                   *)
GetUniqueSessionIdFails ==
    /\ acceptPc = "seq"
    /\ redisSeq' \in {redisSeq, redisSeq + 1} \cap (0 .. MaxSessionId)
    /\ NextAccept
    /\ UNCHANGED <<userInfo, flushes, pool, sessionMap, packetChan, connVars, connOpen,
                   peer, pc, sendVars, freed, lost>>

AllocSession ==
    /\ acceptPc = "alloc"
    /\ pool # <<>>
    /\ acceptIndex' = Head(pool)
    /\ pool' = Shift(pool)
    /\ acceptPc' = "store"
    /\ UNCHANGED <<accepting, redisVars, sessionMap, packetChan, connVars,
                   connOpen, peer, pc, sendVars, freed, lost>>

NotEnoughIndexPool ==
    /\ acceptPc = "alloc"
    /\ pool = <<>>
    /\ NextAccept
    /\ UNCHANGED <<redisVars, pool, sessionMap, packetChan, connVars, connOpen,
                   peer, pc, sendVars, freed, lost>>

StoreSession ==
    /\ acceptPc = "store"
    /\ sessionMap[seqIndex[accepting]] = NoConn
    /\ index' = [index EXCEPT ![accepting] = acceptIndex]
    /\ sessionMap' = [sessionMap EXCEPT ![seqIndex[accepting]] = accepting]
    /\ acceptIndex' = NoIndex
    /\ acceptPc' = "spawn"
    /\ UNCHANGED <<accepting, redisVars, pool, packetChan, seqIndex, connOpen,
                   peer, pc, sendVars, freed, lost>>

(* The id is in use: the connection is refused, and the index that         *)
(* allocSession took is not given back.                                    *)
DuplicateSession ==
    /\ acceptPc = "store"
    /\ sessionMap[seqIndex[accepting]] # NoConn
    /\ lost' = lost \cup {acceptIndex}
    /\ NextAccept
    /\ UNCHANGED <<redisVars, pool, sessionMap, packetChan, connVars, connOpen,
                   peer, pc, sendVars, freed>>

SpawnReader ==
    /\ acceptPc = "spawn"
    /\ pc' = [pc EXCEPT ![accepting] = "read"]
    /\ NextAccept
    /\ UNCHANGED <<redisVars, pool, sessionMap, packetChan, connVars, connOpen,
                   peer, sendVars, freed, lost>>

-----------------------------------------------------------------------------
(* A reader.  A peer is "gone" once everything it sent has been read or    *)
(* discarded, so that a Read then returns an error.                        *)

goto(t, l) == pc' = [pc EXCEPT ![t] = l]

ReadPacket(c) ==
    /\ pc[c] = "read"
    /\ connOpen[c]
    /\ peer[c] \in {"ok", "stalled"}
    /\ goto(c, "deliver")
    /\ UNCHANGED <<redisVars, pool, sessionMap, packetChan, connVars, connOpen,
                   peer, acceptVars, sendVars, freed, lost>>

(* NET_ERROR_TOO_LARGE_PACKET from makePacket.                             *)
ReadTooLarge(c) ==
    /\ pc[c] = "read"
    /\ connOpen[c]
    /\ peer[c] \in {"ok", "stalled"}
    /\ goto(c, "close")
    /\ UNCHANGED <<redisVars, pool, sessionMap, packetChan, connVars, connOpen,
                   peer, acceptVars, sendVars, freed, lost>>

\* Mutant of ReadError: the reader returns without closeProcess.
ReadError_Returns(c) ==
    /\ pc[c] = "read"
    /\ peer[c] = "gone" \/ ~connOpen[c]
    /\ goto(c, "done")
    /\ UNCHANGED <<redisVars, pool, sessionMap, packetChan, connVars, connOpen,
                   peer, acceptVars, sendVars, freed, lost>>

ReadError(c) ==
    /\ pc[c] = "read"
    /\ peer[c] = "gone" \/ ~connOpen[c]
    /\ goto(c, "close")
    /\ UNCHANGED <<redisVars, pool, sessionMap, packetChan, connVars, connOpen,
                   peer, acceptVars, sendVars, freed, lost>>

(* PacketChan <- packet, which waits for room.  "more" says that makePacket *)
(* has another complete packet in the buffer.                              *)
DistributePacket(c, more) ==
    /\ pc[c] = "deliver"
    /\ Len(packetChan) < PacketChanSize
    /\ \E k \in Kind :
          packetChan' = Append(packetChan, [id |-> seqIndex[c], kind |-> k])
    /\ goto(c, IF more THEN "deliver" ELSE "read")
    /\ UNCHANGED <<redisVars, pool, sessionMap, connVars, connOpen, peer,
                   acceptVars, sendVars, freed, lost>>

-----------------------------------------------------------------------------
(* closeProcess, run by thread t: a reader on its own session, the         *)
(* dispatcher on the session whose Write failed.                           *)

Session(t) == IF t = Dispatcher THEN target ELSE t

\* Mutant of CloseConn: the session is removed but its socket stays open.
CloseConn_KeepsSocket(t) ==
    /\ pc[t] = "close"
    /\ goto(t, "onclose")
    /\ UNCHANGED <<redisVars, pool, sessionMap, packetChan, connVars, connOpen,
                   peer, acceptVars, sendVars, freed, lost>>

CloseConn(t) ==
    /\ pc[t] = "close"
    /\ connOpen' = [connOpen EXCEPT ![Session(t)] = FALSE]
    /\ goto(t, "onclose")
    /\ UNCHANGED <<redisVars, pool, sessionMap, packetChan, connVars, peer,
                   acceptVars, sendVars, freed, lost>>

(* RemoveUserInfo; an error from Redis is ignored.                         *)
OnClose(t) ==
    /\ pc[t] = "onclose"
    /\ \/ userInfo' = userInfo \ {seqIndex[Session(t)]}
       \/ UNCHANGED userInfo
    /\ goto(t, "free")
    /\ UNCHANGED <<redisSeq, flushes, pool, sessionMap, packetChan, connVars,
                   connOpen, peer, acceptVars, sendVars, freed, lost>>

\* Mutant of FreeSession: the sessionId that sendPacket is given, which is 0
\* in every broadcast, in place of the session's own Index.
FreeSession_PacketIndex(t) ==
    /\ pc[t] = "free"
    /\ pool' = PoolAppend(pool, IF t = Dispatcher THEN 0 ELSE index[t])
    /\ freed' = [freed EXCEPT ![Session(t)] = @ + 1]
    /\ goto(t, "delete")
    /\ UNCHANGED <<redisVars, sessionMap, packetChan, connVars, connOpen, peer,
                   acceptVars, sendVars, lost>>

FreeSession(t) ==
    /\ pc[t] = "free"
    /\ pool' = PoolAppend(pool, index[Session(t)])
    /\ freed' = [freed EXCEPT ![Session(t)] = @ + 1]
    /\ goto(t, "delete")
    /\ UNCHANGED <<redisVars, sessionMap, packetChan, connVars, connOpen, peer,
                   acceptVars, sendVars, lost>>

(* SessionMap.Delete goes by id.  The reader returns; the dispatcher goes  *)
(* on with the next recipient.                                             *)
DeleteSession(t) ==
    /\ pc[t] = "delete"
    /\ sessionMap' = [sessionMap EXCEPT ![seqIndex[Session(t)]] = NoConn]
    /\ IF t = Dispatcher
       THEN goto(t, "send") /\ target' = NoConn
       ELSE goto(t, "done") /\ UNCHANGED target
    /\ UNCHANGED <<redisVars, pool, packetChan, connVars, connOpen, peer,
                   acceptVars, current, replyTo, outbox, freed, lost>>

CloseProcess(t) ==
    CloseConn(t) \/ OnClose(t) \/ FreeSession(t) \/ DeleteSession(t)

-----------------------------------------------------------------------------
(* The dispatcher.                                                         *)

TakePacket ==
    /\ pc[Dispatcher] = "idle"
    /\ packetChan # <<>>
    /\ current' = Head(packetChan)
    /\ packetChan' = Tail(packetChan)
    /\ goto(Dispatcher, "handle")
    /\ UNCHANGED <<redisVars, pool, sessionMap, connVars, connOpen, peer,
                   acceptVars, replyTo, outbox, target, freed, lost>>

Reply ==
    /\ replyTo' = current.id
    /\ goto(Dispatcher, "send")
    /\ UNCHANGED <<redisSeq, flushes, pool, sessionMap, packetChan, connVars,
                   connOpen, peer, acceptVars, current, target, freed, lost>>

(* LoginAccount stores the record before it compares the password, so the  *)
(* key exists whatever the answer is; it is missing when the account could *)
(* not be loaded, or after a failed SET and its roll back.                 *)
HandleLogin ==
    /\ pc[Dispatcher] = "handle"
    /\ current.kind = "login"
    /\ \/ userInfo' = userInfo \cup {current.id}
       \/ userInfo' = userInfo \ {current.id}
       \/ UNCHANGED userInfo
    /\ outbox' = {}
    /\ Reply

(* The recipients are the records of the room, read before the reply is    *)
(* sent; which of the records those are is left open.                      *)
HandleTransferMessage ==
    /\ pc[Dispatcher] = "handle"
    /\ current.kind = "transfer"
    /\ outbox' \in SUBSET userInfo
    /\ UNCHANGED userInfo
    /\ Reply

HandleRequest ==
    /\ pc[Dispatcher] = "handle"
    /\ current.kind \in {"create", "other"}
    /\ outbox' = {}
    /\ UNCHANGED userInfo
    /\ Reply

NextPacket ==
    /\ goto(Dispatcher, "idle")
    /\ current' = NoPacket

(* An unknown packet id, or a body that does not decode: no answer.        *)
IgnorePacket ==
    /\ pc[Dispatcher] = "handle"
    /\ current.kind \in {"transfer", "other"}
    /\ NextPacket
    /\ UNCHANGED <<redisVars, pool, sessionMap, packetChan, connVars, connOpen,
                   peer, acceptVars, replyTo, outbox, target, freed, lost>>

(* The sender is answered first, then the recipients in the order Redis    *)
(* happened to list their keys.                                            *)
Recipients == IF replyTo # NoId THEN {replyTo} ELSE outbox

\* Mutant of FindSession: a recipient without a session is tried again.
FindSession_Retries(id) ==
    /\ pc[Dispatcher] = "send"
    /\ id \in Recipients
    /\ sessionMap[id] # NoConn
    /\ replyTo' = NoId
    /\ outbox' = IF replyTo # NoId THEN outbox ELSE outbox \ {id}
    /\ target' = sessionMap[id]
    /\ goto(Dispatcher, "write")
    /\ UNCHANGED <<redisVars, pool, sessionMap, packetChan, connVars, connOpen,
                   peer, acceptVars, current, freed, lost>>

(* sendPacket's findSession: a recipient without a session is skipped.     *)
FindSession(id) ==
    /\ pc[Dispatcher] = "send"
    /\ id \in Recipients
    /\ replyTo' = NoId
    /\ outbox' = IF replyTo # NoId THEN outbox ELSE outbox \ {id}
    /\ target' = sessionMap[id]
    /\ goto(Dispatcher, IF sessionMap[id] = NoConn THEN "send" ELSE "write")
    /\ UNCHANGED <<redisVars, pool, sessionMap, packetChan, connVars, connOpen,
                   peer, acceptVars, current, freed, lost>>

(* Write blocks while the peer does not read.                              *)
WriteOk ==
    /\ pc[Dispatcher] = "write"
    /\ connOpen[target]
    /\ peer[target] # "stalled"
    /\ target' = NoConn
    /\ goto(Dispatcher, "send")
    /\ UNCHANGED <<redisVars, pool, sessionMap, packetChan, connVars, connOpen,
                   peer, acceptVars, current, replyTo, outbox, freed, lost>>

WriteError ==
    /\ pc[Dispatcher] = "write"
    /\ peer[target] = "gone" \/ ~connOpen[target]
    /\ goto(Dispatcher, "close")
    /\ UNCHANGED <<redisVars, pool, sessionMap, packetChan, connVars, connOpen,
                   peer, acceptVars, sendVars, freed, lost>>

(* The handler returns.  Creating a room ends with InsertCIDToUser, whose  *)
(* SET makes the key even when the session has been closed meanwhile.      *)
HandlerDone ==
    /\ pc[Dispatcher] = "send"
    /\ Recipients = {}
    /\ \/ current.kind = "create" /\ userInfo' = userInfo \cup {current.id}
       \/ UNCHANGED userInfo
    /\ NextPacket
    /\ UNCHANGED <<redisSeq, flushes, pool, sessionMap, packetChan, connVars,
                   connOpen, peer, acceptVars, replyTo, outbox, target, freed,
                   lost>>

-----------------------------------------------------------------------------
(* The environment: clients that hang up or stop reading, and a Redis that *)
(* restarts without its data.                                              *)

PeerBecomes(c, from, to) ==
    /\ peer[c] \in from
    /\ peer' = [peer EXCEPT ![c] = to]
    /\ UNCHANGED <<redisVars, pool, sessionMap, packetChan, connVars, connOpen,
                   acceptVars, pc, sendVars, freed, lost>>

PeerGone(c)   == PeerBecomes(c, {"ok", "stalled"}, "gone")
PeerStall(c)  == c \in Stallers /\ PeerBecomes(c, {"ok"}, "stalled")
PeerResume(c) == PeerBecomes(c, {"stalled"}, "ok")

RedisFlush ==
    /\ flushes < MaxFlushes
    /\ flushes' = flushes + 1
    /\ redisSeq' = 0
    /\ userInfo' = {}
    /\ UNCHANGED <<pool, sessionMap, packetChan, connVars, connOpen, peer,
                   acceptVars, pc, sendVars, freed, lost>>

-----------------------------------------------------------------------------
AcceptStep ==
    \/ GetUniqueSessionId \/ GetUniqueSessionIdFails
    \/ AllocSession \/ NotEnoughIndexPool
    \/ StoreSession \/ DuplicateSession \/ SpawnReader

DispatchStep ==
    \/ TakePacket
    \/ HandleLogin \/ HandleTransferMessage \/ HandleRequest \/ IgnorePacket
    \/ \E id \in SessionId : FindSession(id)
    \/ WriteOk \/ WriteError \/ HandlerDone

Next ==
    \/ AcceptStep
    \/ DispatchStep
    \/ \E c \in Conn :
          \/ Accept(c)
          \/ ReadPacket(c) \/ ReadTooLarge(c) \/ ReadError(c)
          \/ \E more \in BOOLEAN : DistributePacket(c, more)
          \/ PeerGone(c) \/ PeerStall(c) \/ PeerResume(c)
    \/ \E t \in Thread : CloseProcess(t)
    \/ RedisFlush

Spec == Init /\ [][Next]_vars

(* The Go scheduler runs every goroutine that can run, a system call whose *)
(* result is ready returns, and a channel serves its blocked senders in    *)
(* order, so each of them is served in the end.  One Read returns finitely *)
(* many packets.  Nothing is assumed of the clients.                       *)
Fairness ==
    /\ WF_vars(AcceptStep)
    /\ WF_vars(DispatchStep)
    /\ \A t \in Thread : WF_vars(CloseProcess(t))
    /\ \A c \in Conn : WF_vars(ReadError(c)) /\ SF_vars(DistributePacket(c, FALSE))

FairSpec == Spec /\ Fairness

-----------------------------------------------------------------------------
(* Properties.                                                             *)

(* No session has been closed by both its reader and the dispatcher.       *)
OnceClosed == \A c \in Conn : freed[c] <= 1

InPool(i)    == \E n \in 1 .. Len(pool) : pool[n] = i
Holds(c)     == index[c] # NoIndex /\ freed[c] = 0
Held(i)      == \E c \in Conn : Holds(c) /\ index[c] = i
Allocated(i) == i = acceptIndex \/ Held(i) \/ i \in lost

PoolDistinct == \A m, n \in 1 .. Len(pool) : pool[m] = pool[n] => m = n

HoldersDistinct ==
    /\ \A c, d \in Conn : Holds(c) /\ Holds(d) /\ index[c] = index[d] => c = d
    /\ \A c \in Conn : Holds(c) => index[c] # acceptIndex /\ index[c] \notin lost
    /\ acceptIndex \notin lost

(* As long as no session is closed twice, no session index is ever handed  *)
(* out twice, forgotten, or refused by the full Deque when it comes back:  *)
(* each is in the pool exactly once, or belongs to exactly one session, or *)
(* is the accept loop's, or was dropped by the duplicate-id branch of      *)
(* appendSession.  (tcpSession.go, allocSession, freeSession,              *)
(* appendSession; README: POOL_SIZE bounds the connected clients.)         *)
IndexPartition ==
    OnceClosed =>
        /\ PoolDistinct
        /\ HoldersDistinct
        /\ \A i \in Index : InPool(i) <=> ~Allocated(i)

(* A session in the SessionMap is filed under its own id and its reader is *)
(* still there to take it out: no entry outlives the goroutine that owns   *)
(* it, whichever goroutine closed the connection first.                    *)
NoZombieSession ==
    \A id \in SessionId : sessionMap[id] # NoConn =>
        /\ seqIndex[sessionMap[id]] = id
        /\ pc[sessionMap[id]] # "done"

(* While Redis keeps its counter, a client whose connection is open and    *)
(* read from can be sent to: nothing that happens to another session, to   *)
(* the index pool or to an earlier owner of the index takes it out of the  *)
(* SessionMap (findSession, removeSession).                                *)
ServedIsReachable ==
    \A c \in Conn :
        flushes = 0 /\ pc[c] \in {"read", "deliver"} /\ connOpen[c]
            => sessionMap[seqIndex[c]] = c

(* "특정 서버에서 유니크한 값" (network.go:29): two open sessions of this   *)
(* server never have the same Index.                                       *)
IndexUnique ==
    \A c, d \in Conn :
        /\ connOpen[c] /\ connOpen[d]
        /\ index[c] # NoIndex
        /\ index[c] = index[d]
        => c = d

(* If every client that stops reading eventually reads again or hangs up,  *)
(* the session of a client that is gone is taken out of the SessionMap,    *)
(* even when the reader is waiting for room in PacketChan or the           *)
(* dispatcher is closing the same session.                                 *)
GoneIsRemoved ==
    (\A c \in Conn : <>[](peer[c] # "stalled")) =>
        \A c \in Conn :
            (peer[c] = "gone" /\ \E id \in SessionId : sessionMap[id] = c)
                ~> (\A id \in SessionId : sessionMap[id] # c)

(* Under the same assumption the packet-processing goroutine always gets   *)
(* back to its select: no handler is held up for ever by a connection that *)
(* is closed under it, or by a recipient that has no session.              *)
DispatcherReturns ==
    (\A c \in Conn : <>[](peer[c] # "stalled")) =>
        []<>(pc[Dispatcher] = "idle")

=============================================================================
