------------------------ MODULE ServerSessionsProofs ------------------------
(***************************************************************************)
(* Type correctness of ServerSessions and the properties of its session    *)
(* indices and of its SessionMap, for any number of connections and any    *)
(* sizes of the pool and the channel.                                      *)
(***************************************************************************)
EXTENDS ServerSessions, FiniteSetTheorems, SequenceTheorems, TLAPS

(* The thread is closing a session, or about to write to one.              *)
Targets == {"write"} \cup Closing

(* What the accept loop knows about the connection it is working on.       *)
AcceptLocal ==
    /\ acceptPc # "accept" => accepting \in Conn /\ peer[accepting] # "none"
    /\ acceptPc \in {"seq", "alloc", "store"} => index[accepting] = NoIndex
    /\ acceptPc \in {"alloc", "store", "spawn"} => seqIndex[accepting] \in SessionId
    /\ acceptPc = "spawn" => index[accepting] \in Index
    /\ acceptPc = "store" <=> acceptIndex \in Index

(* A connection has an index before anybody else sees its session.         *)
ReaderLocal ==
    \A c \in Conn :
        /\ pc[c] \in {"none", "read", "deliver", "done"} \cup Closing
        /\ pc[c] # "none" => index[c] \in Index
        /\ index[c] \in Index => seqIndex[c] \in SessionId
        /\ index[c] = NoIndex => freed[c] = 0
        /\ peer[c] = "none" => index[c] = NoIndex

(* What the dispatcher knows about its packet and about its target.        *)
DispatcherLocal ==
    /\ pc[Dispatcher] \in {"idle", "handle", "send"} \cup Targets
    /\ pc[Dispatcher] # "idle" => current \in Packet
    /\ pc[Dispatcher] \in Targets => target \in Conn /\ index[target] \in Index

MapLocal ==
    \A id \in SessionId : sessionMap[id] # NoConn =>
        index[sessionMap[id]] \in Index /\ seqIndex[sessionMap[id]] = id

TInv == TypeOK /\ AcceptLocal /\ ReaderLocal /\ DispatcherLocal /\ MapLocal

USE ConnAssumption, SizeAssumption, KindAssumption

LEMMA ThreadFacts ==
    /\ Dispatcher \in Thread
    /\ \A c \in Conn : c \in Thread /\ c # Dispatcher /\ c # NoConn
  BY DEF Thread

LEMMA NoIndexNotIndex == NoIndex \notin Index /\ NoId \notin SessionId
  BY DEF NoIndex, Index, NoId, SessionId

LEMMA TInvInit == Init => TInv
<1> SUFFICES ASSUME Init PROVE TInv
  OBVIOUS
<1> USE ThreadFacts, NoIndexNotIndex
<1>1. pool \in Seq(Index) /\ Len(pool) = PoolSize
  <2>1. createSessionPool \in [1 .. PoolSize -> Index]
    BY DEF createSessionPool, Index
  <2> QED
    BY <2>1, LenProperties DEF Init, createSessionPool
<1>2. TypeOK
  BY <1>1 DEF Init, TypeOK, Thread, NoPacket, SessionId
<1>3. AcceptLocal
  BY DEF Init, AcceptLocal
<1>4. ReaderLocal
  BY DEF Init, ReaderLocal
<1>5. DispatcherLocal
  BY DEF Init, DispatcherLocal, Targets, Closing
<1>6. MapLocal
  BY DEF Init, MapLocal
<1> QED
  BY <1>2, <1>3, <1>4, <1>5, <1>6 DEF TInv

(* What closeProcess knows about the session that it runs on.              *)
LEMMA ClosedSession ==
    ASSUME TInv, NEW t \in Thread, pc[t] \in Closing
    PROVE  /\ Session(t) \in Conn
           /\ index[Session(t)] \in Index
           /\ seqIndex[Session(t)] \in SessionId
<1> USE ThreadFacts DEF TInv
<1>1. CASE t = Dispatcher
  BY <1>1 DEF Session, DispatcherLocal, ReaderLocal, Targets
<1>2. CASE t \in Conn
  BY <1>2 DEF Session, ReaderLocal, Closing
<1> QED
  BY <1>1, <1>2 DEF Thread

LEMMA PoolAppendType ==
    ASSUME NEW q \in Seq(Index), Len(q) <= PoolSize, NEW i \in Index
    PROVE  PoolAppend(q, i) \in Seq(Index) /\ Len(PoolAppend(q, i)) <= PoolSize
  BY DEF PoolAppend

LEMMA TInvAccept ==
    ASSUME TInv, AcceptStep \/ \E c \in Conn : Accept(c) PROVE TInv'
<1> USE ThreadFacts, NoIndexNotIndex DEF TInv
<1> USE DEF redisVars, acceptVars, connVars, sendVars, NextAccept, goto
<1>1. ASSUME NEW c \in Conn, Accept(c) PROVE TInv'
  BY <1>1 DEF Accept, TypeOK, AcceptLocal, ReaderLocal, DispatcherLocal, MapLocal
<1>2. CASE GetUniqueSessionId
  BY <1>2 DEF GetUniqueSessionId, TypeOK, AcceptLocal, ReaderLocal, DispatcherLocal, MapLocal, SessionId
<1>3. CASE GetUniqueSessionIdFails
  BY <1>3 DEF GetUniqueSessionIdFails, TypeOK, AcceptLocal, ReaderLocal, DispatcherLocal, MapLocal
<1>4. CASE AllocSession
  BY <1>4 DEF AllocSession, Shift, TypeOK, AcceptLocal, ReaderLocal, DispatcherLocal, MapLocal
<1>5. CASE NotEnoughIndexPool
  BY <1>5 DEF NotEnoughIndexPool, TypeOK, AcceptLocal, ReaderLocal, DispatcherLocal, MapLocal
<1>6. CASE StoreSession
  BY <1>6 DEF StoreSession, TypeOK, AcceptLocal, ReaderLocal, DispatcherLocal, MapLocal
<1>7. CASE DuplicateSession
  BY <1>7 DEF DuplicateSession, TypeOK, AcceptLocal, ReaderLocal, DispatcherLocal, MapLocal
<1>8. CASE SpawnReader
  BY <1>8 DEF SpawnReader, TypeOK, AcceptLocal, ReaderLocal, DispatcherLocal, MapLocal
<1> QED
  BY <1>1, <1>2, <1>3, <1>4, <1>5, <1>6, <1>7, <1>8 DEF AcceptStep

LEMMA TInvRead ==
    ASSUME TInv, NEW c \in Conn,
           \/ ReadPacket(c) \/ ReadTooLarge(c) \/ ReadError(c)
           \/ \E more \in BOOLEAN : DistributePacket(c, more)
           \/ PeerGone(c) \/ PeerStall(c) \/ PeerResume(c)
    PROVE  TInv'
<1> USE ThreadFacts, NoIndexNotIndex DEF TInv
<1> USE DEF redisVars, acceptVars, connVars, sendVars, goto
<1>1. CASE ReadPacket(c) \/ ReadTooLarge(c) \/ ReadError(c)
  <2>1. CASE ReadPacket(c)
    BY <2>1 DEF ReadPacket, Closing, TypeOK, AcceptLocal, ReaderLocal,
       DispatcherLocal, MapLocal
  <2>2. CASE ReadTooLarge(c)
    BY <2>2 DEF ReadTooLarge, Closing, TypeOK, AcceptLocal, ReaderLocal,
       DispatcherLocal, MapLocal
  <2>3. CASE ReadError(c)
    BY <2>3 DEF ReadError, Closing, TypeOK, AcceptLocal, ReaderLocal,
       DispatcherLocal, MapLocal
  <2> QED
    BY <1>1, <2>1, <2>2, <2>3
<1>2. ASSUME NEW more \in BOOLEAN, DistributePacket(c, more) PROVE TInv'
  <2>1. PICK k \in Kind :
           packetChan' = Append(packetChan, [id |-> seqIndex[c], kind |-> k])
    BY <1>2 DEF DistributePacket
  <2>2. [id |-> seqIndex[c], kind |-> k] \in Packet
    BY <1>2 DEF DistributePacket, ReaderLocal, Packet
  <2>3. packetChan' \in Seq(Packet) /\ Len(packetChan') <= PacketChanSize
    BY <1>2, <2>1, <2>2 DEF DistributePacket, TypeOK
  <2>4. TypeOK'
    BY <1>2, <2>3 DEF DistributePacket, TypeOK
  <2> QED
    BY <1>2, <2>4 DEF DistributePacket, TypeOK, AcceptLocal, ReaderLocal,
                      DispatcherLocal, MapLocal
<1>3. CASE PeerGone(c) \/ PeerStall(c) \/ PeerResume(c)
  <2>1. CASE PeerGone(c)
    BY <2>1 DEF PeerGone, PeerBecomes, TypeOK, AcceptLocal, ReaderLocal,
       DispatcherLocal, MapLocal
  <2>2. CASE PeerStall(c)
    BY <2>2 DEF PeerStall, PeerBecomes, TypeOK, AcceptLocal, ReaderLocal,
       DispatcherLocal, MapLocal
  <2>3. CASE PeerResume(c)
    BY <2>3 DEF PeerResume, PeerBecomes, TypeOK, AcceptLocal, ReaderLocal,
       DispatcherLocal, MapLocal
  <2> QED
    BY <1>3, <2>1, <2>2, <2>3
<1> QED
  BY <1>1, <1>2, <1>3

LEMMA TInvClose ==
    ASSUME TInv, NEW t \in Thread, CloseProcess(t) PROVE TInv'
<1> USE ThreadFacts, NoIndexNotIndex DEF TInv
<1> USE DEF redisVars, acceptVars, connVars, sendVars, goto, Closing, Thread
<1>0. pc[t] \in Closing
  BY DEF CloseProcess, CloseConn, OnClose, FreeSession, DeleteSession
<1>1. /\ Session(t) \in Conn
      /\ index[Session(t)] \in Index
      /\ seqIndex[Session(t)] \in SessionId
  BY <1>0, ClosedSession
<1>2. CASE CloseConn(t)
  BY <1>1, <1>2 DEF CloseConn, TypeOK, AcceptLocal, ReaderLocal, DispatcherLocal,
                    MapLocal, Targets
<1>3. CASE OnClose(t)
  BY <1>1, <1>3 DEF OnClose, TypeOK, AcceptLocal, ReaderLocal, DispatcherLocal,
                    MapLocal, Targets
<1>4. CASE FreeSession(t)
  <2>1. pool' \in Seq(Index) /\ Len(pool') <= PoolSize
    BY <1>1, <1>4, PoolAppendType DEF FreeSession, TypeOK
  <2> QED
    BY <1>1, <1>4, <2>1 DEF FreeSession, TypeOK, AcceptLocal, ReaderLocal,
                            DispatcherLocal, MapLocal, Targets
<1>5. CASE DeleteSession(t)
  <2>1. CASE t = Dispatcher
    BY <1>1, <1>5, <2>1 DEF DeleteSession, TypeOK, AcceptLocal, ReaderLocal,
       DispatcherLocal, MapLocal, Targets
  <2>2. CASE t # Dispatcher
    <3>1. /\ t \in Conn
          /\ pc' = [pc EXCEPT ![t] = "done"]
          /\ pc'[Dispatcher] = pc[Dispatcher]
          /\ sessionMap' = [sessionMap EXCEPT ![seqIndex[Session(t)]] = NoConn]
          /\ UNCHANGED <<target, redisVars, pool, packetChan, connVars,
                         connOpen, peer, acceptVars, current, replyTo, outbox,
                         freed, lost>>
      BY <1>5, <2>2 DEF DeleteSession, TypeOK
    <3>2. TypeOK'
      BY <1>1, <3>1 DEF TypeOK
    <3>3. AcceptLocal' /\ DispatcherLocal' /\ MapLocal'
      BY <1>1, <3>1 DEF TypeOK, AcceptLocal, DispatcherLocal, MapLocal, Targets
    <3>4. ReaderLocal'
      BY <1>0, <1>1, <3>1 DEF TypeOK, ReaderLocal
    <3> QED
      BY <3>2, <3>3, <3>4
  <2> QED
    BY <2>1, <2>2
<1> QED
  BY <1>2, <1>3, <1>4, <1>5 DEF CloseProcess

LEMMA TInvDispatch ==
    ASSUME TInv, DispatchStep PROVE TInv'
<1> USE ThreadFacts, NoIndexNotIndex DEF TInv
<1> USE DEF redisVars, acceptVars, connVars, sendVars, goto, Closing, Targets
<1>1. CASE TakePacket
  BY <1>1 DEF TakePacket, TypeOK, AcceptLocal, ReaderLocal, DispatcherLocal, MapLocal
<1>2. CASE HandleLogin \/ HandleTransferMessage \/ HandleRequest
  <2>1. current.id \in SessionId
    BY <1>2 DEF HandleLogin, HandleTransferMessage, HandleRequest, DispatcherLocal, Packet
  <2>2. CASE HandleLogin
    BY <2>1, <2>2 DEF HandleLogin, Reply, TypeOK, AcceptLocal, ReaderLocal,
       DispatcherLocal, MapLocal
  <2>3. CASE HandleTransferMessage
    BY <2>1, <2>3 DEF HandleTransferMessage, Reply, TypeOK, AcceptLocal, ReaderLocal,
       DispatcherLocal, MapLocal
  <2>4. CASE HandleRequest
    BY <2>1, <2>4 DEF HandleRequest, Reply, TypeOK, AcceptLocal, ReaderLocal,
       DispatcherLocal, MapLocal
  <2> QED
    BY <1>2, <2>2, <2>3, <2>4
<1>3. CASE IgnorePacket
  BY <1>3 DEF IgnorePacket, NextPacket, TypeOK, AcceptLocal, ReaderLocal,
              DispatcherLocal, MapLocal
<1>4. ASSUME NEW id \in SessionId, FindSession(id) PROVE TInv'
  BY <1>4 DEF FindSession, Recipients, TypeOK, AcceptLocal, ReaderLocal,
              DispatcherLocal, MapLocal
<1>5. CASE WriteOk \/ WriteError
  <2>1. CASE WriteOk
    BY <2>1 DEF WriteOk, TypeOK, AcceptLocal, ReaderLocal,
       DispatcherLocal, MapLocal
  <2>2. CASE WriteError
    BY <2>2 DEF WriteError, TypeOK, AcceptLocal, ReaderLocal,
       DispatcherLocal, MapLocal
  <2> QED
    BY <1>5, <2>1, <2>2
<1>6. CASE HandlerDone
  <2>1. current.id \in SessionId
    BY <1>6 DEF HandlerDone, DispatcherLocal, Packet
  <2> QED
    BY <1>6, <2>1 DEF HandlerDone, NextPacket, TypeOK, AcceptLocal, ReaderLocal,
                      DispatcherLocal, MapLocal
<1> QED
  BY <1>1, <1>2, <1>3, <1>4, <1>5, <1>6 DEF DispatchStep

LEMMA TInvFlush == ASSUME TInv, RedisFlush PROVE TInv'
  BY DEF RedisFlush, acceptVars, connVars, sendVars, TInv, TypeOK, AcceptLocal,
         ReaderLocal, DispatcherLocal, MapLocal

LEMMA TInvStep == TInv /\ [Next]_vars => TInv'
<1>1. ASSUME TInv, UNCHANGED vars PROVE TInv'
  BY <1>1 DEF vars, redisVars, acceptVars, connVars, sendVars, TInv, TypeOK,
              AcceptLocal, ReaderLocal, DispatcherLocal, MapLocal
<1> QED
  BY <1>1, TInvAccept, TInvRead, TInvClose, TInvDispatch, TInvFlush DEF Next

(* Every reachable state is well typed; with it, an index is in range      *)
(* wherever it is used and a session is filed under its own id.            *)
THEOREM TypeCorrect == Spec => []TInv
  BY TInvInit, TInvStep, PTL DEF Spec

(* TypeOK alone, which is what the run checks.                             *)
THEOREM Typing == Spec => []TypeOK
<1>1. TInv => TypeOK
  BY DEF TInv
<1> QED
  BY <1>1, TypeCorrect, PTL

-----------------------------------------------------------------------------
(* The index pool.                                                         *)

PInv == TInv /\ IndexPartition

(* The Deque has room for an index that is not in it.                      *)
LEMMA PoolHasRoom ==
    ASSUME NEW q \in Seq(Index), NEW i \in Index,
           \A m, n \in 1 .. Len(q) : q[m] = q[n] => m = n,
           \A n \in 1 .. Len(q) : q[n] # i
    PROVE  Len(q) < PoolSize
<1> SUFFICES ASSUME Len(q) >= PoolSize PROVE FALSE
  OBVIOUS
<1>1. IsFiniteSet(1 .. Len(q)) /\ Cardinality(1 .. Len(q)) = Len(q)
  BY FS_Interval, LenProperties
<1>2. IsFiniteSet(Index) /\ Cardinality(Index) = PoolSize
  BY FS_Interval DEF Index
<1>3. /\ IsFiniteSet(Index \ {i})
      /\ Cardinality(Index \ {i}) = PoolSize - 1
  BY <1>2, FS_RemoveElement
<1>4. q \in [1 .. Len(q) -> Index \ {i}]
  BY LenProperties
<1>5. Cardinality(Index \ {i}) < Cardinality(1 .. Len(q))
  BY <1>1, <1>3, LenProperties
<1>6. \E m, n \in 1 .. Len(q) : m # n /\ q[m] = q[n]
  BY <1>1, <1>3, <1>4, <1>5, FS_PigeonHole
<1> QED
  BY <1>6

LEMMA PInvInit == Init => IndexPartition
<1> SUFFICES ASSUME Init PROVE IndexPartition
  OBVIOUS
<1> USE NoIndexNotIndex
<1>1. pool \in Seq(Index) /\ Len(pool) = PoolSize
  <2>1. createSessionPool \in [1 .. PoolSize -> Index]
    BY DEF createSessionPool, Index
  <2> QED
    BY <2>1, LenProperties DEF Init, createSessionPool
<1>2. \A n \in 1 .. PoolSize : pool[n] = n - 1
  BY DEF Init, createSessionPool
<1>3. PoolDistinct
  BY <1>1, <1>2 DEF PoolDistinct
<1>4. \A c \in Conn : ~Holds(c)
  BY DEF Init, Holds
<1>5. HoldersDistinct
  BY <1>4 DEF Init, HoldersDistinct
<1>6. ASSUME NEW i \in Index PROVE InPool(i) /\ ~Allocated(i)
  <2>1. i + 1 \in 1 .. PoolSize /\ (i + 1) - 1 = i
    BY DEF Index
  <2> QED
    BY <1>1, <1>2, <1>4, <2>1 DEF Init, InPool, Allocated, Held
<1> QED
  BY <1>3, <1>5, <1>6 DEF IndexPartition

(* The steps that have nothing to do with indices.                         *)
LEMMA PInvOther ==
    ASSUME IndexPartition, UNCHANGED <<pool, index, freed, acceptIndex, lost>>
    PROVE  IndexPartition'
  BY DEF IndexPartition, OnceClosed, PoolDistinct, HoldersDistinct, InPool,
         Allocated, Held, Holds

LEMMA PInvAlloc == ASSUME PInv, AllocSession PROVE IndexPartition'
<1> USE NoIndexNotIndex
<1> SUFFICES ASSUME OnceClosed
             PROVE  PoolDistinct' /\ HoldersDistinct'
                    /\ \A i \in Index : InPool(i)' <=> ~Allocated(i)'
  BY DEF IndexPartition, AllocSession, OnceClosed
<1>1. /\ PoolDistinct
      /\ HoldersDistinct
      /\ \A i \in Index : InPool(i) <=> ~Allocated(i)
  BY DEF PInv, IndexPartition
<1>2. /\ pool \in Seq(Index) /\ pool # <<>>
      /\ pool' = Tail(pool) /\ acceptIndex' = pool[1]
      /\ UNCHANGED <<index, freed, lost>>
      /\ acceptIndex = NoIndex
      /\ index \in [Conn -> Index \cup {NoIndex}]
      /\ lost \subseteq Index
  BY DEF AllocSession, connVars, Shift, PInv, TInv, TypeOK, AcceptLocal
<1>3. /\ pool' \in Seq(Index) /\ Len(pool') = Len(pool) - 1 /\ Len(pool) \in Nat \ {0}
      /\ \A n \in 1 .. Len(pool') : pool'[n] = pool[n + 1]
      /\ pool[1] \in Index
  BY <1>2
<1>4. PoolDistinct'
  BY <1>1, <1>3 DEF PoolDistinct
<1>5. InPool(pool[1]) /\ ~Allocated(pool[1])
  BY <1>1, <1>3 DEF InPool
<1>6. HoldersDistinct'
  BY <1>1, <1>2, <1>5 DEF HoldersDistinct, Holds, Allocated, Held
<1>7. \A i \in Index : InPool(i)' <=> InPool(i) /\ i # pool[1]
  <2> SUFFICES ASSUME NEW i \in Index
               PROVE  InPool(i)' <=> InPool(i) /\ i # pool[1]
    OBVIOUS
  <2>1. ASSUME InPool(i)' PROVE InPool(i) /\ i # pool[1]
    <3>1. PICK n \in 1 .. Len(pool') : pool'[n] = i
      BY <2>1 DEF InPool
    <3>2. n + 1 \in 1 .. Len(pool) /\ n + 1 # 1 /\ pool[n + 1] = i
      BY <1>3, <3>1
    <3>3. 1 \in 1 .. Len(pool)
      BY <1>3
    <3> QED
      BY <1>1, <3>2, <3>3 DEF InPool, PoolDistinct
  <2>2. ASSUME InPool(i), i # pool[1] PROVE InPool(i)'
    <3>1. PICK n \in 1 .. Len(pool) : pool[n] = i
      BY <2>2 DEF InPool
    <3>2. n - 1 \in 1 .. Len(pool') /\ (n - 1) + 1 = n
      BY <1>3, <2>2, <3>1
    <3> QED
      BY <1>3, <3>1, <3>2 DEF InPool
  <2> QED
    BY <2>1, <2>2
<1>8. \A i \in Index : Allocated(i)' <=> Allocated(i) \/ i = pool[1]
  BY <1>2 DEF Allocated, Held, Holds
<1> QED
  BY <1>1, <1>4, <1>6, <1>7, <1>8

LEMMA PInvStore == ASSUME PInv, StoreSession PROVE IndexPartition'
<1> USE NoIndexNotIndex
<1> SUFFICES ASSUME OnceClosed
             PROVE  PoolDistinct' /\ HoldersDistinct'
                    /\ \A i \in Index : InPool(i)' <=> ~Allocated(i)'
  BY DEF IndexPartition, StoreSession, OnceClosed
<1>1. /\ PoolDistinct
      /\ HoldersDistinct
      /\ \A i \in Index : InPool(i) <=> ~Allocated(i)
  BY DEF PInv, IndexPartition
<1>2. /\ index \in [Conn -> Index \cup {NoIndex}]
      /\ accepting \in Conn /\ index[accepting] = NoIndex
      /\ freed[accepting] = 0
      /\ acceptIndex \in Index
      /\ index' = [index EXCEPT ![accepting] = acceptIndex]
      /\ acceptIndex' = NoIndex
      /\ UNCHANGED <<pool, freed, lost>>
      /\ lost \subseteq Index
  BY DEF StoreSession, PInv, TInv, TypeOK, AcceptLocal, ReaderLocal
<1>3. \A c \in Conn : Holds(c)' <=> Holds(c) \/ c = accepting
  BY <1>2 DEF Holds
<1>4. PoolDistinct' /\ \A i \in Index : InPool(i)' <=> InPool(i)
  BY <1>1, <1>2 DEF PoolDistinct, InPool
<1>5. HoldersDistinct'
  BY <1>1, <1>2, <1>3 DEF HoldersDistinct, Holds
<1>6. \A i \in Index : Allocated(i)' <=> Allocated(i)
  BY <1>2, <1>3 DEF Allocated, Held, Holds
<1> QED
  BY <1>1, <1>4, <1>5, <1>6

LEMMA PInvDuplicate == ASSUME PInv, DuplicateSession PROVE IndexPartition'
<1> USE NoIndexNotIndex
<1>1. /\ acceptIndex \in Index
      /\ lost' = lost \cup {acceptIndex}
      /\ acceptIndex' = NoIndex
      /\ UNCHANGED <<pool, index, freed>>
      /\ lost \subseteq Index
  BY DEF DuplicateSession, NextAccept, connVars, PInv, TInv, TypeOK, AcceptLocal
<1> QED
  BY <1>1 DEF PInv, IndexPartition, OnceClosed, PoolDistinct, HoldersDistinct,
              InPool, Allocated, Held, Holds

LEMMA PInvFree ==
    ASSUME PInv, NEW t \in Thread, FreeSession(t) PROVE IndexPartition'
<1>1. PICK c \in Conn, i \in Index : c = Session(t) /\ i = index[c]
  BY ClosedSession DEF PInv, FreeSession, Closing
<1>2. /\ pool \in Seq(Index)
      /\ freed \in [Conn -> Nat]
      /\ pool' = PoolAppend(pool, i)
      /\ freed' = [freed EXCEPT ![c] = @ + 1]
      /\ UNCHANGED <<index, acceptIndex, lost>>
  BY <1>1 DEF FreeSession, connVars, acceptVars, PInv, TInv, TypeOK
<1> SUFFICES ASSUME OnceClosed'
             PROVE  PoolDistinct' /\ HoldersDistinct'
                    /\ \A j \in Index : InPool(j)' <=> ~Allocated(j)'
  BY DEF IndexPartition
<1>3. OnceClosed /\ freed[c] = 0
  BY <1>1, <1>2 DEF OnceClosed
<1>4. /\ PoolDistinct
      /\ HoldersDistinct
      /\ \A j \in Index : InPool(j) <=> ~Allocated(j)
  BY <1>3 DEF PInv, IndexPartition
<1>5. Holds(c)
  BY <1>1, <1>3, NoIndexNotIndex DEF Holds
<1>6. ~InPool(i)
  BY <1>1, <1>4, <1>5 DEF Allocated, Held
<1>7. Len(pool) < PoolSize
  BY <1>1, <1>2, <1>4, <1>6, PoolHasRoom DEF PoolDistinct, InPool
<1>8. /\ pool' = Append(pool, i)
      /\ Len(pool') = Len(pool) + 1 /\ Len(pool) \in Nat
      /\ \A n \in 1 .. Len(pool) : pool'[n] = pool[n]
      /\ pool'[Len(pool) + 1] = i
  BY <1>1, <1>2, <1>7 DEF PoolAppend
<1>9. PoolDistinct'
  BY <1>4, <1>6, <1>8 DEF PoolDistinct, InPool
<1>10. \A j \in Index : InPool(j)' <=> InPool(j) \/ j = i
  <2>1. \A n \in 1 .. Len(pool') : n \in 1 .. Len(pool) \/ n = Len(pool) + 1
    BY <1>8
  <2>2. Len(pool) + 1 \in 1 .. Len(pool') /\ 1 .. Len(pool) \subseteq 1 .. Len(pool')
    BY <1>8
  <2> QED
    BY <1>8, <2>1, <2>2 DEF InPool
<1>11. \A d \in Conn : Holds(d)' <=> Holds(d) /\ d # c
  BY <1>1, <1>2, <1>3 DEF Holds
<1>12. HoldersDistinct'
  BY <1>2, <1>4, <1>11 DEF HoldersDistinct
<1>13. ~Allocated(i)'
  BY <1>1, <1>2, <1>4, <1>5, <1>11 DEF Allocated, Held, HoldersDistinct
<1>14. \A j \in Index : j # i => (Allocated(j)' <=> Allocated(j))
  BY <1>1, <1>2, <1>11 DEF Allocated, Held
<1> QED
  BY <1>4, <1>9, <1>10, <1>12, <1>13, <1>14

LEMMA PInvStep == PInv /\ [Next]_vars => PInv'
<1> SUFFICES ASSUME PInv, [Next]_vars PROVE IndexPartition'
  BY TInvStep DEF PInv
<1> USE DEF vars, redisVars, acceptVars, connVars, sendVars
<1>1. CASE UNCHANGED vars
  BY <1>1, PInvOther DEF PInv
<1>2. CASE AcceptStep
  <2>1. CASE GetUniqueSessionId
    BY <2>1, PInvOther DEF GetUniqueSessionId, PInv
  <2>2. CASE GetUniqueSessionIdFails \/ NotEnoughIndexPool \/ SpawnReader
    <3>1. acceptIndex = NoIndex
      BY <2>2 DEF GetUniqueSessionIdFails, NotEnoughIndexPool, SpawnReader,
                  PInv, TInv, TypeOK, AcceptLocal
    <3> QED
      BY <2>2, <3>1, PInvOther DEF GetUniqueSessionIdFails, NotEnoughIndexPool,
                                   SpawnReader, NextAccept, PInv
  <2> QED
    BY <1>2, <2>1, <2>2, PInvAlloc, PInvStore, PInvDuplicate DEF AcceptStep
<1>3. CASE DispatchStep
  <2>1. UNCHANGED <<pool, index, freed, acceptIndex, lost>>
    BY <1>3 DEF DispatchStep, TakePacket, HandleLogin, HandleTransferMessage,
       HandleRequest, Reply, IgnorePacket, FindSession, WriteOk, WriteError,
       HandlerDone
  <2> QED
    BY <2>1, PInvOther DEF PInv
<1>4. ASSUME NEW c \in Conn,
             \/ Accept(c)
             \/ ReadPacket(c) \/ ReadTooLarge(c) \/ ReadError(c)
             \/ \E more \in BOOLEAN : DistributePacket(c, more)
             \/ PeerGone(c) \/ PeerStall(c) \/ PeerResume(c)
      PROVE  IndexPartition'
  <2>1. UNCHANGED <<pool, index, freed, acceptIndex, lost>>
    BY <1>4 DEF Accept, ReadPacket, ReadTooLarge, ReadError, DistributePacket,
       PeerGone, PeerStall, PeerResume, PeerBecomes
  <2> QED
    BY <2>1, PInvOther DEF PInv
<1>5. ASSUME NEW t \in Thread, CloseProcess(t) PROVE IndexPartition'
  <2>1. CASE CloseConn(t) \/ OnClose(t) \/ DeleteSession(t)
    BY <2>1, PInvOther DEF CloseConn, OnClose, DeleteSession, PInv
  <2> QED
    BY <1>5, <2>1, PInvFree DEF CloseProcess
<1>6. CASE RedisFlush
  BY <1>6, PInvOther DEF RedisFlush, PInv
<1> QED
  BY <1>1, <1>2, <1>3, <1>4, <1>5, <1>6 DEF Next

(* Whatever the number of clients and the size of the pool: while no       *)
(* session is closed by both its reader and the dispatcher, every index is *)
(* in the pool once or belongs to exactly one owner, and the Deque never   *)
(* refuses one that is given back.                                         *)
THEOREM IndicesPartitioned == Spec => []IndexPartition
<1>1. Init => PInv
  BY TInvInit, PInvInit DEF PInv
<1>2. PInv => IndexPartition
  BY DEF PInv
<1> QED
  BY <1>1, <1>2, PInvStep, PTL DEF Spec

-----------------------------------------------------------------------------
(* The SessionMap.                                                         *)

ZInv == TInv /\ NoZombieSession

LEMMA ZInvStep == ZInv /\ [Next]_vars => ZInv'
<1> SUFFICES ASSUME ZInv, [Next]_vars PROVE NoZombieSession'
  BY TInvStep DEF ZInv
<1> USE ThreadFacts, NoIndexNotIndex DEF ZInv, TInv
<1> USE DEF redisVars, acceptVars, connVars, sendVars, goto
<1>1. CASE UNCHANGED vars
  BY <1>1 DEF vars, NoZombieSession
<1>2. CASE AcceptStep
  <2>1. CASE GetUniqueSessionId
    BY <2>1 DEF GetUniqueSessionId, NoZombieSession, TypeOK, AcceptLocal, MapLocal
  <2>2. CASE StoreSession
    <3>1. pc[accepting] = "none"
      BY <2>2 DEF StoreSession, AcceptLocal, ReaderLocal
    <3> QED
      BY <2>2, <3>1 DEF StoreSession, NoZombieSession, TypeOK, AcceptLocal, MapLocal
  <2>3. CASE SpawnReader
    BY <2>3 DEF SpawnReader, NoZombieSession, TypeOK, AcceptLocal, MapLocal
  <2> QED
    BY <1>2, <2>1, <2>2, <2>3 DEF AcceptStep, GetUniqueSessionIdFails, AllocSession,
       NotEnoughIndexPool, DuplicateSession, NoZombieSession
<1>3. CASE DispatchStep
  <2>1. UNCHANGED <<sessionMap, seqIndex>> /\ \A c \in Conn : pc'[c] = pc[c]
    BY <1>3 DEF DispatchStep, TakePacket, HandleLogin, HandleTransferMessage,
       HandleRequest, Reply, IgnorePacket, NextPacket, FindSession, WriteOk,
       WriteError, HandlerDone, TypeOK
  <2> QED
    BY <2>1 DEF NoZombieSession, TypeOK
<1>4. ASSUME NEW c \in Conn,
             \/ Accept(c)
             \/ ReadPacket(c) \/ ReadTooLarge(c) \/ ReadError(c)
             \/ \E more \in BOOLEAN : DistributePacket(c, more)
             \/ PeerGone(c) \/ PeerStall(c) \/ PeerResume(c)
      PROVE  NoZombieSession'
  <2>1. UNCHANGED <<sessionMap, seqIndex>>
        /\ \A d \in Conn : pc'[d] = "done" => pc[d] = "done"
    BY <1>4 DEF Accept, ReadPacket, ReadTooLarge, ReadError, DistributePacket,
       PeerGone, PeerStall, PeerResume, PeerBecomes, TypeOK
  <2> QED
    BY <2>1 DEF NoZombieSession, TypeOK
<1>5. ASSUME NEW t \in Thread, CloseProcess(t) PROVE NoZombieSession'
  <2>1. CASE CloseConn(t) \/ OnClose(t) \/ FreeSession(t)
    <3>1. UNCHANGED <<sessionMap, seqIndex>>
          /\ \A d \in Conn : pc'[d] = "done" => pc[d] = "done"
      BY <2>1 DEF CloseConn, OnClose, FreeSession, TypeOK
    <3> QED
      BY <3>1 DEF NoZombieSession, TypeOK
  <2>2. CASE DeleteSession(t)
    <3>1. seqIndex[Session(t)] \in SessionId
      BY <2>2, ClosedSession DEF DeleteSession, Closing
    <3>2. /\ UNCHANGED seqIndex
          /\ sessionMap' = [sessionMap EXCEPT ![seqIndex[Session(t)]] = NoConn]
          /\ \A d \in Conn : pc'[d] = "done" => pc[d] = "done" \/ d = Session(t)
      BY <2>2 DEF DeleteSession, TypeOK, Session
    <3> QED
      BY <3>1, <3>2 DEF NoZombieSession, TypeOK
  <2> QED
    BY <1>5, <2>1, <2>2 DEF CloseProcess
<1>6. CASE RedisFlush
  BY <1>6 DEF RedisFlush, NoZombieSession
<1> QED
  BY <1>1, <1>2, <1>3, <1>4, <1>5, <1>6 DEF Next

(* No entry of the SessionMap outlives its reader, even when ids are given *)
(* out twice because Redis lost its counter.                               *)
THEOREM NoZombie == Spec => []NoZombieSession
<1>1. Init => ZInv
  <2>1. Init => NoZombieSession
    BY DEF Init, NoZombieSession
  <2> QED
    BY <2>1, TInvInit DEF ZInv
<1>2. ZInv => NoZombieSession
  BY DEF ZInv
<1> QED
  BY <1>1, <1>2, ZInvStep, PTL DEF Spec

-----------------------------------------------------------------------------
(* Reachability of the sessions being served.                              *)

Serving(c) ==
    pc[c] \in {"read", "deliver"} \/ (acceptPc = "spawn" /\ accepting = c)

(* The counter has passed every id, and no two connections share one.      *)
UniqueIds ==
    /\ \A c \in Conn : seqIndex[c] <= redisSeq
    /\ \A c, d \in Conn : seqIndex[c] = seqIndex[d] /\ seqIndex[c] # NoId => c = d

OpenIsMapped ==
    \A c \in Conn : Serving(c) /\ connOpen[c] => sessionMap[seqIndex[c]] = c

(* closeProcess closes the connection before anything else.                *)
ClosedFirst ==
    \A t \in Thread :
        pc[t] \in {"onclose", "free", "delete"} => ~connOpen[Session(t)]

RInv ==
    /\ TInv
    /\ ClosedFirst
    /\ flushes = 0 => UniqueIds /\ OpenIsMapped

LEMMA RInvAccept ==
    ASSUME RInv, AcceptStep \/ \E c \in Conn : Accept(c) PROVE RInv'
<1> TInv'
  BY TInvAccept DEF RInv
<1> USE ThreadFacts, NoIndexNotIndex DEF RInv, TInv
<1> USE DEF redisVars, acceptVars, connVars, sendVars, NextAccept, goto
<1>1. ASSUME NEW c \in Conn, Accept(c) PROVE RInv'
  <2>1. \A t \in Thread : pc[t] \in Closing => Session(t) # c
    BY <1>1, ClosedSession DEF Accept, ReaderLocal
  <2>2. ClosedFirst'
    BY <1>1, <2>1 DEF Accept, TypeOK, ClosedFirst, Session, Closing
  <2>3. pc[c] = "none"
    BY <1>1 DEF Accept, ReaderLocal
  <2> QED
    BY <1>1, <2>2, <2>3 DEF Accept, TypeOK, UniqueIds, OpenIsMapped, Serving
<1>2. CASE GetUniqueSessionId
  <2>1. ClosedFirst'
    BY <1>2 DEF GetUniqueSessionId, ClosedFirst, Session
  <2>2. pc[accepting] = "none" /\ accepting \in Conn
    BY <1>2 DEF GetUniqueSessionId, AcceptLocal, ReaderLocal
  <2>3. ASSUME flushes = 0 PROVE UniqueIds'
    <3>1. /\ redisSeq \in Nat /\ redisSeq' = redisSeq + 1
          /\ \A d \in Conn : seqIndex[d] \in Nat /\ seqIndex[d] <= redisSeq
      BY <1>2, <2>3 DEF GetUniqueSessionId, UniqueIds, TypeOK, SessionId, NoId
    <3>2. \A d \in Conn :
             seqIndex'[d] = IF d = accepting THEN redisSeq + 1 ELSE seqIndex[d]
      BY <1>2 DEF GetUniqueSessionId, TypeOK
    <3> QED
      BY <2>3, <3>1, <3>2 DEF UniqueIds
  <2>4. ASSUME flushes = 0 PROVE OpenIsMapped'
    BY <1>2, <2>2, <2>4 DEF GetUniqueSessionId, OpenIsMapped, Serving, TypeOK
  <2> QED
    BY <1>2, <2>1, <2>3, <2>4 DEF GetUniqueSessionId
<1>3. CASE \/ GetUniqueSessionIdFails \/ AllocSession \/ NotEnoughIndexPool
           \/ DuplicateSession
  <2>1. /\ UNCHANGED <<seqIndex, pc, connOpen, sessionMap, flushes, target>>
        /\ acceptPc # "spawn" /\ acceptPc' # "spawn"
        /\ redisSeq' >= redisSeq
    BY <1>3 DEF GetUniqueSessionIdFails, AllocSession, NotEnoughIndexPool,
       DuplicateSession, TypeOK
  <2>2. ClosedFirst'
    BY <2>1 DEF ClosedFirst, Session
  <2>3. UniqueIds => UniqueIds'
    BY <2>1, SMTT(30) DEF UniqueIds, TypeOK, SessionId, NoId
  <2>4. OpenIsMapped => OpenIsMapped'
    BY <2>1 DEF OpenIsMapped, Serving
  <2> QED
    BY <2>1, <2>2, <2>3, <2>4
<1>4. CASE StoreSession
  <2>1. accepting \in Conn /\ seqIndex[accepting] \in SessionId
    BY <1>4 DEF StoreSession, AcceptLocal
  <2>2. ClosedFirst'
    BY <1>4 DEF StoreSession, ClosedFirst, Session
  <2>3. UniqueIds => UniqueIds'
    BY <1>4 DEF StoreSession, UniqueIds
  <2>4. OpenIsMapped /\ UniqueIds => OpenIsMapped'
    BY <1>4, <2>1 DEF StoreSession, OpenIsMapped, UniqueIds, Serving, TypeOK
  <2> QED
    BY <1>4, <2>2, <2>3, <2>4 DEF StoreSession
<1>5. CASE SpawnReader
  <2>1. accepting \in Conn /\ pc[accepting] \in {"none", "read", "deliver", "done"} \cup Closing
    BY <1>5 DEF SpawnReader, AcceptLocal, ReaderLocal
  <2>2. ClosedFirst'
    BY <1>5, <2>1 DEF SpawnReader, ClosedFirst, Session, TypeOK, Thread
  <2>3. UniqueIds => UniqueIds'
    BY <1>5 DEF SpawnReader, UniqueIds
  <2>4. OpenIsMapped => OpenIsMapped'
    BY <1>5, <2>1 DEF SpawnReader, OpenIsMapped, Serving, TypeOK
  <2> QED
    BY <1>5, <2>2, <2>3, <2>4 DEF SpawnReader
<1> QED
  BY <1>1, <1>2, <1>3, <1>4, <1>5 DEF AcceptStep

LEMMA RInvRead ==
    ASSUME RInv, NEW c \in Conn,
           \/ ReadPacket(c) \/ ReadTooLarge(c) \/ ReadError(c)
           \/ \E more \in BOOLEAN : DistributePacket(c, more)
           \/ PeerGone(c) \/ PeerStall(c) \/ PeerResume(c)
    PROVE  RInv'
<1>1. TInv'
  BY TInvRead DEF RInv
<1>2. /\ UNCHANGED <<redisSeq, seqIndex, connOpen, sessionMap, flushes, target,
                     acceptPc, accepting>>
      /\ \A d \in Conn : pc'[d] \in {"read", "deliver"} => pc[d] \in {"read", "deliver"}
      /\ \A t \in Thread : pc'[t] \in {"onclose", "free", "delete"} => pc'[t] = pc[t]
  BY ThreadFacts DEF RInv, TInv, TypeOK, redisVars, acceptVars, connVars, sendVars, goto,
     ReadPacket, ReadTooLarge, ReadError, DistributePacket, PeerGone, PeerStall,
     PeerResume, PeerBecomes
<1>3. ClosedFirst'
  BY <1>2 DEF RInv, ClosedFirst, Session
<1>4. (UniqueIds => UniqueIds') /\ (OpenIsMapped => OpenIsMapped')
  BY <1>2 DEF UniqueIds, OpenIsMapped, Serving
<1> QED
  BY <1>1, <1>2, <1>3, <1>4 DEF RInv

LEMMA RInvDispatch == ASSUME RInv, DispatchStep PROVE RInv'
<1>1. TInv'
  BY TInvDispatch DEF RInv
<1>2. /\ UNCHANGED <<redisSeq, seqIndex, connOpen, sessionMap, flushes,
                     acceptPc, accepting>>
      /\ \A d \in Conn : pc'[d] = pc[d]
      /\ pc'[Dispatcher] \notin {"onclose", "free", "delete"}
  BY ThreadFacts DEF RInv, TInv, TypeOK, redisVars, acceptVars, connVars, sendVars, goto,
     DispatchStep, TakePacket, HandleLogin, HandleTransferMessage, HandleRequest,
     Reply, IgnorePacket, NextPacket, FindSession, WriteOk, WriteError, HandlerDone
<1>3. ClosedFirst'
  BY <1>2 DEF RInv, ClosedFirst, Session, Thread
<1>4. (UniqueIds => UniqueIds') /\ (OpenIsMapped => OpenIsMapped')
  BY <1>2 DEF UniqueIds, OpenIsMapped, Serving
<1> QED
  BY <1>1, <1>2, <1>3, <1>4 DEF RInv

LEMMA RInvClose ==
    ASSUME RInv, NEW t \in Thread, CloseProcess(t) PROVE RInv'
<1>0. TInv'
  BY TInvClose DEF RInv
<1> USE ThreadFacts, NoIndexNotIndex DEF RInv, TInv
<1> USE DEF redisVars, acceptVars, connVars, sendVars, goto
<1>1. Session(t) \in Conn /\ seqIndex[Session(t)] \in SessionId
  BY ClosedSession DEF CloseProcess, CloseConn, OnClose, FreeSession, DeleteSession, Closing
<1>2. CASE CloseConn(t)
  <2>1. ClosedFirst'
    BY <1>1, <1>2 DEF CloseConn, ClosedFirst, Session, TypeOK
  <2>2. (UniqueIds => UniqueIds') /\ (OpenIsMapped => OpenIsMapped')
    BY <1>1, <1>2 DEF CloseConn, UniqueIds, OpenIsMapped, Serving, TypeOK
  <2> QED
    BY <1>0, <1>2, <2>1, <2>2 DEF CloseConn
<1>3. CASE OnClose(t) \/ FreeSession(t)
  <2>1. /\ UNCHANGED <<redisSeq, seqIndex, connOpen, sessionMap, flushes, target,
                       acceptPc, accepting>>
        /\ \A d \in Conn : pc'[d] \in {"read", "deliver"} => pc[d] \in {"read", "deliver"}
        /\ \A u \in Thread : pc'[u] \in {"onclose", "free", "delete"}
                => pc[u] \in {"onclose", "free", "delete"}
    BY <1>3 DEF OnClose, FreeSession, TypeOK
  <2>2. ClosedFirst'
    BY <2>1 DEF ClosedFirst, Session
  <2>3. (UniqueIds => UniqueIds') /\ (OpenIsMapped => OpenIsMapped')
    BY <2>1 DEF UniqueIds, OpenIsMapped, Serving
  <2> QED
    BY <1>0, <2>1, <2>2, <2>3
<1>4. CASE DeleteSession(t)
  <2>1. ~connOpen[Session(t)]
    BY <1>4 DEF DeleteSession, ClosedFirst
  <2>2. /\ UNCHANGED <<redisSeq, seqIndex, connOpen, flushes, acceptPc, accepting>>
        /\ sessionMap' = [sessionMap EXCEPT ![seqIndex[Session(t)]] = NoConn]
        /\ \A d \in Conn : pc'[d] \in {"read", "deliver"} => pc[d] \in {"read", "deliver"}
        /\ \A u \in Thread : u # t => pc'[u] = pc[u] /\ Session(u)' = Session(u)
        /\ pc'[t] \notin {"onclose", "free", "delete"}
    BY <1>4 DEF DeleteSession, TypeOK, Session
  <2>3. ClosedFirst'
    BY <2>2 DEF ClosedFirst
  <2>4. UniqueIds => UniqueIds'
    BY <2>2 DEF UniqueIds
  <2>5. UniqueIds /\ OpenIsMapped => OpenIsMapped'
    <3> SUFFICES ASSUME UniqueIds, OpenIsMapped, NEW d \in Conn,
                        Serving(d)', connOpen'[d]
                 PROVE  sessionMap'[seqIndex'[d]] = d
      BY DEF OpenIsMapped
    <3>1. Serving(d) /\ connOpen[d] /\ d # Session(t)
      BY <2>1, <2>2 DEF Serving
    <3>2. sessionMap[seqIndex[d]] = d
      BY <3>1 DEF OpenIsMapped
    <3>3. seqIndex[d] # seqIndex[Session(t)]
      BY <1>1, <3>1 DEF UniqueIds
    <3>4. seqIndex[d] \in SessionId
      BY <3>1 DEF Serving, ReaderLocal, AcceptLocal
    <3> QED
      BY <1>1, <2>2, <3>2, <3>3, <3>4 DEF TypeOK
  <2> QED
    BY <1>0, <2>2, <2>3, <2>4, <2>5
<1> QED
  BY <1>2, <1>3, <1>4 DEF CloseProcess

LEMMA RInvStep == RInv /\ [Next]_vars => RInv'
<1> SUFFICES ASSUME RInv, [Next]_vars PROVE RInv'
  OBVIOUS
<1>1. CASE UNCHANGED vars
  <2>1. TInv'
    BY <1>1, TInvStep DEF RInv
  <2> QED
    BY <1>1, <2>1 DEF vars, redisVars, acceptVars, connVars, sendVars, RInv,
       ClosedFirst, Session, UniqueIds, OpenIsMapped, Serving
<1>2. CASE RedisFlush
  <2>1. TInv'
    BY <1>2, TInvFlush DEF RInv
  <2>2. flushes' # 0
    BY <1>2 DEF RedisFlush, RInv, TInv, TypeOK
  <2> QED
    BY <1>2, <2>1, <2>2 DEF RedisFlush, sendVars, RInv, ClosedFirst, Session
<1> QED
  BY <1>1, <1>2, RInvAccept, RInvRead, RInvDispatch, RInvClose DEF Next

(* While Redis keeps its counter, an open session that is being read can   *)
(* always be found by sendPacket, however many sessions are being closed   *)
(* around it and by whom.                                                  *)
THEOREM ServedReachable == Spec => []ServedIsReachable
<1>1. Init => RInv
  <2>1. Init => ClosedFirst /\ UniqueIds /\ OpenIsMapped
    BY ThreadFacts, NoIndexNotIndex DEF Init, ClosedFirst, UniqueIds, OpenIsMapped,
       Serving, NoId, Thread
  <2> QED
    BY <2>1, TInvInit DEF RInv
<1>2. RInv => ServedIsReachable
  BY DEF RInv, ServedIsReachable, OpenIsMapped, Serving
<1> QED
  BY <1>1, <1>2, RInvStep, PTL DEF Spec

=============================================================================
