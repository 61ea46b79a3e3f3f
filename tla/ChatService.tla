---------------------------- MODULE ChatService ----------------------------
(***************************************************************************)
(* What the servers do for a request: the handlers of controller/ with the *)
(* statements they run in MySQL (service/accountDB.go) and the commands    *)
(* they run in Redis (service/memoryDB.go).  Several servers share both    *)
(* databases; each has one goroutine that processes packets.  A step is    *)
(* one statement or command, so that those of other servers, and of the    *)
(* readers that remove the record of a client that is gone, fall between   *)
(* any two of them.                                                        *)
(*                                                                         *)
(* A client is what this repository's client is: it logs in, creates a     *)
(* room and is in it, posts to the room it is in, and leaves it.  It is in *)
(* no room that it did not create, because the servers have no handler for *)
(* a request to enter one.  How packets are carried is left to Packets,    *)
(* Framing and ServerSessions.                                             *)
(***************************************************************************)
EXTENDS Integers, Sequences, SequencesExt

CONSTANTS
    Servers,
    Sessions,    \* the unique ids of the sessions; none is used twice
    Home,        \* the server of a session
    Users,       \* the ids in the table USERS
    Strangers,   \* ids that are not
    NoUser,      \* an empty id
    NoSession,
    Failing,     \* bound: the servers of which statements and commands fail
    Quitters,    \* bound: the clients that hang up
    Viewers,     \* bound: the clients that ask for the list of rooms
    MaxRooms,    \* bound: the rooms that each client creates
    MaxPosts     \* bound: the lines that each client posts

ASSUME ChatServiceAssumption ==
    /\ Home \in [Sessions -> Servers]
    /\ NoSession \notin Sessions
    /\ NoUser \notin Users \cup Strangers
    /\ Users \cap Strangers = {}
    /\ Failing \subseteq Servers /\ Quitters \cup Viewers \subseteq Sessions
    /\ MaxRooms \in [Sessions -> Nat]
    /\ MaxPosts \in [Sessions -> Nat]

VARIABLES
    conn,      \* open, or closed by closeProcess
    client,    \* where the client is
    room,      \* the client's _chatRoomID
    created,   \* how many rooms the client has asked for
    posted,    \* how many lines the client has posted
    requests,  \* PacketChan of each server
    job,       \* what the goroutine of each server is doing
    record,    \* the records user_<id> of Redis
    chatRooms, \* the table CHAT_ROOM: the creators
    messages,  \* the table MESSAGE_TRANSACTION; MESSAGE_ID is the position
    inbox,     \* packets written to a client that it has not processed
    shown,     \* history: the broadcasts that a client processed
    failed     \* history: the servers of which a handler's statement failed

serverVars == <<requests, job>>
dbVars == <<record, chatRooms, messages>>
clientVars == <<client, room, created, posted, shown>>
vars == <<conn, clientVars, serverVars, dbVars, inbox, failed>>

-----------------------------------------------------------------------------
User == Users \cup Strangers \cup {NoUser}

(* A RedisUser; its UniqueID is 0, here NoSession, when InsertCIDToUser    *)
(* finds no record to change.                                              *)
Record(s, u, r) == [session |-> s, user |-> u, room |-> r]
NoRecord == Record(NoSession, NoUser, 0)
None == [session |-> NoSession, user |-> NoUser, room |-> -2]

Line(s, k) == [by |-> s, k |-> k]
NoLine == Line(NoSession, 0)

(* A request as it is put into PacketChan.                                 *)
Asked(kind, s, u, r, line) ==
    [kind |-> kind, s |-> s, user |-> u, room |-> r, line |-> line]

(* What the goroutine has in its local variables.                          *)
Idle == [pc |-> "idle", s |-> NoSession, user |-> NoUser, room |-> 0,
         line |-> NoLine, number |-> 0, ok |-> TRUE, rec |-> None, to |-> {}]

Up(v) == job[v].pc # "crashed"

Init ==
    /\ conn = [s \in Sessions |-> "open"]
    /\ client = [s \in Sessions |-> "start"]
    /\ room = [s \in Sessions |-> 0]
    /\ created = [s \in Sessions |-> 0]
    /\ posted = [s \in Sessions |-> 0]
    /\ requests = [v \in Servers |-> <<>>]
    /\ job = [v \in Servers |-> Idle]
    /\ record = [s \in Sessions |-> None]
    /\ chatRooms = <<>>
    /\ messages = <<>>
    /\ inbox = [s \in Sessions |-> <<>>]
    /\ shown = [s \in Sessions |-> <<>>]
    /\ failed = {}

-----------------------------------------------------------------------------
(* A client.                                                               *)
Send(s, kind, u, line) ==
    /\ conn[s] = "open"
    /\ requests' = [requests EXCEPT ![Home[s]] =
                       Append(@, Asked(kind, s, u, room[s], line))]
    /\ UNCHANGED <<conn, room, job, dbVars, inbox, shown, failed>>

Login(s) ==
    /\ client[s] = "start"
    /\ client' = [client EXCEPT ![s] = "wait"]
    /\ \E u \in Users \cup Strangers : Send(s, "login", u, NoLine)
    /\ UNCHANGED <<created, posted>>

Create(s) ==
    /\ client[s] = "menu"
    /\ created[s] < MaxRooms[s]
    /\ created' = [created EXCEPT ![s] = @ + 1]
    /\ client' = [client EXCEPT ![s] = "wait"]
    /\ Send(s, "create", NoUser, NoLine)
    /\ UNCHANGED posted

View(s) ==
    /\ s \in Viewers /\ client[s] = "menu"
    /\ client' = [client EXCEPT ![s] = "wait"]
    /\ Send(s, "view", NoUser, NoLine)
    /\ UNCHANGED <<created, posted>>

Post(s) ==
    /\ client[s] = "room"
    /\ posted[s] < MaxPosts[s]
    /\ posted' = [posted EXCEPT ![s] = @ + 1]
    /\ Send(s, "post", NoUser, Line(s, posted[s] + 1))
    /\ UNCHANGED <<client, created>>

(* Bound: a client stays in the last of its rooms.                         *)
Leave(s) ==
    /\ client[s] = "room"
    /\ created[s] < MaxRooms[s]
    /\ client' = [client EXCEPT ![s] = "menu"]
    /\ UNCHANGED <<conn, room, created, posted, serverVars, dbVars, inbox, shown,
                   failed>>

(* PacketProcess: what the handlers make of an answer.  After a refused    *)
(* login, a failed creation and a list of rooms the client waits for ever. *)
Process(s) ==
    /\ inbox[s] # <<>>
    /\ inbox' = [inbox EXCEPT ![s] = Tail(@)]
    /\ LET p == Head(inbox[s]) IN
          CASE p.kind = "login" ->
                 /\ client' = [client EXCEPT ![s] = IF p.ok THEN "menu" ELSE @]
                 /\ UNCHANGED <<room, shown>>
            [] p.kind = "create" ->
                 /\ client' = [client EXCEPT ![s] = IF p.ok THEN "room" ELSE @]
                 /\ room' = [room EXCEPT ![s] = p.room]
                 /\ UNCHANGED shown
            [] p.kind = "broadcast" ->
                 /\ shown' = [shown EXCEPT ![s] = Append(@, [p EXCEPT !.at = room[s]])]
                 /\ UNCHANGED <<client, room>>
            [] OTHER -> UNCHANGED <<client, room, shown>>
    /\ UNCHANGED <<conn, created, posted, serverVars, dbVars, failed>>

-----------------------------------------------------------------------------
(* closeProcess for a client that has gone, by its reader or by a Write    *)
(* that fails; when both run it the record is removed a second time.  When *)
(* the DEL fails the record stays; no handler is told.                     *)
OnClose(s) ==
    /\ s \in Quitters /\ Up(Home[s])
    /\ conn' = [conn EXCEPT ![s] = "closed"]
    /\ \/ record' = [record EXCEPT ![s] = None]
       \/ Home[s] \in Failing /\ UNCHANGED record
    /\ inbox' = [inbox EXCEPT ![s] = <<>>]
    /\ UNCHANGED <<clientVars, serverVars, chatRooms, messages, failed>>

(* SendToClient: nothing is written to a session that is not in the map of *)
(* this server, or whose connection is closed.                             *)
Written(v, s, p) ==
    IF s \in Sessions /\ Home[s] = v /\ conn[s] = "open"
    THEN inbox' = [inbox EXCEPT ![s] = Append(@, p)]
    ELSE UNCHANGED inbox

(* A packet for a client; at is the room that the client is in when it     *)
(* processes it.                                                           *)
Packet(kind, ok, r, line, n) ==
    [kind |-> kind, ok |-> ok, room |-> r, line |-> line, number |-> n, at |-> 0]

Answer(kind, ok, r) == Packet(kind, ok, r, NoLine, 0)

-----------------------------------------------------------------------------
(* The goroutine of server v.                                              *)
At(v, pc) == job[v].pc = pc

Goto(v, j, pc) == job' = [job EXCEPT ![v] = [j EXCEPT !.pc = pc]]

(* A statement or a command of a handler fails.                            *)
Failure(v) == v \in Failing /\ failed' = failed \cup {v}
Success == UNCHANGED failed

\* Mutant of TakeRequest: the request that came last.
TakeRequest_Last(v) ==
    /\ At(v, "idle")
    /\ requests[v] # <<>>
    /\ requests' = [requests EXCEPT ![v] = Front(@)]
    /\ LET q == Last(requests[v])
       IN  job' = [job EXCEPT ![v] = [Idle EXCEPT !.pc = q.kind, !.s = q.s,
                      !.user = q.user, !.room = q.room, !.line = q.line]]
    /\ UNCHANGED <<conn, clientVars, dbVars, inbox, failed>>

TakeRequest(v) ==
    /\ At(v, "idle")
    /\ requests[v] # <<>>
    /\ requests' = [requests EXCEPT ![v] = Tail(@)]
    /\ LET q == Head(requests[v])
       IN  job' = [job EXCEPT ![v] = [Idle EXCEPT !.pc = q.kind, !.s = q.s,
                      !.user = q.user, !.room = q.room, !.line = q.line]]
    /\ UNCHANGED <<conn, clientVars, dbVars, inbox, failed>>

(* LoadAccount: a row that cannot be read is an empty account, only a      *)
(* statement that cannot be prepared and a missing row end the login.      *)
LoadAccount(v) ==
    /\ At(v, "login")
    /\ \/ job[v].user \in Users /\ Success /\ Goto(v, job[v], "store_user")
       \/ Failure(v) /\ Goto(v, [job[v] EXCEPT !.ok = FALSE], "store_user")
       \/ job[v].user \notin Users /\ Success
             /\ Goto(v, [job[v] EXCEPT !.ok = FALSE], "answer_login")
       \/ Failure(v) /\ Goto(v, [job[v] EXCEPT !.ok = FALSE], "answer_login")
    /\ UNCHANGED <<conn, clientVars, requests, dbVars, inbox>>

(* StoreUserInfo: the record is written before the password is compared,   *)
(* and without the room of an earlier one.                                 *)
StoreUserInfo(v) ==
    /\ At(v, "store_user")
    /\ LET j == job[v] IN
          \/ /\ record' = [record EXCEPT ![j.s] = Record(j.s, j.user, 0)]
             /\ Success /\ Goto(v, j, "compare")
          \/ /\ Failure(v) /\ Goto(v, j, "remove_user")
             /\ UNCHANGED record
    /\ UNCHANGED <<conn, clientVars, requests, chatRooms, messages, inbox>>

(* The rollback of LoginAccount, which goes on afterwards.                 *)
RemoveUserInfo(v) ==
    /\ At(v, "remove_user")
    /\ Goto(v, job[v], "compare")
    /\ record' = [record EXCEPT ![job[v].s] = None]
    /\ UNCHANGED <<conn, clientVars, requests, chatRooms, messages, inbox, failed>>

(* CompareHashAndPassword, unless there was no account, and the answer.    *)
sendLoginResult(v) ==
    /\ \E right \in BOOLEAN :
          /\ At(v, "compare") \/ (At(v, "answer_login") /\ ~right)
          /\ Written(v, job[v].s, Answer("login", job[v].ok /\ right, 0))
    /\ Goto(v, Idle, "idle")
    /\ UNCHANGED <<conn, clientVars, requests, dbVars, failed>>

-----------------------------------------------------------------------------
(* LoadUserInfo: the user of the session's record, none if there is none   *)
(* or it cannot be read.                                                   *)
LoadUserInfo(v, from, to) ==
    /\ At(v, from)
    /\ \/ /\ Success
          /\ Goto(v, [job[v] EXCEPT !.user = record[job[v].s].user], to)
       \/ Failure(v) /\ Goto(v, [job[v] EXCEPT !.user = NoUser], to)
    /\ UNCHANGED <<conn, clientVars, requests, dbVars, inbox>>

LoadCreator(v) == LoadUserInfo(v, "create", "insert_room")

\* Mutant of MayCreate: the table takes any creator.
MayCreate_Anybody(u) == TRUE

(* The new row's creator must be in USERS.                                 *)
MayCreate(u) == u \in Users

CreateNewChatRoom(v) ==
    /\ At(v, "insert_room")
    /\ LET j == job[v]
           refused == Goto(v, [j EXCEPT !.room = -1, !.ok = FALSE], "answer_create")
       IN  \/ /\ MayCreate(j.user)
              /\ chatRooms' = Append(chatRooms, j.user)
              /\ Success
              /\ Goto(v, [j EXCEPT !.room = Len(chatRooms) + 1], "answer_create")
           \/ ~MayCreate(j.user) /\ Success /\ refused /\ UNCHANGED chatRooms
           \/ Failure(v) /\ refused /\ UNCHANGED chatRooms
    /\ UNCHANGED <<conn, clientVars, requests, record, messages, inbox>>

sendCreateNewChatResult(v) ==
    /\ At(v, "answer_create")
    /\ Written(v, job[v].s, Answer("create", job[v].ok, job[v].room))
    /\ Goto(v, job[v], "get_record")
    /\ UNCHANGED <<conn, clientVars, requests, dbVars, failed>>

(* InsertCIDToUser reads the record, changes its room and writes it, also  *)
(* if there is none or it could not be read.                               *)
GetRecord(v) ==
    /\ At(v, "get_record")
    /\ LET s == job[v].s
           found == IF record[s] = None THEN NoRecord ELSE record[s]
       IN  \/ Success /\ Goto(v, [job[v] EXCEPT !.rec = found], "set_record")
           \/ Failure(v) /\ Goto(v, [job[v] EXCEPT !.rec = NoRecord], "set_record")
    /\ UNCHANGED <<conn, clientVars, requests, dbVars, inbox>>

\* Mutant of SetRecord: the record is written back without its new room.
SetRecord_SameRoom(v) ==
    /\ At(v, "set_record")
    /\ Success
    /\ record' = [record EXCEPT ![job[v].s] = job[v].rec]
    /\ Goto(v, job[v], "attend")
    /\ UNCHANGED <<conn, clientVars, requests, chatRooms, messages, inbox>>

SetRecord(v) ==
    /\ At(v, "set_record")
    /\ LET j == job[v] IN
          \/ /\ Success
             /\ record' = [record EXCEPT ![j.s] = [j.rec EXCEPT !.room = j.room]]
          \/ Failure(v) /\ UNCHANGED record
    /\ Goto(v, job[v], "attend")
    /\ UNCHANGED <<conn, clientVars, requests, chatRooms, messages, inbox>>

(* A nil pointer is used: the process ends, its connections are closed and *)
(* nobody removes their records.                                           *)
Panic(v) ==
    /\ Failure(v)
    /\ Goto(v, Idle, "crashed")
    /\ conn' = [s \in Sessions |-> IF Home[s] = v THEN "closed" ELSE conn[s]]
    /\ inbox' = [s \in Sessions |-> IF Home[s] = v THEN <<>> ELSE inbox[s]]
    /\ requests' = [requests EXCEPT ![v] = <<>>]

(* The attendance, whose table only the list of rooms reads: what Exec     *)
(* returns is ignored, a statement that was not prepared is executed.      *)
InsertAttendanceInformation(v) ==
    /\ At(v, "attend")
    /\ \/ /\ Success \/ Failure(v)
          /\ Goto(v, Idle, "idle")
          /\ UNCHANGED <<conn, inbox, requests>>
       \/ Panic(v)
    /\ UNCHANGED <<clientVars, dbVars>>

-----------------------------------------------------------------------------
(* StoreMessageToDB: whatever fails, the message goes on to the members of *)
(* the room, with number -1.                                               *)
NotStored(j) == [j EXCEPT !.number = -1, !.ok = FALSE]

LoadPoster(v) == LoadUserInfo(v, "post", "insert_message")

(* The INSERT: the user and the room must exist.                           *)
StoreMessage(v) ==
    /\ At(v, "insert_message")
    /\ LET j == job[v]
           valid == j.user \in Users /\ j.room \in DOMAIN chatRooms
       IN  \/ /\ valid /\ Success
              /\ messages' = Append(messages,
                                    [room |-> j.room, user |-> j.user, line |-> j.line])
              /\ Goto(v, j, "select_number")
           \/ /\ ~valid /\ Success
              /\ Goto(v, NotStored(j), "retrieve") /\ UNCHANGED messages
           \/ /\ Failure(v)
              /\ Goto(v, NotStored(j), "retrieve") /\ UNCHANGED messages
    /\ UNCHANGED <<conn, clientVars, requests, record, chatRooms, inbox>>

\* Mutant of LastNumber: the greatest number of all rooms.
LastNumber_AnyRoom(r) == Len(messages)

\* Mutant of LastNumber: the least number of the room.
LastNumber_First(r) ==
    LET numbers == {n \in DOMAIN messages : messages[n].room = r}
    IN  CHOOSE n \in numbers : \A m \in numbers : n <= m

(* SELECT MAX(MESSAGE_ID) ... WHERE CHAT_ROOM_ID = r; the name of the user *)
(* is selected after it, from a table that nobody changes.                 *)
LastNumber(r) ==
    LET numbers == {n \in DOMAIN messages : messages[n].room = r}
    IN  CHOOSE n \in numbers : \A m \in numbers : m <= n

SelectNumber(v) ==
    /\ At(v, "select_number")
    /\ \/ /\ Success
          /\ Goto(v, [job[v] EXCEPT !.number = LastNumber(job[v].room)],
                  "retrieve")
       \/ Failure(v) /\ Goto(v, NotStored(job[v]), "retrieve")
    /\ UNCHANGED <<conn, clientVars, requests, dbVars, inbox>>

\* Mutant of Members: everybody who has a record.
Members_Everybody(r) == {record[s].session : s \in {t \in Sessions : record[t] # None}}

(* The script runs at once: the unique ids in the records with this room.  *)
Members(r) == {record[s].session : s \in {t \in Sessions : record[t].room = r}}

RetrieveUsersFromCID(v) ==
    /\ At(v, "retrieve")
    /\ \/ /\ Success
          /\ Goto(v, [job[v] EXCEPT !.to = Members(job[v].room)], "broadcast")
       \/ Failure(v) /\ Goto(v, job[v], "broadcast")
    /\ UNCHANGED <<conn, clientVars, requests, dbVars, inbox>>

(* One member after the other, in whatever order KEYS returned them.  The  *)
(* sender is told the result before; its client does nothing with it.      *)
BroadcastMessageToLiveUsers(v) ==
    /\ At(v, "broadcast")
    /\ LET j == job[v] IN
          \/ \E s \in j.to :
                /\ Written(v, s, Packet("broadcast", TRUE, j.room, j.line, j.number))
                /\ job' = [job EXCEPT ![v].to = @ \ {s}]
          \/ /\ j.to = {}
             /\ Goto(v, Idle, "idle")
             /\ UNCHANGED inbox
    /\ UNCHANGED <<conn, clientVars, requests, dbVars, failed>>

-----------------------------------------------------------------------------
(* The list of rooms: when the statement fails there are no rows to go     *)
(* through.                                                                *)
ViewAvailableChatRoom(v) ==
    /\ At(v, "view")
    /\ \/ /\ Success
          /\ Written(v, job[v].s, Answer("view", TRUE, 0))
          /\ Goto(v, Idle, "idle")
          /\ UNCHANGED <<conn, requests>>
       \/ Panic(v)
    /\ UNCHANGED <<clientVars, dbVars>>

Serve(v) ==
    \/ TakeRequest(v)
    \/ LoadAccount(v) \/ StoreUserInfo(v) \/ RemoveUserInfo(v)
    \/ sendLoginResult(v)
    \/ LoadCreator(v) \/ CreateNewChatRoom(v) \/ sendCreateNewChatResult(v)
    \/ GetRecord(v) \/ SetRecord(v) \/ InsertAttendanceInformation(v)
    \/ LoadPoster(v) \/ StoreMessage(v) \/ SelectNumber(v)
    \/ RetrieveUsersFromCID(v) \/ BroadcastMessageToLiveUsers(v)
    \/ ViewAvailableChatRoom(v)

Next ==
    \/ \E s \in Sessions :
          \/ Login(s) \/ Create(s) \/ View(s) \/ Post(s) \/ Leave(s)
          \/ Process(s) \/ OnClose(s)
    \/ \E v \in Servers : Serve(v)

Spec == Init /\ [][Next]_vars

-----------------------------------------------------------------------------
(* Properties.                                                             *)

(* The state keeps its types.                                              *)
TypeOK ==
    /\ conn \in [Sessions -> {"open", "closed"}]
    /\ client \in [Sessions -> {"start", "wait", "menu", "room"}]
    /\ room \in [Sessions -> -1 .. Len(chatRooms)]
    /\ \A s \in Sessions : created[s] \in 0 .. MaxRooms[s]
    /\ \A s \in Sessions : posted[s] \in 0 .. MaxPosts[s]
    /\ \A v \in Servers :
          /\ job[v].s \in Sessions \cup {NoSession}
          /\ job[v].user \in User
          /\ job[v].room \in -1 .. Len(chatRooms)
          /\ job[v].number \in -1 .. Len(messages)
          /\ job[v].to \subseteq Sessions \cup {NoSession}
    /\ \A s \in Sessions :
          record[s] = None
          \/ record[s] \in [session : {s, NoSession}, user : User,
                            room : -1 .. Len(chatRooms)]
    /\ chatRooms \in Seq(Users)
    /\ \A n \in DOMAIN messages : messages[n].room \in DOMAIN chatRooms
    /\ failed \subseteq Failing

(* What reached a client, and the positions of the broadcasts in it.       *)
Arrived(s) == shown[s] \o inbox[s]
Broadcasts(s) == {i \in DOMAIN Arrived(s) : Arrived(s)[i].kind = "broadcast"}

(* The number that a message is broadcast with is its own, although it is  *)
(* asked for after the INSERT and servers insert side by side.             *)
OwnNumber ==
    \A s \in Sessions : \A i \in Broadcasts(s) :
        LET b == Arrived(s)[i]
        IN  b.number # -1 =>
              /\ b.number \in DOMAIN messages
              /\ messages[b.number].line = b.line
              /\ messages[b.number].room = b.room

(* The broadcasts of a room reach a client in the order of their numbers,  *)
(* none twice, and in the order in which the lines were posted.            *)
InOrder ==
    \A s \in Sessions : \A i, k \in Broadcasts(s) :
        LET b == Arrived(s)[i]
            c == Arrived(s)[k]
        IN  i < k =>
              /\ b.line.by = c.line.by => b.line.k < c.line.k
              /\ b.number # -1 /\ c.number # -1 => b.number < c.number

(* A line is written to nobody who was not in its room, whatever records   *)
(* are left over, half changed or written back late: of the clients there  *)
(* are, to the one that created the room and posts to it.                  *)
OnlyMembersHear ==
    \A s \in Sessions : \A i \in Broadcasts(s) : Arrived(s)[i].line.by = s

(* The record of a client that is in a room is in that room, or will be    *)
(* before the goroutine looks at the client's next request.                *)
RecordFollowsClient ==
    \A s \in Sessions :
        conn[s] = "open" /\ client[s] = "room" /\ Home[s] \notin failed =>
            \/ record[s] = Record(s, record[s].user, room[s])
            \/ /\ job[Home[s]].s = s
               /\ job[Home[s]].pc \in {"get_record", "set_record"}
               /\ job[Home[s]].room = room[s]

(* The input area of a room is blocked until the client's own line comes   *)
(* back: when its server has nothing left to do for the client, and nothing *)
(* is on its way, it has come back, unless a statement of its own server   *)
(* failed.  What happens to the other servers does not matter.             *)
Served(s) ==
    /\ job[Home[s]].s # s
    /\ \A i \in DOMAIN requests[Home[s]] : requests[Home[s]][i].s # s
    /\ inbox[s] = <<>>

OwnLineReturns ==
    \A s \in Sessions :
        conn[s] = "open" /\ Home[s] \notin failed /\ Served(s) =>
            \A k \in 1 .. posted[s] :
                \E i \in DOMAIN shown[s] : shown[s][i].line = Line(s, k)

(* A client stores what it receives under the room it is in when it        *)
(* processes it (game.go:431); that is the room that the line was sent to, *)
(* although the client may have left it and asked for another meanwhile.   *)
StoredUnderItsRoom ==
    \A s \in Sessions : \A i \in DOMAIN shown[s] :
        shown[s][i].at = shown[s][i].room
=============================================================================
