------------------------------ MODULE Packets ------------------------------
(***************************************************************************)
(* The packets of one connection, from the arguments of the sender's       *)
(* function to the fields the receiver's handler finds: both copies of     *)
(* protocol/packet.go, the reader and writer they use, the functions of    *)
(* send_request, the server's handlers with their answers, and the         *)
(* client's PacketProcess.                                                 *)
(*                                                                         *)
(* A byte slice is a piece of text cut to a length, an integer a number; a *)
(* packet is a buffer with the set of what was written at which position.  *)
(* What is read at another position or with another width than it was      *)
(* written is Garbage.  What the services of the server answer is any of   *)
(* the results they can return; ChatService has the services themselves.   *)
(***************************************************************************)
EXTENDS Integers, Sequences, Selection

CONSTANTS
    Texts,       \* texts, whatever their length
    Names,       \* what a user types as an id, a password, a name or a title
    Lines,       \* what a user types in a room
    RoomIDs,     \* the values of the client's _chatRoomID
    WordSize,    \* the number of values of an int16
    Rooms,       \* bound: how many rooms the database has at the start
    MaxRequests  \* bound: how many requests the client sends

Text == Texts \cup {"", "number", "garbage", "now", "date"}
Value == [text : Text, n : Int]

ASSUME PacketsAssumption ==
    /\ Names \subseteq Value /\ Lines \subseteq Value
    /\ \A v \in Names \cup Lines : v.n \in Nat
    /\ RoomIDs \subseteq Int
    /\ WordSize \in Nat \ {0}
    /\ Rooms \subseteq Nat
    /\ MaxRequests \in Nat

VARIABLES
    toServer,  \* the packets on their way, oldest first
    toClient,
    rooms,     \* how many rows SelectChatRoomInfo finds
    up,        \* the server's process runs
    asked,     \* history: what the client's functions were called with
    heard,     \* history: what the server's handlers decoded
    answered,  \* history: what the server's handlers answered
    told       \* history: what the client's handlers decoded

vars == <<toServer, toClient, rooms, up, asked, heard, answered, told>>

-----------------------------------------------------------------------------
(* Values, and the slices they are copied into.                            *)
Number(v) == [text |-> "number", n |-> v]
Garbage == [text |-> "garbage", n |-> 0]
Nothing == [text |-> "", n |-> 0]
Lesser(a, b) == IF a < b THEN a ELSE b

\* Mutant of Cut: the slice is as long as what is copied.
Cut_Whole(w, v) == v

(* copy(make([]byte, w), v); the zeros behind it are trimmed later.        *)
Cut(w, v) == [v EXCEPT !.n = Lesser(w, @)]

(* int16(v)                                                                *)
Int16(v) == ((v + WordSize \div 2) % WordSize) - (WordSize \div 2)

-----------------------------------------------------------------------------
(* RawPacketData of network/packetEnDecoder.go.                            *)

(* Where each of some slots that lie one after the other ends.             *)
Ends(widths) ==
    LET end[k \in 0 .. Len(widths)] ==
            IF k = 0 THEN 0 ELSE end[k - 1] + widths[k]
    IN  end

(* MakeWrite, and the writes one after the other.  WriteS8, WriteS16 and   *)
(* WriteS32 write all of their bytes or panic; WriteBytes writes those     *)
(* that fit, and panics when its position is already behind the end.       *)
Write(size, writes) ==
    LET end == Ends([k \in DOMAIN writes |-> writes[k].w])
        panics(k) == end[IF writes[k].kind = "integer" THEN k ELSE k - 1] > size
    IN  [len |-> size,
         pos |-> end[Len(writes)],
         data |-> {[at |-> end[k - 1],
                    w |-> Lesser(writes[k].w, size - end[k - 1]),
                    v |-> writes[k].v] : k \in DOMAIN writes},
         panic |-> size < 0 \/ \E k \in DOMAIN writes : panics(k)]

(* The n bytes of p from position i on, as a buffer of their own.          *)
Slice(p, i, n) ==
    LET inside == {s \in p.data : s.at >= i /\ s.at + s.w <= i + n}
    IN  [len |-> n, data |-> {[s EXCEPT !.at = @ - i] : s \in inside}]

(* ReadS8, ReadS16, ReadS32, ReadBytes                                     *)
ReadAt(p, i, w) ==
    IF \E s \in p.data : s.at = i /\ s.w = w
    THEN (CHOOSE s \in p.data : s.at = i /\ s.w = w).v
    ELSE Garbage

-----------------------------------------------------------------------------
(* The widths of the fields.                                               *)
Integers16 == {"ErrorCode", "ChatRoomID", "Len", "NumAttendance"}
IntegerField == Integers16 \cup {"MessageSequence"}

ServerWidth == [
    UserID |-> 16, UserPW |-> 16, UserName |-> 16, Message |-> 512,
    ChatRoomName |-> 20, ChatRoomPW |-> 20, TimeChat |-> 24,
    MessageSequence |-> 4,
    ErrorCode |-> 2, ChatRoomID |-> 2, Len |-> 2, NumAttendance |-> 2]

ClientWidth == [
    UserID |-> 16, UserPW |-> 16, UserName |-> 16, Message |-> 512,
    ChatRoomName |-> 20, ChatRoomPW |-> 20, TimeChat |-> 24,
    MessageSequence |-> 4,
    ErrorCode |-> 2, ChatRoomID |-> 2, Len |-> 2, NumAttendance |-> 2]

(* Sizeof a Header of two int16 and an int8.                               *)
HeaderSize == 2 + 2 + 1

Widths(width, fields) == [k \in DOMAIN fields |-> width[fields[k]]]
Total(width, fields) == Ends(Widths(width, fields))[Len(fields)]

PutInteger(w, n) == [kind |-> "integer", w |-> w, v |-> Number(n)]

\* Mutant of Header: the packet's type is left out.
Header_NoType(size, id) == <<PutInteger(2, size), PutInteger(2, id)>>

(* EncodingPacketHeader                                                    *)
Header(size, id) ==
    <<PutInteger(2, size), PutInteger(2, id), PutInteger(1, 0)>>

PutFields(width, fields, values) ==
    [k \in DOMAIN fields |->
        [kind |-> IF fields[k] \in IntegerField THEN "integer" ELSE "bytes",
         w |-> width[fields[k]],
         v |-> values[fields[k]]]]

(* A packet's two methods.  The encoder allocates the header and the       *)
(* fields of "alloc" and writes those of "put"; the decoder wants as many  *)
(* bytes as the fields of "check" have and reads those of "get".           *)
Layout(id, fields) ==
    [id |-> id, alloc |-> fields, put |-> fields,
     check |-> fields, get |-> fields]

Encode(width, layout, values) ==
    LET size == Int16(HeaderSize + Total(width, layout.alloc))
    IN  Write(size, Header(size, layout.id) \o PutFields(width, layout.put, values))

(* A decoder reads field after field, and stops at the first that is not   *)
(* within the buffer.                                                      *)
GetFields(width, p, fields) ==
    LET end == Ends(Widths(width, fields))
        read == {k \in DOMAIN fields : end[k] <= p.len}
        position(f) == CHOOSE k \in read : fields[k] = f
    IN  [ok |-> read = DOMAIN fields,
         values |-> [f \in {fields[k] : k \in read} |->
                        ReadAt(p, end[position(f) - 1], width[f])]]

Decode(width, layout, body) ==
    IF body.len = Total(width, layout.check)
    THEN GetFields(width, body, layout.get)
    ELSE [ok |-> FALSE, values |-> << >>]

(* What the receiver looks at before it knows the packet.                  *)
PacketTotalSize(p) == ReadAt(p, 0, 2).n
PeekPacketID(p) == ReadAt(p, 2, 2).n

(* The body is copied into a slice of the size that the header announces.  *)
PeekPacketBody(p) == Slice(p, HeaderSize, PacketTotalSize(p) - HeaderSize)

-----------------------------------------------------------------------------
(* server/protocol/packet.go                                               *)
ServerLoginReq == Layout(701, <<"UserID", "UserPW">>)
ServerLoginRes == Layout(702, <<"ErrorCode">>)
\* The encoder, which the server never calls, has the id of a login.
ServerJoinReq == Layout(703, <<"UserID", "UserPW", "UserName">>)

\* Mutant of ServerJoinRes: the answer to a join has the id of a login's.
ServerJoinRes_LoginRes == Layout(702, <<"ErrorCode">>)

ServerJoinRes == Layout(704, <<"ErrorCode">>)
ServerCreateReq == Layout(801, <<"ChatRoomName", "ChatRoomPW">>)
ServerCreateRes == Layout(802, <<"ErrorCode", "ChatRoomID">>)
ServerTransferReq == Layout(811, <<"ChatRoomID", "TimeChat", "Message">>)
ServerTransferRes == Layout(812, <<"ErrorCode">>)

\* Mutant of ServerBroadcast: the fields in the order of RenewChatLogRes of
\* another version, the name before the time.
ServerBroadcast_NameFirst ==
    Layout(813, <<"MessageSequence", "Message", "UserName", "TimeChat">>)

ServerBroadcast ==
    Layout(813, <<"MessageSequence", "Message", "TimeChat", "UserName">>)
ServerViewReq == Layout(803, <<"UserID">>)

(* One row of the list of rooms.                                           *)
ServerChatRoom ==
    <<"ChatRoomID", "TimeChat", "UserName", "ChatRoomName", "NumAttendance">>

\* Mutant of ListSize: the two bytes of Len are not counted.
ListSize_NoLen(width, n) ==
    Int16(HeaderSize + width.ErrorCode + n * Total(width, ServerChatRoom))

(* The size of a list of n rooms is computed in int16.                     *)
ListSize(width, n) ==
    Int16(HeaderSize + width.ErrorCode + width.Len
            + n * Total(width, ServerChatRoom))

(* The writes of the rows.  The code encodes a row into a slice of its own *)
(* and writes that; when the size is too small for the rows it is so by    *)
(* WordSize or more, and the row behind the end panics either way.         *)
PutRows(width, list) ==
    LET n == Len(ServerChatRoom)
    IN  [k \in 1 .. n * Len(list) |->
            PutFields(width, ServerChatRoom,
                      list[((k - 1) \div n) + 1])[((k - 1) % n) + 1]]

ServerViewRes(code, list) ==
    LET n == Int16(Len(list))
        size == ListSize(ServerWidth, n)
        first == PutFields(ServerWidth, <<"ErrorCode", "Len">>,
                           [ErrorCode |-> Number(code), Len |-> Number(n)])
    IN  Write(size, Header(size, 804)
                      \o (first \o PutRows(ServerWidth, SubSeq(list, 1, n))))

-----------------------------------------------------------------------------
(* client/protocol/packet.go                                               *)
ClientLoginReq == Layout(701, <<"UserID", "UserPW">>)
ClientLoginRes == Layout(702, <<"ErrorCode">>)
ClientJoinReq == Layout(703, <<"UserID", "UserPW", "UserName">>)

\* Mutant of ClientCreateReq: the password is written before the title.
ClientCreateReq_PWFirst == Layout(801, <<"ChatRoomPW", "ChatRoomName">>)

ClientCreateReq == Layout(801, <<"ChatRoomName", "ChatRoomPW">>)
ClientCreateRes == Layout(802, <<"ErrorCode", "ChatRoomID">>)
ClientTransferReq == Layout(811, <<"ChatRoomID", "TimeChat", "Message">>)
ClientTransferRes == Layout(812, <<"ErrorCode">>)
\* The encoder, which the client never calls, allocates too little.
ClientBroadcast ==
    [Layout(813, <<"MessageSequence", "Message", "TimeChat", "UserName">>)
     EXCEPT !.alloc = <<"Message">>]
ClientViewReq == Layout(803, <<"UserID">>)
\* The server has neither this packet nor the answer to it.
ClientConnReq == Layout(807, <<"UserID", "ChatRoomID">>)

ClientChatRoom ==
    <<"ChatRoomID", "TimeChat", "UserName", "ChatRoomName", "NumAttendance">>

(* The list of rooms: its Len says how many rows are read.                 *)
ClientViewRes(body) ==
    LET head == GetFields(ClientWidth, body, <<"ErrorCode", "Len">>)
        row == Total(ClientWidth, ClientChatRoom)
        first == Total(ClientWidth, <<"ErrorCode", "Len">>)
        rowAt(i) == Slice(body, first + (i - 1) * row, row)
    IN  IF ~head.ok THEN << >>
        ELSE [ErrorCode |-> head.values.ErrorCode, Len |-> head.values.Len,
              rows |-> [i \in 1 .. head.values.Len.n |->
                          GetFields(ClientWidth, rowAt(i), ClientChatRoom).values]]

(* A packet of fixed fields is never too long for an int16.                *)
ASSUME LongestPacketFits ==
    HeaderSize + Total(ServerWidth, ServerBroadcast.put) < WordSize \div 2

-----------------------------------------------------------------------------
Init ==
    /\ toServer = <<>> /\ toClient = <<>>
    /\ rooms \in Rooms
    /\ up = TRUE
    /\ asked = <<>> /\ heard = <<>> /\ answered = <<>> /\ told = <<>>

(* send_request: the arguments are copied into slices of fixed widths, the *)
(* packet is encoded and written.                                          *)
Request(layout, values) ==
    /\ Len(asked) < MaxRequests
    /\ asked' = Append(asked, [id |-> layout.id, values |-> values])
    /\ toServer' = Append(toServer,
           Encode(ClientWidth, layout,
                  [f \in DOMAIN values |->
                      IF f \in IntegerField THEN values[f]
                                            ELSE Cut(ClientWidth[f], values[f])]))
    /\ UNCHANGED <<toClient, rooms, up, heard, answered, told>>

(* time.Now().Format("2006-01-02 15:04:05.000")                            *)
Now == [text |-> "now", n |-> 23]

SendLogin(id, pw) == Request(ClientLoginReq, [UserID |-> id, UserPW |-> pw])

SendJoin(id, pw, name) ==
    Request(ClientJoinReq, [UserID |-> id, UserPW |-> pw, UserName |-> name])

SendCreateNewChatRoomReq(title, pw) ==
    Request(ClientCreateReq, [ChatRoomName |-> title, ChatRoomPW |-> pw])

SendTransferMessage(room, line) ==
    Request(ClientTransferReq,
            [ChatRoomID |-> Number(room), TimeChat |-> Now, Message |-> line])

SendViewAvailableChatRoom(id) == Request(ClientViewReq, [UserID |-> id])

SendConnAvailableChatRoom(id, room) ==
    Request(ClientConnReq, [UserID |-> id, ChatRoomID |-> Number(room)])

-----------------------------------------------------------------------------
(* The server.                                                             *)
NONE == 1
INVALID_REQUEST == 1001
MYSQL_ERROR == 2003
FAIL_CREATE_NEW_CHATROOM == 2004
FAIL_TRANSFER_MESSAGE == 2007

(* PacketProcessGoroutine passes the first packet's body to the handler of *)
(* its id.                                                                 *)
Dispatch(id) ==
    /\ up
    /\ toServer # <<>>
    /\ PeekPacketID(Head(toServer)) = id
    /\ toServer' = Tail(toServer)

Body == PeekPacketBody(Head(toServer))

Hear(layout) ==
    heard' = Append(heard,
        [id |-> layout.id,
         values |-> Decode(ServerWidth, layout, Body).values])

Say(layout, values) == [id |-> layout.id, values |-> values,
                        packet |-> Encode(ServerWidth, layout, values)]

(* The answers are encoded and written one after the other; a panic in an  *)
(* encoder ends the process.                                               *)
Answer(answers) ==
    IF \E i \in DOMAIN answers : answers[i].packet.panic
    THEN up' = FALSE /\ UNCHANGED <<toClient, answered>>
    ELSE /\ toClient' = toClient \o
                [i \in DOMAIN answers |-> answers[i].packet]
         /\ answered' = answered \o
                [i \in DOMAIN answers |-> [id |-> answers[i].id,
                                           values |-> answers[i].values]]
         /\ UNCHANGED up

(* Login and join refuse a request without an id or a password.            *)
Credentials(r) ==
    r.ok /\ r.values.UserID.n > 0 /\ r.values.UserPW.n > 0

ProcessPacketLogin ==
    /\ Dispatch(701)
    /\ Hear(ServerLoginReq)
    /\ \E code \in IF Credentials(Decode(ServerWidth, ServerLoginReq, Body))
                   THEN {NONE, MYSQL_ERROR} ELSE {INVALID_REQUEST} :
          Answer(<<Say(ServerLoginRes, [ErrorCode |-> Number(code)])>>)
    /\ UNCHANGED <<rooms, asked, told>>

ProcessPacketJoin ==
    /\ Dispatch(703)
    /\ Hear(ServerJoinReq)
    /\ \E code \in IF Credentials(Decode(ServerWidth, ServerJoinReq, Body))
                   THEN {NONE, MYSQL_ERROR} ELSE {INVALID_REQUEST} :
          Answer(<<Say(ServerJoinRes, [ErrorCode |-> Number(code)])>>)
    /\ UNCHANGED <<rooms, asked, told>>

(* The new row's number is the next one, cut to an int16.                  *)
ProcessPacketCreateNewChat ==
    /\ Dispatch(801)
    /\ Hear(ServerCreateReq)
    /\ \/ /\ Decode(ServerWidth, ServerCreateReq, Body).ok
          /\ rooms' = rooms + 1
          /\ Answer(<<Say(ServerCreateRes,
                          [ErrorCode |-> Number(NONE),
                           ChatRoomID |-> Number(Int16(rooms + 1))])>>)
       \/ /\ Answer(<<Say(ServerCreateRes,
                          [ErrorCode |-> Number(FAIL_CREATE_NEW_CHATROOM),
                           ChatRoomID |-> Number(-1)])>>)
          /\ UNCHANGED rooms
    /\ UNCHANGED <<asked, told>>

\* Mutant of Echo: the message is copied into the slice of the name.
Echo_Swapped(values, sequence, name) ==
    [MessageSequence |-> Number(sequence),
     Message |-> Cut(ServerWidth.UserName, values.Message),
     TimeChat |-> Cut(ServerWidth.TimeChat, values.TimeChat),
     UserName |-> Cut(ServerWidth.UserName, name)]

(* The packet that is broadcast for a request.                             *)
Echo(values, sequence, name) ==
    [MessageSequence |-> Number(sequence),
     Message |-> Cut(ServerWidth.Message, values.Message),
     TimeChat |-> Cut(ServerWidth.TimeChat, values.TimeChat),
     UserName |-> Cut(ServerWidth.UserName, name)]

(* The sender is told the result; when it is in the room itself it gets    *)
(* the broadcast too, also of a message that could not be stored.          *)
ProcessPacketTransferMessage ==
    /\ Dispatch(811)
    /\ Hear(ServerTransferReq)
    /\ LET r == Decode(ServerWidth, ServerTransferReq, Body)
           result(code) ==
               Say(ServerTransferRes, [ErrorCode |-> Number(code)])
           echo(sequence, name) ==
               Say(ServerBroadcast, Echo(r.values, sequence, name))
       IN  IF ~r.ok THEN UNCHANGED <<toClient, answered, up>>
           ELSE \/ Answer(<<result(NONE)>>)
                \/ Answer(<<result(FAIL_TRANSFER_MESSAGE)>>)
                \/ \E name \in Names :
                      Answer(<<result(NONE), echo(Len(heard), name)>>)
                \/ Answer(<<result(FAIL_TRANSFER_MESSAGE), echo(-1, Nothing)>>)
    /\ UNCHANGED <<rooms, asked, told>>

(* A row as it is copied for the answer.                                   *)
Row(i, creator, title) ==
    [ChatRoomID |-> Number(Int16(i)), TimeChat |-> [text |-> "date", n |-> 19],
     UserName |-> Cut(ServerWidth.UserName, creator),
     ChatRoomName |-> Cut(ServerWidth.ChatRoomName, title),
     NumAttendance |-> Number(1)]

(* The handler goes on with a request it could not decode.                 *)
ProcessPacketViewAvailableChatRoom ==
    /\ Dispatch(803)
    /\ Hear(ServerViewReq)
    /\ \E creator \in Names, title \in Names :
          LET list == [i \in 1 .. rooms |-> Row(i, creator, title)]
          IN  Answer(<<[id |-> 804, packet |-> ServerViewRes(0, list),
                        values |-> [ErrorCode |-> Number(0),
                                    Len |-> Number(rooms), rows |-> list]]>>)
    /\ UNCHANGED <<rooms, asked, told>>

ServerHandles == {701, 703, 801, 803, 811}

(* "Invalid Packet ID"                                                     *)
InvalidPacketID ==
    /\ toServer # <<>> /\ PeekPacketID(Head(toServer)) \notin ServerHandles
    /\ Dispatch(PeekPacketID(Head(toServer)))
    /\ UNCHANGED <<toClient, rooms, up, asked, heard, answered, told>>

-----------------------------------------------------------------------------
(* The client: PacketProcess and what its handlers decode.  The answer to  *)
(* a join is decoded as one to a login.                                    *)
ClientLayout(id) ==
    CASE id \in {702, 704} -> ClientLoginRes
      [] id = 802 -> ClientCreateRes
      [] id = 812 -> ClientTransferRes
      [] id = 813 -> ClientBroadcast

Tell(id, values) ==
    /\ told' = Append(told, [id |-> id, values |-> values])
    /\ toClient' = Tail(toClient)
    /\ UNCHANGED <<toServer, rooms, up, asked, heard, answered>>

PacketProcess ==
    /\ toClient # <<>>
    /\ LET p == Head(toClient)
           id == PeekPacketID(p)
       IN  /\ id # 804
           /\ Tell(id, Decode(ClientWidth, ClientLayout(id),
                              PeekPacketBody(p)).values)

ProcessPacketViewAvailableChat ==
    /\ toClient # <<>>
    /\ PeekPacketID(Head(toClient)) = 804
    /\ Tell(804, ClientViewRes(PeekPacketBody(Head(toClient))))

Ask ==
    \/ \E id \in Names, pw \in Names :
          \/ SendLogin(id, pw)
          \/ SendCreateNewChatRoomReq(id, pw)
          \/ \E name \in Names : SendJoin(id, pw, name)
    \/ \E id \in Names :
          \/ SendViewAvailableChatRoom(id)
          \/ \E room \in RoomIDs : SendConnAvailableChatRoom(id, room)
    \/ \E room \in RoomIDs, line \in Lines : SendTransferMessage(room, line)

Serve ==
    \/ ProcessPacketLogin \/ ProcessPacketJoin
    \/ ProcessPacketCreateNewChat \/ ProcessPacketTransferMessage
    \/ ProcessPacketViewAvailableChatRoom
    \/ InvalidPacketID

Next == Ask \/ Serve \/ PacketProcess \/ ProcessPacketViewAvailableChat

Spec == Init /\ [][Next]_vars

-----------------------------------------------------------------------------
(* Properties.                                                             *)

(* The state keeps its types, and no slice that was written is longer than *)
(* the field that it was made for.                                         *)
Packet(p) ==
    /\ p.len \in Nat /\ p.pos \in Nat /\ ~p.panic
    /\ \A s \in p.data : s.v \in Value /\ (s.v.text = "number" \/ s.v.n <= s.w)

TypeOK ==
    /\ \A k \in DOMAIN toServer : Packet(toServer[k])
    /\ \A k \in DOMAIN toClient : Packet(toClient[k])
    /\ rooms \in Nat
    /\ up \in BOOLEAN
    /\ \A s \in {asked, heard, answered, told} :
          \A k \in DOMAIN s : s[k].id \in 701 .. 815

(* The size in a packet's header is that of the buffer, and every byte of  *)
(* it was written: what makePacket relies on to find the next packet.      *)
PacketIsWhole ==
    \A q \in {toServer, toClient} : \A k \in DOMAIN q :
        PacketTotalSize(q[k]) = q[k].len /\ q[k].pos = q[k].len

(* What a handler of the server decodes is what the client's function was  *)
(* called with, each text cut to its field, in the order of the calls: the *)
(* two copies of packet.go agree on the fields, their order and widths.    *)
Known == Kept(asked, {i \in DOMAIN asked : asked[i].id \in ServerHandles})

AsSent(m) == [id |-> m.id,
              values |-> [f \in DOMAIN m.values |->
                            IF f \in IntegerField THEN m.values[f]
                            ELSE Cut(ServerWidth[f], m.values[f])]]

HeardIsAsked ==
    /\ Len(heard) <= Len(Known)
    /\ \A i \in DOMAIN heard : heard[i] = AsSent(Known[i])

(* What a handler of the client decodes is what the server's handler       *)
(* answered, rows of the list of rooms included, in the same order.        *)
ToldIsAnswered ==
    /\ Len(told) <= Len(answered)
    /\ told = SubSeq(answered, 1, Len(told))

(* An answer does not say which request it is to; the client takes it for  *)
(* one to its oldest request that has none.  So the answers come in the    *)
(* order of the requests, each of its request's kind.                      *)
AnswersInTurn ==
    LET answers == Kept(told, {i \in DOMAIN told : told[i].id # 813})
    IN  /\ Len(answers) <= Len(Known)
        /\ \A i \in DOMAIN answers : answers[i].id = Known[i].id + 1

(* A broadcast shows a line that was typed, up to the width of the field,  *)
(* with the time at which it was entered, whatever two encoders, two       *)
(* decoders and the handler in between did to it.                          *)
EchoIsTyped ==
    \A i \in DOMAIN told : told[i].id = 813 =>
        \E k \in DOMAIN asked :
            /\ asked[k].id = 811
            /\ told[i].values.Message = Cut(ServerWidth.Message,
                                            asked[k].values.Message)
            /\ told[i].values.TimeChat = asked[k].values.TimeChat

(* An encoder ends the server's process only when the list of rooms is too *)
(* long for an int16.                                                      *)
OnlyLongListsPanic ==
    up \/ HeaderSize + 4 + rooms * Total(ServerWidth, ServerChatRoom)
            > WordSize \div 2 - 1
=============================================================================
