# Formal models of the chat server and its terminal client

The repository holds a Go chat server (`src/server`) that keeps its accounts,
rooms and messages in MySQL and its session records in Redis, and a Go client
with a curses interface (`src/client`).  `src/socket_practice` is an earlier
copy of the server without the chat service and `src/TEST_CODE` holds language
exercises; neither is part of the system.

This directory contains TLA+ modules translated from that code, the TLC
configurations that check them on small instances, and TLAPS proofs of what
holds for every instance.  `PROJECT.json` is the index: for each definition the
lines it stands for, for each run its properties, for each property a mutant of
the model that breaks it, and the list of hazards the properties are aimed at.

## 1. Inventory

### Server

| component | state | operations | interacts with |
|---|---|---|---|
| connection handling (`network/network.go`, `tcpSession.go`, `queue.go`) | `SessionMap` (id to session), `SessionIndexPool` (capped `Deque`), per session `SeqIndex`, `Index`, `Conn` | accept loop, `appendSession`, `handleTcpRead`, `makePacket`, `closeProcess`, `sendPacket` | one reader goroutine per connection; callbacks `OnConnect`, `OnReceive`, `OnClose` into `game.go`; Redis for the id |
| packet processing (`game.go`, `distributePacket.go`) | `PacketChan` (256) | `DistributePacket` (a blocking send by the readers), `PacketProcessGoroutine` (the single consumer) | calls the controllers, which write to connections |
| chat service (`controller/*`, `service/accountDB.go`, `service/memoryDB.go`) | MySQL: accounts, rooms, messages, attendance. Redis: `user_<id>` records with the room a session is in, the session counter | login, join, ping, create room, transfer message, list rooms | `network.SendToClient`; `OnClose` deletes records concurrently; several servers may share both databases |
| session registry (`clientSession/*`) | a `SessionMap` nobody fills | `RemoveSession` from `OnClose` | Redis |
| codecs (`protocol/*`, `network/packetEnDecoder.go`) | none | encode and decode of each packet | both of the above |

### Client

| component | state | operations | interacts with |
|---|---|---|---|
| connection (`network/network.go`) | receive buffer, `PacketChan` (256) | `ConnectServer`, `handleToRead`, `makePacket` | `OnReceive` |
| flow (`game.go`, `send_request/*`) | `_UIListener` (1), `_ChatListListener` (0), `_MessageListener` (30), `_chatRoomID`, SQLite log | `DrawGUI`, `PacketProcess` and a handler per response | windows, server |
| chat room window (`chat_ui/drawing.go`) | `ChatUIState`: a mutex, three condition variables, `isChatLogCond`, `isOptionCond`, `killSwitch`, `is_chat_transfer_signal`, `backup_message` | `DrawChatLogArea`, `DrawChatRoomOptionArea`, `DrawChatRoomInputArea` | `messageListener`, keyboard, server |
| menu windows (`chat_ui/drawing.go`) | none that lives on | login, join, create and list dialogs | `_UIListener` |
| codecs (`protocol/*`) | none | as on the server, kept by hand in step with it | |

### What is hard here, and what makes each part correct

* **Connection handling.** `closeProcess` runs in the reader and in the
  dispatcher without any coordination.  Correct means: indices are neither lost
  nor handed out twice, no map entry outlives its reader, a served client can
  be sent to, a dead client goes away, and the dispatcher is not held up.
* **Packet stream.** TCP splits and joins packets anywhere.  Correct means that
  the receiver hands over exactly the packets sent, in order.
* **Chat service.** Every handler is a sequence of Redis and MySQL commands
  interleaved with other servers and with `OnClose`.  Correct means unique,
  ordered message numbers, and that a broadcast reaches the sessions that are in
  the room and no others.
* **Client flow.** Three channels and four goroutines, a consumer that blocks on
  channels the window reads only at times.  Correct means that every answer
  moves the user on, and that nothing blocks the packet loop for good.
* **Chat room window.** Three areas share one screen through two flags and
  three condition variables, and the log area listens to the channel without
  the mutex.  Correct means no lost wake-up, no deadlock, one owner of the
  window, every received message drawn, every entered line sent, and a room
  that can be left.

The hazards of each, line by line, are in `PROJECT.json`.

## 2. Plan

| # | module | contents | state |
|---|---|---|---|
| 1 | `ServerSessions` | accept loop, readers, dispatcher, index pool, session map | done, proved |
| 2 | `ChatRoom` | the three areas of the chat room window | done, proved |
| 3 | `Framing` | `handleTcpRead` and `makePacket` of both sides over a byte stream; implements the FIFO of packets of `PacketFifo` | done, proved |
| 4 | `Packets` | both copies of `packet.go`, requests, handlers and answers, field by field | done, proved |
| 5 | `ChatService` | the handlers against Redis and MySQL, on several servers | done, proved |
| 6 | `ClientFlow` | `DrawGUI`, `PacketProcess`, the channels between them, the room's log and its scrolling, the forms | done, proved |
| 7 | theorems | every safety invariant that a run checks, and the refinement of `PacketFifo` | done |

How they fit together: `Framing` shows that the byte stream is a queue of
packets, which is what every other module takes it for.  `Packets` shows that a
packet carries the fields it was made from, so that `ServerSessions`,
`ChatService` and `ClientFlow` send records.  `ServerSessions` has the sessions
and leaves the rooms open; `ChatService` has the rooms, records and messages and
takes a session for a connection that is open until it is closed.  `ClientFlow`
has the whole client with a room reduced to whose turn it is, and a server that
answers in order, refuses, or does not answer, as `AnswersInTurn` and
`ChatService` allow; `ChatRoom` opens up that one window with its mutex and its
three conditions.

## 3. `ServerSessions`

One action per step that another goroutine can observe.

* **Accept loop** (`acceptPc`): `Accept`, `GetUniqueSessionId` (the Lua script
  is atomic) or its failure, `AllocSession` or `NotEnoughIndexPool`,
  `StoreSession` or `DuplicateSession`, `SpawnReader`.  A connection the loop
  gives up on stays open, as in the code.
* **Readers** (`pc[c]`): `ReadPacket` delivers one or more packets with
  `DistributePacket`, which waits for room in `packetChan`; `ReadError` and
  `ReadTooLarge` lead to `closeProcess`.
* **closeProcess** (`pc[t]` for a reader or the dispatcher): `CloseConn`,
  `OnClose`, `FreeSession`, `DeleteSession`, four steps that interleave with
  everybody, including another `closeProcess` of the same session.
* **Dispatcher**: `TakePacket`, a handler that settles what happens to the
  `user_<id>` keys and whom it will write to, `FindSession` and
  `WriteOk`/`WriteError` for each recipient, `HandlerDone`.
* **Environment**: clients that hang up (`PeerGone`) or stop reading
  (`PeerStall`, `PeerResume`), a Redis that loses its data (`RedisFlush`).

What a packet says is abstracted to four kinds, by what its handler does to this
state: `login` (sets or deletes the record), `create` (its last step writes the
record again), `transfer` (broadcasts to some of the records), `other`.  Which
records are in a room is left open: a broadcast goes to any subset of them.

`freed` and `lost` are history variables: they count how often a session's
index was given back and which indices were dropped by the duplicate-id branch.

### Runs

| run | instance | shows |
|---|---|---|
| `sessions` | 2 connections, 2 indices, channel of 1, ids up to 2, one loss of Redis data, logins and broadcasts | `TypeOK`, `IndexPartition`, `NoZombieSession`, `ServedIsReachable` |
| `sessions_live` | 2 connections, 1 index, one client that may stop reading | `GoneIsRemoved`, `DispatcherReturns` |
| `sessions_index` | 3 connections, 1 index | **violated**: `IndexUnique` |

Two connections are the least of which one can be closed while the other is
served, and a channel of one packet is the least that can be full while the
dispatcher handles another.  With ids up to 2 and one flush the counter returns
to an id in use.  A third client that is given an index which came back twice is
the case of `sessions_index`, and the theorems of section 9 hold for any number.
Connections are interchangeable, so the safety run uses symmetry; the liveness
run does not.

`IndexPartition` is conditional on `OnceClosed`, because the double close that
`sessions_index` finds really breaks it: the reader and the dispatcher each
append the index, and the next two clients get the same one, while
`network.go:29` calls it unique.

### Fairness

The accept loop, the dispatcher and every `closeProcess` run when they can (weak
fairness): they are goroutines of one process, and Go's scheduler is
preemptive.  `DistributePacket` gets strong fairness because a Go channel serves
its blocked senders in FIFO order.  `ReadError` is weakly fair: a `Read` on a
closed connection returns.  Nothing is assumed of clients; the two liveness
properties carry as a premise that a client does not stop reading for ever,
because `Write` has no deadline and one such client does stop the server.

## 4. `ChatRoom`

A stretch of code that takes and releases the mutex without waiting is one
action; the option and the input area hold it (`mutex`) while they wait for a
key or for room in the channel.  `pc[a] = "lock"` is the head of an area's loop,
and `asleep` the set of areas inside `Cond.Wait`: a woken area tests its
condition again.  Because `LogReceive` and `LogSignal` run without the mutex
they are separate actions, and so is the test of the signal (`GiveWay`,
`Commit`) after the key has ended the editing loop.

The line being edited is one of `text`, `scroll` (a typed or an arrow's `/c up`,
`/c down`) and `quit`; the characters do not matter.  Messages of other users
and the echo of the user's own (`owed`) come through `messageListener`, which
survives the room: `EnterRoom` starts a new `ChatUIState` with the old channel.

### Runs

| run | instance | shows |
|---|---|---|
| `room` | channel of 3, 3 messages, 1 under way, 2 rooms, both ways out | `TypeOK`, `NoLostWakeup`, `NoStrandedInput`, `OneWindowOwner`, `ReceivedIsDrawn` |
| `room_exit` | Exit Chat, 1 message | **violated**: `RoomIsLeft` |
| `room_enter` | 1 message | **violated**: `EnteredIsSent` |

The channel of 3 fills with the messages and commands of the instance, so every
blocking send is exercised.  Three messages let one be received, one be drained
and one arrive while the areas hand over.

`ReceivedIsDrawn` starts when the log area has put a message into its buffer.
It excuses two rooms.  One is being left (`killSwitch`).  The other is stuck
(`Stuck`): the channel is full and the log area, the only one to take from it,
waits itself, either for room to give back the commands it put aside
(`drawing.go:672`), or for the mutex, which the option or the input area holds
while it waits for room for a `quit` or a scroll command (708, 849, 856).  Such a
room is stuck for good, and the message is never drawn; it takes as many unread
messages and commands as the channel has places, 30 in the code and 3 in the run,
which reaches both forms.  What the property shows is that a received message is
held up in no other way.

### Fairness

Strong fairness for each area, for a mutex is granted to whoever keeps asking
(Go's starvation mode), and for `Timeout`: the user pauses for a second now and
then.  An open menu is answered.  Nothing is assumed of the network, of other
users, or of what is typed.

### The two defects

* `room_exit`: a message arrives, the log area receives it and waits for its
  turn; the user has opened the menu and chooses Exit Chat.  The input area sees
  `killSwitch` and returns without waking the log area, which sleeps for ever
  with the `quit` in the channel; `wg.Wait` never returns.
* `room_enter`: Enter ends the loop after a message was received; the branch
  for the signal is taken first and the line is neither sent nor kept.

## 5. `Framing` and `PacketFifo`

One connection in one direction.  A byte is its number in the stream, so that
each slot of `recvBuff` shows which byte it holds, and a packet is the sequence
of its bytes; the length field is what its first byte stands for.  `Read` takes
any number of the bytes that have arrived and that fit behind `startRecvPos`,
and none only when there is no room.  The loop of `makePacket` is three actions:
`CutPacket`, `TooLargePacket` and `KeepRest`, which leaves the loop and includes
the `copy`.  `ReadError` is the end of the connection.  The server and the client
have the same loop; on an error the server also runs `closeProcess`
(`ServerSessions`), the client just returns.

The lengths are `int16` in the code; the sums that occur stay within
`MaxBuffer` (`FramingTyping`), which is 4096.  Packets come from the program's
own encoders, so a length field is the length of its packet and not less than
the header.  (A list of 512 rooms overflows the `int16` of its size in
`server/protocol/packet.go:487`; there the encoder itself fails, and no packet is
sent.)

`PacketFifo` is what the layer promises: packets that were written come out
whole, once and in order, until the receiver gives up.  `Framing` implements it,
with `broken` when the loop has returned.

### Runs

| run | instance | shows |
|---|---|---|
| `framing` | header 2, limit 5, buffer 8, packets of 2, 3, 6 and 9 bytes, four of them | `TypeOK`, `DeliveredInOrder`, `NothingCompleteWaits`, `FifoSpec`, `EveryPacketArrives` |
| `framing_small` | header 2, limit 4, buffer 8, two packets of 2 or 3 bytes | **violated**: `SmallPacketsAreProcessed` |

The sizes are a packet that is only a header, one within the limit, one over the
limit that fits the buffer, and one that does not.  Four packets let a Read
return the end of one, one in the middle and the beginning of a third, with a
fourth to come after the copy.

`Receive` is weakly fair: the reader is a goroutine, and `Read` returns what has
arrived.  `EveryPacketArrives` leaves out what is behind a packet larger than
the buffer.  There the reader calls `Read` with no room and gets nothing, again
and again.  The list of rooms can become such a packet: it has 9 bytes and 64 for
each room, so that the client gives up on it from 16 rooms on and is stuck from
64 on.

`framing_small`: `makePacket` compares all readable bytes with
`MAX_PACKET_SIZE`, so that packets within the limit which come in one `Read` make
the receiver give up.  A message and its broadcast are over half of the limit,
and two of them are enough.

## 6. `Packets`

A request goes from the arguments of a function of `send_request` to the fields
that the server's handler finds, and its answers back to the fields that the
client's handler finds.  A byte slice is a text cut to a length (`Cut`), a
packet a buffer with the set of what was written at which position; what is read
at another position or with another width than it was written is `Garbage`.  A
sequence of writes is carried out by `Write`, which adds up the widths (`Ends`) and
panics where the code would.  A `Layout` is
a packet's two methods: what the encoder allocates and writes, what the decoder
checks and reads.  Each of the two copies of `protocol/packet.go` has its own
layouts and widths; nothing in the module makes them agree.  The list of rooms
(`ServerViewRes`, `ClientViewRes`) has its own encoder and decoder, with the size
computed in `int16` as in the code: an encoder that panics ends the server
(`up`).

The actions are the functions of `send_request` (`SendLogin` ...), the handlers of
`controller/` (`ProcessPacketLogin` ...) and the client's `PacketProcess`.  What
the services find out is any of the results they can return.

| run | instance | shows |
|---|---|---|
| `packets` | any two requests; texts of 0, 3 and 30 bytes, lines of 5 and 600; 0, 1 or 15 rooms; `int16` of 2048 values | `TypeOK`, `PacketIsWhole`, `HeardIsAsked`, `ToldIsAnswered`, `AnswersInTurn`, `EchoIsTyped`, `OnlyLongListsPanic` |

Two requests are enough for an answer to be taken for the other request's; 30
and 600 are more than any field holds.  With `int16` shrunk to 2048 values a
list of 16 rooms does what one of 512 does in the code, and 15 rooms and one more
are at either side of the limit.

`AnswersInTurn` is what the client relies on without saying so: no answer names
its request.

## 7. `ChatService`

Several servers, each with one goroutine that handles requests, on one Redis and
one MySQL.  `job[v].pc` is where that goroutine is; a step is one statement or
one command (`LoadAccount`, `StoreUserInfo`, `CreateNewChatRoom`, `GetRecord`,
`SetRecord`, `StoreMessage`, `SelectNumber`, `RetrieveUsersFromCID`, one `Written`
of `BroadcastMessageToLiveUsers`, ...).  Between any two of them come the steps
of the other servers and `OnClose`, by which the reader of a client that has
hung up removes its record.  A statement or command of a server in `Failing` may
fail, and the handler goes on as in the code: without an account, without a
record, with number -1, or with a nil pointer (`Panic`), which ends the process
and leaves its records in Redis.  `OnClose` may fail to remove its record too.

The table `CHAT_ROOM` is the sequence of creators, `MESSAGE_TRANSACTION` the
sequence of messages, so that `AUTO_INCREMENT` is the position; their foreign
keys (`src/chat_server_db.erd`) are `MayCreate` and the guard of `StoreMessage`.

A client does what this repository's client does.  It is only ever in a room
that it created, because the servers have no handler for a request to enter one
(`flow_enter`).

| run | instance | shows |
|---|---|---|
| `service` | servers `srvA` (never fails) and `srvB` (anything fails); a client of `srvA` with 2 rooms and 2 lines, one of `srvB` with 1 room, 1 line and the list that may hang up at any time, one of `srvA` that logs in | `TypeOK`, `OwnNumber`, `InOrder`, `OnlyMembersHear`, `RecordFollowsClient`, `OwnLineReturns`, `StoredUnderItsRoom` |

Two servers are the least whose statements interleave, and one that fails beside
one that does not is what shows that a failure stays where it is.  The client
that hangs up has a room, so that its `OnClose` also falls between the steps that
rewrite its record and is undone by them, or fails.  Two rooms of
one client are the least for a line to come back in another room than it was
sent from, two lines for an order.

`OwnLineReturns` and `RecordFollowsClient` are invariants, no fairness is
assumed: they say what is true of a client when its server has nothing left to
do for it, or before it looks at the client's next request.  They are needed
because the room window is blocked until the client's own line comes back
(`drawing.go:836-874`), and the client may post as soon as it has the answer to
its creation, which is before its record says that it is in the room
(`createNewChat.go:29`).

The seven properties are proved for any number of servers, clients, rooms and
lines (section 9).

## 8. `ClientFlow`

The client's goroutines `DrawGUI`, `PacketProcess` and main, the channels
`_UIListener` (1), `_MessageListener`, `_ChatListListener` (0) and `PacketChan`, the
windows, and the table of sqlite.  `window` is what `DrawGUI` is in: a window,
or `next` when it waits for the name of one.  A handler that ends with a blocking
send has it as a step of its own (`TellUI`, `ShowMessage`).  The forms have two
fields and a cursor; the room has its log, its first row and its commands, and
the mutex and conditions of `ChatRoom` are reduced to `turn`.  When main's reader
returns or curses cannot be started (`Disconnected`), or the client panics, the
process is over; `process` says how it ended.  The panics are a slice out of
range (`BackspacePanics`, `ScrollTo`), the nil client of a database that could
not be set up (`InitSqlite3`, `ProcessPacketCreateNewChat`; `game.go:92`, 507) and
a list of rooms without a window (`DrawChatListPanics`; `drawing.go:460`).

| run | instance | shows |
|---|---|---|
| `flow` | up to 3 rooms and 3 lines, fields of 2 characters, a log area of 2 messages, `_MessageListener` of 5, `PacketChan` of 1 | `TypeOK`, `WindowNeverWaitsForItself`, `LinesAreConserved`, `QuietOutsideRooms`, `StoredOrFailed`, `SlicesInRange`, `EveryPacketIsProcessed` |
| `flow_enter` | a user who looks for a room | **violated**: `SelectedRoomIsEntered` |

Three rooms are the least for a leftover `quit` in the channel to meet a second
room and for that to be left again; three lines fill more rows than the log area
has.  A `PacketChan` of 1 is full as soon as a packet waits behind another.

`QuietOutsideRooms` is the property that others hang on.
`_MessageListener` is emptied only in a room, and a line is stored under the room
the client is in when it arrives; both are right only because the turn goes to
the log area when a line is sent, so that the user cannot leave before the line
is back, or would never be.

`StoreMessageToDB` fails when there is no database and when one of its statements
does (`game.go:374-410`); `game.go:431` does not look at the result, and the line
is shown all the same.  `unstored` is a history variable with the lines of which
that is true.  `StoredOrFailed` says that every row is a line that was broadcast
to the row's room, and that of the lines shown only those, and the ones that
share a row because they came without a number, have no row of their own.

`SlicesInRange` speaks of slices only, not of the other panics: a slice is taken
out of range by Backspace in an empty second field while the first is not empty
(the test looks at the first: `drawing.go:199`, `386`), and by scrolling down in a
log of fewer than two entries (`drawing.go:596` corrects the row only of longer
ones), and by nothing else.

All but the last of the properties of `flow` are proved for channels of any size
and any number of rows, rooms and lines (section 9).

Fairness: the goroutines and the server run when they can.  Of the user only
two things are assumed: a pause of a second now and then (`GiveWay`), and that one
of the rooms of an open list is chosen (`SelectChatRoom`).

`flow_enter`: the room that was chosen is asked for with
`PACKET_CONN_AVAILABLE_CHATROOM_REQ`, for which `PacketProcessGoroutine` has no
case; no answer comes and no window is posted, and `DrawGUI` waits for ever.

## 9. Proofs

Proved with TLAPS for all values of the constants, from the named assumptions
of the modules only (sizes are positive, `NoConn` and `Dispatcher` are not
connections).

`ServerSessionsProofs`
* `Typing`: `TypeOK`, strengthened by what each program counter says about its
  locals (`TInv`, inductive).
* `IndicesPartitioned`: `IndexPartition` from `PInv`, which adds that a session
  about to free its index still holds it unless it was freed before, and that a
  pool without repetition has no more than `PoolSize` members, so that the capped
  `Append` never refuses an index that comes back.
* `NoZombie`: from `ZInv`: a stored session is filed under its own id, and its
  reader has not passed its own `DeleteSession`.
* `ServedReachable`: from `RInv`: while the counter is intact ids are pairwise
  different, so that a `Delete` by id hits only its own entry.

`ChatRoomProofs`
* one inductive invariant, `WInv`: the type invariant, who holds the mutex
  (`WindowControl`), that the signal is off while the log area is blocked on the
  channel (`ReceiveIsQuiet`), that what is about to be sent fits the bounds
  (`SendBudget`), and the three safety properties.  `RoomTyping`, `RoomWakeups`,
  `RoomInputNotStranded` and `RoomOneOwner` follow from it.

`ReceiveIsQuiet` is the heart of `NoStrandedInput`: without it the input area
could find an old signal and hand the window to a log area that nothing will wake.

`FramingProofs`
* `FInv`: the packets sent are the bytes of the stream end to end (`EndToEnd`),
  what was delivered agrees with what was sent (`Prefix`), and the buffer holds
  consecutive bytes that begin with the first byte of the next packet
  (`Buffered`, `AtPacket`).  The last two are what `DeliveredInOrder` lacks: they
  say that `PacketTotalSize` is always called where a packet starts (`NextSize`),
  so that what is cut is the next packet (`CutIsNext`).
* `FramingTyping`, `InOrder` and `NothingWaits` follow from it, and with the step
  simulation `FifoStep` also `FramingImplementsFifo`.

`ChatServiceProofs`
* `IInv` says of the servers that their variables have their types (`Types`), that
  what a server works at is of one of its own clients (`AtHome`), and that a room
  has one owner (`OneOwner`): a client is only ever in a room that it created.
  Hence a record with a room's id, a message in it or a packet about it is its
  owner's, and what other clients do leaves all of these as they were (`Same`,
  `SameKeeps`).  The rest is about one client at a time (`ClientInv`):
  * `Waits`: a client that asked for anything but the sending of a line has
    nothing else under way.  Only lines are posted without waiting, and so the
    room in the record stays what it was while lines are under way (`InItsRoom`).
  * `LinesInOrder`, `StoredInOrder`: a line is in the queue, in the server's
    hands, in the inbox or in the log, in that order, and those behind it were
    posted later.  `InOrder` alone is not inductive: it only sees the log.
  * `Numbered`: the number that the server has in its hands is that of its line.
    `SELECT MAX(...)` yields it because nobody else writes to the room between
    the two statements (`LastNumberIsOwn`), which is again `OneOwner`.
  * `HasRecord`, `RecordFollows`, `NoneLost`: as long as the client's own server
    has not failed, the record is there and has the room, and every line posted
    is in one of the four places.
* `ServiceTyping`, `BroadcastsAreNumbered`, `BroadcastsAreInOrder`, `MembersHear`,
  `RecordsFollow`, `LinesReturn` and `LinesAreStoredRight` follow from it.  The only
  assumption is `ChatServiceAssumption`.

`ClientFlowProofs`
* `IInv`: between the windows, the server and the packet loop at most one thing is
  under way (`OneThing`), and the window `DrawGUI` is in says which it can be
  (`Kinds`).  In a room whatever is under way keeps the turn away from the user
  (`Room`), and outside `_MessageListener` holds nothing but the quits that rooms
  left behind (`Listener`).  `Numbers` and `Shown` relate the lines of the server,
  the rows of sqlite, the log and what is under way; a row's key is unique because
  a room's number is new when it is made (`Fresh`).
* `FlowTyping`, `WindowsDoNotBlock`, `NothingIsLost`, `RoomsAreLeftQuiet`,
  `ShownLinesAreStored` (which is `StoredOrFailed`) and `OnlyKnownSlices` (which is
  `SlicesInRange`) follow from it, with a database that may be missing or fail at
  any line.  The only assumption is `ClientFlowAssumption`.  That `PacketChan` never holds more than one packet
  is what the proof shows, not what it assumes.
* The lemmas about `LinesOf` and `Kept` (`KeptAppend` and others, in
  `SelectionProofs`) say how filtering a sequence commutes with appending to it.
  They are proved by induction on the length, with the induction carried by a
  subset of `Nat` (`NatInd`), since the library's induction theorems take an
  operator.

`PacketCodecProofs`
* that a decoder undoes its encoder, for fields of any fixed widths (`RoundTrip`)
  and for the list of rooms of any length (`ListSent`).  The core is where things
  are: `Ends` adds up (`EndsAre`, `EndsConcat`), a buffer holds what was written
  there and nothing else (`WriteFits`, `Holds`), the body that is cut off behind the
  header holds it at positions shifted by the header (`PacketFits`), and row i of the
  list begins 64 * (i - 1) bytes behind the first (`RowEnds`).
* `ListPanics`: the encoder of the list does not panic while the size fits an
  `int16`.

`PacketsProofs`
* `IInv` relates every packet on its way to the entry of the histories it comes
  from: what is on its way to the server was asked last (`Sends`) and the server
  will decode it from its packet (`Delivers`); what it has heard are the requests it
  has a handler for among the others (`Hears`); its answers that are no broadcasts
  are one for each (`Replies`); what is on its way to the client was answered last
  and the client will decode it (`Returns`, `Conveys`); and a broadcast shows a line
  that was asked for (`Echoes`).  It was an invariant of the run before it was
  proved.
* `Types`, `RequestsArrive`, `AnswersMatch`, `EchoesAreTyped` and `OnlyListsPanic`
  follow from it for any names, lines, rooms and requests.  `PacketsAreWhole` and
  `AnswersArrive` have the hypothesis that an `int16` can count the rooms
  (`rooms < WordSize \div 2`): with 32768 rooms their number is negative in the
  packet, its size may fit again, and the list arrives empty or incomplete.  So many
  rooms are beyond the instance of the run.
* The assumptions are `PacketsAssumption` and `LongestPacketFits`: the longest packet
  of fixed fields fits an `int16` (561 bytes do).

`SelectionProofs` has the lemmas about `Kept` that the last two components share.

Only model-checked: liveness (`GoneIsRemoved`, `DispatcherReturns`,
`ReceivedIsDrawn`, `EveryPacketArrives`, `EveryPacketIsProcessed`), which depends
on fairness and ENABLED, which this prover does not handle.

## 10. Not modelled

* `main.go`, opening of Redis and MySQL, logging, layout and colours: I/O without
  a state anything else depends on.
* `fmt.Println(SessionMap)` at `network.go:86`, which reads the map's internals
  without its lock: below the level of `ServerSessions`.
* What nothing in the repository ever sends: pings, the answer 808 to
  `ConnAvailableChatRoom`, `RenewChatLog` (814, 815) and with them the client's
  `ProcessPacketConnAvailableChat`, `ProcessPacketRenewChatLog`, `RenewChatLog`,
  `FetchExistChatLog` and `LastMIDFromCID`; and `JoinAccount`, for no window asks
  for a join (its packets are in `Packets`).
* A client that finds the `log.db` of an earlier start: `MESSAGE_LOG` begins empty.
  The table is read for the room just created only, whose number is new.
* Other ways in which the client may end: curses that cannot make a window which
  the code does not check (the return values of `NewWindow` of menus and of the
  room's areas).  The panic at `game.go:357` is in the handler of an answer that
  the server never sends.  A packet that the client decodes is one that the server
  encoded (`Packets`), so that a list of rooms with a size that is too small for it
  does not arrive: the encoder has panicked.
* The texts of messages beyond their length and identity, passwords, times.
* `socket_practice`, `TEST_CODE`: not part of the system.
