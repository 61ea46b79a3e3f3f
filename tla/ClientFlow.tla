----------------------------- MODULE ClientFlow -----------------------------
(***************************************************************************)
(* The client as a whole: the goroutine DrawGUI, which draws one window    *)
(* after the other and takes the name of the next from _UIListener; the    *)
(* goroutine PacketProcess, which handles what the server answers; the     *)
(* main goroutine, which connects, reads, and ends the process when it     *)
(* returns; and the channels between them.  Windows post to _UIListener    *)
(* too, so that DrawGUI may have to wait for itself.                       *)
(*                                                                         *)
(* The chat room is reduced to whose turn it is; its three goroutines are  *)
(* the subject of ChatRoom.  The server answers requests in the order in   *)
(* which they were sent, and not all of them (see ChatService).            *)
(***************************************************************************)
EXTENDS Integers, Sequences, SequencesExt, Selection

CONSTANTS
    ListenerSize,  \* the capacity of _MessageListener
    PacketSize,    \* the capacity of PacketChan
    Rows,          \* how many messages the log area has room for
    MaxKeys,       \* bound: the characters typed into a field
    MaxRooms,      \* bound: the rooms asked for
    MaxPosts       \* bound: the lines posted

ASSUME ClientFlowAssumption ==
    /\ ListenerSize \in Nat \ {0} /\ PacketSize \in Nat \ {0}
    /\ Rows \in Nat \ {0}
    /\ MaxKeys \in Nat /\ MaxRooms \in Nat /\ MaxPosts \in Nat

UIListenerSize == 1

VARIABLES
    process,     \* running, exited, or the panic that ended it
    window,      \* what DrawGUI is in
    UIListener, MessageListener,
    form,        \* the fields of DrawLogin and DrawNewChat
    rooms,       \* the rooms that DrawChatList shows
    chatRoomID, chatLogBuffer,
    PacketChan,
    packet,      \* what PacketProcess is handling
    asked,       \* requests on their way to the server
    wire,        \* packets on their way to the client
    created,     \* how many rooms the server has been asked for
    made,        \* how many rooms the server has
    sent,        \* history: the lines that the server broadcast
    posts,       \* how many lines the user has posted
    sqlite,      \* whether InitSqlite3 has set _sqlite3Client
    MessageLog,  \* the table MESSAGE_LOG: sqlite's rows
    unstored,    \* history: the lines that StoreMessageToDB failed to store
    turn,        \* the area of the room that may use the window
    log,         \* what the log area is doing
    signal,      \* is_chat_transfer_signal
    killSwitch,
    chatLog,     \* the log area's own chatLogBuffer
    startRow

channels == <<UIListener, MessageListener, PacketChan, packet>>
serverVars == <<asked, wire, created, made, sent, posts>>
roomVars == <<turn, log, signal, killSwitch, chatLog, startRow>>
globals == <<chatRoomID, chatLogBuffer, sqlite, MessageLog, unstored>>
vars == <<process, window, channels, form, rooms, globals, serverVars, roomVars>>

-----------------------------------------------------------------------------
(* A line of a room: its number, and its text, which is another for every  *)
(* line that is broadcast.                                                 *)
Line(r, n, text) == [room |-> r, n |-> n, text |-> text]

(* What goes through _MessageListener: a line, or one of the commands.     *)
Command(c) == [command |-> c]
Commands == {Command(c) : c \in {"success", "up", "down", "quit"}}
Chat(l) == [line |-> l]
IsChat(item) == item \notin Commands
Chats(items) == {i \in DOMAIN items : IsChat(items[i])}

Lines(items) ==
    LET chats == Kept(items, Chats(items))
    IN  [i \in DOMAIN chats |-> chats[i].line]

(* Those of some lines that are of a room.                                 *)
LinesOf(r, lines) == Kept(lines, {i \in DOMAIN lines : lines[i].room = r})

NoPacket == [kind |-> "none"]
EmptyForm == [first |-> 0, second |-> 0, inFirst |-> TRUE]

Running == process = "running"

(* When the table cannot be made _sqlite3Client stays nil.                 *)
InitSqlite3 == sqlite \in BOOLEAN

Init ==
    /\ process = "running"
    /\ window = "start"
    /\ UIListener = <<>> /\ MessageListener = <<>>
    /\ PacketChan = <<>> /\ packet = NoPacket
    /\ form = EmptyForm /\ rooms = {}
    /\ chatRoomID = 0 /\ chatLogBuffer = <<>>
    /\ InitSqlite3 /\ MessageLog = <<>> /\ unstored = {}
    /\ asked = <<>> /\ wire = <<>> /\ sent = <<>>
    /\ created = 0 /\ made = 0 /\ posts = 0
    /\ turn = "log" /\ log = "draw" /\ signal = FALSE /\ killSwitch = FALSE
    /\ chatLog = <<>> /\ startRow = 0

PostUI(m) ==
    /\ Len(UIListener) < UIListenerSize
    /\ UIListener' = Append(UIListener, m)

PostMessage(item) ==
    /\ Len(MessageListener) < ListenerSize
    /\ MessageListener' = Append(MessageListener, item)

Send(request) == asked' = Append(asked, request)

-----------------------------------------------------------------------------
(* The main goroutine.                                                     *)
Stop(how) ==
    /\ process' = how
    /\ UNCHANGED <<window, channels, form, rooms, globals, serverVars, roomVars>>

(* ConnectServer: the two posts find room, and nobody else posts yet.      *)
ConnectServer ==
    /\ window = "start" /\ MessageListener = <<>>
    /\ PostMessage(Command("success"))
    /\ PostUI("BeforeLogin")
    /\ UNCHANGED <<process, window, PacketChan, packet, form, rooms, globals,
                   serverVars, roomVars>>

(* Dial fails, or the reader returns: so does main, and the process ends.  *)
(* It also ends when curses cannot be started, or cannot make the window   *)
(* of a form (log.Fatal).                                                  *)
Disconnected == Stop("exited")

OnReceive ==
    /\ wire # <<>>
    /\ Len(PacketChan) < PacketSize
    /\ PacketChan' = Append(PacketChan, Head(wire))
    /\ wire' = Tail(wire)
    /\ UNCHANGED <<process, window, UIListener, MessageListener, packet, form,
                   rooms, globals, asked, created, made, sent, posts, roomVars>>

-----------------------------------------------------------------------------
(* The server.                                                             *)
Reply(answers) ==
    /\ asked # <<>>
    /\ asked' = Tail(asked)
    /\ wire' = wire \o answers
    /\ UNCHANGED <<process, window, channels, form, rooms, globals, posts,
                   created, roomVars>>

AnswerLogin ==
    /\ asked # <<>> /\ Head(asked).kind = "login"
    /\ \E ok \in BOOLEAN : Reply(<<[kind |-> "login", ok |-> ok]>>)
    /\ UNCHANGED <<made, sent>>

AnswerCreate ==
    /\ asked # <<>> /\ Head(asked).kind = "create"
    /\ \/ /\ made' = made + 1
          /\ Reply(<<[kind |-> "create", ok |-> TRUE, room |-> made']>>)
       \/ /\ Reply(<<[kind |-> "create", ok |-> FALSE, room |-> -1]>>)
          /\ UNCHANGED made
    /\ UNCHANGED sent

AnswerView ==
    /\ asked # <<>> /\ Head(asked).kind = "view"
    /\ Reply(<<[kind |-> "view", rooms |-> 1 .. made]>>)
    /\ UNCHANGED <<made, sent>>

(* PACKET_CONN_AVAILABLE_CHATROOM_REQ has no case in the server's switch.  *)
IgnoreConn ==
    /\ asked # <<>> /\ Head(asked).kind = "conn"
    /\ Reply(<<>>)
    /\ UNCHANGED <<made, sent>>

(* The line comes back with its number, or with -1 when it could not be    *)
(* stored, or not at all when the members of the room could not be read.   *)
AnswerPost ==
    /\ asked # <<>> /\ Head(asked).kind = "post"
    /\ \/ \E n \in {Len(sent) + 1, -1} :
             LET l == Line(Head(asked).room, n, Len(sent) + 1)
             IN  /\ Reply(<<[kind |-> "broadcast", line |-> l]>>)
                 /\ sent' = Append(sent, l)
       \/ Reply(<<>>) /\ UNCHANGED sent
    /\ UNCHANGED made

Server == AnswerLogin \/ AnswerCreate \/ AnswerView \/ IgnoreConn \/ AnswerPost

-----------------------------------------------------------------------------
(* PacketProcess.                                                          *)
NextPacket ==
    /\ packet = NoPacket
    /\ PacketChan # <<>>
    /\ packet' = Head(PacketChan)
    /\ PacketChan' = Tail(PacketChan)
    /\ UNCHANGED <<process, window, UIListener, MessageListener, form, rooms,
                   globals, serverVars, roomVars>>

(* A handler's last step, which may have to wait.                          *)
Tell(m) == [kind |-> "tell", name |-> m]
TellUI ==
    /\ packet.kind = "tell"
    /\ PostUI(packet.name)
    /\ packet' = NoPacket
    /\ UNCHANGED <<process, window, MessageListener, PacketChan, form, rooms,
                   globals, serverVars, roomVars>>

ProcessPacketLogin ==
    /\ packet.kind = "login"
    /\ packet' = IF packet.ok THEN Tell("AfterLogin") ELSE NoPacket
    /\ UNCHANGED <<process, window, UIListener, MessageListener, PacketChan, form,
                   rooms, globals, serverVars, roomVars>>

(* LoadChatLogBuffer: the rows that sqlite has for the room, as many as    *)
(* Next can fetch; none when the query fails.                              *)
LoadChatLogBuffer(r) ==
    LET stored == LinesOf(r, MessageLog)
    IN  \E n \in 0 .. Len(stored) : chatLogBuffer' = SubSeq(stored, 1, n)

(* Without a database the query is prepared with a nil client.             *)
ProcessPacketCreateNewChat ==
    /\ packet.kind = "create"
    /\ \/ packet.ok /\ ~sqlite /\ Stop("nil client")
       \/ /\ packet.ok => sqlite /\ LoadChatLogBuffer(packet.room)
          /\ ~packet.ok => UNCHANGED chatLogBuffer
          /\ packet' = IF packet.ok THEN Tell("InChat") ELSE NoPacket
          /\ chatRoomID' = packet.room
          /\ UNCHANGED <<process, window, UIListener, MessageListener, PacketChan,
                         form, rooms, sqlite, MessageLog, unstored, serverVars,
                         roomVars>>

\* Mutant of SameKey: the number alone is the key of a row.
SameKey_NumberOnly(k, l) == k.n = l.n

(* PRIMARY KEY (MESSAGE_ID, CHAT_ROOM_ID).                                 *)
SameKey(k, l) == k.n = l.n /\ k.room = l.room

(* StoreMessageToDB under the room the client is in now; a row that is     *)
(* there is not stored again.  Without a database, or when any of the      *)
(* statements fails, the table is as it was.                               *)
StoreMessageToDB(l) ==
    LET stored == Line(chatRoomID, l.n, l.text)
        known == \E i \in DOMAIN MessageLog : SameKey(MessageLog[i], stored)
    IN  \/ /\ sqlite
           /\ MessageLog' = IF known THEN MessageLog ELSE Append(MessageLog, stored)
           /\ UNCHANGED unstored
        \/ /\ unstored' = unstored \cup {stored}
           /\ UNCHANGED MessageLog

(* The line is shown whether or not StoreMessageToDB reports an error.     *)
ProcessPacketBroadcastMessage ==
    /\ packet.kind = "broadcast"
    /\ StoreMessageToDB(packet.line)
    /\ packet' = [kind |-> "show", line |-> packet.line]
    /\ UNCHANGED <<process, window, UIListener, MessageListener, PacketChan, form,
                   rooms, chatRoomID, chatLogBuffer, sqlite, serverVars, roomVars>>

ShowMessage ==
    /\ packet.kind = "show"
    /\ PostMessage(Chat(packet.line))
    /\ packet' = NoPacket
    /\ UNCHANGED <<process, window, UIListener, PacketChan, form, rooms, globals,
                   serverVars, roomVars>>

(* DrawChatList makes its window when it has the list; curses may fail.    *)
DrawChatListPanics == Stop("no window")

(* _ChatListListener has no buffer: PacketProcess waits for DrawChatList   *)
(* and DrawChatList for PacketProcess.                                     *)
ProcessPacketViewAvailableChat ==
    /\ packet.kind = "view"
    /\ window = "ChatList"
    /\ \/ DrawChatListPanics
       \/ /\ rooms' = packet.rooms
          /\ window' = "pick"
          /\ packet' = NoPacket
          /\ UNCHANGED <<process, UIListener, MessageListener, PacketChan, form,
                         globals, serverVars, roomVars>>

PacketProcess ==
    \/ NextPacket \/ TellUI \/ ProcessPacketLogin \/ ProcessPacketCreateNewChat
    \/ ProcessPacketBroadcastMessage \/ ShowMessage
    \/ ProcessPacketViewAvailableChat

-----------------------------------------------------------------------------
(* DrawGUI.                                                                *)
Connected ==
    /\ window = "start"
    /\ MessageListener # <<>>
    /\ MessageListener' = Tail(MessageListener)
    /\ window' = "next"
    /\ UNCHANGED <<process, UIListener, PacketChan, packet, form, rooms, globals,
                   serverVars, roomVars>>

(* The next window.  Some names have no case, or one that does nothing.    *)
Open(name, w) ==
    /\ window = "next"
    /\ UIListener # <<>> /\ Head(UIListener) = name
    /\ UIListener' = Tail(UIListener)
    /\ window' = w
    /\ UNCHANGED <<process, MessageListener, PacketChan, packet, form, rooms, globals>>

OpenWindow ==
    /\ \E name \in {"BeforeLogin", "Sign In", "AfterLogin", "NewChat"} : Open(name, name)
    /\ UNCHANGED <<serverVars, roomVars>>

OpenNothing ==
    /\ Open("Kill", "next")
    /\ UNCHANGED <<serverVars, roomVars>>

OpenOldChat ==
    /\ Open("OldChat", "next")
    /\ Send([kind |-> "conn", room |-> chatRoomID])
    /\ UNCHANGED <<wire, created, made, sent, posts, roomVars>>

\* Mutant of OpenChatList: the list is asked for and not waited for.
OpenChatList_NoReceive ==
    /\ Open("ChatList", "next")
    /\ Send([kind |-> "view"])
    /\ UNCHANGED <<wire, created, made, sent, posts, roomVars>>

OpenChatList ==
    /\ Open("ChatList", "ChatList")
    /\ Send([kind |-> "view"])
    /\ UNCHANGED <<wire, created, made, sent, posts, roomVars>>

(* NewChatUIState, and the log area's variables.                           *)
OpenChatRoom ==
    /\ Open("InChat", "InChat")
    /\ turn' = "log" /\ log' = "draw" /\ signal' = FALSE /\ killSwitch' = FALSE
    /\ chatLog' = chatLogBuffer /\ startRow' = 0
    /\ UNCHANGED serverVars

\* Mutant of Choose: the window stays when it has posted.
Choose_Stays(w, name) ==
    /\ window = w
    /\ PostUI(name)
    /\ UNCHANGED <<process, window, MessageListener, PacketChan, packet, form, rooms,
                   globals, serverVars, roomVars>>

(* A menu entry is chosen in DrawBeforeLogin or DrawAfterLogin.            *)
Choose(w, name) ==
    /\ window = w
    /\ PostUI(name)
    /\ window' = "next"
    /\ UNCHANGED <<process, MessageListener, PacketChan, packet, form, rooms,
                   globals, serverVars, roomVars>>

SignIn == Choose("BeforeLogin", "Sign In")
CreateAccount == Choose("BeforeLogin", "Kill")
FindChatroom == Choose("AfterLogin", "ChatList")
ViewInvolvedInChatroom == Choose("AfterLogin", "OldChat")
GenerateNewChat ==
    /\ created < MaxRooms
    /\ Choose("AfterLogin", "NewChat")

(* The first column of the entry under the cursor; a menu without entries  *)
(* has none and the id is 0.                                               *)
SelectChatRoom ==
    /\ window = "pick"
    /\ chatRoomID' \in IF rooms = {} THEN {0} ELSE rooms
    /\ PostUI("OldChat")
    /\ window' = "next"
    /\ rooms' = {}
    /\ UNCHANGED <<process, MessageListener, PacketChan, packet, form,
                   chatLogBuffer, sqlite, MessageLog, unstored, serverVars, roomVars>>

-----------------------------------------------------------------------------
(* The forms of DrawLogin and DrawNewChat.                                 *)
Editing == window \in {"Sign In", "NewChat"}

Edit(f) ==
    /\ Editing
    /\ form' = f
    /\ UNCHANGED <<process, window, channels, rooms, globals, serverVars, roomVars>>

TypeKey ==
    \/ form.inFirst /\ form.first < MaxKeys /\ Edit([form EXCEPT !.first = @ + 1])
    \/ ~form.inFirst /\ form.second < MaxKeys /\ Edit([form EXCEPT !.second = @ + 1])

SwitchField == Edit([form EXCEPT !.inFirst = ~@])

\* Mutant of MayDelete: nothing is looked at.
MayDelete_Always == TRUE

(* Whichever field is edited, it is the first that is looked at.           *)
MayDelete == form.first > 0

Backspace ==
    /\ MayDelete
    /\ \/ form.inFirst /\ Edit([form EXCEPT !.first = @ - 1])
       \/ ~form.inFirst /\ form.second > 0 /\ Edit([form EXCEPT !.second = @ - 1])

(* pw[0 : len(pw)-1] of an empty pw.                                       *)
BackspacePanics ==
    /\ Editing
    /\ MayDelete
    /\ ~form.inFirst /\ form.second = 0
    /\ Stop("out of range")

Submit ==
    /\ Editing
    /\ form' = EmptyForm
    /\ window' = "next"
    /\ \/ window = "Sign In" /\ Send([kind |-> "login"]) /\ UNCHANGED created
       \/ /\ window = "NewChat" /\ Send([kind |-> "create"])
          /\ created' = created + 1
    /\ UNCHANGED <<process, channels, rooms, globals, wire, made, sent, posts,
                   roomVars>>

-----------------------------------------------------------------------------
(* DrawChatRoom: the log area.                                             *)
InRoom == window = "InChat"
roomFrame == <<process, window, UIListener, PacketChan, packet, form, rooms, globals>>

LogDraw ==
    /\ InRoom
    /\ log = "draw" /\ turn = "log"
    /\ turn' = "input"
    /\ signal' = FALSE
    /\ log' = "receive"
    /\ UNCHANGED <<roomFrame, MessageListener, serverVars, killSwitch, chatLog,
                   startRow>>

\* Mutant of ValidRow: a row behind the last entry is left as it is.
ValidRow_NoLast(row, n) ==
    IF row < 0 THEN IF n - Rows < 0 THEN 0 ELSE n - Rows ELSE row

(* ExtractValidVolumnChatlog: the row to start with, of a log of n entries *)
(* and a row that may be outside it, and the row before which to end.      *)
ValidRow(row, n) ==
    CASE row < 0 /\ n - Rows < 0   -> 0
      [] row < 0 /\ n - Rows >= 0  -> n - Rows
      [] row > n - 1 /\ n > 1      -> n - 1
      [] OTHER                     -> row

EndRow(row, n) == IF row + Rows > n THEN n ELSE row + Rows

(* The slice from a row to one before it.                                  *)
OutOfRange(row, n) == ValidRow(row, n) > EndRow(ValidRow(row, n), n)

ScrollTo(row) ==
    \/ /\ OutOfRange(row, Len(chatLog))
       /\ Stop("out of range")
    \/ /\ ~OutOfRange(row, Len(chatLog))
       /\ startRow' = ValidRow(row, Len(chatLog))
       /\ MessageListener' = Tail(MessageListener)
       /\ log' = "draw" /\ signal' = TRUE
       /\ UNCHANGED <<roomFrame, serverVars, turn, killSwitch, chatLog>>

Receives(item) ==
    /\ InRoom
    /\ log = "receive"
    /\ MessageListener # <<>> /\ Head(MessageListener) = item

LogScroll ==
    \/ Receives(Command("up")) /\ ScrollTo(startRow - 1)
    \/ Receives(Command("down")) /\ ScrollTo(startRow + 1)

LogQuit ==
    /\ Receives(Command("quit"))
    /\ MessageListener' = Tail(MessageListener)
    /\ log' = "done" /\ signal' = TRUE
    /\ UNCHANGED <<roomFrame, serverVars, turn, killSwitch, chatLog, startRow>>

\* Mutant of Received: the message that woke the log area is overwritten.
Received_Rest(items) == Lines(Tail(items))

(* A line, and all lines behind it; commands among them stay in the        *)
(* channel.                                                                *)
Received(items) == Lines(items)

LogReceive ==
    /\ InRoom
    /\ log = "receive"
    /\ MessageListener # <<>> /\ IsChat(Head(MessageListener))
    /\ chatLog' = chatLog \o Received(MessageListener)
    /\ startRow' = ValidRow(-1, Len(chatLog'))
    /\ MessageListener' =
         Kept(MessageListener, DOMAIN MessageListener \ Chats(MessageListener))
    /\ log' = "draw" /\ signal' = TRUE
    /\ UNCHANGED <<roomFrame, serverVars, turn, killSwitch>>

LogArea == LogDraw \/ LogScroll \/ LogQuit \/ LogReceive

-----------------------------------------------------------------------------
(* The input area and the option menu.                                     *)
InputMay == InRoom /\ turn = "input" /\ ~killSwitch

(* GetChar timed out, or a line was entered, after a message was received. *)
GiveWay ==
    /\ InputMay
    /\ signal
    /\ turn' = "log"
    /\ UNCHANGED <<roomFrame, MessageListener, serverVars, log, signal, killSwitch,
                   chatLog, startRow>>

\* Mutant of SendTransferMessage: the window is not given to the log area.
SendTransferMessage_KeepsTurn ==
    /\ InputMay /\ ~signal
    /\ posts < MaxPosts
    /\ posts' = posts + 1
    /\ Send([kind |-> "post", room |-> chatRoomID])
    /\ UNCHANGED <<roomFrame, MessageListener, wire, created, made, sent, roomVars>>

SendTransferMessage ==
    /\ InputMay /\ ~signal
    /\ posts < MaxPosts
    /\ posts' = posts + 1
    /\ Send([kind |-> "post", room |-> chatRoomID])
    /\ turn' = "log"
    /\ UNCHANGED <<roomFrame, MessageListener, wire, created, made, sent, log,
                   signal, killSwitch, chatLog, startRow>>

EnterScroll ==
    /\ InputMay /\ ~signal
    /\ \E c \in {"up", "down"} : PostMessage(Command(c))
    /\ turn' = "log"
    /\ UNCHANGED <<roomFrame, serverVars, log, signal, killSwitch, chatLog, startRow>>

EnterQuit ==
    /\ InputMay /\ ~signal
    /\ PostMessage(Command("quit"))
    /\ killSwitch' = TRUE
    /\ turn' = "option"
    /\ UNCHANGED <<roomFrame, serverVars, log, signal, chatLog, startRow>>

OpenOptions ==
    /\ InputMay
    /\ turn' = "option"
    /\ UNCHANGED <<roomFrame, MessageListener, serverVars, log, signal, killSwitch,
                   chatLog, startRow>>

ReturnChat ==
    /\ InRoom /\ turn = "option"
    /\ turn' = "input"
    /\ UNCHANGED <<roomFrame, MessageListener, serverVars, log, signal, killSwitch,
                   chatLog, startRow>>

ExitChat ==
    /\ InRoom /\ turn = "option"
    /\ PostMessage(Command("quit"))
    /\ killSwitch' = TRUE
    /\ turn' = "input"
    /\ UNCHANGED <<roomFrame, serverVars, log, signal, chatLog, startRow>>

(* wg.Wait returns when the log area has received its quit and the other   *)
(* two have seen killSwitch.                                               *)
LeaveRoom ==
    /\ InRoom
    /\ log = "done" /\ killSwitch /\ turn = "input"
    /\ PostUI("AfterLogin")
    /\ window' = "next"
    /\ UNCHANGED <<process, MessageListener, PacketChan, packet, form, rooms,
                   globals, serverVars, roomVars>>

-----------------------------------------------------------------------------
(* What the windows do without the user.                                   *)
DrawGUI ==
    \/ Connected
    \/ OpenWindow \/ OpenNothing \/ OpenOldChat \/ OpenChatList \/ OpenChatRoom
    \/ LogArea \/ GiveWay \/ LeaveRoom

User ==
    \/ SignIn \/ CreateAccount
    \/ FindChatroom \/ ViewInvolvedInChatroom \/ GenerateNewChat
    \/ SelectChatRoom
    \/ TypeKey \/ SwitchField \/ Backspace \/ BackspacePanics \/ Submit
    \/ SendTransferMessage \/ EnterScroll \/ EnterQuit
    \/ OpenOptions \/ ReturnChat \/ ExitChat

Next ==
    /\ Running
    /\ \/ ConnectServer \/ Disconnected \/ OnReceive
       \/ Server \/ PacketProcess \/ DrawGUI \/ User

Spec == Init /\ [][Next]_vars

(* The goroutines are scheduled and the server serves.  The user need not  *)
(* do anything but pause for a second now and then, which is what GiveWay  *)
(* takes, and select one of the rooms of an open list.                     *)
FairSpec ==
    /\ Spec
    /\ WF_vars(Running /\ (ConnectServer \/ OnReceive))
    /\ WF_vars(Running /\ Server)
    /\ WF_vars(Running /\ PacketProcess)
    /\ WF_vars(Running /\ DrawGUI)
    /\ WF_vars(Running /\ SelectChatRoom)

-----------------------------------------------------------------------------
(* Properties.                                                             *)

(* The state keeps its types and the channels their capacities.            *)
TypeOK ==
    /\ process \in {"running", "exited", "out of range", "nil client", "no window"}
    /\ window \in {"start", "next", "BeforeLogin", "Sign In", "AfterLogin", "NewChat",
                   "ChatList", "pick", "InChat"}
    /\ Len(UIListener) <= UIListenerSize
    /\ Len(MessageListener) <= ListenerSize
    /\ Len(PacketChan) <= PacketSize
    /\ form \in [first : 0 .. MaxKeys, second : 0 .. MaxKeys, inFirst : BOOLEAN]
    /\ rooms \subseteq 1 .. made
    /\ chatRoomID \in -1 .. made
    /\ made <= created /\ created <= MaxRooms
    /\ posts <= MaxPosts
    /\ startRow \in 0 .. Len(chatLog)
    /\ turn \in {"log", "input", "option"}
    /\ log \in {"draw", "receive", "done"}

(* DrawGUI takes from _UIListener what its own windows post to it: if the  *)
(* channel were full when a window posts, nobody would ever empty it.  An  *)
(* answer of the server only comes while DrawGUI waits for it.             *)
WindowNeverWaitsForItself ==
    window \in {"BeforeLogin", "AfterLogin", "pick"} \/ (InRoom /\ log = "done") =>
        UIListener = <<>>

(* The lines broadcast to the client that it has not put in a log yet.     *)
Underway ==
    LET packets == PacketChan \o wire
        broadcasts ==
            Kept(packets, {i \in DOMAIN packets : packets[i].kind = "broadcast"})
    IN  Lines(MessageListener)
          \o (IF packet.kind \in {"broadcast", "show"} THEN <<packet.line>> ELSE <<>>)
          \o [i \in DOMAIN broadcasts |-> broadcasts[i].line]

(* In a room, the log shows what was broadcast to it, in that order and    *)
(* nothing else, up to what is still under way.                            *)
LinesAreConserved ==
    InRoom => chatLog \o Underway = LinesOf(chatRoomID, sent)

(* A line never arrives when the user has left its room: it would fill     *)
(* _MessageListener, which nobody empties outside a room, be shown in the  *)
(* next room and be stored under that room's id.                           *)
QuietOutsideRooms == ~InRoom => Underway = <<>>

(* The row of a line is stored under the room that the client is in when   *)
(* the line arrives (game.go:431): all the same every row is a line that   *)
(* was broadcast to the row's own room.  A line that the log shows has its *)
(* row there, unless it has no number, when it shares a row with the other *)
(* such lines of the room, or storing it under that room failed, which     *)
(* nobody looks at.                                                        *)
StoredOrFailed ==
    /\ ToSet(MessageLog) \subseteq ToSet(sent)
    /\ InRoom =>
         \A l \in ToSet(chatLog) :
            \/ l \in ToSet(MessageLog) \cup unstored
            \/ l.n = -1 /\ \E m \in ToSet(MessageLog) : m.n = -1 /\ m.room = l.room

(* A slice is taken outside its range only of a second field that is empty *)
(* while the first is not, and for a scroll down in a log of less than two *)
(* entries: any other row and any other slice are brought into range.      *)
SlicesInRange ==
    process = "out of range" =>
        \/ Editing /\ ~form.inFirst /\ form.second = 0 /\ form.first > 0
        \/ InRoom /\ Len(chatLog) < 2 /\ Head(MessageListener) = Command("down")

(* Whatever the user does, PacketProcess is never held up for ever by a    *)
(* window that does not take what it posts.                                *)
EveryPacketIsProcessed ==
    wire # <<>> \/ PacketChan # <<>> ~>
        (wire = <<>> /\ PacketChan = <<>> /\ packet = NoPacket) \/ ~Running

(* game.go:111 describes the way "채팅방 접속 -> 채팅방 목록 중 하나 선택 ->  *)
(* 채팅방 접속": a room that is selected is entered.                        *)
SelectedRoomIsEntered ==
    window = "pick" /\ rooms # {} ~> InRoom \/ ~Running
=============================================================================
