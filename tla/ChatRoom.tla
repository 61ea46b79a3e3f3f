------------------------------ MODULE ChatRoom ------------------------------
(***************************************************************************)
(* The chat room window of the client (chat_ui/drawing.go): the three      *)
(* goroutines DrawChatLogArea, DrawChatRoomOptionArea and                  *)
(* DrawChatRoomInputArea that DrawChatRoom starts and waits for, the mutex *)
(* and the three condition variables of ChatUIState, and the channel       *)
(* messageListener, which outlives the room and which the goroutine that   *)
(* processes the server's packets also sends to.                           *)
(*                                                                         *)
(* A section of code that takes the mutex and gives it back without        *)
(* waiting for anything is one action.  The option and the input area keep *)
(* the mutex while they wait for a key or for room in the channel.         *)
(***************************************************************************)
EXTENDS Integers, Sequences

CONSTANTS
    ListenerSize,  \* the capacity of messageListener
    PendingSize,   \* the capacity of pending_command
    Exits,         \* bound: the ways the user leaves, of AllExits
    MaxMessages,   \* bound: the chat messages of other users
    MaxSent,       \* bound: the messages this user has under way
    MaxRooms       \* bound: how many rooms the user enters

AllExits == {"menu", "typed"}

ASSUME BoundAssumption ==
    /\ ListenerSize \in Nat \ {0}
    /\ PendingSize \in Nat \ {0}
    /\ Exits \subseteq AllExits
    /\ MaxMessages \in Nat
    /\ MaxSent \in Nat
    /\ MaxRooms \in Nat \ {0}

Area == {"log", "option", "input"}
Free == "free"

(* What goes through the channel: a chat message, "/c up" or "/c down", or *)
(* "quit".                                                                 *)
Control == {"scroll", "quit"}
Item    == {"chat"} \cup Control

(* What the input line holds.  An empty line is sent like any other text.  *)
Line   == {"text", "scroll", "quit"}
NoLine == "none"
Key    == {"timeout", "return", "arrow", "F1"}

VARIABLES
    listener,       \* messageListener
    mutex,          \* WindowMutex: the area that holds it, or Free
    asleep,         \* the areas inside the Wait of their condition variable
    isChatLogCond, isOptionCond, killSwitch,
    transferSignal, \* is_chat_transfer_signal
    backup,         \* backup_message
    pc,             \* where each area is
    msg,            \* the log area's msg
    pending,        \* the log area's pending_command
    line,           \* the input area's message
    key,            \* the key that ended the input area's loop
    owed,           \* messages sent to the server and not yet broadcast back
    messages,       \* how many messages other users have sent
    rooms           \* how many rooms the user has entered

flags    == <<isChatLogCond, isOptionCond, killSwitch>>
logVars  == <<msg, pending>>
lineVars == <<backup, line, key>>
netVars  == <<owed, messages>>
vars == <<listener, mutex, asleep, flags, transferSignal, pc, logVars,
          lineVars, netVars, rooms>>

TypeOK ==
    /\ listener \in Seq(Item)
    /\ Len(listener) <= ListenerSize
    /\ mutex \in {Free, "option", "input"}
    /\ asleep \subseteq Area
    /\ isChatLogCond \in BOOLEAN
    /\ isOptionCond \in BOOLEAN
    /\ killSwitch \in BOOLEAN
    /\ transferSignal \in BOOLEAN
    /\ backup \in Line \cup {NoLine}
    /\ pc \in [Area -> {"lock", "receive", "signal", "handle", "drain",
                        "requeue", "menu", "exit", "leave", "edit", "act",
                        "send", "done"}]
    /\ msg \in Item
    /\ pending \in Seq(Control)
    /\ Len(pending) <= PendingSize
    /\ line \in Line
    /\ key \in Key
    /\ owed \in 0 .. MaxSent
    /\ messages \in 0 .. MaxMessages
    /\ rooms \in 1 .. MaxRooms

(* NewChatUIState, and the areas as DrawChatRoom starts them.              *)
NewRoom ==
    [mutex |-> Free, asleep |-> {}, isChatLogCond |-> TRUE,
     isOptionCond |-> FALSE, killSwitch |-> FALSE, transferSignal |-> FALSE,
     backup |-> NoLine, pc |-> [a \in Area |-> "lock"], msg |-> "chat",
     pending |-> <<>>, line |-> "text", key |-> "timeout"]

Init ==
    /\ mutex = NewRoom.mutex
    /\ asleep = NewRoom.asleep
    /\ isChatLogCond = NewRoom.isChatLogCond
    /\ isOptionCond = NewRoom.isOptionCond
    /\ killSwitch = NewRoom.killSwitch
    /\ transferSignal = NewRoom.transferSignal
    /\ backup = NewRoom.backup
    /\ pc = NewRoom.pc
    /\ msg = NewRoom.msg
    /\ pending = NewRoom.pending
    /\ line = NewRoom.line
    /\ key = NewRoom.key
    /\ listener = <<>>
    /\ owed = 0
    /\ messages = 0
    /\ rooms = 1

-----------------------------------------------------------------------------
goto(a, l) == pc' = [pc EXCEPT ![a] = l]

(* The area holds the mutex at the head of its loop, having just taken it  *)
(* or been woken up.                                                       *)
Awake(a) == pc[a] = "lock" /\ a \notin asleep /\ mutex = Free

Broadcast(a) == asleep' = asleep \ {a}

\* Mutant of Room: a channel that never makes its sender wait.
Room_Always == TRUE

Room == Len(listener) < ListenerSize
Post(item) == Room /\ listener' = Append(listener, item)

(* Wait of an area whose loop condition says so.                           *)
Wait(a) ==
    /\ asleep' = asleep \cup {a}
    /\ UNCHANGED <<listener, mutex, flags, transferSignal, pc, logVars,
                   lineVars, netVars, rooms>>

LogMay    == isChatLogCond /\ ~isOptionCond
OptionMay == isOptionCond /\ ~isChatLogCond
\* Mutant of InputMay: the option menu is not waited for.
InputMay_NoOption == ~isChatLogCond

InputMay  == ~isChatLogCond /\ ~isOptionCond

-----------------------------------------------------------------------------
(* DrawChatLogArea.                                                        *)

LogWait == Awake("log") /\ ~LogMay /\ Wait("log")

\* Mutant of LogDraw: the signal is left as it was.
LogDraw_KeepsSignal ==
    /\ Awake("log")
    /\ LogMay
    /\ isChatLogCond' = FALSE
    /\ Broadcast("input")
    /\ goto("log", "receive")
    /\ UNCHANGED <<listener, mutex, isOptionCond, killSwitch, transferSignal,
                   logVars, lineVars, netVars, rooms>>

LogDraw ==
    /\ Awake("log")
    /\ LogMay
    /\ isChatLogCond' = FALSE
    /\ transferSignal' = FALSE
    /\ Broadcast("input")
    /\ goto("log", "receive")
    /\ UNCHANGED <<listener, mutex, isOptionCond, killSwitch, logVars,
                   lineVars, netVars, rooms>>

LogReceive ==
    /\ pc["log"] = "receive"
    /\ listener # <<>>
    /\ msg' = Head(listener)
    /\ listener' = Tail(listener)
    /\ goto("log", "signal")
    /\ UNCHANGED <<mutex, asleep, flags, transferSignal, pending, lineVars,
                   netVars, rooms>>

(* The signal is set without the mutex.                                    *)
LogSignal ==
    /\ pc["log"] = "signal"
    /\ transferSignal' = TRUE
    /\ goto("log", "handle")
    /\ UNCHANGED <<listener, mutex, asleep, flags, logVars, lineVars, netVars,
                   rooms>>

LogHandle ==
    /\ pc["log"] = "handle"
    /\ goto("log", CASE msg = "quit"   -> "done"
                     [] msg = "scroll" -> "lock"
                     [] msg = "chat"   -> "drain")
    /\ UNCHANGED <<listener, mutex, asleep, flags, transferSignal, logVars,
                   lineVars, netVars, rooms>>

(* Chat messages are taken at once, control strings are put aside.         *)
LogDrain ==
    /\ pc["log"] = "drain"
    /\ listener # <<>>
    /\ IF Head(listener) \in Control
       THEN Len(pending) < PendingSize /\ pending' = Append(pending, Head(listener))
       ELSE UNCHANGED pending
    /\ msg' = Head(listener)
    /\ listener' = Tail(listener)
    /\ UNCHANGED <<mutex, asleep, flags, transferSignal, pc, lineVars, netVars,
                   rooms>>

LogDrained ==
    /\ pc["log"] = "drain"
    /\ listener = <<>>
    /\ goto("log", "requeue")
    /\ UNCHANGED <<listener, mutex, asleep, flags, transferSignal, logVars,
                   lineVars, netVars, rooms>>

LogRequeue ==
    /\ pc["log"] = "requeue"
    /\ IF pending = <<>>
       THEN goto("log", "lock") /\ UNCHANGED <<listener, pending>>
       ELSE /\ Post(Head(pending))
            /\ pending' = Tail(pending)
            /\ UNCHANGED pc
    /\ UNCHANGED <<mutex, asleep, flags, transferSignal, msg, lineVars, netVars,
                   rooms>>

LogStep ==
    \/ LogWait \/ LogDraw \/ LogReceive \/ LogSignal \/ LogHandle
    \/ LogDrain \/ LogDrained \/ LogRequeue

-----------------------------------------------------------------------------
(* DrawChatRoomOptionArea.                                                 *)

OptionWait == Awake("option") /\ ~OptionMay /\ Wait("option")

OptionOpen ==
    /\ Awake("option")
    /\ OptionMay
    /\ mutex' = "option"
    /\ goto("option", "menu")
    /\ UNCHANGED <<listener, asleep, flags, transferSignal, logVars, lineVars,
                   netVars, rooms>>

OptionClose ==
    /\ isOptionCond' = FALSE
    /\ Broadcast("input")
    /\ mutex' = Free
    /\ goto("option", "leave")
    /\ UNCHANGED <<isChatLogCond, transferSignal, logVars, lineVars, netVars,
                   rooms>>

ReturnChat ==
    /\ pc["option"] = "menu"
    /\ OptionClose
    /\ UNCHANGED <<listener, killSwitch>>

(* Exit Chat is chosen; its "quit" may have to wait for room.              *)
ChooseExit ==
    /\ pc["option"] = "menu"
    /\ "menu" \in Exits
    /\ goto("option", "exit")
    /\ UNCHANGED <<listener, mutex, asleep, flags, transferSignal, logVars,
                   lineVars, netVars, rooms>>

ExitChat ==
    /\ pc["option"] = "exit"
    /\ Post("quit")
    /\ killSwitch' = TRUE
    /\ OptionClose

(* killSwitch is read after the mutex has been given back.                 *)
OptionLeave ==
    /\ pc["option"] = "leave"
    /\ goto("option", IF killSwitch THEN "done" ELSE "lock")
    /\ UNCHANGED <<listener, mutex, asleep, flags, transferSignal, logVars,
                   lineVars, netVars, rooms>>

OptionStep == OptionWait \/ OptionOpen \/ ExitChat \/ OptionLeave

-----------------------------------------------------------------------------
(* DrawChatRoomInputArea.                                                  *)

InputWait == Awake("input") /\ ~InputMay /\ Wait("input")

InputOpen ==
    /\ Awake("input")
    /\ InputMay
    /\ ~killSwitch
    /\ mutex' = "input"
    /\ line' = IF backup # NoLine THEN backup ELSE "text"
    /\ backup' = NoLine
    /\ goto("input", "edit")
    /\ UNCHANGED <<listener, asleep, flags, transferSignal, logVars, key,
                   netVars, rooms>>

(* The option area has left the room.                                      *)
InputKilled ==
    /\ Awake("input")
    /\ InputMay
    /\ killSwitch
    /\ backup' = NoLine
    /\ goto("input", "done")
    /\ UNCHANGED <<listener, mutex, asleep, flags, transferSignal, logVars,
                   line, key, netVars, rooms>>

Type(text) ==
    /\ pc["input"] = "edit"
    /\ text = "quit" => "typed" \in Exits
    /\ line' = text
    /\ UNCHANGED <<listener, mutex, asleep, flags, transferSignal, pc, logVars,
                   backup, key, netVars, rooms>>

\* Mutant of Timeout: the signal is not looked at.
Timeout_Ignored == FALSE /\ UNCHANGED vars

(* GetChar timed out, and a message has been received meanwhile.  Without  *)
(* one the loop just goes round.                                           *)
Timeout ==
    /\ pc["input"] = "edit"
    /\ transferSignal
    /\ backup' = line
    /\ key' = "timeout"
    /\ goto("input", "act")
    /\ UNCHANGED <<listener, mutex, asleep, flags, transferSignal, logVars,
                   line, netVars, rooms>>

PressReturn ==
    /\ pc["input"] = "edit"
    /\ line = "text" => owed < MaxSent
    /\ key' = "return"
    /\ goto("input", "act")
    /\ UNCHANGED <<listener, mutex, asleep, flags, transferSignal, logVars,
                   backup, line, netVars, rooms>>

PressArrow ==
    /\ pc["input"] = "edit"
    /\ key' = "arrow"
    /\ line' = "scroll"
    /\ goto("input", "act")
    /\ UNCHANGED <<listener, mutex, asleep, flags, transferSignal, logVars,
                   backup, netVars, rooms>>

PressF1 ==
    /\ pc["input"] = "edit"
    /\ key' = "F1"
    /\ backup' = line
    /\ goto("input", "act")
    /\ UNCHANGED <<listener, mutex, asleep, flags, transferSignal, logVars,
                   line, netVars, rooms>>

OpenOptions ==
    /\ pc["input"] = "act"
    /\ key = "F1"
    /\ isOptionCond' = TRUE
    /\ Broadcast("option")
    /\ mutex' = Free
    /\ goto("input", "lock")
    /\ UNCHANGED <<listener, isChatLogCond, killSwitch, transferSignal, logVars,
                   lineVars, netVars, rooms>>

\* Mutant of WakeLog: the condition is set and nobody is woken.
WakeLog_Silent ==
    /\ isChatLogCond' = TRUE
    /\ UNCHANGED asleep
    /\ mutex' = Free
    /\ goto("input", "lock")
    /\ UNCHANGED <<isOptionCond, killSwitch, transferSignal, logVars, lineVars,
                   messages, rooms>>

(* The log area is given the window.                                       *)
WakeLog ==
    /\ isChatLogCond' = TRUE
    /\ Broadcast("log")
    /\ mutex' = Free
    /\ goto("input", "lock")
    /\ UNCHANGED <<isOptionCond, killSwitch, transferSignal, logVars, lineVars,
                   messages, rooms>>

(* A message has been received: what was entered is not looked at.         *)
GiveWay ==
    /\ pc["input"] = "act"
    /\ key # "F1"
    /\ transferSignal
    /\ WakeLog
    /\ UNCHANGED <<listener, owed>>

Commit ==
    /\ pc["input"] = "act"
    /\ key # "F1"
    /\ ~transferSignal
    /\ goto("input", "send")
    /\ UNCHANGED <<listener, mutex, asleep, flags, transferSignal, logVars,
                   lineVars, netVars, rooms>>

SendText ==
    /\ pc["input"] = "send"
    /\ line = "text"
    /\ owed' = owed + 1
    /\ WakeLog
    /\ UNCHANGED listener

PostScroll ==
    /\ pc["input"] = "send"
    /\ line = "scroll"
    /\ Post("scroll")
    /\ WakeLog
    /\ UNCHANGED owed

PostQuit ==
    /\ pc["input"] = "send"
    /\ line = "quit"
    /\ Post("quit")
    /\ killSwitch' = TRUE
    /\ isOptionCond' = TRUE
    /\ Broadcast("option")
    /\ mutex' = Free
    /\ goto("input", "done")
    /\ UNCHANGED <<isChatLogCond, transferSignal, logVars, lineVars, netVars,
                   rooms>>

InputStep ==
    \/ InputWait \/ InputOpen \/ InputKilled
    \/ OpenOptions \/ GiveWay \/ Commit \/ SendText \/ PostScroll \/ PostQuit

User ==
    \/ \E text \in Line : Type(text)
    \/ PressReturn \/ PressArrow \/ PressF1 \/ ChooseExit

-----------------------------------------------------------------------------
(* The goroutine that processes packets sends every broadcast message to   *)
(* the channel, in a room or not; it waits when the channel is full.       *)

OthersMessage ==
    /\ messages < MaxMessages
    /\ messages' = messages + 1
    /\ Post("chat")
    /\ UNCHANGED <<mutex, asleep, flags, transferSignal, pc, logVars, lineVars,
                   owed, rooms>>

(* The broadcast of this user's own message; nothing says that it comes.   *)
OwnMessage ==
    /\ owed > 0
    /\ owed' = owed - 1
    /\ Post("chat")
    /\ UNCHANGED <<mutex, asleep, flags, transferSignal, pc, logVars, lineVars,
                   messages, rooms>>

(* wg.Wait returns; the user goes back to the menus and enters a room,     *)
(* which has a new ChatUIState and the old channel.                        *)
EnterRoom ==
    /\ \A a \in Area : pc[a] = "done"
    /\ rooms < MaxRooms
    /\ rooms' = rooms + 1
    /\ mutex' = NewRoom.mutex
    /\ asleep' = NewRoom.asleep
    /\ isChatLogCond' = NewRoom.isChatLogCond
    /\ isOptionCond' = NewRoom.isOptionCond
    /\ killSwitch' = NewRoom.killSwitch
    /\ transferSignal' = NewRoom.transferSignal
    /\ backup' = NewRoom.backup
    /\ pc' = NewRoom.pc
    /\ msg' = NewRoom.msg
    /\ pending' = NewRoom.pending
    /\ line' = NewRoom.line
    /\ key' = NewRoom.key
    /\ UNCHANGED <<listener, netVars>>

-----------------------------------------------------------------------------
Next ==
    \/ LogStep
    \/ OptionStep \/ ReturnChat
    \/ InputStep \/ Timeout \/ User
    \/ OthersMessage \/ OwnMessage
    \/ EnterRoom

Spec == Init /\ [][Next]_vars

(* A Go mutex is given to every goroutine that keeps asking for it.  The   *)
(* user closes an open menu and now and then pauses for a second, which is *)
(* what makes GetChar time out.  The server need not answer.               *)
Fairness ==
    /\ SF_vars(LogStep)
    /\ SF_vars(OptionStep)
    /\ SF_vars(InputStep)
    /\ SF_vars(Timeout)
    /\ WF_vars(ReturnChat \/ ChooseExit)

FairSpec == Spec /\ Fairness

-----------------------------------------------------------------------------
(* Properties.                                                             *)

(* No area sleeps through the change it is waiting for: whenever the flags *)
(* let an area go on, it is awake, whichever of the other two changed them *)
(* last and whatever was received without the mutex in between (the        *)
(* Broadcasts of drawing.go 634, 716, 831, 838, 852, 873).                 *)
NoLostWakeup ==
    /\ "log" \in asleep => ~LogMay
    /\ "option" \in asleep => ~OptionMay
    /\ "input" \in asleep => ~InputMay

(* The deadlock that the comment at drawing.go 739-766 reasons about: the  *)
(* input area may hand the window to the log area while that is blocked on *)
(* the channel only if something is in the channel or on its way from the  *)
(* server to wake it up.                                                   *)
NoStrandedInput ==
    isChatLogCond /\ pc["log"] = "receive" => listener # <<>> \/ owed > 0

(* The window belongs to one area at a time: when the option menu is open  *)
(* or a line is being edited, nobody has promised the window to the log.   *)
OneWindowOwner ==
    mutex # Free =>
        /\ ~isChatLogCond
        /\ isOptionCond <=> mutex = "option"

(* The room is stuck for ever at a full channel, from which only the log   *)
(* area takes: it waits for room itself, to give back what it put aside    *)
(* (drawing.go 672), or it waits for the window, and the area that has the *)
(* window waits for room (708, 849, 856).                                  *)
WindowWaits ==
    \/ mutex = "option" /\ pc["option"] = "exit"
    \/ mutex = "input" /\ pc["input"] = "send" /\ line # "text"

Stuck ==
    /\ ~Room
    /\ \/ pc["log"] = "requeue" /\ pending # <<>>
       \/ pc["log"] = "lock" /\ WindowWaits

(* A message that the log area has put into its buffer is drawn, whatever  *)
(* the user does and however many messages come meanwhile, unless the room *)
(* is being left or is stuck: nothing else, and no wake-up that is lost,   *)
(* keeps the window from the log area.                                     *)
ReceivedIsDrawn ==
    pc["log"] \in {"drain", "requeue", "lock"} ~>
        pc["log"] = "receive" \/ killSwitch \/ Stuck

(* drawing.go 638-642: the input area finds the signal within a second and *)
(* wakes the log area, so that the room can always be left (571).          *)
RoomIsLeft == killSwitch ~> \A a \in Area : pc[a] = "done"

(* drawing.go 752: "엔터를 눌러 break되면 서버에 전송되고 조건변수가 바뀌고 *)
(* lock을 놓음" - after Enter the line goes to the server or the channel.   *)
EnteredIsSent ==
    [][pc["input"] = "act" /\ key = "return"
          => pc'["input"] \in {"act", "send"}]_vars

=============================================================================
