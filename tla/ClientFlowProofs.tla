-------------------------- MODULE ClientFlowProofs --------------------------
(***************************************************************************)
(* Proofs about ClientFlow, for channels of any size, any number of rows   *)
(* and any number of rooms and lines.                                      *)
(*                                                                         *)
(* The argument: between the windows, the server and the packet loop there *)
(* is never more than one thing under way (OneThing), and which it can be  *)
(* depends on the window that DrawGUI is in (Kinds).  In a room a line     *)
(* under way keeps the turn away from the user (Room), so that nobody      *)
(* leaves before it is back.                                               *)
(***************************************************************************)
EXTENDS ClientFlow, SelectionProofs

-----------------------------------------------------------------------------
(* The inductive invariant.                                                *)

Quit == Command("quit")
LineSet == [room : Int, n : Int, text : Int]
Items == Commands \cup [line : LineSet]
Names == {"BeforeLogin", "Sign In", "AfterLogin", "NewChat", "ChatList", "Kill",
          "OldChat", "InChat"}
Outcomes == {"running", "exited", "out of range", "nil client", "no window"}
Windows == {"start", "next", "BeforeLogin", "Sign In", "AfterLogin", "NewChat",
            "ChatList", "pick", "InChat"}

Types ==
    /\ process \in Outcomes
    /\ window \in Windows
    /\ MessageListener \in Seq(Items)
    /\ Len(MessageListener) <= ListenerSize
    /\ form \in [first : 0 .. MaxKeys, second : 0 .. MaxKeys, inFirst : BOOLEAN]
    /\ rooms \subseteq 1 .. made
    /\ chatRoomID \in Int /\ -1 <= chatRoomID /\ chatRoomID <= made
    /\ made \in Nat /\ created \in Nat /\ posts \in Nat
    /\ made <= created /\ created <= MaxRooms /\ posts <= MaxPosts
    /\ chatLog \in Seq(LineSet) /\ sent \in Seq(LineSet)
    /\ MessageLog \in Seq(LineSet)
    /\ startRow \in Nat /\ startRow <= Len(chatLog)
    /\ turn \in {"log", "input", "option"}
    /\ log \in {"draw", "receive", "done"}
    /\ signal \in BOOLEAN /\ killSwitch \in BOOLEAN

(* There is at most one thing under way: a request, its answer in one of   *)
(* three places, or the name of a window.                                  *)
AtMostOne(q) == q = <<>> \/ q = <<q[1]>>

OneThing ==
    /\ AtMostOne(asked) /\ AtMostOne(wire) /\ AtMostOne(PacketChan)
    /\ AtMostOne(UIListener)
    /\ asked # <<>> => wire = <<>>
    /\ asked # <<>> \/ wire # <<>> => PacketChan = <<>>
    /\ asked # <<>> \/ wire # <<>> \/ PacketChan # <<>> => packet = NoPacket
    /\ asked # <<>> \/ wire # <<>> \/ PacketChan # <<>> \/ packet # NoPacket =>
         UIListener = <<>>

(* A room of which neither the server nor sqlite has a line.               *)
NoLineOf(r) ==
    /\ \A i \in DOMAIN sent : sent[i].room # r
    /\ \A i \in DOMAIN MessageLog : MessageLog[i].room # r
Fresh(r) == r \in Int /\ 1 <= r /\ r <= made /\ NoLineOf(r)

(* What a request, an answer and a window's name under way are, in each    *)
(* window.                                                                 *)
Request(r) ==
    /\ r.kind \in {"login", "create", "view", "conn", "post"}
    /\ r.kind \in {"login", "create", "conn"} => window = "next"
    /\ r.kind = "create" => made < created
    /\ r.kind = "view" => window = "ChatList"
    /\ r.kind = "post" => window = "InChat" /\ r.room = chatRoomID

IsSent(l) ==
    /\ l \in LineSet /\ l.room = chatRoomID
    /\ \E i \in DOMAIN sent : sent[i] = l

Answer(p) ==
    /\ p.kind \in {"login", "create", "view", "broadcast"}
    /\ p.kind = "login" => window = "next" /\ p.ok \in BOOLEAN
    /\ p.kind = "create" =>
         /\ window = "next" /\ p.ok \in BOOLEAN
         /\ p.ok => Fresh(p.room)
         /\ ~p.ok => p.room = -1
    /\ p.kind = "view" => window = "ChatList" /\ p.rooms \subseteq 1 .. made
    /\ p.kind = "broadcast" => window = "InChat" /\ IsSent(p.line)

(* A row of sqlite for every line that is shown, unless storing it failed. *)
HasRow(l) ==
    /\ l.n # -1 => \E i \in DOMAIN MessageLog : MessageLog[i] = l
    /\ \E i \in DOMAIN MessageLog : MessageLog[i].n = l.n /\ MessageLog[i].room = l.room
IsStored(l) == l \in unstored \/ HasRow(l)

NextWindow(m) ==
    /\ m \in Names
    /\ m = "BeforeLogin" => window \in {"start", "next"}
    /\ m # "BeforeLogin" => window = "next"
    /\ m = "NewChat" => created < MaxRooms
    /\ m = "InChat" => Fresh(chatRoomID) /\ chatLogBuffer = <<>>

Kinds ==
    /\ asked # <<>> => Request(asked[1])
    /\ wire # <<>> => Answer(wire[1])
    /\ PacketChan # <<>> => Answer(PacketChan[1])
    /\ \/ packet = NoPacket
       \/ Answer(packet)
       \/ packet.kind = "tell" /\ window = "next" /\ packet = Tell(packet.name)
            /\ NextWindow(packet.name)
       \/ packet.kind = "show" /\ window = "InChat" /\ IsSent(packet.line)
            /\ IsStored(packet.line)
    /\ UIListener # <<>> => NextWindow(UIListener[1])
    /\ window = "NewChat" => created < MaxRooms

(* Nothing is under way to or from the server.                             *)
Quiet == asked = <<>> /\ wire = <<>> /\ PacketChan = <<>> /\ packet = NoPacket

(* What waits for the log area: quits, and behind them at most one other   *)
(* thing.                                                                  *)
OnlyQuits(items) == \A i \in DOMAIN items : items[i] = Quit
QuitsFirst(items) == \A i \in DOMAIN items : i # Len(items) => items[i] = Quit

Listener ==
    /\ window = "start" =>
         /\ Quiet
         /\ MessageListener \in {<<>>, <<Command("success")>>}
         /\ MessageListener = <<>> => UIListener = <<>>
    /\ window # "start" => QuitsFirst(MessageListener)
    /\ window \notin {"start", "InChat"} => OnlyQuits(MessageListener)

(* The room: before the user has the turn, the log area listens, and what  *)
(* the user asked for keeps the turn until the log area has drawn.         *)
Room ==
    InRoom =>
        /\ chatRoomID \in Int /\ 1 <= chatRoomID
        /\ UIListener = <<>>
        /\ killSwitch => turn # "log"
        /\ log = "receive" => ~signal
        /\ log = "done" => signal
        /\ log = "draw" => turn = "log"
        /\ turn # "log" \/ log = "draw" => Quiet /\ OnlyQuits(MessageListener)
        /\ ~Quiet => OnlyQuits(MessageListener)

(* The lines that the server sent, and the rows of sqlite.                 *)
Numbers ==
    /\ \A i \in DOMAIN sent :
         /\ 1 <= sent[i].room /\ sent[i].room <= made
         /\ sent[i].n \in {i, -1}
    /\ \A i \in DOMAIN MessageLog : \E k \in DOMAIN sent : sent[k] = MessageLog[i]

(* The log of the room.                                                    *)
Shown ==
    InRoom =>
        /\ chatLog \o Underway = LinesOf(chatRoomID, sent)
        /\ \A i \in DOMAIN chatLog : IsStored(chatLog[i])
        /\ \A i \in DOMAIN MessageListener :
             IsChat(MessageListener[i]) => IsStored(MessageListener[i].line)

IInv ==
    Types /\ OneThing /\ Kinds /\ Listener /\ Room /\ Numbers /\ Shown /\ SlicesInRange

-----------------------------------------------------------------------------
(* Sequences of at most one element, and the last element of others.       *)
LEMMA LastOf ==
    ASSUME NEW S, NEW s \in Seq(S), s # <<>>
    PROVE  \E t \in Seq(S) :
             /\ Len(s) = Len(t) + 1 /\ s = Append(t, s[Len(s)]) /\ s[Len(s)] \in S
             /\ \A i \in 1 .. Len(t) : t[i] = s[i]
<1> DEFINE t == SubSeq(s, 1, Len(s) - 1)
<1>1. Len(s) \in Nat /\ Len(s) >= 1
  OBVIOUS
<1>2. t \in Seq(S) /\ Len(t) = Len(s) - 1 /\ \A i \in 1 .. Len(t) : t[i] = s[i]
  BY <1>1
<1>3. s = Append(t, s[Len(s)])
  BY <1>1, <1>2
<1>4. s[Len(s)] \in S
  BY <1>1
<1>5. Len(s) = Len(t) + 1
  BY <1>1, <1>2
<1> HIDE DEF t
<1> QED
  BY <1>2, <1>3, <1>4, <1>5

(* What a channel holds is a line or one of the commands.                  *)
LEMMA ItemKinds ==
    /\ \A l : Chat(l).line = l /\ IsChat(Chat(l))
    /\ \A l \in LineSet : Chat(l) \in Items
    /\ \A item \in Items : IsChat(item) => item = Chat(item.line) /\ item.line \in LineSet
    /\ \A c \in {"success", "up", "down", "quit"} :
          Command(c) \in Items /\ ~IsChat(Command(c))
<1>1. \A l : Chat(l).line = l
  BY DEF Chat
<1>2. ASSUME NEW l, NEW c PROVE Chat(l) # Command(c)
  <2>1. DOMAIN Chat(l) = {"line"} /\ DOMAIN Command(c) = {"command"}
    BY DEF Chat, Command
  <2> QED
    BY <2>1
<1>3. \A l : IsChat(Chat(l))
  BY <1>2 DEF IsChat, Commands
<1>4. \A l \in LineSet : Chat(l) \in Items
  BY DEF Items, Chat
<1>5. ASSUME NEW item \in Items, IsChat(item)
      PROVE  item = Chat(item.line) /\ item.line \in LineSet
  <2>1. item \in [line : LineSet]
    BY <1>5 DEF Items, IsChat
  <2> QED
    BY <2>1 DEF Chat
<1>6. \A c \in {"success", "up", "down", "quit"} :
          Command(c) \in Items /\ ~IsChat(Command(c))
  BY DEF Items, Commands, IsChat
<1> QED
  BY <1>1, <1>3, <1>4, <1>5, <1>6

(* Commands of different names are different items.                        *)
LEMMA CommandsDiffer ==
    ASSUME NEW c, NEW d, c # d PROVE Command(c) # Command(d)
<1>1. Command(c).command = c /\ Command(d).command = d
  BY DEF Command
<1> QED
  BY <1>1

(* Without a line in the channel, Lines has none.                          *)
LEMMA LinesNone ==
    ASSUME NEW items \in Seq(Items), \A i \in DOMAIN items : ~IsChat(items[i])
    PROVE  Lines(items) = <<>>
<1>1. Kept(items, Chats(items)) = <<>>
  BY KeptNone DEF Chats
<1>2. DOMAIN <<>> = {}
  OBVIOUS
<1>3. Lines(items) = [i \in {} |-> <<>>[i].line]
  BY <1>1, <1>2 DEF Lines
<1> QED
  BY <1>3

(* A line that is the last and only one is what Lines has.                 *)
LEMMA LinesLast ==
    ASSUME NEW items \in Seq(Items), items # <<>>, IsChat(items[Len(items)]),
           \A i \in DOMAIN items : i # Len(items) => ~IsChat(items[i])
    PROVE  /\ Lines(items) = <<items[Len(items)].line>>
           /\ items[Len(items)].line \in LineSet
<1>1. PICK t \in Seq(Items) :
             /\ Len(items) = Len(t) + 1 /\ items = Append(t, items[Len(items)])
             /\ items[Len(items)] \in Items
             /\ \A i \in 1 .. Len(t) : t[i] = items[i]
  BY LastOf
<1> DEFINE x == items[Len(items)]
           I == Chats(items)
<1>2. /\ \A i \in 1 .. Len(t) : i \notin I
      /\ Len(t) + 1 \in I
  BY <1>1 DEF Chats
<1>3. x \in Items /\ items = Append(t, x)
  BY <1>1
<1> HIDE DEF I, x
<1>4. Kept(items, I) = <<x>>
  BY <1>2, <1>3, KeptLast
<1>5. Lines(items) = [i \in DOMAIN <<x>> |-> <<x>>[i].line]
  BY <1>4 DEF Lines, I
<1>6. Lines(items) = <<x.line>>
  BY <1>5
<1>7. x.line \in LineSet
  BY <1>3, ItemKinds DEF x
<1> QED
  BY <1>6, <1>7 DEF x

(* What LogReceive takes and what it leaves, when there is only a line.    *)
LEMMA LinesOne ==
    ASSUME NEW l \in LineSet
    PROVE  /\ Lines(<<Chat(l)>>) = <<l>>
           /\ Kept(<<Chat(l)>>, DOMAIN <<Chat(l)>> \ Chats(<<Chat(l)>>)) = <<>>
<1> DEFINE q == <<Chat(l)>>
<1>1. q \in Seq(Items) /\ Len(q) = 1 /\ q[1] = Chat(l) /\ DOMAIN q = {1} /\ q # <<>>
  BY ItemKinds
<1>2. IsChat(q[1]) /\ q[1].line = l
  BY <1>1, ItemKinds
<1> HIDE DEF q
<1>3. Lines(q) = <<l>>
  BY <1>1, <1>2, LinesLast
<1>4. 1 \in Chats(q)
  BY <1>1, <1>2 DEF Chats
<1>5. Kept(q, DOMAIN q \ Chats(q)) = <<>>
  BY <1>1, <1>4, KeptNone
<1> QED
  BY <1>3, <1>5 DEF q

-----------------------------------------------------------------------------
(* Underway, by where the line is.                                         *)
Broadcasts(packets) ==
    LET broadcasts == Kept(packets, {i \in DOMAIN packets : packets[i].kind = "broadcast"})
    IN  [i \in DOMAIN broadcasts |-> broadcasts[i].line]
InFlight(items, p, packets) ==
    Lines(items) \o (IF p.kind \in {"broadcast", "show"} THEN <<p.line>> ELSE <<>>)
                 \o Broadcasts(packets)

(* Underway, from what it depends on, in both states of a step.            *)
LEMMA UnderwayIs ==
    /\ Underway = InFlight(MessageListener, packet, PacketChan \o wire)
    /\ Underway' = InFlight(MessageListener', packet', PacketChan' \o wire')
  BY DEF Underway, InFlight, Broadcasts

(* A packet of another kind is no broadcast.                               *)
LEMMA BroadcastsNone ==
    ASSUME NEW q, AtMostOne(q), q # <<>> => q[1].kind # "broadcast"
    PROVE  Broadcasts(q) = <<>>
<1> DEFINE I == {i \in DOMAIN q : q[i].kind = "broadcast"}
<1> DEFINE x == q[1]
<1>1. q \in Seq({x})
  <2>1. <<>> \in Seq({x}) /\ <<x>> \in Seq({x})
    <3> HIDE DEF x
    <3> QED
      OBVIOUS
  <2> QED
    BY <2>1 DEF AtMostOne
<1>2. \A i \in 1 .. Len(q) : i \notin I
  BY DEF AtMostOne
<1> HIDE DEF I
<1>3. Kept(q, I) = <<>>
  BY <1>1, <1>2, KeptNone
<1>4. Broadcasts(q) = [i \in DOMAIN <<>> |-> <<>>[i].line]
  BY <1>3 DEF Broadcasts, I
<1> QED
  BY <1>4

(* A single broadcast is a single line.                                    *)
LEMMA BroadcastsOne ==
    ASSUME NEW p, p.kind = "broadcast"
    PROVE  Broadcasts(<<p>>) = <<p.line>>
<1> DEFINE q == <<p>>
           I == {i \in DOMAIN q : q[i].kind = "broadcast"}
<1>1. <<>> \in Seq({p}) /\ q = Append(<<>>, p) /\ Len(<<>>) = 0
  OBVIOUS
<1>2. Len(<<>>) + 1 \in I /\ \A i \in 1 .. Len(<<>>) : i \notin I
  BY <1>1
<1> HIDE DEF I
<1>3. p \in {p}
  OBVIOUS
<1>5. Kept(Append(<<>>, p), I) = <<p>>
  BY <1>1, <1>2, <1>3, KeptLast
<1>6. Kept(q, I) = <<p>>
  BY <1>1, <1>5
<1>4. Broadcasts(q) = [i \in DOMAIN <<p>> |-> <<p>>[i].line]
  BY <1>6 DEF Broadcasts, I
<1> QED
  BY <1>4

(* Concatenation with nothing.                                             *)
LEMMA Concats ==
    /\ <<>> \o <<>> = <<>>
    /\ \A x : <<>> \o <<x>> = <<x>> /\ <<x>> \o <<>> = <<x>>
<1>1. <<>> \o <<>> = <<>>
  OBVIOUS
<1>2. ASSUME NEW x PROVE <<>> \o <<x>> = <<x>> /\ <<x>> \o <<>> = <<x>>
  <2>1. <<x>> \in Seq({x})
    OBVIOUS
  <2> QED
    BY <2>1
<1> QED
  BY <1>1, <1>2

(* No line in the three places: nothing is under way.                      *)
LEMMA InFlightNone ==
    ASSUME NEW items \in Seq(Items), \A i \in DOMAIN items : ~IsChat(items[i]),
           NEW p, p.kind \notin {"broadcast", "show"},
           NEW q, AtMostOne(q), q # <<>> => q[1].kind # "broadcast"
    PROVE  InFlight(items, p, q) = <<>>
  BY LinesNone, BroadcastsNone, Concats DEF InFlight

(* A broadcast on its way from the server is what is under way.            *)
LEMMA InFlightWire ==
    ASSUME NEW items \in Seq(Items), \A i \in DOMAIN items : ~IsChat(items[i]),
           NEW p, p.kind \notin {"broadcast", "show"},
           NEW b, b.kind = "broadcast"
    PROVE  InFlight(items, p, <<b>>) = <<b.line>>
<1>1. Lines(items) = <<>> /\ Broadcasts(<<b>>) = <<b.line>>
  BY LinesNone, BroadcastsOne
<1> QED
  BY <1>1, Concats DEF InFlight

(* So is the one that PacketProcess handles.                               *)
LEMMA InFlightPacket ==
    ASSUME NEW items \in Seq(Items), \A i \in DOMAIN items : ~IsChat(items[i]),
           NEW p, p.kind \in {"broadcast", "show"}
    PROVE  InFlight(items, p, <<>>) = <<p.line>>
<1>1. AtMostOne(<<>>)
  BY DEF AtMostOne
<1>2. Lines(items) = <<>> /\ Broadcasts(<<>>) = <<>>
  BY <1>1, LinesNone, BroadcastsNone
<1> QED
  BY <1>2, Concats DEF InFlight

(* So is the line that waits for the log area.                             *)
LEMMA InFlightListener ==
    ASSUME NEW items \in Seq(Items), items # <<>>, IsChat(items[Len(items)]),
           \A i \in DOMAIN items : i # Len(items) => ~IsChat(items[i]),
           NEW p, p.kind \notin {"broadcast", "show"}
    PROVE  InFlight(items, p, <<>>) = <<items[Len(items)].line>>
<1>1. AtMostOne(<<>>)
  BY DEF AtMostOne
<1>2. Lines(items) = <<items[Len(items)].line>>
  BY LinesLast
<1>3. Broadcasts(<<>>) = <<>>
  BY <1>1, BroadcastsNone
<1> QED
  BY <1>2, <1>3, Concats DEF InFlight

(* The lines of a room, when one is added, and when there are none.        *)
LEMMA LinesOfAppend ==
    ASSUME NEW lines \in Seq(LineSet), NEW l \in LineSet
    PROVE  LinesOf(l.room, Append(lines, l)) = Append(LinesOf(l.room, lines), l)
<1> DEFINE t == Append(lines, l)
           I == {i \in DOMAIN lines : lines[i].room = l.room}
           J == {i \in DOMAIN t : t[i].room = l.room}
<1>1. Len(t) = Len(lines) + 1 /\ t[Len(lines) + 1] = l
      /\ \A i \in 1 .. Len(lines) : t[i] = lines[i]
  OBVIOUS
<1>2. \A i \in 1 .. Len(lines) : i \in I <=> i \in J
  BY <1>1
<1>3. Len(lines) + 1 \in J
  BY <1>1
<1> HIDE DEF I, J
<1>4. Kept(t, J) = Append(Kept(lines, I), l)
  BY <1>2, <1>3, KeptAppend
<1> QED
  BY <1>4 DEF LinesOf, I, J

(* A room that has no line yet.                                            *)
LEMMA LinesOfNone ==
    ASSUME NEW lines \in Seq(LineSet), NEW r, \A i \in DOMAIN lines : lines[i].room # r
    PROVE  LinesOf(r, lines) = <<>>
  BY KeptNone DEF LinesOf

(* The fields of a line.                                                   *)
LEMMA LineFields ==
    ASSUME NEW q \in Seq(LineSet), NEW i \in DOMAIN q
    PROVE  q[i] \in LineSet /\ q[i].room \in Int /\ q[i].n \in Int /\ q[i].text \in Int
<1>1. q[i] \in LineSet
  OBVIOUS
<1> QED
  BY <1>1 DEF LineSet

-----------------------------------------------------------------------------
(* The initial state.                                                      *)
LEMMA InitIInv == Init => IInv
<1> SUFFICES ASSUME Init PROVE IInv
  OBVIOUS
<1> USE DEF Init
<1>1. Types
  <2>1. form \in [first : 0 .. MaxKeys, second : 0 .. MaxKeys, inFirst : BOOLEAN]
    BY ClientFlowAssumption DEF EmptyForm
  <2>2. MessageListener \in Seq(Items) /\ Len(MessageListener) <= ListenerSize
    BY ClientFlowAssumption
  <2>3. /\ chatLog \in Seq(LineSet) /\ sent \in Seq(LineSet) /\ MessageLog \in Seq(LineSet)
        /\ startRow \in Nat /\ startRow <= Len(chatLog)
    OBVIOUS
  <2>4. /\ made <= created /\ created <= MaxRooms /\ posts <= MaxPosts
        /\ -1 <= chatRoomID /\ chatRoomID <= made
    BY ClientFlowAssumption
  <2>5. /\ process \in Outcomes /\ window \in Windows
        /\ made \in Nat /\ created \in Nat /\ posts \in Nat /\ chatRoomID \in Int
        /\ rooms \subseteq 1 .. made
    BY DEF Windows, Outcomes
  <2>6. /\ turn \in {"log", "input", "option"} /\ log \in {"draw", "receive", "done"}
        /\ signal \in BOOLEAN /\ killSwitch \in BOOLEAN
    OBVIOUS
  <2> QED
    BY <2>1, <2>2, <2>3, <2>4, <2>5, <2>6 DEF Types
<1>2. OneThing
  BY DEF OneThing, AtMostOne
<1>3. Kinds
  BY DEF Kinds
<1>4. Listener
  BY DEF Listener, Quiet
<1>5. Room /\ Shown
  BY DEF Room, Shown, InRoom
<1>6. Numbers
  BY DEF Numbers
<1>7. SlicesInRange
  BY DEF SlicesInRange
<1> QED
  BY <1>1, <1>2, <1>3, <1>4, <1>5, <1>6, <1>7 DEF IInv

(* A step that changes nothing.                                            *)
LEMMA StutterKeeps ==
    ASSUME IInv, UNCHANGED vars
    PROVE  IInv'
<1>1. /\ process' = process
      /\ window' = window
      /\ UIListener' = UIListener
      /\ MessageListener' = MessageListener
      /\ form' = form
      /\ rooms' = rooms
      /\ chatRoomID' = chatRoomID
      /\ chatLogBuffer' = chatLogBuffer
      /\ PacketChan' = PacketChan
      /\ packet' = packet
      /\ asked' = asked
      /\ wire' = wire
      /\ created' = created
      /\ made' = made
      /\ sent' = sent
      /\ posts' = posts
      /\ MessageLog' = MessageLog /\ unstored' = unstored
      /\ turn' = turn
      /\ log' = log
      /\ signal' = signal
      /\ killSwitch' = killSwitch
      /\ chatLog' = chatLog
      /\ startRow' = startRow
  BY DEF vars, channels, globals, serverVars, roomVars
<1>2. Underway' = Underway
  BY <1>1, UnderwayIs
<1>3. Types' /\ OneThing' /\ Numbers'
  BY <1>1 DEF IInv, Types, OneThing, Numbers
<1>6. Listener' /\ Room'
  BY <1>1 DEF IInv, Listener, Room, InRoom, Quiet
<1>7. SlicesInRange'
  BY <1>1 DEF IInv, SlicesInRange, InRoom, Editing
<1>4. Kinds'
  BY <1>1 DEF IInv, Kinds, Request, Answer, IsSent, IsStored, HasRow, NextWindow, Fresh,
     NoLineOf
<1>5. Shown'
  BY <1>1, <1>2 DEF IInv, Shown, IsStored, HasRow, InRoom
<1> QED
  BY <1>3, <1>4, <1>5, <1>6, <1>7 DEF IInv

(* A step after which the same things are under way.                       *)
LEMMA KindsStay ==
    ASSUME Kinds,
           window' = window, UIListener' = UIListener, PacketChan' = PacketChan,
           packet' = packet, asked' = asked, wire' = wire, created' = created,
           made' = made, sent' = sent, chatRoomID' = chatRoomID,
           chatLogBuffer' = chatLogBuffer, MessageLog' = MessageLog,
           unstored' = unstored
    PROVE  Kinds'
<1>1. \A x : Answer(x) => Answer(x)'
  BY DEF Answer, Fresh, NoLineOf, IsSent
<1>2. \A x : NextWindow(x) => NextWindow(x)'
  BY DEF NextWindow, Fresh, NoLineOf
<1>3. \A x : Request(x) => Request(x)'
  BY DEF Request
<1>4. \A x : IsSent(x) /\ IsStored(x) => IsSent(x)' /\ IsStored(x)'
  BY DEF IsSent, IsStored, HasRow
<1> QED
  BY <1>1, <1>2, <1>3, <1>4 DEF Kinds

-----------------------------------------------------------------------------
(* The main goroutine, and a process that ends for any reason but a slice. *)
LEMMA StopKeeps ==
    ASSUME IInv, Running, NEW how \in Outcomes \ {"out of range"}, Stop(how)
    PROVE  IInv'
<1>1. Types /\ OneThing /\ Kinds /\ Listener /\ Room /\ Numbers /\ Shown /\ Running
  BY DEF IInv
<1>2. /\ process' = how
      /\ window' = window /\ UIListener' = UIListener
      /\ MessageListener' = MessageListener /\ form' = form /\ rooms' = rooms
      /\ chatRoomID' = chatRoomID /\ chatLogBuffer' = chatLogBuffer
      /\ PacketChan' = PacketChan /\ packet' = packet /\ asked' = asked
      /\ wire' = wire /\ created' = created /\ made' = made /\ sent' = sent
      /\ posts' = posts /\ MessageLog' = MessageLog /\ unstored' = unstored
      /\ turn' = turn
      /\ log' = log /\ signal' = signal /\ killSwitch' = killSwitch
      /\ chatLog' = chatLog /\ startRow' = startRow
  BY <1>1 DEF Stop, channels, globals, serverVars, roomVars
<1>3. Types'
  BY <1>1, <1>2 DEF Types, Outcomes
<1>4. OneThing'
  BY <1>1, <1>2 DEF OneThing
<1>5. Kinds'
  BY <1>1, <1>2, KindsStay
<1>6. Listener'
  BY <1>1, <1>2 DEF Listener, Quiet
<1>7. Room'
  BY <1>1, <1>2 DEF Room, InRoom, Quiet
<1>8. Numbers'
  BY <1>1, <1>2 DEF Numbers
<1>9. Shown'
  BY <1>1, <1>2, UnderwayIs DEF Shown, InRoom, IsStored, HasRow
<1>10. SlicesInRange'
  BY <1>2 DEF SlicesInRange, Outcomes
<1> QED
  BY <1>3, <1>4, <1>5, <1>6, <1>7, <1>8, <1>9, <1>10 DEF IInv

LEMMA DisconnectedKeeps ==
    ASSUME IInv, Running, Disconnected
    PROVE  IInv'
  BY StopKeeps DEF Disconnected, Outcomes

(* The connection: the two posts are the only things under way.            *)
LEMMA ConnectServerKeeps ==
    ASSUME IInv, Running, ConnectServer
    PROVE  IInv'
<1>1. Types /\ OneThing /\ Kinds /\ Listener /\ Room /\ Numbers /\ Shown /\ Running
  BY DEF IInv
<1>2. /\ window = "start" /\ MessageListener = <<>>
      /\ MessageListener' = <<Command("success")>>
      /\ UIListener = <<>> /\ UIListener' = <<"BeforeLogin">>
      /\ process' = process /\ window' = window /\ form' = form
      /\ rooms' = rooms /\ chatRoomID' = chatRoomID
      /\ chatLogBuffer' = chatLogBuffer /\ PacketChan' = PacketChan
      /\ packet' = packet /\ asked' = asked /\ wire' = wire
      /\ created' = created /\ made' = made /\ sent' = sent /\ posts' = posts
      /\ MessageLog' = MessageLog /\ unstored' = unstored
      /\ turn' = turn /\ log' = log
      /\ signal' = signal /\ killSwitch' = killSwitch /\ chatLog' = chatLog
      /\ startRow' = startRow
  BY <1>1 DEF ConnectServer, PostUI, PostMessage, UIListenerSize, Listener,
     channels, globals, serverVars, roomVars
<1>3. Types'
  <2>1. MessageListener' \in Seq(Items) /\ Len(MessageListener') <= ListenerSize
    BY <1>2, ItemKinds, ClientFlowAssumption
  <2> QED
    BY <1>1, <1>2, <2>1 DEF Types
<1>4. OneThing'
  BY <1>1, <1>2 DEF OneThing, AtMostOne, Listener, Quiet
<1>5. Kinds'
  BY <1>1, <1>2 DEF Kinds, Request, Answer, IsSent, IsStored, HasRow, NextWindow, Fresh,
     NoLineOf, Tell, NoPacket, Names
<1>6. Listener'
  BY <1>1, <1>2 DEF Listener, Quiet, OnlyQuits, QuitsFirst, NoPacket
<1>7. Room'
  BY <1>1, <1>2 DEF Room, InRoom, Quiet, OnlyQuits, NoPacket
<1>8. Numbers'
  BY <1>1, <1>2 DEF Numbers
<1>9. Shown'
  BY <1>1, <1>2, UnderwayIs DEF Shown, InRoom, IsStored, HasRow
<1>10. SlicesInRange'
  BY <1>1, <1>2 DEF SlicesInRange, Running
<1> QED
  BY <1>3, <1>4, <1>5, <1>6, <1>7, <1>8, <1>9, <1>10 DEF IInv

(* An answer moves from the connection to PacketChan.                      *)
LEMMA OnReceiveKeeps ==
    ASSUME IInv, Running, OnReceive
    PROVE  IInv'
<1>1. Types /\ OneThing /\ Kinds /\ Listener /\ Room /\ Numbers /\ Shown /\ Running
  BY DEF IInv
<1>2. /\ wire = <<wire[1]>> /\ wire # <<>> /\ PacketChan = <<>>
      /\ wire' = <<>> /\ PacketChan' = <<wire[1]>>
      /\ process' = process /\ window' = window /\ UIListener' = UIListener
      /\ MessageListener' = MessageListener /\ form' = form /\ rooms' = rooms
      /\ chatRoomID' = chatRoomID /\ chatLogBuffer' = chatLogBuffer
      /\ packet' = packet /\ asked' = asked /\ created' = created
      /\ made' = made /\ sent' = sent /\ posts' = posts
      /\ MessageLog' = MessageLog /\ unstored' = unstored
      /\ turn' = turn /\ log' = log
      /\ signal' = signal /\ killSwitch' = killSwitch /\ chatLog' = chatLog
      /\ startRow' = startRow
  BY <1>1 DEF OnReceive, OneThing, AtMostOne, channels, globals, serverVars,
     roomVars
<1>a. Quiet' <=> Quiet
  BY <1>2 DEF Quiet
<1>b. Underway' = Underway
  <2>1. PacketChan \o wire = PacketChan' \o wire'
    BY <1>2, Concats
  <2> QED
    BY <1>2, <2>1, UnderwayIs
<1>3. Types'
  BY <1>1, <1>2 DEF Types
<1>4. OneThing'
  BY <1>1, <1>2 DEF OneThing, AtMostOne
<1>5. Kinds'
  <2>1. IsStored(packet.line)' <=> IsStored(packet.line)
    BY <1>2 DEF IsStored, HasRow
  <2> QED
    BY <1>1, <1>2, <2>1 DEF Kinds, Request, Answer, IsSent, NextWindow, Fresh,
       NoLineOf
<1>6. Listener'
  BY <1>1, <1>2, <1>a DEF Listener
<1>7. Room'
  BY <1>1, <1>2, <1>a DEF Room, InRoom
<1>8. Numbers'
  BY <1>1, <1>2 DEF Numbers
<1>9. Shown'
  BY <1>1, <1>2, <1>b DEF Shown, InRoom, IsStored, HasRow
<1>10. SlicesInRange'
  BY <1>1, <1>2 DEF SlicesInRange, Running
<1> QED
  BY <1>3, <1>4, <1>5, <1>6, <1>7, <1>8, <1>9, <1>10 DEF IInv

-----------------------------------------------------------------------------
(* Nothing is behind the only element.                                     *)
LEMMA TailOne ==
    ASSUME NEW s, s = <<s[1]>>
    PROVE  Tail(s) = <<>>
<1> PICK e : e = s[1]
  OBVIOUS
<1>1. s = <<e>>
  OBVIOUS
<1>2. Tail(<<e>>) = <<>>
  OBVIOUS
<1> QED
  BY <1>1, <1>2

(* What an answer leaves as it was.                                        *)
LEMMA ReplyFrame ==
    ASSUME NEW answers, Reply(answers)
    PROVE  /\ asked' = Tail(asked)
           /\ process' = process /\ window' = window /\ UIListener' = UIListener
           /\ MessageListener' = MessageListener /\ form' = form /\ rooms' = rooms
           /\ chatRoomID' = chatRoomID /\ chatLogBuffer' = chatLogBuffer
           /\ PacketChan' = PacketChan /\ packet' = packet /\ created' = created
           /\ posts' = posts /\ MessageLog' = MessageLog /\ unstored' = unstored
           /\ turn' = turn /\ log' = log /\ signal' = signal
           /\ killSwitch' = killSwitch /\ chatLog' = chatLog
           /\ startRow' = startRow
  BY DEF Reply, channels, globals, serverVars, roomVars

(* The server.                                                             *)
LEMMA AnswerLoginKeeps ==
    ASSUME IInv, Running, AnswerLogin
    PROVE  IInv'
<1>1. Types /\ OneThing /\ Kinds /\ Listener /\ Room /\ Numbers /\ Shown /\ Running
  BY DEF IInv
<1>a. asked # <<>> /\ asked = <<asked[1]>> /\ Head(asked) = asked[1]
      /\ wire = <<>> /\ PacketChan = <<>> /\ packet = NoPacket /\ UIListener = <<>>
  BY <1>1 DEF AnswerLogin, OneThing, AtMostOne
<1>b. \E ok \in BOOLEAN : wire' = <<[kind |-> "login", ok |-> ok]>>
  <2>1. PICK ok \in BOOLEAN : wire' = wire \o <<[kind |-> "login", ok |-> ok]>>
    BY DEF AnswerLogin, Reply
  <2> QED
    BY <1>a, <2>1, Concats
<1>2. /\ asked = <<asked[1]>> /\ asked # <<>> /\ asked' = <<>>
      /\ wire = <<>> /\ PacketChan = <<>> /\ packet = NoPacket /\ UIListener = <<>>
      /\ asked[1].kind = "login"
      /\ \E ok \in BOOLEAN : wire' = <<[kind |-> "login", ok |-> ok]>>
      /\ process' = process /\ window' = window /\ UIListener' = UIListener
      /\ MessageListener' = MessageListener /\ form' = form /\ rooms' = rooms
      /\ chatRoomID' = chatRoomID /\ chatLogBuffer' = chatLogBuffer
      /\ PacketChan' = PacketChan /\ packet' = packet /\ created' = created
      /\ made' = made /\ sent' = sent /\ posts' = posts
      /\ MessageLog' = MessageLog /\ unstored' = unstored
      /\ turn' = turn /\ log' = log
      /\ signal' = signal /\ killSwitch' = killSwitch /\ chatLog' = chatLog
      /\ startRow' = startRow
  <2>1. PICK answers : Reply(answers)
    BY DEF AnswerLogin
  <2>2. made' = made /\ sent' = sent /\ asked[1].kind = "login"
    BY <1>a DEF AnswerLogin
  <2>3. asked' = <<>>
    BY <1>a, <2>1, ReplyFrame, TailOne
  <2> QED
    BY <1>a, <1>b, <2>1, <2>2, <2>3, ReplyFrame
<1>o. ~InRoom /\ ~InRoom'
  BY <1>1, <1>2 DEF InRoom, Kinds, Request
<1>3. Types'
  BY <1>1, <1>2 DEF Types
<1>4. OneThing'
  BY <1>1, <1>2 DEF OneThing, AtMostOne
<1>5. Kinds'
  BY <1>1, <1>2 DEF Kinds, Request, Answer, IsSent, IsStored, HasRow, NextWindow, Fresh,
     NoLineOf, Tell, NoPacket, Names
<1>6. Listener'
  BY <1>1, <1>2 DEF Listener, Quiet, OnlyQuits, QuitsFirst, NoPacket
<1>7. Room'
  BY <1>o DEF Room
<1>8. Numbers'
  BY <1>1, <1>2 DEF Numbers
<1>9. Shown'
  BY <1>o DEF Shown
<1>10. SlicesInRange'
  BY <1>1, <1>2 DEF SlicesInRange, Running
<1> QED
  BY <1>3, <1>4, <1>5, <1>6, <1>7, <1>8, <1>9, <1>10 DEF IInv

(* The list of rooms is for the window that asked for it.                  *)
LEMMA AnswerViewKeeps ==
    ASSUME IInv, Running, AnswerView
    PROVE  IInv'
<1>1. Types /\ OneThing /\ Kinds /\ Listener /\ Room /\ Numbers /\ Shown /\ Running
  BY DEF IInv
<1>a. asked # <<>> /\ asked = <<asked[1]>> /\ Head(asked) = asked[1]
      /\ wire = <<>> /\ PacketChan = <<>> /\ packet = NoPacket /\ UIListener = <<>>
  BY <1>1 DEF AnswerView, OneThing, AtMostOne
<1>b. wire' = <<[kind |-> "view", rooms |-> 1 .. made]>>
  <2>1. wire' = wire \o <<[kind |-> "view", rooms |-> 1 .. made]>>
    BY DEF AnswerView, Reply
  <2> QED
    BY <1>a, <2>1, Concats
<1>2. /\ asked = <<asked[1]>> /\ asked # <<>> /\ asked' = <<>>
      /\ wire = <<>> /\ PacketChan = <<>> /\ packet = NoPacket /\ UIListener = <<>>
      /\ asked[1].kind = "view"
      /\ wire' = <<[kind |-> "view", rooms |-> 1 .. made]>>
      /\ process' = process /\ window' = window /\ UIListener' = UIListener
      /\ MessageListener' = MessageListener /\ form' = form /\ rooms' = rooms
      /\ chatRoomID' = chatRoomID /\ chatLogBuffer' = chatLogBuffer
      /\ PacketChan' = PacketChan /\ packet' = packet /\ created' = created
      /\ made' = made /\ sent' = sent /\ posts' = posts
      /\ MessageLog' = MessageLog /\ unstored' = unstored
      /\ turn' = turn /\ log' = log
      /\ signal' = signal /\ killSwitch' = killSwitch /\ chatLog' = chatLog
      /\ startRow' = startRow
  BY <1>1, <1>a, <1>b DEF AnswerView, Reply, channels, globals, serverVars,
     roomVars
<1>o. ~InRoom /\ ~InRoom'
  BY <1>1, <1>2 DEF InRoom, Kinds, Request
<1>3. Types'
  BY <1>1, <1>2 DEF Types
<1>4. OneThing'
  BY <1>1, <1>2 DEF OneThing, AtMostOne
<1>5. Kinds'
  BY <1>1, <1>2 DEF Kinds, Request, Answer, IsSent, IsStored, HasRow, NextWindow, Fresh,
     NoLineOf, Tell, NoPacket, Names
<1>6. Listener'
  BY <1>1, <1>2 DEF Listener, Quiet, OnlyQuits, QuitsFirst, NoPacket
<1>7. Room'
  BY <1>o DEF Room
<1>8. Numbers'
  BY <1>1, <1>2 DEF Numbers
<1>9. Shown'
  BY <1>o DEF Shown
<1>10. SlicesInRange'
  BY <1>1, <1>2 DEF SlicesInRange, Running
<1> QED
  BY <1>3, <1>4, <1>5, <1>6, <1>7, <1>8, <1>9, <1>10 DEF IInv

(* A request without an answer leaves nothing under way.                   *)
LEMMA IgnoreConnKeeps ==
    ASSUME IInv, Running, IgnoreConn
    PROVE  IInv'
<1>1. Types /\ OneThing /\ Kinds /\ Listener /\ Room /\ Numbers /\ Shown /\ Running
  BY DEF IInv
<1>a. asked # <<>> /\ asked = <<asked[1]>> /\ Head(asked) = asked[1]
      /\ wire = <<>> /\ PacketChan = <<>> /\ packet = NoPacket /\ UIListener = <<>>
  BY <1>1 DEF IgnoreConn, OneThing, AtMostOne
<1>2. /\ asked = <<asked[1]>> /\ asked # <<>> /\ asked' = <<>>
      /\ wire = <<>> /\ PacketChan = <<>> /\ packet = NoPacket /\ UIListener = <<>>
      /\ asked[1].kind = "conn"
      /\ wire' = <<>>
      /\ process' = process /\ window' = window /\ UIListener' = UIListener
      /\ MessageListener' = MessageListener /\ form' = form /\ rooms' = rooms
      /\ chatRoomID' = chatRoomID /\ chatLogBuffer' = chatLogBuffer
      /\ PacketChan' = PacketChan /\ packet' = packet /\ created' = created
      /\ made' = made /\ sent' = sent /\ posts' = posts
      /\ MessageLog' = MessageLog /\ unstored' = unstored
      /\ turn' = turn /\ log' = log
      /\ signal' = signal /\ killSwitch' = killSwitch /\ chatLog' = chatLog
      /\ startRow' = startRow
  BY <1>1, <1>a, Concats DEF IgnoreConn, Reply, channels, globals, serverVars,
     roomVars
<1>o. ~InRoom /\ ~InRoom'
  BY <1>1, <1>2 DEF InRoom, Kinds, Request
<1>3. Types'
  BY <1>1, <1>2 DEF Types
<1>4. OneThing'
  BY <1>1, <1>2 DEF OneThing, AtMostOne
<1>5. Kinds'
  BY <1>1, <1>2 DEF Kinds, Request, Answer, IsSent, IsStored, HasRow, NextWindow, Fresh,
     NoLineOf, Tell, NoPacket, Names
<1>6. Listener'
  BY <1>1, <1>2 DEF Listener, Quiet, OnlyQuits, QuitsFirst, NoPacket
<1>7. Room'
  BY <1>o DEF Room
<1>8. Numbers'
  BY <1>1, <1>2 DEF Numbers
<1>9. Shown'
  BY <1>o DEF Shown
<1>10. SlicesInRange'
  BY <1>1, <1>2 DEF SlicesInRange, Running
<1> QED
  BY <1>3, <1>4, <1>5, <1>6, <1>7, <1>8, <1>9, <1>10 DEF IInv

(* A room that is made has no lines yet.                                   *)
LEMMA AnswerCreateKeeps ==
    ASSUME IInv, Running, AnswerCreate
    PROVE  IInv'
<1>1. Types /\ OneThing /\ Kinds /\ Listener /\ Room /\ Numbers /\ Shown /\ Running
  BY DEF IInv
<1>a. asked # <<>> /\ asked = <<asked[1]>> /\ Head(asked) = asked[1]
      /\ wire = <<>> /\ PacketChan = <<>> /\ packet = NoPacket /\ UIListener = <<>>
  BY <1>1 DEF AnswerCreate, OneThing, AtMostOne
<1>b. \/ made' = made + 1 /\ wire' = <<[kind |-> "create", ok |-> TRUE, room |-> made + 1]>>
      \/ made' = made /\ wire' = <<[kind |-> "create", ok |-> FALSE, room |-> -1]>>
  <2>1. \/ made' = made + 1 /\ wire' = wire \o <<[kind |-> "create", ok |-> TRUE, room |-> made']>>
        \/ made' = made /\ wire' = wire \o <<[kind |-> "create", ok |-> FALSE, room |-> -1]>>
    BY DEF AnswerCreate, Reply
  <2>2. CASE /\ made' = made + 1
             /\ wire' = wire \o <<[kind |-> "create", ok |-> TRUE, room |-> made']>>
    BY <1>a, <2>2, Concats
  <2>3. CASE made' = made /\ wire' = wire \o <<[kind |-> "create", ok |-> FALSE, room |-> -1]>>
    BY <1>a, <2>3, Concats
  <2> QED
    BY <2>1, <2>2, <2>3
<1>2. /\ asked = <<asked[1]>> /\ asked # <<>> /\ asked' = <<>>
      /\ wire = <<>> /\ PacketChan = <<>> /\ packet = NoPacket /\ UIListener = <<>>
      /\ asked[1].kind = "create"
      /\ process' = process /\ window' = window /\ UIListener' = UIListener
      /\ MessageListener' = MessageListener /\ form' = form /\ rooms' = rooms
      /\ chatRoomID' = chatRoomID /\ chatLogBuffer' = chatLogBuffer
      /\ PacketChan' = PacketChan /\ packet' = packet /\ created' = created
      /\ sent' = sent /\ posts' = posts
      /\ MessageLog' = MessageLog /\ unstored' = unstored
      /\ turn' = turn /\ log' = log /\ signal' = signal
      /\ killSwitch' = killSwitch /\ chatLog' = chatLog
      /\ startRow' = startRow
  <2>1. PICK answers : Reply(answers)
    BY DEF AnswerCreate
  <2>2. sent' = sent /\ asked[1].kind = "create"
    BY <1>a DEF AnswerCreate
  <2>3. asked' = <<>>
    BY <1>a, <2>1, ReplyFrame, TailOne
  <2> QED
    BY <1>a, <2>1, <2>2, <2>3, ReplyFrame
<1>c. made' \in Nat /\ made <= made' /\ made' <= created
  <2>1. made \in Nat /\ created \in Nat /\ made < created
    BY <1>1, <1>2 DEF Types, Kinds, Request
  <2> QED
    BY <2>1, <1>b
<1>d. Answer(wire[1])' /\ wire' = <<wire'[1]>>
  <2>1. window' = "next"
    BY <1>1, <1>2 DEF Kinds, Request
  <2>2. /\ \A i \in DOMAIN sent' : sent'[i].room # made + 1
        /\ \A i \in DOMAIN MessageLog' : MessageLog'[i].room # made + 1
    <3>1. made \in Nat /\ sent' = sent /\ MessageLog' = MessageLog
          /\ \A i \in DOMAIN sent : sent[i].room \in Int /\ sent[i].room <= made
      BY <1>1, <1>2, LineFields DEF Numbers, Types
    <3>2. \A i \in DOMAIN sent : sent[i].room # made + 1
      BY <3>1
    <3> QED
      BY <1>1, <3>1, <3>2 DEF Numbers
  <2>3. CASE made' = made + 1 /\ wire' = <<[kind |-> "create", ok |-> TRUE, room |-> made + 1]>>
    <3> PICK p : wire' = <<p>> /\ p.kind = "create" /\ p.ok = TRUE /\ p.room = made + 1
      BY <2>3
    <3>1. wire'[1] = p
      OBVIOUS
    <3>2. Fresh(p.room)'
      <4>1. p.room = made + 1 /\ made' = made + 1 /\ made \in Nat
        BY <2>3, <1>1 DEF Types
      <4> QED
        BY <2>2, <4>1 DEF Fresh, NoLineOf
    <3> QED
      BY <2>1, <3>1, <3>2 DEF Answer
  <2>4. CASE made' = made /\ wire' = <<[kind |-> "create", ok |-> FALSE, room |-> -1]>>
    <3> PICK p : wire' = <<p>> /\ p.kind = "create" /\ p.ok = FALSE /\ p.room = -1
      BY <2>4
    <3>1. wire'[1] = p
      OBVIOUS
    <3> QED
      BY <2>1, <3>1 DEF Answer
  <2> QED
    BY <1>b, <2>3, <2>4
<1>o. ~InRoom /\ ~InRoom'
  BY <1>1, <1>2 DEF InRoom, Kinds, Request
<1>3. Types'
  <2>1. rooms' \subseteq 1 .. made'
    BY <1>1, <1>2, <1>c DEF Types
  <2>2. chatRoomID' <= made'
    BY <1>1, <1>2, <1>c DEF Types
  <2> QED
    BY <1>1, <1>2, <1>c, <2>1, <2>2 DEF Types
<1>4. OneThing'
  BY <1>1, <1>2, <1>d DEF OneThing, AtMostOne
<1>5. Kinds'
  BY <1>1, <1>2, <1>d DEF Kinds, NoPacket
<1>6. Listener'
  BY <1>1, <1>2 DEF Listener, Quiet, OnlyQuits, QuitsFirst, NoPacket
<1>7. Room'
  BY <1>o DEF Room
<1>8. Numbers'
  <2>1. \A i \in DOMAIN sent : sent[i].room \in Int
    BY <1>1, LineFields DEF Types
  <2>2. \A i \in DOMAIN sent' : 1 <= sent'[i].room /\ sent'[i].room <= made'
    BY <1>1, <1>2, <1>c, <2>1, SMTT(30) DEF Numbers, Types
  <2> QED
    BY <1>1, <1>2, <2>2 DEF Numbers
<1>9. Shown'
  BY <1>o DEF Shown
<1>10. SlicesInRange'
  BY <1>1, <1>2 DEF SlicesInRange, Running
<1> QED
  BY <1>3, <1>4, <1>5, <1>6, <1>7, <1>8, <1>9, <1>10 DEF IInv

(* A quit is an item and no line.                                          *)
LEMMA QuitIsNoLine == Quit \in Items /\ ~IsChat(Quit)
  BY ItemKinds DEF Quit

(* A line is broadcast.                                                    *)
LEMMA AnswerPostKeeps ==
    ASSUME IInv, Running, AnswerPost
    PROVE  IInv'
<1>1. Types /\ OneThing /\ Kinds /\ Listener /\ Room /\ Numbers /\ Shown /\ Running
  BY DEF IInv
<1>2. /\ asked # <<>> /\ asked = <<asked[1]>> /\ Head(asked) = asked[1]
      /\ wire = <<>> /\ PacketChan = <<>> /\ packet = NoPacket /\ UIListener = <<>>
  BY <1>1 DEF AnswerPost, OneThing, AtMostOne
<1>3. /\ asked[1].kind = "post" /\ asked[1].room = chatRoomID /\ InRoom
      /\ asked' = <<>> /\ made' = made
      /\ process' = process /\ window' = window /\ UIListener' = UIListener
      /\ MessageListener' = MessageListener /\ form' = form /\ rooms' = rooms
      /\ chatRoomID' = chatRoomID /\ chatLogBuffer' = chatLogBuffer
      /\ PacketChan' = PacketChan /\ packet' = packet /\ created' = created
      /\ posts' = posts /\ MessageLog' = MessageLog /\ unstored' = unstored
      /\ turn' = turn /\ log' = log /\ signal' = signal
      /\ killSwitch' = killSwitch /\ chatLog' = chatLog
      /\ startRow' = startRow
  <2>1. asked[1].kind = "post" /\ made' = made /\ \E a : Reply(a)
    BY <1>2 DEF AnswerPost
  <2>2. asked[1].room = chatRoomID /\ InRoom
    BY <1>1, <1>2, <2>1 DEF Kinds, Request, InRoom
  <2> PICK a : Reply(a)
    BY <2>1
  <2> QED
    BY <1>2, <2>1, <2>2 DEF Reply, channels, globals, roomVars
<1>4. turn = "log" /\ log # "draw" /\ OnlyQuits(MessageListener)
  BY <1>1, <1>2, <1>3 DEF Room, Quiet
<1>5. \/ wire' = <<>> /\ sent' = sent
      \/ \E n \in {Len(sent) + 1, -1} :
            LET l == Line(chatRoomID, n, Len(sent) + 1)
            IN  wire' = <<[kind |-> "broadcast", line |-> l]>> /\ sent' = Append(sent, l)
  <2>1. CASE Reply(<<>>) /\ sent' = sent
    BY <1>2, <2>1, Concats DEF Reply
  <2>2. CASE \E n \in {Len(sent) + 1, -1} :
               LET l == Line(Head(asked).room, n, Len(sent) + 1)
               IN  /\ Reply(<<[kind |-> "broadcast", line |-> l]>>)
                   /\ sent' = Append(sent, l)
    <3> PICK n \in {Len(sent) + 1, -1} :
               LET l == Line(Head(asked).room, n, Len(sent) + 1)
               IN  /\ Reply(<<[kind |-> "broadcast", line |-> l]>>)
                   /\ sent' = Append(sent, l)
      BY <2>2
    <3> DEFINE l == Line(chatRoomID, n, Len(sent) + 1)
    <3>1. wire' = wire \o <<[kind |-> "broadcast", line |-> l]>> /\ sent' = Append(sent, l)
      BY <1>2, <1>3 DEF Reply
    <3>2. wire' = <<[kind |-> "broadcast", line |-> l]>>
      BY <1>2, <3>1, Concats
    <3> QED
      BY <3>1, <3>2
  <2> QED
    BY <2>1, <2>2 DEF AnswerPost
<1>6. SlicesInRange'
  BY <1>1, <1>3 DEF SlicesInRange, Running
<1>7. Listener'
  BY <1>1, <1>3 DEF Listener, InRoom
<1>8. Room'
  BY <1>1, <1>2, <1>3, <1>4 DEF Room, InRoom
<1>9. CASE wire' = <<>> /\ sent' = sent
  <2>1. Types'
    BY <1>1, <1>3, <1>9 DEF Types
  <2>2. OneThing'
    BY <1>2, <1>3, <1>9 DEF OneThing, AtMostOne
  <2>3. Kinds'
    BY <1>2, <1>3, <1>9, <1>1 DEF Kinds, InRoom
  <2>4. Numbers'
    BY <1>1, <1>3, <1>9 DEF Numbers
  <2>5. Shown'
    BY <1>1, <1>2, <1>3, <1>9, UnderwayIs DEF Shown, IsStored, HasRow
  <2> QED
    BY <1>6, <1>7, <1>8, <2>1, <2>2, <2>3, <2>4, <2>5 DEF IInv
<1>10. CASE \E n \in {Len(sent) + 1, -1} :
             LET l == Line(chatRoomID, n, Len(sent) + 1)
             IN  wire' = <<[kind |-> "broadcast", line |-> l]>> /\ sent' = Append(sent, l)
  <2> PICK n \in {Len(sent) + 1, -1} :
             LET l == Line(chatRoomID, n, Len(sent) + 1)
             IN  wire' = <<[kind |-> "broadcast", line |-> l]>> /\ sent' = Append(sent, l)
    BY <1>10
  <2> PICK l : l = Line(chatRoomID, n, Len(sent) + 1)
    OBVIOUS
  <2> PICK b : b = [kind |-> "broadcast", line |-> l]
    OBVIOUS
  <2>1. /\ wire' = <<b>> /\ wire' = <<wire'[1]>> /\ wire'[1] = b
        /\ b.kind = "broadcast" /\ b.line = l /\ sent' = Append(sent, l)
    OBVIOUS
  <2>2. /\ l.room = chatRoomID /\ l.n = n
    BY DEF Line
  <2>3. sent \in Seq(LineSet) /\ Len(sent) \in Nat /\ chatRoomID \in Int
    BY <1>1 DEF Types
  <2>4. n \in Int
    BY <2>3
  <2>5. l \in LineSet
    BY <2>3, <2>4 DEF Line, LineSet
  <2>6. /\ sent' \in Seq(LineSet) /\ Len(sent') = Len(sent) + 1
        /\ DOMAIN sent' = 1 .. Len(sent) + 1 /\ DOMAIN sent = 1 .. Len(sent)
        /\ sent'[Len(sent) + 1] = l
        /\ \A i \in DOMAIN sent : sent'[i] = sent[i]
    BY <2>1, <2>3, <2>5
  <2>7. Types'
    BY <1>1, <1>3, <2>6 DEF Types
  <2>8. OneThing'
    BY <1>2, <1>3, <2>1 DEF OneThing, AtMostOne
  <2>9. Kinds'
    <3>1. IsSent(l)'
      BY <1>3, <2>2, <2>3, <2>5, <2>6 DEF IsSent
    <3>2. Answer(wire[1])'
      BY <1>3, <2>1, <3>1 DEF Answer, InRoom, IsSent
    <3> QED
      BY <1>1, <1>2, <1>3, <3>2 DEF Kinds, InRoom
  <2>10. Numbers'
    <3>1. 1 <= chatRoomID /\ chatRoomID <= made
      BY <1>1, <1>3 DEF Room, Types
    <3>2. \A i \in DOMAIN sent' : /\ 1 <= sent'[i].room /\ sent'[i].room <= made'
                                  /\ sent'[i].n \in {i, -1}
      <4> TAKE i \in DOMAIN sent'
      <4>1. CASE i = Len(sent) + 1
        BY <4>1, <1>3, <2>2, <2>3, <2>6, <3>1
      <4>2. CASE i \in DOMAIN sent
        BY <4>2, <1>1, <1>3, <2>6 DEF Numbers
      <4> QED
        BY <4>1, <4>2, <2>3, <2>6
    <3>3. \A i \in DOMAIN MessageLog' : \E k \in DOMAIN sent' : sent'[k] = MessageLog'[i]
      <4> TAKE i \in DOMAIN MessageLog'
      <4>1. PICK k \in DOMAIN sent : sent[k] = MessageLog[i]
        BY <1>1, <1>3 DEF Numbers
      <4>2. k \in DOMAIN sent' /\ sent'[k] = sent[k]
        BY <2>3, <2>6
      <4> QED
        BY <4>1, <4>2, <1>3
    <3> QED
      BY <3>2, <3>3 DEF Numbers
  <2>11. Shown'
    <3>1. /\ MessageListener \in Seq(Items)
          /\ \A i \in DOMAIN MessageListener : ~IsChat(MessageListener[i])
      BY <1>1, <1>4, QuitIsNoLine DEF Types, OnlyQuits
    <3>2. NoPacket.kind \notin {"broadcast", "show"}
      BY DEF NoPacket
    <3>3. Underway = <<>>
      <4>1. PacketChan \o wire = <<>> /\ AtMostOne(<<>>)
        BY <1>2, Concats DEF AtMostOne
      <4> QED
        BY <1>2, <3>1, <3>2, <4>1, InFlightNone, UnderwayIs
    <3>4. Underway' = <<l>>
      <4>1. PacketChan' \o wire' = <<b>>
        BY <1>2, <1>3, <2>1, Concats
      <4>2. InFlight(MessageListener, NoPacket, <<b>>) = <<l>>
        BY <3>1, <3>2, <2>1, InFlightWire
      <4> QED
        BY <1>2, <1>3, <4>1, <4>2, UnderwayIs
    <3>5. chatLog \in Seq(LineSet) /\ chatLog \o <<>> = chatLog
          /\ chatLog \o <<l>> = Append(chatLog, l)
      BY <1>1, <2>5 DEF Types
    <3>6. chatLog = LinesOf(chatRoomID, sent)
      BY <1>1, <1>3, <3>3, <3>5 DEF Shown
    <3>7. LinesOf(chatRoomID, sent') = Append(chatLog, l)
      BY <2>1, <2>2, <2>3, <2>5, <3>6, LinesOfAppend
    <3> QED
      BY <1>1, <1>3, <3>4, <3>5, <3>7 DEF Shown, IsStored, HasRow
  <2> QED
    BY <1>6, <1>7, <1>8, <2>7, <2>8, <2>9, <2>10, <2>11 DEF IInv
<1> QED
  BY <1>5, <1>9, <1>10
-----------------------------------------------------------------------------
(* PacketProcess.                                                          *)
LEMMA NoPacketKind == NoPacket.kind = "none"
  BY DEF NoPacket

(* What PacketProcess is handling tells the window.                        *)
LEMMA PacketKinds ==
    ASSUME Kinds
    PROVE  /\ packet.kind = "login" => window = "next"
           /\ packet.kind = "create" => window = "next" /\ Answer(packet)
           /\ packet.kind = "view" => window = "ChatList" /\ Answer(packet)
           /\ packet.kind = "broadcast" => window = "InChat" /\ IsSent(packet.line)
           /\ packet.kind = "tell" => window = "next" /\ NextWindow(packet.name)
           /\ packet.kind = "show" =>
                window = "InChat" /\ IsSent(packet.line) /\ IsStored(packet.line)
  BY NoPacketKind DEF Kinds, Answer

(* The lines under way while there is one in PacketProcess or before it.   *)
LEMMA RoomQuits ==
    ASSUME Types, Room, InRoom, ~Quiet
    PROVE  MessageListener \in Seq(Items)
           /\ \A i \in DOMAIN MessageListener : ~IsChat(MessageListener[i])
  BY QuitIsNoLine DEF Types, Room, OnlyQuits

(* An answer moves from PacketChan to PacketProcess.                       *)
LEMMA NextPacketKeeps ==
    ASSUME IInv, Running, NextPacket
    PROVE  IInv'
<1>1. Types /\ OneThing /\ Kinds /\ Listener /\ Room /\ Numbers /\ Shown /\ Running
  BY DEF IInv
<1>2. /\ packet = NoPacket /\ PacketChan # <<>> /\ PacketChan = <<PacketChan[1]>>
      /\ asked = <<>> /\ wire = <<>> /\ UIListener = <<>>
      /\ packet' = PacketChan[1] /\ PacketChan' = <<>>
      /\ process' = process /\ window' = window /\ UIListener' = UIListener
      /\ MessageListener' = MessageListener /\ form' = form /\ rooms' = rooms
      /\ chatRoomID' = chatRoomID /\ chatLogBuffer' = chatLogBuffer
      /\ asked' = asked /\ wire' = wire /\ created' = created /\ made' = made
      /\ sent' = sent /\ posts' = posts
      /\ MessageLog' = MessageLog /\ unstored' = unstored
      /\ turn' = turn /\ log' = log /\ signal' = signal
      /\ killSwitch' = killSwitch /\ chatLog' = chatLog
      /\ startRow' = startRow
  BY <1>1 DEF NextPacket, OneThing, AtMostOne, channels, globals, serverVars,
     roomVars
<1>a. Answer(PacketChan[1]) /\ PacketChan[1].kind # "none"
  BY <1>1, <1>2 DEF Kinds, Answer
<1>b. ~Quiet /\ ~Quiet'
  BY <1>2, <1>a, NoPacketKind DEF Quiet
<1>c. Answer(packet)'
  BY <1>2, <1>a DEF Answer, IsSent, Fresh, NoLineOf
<1>d. InRoom => Underway' = Underway
  <2> SUFFICES ASSUME InRoom PROVE Underway' = Underway
    OBVIOUS
  <2> PICK b : b = PacketChan[1]
    OBVIOUS
  <2>1. b.kind = "broadcast"
    BY <1>a DEF Answer, InRoom
  <2>2. InFlight(MessageListener, NoPacket, <<b>>) = <<b.line>>
        /\ InFlight(MessageListener, b, <<>>) = <<b.line>>
    <3>1. NoPacket.kind \notin {"broadcast", "show"}
      BY NoPacketKind
    <3> QED
      BY <1>1, <1>b, <2>1, <3>1, RoomQuits, InFlightWire, InFlightPacket
  <2>3. PacketChan \o wire = <<b>> /\ PacketChan' \o wire' = <<>>
    BY <1>2, Concats
  <2> QED
    BY <1>2, <2>2, <2>3, UnderwayIs
<1>3. Types'
  BY <1>1, <1>2 DEF Types
<1>4. OneThing'
  BY <1>1, <1>2 DEF OneThing, AtMostOne
<1>5. Kinds'
  BY <1>1, <1>2, <1>c DEF Kinds
<1>6. Listener'
  BY <1>1, <1>2, <1>b DEF Listener
<1>7. Room'
  BY <1>1, <1>2, <1>b DEF Room, InRoom
<1>8. Numbers'
  BY <1>1, <1>2 DEF Numbers
<1>9. Shown'
  BY <1>1, <1>2, <1>d DEF Shown, InRoom, IsStored, HasRow
<1>10. SlicesInRange'
  BY <1>1, <1>2 DEF SlicesInRange, Running
<1> QED
  BY <1>3, <1>4, <1>5, <1>6, <1>7, <1>8, <1>9, <1>10 DEF IInv

(* PacketProcess hands its place over to the name of a window.             *)
LEMMA TellUIKeeps ==
    ASSUME IInv, Running, TellUI
    PROVE  IInv'
<1>1. Types /\ OneThing /\ Kinds /\ Listener /\ Room /\ Numbers /\ Shown /\ Running
  BY DEF IInv
<1>a. packet.kind = "tell" /\ packet # NoPacket
  BY NoPacketKind DEF TellUI
<1>b. asked = <<>> /\ wire = <<>> /\ PacketChan = <<>> /\ UIListener = <<>>
  BY <1>1, <1>a DEF OneThing
<1>2. /\ packet.kind = "tell"
      /\ asked = <<>> /\ wire = <<>> /\ PacketChan = <<>> /\ UIListener = <<>>
      /\ UIListener' = <<packet.name>> /\ packet' = NoPacket
      /\ process' = process /\ window' = window
      /\ MessageListener' = MessageListener /\ form' = form /\ rooms' = rooms
      /\ chatRoomID' = chatRoomID /\ chatLogBuffer' = chatLogBuffer
      /\ PacketChan' = PacketChan /\ asked' = asked /\ wire' = wire
      /\ created' = created /\ made' = made /\ sent' = sent /\ posts' = posts
      /\ MessageLog' = MessageLog /\ unstored' = unstored
      /\ turn' = turn /\ log' = log
      /\ signal' = signal /\ killSwitch' = killSwitch /\ chatLog' = chatLog
      /\ startRow' = startRow
  BY <1>1, <1>a, <1>b DEF TellUI, PostUI, channels, globals, serverVars, roomVars
<1>c. NextWindow(UIListener[1])'
  <2>1. NextWindow(packet.name)
    BY <1>1, <1>a DEF Kinds, Answer
  <2> QED
    BY <1>2, <2>1 DEF NextWindow, Fresh, NoLineOf
<1>o. ~InRoom /\ ~InRoom'
  BY <1>1, <1>2, PacketKinds DEF InRoom
<1>3. Types'
  BY <1>1, <1>2 DEF Types
<1>4. OneThing'
  BY <1>1, <1>2 DEF OneThing, AtMostOne
<1>5. Kinds'
  BY <1>1, <1>2, <1>c DEF Kinds
<1>6. Listener'
  BY <1>1, <1>2 DEF Listener, Quiet, OnlyQuits, QuitsFirst, NoPacket
<1>7. Room'
  BY <1>o DEF Room
<1>8. Numbers'
  BY <1>1, <1>2 DEF Numbers
<1>9. Shown'
  BY <1>o DEF Shown
<1>10. SlicesInRange'
  BY <1>1, <1>2 DEF SlicesInRange, Running
<1> QED
  BY <1>3, <1>4, <1>5, <1>6, <1>7, <1>8, <1>9, <1>10 DEF IInv

(* A login that succeeds names the next window.                            *)
LEMMA ProcessPacketLoginKeeps ==
    ASSUME IInv, Running, ProcessPacketLogin
    PROVE  IInv'
<1>1. Types /\ OneThing /\ Kinds /\ Listener /\ Room /\ Numbers /\ Shown /\ Running
  BY DEF IInv
<1>a. packet.kind = "login" /\ packet # NoPacket
  BY NoPacketKind DEF ProcessPacketLogin
<1>b. asked = <<>> /\ wire = <<>> /\ PacketChan = <<>> /\ UIListener = <<>>
  BY <1>1, <1>a DEF OneThing
<1>2. /\ packet.kind = "login"
      /\ asked = <<>> /\ wire = <<>> /\ PacketChan = <<>> /\ UIListener = <<>>
      /\ packet' \in {Tell("AfterLogin"), NoPacket}
      /\ process' = process /\ window' = window /\ UIListener' = UIListener
      /\ MessageListener' = MessageListener /\ form' = form /\ rooms' = rooms
      /\ chatRoomID' = chatRoomID /\ chatLogBuffer' = chatLogBuffer
      /\ PacketChan' = PacketChan /\ asked' = asked /\ wire' = wire
      /\ created' = created /\ made' = made /\ sent' = sent /\ posts' = posts
      /\ MessageLog' = MessageLog /\ unstored' = unstored
      /\ turn' = turn /\ log' = log
      /\ signal' = signal /\ killSwitch' = killSwitch /\ chatLog' = chatLog
      /\ startRow' = startRow
  BY <1>1, <1>a, <1>b DEF ProcessPacketLogin, channels, globals, serverVars,
     roomVars
<1>o. ~InRoom /\ ~InRoom'
  BY <1>1, <1>2, PacketKinds DEF InRoom
<1>3. Types'
  BY <1>1, <1>2 DEF Types
<1>4. OneThing'
  BY <1>1, <1>2 DEF OneThing, AtMostOne
<1>5. Kinds'
  <2>1. window = "next"
    BY <1>1, <1>2, PacketKinds
  <2>2. Tell("AfterLogin").kind = "tell" /\ Tell("AfterLogin").name = "AfterLogin"
    BY DEF Tell
  <2>3. NextWindow("AfterLogin")'
    BY <2>1, <1>2 DEF NextWindow, Names
  <2> QED
    BY <1>1, <1>2, <2>1, <2>2, <2>3 DEF Kinds
<1>6. Listener'
  BY <1>1, <1>2 DEF Listener, Quiet, OnlyQuits, QuitsFirst, NoPacket
<1>7. Room'
  BY <1>o DEF Room
<1>8. Numbers'
  BY <1>1, <1>2 DEF Numbers
<1>9. Shown'
  BY <1>o DEF Shown
<1>10. SlicesInRange'
  BY <1>1, <1>2 DEF SlicesInRange, Running
<1> QED
  BY <1>3, <1>4, <1>5, <1>6, <1>7, <1>8, <1>9, <1>10 DEF IInv

(* The list of rooms is taken: DrawChatList does not stop.                 *)
ListTaken == ProcessPacketViewAvailableChat /\ ~DrawChatListPanics

(* DrawChatList, which waits, takes the list of rooms.                     *)
LEMMA ListIsTaken ==
    ASSUME IInv, Running, ListTaken
    PROVE  IInv'
<1>1. Types /\ OneThing /\ Kinds /\ Listener /\ Room /\ Numbers /\ Shown /\ Running
  BY DEF IInv
<1>a. packet.kind = "view" /\ packet # NoPacket
  BY NoPacketKind DEF ListTaken, ProcessPacketViewAvailableChat
<1>b. asked = <<>> /\ wire = <<>> /\ PacketChan = <<>> /\ UIListener = <<>>
  BY <1>1, <1>a DEF OneThing
<1>2. /\ packet.kind = "view"
      /\ asked = <<>> /\ wire = <<>> /\ PacketChan = <<>> /\ UIListener = <<>>
      /\ rooms' = packet.rooms /\ window' = "pick" /\ packet' = NoPacket
      /\ window = "ChatList"
      /\ process' = process /\ UIListener' = UIListener
      /\ MessageListener' = MessageListener /\ form' = form
      /\ chatRoomID' = chatRoomID /\ chatLogBuffer' = chatLogBuffer
      /\ PacketChan' = PacketChan /\ asked' = asked /\ wire' = wire
      /\ created' = created /\ made' = made /\ sent' = sent /\ posts' = posts
      /\ MessageLog' = MessageLog /\ unstored' = unstored
      /\ turn' = turn /\ log' = log
      /\ signal' = signal /\ killSwitch' = killSwitch /\ chatLog' = chatLog
      /\ startRow' = startRow
  BY <1>1, <1>a, <1>b DEF ListTaken, ProcessPacketViewAvailableChat, channels, globals,
     serverVars, roomVars
<1>o. ~InRoom /\ ~InRoom'
  BY <1>1, <1>2, PacketKinds DEF InRoom
<1>3. Types'
  <2>1. packet.rooms \subseteq 1 .. made
    BY <1>1, <1>a DEF Kinds, Answer
  <2> QED
    BY <1>1, <1>2, <2>1 DEF Types, Windows, Outcomes
<1>4. OneThing'
  BY <1>1, <1>2 DEF OneThing, AtMostOne
<1>5. Kinds'
  BY <1>1, <1>2 DEF Kinds
<1>6. Listener'
  BY <1>1, <1>2 DEF Listener, Quiet, OnlyQuits, QuitsFirst, NoPacket
<1>7. Room'
  BY <1>o DEF Room
<1>8. Numbers'
  BY <1>1, <1>2 DEF Numbers
<1>9. Shown'
  BY <1>o DEF Shown
<1>10. SlicesInRange'
  BY <1>1, <1>2 DEF SlicesInRange, Running
<1> QED
  BY <1>3, <1>4, <1>5, <1>6, <1>7, <1>8, <1>9, <1>10 DEF IInv

LEMMA ProcessPacketViewAvailableChatKeeps ==
    ASSUME IInv, Running, ProcessPacketViewAvailableChat
    PROVE  IInv'
  BY ListIsTaken, StopKeeps DEF ListTaken, DrawChatListPanics, Outcomes

(* The room is taken: loading its log does not stop.                       *)
RoomTaken == ProcessPacketCreateNewChat /\ ~Stop("nil client")

(* The room is new, and so is its log: sqlite has no row of it.            *)
LEMMA RoomIsTaken ==
    ASSUME IInv, Running, RoomTaken
    PROVE  IInv'
<1>1. Types /\ OneThing /\ Kinds /\ Listener /\ Room /\ Numbers /\ Shown /\ Running
  BY DEF IInv
<1>a. packet.kind = "create" /\ packet # NoPacket
  BY NoPacketKind DEF RoomTaken, ProcessPacketCreateNewChat
<1>b. asked = <<>> /\ wire = <<>> /\ PacketChan = <<>> /\ UIListener = <<>>
  BY <1>1, <1>a DEF OneThing
<1>2. /\ packet.kind = "create"
      /\ asked = <<>> /\ wire = <<>> /\ PacketChan = <<>> /\ UIListener = <<>>
      /\ chatRoomID' = packet.room
      /\ process' = process /\ window' = window /\ UIListener' = UIListener
      /\ MessageListener' = MessageListener /\ form' = form /\ rooms' = rooms
      /\ PacketChan' = PacketChan /\ asked' = asked /\ wire' = wire
      /\ created' = created /\ made' = made /\ sent' = sent /\ posts' = posts
      /\ MessageLog' = MessageLog /\ unstored' = unstored
      /\ turn' = turn /\ log' = log
      /\ signal' = signal /\ killSwitch' = killSwitch /\ chatLog' = chatLog
      /\ startRow' = startRow
  BY <1>1, <1>a, <1>b DEF RoomTaken, ProcessPacketCreateNewChat, channels, globals,
     serverVars, roomVars
<1>c. /\ window = "next" /\ packet.ok \in BOOLEAN
      /\ packet.ok => Fresh(packet.room)
      /\ ~packet.ok => packet.room = -1
  BY <1>1, <1>a DEF Kinds, Answer
<1>d. /\ packet.ok => LoadChatLogBuffer(packet.room) /\ packet' = Tell("InChat")
      /\ ~packet.ok => packet' = NoPacket
  BY DEF RoomTaken, ProcessPacketCreateNewChat
<1>e. packet.ok => chatLogBuffer' = <<>>
  <2> SUFFICES ASSUME packet.ok PROVE chatLogBuffer' = <<>>
    OBVIOUS
  <2>1. LinesOf(packet.room, MessageLog) = <<>>
    BY <1>1, <1>c, LinesOfNone DEF Fresh, NoLineOf, Types
  <2>2. LoadChatLogBuffer(packet.room)
    BY <1>d
  <2>3. \E n \in 0 .. Len(<<>>) : chatLogBuffer' = SubSeq(<<>>, 1, n)
    BY <2>1, <2>2 DEF LoadChatLogBuffer
  <2>4. PICK n \in 0 .. Len(<<>>) : chatLogBuffer' = SubSeq(<<>>, 1, n)
    BY <2>3
  <2>5. SubSeq(<<>>, 1, n) = <<>>
    <3>1. n = 0
      <4>1. Len(<<>>) = 0
        OBVIOUS
      <4>2. n \in 0 .. 0
        BY <2>4, <4>1
      <4> QED
        BY <4>2
    <3>2. <<>> \in Seq(LineSet)
      OBVIOUS
    <3> QED
      BY <3>1, <3>2, SubSeqEmpty
  <2> QED
    BY <2>4, <2>5
<1>o. ~InRoom /\ ~InRoom'
  BY <1>1, <1>2, PacketKinds DEF InRoom
<1>3. Types'
  <2>1. packet.room \in Int /\ -1 <= packet.room /\ packet.room <= made
    <3>1. made \in Nat
      BY <1>1 DEF Types
    <3>2. CASE packet.ok
      BY <1>c, <3>1, <3>2 DEF Fresh
    <3>3. CASE ~packet.ok
      <4>1. packet.room = -1
        BY <1>c, <3>3
      <4> QED
        BY <3>1, <4>1
    <3> QED
      BY <3>2, <3>3
  <2> QED
    BY <1>1, <1>2, <2>1 DEF Types
<1>4. OneThing'
  BY <1>1, <1>2 DEF OneThing, AtMostOne
<1>5. Kinds'
  <2>1. CASE packet.ok
    <3>1. Tell("InChat").kind = "tell" /\ Tell("InChat").name = "InChat"
      BY DEF Tell
    <3>2. Fresh(chatRoomID)' /\ chatLogBuffer' = <<>>
      BY <1>2, <1>c, <1>e, <2>1 DEF Fresh, NoLineOf
    <3>3. NextWindow("InChat")'
      BY <3>2, <1>2, <1>c DEF NextWindow, Names
    <3> QED
      BY <1>1, <1>2, <1>c, <1>d, <2>1, <3>1, <3>3 DEF Kinds
  <2>2. CASE ~packet.ok
    BY <1>1, <1>2, <1>c, <1>d, <2>2 DEF Kinds
  <2> QED
    BY <2>1, <2>2
<1>6. Listener'
  <2>1. window = "next" /\ window' = "next"
    BY <1>2, <1>c
  <2> QED
    BY <1>1, <1>2, <2>1 DEF Listener, OnlyQuits, QuitsFirst
<1>7. Room'
  BY <1>o DEF Room
<1>8. Numbers'
  BY <1>1, <1>2 DEF Numbers
<1>9. Shown'
  BY <1>o DEF Shown
<1>10. SlicesInRange'
  BY <1>1, <1>2 DEF SlicesInRange, Running
<1> QED
  BY <1>3, <1>4, <1>5, <1>6, <1>7, <1>8, <1>9, <1>10 DEF IInv

LEMMA ProcessPacketCreateNewChatKeeps ==
    ASSUME IInv, Running, ProcessPacketCreateNewChat
    PROVE  IInv'
  BY RoomIsTaken, StopKeeps DEF RoomTaken, Outcomes

(* A line is stored: it is in sqlite, or another without a number is.      *)
LEMMA ProcessPacketBroadcastMessageKeeps ==
    ASSUME IInv, Running, ProcessPacketBroadcastMessage
    PROVE  IInv'
<1>1. Types /\ OneThing /\ Kinds /\ Listener /\ Room /\ Numbers /\ Shown /\ Running
  BY DEF IInv
<1>a. packet.kind = "broadcast" /\ packet # NoPacket
  BY NoPacketKind DEF ProcessPacketBroadcastMessage
<1>b. asked = <<>> /\ wire = <<>> /\ PacketChan = <<>> /\ UIListener = <<>>
  BY <1>1, <1>a DEF OneThing
<1>2. /\ packet.kind = "broadcast"
      /\ asked = <<>> /\ wire = <<>> /\ PacketChan = <<>> /\ UIListener = <<>>
      /\ packet' = [kind |-> "show", line |-> packet.line]
      /\ process' = process /\ window' = window /\ UIListener' = UIListener
      /\ MessageListener' = MessageListener /\ form' = form /\ rooms' = rooms
      /\ chatRoomID' = chatRoomID /\ chatLogBuffer' = chatLogBuffer
      /\ PacketChan' = PacketChan /\ asked' = asked /\ wire' = wire
      /\ created' = created /\ made' = made /\ sent' = sent /\ posts' = posts
      /\ turn' = turn /\ log' = log /\ signal' = signal
      /\ killSwitch' = killSwitch /\ chatLog' = chatLog
      /\ startRow' = startRow
  BY <1>1, <1>a, <1>b DEF ProcessPacketBroadcastMessage, channels, globals,
     serverVars, roomVars
<1> PICK l : l = packet.line
  OBVIOUS
<1>c. /\ window = "InChat" /\ l \in LineSet /\ l.room = chatRoomID
      /\ \E i \in DOMAIN sent : sent[i] = l
  BY <1>1, <1>2, PacketKinds DEF IsSent
<1>d. Line(chatRoomID, l.n, l.text) = l
  BY <1>c DEF Line, LineSet
<1> DEFINE known == \E i \in DOMAIN MessageLog :
                      MessageLog[i].n = l.n /\ MessageLog[i].room = l.room
           failing == MessageLog' = MessageLog /\ unstored' = unstored \cup {l}
<1>e. \/ /\ MessageLog' = IF known THEN MessageLog ELSE Append(MessageLog, l)
         /\ unstored' = unstored
      \/ failing
  BY <1>d DEF ProcessPacketBroadcastMessage, StoreMessageToDB, SameKey
<1>f. MessageLog \in Seq(LineSet) /\ Len(MessageLog) \in Nat
      /\ DOMAIN MessageLog = 1 .. Len(MessageLog)
  BY <1>1 DEF Types
<1>u. /\ \A x \in unstored : x \in unstored'
      /\ failing => l \in unstored'
      /\ ~failing => MessageLog' = IF known THEN MessageLog ELSE Append(MessageLog, l)
  BY <1>e
<1>v. failing \/ known => MessageLog' = MessageLog
  BY <1>u
<1>w. ~failing /\ ~known => MessageLog' = Append(MessageLog, l)
  BY <1>u
<1> HIDE DEF failing
<1>g. /\ MessageLog' \in Seq(LineSet)
      /\ \A i \in DOMAIN MessageLog : i \in DOMAIN MessageLog' /\ MessageLog'[i] = MessageLog[i]
      /\ \A i \in DOMAIN MessageLog' : i \in DOMAIN MessageLog \/ MessageLog'[i] = l
  <2>1. CASE failing \/ known
    BY <1>v, <1>f, <2>1
  <2>2. CASE ~failing /\ ~known
    BY <1>c, <1>f, <1>w, <2>2
  <2> QED
    BY <2>1, <2>2
<1>h. \/ l \in unstored'
      \/ /\ l.n # -1 => \E i \in DOMAIN MessageLog' : MessageLog'[i] = l
         /\ \E i \in DOMAIN MessageLog' : MessageLog'[i].n = l.n /\ MessageLog'[i].room = l.room
  <2>1. CASE failing
    BY <1>u, <2>1
  <2>2. CASE known
    <3>1. PICK i \in DOMAIN MessageLog : MessageLog[i].n = l.n /\ MessageLog[i].room = l.room
      BY <2>2
    <3>2. PICK k \in DOMAIN sent : sent[k] = MessageLog[i]
      BY <1>1 DEF Numbers
    <3>3. PICK j \in DOMAIN sent : sent[j] = l
      BY <1>c
    <3>4. l.n # -1 => MessageLog[i] = l
      BY <1>1, <3>1, <3>2, <3>3 DEF Numbers
    <3>5. i \in DOMAIN MessageLog' /\ MessageLog'[i] = MessageLog[i]
      BY <1>g
    <3> QED
      BY <3>1, <3>4, <3>5
  <2>3. CASE ~failing /\ ~known
    <3>1. Len(MessageLog) + 1 \in DOMAIN MessageLog' /\ MessageLog'[Len(MessageLog) + 1] = l
      BY <1>f, <1>c, <1>w, <2>3
    <3> QED
      BY <3>1
  <2> QED
    BY <2>1, <2>2, <2>3
<1> HIDE DEF known
<1> PICK p : p = packet'
  OBVIOUS
<1>i. p.kind = "show" /\ p.line = l /\ p.kind # "none"
  BY <1>2
<1>j. ~Quiet /\ ~Quiet'
  BY <1>2, <1>a, <1>i, NoPacketKind DEF Quiet
<1>k. Underway' = Underway
  <2>1. /\ InFlight(MessageListener, p, <<>>) = <<l>>
        /\ InFlight(MessageListener, packet, <<>>) = <<l>>
    BY <1>1, <1>2, <1>c, <1>i, <1>j, RoomQuits, InFlightPacket DEF InRoom
  <2>2. PacketChan \o wire = <<>> /\ PacketChan' \o wire' = <<>>
    BY <1>2, Concats
  <2> QED
    BY <1>2, <2>1, <2>2, UnderwayIs
<1>3. Types'
  BY <1>1, <1>2, <1>g DEF Types
<1>4. OneThing'
  BY <1>1, <1>2 DEF OneThing, AtMostOne
<1>5. Kinds'
  <2>1. IsSent(packet.line)'
    <3>1. packet'.line = l
      BY <1>i
    <3> QED
      BY <1>2, <1>c, <3>1 DEF IsSent
  <2>2. IsStored(packet.line)'
    <3>1. packet'.line = l
      BY <1>i
    <3> QED
      BY <1>h, <3>1 DEF IsStored, HasRow
  <2> QED
    BY <1>1, <1>2, <1>c, <1>i, <2>1, <2>2 DEF Kinds
<1>6. Listener'
  BY <1>1, <1>2, <1>j, <1>c DEF Listener
<1>7. Room'
  BY <1>1, <1>2, <1>j DEF Room, InRoom
<1>8. Numbers'
  <2>1. \A i \in DOMAIN MessageLog' : \E k \in DOMAIN sent' : sent'[k] = MessageLog'[i]
    BY <1>1, <1>2, <1>c, <1>g DEF Numbers
  <2> QED
    BY <1>1, <1>2, <2>1 DEF Numbers
<1>9. Shown'
  <2>1. \A i \in DOMAIN chatLog' : IsStored(chatLog[i])'
    <3> TAKE i \in DOMAIN chatLog'
    <3>1. IsStored(chatLog[i])
      BY <1>1, <1>2, <1>c DEF Shown, InRoom
    <3>2. chatLog'[i] = chatLog[i]
      BY <1>2
    <3>3. CASE chatLog[i] \in unstored
      BY <1>u, <3>2, <3>3 DEF IsStored
    <3>4. CASE HasRow(chatLog[i])
      BY <1>g, <3>2, <3>4 DEF IsStored, HasRow
    <3> QED
      BY <3>1, <3>3, <3>4 DEF IsStored
  <2>2. \A i \in DOMAIN MessageListener' : ~IsChat(MessageListener'[i])
    BY <1>1, <1>2, <1>c, <1>j, RoomQuits DEF InRoom
  <2> QED
    BY <1>1, <1>2, <1>k, <2>1, <2>2 DEF Shown, InRoom
<1>10. SlicesInRange'
  BY <1>1, <1>2 DEF SlicesInRange, Running
<1> QED
  BY <1>3, <1>4, <1>5, <1>6, <1>7, <1>8, <1>9, <1>10 DEF IInv

(* A line goes into _MessageListener.                                      *)
LEMMA ShowMessageKeeps ==
    ASSUME IInv, Running, ShowMessage
    PROVE  IInv'
<1>1. Types /\ OneThing /\ Kinds /\ Listener /\ Room /\ Numbers /\ Shown /\ Running
  BY DEF IInv
<1>a. packet.kind = "show" /\ packet # NoPacket
  BY NoPacketKind DEF ShowMessage
<1>b. asked = <<>> /\ wire = <<>> /\ PacketChan = <<>> /\ UIListener = <<>>
  BY <1>1, <1>a DEF OneThing
<1>2. /\ packet.kind = "show"
      /\ asked = <<>> /\ wire = <<>> /\ PacketChan = <<>> /\ UIListener = <<>>
      /\ Len(MessageListener) < ListenerSize
      /\ MessageListener' = Append(MessageListener, Chat(packet.line))
      /\ packet' = NoPacket
      /\ process' = process /\ window' = window /\ UIListener' = UIListener
      /\ form' = form /\ rooms' = rooms /\ chatRoomID' = chatRoomID
      /\ chatLogBuffer' = chatLogBuffer /\ PacketChan' = PacketChan
      /\ asked' = asked /\ wire' = wire /\ created' = created /\ made' = made
      /\ sent' = sent /\ posts' = posts
      /\ MessageLog' = MessageLog /\ unstored' = unstored
      /\ turn' = turn /\ log' = log /\ signal' = signal
      /\ killSwitch' = killSwitch /\ chatLog' = chatLog
      /\ startRow' = startRow
  BY <1>1, <1>a, <1>b DEF ShowMessage, PostMessage, channels, globals,
     serverVars, roomVars
<1> PICK l : l = packet.line
  OBVIOUS
<1>c. /\ window = "InChat" /\ l \in LineSet /\ IsStored(l)
  BY <1>1, <1>2, PacketKinds DEF IsSent
<1>d. ~Quiet /\ Quiet'
  BY <1>2, <1>a DEF Quiet
<1>e. /\ MessageListener \in Seq(Items)
      /\ OnlyQuits(MessageListener)
      /\ \A i \in DOMAIN MessageListener : ~IsChat(MessageListener[i])
  BY <1>1, <1>c, <1>d, RoomQuits DEF Room, InRoom
<1> PICK m : m = MessageListener'
  OBVIOUS
<1>f. /\ m \in Seq(Items) /\ Len(m) = Len(MessageListener) + 1
      /\ DOMAIN m = 1 .. Len(MessageListener) + 1
      /\ DOMAIN MessageListener = 1 .. Len(MessageListener)
      /\ Len(MessageListener) \in Nat
      /\ m # <<>> /\ m[Len(m)] = Chat(l)
      /\ \A i \in DOMAIN MessageListener : m[i] = MessageListener[i]
  <2>1. Chat(l) \in Items /\ m = Append(MessageListener, Chat(l))
    BY <1>2, <1>c, ItemKinds
  <2> QED
    BY <1>e, <2>1
<1>g. /\ IsChat(m[Len(m)]) /\ m[Len(m)].line = l
      /\ \A i \in DOMAIN m : i # Len(m) => i \in DOMAIN MessageListener
      /\ \A i \in DOMAIN m : i # Len(m) => m[i] = Quit /\ ~IsChat(m[i])
  BY <1>e, <1>f, ItemKinds DEF OnlyQuits
<1>h. Underway' = Underway
  <2>1. InFlight(MessageListener, packet, <<>>) = <<l>>
    BY <1>2, <1>e, InFlightPacket
  <2>2. NoPacket.kind \notin {"broadcast", "show"}
    BY NoPacketKind
  <2>3. InFlight(m, NoPacket, <<>>) = <<l>>
    BY <1>f, <1>g, <2>2, InFlightListener
  <2>4. PacketChan \o wire = <<>> /\ PacketChan' \o wire' = <<>>
    BY <1>2, Concats
  <2> QED
    BY <1>2, <2>1, <2>3, <2>4, UnderwayIs
<1>3. Types'
  <2>1. MessageListener' \in Seq(Items) /\ Len(MessageListener') <= ListenerSize
    BY <1>2, <1>f, ClientFlowAssumption
  <2> QED
    BY <1>1, <1>2, <2>1 DEF Types
<1>4. OneThing'
  BY <1>1, <1>2 DEF OneThing, AtMostOne
<1>5. Kinds'
  BY <1>1, <1>2 DEF Kinds
<1>6. Listener'
  BY <1>2, <1>c, <1>g DEF Listener, QuitsFirst
<1>7. Room'
  <2>1. turn = "log" /\ log # "draw"
    BY <1>1, <1>c, <1>d DEF Room, InRoom
  <2> QED
    BY <1>1, <1>2, <1>c, <1>d, <2>1 DEF Room, InRoom
<1>8. Numbers'
  BY <1>1, <1>2 DEF Numbers
<1>9. Shown'
  <2>1. \A i \in DOMAIN MessageListener' :
           IsChat(MessageListener'[i]) => MessageListener'[i].line = l
    BY <1>f, <1>g
  <2>2. \A i \in DOMAIN MessageListener' :
           IsChat(MessageListener'[i]) => IsStored(MessageListener[i].line)'
    <3> TAKE i \in DOMAIN MessageListener'
    <3> HAVE IsChat(MessageListener'[i])
    <3>1. MessageListener'[i].line = l
      BY <2>1
    <3> QED
      BY <1>2, <1>c, <3>1 DEF IsStored, HasRow
  <2>3. chatLog' \o Underway' = LinesOf(chatRoomID', sent')
    BY <1>1, <1>2, <1>c, <1>h DEF Shown, InRoom
  <2>4. \A i \in DOMAIN chatLog' : IsStored(chatLog[i])'
    BY <1>1, <1>2, <1>c DEF Shown, InRoom, IsStored, HasRow
  <2> QED
    BY <2>2, <2>3, <2>4 DEF Shown
<1>10. SlicesInRange'
  BY <1>1, <1>2 DEF SlicesInRange, Running
<1> QED
  BY <1>3, <1>4, <1>5, <1>6, <1>7, <1>8, <1>9, <1>10 DEF IInv

(* PacketProcess.                                                          *)
LEMMA PacketProcessKeeps ==
    ASSUME IInv, Running, PacketProcess
    PROVE  IInv'
  BY NextPacketKeeps, TellUIKeeps, ProcessPacketLoginKeeps,
     ProcessPacketCreateNewChatKeeps, ProcessPacketBroadcastMessageKeeps,
     ShowMessageKeeps, ProcessPacketViewAvailableChatKeeps DEF PacketProcess
-----------------------------------------------------------------------------
(* DrawGUI.                                                                *)

(* Where the user chooses, nothing is under way.                           *)
LEMMA MenusAreQuiet ==
    ASSUME Kinds, window \in {"BeforeLogin", "Sign In", "AfterLogin", "NewChat", "pick"}
    PROVE  Quiet /\ UIListener = <<>>
<1>1. asked = <<>>
  BY DEF Kinds, Request
<1>2. wire = <<>> /\ PacketChan = <<>>
  BY DEF Kinds, Answer
<1>3. packet = NoPacket
  BY DEF Kinds, Answer
<1>4. UIListener = <<>>
  BY DEF Kinds, NextWindow
<1> QED
  BY <1>1, <1>2, <1>3, <1>4 DEF Quiet

(* DrawGUI takes the success, after which quits only are left over.        *)
LEMMA ConnectedKeeps ==
    ASSUME IInv, Running, Connected
    PROVE  IInv'
<1>1. Types /\ OneThing /\ Kinds /\ Listener /\ Room /\ Numbers /\ Shown /\ Running
  BY DEF IInv
<1>a. MessageListener = <<Command("success")>>
  BY <1>1 DEF Connected, Listener
<1>2. /\ window = "start" /\ window' = "next"
      /\ MessageListener # <<>> /\ MessageListener' = <<>>
      /\ process' = process /\ UIListener' = UIListener /\ form' = form
      /\ rooms' = rooms /\ chatRoomID' = chatRoomID
      /\ chatLogBuffer' = chatLogBuffer /\ PacketChan' = PacketChan
      /\ packet' = packet /\ asked' = asked /\ wire' = wire
      /\ created' = created /\ made' = made /\ sent' = sent /\ posts' = posts
      /\ MessageLog' = MessageLog /\ unstored' = unstored
      /\ turn' = turn /\ log' = log
      /\ signal' = signal /\ killSwitch' = killSwitch /\ chatLog' = chatLog
      /\ startRow' = startRow
  BY <1>1, <1>a DEF Connected, Listener, channels, globals, serverVars, roomVars
<1>o. ~InRoom'
  BY <1>2 DEF InRoom
<1>b. Quiet
  BY <1>1, <1>2 DEF Listener
<1>3. Types'
  BY <1>1, <1>2, ClientFlowAssumption DEF Types, Windows
<1>4. OneThing'
  BY <1>1, <1>2 DEF OneThing
<1>5. Kinds'
  BY <1>1, <1>2, <1>b DEF Kinds, NextWindow, Quiet, Fresh, NoLineOf
<1>6. Listener'
  BY <1>2 DEF Listener, QuitsFirst, OnlyQuits
<1>7. Room'
  BY <1>o DEF Room
<1>8. Numbers'
  BY <1>1, <1>2 DEF Numbers
<1>9. Shown'
  BY <1>o DEF Shown
<1>10. SlicesInRange'
  BY <1>1, <1>2 DEF SlicesInRange, Running
<1> QED
  BY <1>3, <1>4, <1>5, <1>6, <1>7, <1>8, <1>9, <1>10 DEF IInv

(* When a window has been named, nothing else is under way.                *)
LEMMA NamesAreAlone ==
    ASSUME OneThing, Kinds, UIListener # <<>>
    PROVE  /\ UIListener = <<UIListener[1]>> /\ Head(UIListener) = UIListener[1]
           /\ Tail(UIListener) = <<>>
           /\ asked = <<>> /\ wire = <<>> /\ PacketChan = <<>> /\ packet = NoPacket
           /\ NextWindow(UIListener[1])
<1>1. UIListener = <<UIListener[1]>>
  BY DEF OneThing, AtMostOne
<1>2. Head(UIListener) = UIListener[1] /\ Tail(UIListener) = <<>>
  <2> PICK m : m = UIListener[1]
    OBVIOUS
  <2>1. Head(<<m>>) = m /\ Tail(<<m>>) = <<>>
    OBVIOUS
  <2> QED
    BY <1>1, <2>1
<1>3. asked = <<>> /\ wire = <<>> /\ PacketChan = <<>> /\ packet = NoPacket
  BY DEF OneThing
<1>4. NextWindow(UIListener[1])
  BY DEF Kinds
<1> QED
  BY <1>1, <1>2, <1>3, <1>4

(* A menu or a form is opened.                                             *)
LEMMA OpenWindowKeeps ==
    ASSUME IInv, Running, OpenWindow
    PROVE  IInv'
<1>1. Types /\ OneThing /\ Kinds /\ Listener /\ Room /\ Numbers /\ Shown /\ Running
  BY DEF IInv
<1>a. UIListener # <<>>
  BY DEF OpenWindow, Open
<1>b. /\ UIListener = <<UIListener[1]>> /\ Head(UIListener) = UIListener[1]
      /\ Tail(UIListener) = <<>>
      /\ asked = <<>> /\ wire = <<>> /\ PacketChan = <<>> /\ packet = NoPacket
      /\ NextWindow(UIListener[1])
  BY <1>1, <1>a, NamesAreAlone
<1>2. /\ window = "next"
      /\ UIListener = <<UIListener[1]>> /\ UIListener' = <<>>
      /\ asked = <<>> /\ wire = <<>> /\ PacketChan = <<>> /\ packet = NoPacket
      /\ NextWindow(UIListener[1])
      /\ window' \in {"BeforeLogin", "Sign In", "AfterLogin", "NewChat"}
      /\ window' = UIListener[1]
      /\ process' = process /\ MessageListener' = MessageListener
      /\ form' = form /\ rooms' = rooms /\ chatRoomID' = chatRoomID
      /\ chatLogBuffer' = chatLogBuffer /\ PacketChan' = PacketChan
      /\ packet' = packet /\ asked' = asked /\ wire' = wire
      /\ created' = created /\ made' = made /\ sent' = sent /\ posts' = posts
      /\ MessageLog' = MessageLog /\ unstored' = unstored
      /\ turn' = turn /\ log' = log
      /\ signal' = signal /\ killSwitch' = killSwitch /\ chatLog' = chatLog
      /\ startRow' = startRow
  BY <1>1, <1>a, <1>b DEF OpenWindow, Open, channels, globals, serverVars,
     roomVars
<1>o. ~InRoom'
  BY <1>2 DEF InRoom
<1>3. Types'
  <2>1. window' \in Windows
    BY <1>2 DEF Windows, Outcomes
  <2> QED
    BY <1>1, <1>2, <2>1 DEF Types
<1>4. OneThing'
  BY <1>2 DEF OneThing, AtMostOne
<1>5. Kinds'
  BY <1>2 DEF Kinds, NextWindow
<1>6. Listener'
  <2>1. OnlyQuits(MessageListener)
    BY <1>1, <1>2 DEF Listener
  <2> QED
    BY <1>2, <2>1 DEF Listener, OnlyQuits, QuitsFirst
<1>7. Room'
  BY <1>o DEF Room
<1>8. Numbers'
  BY <1>1, <1>2 DEF Numbers
<1>9. Shown'
  BY <1>o DEF Shown
<1>10. SlicesInRange'
  BY <1>1, <1>2 DEF SlicesInRange, Running
<1> QED
  BY <1>3, <1>4, <1>5, <1>6, <1>7, <1>8, <1>9, <1>10 DEF IInv

(* The name of no window.                                                  *)
LEMMA OpenNothingKeeps ==
    ASSUME IInv, Running, OpenNothing
    PROVE  IInv'
<1>1. Types /\ OneThing /\ Kinds /\ Listener /\ Room /\ Numbers /\ Shown /\ Running
  BY DEF IInv
<1>a. UIListener # <<>>
  BY DEF OpenNothing, Open
<1>b. /\ UIListener = <<UIListener[1]>> /\ Head(UIListener) = UIListener[1]
      /\ Tail(UIListener) = <<>>
      /\ asked = <<>> /\ wire = <<>> /\ PacketChan = <<>> /\ packet = NoPacket
      /\ NextWindow(UIListener[1])
  BY <1>1, <1>a, NamesAreAlone
<1>2. /\ window = "next"
      /\ UIListener = <<UIListener[1]>> /\ UIListener' = <<>>
      /\ asked = <<>> /\ wire = <<>> /\ PacketChan = <<>> /\ packet = NoPacket
      /\ NextWindow(UIListener[1])
      /\ process' = process /\ window' = window
      /\ MessageListener' = MessageListener /\ form' = form /\ rooms' = rooms
      /\ chatRoomID' = chatRoomID /\ chatLogBuffer' = chatLogBuffer
      /\ PacketChan' = PacketChan /\ packet' = packet /\ asked' = asked
      /\ wire' = wire /\ created' = created /\ made' = made /\ sent' = sent
      /\ posts' = posts /\ MessageLog' = MessageLog /\ unstored' = unstored
      /\ turn' = turn
      /\ log' = log /\ signal' = signal /\ killSwitch' = killSwitch
      /\ chatLog' = chatLog /\ startRow' = startRow
  BY <1>1, <1>a, <1>b DEF OpenNothing, Open, channels, globals, serverVars,
     roomVars
<1>o. ~InRoom'
  BY <1>2 DEF InRoom
<1>3. Types'
  BY <1>1, <1>2 DEF Types, Windows, Outcomes
<1>4. OneThing'
  BY <1>2 DEF OneThing, AtMostOne
<1>5. Kinds'
  BY <1>2 DEF Kinds
<1>6. Listener'
  <2>1. OnlyQuits(MessageListener)
    BY <1>1, <1>2 DEF Listener
  <2> QED
    BY <1>2, <2>1 DEF Listener, OnlyQuits, QuitsFirst
<1>7. Room'
  BY <1>o DEF Room
<1>8. Numbers'
  BY <1>1, <1>2 DEF Numbers
<1>9. Shown'
  BY <1>o DEF Shown
<1>10. SlicesInRange'
  BY <1>1, <1>2 DEF SlicesInRange, Running
<1> QED
  BY <1>3, <1>4, <1>5, <1>6, <1>7, <1>8, <1>9, <1>10 DEF IInv

(* DrawGUI asks for the room; nothing will come of it.                     *)
LEMMA OpenOldChatKeeps ==
    ASSUME IInv, Running, OpenOldChat
    PROVE  IInv'
<1>1. Types /\ OneThing /\ Kinds /\ Listener /\ Room /\ Numbers /\ Shown /\ Running
  BY DEF IInv
<1>a. UIListener # <<>>
  BY DEF OpenOldChat, Open
<1>b. /\ UIListener = <<UIListener[1]>> /\ Head(UIListener) = UIListener[1]
      /\ Tail(UIListener) = <<>>
      /\ asked = <<>> /\ wire = <<>> /\ PacketChan = <<>> /\ packet = NoPacket
      /\ NextWindow(UIListener[1])
  BY <1>1, <1>a, NamesAreAlone
<1>2. /\ window = "next"
      /\ UIListener = <<UIListener[1]>> /\ UIListener' = <<>>
      /\ asked = <<>> /\ wire = <<>> /\ PacketChan = <<>> /\ packet = NoPacket
      /\ NextWindow(UIListener[1])
      /\ asked' = <<asked'[1]>> /\ asked'[1].kind = "conn"
      /\ process' = process /\ window' = window
      /\ MessageListener' = MessageListener /\ form' = form /\ rooms' = rooms
      /\ chatRoomID' = chatRoomID /\ chatLogBuffer' = chatLogBuffer
      /\ PacketChan' = PacketChan /\ packet' = packet /\ wire' = wire
      /\ created' = created /\ made' = made /\ sent' = sent /\ posts' = posts
      /\ MessageLog' = MessageLog /\ unstored' = unstored
      /\ turn' = turn /\ log' = log
      /\ signal' = signal /\ killSwitch' = killSwitch /\ chatLog' = chatLog
      /\ startRow' = startRow
  BY <1>1, <1>a, <1>b DEF OpenOldChat, Open, Send, channels, globals,
     serverVars, roomVars
<1>o. ~InRoom'
  BY <1>2 DEF InRoom
<1>3. Types'
  BY <1>1, <1>2 DEF Types, Windows, Outcomes
<1>4. OneThing'
  BY <1>2 DEF OneThing, AtMostOne
<1>5. Kinds'
  BY <1>2 DEF Kinds, Request
<1>6. Listener'
  <2>1. OnlyQuits(MessageListener)
    BY <1>1, <1>2 DEF Listener
  <2> QED
    BY <1>2, <2>1 DEF Listener, OnlyQuits, QuitsFirst
<1>7. Room'
  BY <1>o DEF Room
<1>8. Numbers'
  BY <1>1, <1>2 DEF Numbers
<1>9. Shown'
  BY <1>o DEF Shown
<1>10. SlicesInRange'
  BY <1>1, <1>2 DEF SlicesInRange, Running
<1> QED
  BY <1>3, <1>4, <1>5, <1>6, <1>7, <1>8, <1>9, <1>10 DEF IInv

(* DrawGUI asks for the list and waits for it in its window.               *)
LEMMA OpenChatListKeeps ==
    ASSUME IInv, Running, OpenChatList
    PROVE  IInv'
<1>1. Types /\ OneThing /\ Kinds /\ Listener /\ Room /\ Numbers /\ Shown /\ Running
  BY DEF IInv
<1>a. UIListener # <<>>
  BY DEF OpenChatList, Open
<1>b. /\ UIListener = <<UIListener[1]>> /\ Head(UIListener) = UIListener[1]
      /\ Tail(UIListener) = <<>>
      /\ asked = <<>> /\ wire = <<>> /\ PacketChan = <<>> /\ packet = NoPacket
      /\ NextWindow(UIListener[1])
  BY <1>1, <1>a, NamesAreAlone
<1>2. /\ window = "next"
      /\ UIListener = <<UIListener[1]>> /\ UIListener' = <<>>
      /\ asked = <<>> /\ wire = <<>> /\ PacketChan = <<>> /\ packet = NoPacket
      /\ NextWindow(UIListener[1])
      /\ asked' = <<asked'[1]>> /\ asked'[1].kind = "view"
      /\ window' = "ChatList"
      /\ process' = process /\ MessageListener' = MessageListener
      /\ form' = form /\ rooms' = rooms /\ chatRoomID' = chatRoomID
      /\ chatLogBuffer' = chatLogBuffer /\ PacketChan' = PacketChan
      /\ packet' = packet /\ wire' = wire /\ created' = created
      /\ made' = made /\ sent' = sent /\ posts' = posts
      /\ MessageLog' = MessageLog /\ unstored' = unstored
      /\ turn' = turn /\ log' = log
      /\ signal' = signal /\ killSwitch' = killSwitch /\ chatLog' = chatLog
      /\ startRow' = startRow
  BY <1>1, <1>a, <1>b DEF OpenChatList, Open, Send, channels, globals,
     serverVars, roomVars
<1>o. ~InRoom'
  BY <1>2 DEF InRoom
<1>3. Types'
  BY <1>1, <1>2 DEF Types, Windows, Outcomes
<1>4. OneThing'
  BY <1>2 DEF OneThing, AtMostOne
<1>5. Kinds'
  BY <1>2 DEF Kinds, Request
<1>6. Listener'
  <2>1. OnlyQuits(MessageListener)
    BY <1>1, <1>2 DEF Listener
  <2> QED
    BY <1>2, <2>1 DEF Listener, OnlyQuits, QuitsFirst
<1>7. Room'
  BY <1>o DEF Room
<1>8. Numbers'
  BY <1>1, <1>2 DEF Numbers
<1>9. Shown'
  BY <1>o DEF Shown
<1>10. SlicesInRange'
  BY <1>1, <1>2 DEF SlicesInRange, Running
<1> QED
  BY <1>3, <1>4, <1>5, <1>6, <1>7, <1>8, <1>9, <1>10 DEF IInv

(* A room is entered: log and server have no line of it.                   *)
LEMMA OpenChatRoomKeeps ==
    ASSUME IInv, Running, OpenChatRoom
    PROVE  IInv'
<1>1. Types /\ OneThing /\ Kinds /\ Listener /\ Room /\ Numbers /\ Shown /\ Running
  BY DEF IInv
<1>a. UIListener # <<>>
  BY DEF OpenChatRoom, Open
<1>b. /\ UIListener = <<UIListener[1]>> /\ Head(UIListener) = UIListener[1]
      /\ Tail(UIListener) = <<>>
      /\ asked = <<>> /\ wire = <<>> /\ PacketChan = <<>> /\ packet = NoPacket
      /\ NextWindow(UIListener[1])
  BY <1>1, <1>a, NamesAreAlone
<1>2. /\ window = "next"
      /\ UIListener = <<UIListener[1]>> /\ UIListener' = <<>>
      /\ asked = <<>> /\ wire = <<>> /\ PacketChan = <<>> /\ packet = NoPacket
      /\ NextWindow(UIListener[1])
      /\ window' = "InChat" /\ UIListener[1] = "InChat"
      /\ turn' = "log" /\ log' = "draw" /\ signal' = FALSE /\ killSwitch' = FALSE
      /\ chatLog' = chatLogBuffer /\ startRow' = 0
      /\ process' = process /\ MessageListener' = MessageListener
      /\ form' = form /\ rooms' = rooms /\ chatRoomID' = chatRoomID
      /\ chatLogBuffer' = chatLogBuffer /\ PacketChan' = PacketChan
      /\ packet' = packet /\ asked' = asked /\ wire' = wire
      /\ created' = created /\ made' = made /\ sent' = sent /\ posts' = posts
      /\ MessageLog' = MessageLog /\ unstored' = unstored
  BY <1>1, <1>a, <1>b DEF OpenChatRoom, Open, channels, globals, serverVars,
     roomVars
<1>c. Fresh(chatRoomID) /\ chatLogBuffer = <<>>
  BY <1>2 DEF NextWindow
<1>d. MessageListener \in Seq(Items) /\ OnlyQuits(MessageListener)
      /\ \A i \in DOMAIN MessageListener : ~IsChat(MessageListener[i])
  BY <1>1, <1>2, QuitIsNoLine DEF Listener, Types, OnlyQuits
<1>e. Quiet'
  BY <1>2 DEF Quiet
<1>3. Types'
  <2>1. chatLog' \in Seq(LineSet) /\ startRow' \in Nat /\ startRow' <= Len(chatLog')
    BY <1>2, <1>c
  <2> QED
    BY <1>1, <1>2, <2>1 DEF Types, Windows, Outcomes
<1>4. OneThing'
  BY <1>2 DEF OneThing, AtMostOne
<1>5. Kinds'
  BY <1>2 DEF Kinds
<1>6. Listener'
  BY <1>2, <1>d DEF Listener, OnlyQuits, QuitsFirst
<1>7. Room'
  BY <1>2, <1>c, <1>d, <1>e DEF Room, InRoom, Fresh
<1>8. Numbers'
  BY <1>1, <1>2 DEF Numbers
<1>9. Shown'
  <2>1. NoPacket.kind \notin {"broadcast", "show"} /\ AtMostOne(<<>>)
    BY NoPacketKind DEF AtMostOne
  <2>2. InFlight(MessageListener, NoPacket, <<>>) = <<>>
    BY <1>d, <2>1, InFlightNone
  <2>3. Underway' = <<>>
    BY <1>2, <2>2, Concats, UnderwayIs
  <2>4. LinesOf(chatRoomID, sent) = <<>>
    BY <1>1, <1>c, LinesOfNone DEF Fresh, NoLineOf, Types
  <2> QED
    BY <1>2, <1>c, <1>d, <2>3, <2>4, Concats DEF Shown
<1>10. SlicesInRange'
  BY <1>1, <1>2 DEF SlicesInRange, Running
<1> QED
  BY <1>3, <1>4, <1>5, <1>6, <1>7, <1>8, <1>9, <1>10 DEF IInv

(* A choice in a menu is the only thing under way.                         *)
LEMMA ChooseKeeps ==
    ASSUME IInv, Running,
           NEW w \in {"BeforeLogin", "AfterLogin"},
           NEW name \in Names \ {"InChat", "BeforeLogin"},
           name = "NewChat" => created < MaxRooms, Choose(w, name)
    PROVE  IInv'
<1>1. Types /\ OneThing /\ Kinds /\ Listener /\ Room /\ Numbers /\ Shown /\ Running
  BY DEF IInv
<1>a. Quiet /\ UIListener = <<>>
  BY <1>1, MenusAreQuiet DEF Choose
<1>2. /\ window = w /\ window' = "next"
      /\ UIListener' = <<name>>
      /\ process' = process /\ MessageListener' = MessageListener
      /\ form' = form /\ rooms' = rooms /\ chatRoomID' = chatRoomID
      /\ chatLogBuffer' = chatLogBuffer /\ PacketChan' = PacketChan
      /\ packet' = packet /\ asked' = asked /\ wire' = wire
      /\ created' = created /\ made' = made /\ sent' = sent /\ posts' = posts
      /\ MessageLog' = MessageLog /\ unstored' = unstored
      /\ turn' = turn /\ log' = log
      /\ signal' = signal /\ killSwitch' = killSwitch /\ chatLog' = chatLog
      /\ startRow' = startRow
  BY <1>1, <1>a DEF Choose, PostUI, channels, globals, serverVars, roomVars
<1>b. asked = <<>> /\ wire = <<>> /\ PacketChan = <<>> /\ packet = NoPacket
  BY <1>a DEF Quiet
<1>o. ~InRoom'
  BY <1>2 DEF InRoom
<1>3. Types'
  BY <1>1, <1>2 DEF Types, Windows, Outcomes
<1>4. OneThing'
  BY <1>2, <1>b DEF OneThing, AtMostOne
<1>5. Kinds'
  <2>1. UIListener'[1] = name
    BY <1>2
  <2> QED
    BY <1>2, <1>b, <2>1 DEF Kinds, NextWindow
<1>6. Listener'
  <2>1. OnlyQuits(MessageListener)
    BY <1>1, <1>2 DEF Listener
  <2> QED
    BY <1>2, <2>1 DEF Listener, OnlyQuits, QuitsFirst
<1>7. Room'
  BY <1>o DEF Room
<1>8. Numbers'
  BY <1>1, <1>2 DEF Numbers
<1>9. Shown'
  BY <1>o DEF Shown
<1>10. SlicesInRange'
  BY <1>1, <1>2 DEF SlicesInRange, Running
<1> QED
  BY <1>3, <1>4, <1>5, <1>6, <1>7, <1>8, <1>9, <1>10 DEF IInv

(* The entries of the two menus.                                           *)
LEMMA MenuKeeps ==
    ASSUME IInv, Running,
           SignIn \/ CreateAccount \/ FindChatroom \/ ViewInvolvedInChatroom \/ GenerateNewChat
    PROVE  IInv'
  BY ChooseKeeps DEF SignIn, CreateAccount, FindChatroom, ViewInvolvedInChatroom,
     GenerateNewChat, Names

(* A room of the list is selected.                                         *)
LEMMA SelectChatRoomKeeps ==
    ASSUME IInv, Running, SelectChatRoom
    PROVE  IInv'
<1>1. Types /\ OneThing /\ Kinds /\ Listener /\ Room /\ Numbers /\ Shown /\ Running
  BY DEF IInv
<1>a. Quiet /\ UIListener = <<>>
  BY <1>1, MenusAreQuiet DEF SelectChatRoom
<1>2. /\ window = "pick" /\ window' = "next"
      /\ UIListener' = <<"OldChat">>
      /\ chatRoomID' \in IF rooms = {} THEN {0} ELSE rooms
      /\ rooms' = {}
      /\ process' = process /\ MessageListener' = MessageListener
      /\ form' = form /\ chatLogBuffer' = chatLogBuffer
      /\ PacketChan' = PacketChan /\ packet' = packet /\ asked' = asked
      /\ wire' = wire /\ created' = created /\ made' = made /\ sent' = sent
      /\ posts' = posts /\ MessageLog' = MessageLog /\ unstored' = unstored
      /\ turn' = turn
      /\ log' = log /\ signal' = signal /\ killSwitch' = killSwitch
      /\ chatLog' = chatLog /\ startRow' = startRow
  BY <1>1, <1>a DEF SelectChatRoom, PostUI, channels, globals, serverVars,
     roomVars
<1>b. asked = <<>> /\ wire = <<>> /\ PacketChan = <<>> /\ packet = NoPacket
  BY <1>a DEF Quiet
<1>o. ~InRoom'
  BY <1>2 DEF InRoom
<1>3. Types'
  <2>1. chatRoomID' \in Int /\ -1 <= chatRoomID' /\ chatRoomID' <= made
    BY <1>1, <1>2 DEF Types
  <2> QED
    BY <1>1, <1>2, <2>1 DEF Types, Windows, Outcomes
<1>4. OneThing'
  BY <1>2, <1>b DEF OneThing, AtMostOne
<1>5. Kinds'
  <2>1. UIListener'[1] = "OldChat"
    BY <1>2
  <2> QED
    BY <1>2, <1>b, <2>1 DEF Kinds, NextWindow, Names
<1>6. Listener'
  <2>1. OnlyQuits(MessageListener)
    BY <1>1, <1>2 DEF Listener
  <2> QED
    BY <1>2, <2>1 DEF Listener, OnlyQuits, QuitsFirst
<1>7. Room'
  BY <1>o DEF Room
<1>8. Numbers'
  BY <1>1, <1>2 DEF Numbers
<1>9. Shown'
  BY <1>o DEF Shown
<1>10. SlicesInRange'
  BY <1>1, <1>2 DEF SlicesInRange, Running
<1> QED
  BY <1>3, <1>4, <1>5, <1>6, <1>7, <1>8, <1>9, <1>10 DEF IInv

-----------------------------------------------------------------------------
(* The forms.                                                              *)
LEMMA EditKeeps ==
    ASSUME IInv, Running,
           NEW f \in [first : 0 .. MaxKeys, second : 0 .. MaxKeys, inFirst : BOOLEAN],
           Edit(f)
    PROVE  IInv'
<1>1. Types /\ OneThing /\ Kinds /\ Listener /\ Room /\ Numbers /\ Shown /\ Running
  BY DEF IInv
<1>2. /\ form' = f
      /\ window \in {"Sign In", "NewChat"}
      /\ process' = process /\ window' = window /\ UIListener' = UIListener
      /\ MessageListener' = MessageListener /\ rooms' = rooms
      /\ chatRoomID' = chatRoomID /\ chatLogBuffer' = chatLogBuffer
      /\ PacketChan' = PacketChan /\ packet' = packet /\ asked' = asked
      /\ wire' = wire /\ created' = created /\ made' = made /\ sent' = sent
      /\ posts' = posts /\ MessageLog' = MessageLog /\ unstored' = unstored
      /\ turn' = turn
      /\ log' = log /\ signal' = signal /\ killSwitch' = killSwitch
      /\ chatLog' = chatLog /\ startRow' = startRow
  BY <1>1 DEF Edit, Editing, channels, globals, serverVars, roomVars
<1>3. Types'
  BY <1>1, <1>2 DEF Types
<1>4. OneThing'
  BY <1>1, <1>2 DEF OneThing
<1>5. Kinds'
  BY <1>1, <1>2, KindsStay
<1>6. Listener'
  BY <1>1, <1>2 DEF Listener, Quiet
<1>7. Room'
  BY <1>1, <1>2 DEF Room, InRoom, Quiet
<1>8. Numbers'
  BY <1>1, <1>2 DEF Numbers
<1>9. Shown'
  BY <1>1, <1>2, UnderwayIs DEF Shown, InRoom, IsStored, HasRow
<1>10. SlicesInRange'
  BY <1>1, <1>2 DEF SlicesInRange, Running
<1> QED
  BY <1>3, <1>4, <1>5, <1>6, <1>7, <1>8, <1>9, <1>10 DEF IInv

(* The keys of a form that do not end the process.                         *)
LEMMA FormKeeps ==
    ASSUME IInv, Running, TypeKey \/ SwitchField \/ Backspace
    PROVE  IInv'
<1> DEFINE F == [first : 0 .. MaxKeys, second : 0 .. MaxKeys, inFirst : BOOLEAN]
<1>1. /\ form \in F /\ MaxKeys \in Nat
      /\ form.first \in 0 .. MaxKeys /\ form.second \in 0 .. MaxKeys /\ form.inFirst \in BOOLEAN
  BY ClientFlowAssumption DEF IInv, Types
<1>2. \A k \in 0 .. MaxKeys : [form EXCEPT !.first = k] \in F /\ [form EXCEPT !.second = k] \in F
  BY <1>1
<1>3. [form EXCEPT !.inFirst = ~@] \in F
  BY <1>1
<1>4. CASE TypeKey
  <2>1. form.first < MaxKeys => form.first + 1 \in 0 .. MaxKeys
    BY <1>1
  <2>2. form.second < MaxKeys => form.second + 1 \in 0 .. MaxKeys
    BY <1>1
  <2>3. \/ form.first < MaxKeys /\ Edit([form EXCEPT !.first = form.first + 1])
        \/ form.second < MaxKeys /\ Edit([form EXCEPT !.second = form.second + 1])
    BY <1>4 DEF TypeKey
  <2> QED
    BY <1>2, <2>1, <2>2, <2>3, EditKeeps
<1>5. CASE SwitchField
  BY <1>3, <1>5, EditKeeps DEF SwitchField
<1>6. CASE Backspace
  <2>1. form.first > 0 => form.first - 1 \in 0 .. MaxKeys
    BY <1>1
  <2>2. form.second > 0 => form.second - 1 \in 0 .. MaxKeys
    BY <1>1
  <2>3. \/ form.first > 0 /\ Edit([form EXCEPT !.first = form.first - 1])
        \/ form.second > 0 /\ Edit([form EXCEPT !.second = form.second - 1])
    BY <1>6 DEF Backspace, MayDelete
  <2> QED
    BY <1>2, <2>1, <2>2, <2>3, EditKeeps
<1> QED
  BY <1>4, <1>5, <1>6

(* Backspace in an empty second field is one of the known panics.          *)
LEMMA BackspacePanicsKeeps ==
    ASSUME IInv, Running, BackspacePanics
    PROVE  IInv'
<1>1. Types /\ OneThing /\ Kinds /\ Listener /\ Room /\ Numbers /\ Shown /\ Running
  BY DEF IInv
<1>2. /\ process' = "out of range"
      /\ Editing /\ ~form.inFirst /\ form.second = 0 /\ form.first > 0
      /\ window' = window /\ UIListener' = UIListener
      /\ MessageListener' = MessageListener /\ form' = form /\ rooms' = rooms
      /\ chatRoomID' = chatRoomID /\ chatLogBuffer' = chatLogBuffer
      /\ PacketChan' = PacketChan /\ packet' = packet /\ asked' = asked
      /\ wire' = wire /\ created' = created /\ made' = made /\ sent' = sent
      /\ posts' = posts /\ MessageLog' = MessageLog /\ unstored' = unstored
      /\ turn' = turn
      /\ log' = log /\ signal' = signal /\ killSwitch' = killSwitch
      /\ chatLog' = chatLog /\ startRow' = startRow
  BY <1>1 DEF BackspacePanics, Stop, MayDelete, channels, globals, serverVars,
     roomVars
<1>3. Types'
  BY <1>1, <1>2 DEF Types, Outcomes
<1>4. OneThing'
  BY <1>1, <1>2 DEF OneThing
<1>5. Kinds'
  BY <1>1, <1>2, KindsStay
<1>6. Listener'
  BY <1>1, <1>2 DEF Listener, Quiet
<1>7. Room'
  BY <1>1, <1>2 DEF Room, InRoom, Quiet
<1>8. Numbers'
  BY <1>1, <1>2 DEF Numbers
<1>9. Shown'
  BY <1>1, <1>2, UnderwayIs DEF Shown, InRoom, IsStored, HasRow
<1>10. SlicesInRange'
  BY <1>2 DEF SlicesInRange, Editing
<1> QED
  BY <1>3, <1>4, <1>5, <1>6, <1>7, <1>8, <1>9, <1>10 DEF IInv

(* A form is sent: the request is the only thing under way.                *)
LEMMA SubmitKeeps ==
    ASSUME IInv, Running, Submit
    PROVE  IInv'
<1>1. Types /\ OneThing /\ Kinds /\ Listener /\ Room /\ Numbers /\ Shown /\ Running
  BY DEF IInv
<1>a. Quiet /\ UIListener = <<>>
  BY <1>1, MenusAreQuiet DEF Submit, Editing
<1>b. asked = <<>> /\ wire = <<>> /\ PacketChan = <<>> /\ packet = NoPacket
  BY <1>a DEF Quiet
<1>c. \/ asked' = Append(asked, [kind |-> "login"]) /\ created' = created
      \/ /\ window = "NewChat" /\ asked' = Append(asked, [kind |-> "create"])
         /\ created' = created + 1
  BY DEF Submit, Send
<1>d. created \in Nat /\ made \in Nat /\ made <= created /\ created <= MaxRooms /\ MaxRooms \in Nat
      /\ (window = "NewChat" => created < MaxRooms)
  BY <1>1, ClientFlowAssumption DEF Types, Kinds
<1>e. created' \in Nat /\ created <= created' /\ created' <= MaxRooms /\ made <= created'
  BY <1>c, <1>d
<1>f. \E r : asked' = <<r>> /\ (r.kind = "login" \/ (r.kind = "create" /\ created < created'))
  <2>1. CASE asked' = Append(asked, [kind |-> "login"])
    BY <2>1, <1>b
  <2>2. CASE asked' = Append(asked, [kind |-> "create"]) /\ created' = created + 1
    <3>1. asked' = <<[kind |-> "create"]>>
      BY <2>2, <1>b
    <3>2. created < created'
      BY <2>2, <1>d
    <3> QED
      BY <3>1, <3>2
  <2> QED
    BY <1>c, <2>1, <2>2
<1>g. asked' = <<asked'[1]>>
      /\ (asked'[1].kind = "login" \/ (asked'[1].kind = "create" /\ created < created'))
  BY <1>f
<1>2. /\ window \in {"Sign In", "NewChat"} /\ window' = "next"
      /\ form' = EmptyForm
      /\ asked' = <<asked'[1]>>
      /\ created' \in Nat /\ created <= created' /\ created' <= MaxRooms
      /\ asked'[1].kind = "login" \/ (asked'[1].kind = "create" /\ created < created')
      /\ process' = process /\ UIListener' = UIListener
      /\ MessageListener' = MessageListener /\ rooms' = rooms
      /\ chatRoomID' = chatRoomID /\ chatLogBuffer' = chatLogBuffer
      /\ PacketChan' = PacketChan /\ packet' = packet /\ wire' = wire
      /\ made' = made /\ sent' = sent /\ posts' = posts
      /\ MessageLog' = MessageLog /\ unstored' = unstored
      /\ turn' = turn /\ log' = log
      /\ signal' = signal /\ killSwitch' = killSwitch /\ chatLog' = chatLog
      /\ startRow' = startRow
  BY <1>1, <1>e, <1>g DEF Submit, Send, Editing, channels, globals, serverVars,
     roomVars
<1>o. ~InRoom'
  BY <1>2 DEF InRoom
<1>3. Types'
  <2>1. form' \in [first : 0 .. MaxKeys, second : 0 .. MaxKeys, inFirst : BOOLEAN]
    <3>1. MaxKeys \in Nat /\ form' = EmptyForm
      BY <1>2, ClientFlowAssumption
    <3>2. 0 \in 0 .. MaxKeys
      BY <3>1
    <3> QED
      BY <3>1, <3>2 DEF EmptyForm
  <2>2. made <= created'
    BY <1>e
  <2> QED
    BY <1>1, <1>2, <2>1, <2>2 DEF Types, Windows, Outcomes
<1>4. OneThing'
  BY <1>2, <1>a, <1>b DEF OneThing, AtMostOne
<1>5. Kinds'
  <2>1. made' < created' \/ asked'[1].kind = "login"
    <3>1. made' = made
      BY <1>2
    <3>2. created < created' => made' < created'
      BY <3>1, <1>d, <1>e
    <3> QED
      BY <3>2, <1>g
  <2> QED
    BY <1>2, <1>a, <1>b, <2>1 DEF Kinds, Request
<1>6. Listener'
  <2>1. OnlyQuits(MessageListener)
    BY <1>1, <1>2 DEF Listener
  <2> QED
    BY <1>2, <2>1 DEF Listener, OnlyQuits, QuitsFirst
<1>7. Room'
  BY <1>o DEF Room
<1>8. Numbers'
  BY <1>1, <1>2 DEF Numbers
<1>9. Shown'
  BY <1>o DEF Shown
<1>10. SlicesInRange'
  BY <1>1, <1>2 DEF SlicesInRange, Running
<1> QED
  BY <1>3, <1>4, <1>5, <1>6, <1>7, <1>8, <1>9, <1>10 DEF IInv
-----------------------------------------------------------------------------
(* The room: the input area and the option menu.                           *)

(* While the user has the turn, or the log area draws, nothing is under way. *)
LEMMA TurnIsQuiet ==
    ASSUME Types, Room, InRoom, turn # "log" \/ log = "draw"
    PROVE  /\ asked = <<>> /\ wire = <<>> /\ PacketChan = <<>> /\ packet = NoPacket
           /\ Quiet /\ UIListener = <<>>
           /\ MessageListener \in Seq(Items) /\ OnlyQuits(MessageListener)
           /\ \A i \in DOMAIN MessageListener : ~IsChat(MessageListener[i])
           /\ turn # "log" => log # "draw"
  BY QuitIsNoLine DEF Types, Room, OnlyQuits, Quiet

(* The input area gives the turn to the log area.                          *)
LEMMA GiveWayKeeps ==
    ASSUME IInv, Running, GiveWay
    PROVE  IInv'
<1>1. Types /\ OneThing /\ Kinds /\ Listener /\ Room /\ Numbers /\ Shown /\ Running
  BY DEF IInv
<1>a. InRoom /\ turn # "log"
  BY DEF GiveWay, InputMay
<1>2. /\ InRoom /\ turn = "input" /\ ~killSwitch /\ signal
      /\ turn' = "log"
      /\ process' = process /\ window' = window /\ UIListener' = UIListener
      /\ MessageListener' = MessageListener /\ form' = form /\ rooms' = rooms
      /\ chatRoomID' = chatRoomID /\ chatLogBuffer' = chatLogBuffer
      /\ PacketChan' = PacketChan /\ packet' = packet /\ asked' = asked
      /\ wire' = wire /\ created' = created /\ made' = made /\ sent' = sent
      /\ posts' = posts /\ MessageLog' = MessageLog /\ unstored' = unstored
      /\ log' = log
      /\ signal' = signal /\ killSwitch' = killSwitch /\ chatLog' = chatLog
      /\ startRow' = startRow
  BY <1>1, <1>a DEF GiveWay, InputMay, roomFrame, channels, globals, serverVars,
     roomVars
<1>b. /\ Quiet /\ OnlyQuits(MessageListener) /\ log # "draw"
  BY <1>1, <1>a, TurnIsQuiet
<1>c. Quiet'
  BY <1>2, <1>b DEF Quiet
<1>3. Types'
  BY <1>1, <1>2 DEF Types
<1>4. OneThing'
  BY <1>1, <1>2 DEF OneThing
<1>5. Kinds'
  BY <1>1, <1>2, KindsStay
<1>6. Listener'
  BY <1>1, <1>2 DEF Listener, Quiet
<1>7. Room'
  BY <1>1, <1>2, <1>b, <1>c DEF Room, InRoom
<1>8. Numbers'
  BY <1>1, <1>2 DEF Numbers
<1>9. Shown'
  BY <1>1, <1>2, UnderwayIs DEF Shown, InRoom, IsStored, HasRow
<1>10. SlicesInRange'
  BY <1>1, <1>2 DEF SlicesInRange, Running
<1> QED
  BY <1>3, <1>4, <1>5, <1>6, <1>7, <1>8, <1>9, <1>10 DEF IInv

(* The option menu gets the turn.                                          *)
LEMMA OpenOptionsKeeps ==
    ASSUME IInv, Running, OpenOptions
    PROVE  IInv'
<1>1. Types /\ OneThing /\ Kinds /\ Listener /\ Room /\ Numbers /\ Shown /\ Running
  BY DEF IInv
<1>a. InRoom /\ turn # "log"
  BY DEF OpenOptions, InputMay
<1>2. /\ InRoom /\ turn = "input"
      /\ turn' = "option"
      /\ process' = process /\ window' = window /\ UIListener' = UIListener
      /\ MessageListener' = MessageListener /\ form' = form /\ rooms' = rooms
      /\ chatRoomID' = chatRoomID /\ chatLogBuffer' = chatLogBuffer
      /\ PacketChan' = PacketChan /\ packet' = packet /\ asked' = asked
      /\ wire' = wire /\ created' = created /\ made' = made /\ sent' = sent
      /\ posts' = posts /\ MessageLog' = MessageLog /\ unstored' = unstored
      /\ log' = log
      /\ signal' = signal /\ killSwitch' = killSwitch /\ chatLog' = chatLog
      /\ startRow' = startRow
  BY <1>1, <1>a DEF OpenOptions, InputMay, roomFrame, channels, globals,
     serverVars, roomVars
<1>b. /\ Quiet /\ OnlyQuits(MessageListener) /\ log # "draw"
  BY <1>1, <1>a, TurnIsQuiet
<1>c. Quiet'
  BY <1>2, <1>b DEF Quiet
<1>3. Types'
  BY <1>1, <1>2 DEF Types
<1>4. OneThing'
  BY <1>1, <1>2 DEF OneThing
<1>5. Kinds'
  BY <1>1, <1>2, KindsStay
<1>6. Listener'
  BY <1>1, <1>2 DEF Listener, Quiet
<1>7. Room'
  BY <1>1, <1>2, <1>b, <1>c DEF Room, InRoom
<1>8. Numbers'
  BY <1>1, <1>2 DEF Numbers
<1>9. Shown'
  BY <1>1, <1>2, UnderwayIs DEF Shown, InRoom, IsStored, HasRow
<1>10. SlicesInRange'
  BY <1>1, <1>2 DEF SlicesInRange, Running
<1> QED
  BY <1>3, <1>4, <1>5, <1>6, <1>7, <1>8, <1>9, <1>10 DEF IInv

(* The option menu gives it back.                                          *)
LEMMA ReturnChatKeeps ==
    ASSUME IInv, Running, ReturnChat
    PROVE  IInv'
<1>1. Types /\ OneThing /\ Kinds /\ Listener /\ Room /\ Numbers /\ Shown /\ Running
  BY DEF IInv
<1>a. InRoom /\ turn # "log"
  BY DEF ReturnChat, InputMay
<1>2. /\ InRoom /\ turn = "option"
      /\ turn' = "input"
      /\ process' = process /\ window' = window /\ UIListener' = UIListener
      /\ MessageListener' = MessageListener /\ form' = form /\ rooms' = rooms
      /\ chatRoomID' = chatRoomID /\ chatLogBuffer' = chatLogBuffer
      /\ PacketChan' = PacketChan /\ packet' = packet /\ asked' = asked
      /\ wire' = wire /\ created' = created /\ made' = made /\ sent' = sent
      /\ posts' = posts /\ MessageLog' = MessageLog /\ unstored' = unstored
      /\ log' = log
      /\ signal' = signal /\ killSwitch' = killSwitch /\ chatLog' = chatLog
      /\ startRow' = startRow
  BY <1>1, <1>a DEF ReturnChat, roomFrame, channels, globals, serverVars, roomVars
<1>b. /\ Quiet /\ OnlyQuits(MessageListener) /\ log # "draw"
  BY <1>1, <1>a, TurnIsQuiet
<1>c. Quiet'
  BY <1>2, <1>b DEF Quiet
<1>3. Types'
  BY <1>1, <1>2 DEF Types
<1>4. OneThing'
  BY <1>1, <1>2 DEF OneThing
<1>5. Kinds'
  BY <1>1, <1>2, KindsStay
<1>6. Listener'
  BY <1>1, <1>2 DEF Listener, Quiet
<1>7. Room'
  BY <1>1, <1>2, <1>b, <1>c DEF Room, InRoom
<1>8. Numbers'
  BY <1>1, <1>2 DEF Numbers
<1>9. Shown'
  BY <1>1, <1>2, UnderwayIs DEF Shown, InRoom, IsStored, HasRow
<1>10. SlicesInRange'
  BY <1>1, <1>2 DEF SlicesInRange, Running
<1> QED
  BY <1>3, <1>4, <1>5, <1>6, <1>7, <1>8, <1>9, <1>10 DEF IInv

(* A line is posted, and the turn given away until it is back.             *)
LEMMA SendTransferMessageKeeps ==
    ASSUME IInv, Running, SendTransferMessage
    PROVE  IInv'
<1>1. Types /\ OneThing /\ Kinds /\ Listener /\ Room /\ Numbers /\ Shown /\ Running
  BY DEF IInv
<1>a. InRoom /\ turn # "log"
  BY DEF SendTransferMessage, InputMay
<1>b. /\ asked = <<>> /\ wire = <<>> /\ PacketChan = <<>> /\ packet = NoPacket
      /\ UIListener = <<>> /\ OnlyQuits(MessageListener) /\ log # "draw"
  BY <1>1, <1>a, TurnIsQuiet
<1>2. /\ InRoom /\ turn = "input" /\ ~killSwitch
      /\ posts < MaxPosts /\ posts' = posts + 1
      /\ asked' = <<asked'[1]>>
      /\ asked'[1].kind = "post" /\ asked'[1].room = chatRoomID
      /\ turn' = "log"
      /\ log # "draw"
      /\ wire = <<>> /\ PacketChan = <<>> /\ packet = NoPacket /\ UIListener = <<>>
      /\ process' = process /\ window' = window /\ UIListener' = UIListener
      /\ MessageListener' = MessageListener /\ form' = form /\ rooms' = rooms
      /\ chatRoomID' = chatRoomID /\ chatLogBuffer' = chatLogBuffer
      /\ PacketChan' = PacketChan /\ packet' = packet /\ wire' = wire
      /\ created' = created /\ made' = made /\ sent' = sent
      /\ MessageLog' = MessageLog /\ unstored' = unstored
      /\ log' = log /\ signal' = signal
      /\ killSwitch' = killSwitch /\ chatLog' = chatLog
      /\ startRow' = startRow
  BY <1>1, <1>a, <1>b DEF SendTransferMessage, InputMay, Send, roomFrame,
     channels, globals, serverVars, roomVars
<1>3. Types'
  <2>1. posts' \in Nat /\ posts' <= MaxPosts
    <3>1. posts \in Nat /\ MaxPosts \in Nat /\ posts < MaxPosts /\ posts' = posts + 1
      BY <1>1, <1>2, ClientFlowAssumption DEF Types
    <3> QED
      BY <3>1
  <2> QED
    BY <1>1, <1>2, <2>1 DEF Types
<1>4. OneThing'
  BY <1>2 DEF OneThing, AtMostOne
<1>5. Kinds'
  <2>1. Request(asked[1])'
    BY <1>2 DEF Request, InRoom
  <2> QED
    BY <1>2, <2>1 DEF Kinds, InRoom
<1>6. Listener'
  BY <1>1, <1>2 DEF Listener, InRoom
<1>7. Room'
  BY <1>1, <1>2, <1>b DEF Room, InRoom
<1>8. Numbers'
  BY <1>1, <1>2 DEF Numbers
<1>9. Shown'
  BY <1>1, <1>2, UnderwayIs DEF Shown, InRoom, IsStored, HasRow
<1>10. SlicesInRange'
  BY <1>1, <1>2 DEF SlicesInRange, Running
<1> QED
  BY <1>3, <1>4, <1>5, <1>6, <1>7, <1>8, <1>9, <1>10 DEF IInv

(* A scroll is asked for behind nothing but quits.                         *)
LEMMA EnterScrollKeeps ==
    ASSUME IInv, Running, EnterScroll
    PROVE  IInv'
<1>1. Types /\ OneThing /\ Kinds /\ Listener /\ Room /\ Numbers /\ Shown /\ Running
  BY DEF IInv
<1>a. InRoom /\ turn # "log"
  BY DEF EnterScroll, InputMay
<1>b. /\ Quiet /\ log # "draw" /\ UIListener = <<>>
      /\ asked = <<>> /\ wire = <<>> /\ PacketChan = <<>> /\ packet = NoPacket
      /\ MessageListener \in Seq(Items) /\ OnlyQuits(MessageListener)
      /\ \A i \in DOMAIN MessageListener : ~IsChat(MessageListener[i])
  BY <1>1, <1>a, TurnIsQuiet
<1>c. \E item \in {Command("up"), Command("down")} :
         MessageListener' = Append(MessageListener, item)
  BY DEF EnterScroll, PostMessage, Quit
<1> PICK item \in {Command("up"), Command("down")} :
         MessageListener' = Append(MessageListener, item)
  BY <1>c
<1>2. /\ InRoom /\ turn # "log" /\ log # "draw"
      /\ Len(MessageListener) < ListenerSize
      /\ turn' = "log"
      /\ ~killSwitch
      /\ process' = process /\ window' = window /\ UIListener' = UIListener
      /\ form' = form /\ rooms' = rooms /\ chatRoomID' = chatRoomID
      /\ chatLogBuffer' = chatLogBuffer /\ PacketChan' = PacketChan
      /\ packet' = packet /\ asked' = asked /\ wire' = wire
      /\ created' = created /\ made' = made /\ sent' = sent /\ posts' = posts
      /\ MessageLog' = MessageLog /\ unstored' = unstored
      /\ log' = log /\ signal' = signal
      /\ killSwitch' = killSwitch /\ chatLog' = chatLog
      /\ startRow' = startRow
  BY <1>1, <1>a, <1>b DEF EnterScroll, InputMay, PostMessage, roomFrame,
     channels, globals, serverVars, roomVars
<1> PICK m : m = MessageListener'
  OBVIOUS
<1>d. item \in Items /\ ~IsChat(item)
  BY ItemKinds DEF Quit
<1>e. /\ m \in Seq(Items) /\ Len(m) = Len(MessageListener) + 1 /\ Len(MessageListener) \in Nat
      /\ DOMAIN m = 1 .. Len(m) /\ DOMAIN MessageListener = 1 .. Len(MessageListener)
      /\ m[Len(m)] = item
      /\ \A i \in DOMAIN MessageListener : m[i] = MessageListener[i]
  BY <1>b, <1>d
<1>f. /\ \A i \in DOMAIN m : i # Len(m) => i \in DOMAIN MessageListener
      /\ \A i \in DOMAIN m : i # Len(m) => m[i] = Quit
      /\ \A i \in DOMAIN m : ~IsChat(m[i])
  BY <1>b, <1>d, <1>e DEF OnlyQuits
<1>g. Underway' = Underway
  <2>1. NoPacket.kind \notin {"broadcast", "show"} /\ AtMostOne(<<>>)
    BY NoPacketKind DEF AtMostOne
  <2>2. InFlight(MessageListener, NoPacket, <<>>) = <<>> /\ InFlight(m, NoPacket, <<>>) = <<>>
    BY <1>b, <1>e, <1>f, <2>1, InFlightNone
  <2>3. PacketChan \o wire = <<>> /\ PacketChan' \o wire' = <<>>
    BY <1>2, <1>b, Concats
  <2> QED
    BY <1>2, <1>b, <2>2, <2>3, UnderwayIs
<1>h. Quiet'
  BY <1>2, <1>b DEF Quiet
<1>3. Types'
  <2>1. MessageListener' \in Seq(Items) /\ Len(MessageListener') <= ListenerSize
    BY <1>2, <1>e, ClientFlowAssumption
  <2> QED
    BY <1>1, <1>2, <2>1 DEF Types
<1>4. OneThing'
  BY <1>1, <1>2 DEF OneThing
<1>5. Kinds'
  BY <1>1, <1>2, KindsStay
<1>6. Listener'
  BY <1>2, <1>f DEF Listener, QuitsFirst, InRoom
<1>7. Room'
  BY <1>1, <1>2, <1>b, <1>h DEF Room, InRoom
<1>8. Numbers'
  BY <1>1, <1>2 DEF Numbers
<1>9. Shown'
  <2>1. \A i \in DOMAIN MessageListener' : ~IsChat(MessageListener'[i])
    BY <1>f
  <2> QED
    BY <1>1, <1>2, <1>g, <2>1 DEF Shown, InRoom, IsStored, HasRow
<1>10. SlicesInRange'
  BY <1>1, <1>2 DEF SlicesInRange, Running
<1> QED
  BY <1>3, <1>4, <1>5, <1>6, <1>7, <1>8, <1>9, <1>10 DEF IInv

(* A quit is entered while nothing is under way.                           *)
LEMMA EnterQuitKeeps ==
    ASSUME IInv, Running, EnterQuit
    PROVE  IInv'
<1>1. Types /\ OneThing /\ Kinds /\ Listener /\ Room /\ Numbers /\ Shown /\ Running
  BY DEF IInv
<1>a. InRoom /\ turn # "log"
  BY DEF EnterQuit, InputMay
<1>b. /\ Quiet /\ log # "draw" /\ UIListener = <<>>
      /\ asked = <<>> /\ wire = <<>> /\ PacketChan = <<>> /\ packet = NoPacket
      /\ MessageListener \in Seq(Items) /\ OnlyQuits(MessageListener)
      /\ \A i \in DOMAIN MessageListener : ~IsChat(MessageListener[i])
  BY <1>1, <1>a, TurnIsQuiet
<1>c. \E item \in {Quit} : MessageListener' = Append(MessageListener, item)
  BY DEF EnterQuit, PostMessage, Quit
<1> PICK item \in {Quit} : MessageListener' = Append(MessageListener, item)
  BY <1>c
<1>2. /\ InRoom /\ turn # "log" /\ log # "draw"
      /\ Len(MessageListener) < ListenerSize
      /\ turn' = "option"
      /\ killSwitch' = TRUE
      /\ process' = process /\ window' = window /\ UIListener' = UIListener
      /\ form' = form /\ rooms' = rooms /\ chatRoomID' = chatRoomID
      /\ chatLogBuffer' = chatLogBuffer /\ PacketChan' = PacketChan
      /\ packet' = packet /\ asked' = asked /\ wire' = wire
      /\ created' = created /\ made' = made /\ sent' = sent /\ posts' = posts
      /\ MessageLog' = MessageLog /\ unstored' = unstored
      /\ log' = log /\ signal' = signal
      /\ chatLog' = chatLog /\ startRow' = startRow
  BY <1>1, <1>a, <1>b DEF EnterQuit, InputMay, PostMessage, roomFrame, channels,
     globals, serverVars, roomVars
<1> PICK m : m = MessageListener'
  OBVIOUS
<1>d. item \in Items /\ ~IsChat(item)
  BY ItemKinds DEF Quit
<1>e. /\ m \in Seq(Items) /\ Len(m) = Len(MessageListener) + 1 /\ Len(MessageListener) \in Nat
      /\ DOMAIN m = 1 .. Len(m) /\ DOMAIN MessageListener = 1 .. Len(MessageListener)
      /\ m[Len(m)] = item
      /\ \A i \in DOMAIN MessageListener : m[i] = MessageListener[i]
  BY <1>b, <1>d
<1>f. /\ \A i \in DOMAIN m : i # Len(m) => i \in DOMAIN MessageListener
      /\ \A i \in DOMAIN m : i # Len(m) => m[i] = Quit
      /\ \A i \in DOMAIN m : ~IsChat(m[i])
  BY <1>b, <1>d, <1>e DEF OnlyQuits
<1>g. Underway' = Underway
  <2>1. NoPacket.kind \notin {"broadcast", "show"} /\ AtMostOne(<<>>)
    BY NoPacketKind DEF AtMostOne
  <2>2. InFlight(MessageListener, NoPacket, <<>>) = <<>> /\ InFlight(m, NoPacket, <<>>) = <<>>
    BY <1>b, <1>e, <1>f, <2>1, InFlightNone
  <2>3. PacketChan \o wire = <<>> /\ PacketChan' \o wire' = <<>>
    BY <1>2, <1>b, Concats
  <2> QED
    BY <1>2, <1>b, <2>2, <2>3, UnderwayIs
<1>h. Quiet'
  BY <1>2, <1>b DEF Quiet
<1>3. Types'
  <2>1. MessageListener' \in Seq(Items) /\ Len(MessageListener') <= ListenerSize
    BY <1>2, <1>e, ClientFlowAssumption
  <2> QED
    BY <1>1, <1>2, <2>1 DEF Types
<1>4. OneThing'
  BY <1>1, <1>2 DEF OneThing
<1>5. Kinds'
  BY <1>1, <1>2, KindsStay
<1>6. Listener'
  BY <1>2, <1>f DEF Listener, QuitsFirst, InRoom
<1>7. Room'
  BY <1>1, <1>2, <1>b, <1>e, <1>f, <1>h DEF Room, InRoom, OnlyQuits
<1>8. Numbers'
  BY <1>1, <1>2 DEF Numbers
<1>9. Shown'
  <2>1. \A i \in DOMAIN MessageListener' : ~IsChat(MessageListener'[i])
    BY <1>f
  <2> QED
    BY <1>1, <1>2, <1>g, <2>1 DEF Shown, InRoom, IsStored, HasRow
<1>10. SlicesInRange'
  BY <1>1, <1>2 DEF SlicesInRange, Running
<1> QED
  BY <1>3, <1>4, <1>5, <1>6, <1>7, <1>8, <1>9, <1>10 DEF IInv

(* So is one of the option menu.                                           *)
LEMMA ExitChatKeeps ==
    ASSUME IInv, Running, ExitChat
    PROVE  IInv'
<1>1. Types /\ OneThing /\ Kinds /\ Listener /\ Room /\ Numbers /\ Shown /\ Running
  BY DEF IInv
<1>a. InRoom /\ turn # "log"
  BY DEF ExitChat, InputMay
<1>b. /\ Quiet /\ log # "draw" /\ UIListener = <<>>
      /\ asked = <<>> /\ wire = <<>> /\ PacketChan = <<>> /\ packet = NoPacket
      /\ MessageListener \in Seq(Items) /\ OnlyQuits(MessageListener)
      /\ \A i \in DOMAIN MessageListener : ~IsChat(MessageListener[i])
  BY <1>1, <1>a, TurnIsQuiet
<1>c. \E item \in {Quit} : MessageListener' = Append(MessageListener, item)
  BY DEF ExitChat, PostMessage, Quit
<1> PICK item \in {Quit} : MessageListener' = Append(MessageListener, item)
  BY <1>c
<1>2. /\ InRoom /\ turn # "log" /\ log # "draw"
      /\ Len(MessageListener) < ListenerSize
      /\ turn' = "input"
      /\ killSwitch' = TRUE
      /\ process' = process /\ window' = window /\ UIListener' = UIListener
      /\ form' = form /\ rooms' = rooms /\ chatRoomID' = chatRoomID
      /\ chatLogBuffer' = chatLogBuffer /\ PacketChan' = PacketChan
      /\ packet' = packet /\ asked' = asked /\ wire' = wire
      /\ created' = created /\ made' = made /\ sent' = sent /\ posts' = posts
      /\ MessageLog' = MessageLog /\ unstored' = unstored
      /\ log' = log /\ signal' = signal
      /\ chatLog' = chatLog /\ startRow' = startRow
  BY <1>1, <1>a, <1>b DEF ExitChat, InputMay, PostMessage, roomFrame, channels,
     globals, serverVars, roomVars
<1> PICK m : m = MessageListener'
  OBVIOUS
<1>d. item \in Items /\ ~IsChat(item)
  BY ItemKinds DEF Quit
<1>e. /\ m \in Seq(Items) /\ Len(m) = Len(MessageListener) + 1 /\ Len(MessageListener) \in Nat
      /\ DOMAIN m = 1 .. Len(m) /\ DOMAIN MessageListener = 1 .. Len(MessageListener)
      /\ m[Len(m)] = item
      /\ \A i \in DOMAIN MessageListener : m[i] = MessageListener[i]
  BY <1>b, <1>d
<1>f. /\ \A i \in DOMAIN m : i # Len(m) => i \in DOMAIN MessageListener
      /\ \A i \in DOMAIN m : i # Len(m) => m[i] = Quit
      /\ \A i \in DOMAIN m : ~IsChat(m[i])
  BY <1>b, <1>d, <1>e DEF OnlyQuits
<1>g. Underway' = Underway
  <2>1. NoPacket.kind \notin {"broadcast", "show"} /\ AtMostOne(<<>>)
    BY NoPacketKind DEF AtMostOne
  <2>2. InFlight(MessageListener, NoPacket, <<>>) = <<>> /\ InFlight(m, NoPacket, <<>>) = <<>>
    BY <1>b, <1>e, <1>f, <2>1, InFlightNone
  <2>3. PacketChan \o wire = <<>> /\ PacketChan' \o wire' = <<>>
    BY <1>2, <1>b, Concats
  <2> QED
    BY <1>2, <1>b, <2>2, <2>3, UnderwayIs
<1>h. Quiet'
  BY <1>2, <1>b DEF Quiet
<1>3. Types'
  <2>1. MessageListener' \in Seq(Items) /\ Len(MessageListener') <= ListenerSize
    BY <1>2, <1>e, ClientFlowAssumption
  <2> QED
    BY <1>1, <1>2, <2>1 DEF Types
<1>4. OneThing'
  BY <1>1, <1>2 DEF OneThing
<1>5. Kinds'
  BY <1>1, <1>2, KindsStay
<1>6. Listener'
  BY <1>2, <1>f DEF Listener, QuitsFirst, InRoom
<1>7. Room'
  BY <1>1, <1>2, <1>b, <1>e, <1>f, <1>h DEF Room, InRoom, OnlyQuits
<1>8. Numbers'
  BY <1>1, <1>2 DEF Numbers
<1>9. Shown'
  <2>1. \A i \in DOMAIN MessageListener' : ~IsChat(MessageListener'[i])
    BY <1>f
  <2> QED
    BY <1>1, <1>2, <1>g, <2>1 DEF Shown, InRoom, IsStored, HasRow
<1>10. SlicesInRange'
  BY <1>1, <1>2 DEF SlicesInRange, Running
<1> QED
  BY <1>3, <1>4, <1>5, <1>6, <1>7, <1>8, <1>9, <1>10 DEF IInv

(* The room is left when nothing is under way.                             *)
LEMMA LeaveRoomKeeps ==
    ASSUME IInv, Running, LeaveRoom
    PROVE  IInv'
<1>1. Types /\ OneThing /\ Kinds /\ Listener /\ Room /\ Numbers /\ Shown /\ Running
  BY DEF IInv
<1>a. InRoom /\ turn # "log"
  BY DEF LeaveRoom
<1>b. /\ asked = <<>> /\ wire = <<>> /\ PacketChan = <<>> /\ packet = NoPacket
      /\ UIListener = <<>> /\ OnlyQuits(MessageListener)
  BY <1>1, <1>a, TurnIsQuiet
<1>2. /\ InRoom /\ window' = "next"
      /\ UIListener' = <<"AfterLogin">>
      /\ process' = process /\ MessageListener' = MessageListener
      /\ form' = form /\ rooms' = rooms /\ chatRoomID' = chatRoomID
      /\ chatLogBuffer' = chatLogBuffer /\ PacketChan' = PacketChan
      /\ packet' = packet /\ asked' = asked /\ wire' = wire
      /\ created' = created /\ made' = made /\ sent' = sent /\ posts' = posts
      /\ MessageLog' = MessageLog /\ unstored' = unstored
      /\ turn' = turn /\ log' = log
      /\ signal' = signal /\ killSwitch' = killSwitch /\ chatLog' = chatLog
      /\ startRow' = startRow
  BY <1>1, <1>a, <1>b DEF LeaveRoom, PostUI, roomFrame, channels, globals,
     serverVars, roomVars
<1>o. ~InRoom'
  BY <1>2 DEF InRoom
<1>3. Types'
  BY <1>1, <1>2 DEF Types, Windows, Outcomes
<1>4. OneThing'
  BY <1>2, <1>b DEF OneThing, AtMostOne
<1>5. Kinds'
  <2>1. UIListener'[1] = "AfterLogin"
    BY <1>2
  <2> QED
    BY <1>2, <1>b, <2>1 DEF Kinds, NextWindow, Names
<1>6. Listener'
  BY <1>2, <1>b DEF Listener, OnlyQuits, QuitsFirst
<1>7. Room'
  BY <1>o DEF Room
<1>8. Numbers'
  BY <1>1, <1>2 DEF Numbers
<1>9. Shown'
  BY <1>o DEF Shown
<1>10. SlicesInRange'
  BY <1>1, <1>2 DEF SlicesInRange, Running
<1> QED
  BY <1>3, <1>4, <1>5, <1>6, <1>7, <1>8, <1>9, <1>10 DEF IInv
-----------------------------------------------------------------------------
(* The room: the log area.                                                 *)
LEMMA LogDrawKeeps ==
    ASSUME IInv, Running, LogDraw
    PROVE  IInv'
<1>1. Types /\ OneThing /\ Kinds /\ Listener /\ Room /\ Numbers /\ Shown /\ Running
  BY DEF IInv
<1>2. /\ InRoom /\ log = "draw" /\ turn = "log"
      /\ turn' = "input" /\ signal' = FALSE /\ log' = "receive"
      /\ process' = process /\ window' = window /\ UIListener' = UIListener
      /\ MessageListener' = MessageListener /\ form' = form /\ rooms' = rooms
      /\ chatRoomID' = chatRoomID /\ chatLogBuffer' = chatLogBuffer
      /\ PacketChan' = PacketChan /\ packet' = packet /\ asked' = asked
      /\ wire' = wire /\ created' = created /\ made' = made /\ sent' = sent
      /\ posts' = posts /\ MessageLog' = MessageLog /\ unstored' = unstored
      /\ killSwitch' = killSwitch /\ chatLog' = chatLog
      /\ startRow' = startRow
  BY <1>1 DEF LogDraw, roomFrame, channels, globals, serverVars, roomVars
<1>a. Quiet /\ OnlyQuits(MessageListener)
  BY <1>1, <1>2, TurnIsQuiet
<1>b. Quiet'
  BY <1>2, <1>a DEF Quiet
<1>3. Types'
  BY <1>1, <1>2 DEF Types
<1>4. OneThing'
  BY <1>1, <1>2 DEF OneThing
<1>5. Kinds'
  BY <1>1, <1>2, KindsStay
<1>6. Listener'
  BY <1>1, <1>2 DEF Listener, Quiet
<1>7. Room'
  BY <1>1, <1>2, <1>a, <1>b DEF Room, InRoom
<1>8. Numbers'
  BY <1>1, <1>2 DEF Numbers
<1>9. Shown'
  BY <1>1, <1>2, UnderwayIs DEF Shown, InRoom, IsStored, HasRow
<1>10. SlicesInRange'
  BY <1>1, <1>2 DEF SlicesInRange, Running
<1> QED
  BY <1>3, <1>4, <1>5, <1>6, <1>7, <1>8, <1>9, <1>10 DEF IInv

(* What is not a quit is the last thing in the channel.                    *)
LEMMA HeadAlone ==
    ASSUME NEW items \in Seq(Items), items # <<>>, QuitsFirst(items), Head(items) # Quit
    PROVE  items = <<Head(items)>> /\ Tail(items) = <<>> /\ Head(items) \in Items
<1>1. Len(items) \in Nat /\ Len(items) >= 1 /\ DOMAIN items = 1 .. Len(items)
      /\ Head(items) = items[1]
  OBVIOUS
<1>2. Len(items) = 1
  BY <1>1 DEF QuitsFirst
<1> PICK x \in Items : x = Head(items)
  BY <1>1
<1>3. items = <<x>>
  BY <1>1, <1>2
<1>4. Tail(<<x>>) = <<>> /\ Head(<<x>>) = x
  OBVIOUS
<1> QED
  BY <1>3, <1>4

(* An empty channel.                                                       *)
LEMMA Nothing ==
    /\ <<>> \in Seq(Items) /\ Len(<<>>) = 0
    /\ \A i \in DOMAIN <<>> : ~IsChat(<<>>[i])
    /\ OnlyQuits(<<>>) /\ QuitsFirst(<<>>) /\ Lines(<<>>) = <<>>
<1> PICK q : q = <<>>
  OBVIOUS
<1>1. q \in Seq(Items) /\ Len(q) = 0 /\ DOMAIN q = {}
  OBVIOUS
<1>2. \A i \in DOMAIN q : ~IsChat(q[i])
  BY <1>1
<1>3. Lines(q) = <<>>
  BY <1>1, <1>2, LinesNone
<1>4. OnlyQuits(q) /\ QuitsFirst(q)
  BY <1>1 DEF OnlyQuits, QuitsFirst
<1> QED
  BY <1>1, <1>2, <1>3, <1>4

(* A quit is taken out of the channel.                                     *)
LEMMA QuitTaken ==
    ASSUME NEW items \in Seq(Items), items # <<>>, QuitsFirst(items), Head(items) = Quit
    PROVE  /\ Tail(items) \in Seq(Items) /\ Len(Tail(items)) <= Len(items)
           /\ QuitsFirst(Tail(items))
           /\ OnlyQuits(items) => OnlyQuits(Tail(items))
           /\ Lines(Tail(items)) = Lines(items)
           /\ \A i \in DOMAIN Tail(items) : \E k \in DOMAIN items : Tail(items)[i] = items[k]
<1> PICK t : t = Tail(items)
  OBVIOUS
<1>1. /\ Len(items) \in Nat /\ Len(items) >= 1 /\ DOMAIN items = 1 .. Len(items)
      /\ items[1] = Quit
  OBVIOUS
<1>2. /\ t \in Seq(Items) /\ Len(t) = Len(items) - 1 /\ DOMAIN t = 1 .. Len(items) - 1
      /\ \A i \in 1 .. Len(items) - 1 : t[i] = items[i + 1] /\ i + 1 \in DOMAIN items
  BY <1>1
<1>3. QuitsFirst(t)
  BY <1>1, <1>2 DEF QuitsFirst
<1>4. OnlyQuits(items) => OnlyQuits(t)
  BY <1>1, <1>2 DEF OnlyQuits
<1>5. \A i \in DOMAIN t : \E k \in DOMAIN items : t[i] = items[k]
  BY <1>2
<1>6. Lines(t) = Lines(items)
  <2>1. \A i \in DOMAIN items : i # Len(items) => ~IsChat(items[i])
    BY QuitIsNoLine DEF QuitsFirst
  <2>2. \A i \in DOMAIN t : i # Len(t) => ~IsChat(t[i])
    BY <1>3, QuitIsNoLine DEF QuitsFirst
  <2>3. CASE IsChat(items[Len(items)])
    <3>1. Len(items) # 1
      BY <1>1, <2>3, QuitIsNoLine
    <3>2. t # <<>> /\ t[Len(t)] = items[Len(items)]
      <4>1. Len(t) \in 1 .. Len(items) - 1 /\ Len(t) + 1 = Len(items)
        BY <1>1, <1>2, <3>1
      <4>2. t[Len(t)] = items[Len(t) + 1]
        BY <1>2, <4>1
      <4>3. t # <<>>
        BY <1>2, <4>1
      <4> QED
        BY <4>1, <4>2, <4>3
    <3>3. Lines(items) = <<items[Len(items)].line>>
      BY <2>1, <2>3, LinesLast
    <3>4. Lines(t) = <<t[Len(t)].line>>
      BY <1>2, <2>2, <2>3, <3>2, LinesLast
    <3> QED
      BY <3>2, <3>3, <3>4
  <2>4. CASE ~IsChat(items[Len(items)])
    <3>1. \A i \in DOMAIN items : ~IsChat(items[i])
      BY <2>1, <2>4
    <3>2. \A i \in DOMAIN t : ~IsChat(t[i])
      BY <1>5, <3>1
    <3> QED
      BY <1>2, <3>1, <3>2, LinesNone
  <2> QED
    BY <2>3, <2>4
<1> QED
  BY <1>1, <1>2, <1>3, <1>4, <1>5, <1>6

(* The log area receives a quit and is done.                               *)
LEMMA LogQuitKeeps ==
    ASSUME IInv, Running, LogQuit
    PROVE  IInv'
<1>1. Types /\ OneThing /\ Kinds /\ Listener /\ Room /\ Numbers /\ Shown /\ Running
  BY DEF IInv
<1>2. /\ InRoom /\ log = "receive"
      /\ MessageListener # <<>> /\ Head(MessageListener) = Quit
      /\ MessageListener' = Tail(MessageListener)
      /\ log' = "done" /\ signal' = TRUE
      /\ process' = process /\ window' = window /\ UIListener' = UIListener
      /\ form' = form /\ rooms' = rooms /\ chatRoomID' = chatRoomID
      /\ chatLogBuffer' = chatLogBuffer /\ PacketChan' = PacketChan
      /\ packet' = packet /\ asked' = asked /\ wire' = wire
      /\ created' = created /\ made' = made /\ sent' = sent /\ posts' = posts
      /\ MessageLog' = MessageLog /\ unstored' = unstored
      /\ turn' = turn /\ killSwitch' = killSwitch
      /\ chatLog' = chatLog /\ startRow' = startRow
  BY <1>1 DEF LogQuit, Receives, roomFrame, Quit, channels, globals, serverVars,
     roomVars
<1>a. MessageListener \in Seq(Items) /\ QuitsFirst(MessageListener)
      /\ Len(MessageListener) <= ListenerSize
  BY <1>1, <1>2 DEF Types, Listener, InRoom
<1> PICK m : m = MessageListener'
  OBVIOUS
<1>b. /\ m \in Seq(Items) /\ Len(m) <= Len(MessageListener)
      /\ QuitsFirst(m)
      /\ OnlyQuits(MessageListener) => OnlyQuits(m)
      /\ Lines(m) = Lines(MessageListener)
      /\ \A i \in DOMAIN m : \E k \in DOMAIN MessageListener : m[i] = MessageListener[k]
  BY <1>2, <1>a, QuitTaken
<1>c. Underway' = Underway
  BY <1>2, <1>b, UnderwayIs DEF InFlight
<1>d. Quiet' <=> Quiet
  BY <1>2 DEF Quiet
<1>3. Types'
  <2>1. MessageListener' \in Seq(Items) /\ Len(MessageListener') <= ListenerSize
    BY <1>a, <1>b, ClientFlowAssumption
  <2> QED
    BY <1>1, <1>2, <2>1 DEF Types
<1>4. OneThing'
  BY <1>1, <1>2 DEF OneThing
<1>5. Kinds'
  BY <1>1, <1>2, KindsStay
<1>6. Listener'
  BY <1>2, <1>b DEF Listener, InRoom
<1>7. Room'
  BY <1>1, <1>2, <1>b, <1>d DEF Room, InRoom
<1>8. Numbers'
  BY <1>1, <1>2 DEF Numbers
<1>9. Shown'
  <2>1. \A i \in DOMAIN MessageListener' :
           IsChat(MessageListener'[i]) => IsStored(MessageListener[i].line)'
    <3> TAKE i \in DOMAIN MessageListener'
    <3> HAVE IsChat(MessageListener'[i])
    <3>1. PICK k \in DOMAIN MessageListener : MessageListener'[i] = MessageListener[k]
      BY <1>b
    <3>2. IsStored(MessageListener[k].line)
      BY <1>1, <1>2, <3>1 DEF Shown
    <3> QED
      BY <1>2, <3>1, <3>2 DEF IsStored, HasRow
  <2>2. chatLog' \o Underway' = LinesOf(chatRoomID', sent')
    BY <1>1, <1>2, <1>c DEF Shown
  <2>3. \A i \in DOMAIN chatLog' : IsStored(chatLog[i])'
    BY <1>1, <1>2 DEF Shown, IsStored, HasRow
  <2> QED
    BY <2>1, <2>2, <2>3 DEF Shown
<1>10. SlicesInRange'
  BY <1>1, <1>2 DEF SlicesInRange, Running
<1> QED
  BY <1>3, <1>4, <1>5, <1>6, <1>7, <1>8, <1>9, <1>10 DEF IInv

(* The first row: it leaves the log only below a log of less than two.     *)
LEMMA RowInLog ==
    ASSUME NEW row \in Int, NEW n \in Nat, -1 <= row, row <= n + 1
    PROVE  /\ OutOfRange(row, n) => row = n + 1 /\ n < 2
           /\ ~OutOfRange(row, n) => ValidRow(row, n) \in Nat /\ ValidRow(row, n) <= n
<1> PICK rows \in Nat \ {0} : rows = Rows
  BY ClientFlowAssumption
<1>1. CASE row < 0 /\ n - rows < 0
  <2>1. ValidRow(row, n) = 0
    BY <1>1 DEF ValidRow
  <2> QED
    BY <1>1, <2>1 DEF OutOfRange, EndRow
<1>2. CASE row < 0 /\ n - rows >= 0
  <2>1. ValidRow(row, n) = n - rows
    BY <1>2 DEF ValidRow
  <2> QED
    BY <1>2, <2>1 DEF OutOfRange, EndRow
<1>3. CASE row >= 0 /\ row > n - 1 /\ n > 1
  <2>1. ValidRow(row, n) = n - 1
    BY <1>3 DEF ValidRow
  <2> QED
    BY <1>3, <2>1 DEF OutOfRange, EndRow
<1>4. CASE row >= 0 /\ ~(row > n - 1 /\ n > 1)
  <2>1. ValidRow(row, n) = row
    BY <1>4 DEF ValidRow
  <2> QED
    BY <1>4, <2>1 DEF OutOfRange, EndRow
<1> QED
  BY <1>1, <1>2, <1>3, <1>4

(* The scroll that panics is one of the known panics.                      *)
LEMMA RowPanicKeeps ==
    ASSUME IInv, Running, InRoom, Len(chatLog) < 2,
           Head(MessageListener) = Command("down"), Stop("out of range")
    PROVE  IInv'
<1>1. Types /\ OneThing /\ Kinds /\ Listener /\ Room /\ Numbers /\ Shown /\ Running
  BY DEF IInv
<1>2. /\ process' = "out of range"
      /\ window' = window /\ UIListener' = UIListener
      /\ MessageListener' = MessageListener /\ form' = form /\ rooms' = rooms
      /\ chatRoomID' = chatRoomID /\ chatLogBuffer' = chatLogBuffer
      /\ PacketChan' = PacketChan /\ packet' = packet /\ asked' = asked
      /\ wire' = wire /\ created' = created /\ made' = made /\ sent' = sent
      /\ posts' = posts /\ MessageLog' = MessageLog /\ unstored' = unstored
      /\ turn' = turn
      /\ log' = log /\ signal' = signal /\ killSwitch' = killSwitch
      /\ chatLog' = chatLog /\ startRow' = startRow
  BY <1>1 DEF Stop, channels, globals, serverVars, roomVars
<1>3. Types'
  BY <1>1, <1>2 DEF Types, Outcomes
<1>4. OneThing'
  BY <1>1, <1>2 DEF OneThing
<1>5. Kinds'
  BY <1>1, <1>2, KindsStay
<1>6. Listener'
  BY <1>1, <1>2 DEF Listener, Quiet
<1>7. Room'
  BY <1>1, <1>2 DEF Room, InRoom, Quiet
<1>8. Numbers'
  BY <1>1, <1>2 DEF Numbers
<1>9. Shown'
  BY <1>1, <1>2, UnderwayIs DEF Shown, InRoom, IsStored, HasRow
<1>10. SlicesInRange'
  BY <1>2 DEF SlicesInRange, InRoom
<1> QED
  BY <1>3, <1>4, <1>5, <1>6, <1>7, <1>8, <1>9, <1>10 DEF IInv

(* A scroll that stays in the log.                                         *)
Scrolls ==
    /\ InRoom /\ log = "receive" /\ MessageListener # <<>>
    /\ Head(MessageListener) \in {Command("up"), Command("down")}
    /\ startRow' \in Nat /\ startRow' <= Len(chatLog)
    /\ MessageListener' = Tail(MessageListener)
    /\ log' = "draw" /\ signal' = TRUE
    /\ UNCHANGED <<roomFrame, serverVars, turn, killSwitch, chatLog>>

(* A scroll leaves the log as it was.                                      *)
LEMMA ScrollsKeeps ==
    ASSUME IInv, Running, Scrolls
    PROVE  IInv'
<1>1. Types /\ OneThing /\ Kinds /\ Listener /\ Room /\ Numbers /\ Shown /\ Running
  BY DEF IInv
<1>a. /\ MessageListener \in Seq(Items) /\ QuitsFirst(MessageListener)
      /\ MessageListener # <<>> /\ Head(MessageListener) # Quit
      /\ Head(MessageListener) \in {Command("up"), Command("down")}
  BY <1>1, CommandsDiffer DEF Scrolls, Types, Listener, InRoom, Quit
<1>b. MessageListener = <<Head(MessageListener)>> /\ Tail(MessageListener) = <<>>
  BY <1>a, HeadAlone
<1> PICK x : x = Head(MessageListener)
  OBVIOUS
<1>c. MessageListener = <<x>> /\ x # Quit /\ ~IsChat(x)
  BY <1>a, <1>b, ItemKinds
<1>d. startRow' \in Nat /\ startRow' <= Len(chatLog)
  BY DEF Scrolls
<1>2. /\ InRoom /\ log = "receive"
      /\ MessageListener' = <<>>
      /\ log' = "draw" /\ signal' = TRUE
      /\ startRow' \in Nat /\ startRow' <= Len(chatLog)
      /\ process' = process /\ window' = window /\ UIListener' = UIListener
      /\ form' = form /\ rooms' = rooms /\ chatRoomID' = chatRoomID
      /\ chatLogBuffer' = chatLogBuffer /\ PacketChan' = PacketChan
      /\ packet' = packet /\ asked' = asked /\ wire' = wire
      /\ created' = created /\ made' = made /\ sent' = sent /\ posts' = posts
      /\ MessageLog' = MessageLog /\ unstored' = unstored
      /\ turn' = turn /\ killSwitch' = killSwitch
      /\ chatLog' = chatLog
  BY <1>1, <1>b, <1>d DEF Scrolls, roomFrame, channels, globals, serverVars,
     roomVars
<1>e. /\ ~OnlyQuits(MessageListener)
      /\ \A i \in DOMAIN MessageListener : ~IsChat(MessageListener[i])
  BY <1>c DEF OnlyQuits
<1>f. Quiet /\ turn = "log"
  BY <1>1, <1>2, <1>e DEF Room
<1>g. Quiet'
  BY <1>2, <1>f DEF Quiet
<1>h. Underway' = Underway
  <2>1. Lines(MessageListener) = <<>> /\ Lines(<<>>) = <<>>
    BY <1>a, <1>e, LinesNone, Nothing
  <2> QED
    BY <1>2, <2>1, UnderwayIs DEF InFlight
<1>i. OnlyQuits(<<>>) /\ QuitsFirst(<<>>) /\ <<>> \in Seq(Items) /\ Len(<<>>) = 0
  BY Nothing
<1>3. Types'
  <2>1. MessageListener' \in Seq(Items) /\ Len(MessageListener') <= ListenerSize
    BY <1>2, <1>i, ClientFlowAssumption
  <2> QED
    BY <1>1, <1>2, <2>1 DEF Types
<1>4. OneThing'
  BY <1>1, <1>2 DEF OneThing
<1>5. Kinds'
  BY <1>1, <1>2, KindsStay
<1>6. Listener'
  BY <1>2, <1>i DEF Listener, InRoom
<1>7. Room'
  BY <1>1, <1>2, <1>f, <1>g, <1>i DEF Room, InRoom
<1>8. Numbers'
  BY <1>1, <1>2 DEF Numbers
<1>9. Shown'
  <2>1. chatLog' \o Underway' = LinesOf(chatRoomID', sent')
    BY <1>1, <1>2, <1>h DEF Shown
  <2>2. \A i \in DOMAIN chatLog' : IsStored(chatLog[i])'
    BY <1>1, <1>2 DEF Shown, IsStored, HasRow
  <2> QED
    BY <1>2, <2>1, <2>2 DEF Shown
<1>10. SlicesInRange'
  BY <1>1, <1>2 DEF SlicesInRange, Running
<1> QED
  BY <1>3, <1>4, <1>5, <1>6, <1>7, <1>8, <1>9, <1>10 DEF IInv

(* A scroll stays in the log or panics.                                    *)
LEMMA LogScrollKeeps ==
    ASSUME IInv, Running, LogScroll
    PROVE  IInv'
<1>1. startRow \in Nat /\ startRow <= Len(chatLog) /\ Len(chatLog) \in Nat
  BY DEF IInv, Types
<1>2. CASE Receives(Command("up")) /\ ScrollTo(startRow - 1)
  <2>1. /\ ~OutOfRange(startRow - 1, Len(chatLog))
        /\ ValidRow(startRow - 1, Len(chatLog)) \in Nat
        /\ ValidRow(startRow - 1, Len(chatLog)) <= Len(chatLog)
    <3> PICK row \in Int, n \in Nat : row = startRow - 1 /\ n = Len(chatLog)
      BY <1>1
    <3>1. -1 <= row /\ row <= n + 1 /\ row # n + 1
      BY <1>1
    <3> QED
      BY <3>1, RowInLog
  <2>2. Scrolls
    BY <1>2, <2>1 DEF Receives, ScrollTo, Scrolls
  <2> QED
    BY <2>2, ScrollsKeeps
<1>3. CASE Receives(Command("down")) /\ ScrollTo(startRow + 1)
  <2>1. CASE OutOfRange(startRow + 1, Len(chatLog))
    <3>1. Len(chatLog) < 2
      BY <1>1, <2>1, RowInLog
    <3>2. InRoom /\ Head(MessageListener) = Command("down") /\ Stop("out of range")
      BY <1>3, <2>1 DEF Receives, ScrollTo
    <3> QED
      BY <3>1, <3>2, RowPanicKeeps
  <2>2. CASE ~OutOfRange(startRow + 1, Len(chatLog))
    <3>1. /\ ValidRow(startRow + 1, Len(chatLog)) \in Nat
          /\ ValidRow(startRow + 1, Len(chatLog)) <= Len(chatLog)
      BY <1>1, <2>2, RowInLog
    <3>2. Scrolls
      BY <1>3, <2>2, <3>1 DEF Receives, ScrollTo, Scrolls
    <3> QED
      BY <3>2, ScrollsKeeps
  <2> QED
    BY <2>1, <2>2
<1> QED
  BY <1>2, <1>3 DEF LogScroll

(* The line that was under way is put in the log.                          *)
LEMMA LogReceiveKeeps ==
    ASSUME IInv, Running, LogReceive
    PROVE  IInv'
<1>1. Types /\ OneThing /\ Kinds /\ Listener /\ Room /\ Numbers /\ Shown /\ Running
  BY DEF IInv
<1>a. /\ MessageListener \in Seq(Items) /\ QuitsFirst(MessageListener)
      /\ MessageListener # <<>> /\ Head(MessageListener) # Quit
      /\ IsChat(Head(MessageListener)) /\ InRoom
  BY <1>1, QuitIsNoLine DEF LogReceive, Types, Listener, InRoom
<1> PICK l : l = Head(MessageListener).line
  OBVIOUS
<1>b. MessageListener = <<Chat(l)>> /\ l \in LineSet
  BY <1>a, HeadAlone, ItemKinds
<1>c. Lines(MessageListener) = <<l>> /\ MessageListener' = <<>>
  BY <1>b, LinesOne DEF LogReceive
<1>d. chatLog' = chatLog \o <<l>>
  BY <1>c DEF LogReceive, Received
<1>2. /\ InRoom /\ log = "receive"
      /\ MessageListener' = <<>>
      /\ log' = "draw" /\ signal' = TRUE
      /\ startRow' = ValidRow(-1, Len(chatLog'))
      /\ process' = process /\ window' = window /\ UIListener' = UIListener
      /\ form' = form /\ rooms' = rooms /\ chatRoomID' = chatRoomID
      /\ chatLogBuffer' = chatLogBuffer /\ PacketChan' = PacketChan
      /\ packet' = packet /\ asked' = asked /\ wire' = wire
      /\ created' = created /\ made' = made /\ sent' = sent /\ posts' = posts
      /\ MessageLog' = MessageLog /\ unstored' = unstored
      /\ turn' = turn /\ killSwitch' = killSwitch
  BY <1>1, <1>c DEF LogReceive, Received, roomFrame, channels, globals,
     serverVars, roomVars
<1>e. /\ DOMAIN MessageListener = {1} /\ MessageListener[1] = Chat(l)
      /\ IsChat(MessageListener[1]) /\ MessageListener[1].line = l
      /\ ~OnlyQuits(MessageListener)
  BY <1>b, ItemKinds, QuitIsNoLine DEF OnlyQuits
<1>f. Quiet /\ turn = "log"
  BY <1>1, <1>2, <1>e DEF Room
<1>g. Quiet' /\ packet = NoPacket /\ PacketChan = <<>> /\ wire = <<>>
  BY <1>2, <1>f DEF Quiet
<1>h. OnlyQuits(<<>>) /\ QuitsFirst(<<>>) /\ <<>> \in Seq(Items) /\ Len(<<>>) = 0
  BY Nothing
<1>i. Underway = <<l>> /\ Underway' = <<>>
  <2>1. NoPacket.kind \notin {"broadcast", "show"} /\ AtMostOne(<<>>)
    BY NoPacketKind DEF AtMostOne
  <2>2. Len(MessageListener) = 1 /\ MessageListener # <<>>
    BY <1>b
  <2>3. InFlight(MessageListener, NoPacket, <<>>) = <<l>>
    BY <1>a, <1>e, <2>1, <2>2, InFlightListener
  <2>4. InFlight(<<>>, NoPacket, <<>>) = <<>>
    BY <2>1, Nothing, InFlightNone
  <2> QED
    BY <1>2, <1>g, <2>3, <2>4, Concats, UnderwayIs
<1>j. /\ chatLog' \in Seq(LineSet) /\ Len(chatLog') \in Nat
      /\ DOMAIN chatLog' = 1 .. Len(chatLog) + 1 /\ DOMAIN chatLog = 1 .. Len(chatLog)
      /\ \A i \in DOMAIN chatLog : chatLog'[i] = chatLog[i]
      /\ chatLog'[Len(chatLog) + 1] = l
      /\ chatLog' \o <<>> = chatLog' /\ Len(chatLog) \in Nat
  <2> PICK c \in Seq(LineSet) : c = chatLog
    BY <1>1 DEF Types
  <2>1. c \o <<l>> = Append(c, l)
    BY <1>b
  <2>2. /\ Append(c, l) \in Seq(LineSet) /\ Len(c) \in Nat
        /\ Len(Append(c, l)) = Len(c) + 1
        /\ DOMAIN Append(c, l) = 1 .. Len(c) + 1 /\ DOMAIN c = 1 .. Len(c)
        /\ \A i \in 1 .. Len(c) : Append(c, l)[i] = c[i]
        /\ Append(c, l)[Len(c) + 1] = l
    BY <1>b
  <2>3. chatLog' = Append(c, l)
    BY <1>d, <2>1
  <2> PICK d : d = chatLog'
    OBVIOUS
  <2>4. d \o <<>> = d
    BY <2>2, <2>3
  <2> QED
    BY <2>2, <2>3, <2>4
<1>k. startRow' \in Nat /\ startRow' <= Len(chatLog')
  <2>1. ~OutOfRange(-1, Len(chatLog'))
    BY <1>j, RowInLog
  <2> QED
    BY <1>2, <1>j, <2>1, RowInLog
<1>3. Types'
  <2>1. MessageListener' \in Seq(Items) /\ Len(MessageListener') <= ListenerSize
    BY <1>2, <1>h, ClientFlowAssumption
  <2> QED
    BY <1>1, <1>2, <1>j, <1>k, <2>1 DEF Types
<1>4. OneThing'
  BY <1>1, <1>2 DEF OneThing
<1>5. Kinds'
  BY <1>1, <1>2, KindsStay
<1>6. Listener'
  BY <1>2, <1>h DEF Listener, InRoom
<1>7. Room'
  BY <1>1, <1>2, <1>f, <1>g, <1>h DEF Room, InRoom
<1>8. Numbers'
  BY <1>1, <1>2 DEF Numbers
<1>9. Shown'
  <2>1. chatLog' \o Underway' = LinesOf(chatRoomID', sent')
    BY <1>1, <1>2, <1>d, <1>i, <1>j DEF Shown
  <2>2. \A i \in DOMAIN chatLog' : IsStored(chatLog[i])'
    <3> TAKE i \in DOMAIN chatLog'
    <3>1. \E x : x = chatLog'[i] /\ IsStored(x)
      <4>1. CASE i = Len(chatLog) + 1
        <5>1. IsStored(l)
          BY <1>1, <1>2, <1>e DEF Shown
        <5> QED
          BY <4>1, <5>1, <1>j
      <4>2. CASE i \in DOMAIN chatLog
        BY <1>1, <1>2, <1>j, <4>2 DEF Shown
      <4> QED
        BY <4>1, <4>2, <1>j
    <3> QED
      BY <1>2, <3>1 DEF IsStored, HasRow
  <2> QED
    BY <1>2, <2>1, <2>2 DEF Shown
<1>10. SlicesInRange'
  BY <1>1, <1>2 DEF SlicesInRange, Running
<1> QED
  BY <1>3, <1>4, <1>5, <1>6, <1>7, <1>8, <1>9, <1>10 DEF IInv
-----------------------------------------------------------------------------
(* Every step keeps the invariant.                                         *)
LEMMA ServerKeeps ==
    ASSUME IInv, Running, Server PROVE IInv'
  BY AnswerLoginKeeps, AnswerCreateKeeps, AnswerViewKeeps, IgnoreConnKeeps,
     AnswerPostKeeps DEF Server

(* DrawGUI, with the areas of the room that wait for nobody.               *)
LEMMA DrawGUIKeeps ==
    ASSUME IInv, Running, DrawGUI PROVE IInv'
<1>1. CASE LogArea
  BY <1>1, LogDrawKeeps, LogScrollKeeps, LogQuitKeeps, LogReceiveKeeps DEF LogArea
<1>2. CASE Connected \/ OpenWindow \/ OpenNothing \/ OpenOldChat \/ OpenChatList
           \/ OpenChatRoom \/ GiveWay \/ LeaveRoom
  BY <1>2, ConnectedKeeps, OpenWindowKeeps, OpenNothingKeeps, OpenOldChatKeeps,
     OpenChatListKeeps, OpenChatRoomKeeps, GiveWayKeeps, LeaveRoomKeeps
<1> QED
  BY <1>1, <1>2 DEF DrawGUI

(* What the user does.                                                     *)
LEMMA UserKeeps ==
    ASSUME IInv, Running, User PROVE IInv'
<1>1. CASE SignIn \/ CreateAccount \/ FindChatroom \/ ViewInvolvedInChatroom
           \/ GenerateNewChat
  BY <1>1, MenuKeeps
<1>2. CASE TypeKey \/ SwitchField \/ Backspace
  BY <1>2, FormKeeps
<1>3. CASE SelectChatRoom \/ BackspacePanics \/ Submit
  BY <1>3, SelectChatRoomKeeps, BackspacePanicsKeeps, SubmitKeeps
<1>4. CASE SendTransferMessage \/ EnterScroll \/ EnterQuit \/ OpenOptions
           \/ ReturnChat \/ ExitChat
  BY <1>4, SendTransferMessageKeeps, EnterScrollKeeps, EnterQuitKeeps,
     OpenOptionsKeeps, ReturnChatKeeps, ExitChatKeeps
<1> QED
  BY <1>1, <1>2, <1>3, <1>4 DEF User

(* No step, and no stuttering, breaks the invariant.                       *)
LEMMA StepKeeps == IInv /\ [Next]_vars => IInv'
<1> SUFFICES ASSUME IInv, [Next]_vars PROVE IInv'
  OBVIOUS
<1>1. CASE UNCHANGED vars
  BY <1>1, StutterKeeps
<1>2. CASE Next
  <2>1. Running
    BY <1>2 DEF Next
  <2>2. CASE ConnectServer \/ Disconnected \/ OnReceive
    BY <2>1, <2>2, ConnectServerKeeps, DisconnectedKeeps, OnReceiveKeeps
  <2>3. CASE Server \/ PacketProcess
    BY <2>1, <2>3, ServerKeeps, PacketProcessKeeps
  <2>4. CASE DrawGUI \/ User
    BY <2>1, <2>4, DrawGUIKeeps, UserKeeps
  <2> QED
    BY <1>2, <2>2, <2>3, <2>4 DEF Next
<1> QED
  BY <1>1, <1>2

(* Every state that the client reaches satisfies the inductive invariant.  *)
THEOREM Inductive == Spec => []IInv
<1> QED
  BY InitIInv, StepKeeps, PTL DEF Spec

-----------------------------------------------------------------------------
(* What the invariant says.                                                *)
LEMMA AtMostOneLength ==
    ASSUME NEW q, AtMostOne(q) PROVE Len(q) \in {0, 1}
<1>1. Len(<<>>) = 0 /\ \A x : Len(<<x>>) = 1
  OBVIOUS
<1> QED
  BY <1>1 DEF AtMostOne

(* Nothing is under way outside a room: the packets are of other kinds and *)
(* the channel holds commands.                                             *)
LEMMA OutsideRooms ==
    ASSUME IInv, ~InRoom PROVE Underway = <<>>
<1>1. Types /\ OneThing /\ Kinds /\ Listener
  BY DEF IInv
<1>2. MessageListener \in Seq(Items)
  BY <1>1 DEF Types
<1>3. \A i \in DOMAIN MessageListener : ~IsChat(MessageListener[i])
  <2>1. CASE window = "start"
    <3> PICK m : m = MessageListener
      OBVIOUS
    <3>1. m = <<>> \/ m = <<Command("success")>>
      BY <1>1, <2>1 DEF Listener
    <3>2. \A i \in DOMAIN m : m[i] = Command("success")
      BY <3>1
    <3> QED
      BY <3>2, ItemKinds
  <2>2. CASE window # "start"
    BY <1>1, <2>2, QuitIsNoLine DEF Listener, InRoom, OnlyQuits
  <2> QED
    BY <2>1, <2>2
<1>4. packet.kind \notin {"broadcast", "show"}
  BY <1>1, PacketKinds DEF InRoom
<1>5. \E q : q = PacketChan \o wire /\ AtMostOne(q) /\ (q # <<>> => q[1].kind # "broadcast")
  <2>1. /\ wire # <<>> => wire[1].kind # "broadcast"
        /\ PacketChan # <<>> => PacketChan[1].kind # "broadcast"
    BY <1>1 DEF Kinds, Answer, InRoom
  <2>2. PacketChan \o wire \in {wire, PacketChan}
    BY <1>1, Concats DEF OneThing, AtMostOne
  <2>3. AtMostOne(wire) /\ AtMostOne(PacketChan)
    BY <1>1 DEF OneThing
  <2> PICK q : q = PacketChan \o wire
    OBVIOUS
  <2>4. q = wire \/ q = PacketChan
    BY <2>2
  <2> QED
    BY <2>1, <2>3, <2>4
<1> QED
  BY <1>2, <1>3, <1>4, <1>5, InFlightNone, UnderwayIs

-----------------------------------------------------------------------------
(* Results.                                                                *)

(* The variables keep their types, the row stays in the log and no channel *)
(* holds more than its capacity.                                           *)
THEOREM FlowTyping == Spec => []TypeOK
<1>1. ASSUME IInv PROVE TypeOK
  <2>1. Types /\ OneThing
    BY <1>1 DEF IInv
  <2>2. Len(UIListener) \in {0, 1} /\ Len(PacketChan) \in {0, 1}
    BY <2>1, AtMostOneLength DEF OneThing
  <2>3. Len(UIListener) <= UIListenerSize /\ Len(PacketChan) <= PacketSize
    <3>1. 1 \in Nat /\ PacketSize \in Nat /\ PacketSize >= 1
      BY ClientFlowAssumption
    <3>2. \A n \in {0, 1} : n <= 1 /\ n <= PacketSize
      BY <3>1
    <3> QED
      BY <2>2, <3>2 DEF UIListenerSize
  <2>4. chatRoomID \in -1 .. made /\ startRow \in 0 .. Len(chatLog)
    BY <2>1 DEF Types
  <2> QED
    BY <2>1, <2>3, <2>4 DEF TypeOK, Types, Windows, Outcomes
<1> QED
  BY <1>1, Inductive, PTL

(* A window never finds _UIListener full when it posts to it, which only   *)
(* it could empty.                                                         *)
THEOREM WindowsDoNotBlock == Spec => []WindowNeverWaitsForItself
<1>1. ASSUME IInv PROVE WindowNeverWaitsForItself
  <2>1. CASE window \in {"BeforeLogin", "AfterLogin", "pick"}
    BY <1>1, <2>1, MenusAreQuiet DEF IInv, WindowNeverWaitsForItself
  <2>2. CASE InRoom
    BY <1>1, <2>2 DEF IInv, Room, WindowNeverWaitsForItself
  <2> QED
    BY <2>1, <2>2 DEF WindowNeverWaitsForItself
<1> QED
  BY <1>1, Inductive, PTL

(* In a room, what the log shows and what is under way are the lines that  *)
(* were broadcast to the room, in their order.                             *)
THEOREM NothingIsLost == Spec => []LinesAreConserved
<1>1. ASSUME IInv PROVE LinesAreConserved
  BY <1>1 DEF IInv, Shown, LinesAreConserved
<1> QED
  BY <1>1, Inductive, PTL

(* No line is under way when the user is not in a room.                    *)
THEOREM RoomsAreLeftQuiet == Spec => []QuietOutsideRooms
<1>1. ASSUME IInv PROVE QuietOutsideRooms
  BY <1>1, OutsideRooms DEF QuietOutsideRooms
<1> QED
  BY <1>1, Inductive, PTL

(* Every row of MESSAGE_LOG is a line that was broadcast to its room; every *)
(* line that the log shows has its row, or one of the same room without a  *)
(* number like it, or could not be stored.                                 *)
THEOREM ShownLinesAreStored == Spec => []StoredOrFailed
<1>1. ASSUME IInv PROVE StoredOrFailed
  <2>1. ToSet(MessageLog) \subseteq ToSet(sent)
    BY <1>1 DEF IInv, Numbers, ToSet
  <2>2. ASSUME InRoom, NEW l \in ToSet(chatLog)
        PROVE  \/ l \in ToSet(MessageLog) \cup unstored
               \/ l.n = -1 /\ \E m \in ToSet(MessageLog) : m.n = -1 /\ m.room = l.room
    <3>1. PICK i \in DOMAIN chatLog : chatLog[i] = l
      BY <2>2 DEF ToSet
    <3>2. IsStored(l)
      BY <1>1, <2>2, <3>1 DEF IInv, Shown
    <3>3. CASE l \in unstored
      BY <3>3
    <3>4. CASE HasRow(l)
      BY <3>4 DEF HasRow, ToSet
    <3> QED
      BY <3>2, <3>3, <3>4 DEF IsStored
  <2> QED
    BY <2>1, <2>2 DEF StoredOrFailed
<1> QED
  BY <1>1, Inductive, PTL

(* Slices are taken outside their range in two places only: the second     *)
(* field of a form and a scroll down in a log of less than two lines.      *)
THEOREM OnlyKnownSlices == Spec => []SlicesInRange
<1>1. IInv => SlicesInRange
  BY DEF IInv
<1> QED
  BY <1>1, Inductive, PTL
=============================================================================
