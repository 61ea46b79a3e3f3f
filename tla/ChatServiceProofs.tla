------------------------- MODULE ChatServiceProofs -------------------------
(***************************************************************************)
(* The properties of ChatService, for any number of servers, clients,      *)
(* rooms and lines, and whatever statements fail.                          *)
(*                                                                         *)
(* Two facts carry the proof.  A room belongs to one client, so that the   *)
(* records, the messages and the packets with its id are that client's.    *)
(* And a client that has asked for something but a post waits, so that     *)
(* what it posted stays in one line of requests, job, inbox and history.   *)
(***************************************************************************)
EXTENDS ChatService, SequenceTheorems, WellFoundedInduction, TLAPS

-----------------------------------------------------------------------------
(* The types of what is kept and sent.                                     *)
Someone == Sessions \cup {NoSession}

ALine == [by : Someone, k : Nat]
ARecord == [session : Someone, user : User, room : Int]
AMessage == [room : Int, user : User, line : ALine]
ARequest == [kind : {"login", "create", "view", "post"}, s : Sessions,
             user : User, room : Int, line : ALine]
APacket == [kind : {"login", "create", "view", "broadcast"}, ok : BOOLEAN,
            room : Int, line : ALine, number : Int, at : Int]

LoginStages  == {"login", "store_user", "remove_user", "compare", "answer_login"}
CreateStages == {"create", "insert_room", "answer_create"}
RecordStages == {"get_record", "set_record"}
PostStages   == {"post", "insert_message", "select_number", "retrieve", "broadcast"}
AskStages    == LoginStages \cup CreateStages \cup {"view"}
Stages       == AskStages \cup RecordStages \cup PostStages \cup {"attend"}

AJob == [pc : Stages \cup {"idle", "crashed"}, s : Someone, user : User,
         room : Int, line : ALine, number : Int, ok : BOOLEAN,
         rec : ARecord, to : SUBSET Someone]

Types ==
    /\ conn \in [Sessions -> {"open", "closed"}]
    /\ client \in [Sessions -> {"start", "wait", "menu", "room"}]
    /\ room \in [Sessions -> Int]
    /\ created \in [Sessions -> Nat]
    /\ posted \in [Sessions -> Nat]
    /\ requests \in [Servers -> Seq(ARequest)]
    /\ job \in [Servers -> AJob]
    /\ record \in [Sessions -> ARecord]
    /\ chatRooms \in Seq(Users)
    /\ messages \in Seq(AMessage)
    /\ inbox \in [Sessions -> Seq(APacket)]
    /\ shown \in [Sessions -> Seq(APacket)]
    /\ failed \subseteq Failing

(* A server works for its own clients.                                     *)
AtHome ==
    \A v \in Servers :
        /\ job[v].pc \in Stages => job[v].s \in Sessions /\ Home[job[v].s] = v
        /\ job[v].pc \notin Stages =>
              job[v].s = NoSession /\ job[v].room = 0 /\ job[v].number = 0
        /\ \A i \in DOMAIN requests[v] : Home[requests[v][i].s] = v

-----------------------------------------------------------------------------
(* What is under way for one client: in the queue of its server, in the    *)
(* local variables of the server's goroutine, and in its inbox.            *)
Job(s) == job[Home[s]]
Works(s, stages) == Job(s).s = s /\ Job(s).pc \in stages

Queue(s) == requests[Home[s]]
IsQueued(s, i) == Queue(s)[i].s = s
IsPost(s, i) == Queue(s)[i].s = s /\ Queue(s)[i].kind = "post"
NoneQueued(s) == \A i \in DOMAIN Queue(s) : ~IsQueued(s, i)

Heard(s, i) == inbox[s][i].kind = "broadcast"

(* The ranges of what is under way, and of what is kept.                   *)
Local(s) ==
    /\ created[s] <= MaxRooms[s] /\ posted[s] <= MaxPosts[s]
    /\ room[s] >= -1
    /\ record[s] = None \/ (record[s].room >= -1 /\ record[s].session \in {s, NoSession})
    /\ \A i \in DOMAIN inbox[s] :
          /\ inbox[s][i].room >= -1
          /\ inbox[s][i].kind = "create" => (inbox[s][i].ok <=> inbox[s][i].room >= 1)
          /\ Heard(s, i) => inbox[s][i].line.by = s
    /\ \A i \in DOMAIN shown[s] :
          shown[s][i].kind = "broadcast" /\ shown[s][i].line.by = s
    /\ \A i \in DOMAIN Queue(s) :
          /\ IsQueued(s, i) => Queue(s)[i].room >= -1
          /\ IsPost(s, i) => Queue(s)[i].room >= 1 /\ Queue(s)[i].line.by = s
                             /\ Queue(s)[i].line.k >= 1
    /\ Works(s, Stages) => Job(s).room >= -1
    /\ Works(s, {"remove_user"}) => Home[s] \in failed
    /\ Works(s, {"create", "insert_room"}) => Job(s).ok = TRUE
    /\ Works(s, {"answer_create"}) => (Job(s).ok <=> Job(s).room >= 1)
    /\ Works(s, {"set_record"}) => Job(s).rec.session \in {s, NoSession}
    /\ Works(s, PostStages) =>
          /\ Job(s).room >= 1 /\ Job(s).line.by = s /\ Job(s).line.k >= 1
          /\ Job(s).to \subseteq {s, NoSession}

(* A client that asked for anything but a post waits for the answer, and   *)
(* that is the last thing under way for it.                                *)
Waits(s) ==
    /\ \A i \in DOMAIN Queue(s) : IsQueued(s, i) /\ ~IsPost(s, i) =>
          /\ client[s] = "wait"
          /\ \A k \in DOMAIN Queue(s) : IsQueued(s, k) => k <= i
    /\ Works(s, AskStages) => client[s] = "wait" /\ NoneQueued(s)
    /\ \A i \in DOMAIN inbox[s] : ~Heard(s, i) =>
          /\ client[s] = "wait" /\ i = Len(inbox[s])
          /\ NoneQueued(s)
          /\ ~Works(s, AskStages \cup PostStages)

(* Until it has logged in a client is in no room; the lines under way were *)
(* posted to the room it is in.                                            *)
InItsRoom(s) ==
    /\ client[s] = "room" => room[s] >= 1
    /\ client[s] = "start" => room[s] = 0
    /\ Works(s, LoginStages) => room[s] = 0
    /\ \A i \in DOMAIN Queue(s) :
          /\ IsQueued(s, i) /\ Queue(s)[i].kind = "login" => room[s] = 0
          /\ IsPost(s, i) => Queue(s)[i].room = room[s]
    /\ Works(s, PostStages) => Job(s).room = room[s]
    /\ \A i \in DOMAIN inbox[s] : Heard(s, i) => inbox[s][i].room = room[s]
    /\ \A i \in DOMAIN shown[s] : shown[s][i].at = shown[s][i].room

-----------------------------------------------------------------------------
(* The line of the job is going to be broadcast to s.                      *)
Sending(s) ==
    \/ Works(s, {"post", "insert_message", "select_number", "retrieve"})
    \/ Works(s, {"broadcast"}) /\ s \in Job(s).to

(* The lines of a client are under way in the order in which it posted     *)
(* them.                                                                   *)
LinesInOrder(s) ==
    /\ \A i \in DOMAIN shown[s] :
          /\ shown[s][i].line.k <= posted[s]
          /\ \A k \in DOMAIN shown[s] : i < k => shown[s][i].line.k < shown[s][k].line.k
          /\ \A k \in DOMAIN inbox[s] : Heard(s, k) =>
                shown[s][i].line.k < inbox[s][k].line.k
          /\ Sending(s) => shown[s][i].line.k < Job(s).line.k
          /\ \A k \in DOMAIN Queue(s) : IsPost(s, k) =>
                shown[s][i].line.k < Queue(s)[k].line.k
    /\ \A i \in DOMAIN inbox[s] : Heard(s, i) =>
          /\ inbox[s][i].line.k <= posted[s]
          /\ \A k \in DOMAIN inbox[s] : i < k /\ Heard(s, k) =>
                inbox[s][i].line.k < inbox[s][k].line.k
          /\ Sending(s) => inbox[s][i].line.k < Job(s).line.k
          /\ \A k \in DOMAIN Queue(s) : IsPost(s, k) =>
                inbox[s][i].line.k < Queue(s)[k].line.k
    /\ Works(s, PostStages) =>
          /\ Job(s).line.k <= posted[s]
          /\ \A k \in DOMAIN Queue(s) : IsPost(s, k) => Job(s).line.k < Queue(s)[k].line.k
    /\ \A i \in DOMAIN Queue(s) : IsPost(s, i) =>
          /\ Queue(s)[i].line.k <= posted[s]
          /\ \A k \in DOMAIN Queue(s) : i < k /\ IsPost(s, k) =>
                Queue(s)[i].line.k < Queue(s)[k].line.k

(* So they are stored in that order.                                       *)
StoredInOrder(s) ==
    \A n \in DOMAIN messages : messages[n].line.by = s =>
        /\ messages[n].line.k <= posted[s]
        /\ \A m \in DOMAIN messages : m < n /\ messages[m].line.by = s =>
              messages[m].line.k < messages[n].line.k
        /\ \A i \in DOMAIN Queue(s) : IsPost(s, i) =>
              messages[n].line.k < Queue(s)[i].line.k
        /\ Works(s, {"post", "insert_message"}) => messages[n].line.k < Job(s).line.k
        /\ Works(s, PostStages) => messages[n].line.k <= Job(s).line.k

(* Number n is that of a line of a room.                                   *)
IsNumberOf(n, r, line) ==
    n # -1 => n \in DOMAIN messages /\ messages[n].line = line /\ messages[n].room = r

Numbered(s) ==
    /\ Works(s, Stages) => Job(s).number \in -1 .. Len(messages)
    /\ Works(s, {"select_number"}) =>
          \E n \in DOMAIN messages :
              messages[n].line = Job(s).line /\ messages[n].room = Job(s).room
    /\ Works(s, {"retrieve", "broadcast"}) =>
          IsNumberOf(Job(s).number, Job(s).room, Job(s).line)
    /\ \A i \in DOMAIN inbox[s] : Heard(s, i) =>
          IsNumberOf(inbox[s][i].number, inbox[s][i].room, inbox[s][i].line)
    /\ \A i \in DOMAIN shown[s] :
          IsNumberOf(shown[s][i].number, shown[s][i].room, shown[s][i].line)

-----------------------------------------------------------------------------
(* Nothing of the server of s has failed, and s is there.                  *)
Fine(s) == conn[s] = "open" /\ Home[s] \notin failed

(* A client that has logged in has a record.                               *)
HasRecord(s) == Fine(s) =>
    /\ client[s] \in {"menu", "room"} => record[s].session = s
    /\ Works(s, CreateStages \cup RecordStages \cup {"compare"}) => record[s].session = s
    /\ \A i \in DOMAIN Queue(s) : IsQueued(s, i) /\ Queue(s)[i].kind = "create" =>
          record[s].session = s
    /\ \A i \in DOMAIN inbox[s] : inbox[s][i].ok /\ inbox[s][i].kind \in {"login", "create"} =>
          record[s].session = s
    /\ Works(s, {"set_record"}) => Job(s).rec.session = s

(* The record is in room r, or about to be.                                *)
Follows(s, r) ==
    \/ record[s].session = s /\ record[s].room = r
    \/ Works(s, RecordStages) /\ Job(s).room = r

NoAnswer(s) == \A i \in DOMAIN inbox[s] : inbox[s][i].kind # "create"

RecordFollows(s) == Fine(s) =>
    /\ Works(s, RecordStages) /\ NoAnswer(s) => Job(s).room = room[s]
    /\ \A i \in DOMAIN inbox[s] : inbox[s][i].kind = "create" =>
          /\ Works(s, RecordStages) => inbox[s][i].room = Job(s).room
          /\ inbox[s][i].room >= 1 => Follows(s, inbox[s][i].room)
    /\ room[s] >= 1 /\ NoAnswer(s) => Follows(s, room[s])

(* Line k has come back, or is under way.                                  *)
Kept(s, k) ==
    \/ \E i \in DOMAIN shown[s] : shown[s][i].line = Line(s, k)
    \/ \E i \in DOMAIN inbox[s] : Heard(s, i) /\ inbox[s][i].line = Line(s, k)
    \/ Sending(s) /\ Job(s).line = Line(s, k)
    \/ \E i \in DOMAIN Queue(s) : IsPost(s, i) /\ Queue(s)[i].line = Line(s, k)

NoneLost(s) == Fine(s) => \A k \in 1 .. posted[s] : Kept(s, k)

ClientInv(s) ==
    /\ Local(s) /\ Waits(s) /\ InItsRoom(s)
    /\ LinesInOrder(s) /\ StoredInOrder(s) /\ Numbered(s)
    /\ HasRecord(s) /\ RecordFollows(s) /\ NoneLost(s)

-----------------------------------------------------------------------------
(* A room and everything with its id is one client's.                      *)
Mine(o, s, r) == r <= 0 \/ (r \in 1 .. Len(o) /\ o[r] = s)

Holds(o, s) ==
    /\ Mine(o, s, room[s])
    /\ Mine(o, s, record[s].room)
    /\ \A i \in DOMAIN inbox[s] : Mine(o, s, inbox[s][i].room)
    /\ Works(s, Stages) => Mine(o, s, Job(s).room)
    /\ \A i \in DOMAIN Queue(s) : IsQueued(s, i) => Mine(o, s, Queue(s)[i].room)

HoldsMessages(o) ==
    \A n \in DOMAIN messages :
        messages[n].room >= 1 /\ Mine(o, messages[n].line.by, messages[n].room)

Owned(o) ==
    /\ o \in Seq(Sessions) /\ Len(o) = Len(chatRooms)
    /\ \A s \in Sessions : Holds(o, s)
    /\ HoldsMessages(o)

OneOwner == \E o \in [DOMAIN chatRooms -> Sessions] : Owned(o)

IInv == Types /\ AtHome /\ OneOwner /\ \A s \in Sessions : ClientInv(s)

LEMMA HomeOfSession == Home \in [Sessions -> Servers] /\ NoSession \notin Sessions
  BY ChatServiceAssumption

USE HomeOfSession

LEMMA LineTypes ==
    ASSUME Types, NEW s \in Sessions
    PROVE  /\ \A i \in DOMAIN shown[s] : shown[s][i].line.k \in Nat
           /\ \A i \in DOMAIN inbox[s] : inbox[s][i].line.k \in Nat
           /\ \A i \in DOMAIN Queue(s) : Queue(s)[i].line.k \in Nat
           /\ \A n \in DOMAIN messages : messages[n].line.k \in Nat
           /\ Job(s).line.k \in Nat
           /\ posted[s] \in Nat
<1>1. /\ shown[s] \in Seq(APacket) /\ inbox[s] \in Seq(APacket)
      /\ Queue(s) \in Seq(ARequest) /\ messages \in Seq(AMessage)
      /\ Job(s) \in AJob /\ posted[s] \in Nat
  BY DEF Types, Queue, Job
<1>2. /\ \A i \in DOMAIN shown[s] : shown[s][i] \in APacket
      /\ \A i \in DOMAIN inbox[s] : inbox[s][i] \in APacket
      /\ \A i \in DOMAIN Queue(s) : Queue(s)[i] \in ARequest
      /\ \A n \in DOMAIN messages : messages[n] \in AMessage
  BY <1>1
<1>3. /\ \A x \in APacket : x.line.k \in Nat
      /\ \A x \in ARequest : x.line.k \in Nat
      /\ \A x \in AMessage : x.line.k \in Nat
  BY DEF APacket, ARequest, AMessage, ALine
<1>5. Job(s).line.k \in Nat
  BY <1>1 DEF AJob, ALine
<1> QED
  BY <1>1, <1>2, <1>3, <1>5

-----------------------------------------------------------------------------
(* What a step leaves alone that is another client's: the queue may have   *)
(* moved up by d or become longer, the table of messages longer.           *)
SameQueue(t, d) ==
    /\ \A i \in DOMAIN Queue(t) : IsQueued(t, i) =>
          i - d \in DOMAIN Queue(t)' /\ Queue(t)'[i - d] = Queue(t)[i]
    /\ \A i \in DOMAIN Queue(t)' : IsQueued(t, i)' =>
          i + d \in DOMAIN Queue(t) /\ Queue(t)'[i] = Queue(t)[i + d]

SameJob(t) == Job(t)' = Job(t) \/ (Job(t).s # t /\ Job(t)'.s # t)

MessagesGrow(t) ==
    /\ Len(messages) <= Len(messages')
    /\ \A n \in DOMAIN messages : messages'[n] = messages[n]
    /\ \A n \in DOMAIN messages' \ DOMAIN messages : messages'[n].line.by # t

Same(t) ==
    /\ conn'[t] = conn[t] /\ client'[t] = client[t] /\ room'[t] = room[t]
    /\ created'[t] = created[t] /\ posted'[t] = posted[t]
    /\ record'[t] = record[t] /\ inbox'[t] = inbox[t] /\ shown'[t] = shown[t]
    /\ failed \subseteq failed'
    /\ SameJob(t)
    /\ \E d \in {0, 1} : SameQueue(t, d)
    /\ MessagesGrow(t)

(* A client of which nothing changes keeps its invariant.                  *)
LEMMA SameKeeps ==
    ASSUME Types, Types', NEW t \in Sessions, ClientInv(t), Same(t)
    PROVE  ClientInv(t)'
<1> PICK d \in {0, 1} : SameQueue(t, d)
  BY DEF Same
<1>1. /\ conn'[t] = conn[t] /\ client'[t] = client[t] /\ room'[t] = room[t]
      /\ created'[t] = created[t] /\ posted'[t] = posted[t]
      /\ record'[t] = record[t] /\ inbox'[t] = inbox[t] /\ shown'[t] = shown[t]
      /\ failed \subseteq failed'
      /\ SameJob(t) /\ MessagesGrow(t)
  BY DEF Same
<1>2. /\ DOMAIN Queue(t) = 1 .. Len(Queue(t)) /\ Len(Queue(t)) \in Nat
      /\ DOMAIN Queue(t)' = 1 .. Len(Queue(t)') /\ Len(Queue(t)') \in Nat
  BY SMTT(30) DEF Types, Queue
<1>3. /\ \A n \in DOMAIN messages : n \in DOMAIN messages' /\ messages'[n] = messages[n]
      /\ \A n \in DOMAIN messages' : messages'[n].line.by = t => n \in DOMAIN messages
      /\ Len(messages) \in Nat /\ Len(messages') \in Nat /\ Len(messages) <= Len(messages')
  <2>1. /\ DOMAIN messages = 1 .. Len(messages) /\ Len(messages) \in Nat
        /\ DOMAIN messages' = 1 .. Len(messages') /\ Len(messages') \in Nat
    BY SMTT(30) DEF Types
  <2> QED
    BY <1>1, <2>1 DEF MessagesGrow
<1> USE DEF ClientInv, SameJob, Works, SameQueue, IsQueued, IsPost, Heard, NoneQueued
<1>a. Local(t)'
  BY <1>1 DEF Local
<1>b. Waits(t)'
  BY <1>1, <1>2, SMTT(60) DEF Waits
<1>c. InItsRoom(t)'
  BY <1>1 DEF InItsRoom
<1>d. LinesInOrder(t)'
  BY <1>1, <1>2, SMTT(30) DEF LinesInOrder, Sending, PostStages
<1>e. StoredInOrder(t)'
  BY <1>1, <1>3, SMTT(60) DEF StoredInOrder
<1>f. Numbered(t)'
  <2>1. (Works(t, Stages) => Job(t).number \in -1 .. Len(messages))'
    BY <1>1, <1>3 DEF Numbered
  <2>2. (Works(t, {"select_number"}) =>
            \E n \in DOMAIN messages :
                messages[n].line = Job(t).line /\ messages[n].room = Job(t).room)'
    BY <1>1, <1>3 DEF Numbered
  <2>3. (Works(t, {"retrieve", "broadcast"}) =>
            IsNumberOf(Job(t).number, Job(t).room, Job(t).line))'
    BY <1>1, <1>3 DEF Numbered, IsNumberOf
  <2>4. /\ (\A i \in DOMAIN inbox[t] : Heard(t, i) =>
               IsNumberOf(inbox[t][i].number, inbox[t][i].room, inbox[t][i].line))'
        /\ (\A i \in DOMAIN shown[t] :
               IsNumberOf(shown[t][i].number, shown[t][i].room, shown[t][i].line))'
    BY <1>1, <1>3 DEF Numbered, IsNumberOf
  <2> QED
    BY <2>1, <2>2, <2>3, <2>4 DEF Numbered, IsNumberOf
<1>g. HasRecord(t)'
  BY <1>1 DEF HasRecord, Fine
<1>h. RecordFollows(t)'
  BY <1>1 DEF RecordFollows, Fine, Follows, NoAnswer
<1>i. NoneLost(t)'
  BY <1>1 DEF NoneLost, Fine, Kept, Sending
<1> QED
  BY <1>a, <1>b, <1>c, <1>d, <1>e, <1>f, <1>g, <1>h, <1>i DEF ClientInv

LEMMA SameHolds ==
    ASSUME Types, Types', NEW t \in Sessions, NEW o, NEW p, Holds(o, t), Same(t),
           Len(o) \in Nat, Len(p) \in Nat, Len(o) <= Len(p),
           \A r \in 1 .. Len(o) : p[r] = o[r]
    PROVE  Holds(p, t)'
<1> PICK d \in {0, 1} : SameQueue(t, d)
  BY DEF Same
<1>1. /\ room'[t] = room[t] /\ record'[t] = record[t] /\ inbox'[t] = inbox[t]
      /\ SameJob(t)
  BY DEF Same
<1>2. \A r : Mine(o, t, r) => Mine(p, t, r)
  BY DEF Mine
<1> QED
  BY <1>1, <1>2 DEF Holds, SameJob, Works, SameQueue, IsQueued

-----------------------------------------------------------------------------
(* What the steps do to a queue.                                           *)
LEMMA QueueUnchanged ==
    ASSUME Types, NEW t \in Sessions, requests' = requests
    PROVE  SameQueue(t, 0)
<1>1. DOMAIN Queue(t) \subseteq Int /\ Queue(t)' = Queue(t)
  BY DEF Types, Queue
<1> QED
  BY <1>1 DEF SameQueue, IsQueued

Appends(s, q) == requests' = [requests EXCEPT ![Home[s]] = Append(@, q)]

Appended(s, q) ==
    /\ requests' \in [Servers -> Seq(ARequest)]
    /\ \A v \in Servers : v # Home[s] => requests'[v] = requests[v]
    /\ Len(Queue(s)) \in Nat
    /\ DOMAIN Queue(s) = 1 .. Len(Queue(s))
    /\ DOMAIN Queue(s)' = DOMAIN Queue(s) \cup {Len(Queue(s)) + 1}
    /\ \A i \in DOMAIN Queue(s) : Queue(s)'[i] = Queue(s)[i]
    /\ Queue(s)'[Len(Queue(s)) + 1] = q

LEMMA QueueAppended ==
    ASSUME Types, NEW s \in Sessions, NEW q \in ARequest, Appends(s, q)
    PROVE  Appended(s, q) /\ \A t \in Sessions : t # q.s => SameQueue(t, 0)
<1>0. Home[s] \in Servers /\ requests \in [Servers -> Seq(ARequest)]
  BY DEF Types
<1>1. /\ requests' \in [Servers -> Seq(ARequest)]
      /\ \A v \in Servers : v # Home[s] => requests'[v] = requests[v]
      /\ Queue(s)' = Append(Queue(s), q)
  BY <1>0 DEF Queue, Appends
<1>7. /\ \A t \in Sessions : Home[t] # Home[s] => Queue(t)' = Queue(t)
      /\ \A t \in Sessions : Home[t] = Home[s] => Queue(t) = Queue(s) /\ Queue(t)' = Queue(s)'
  BY <1>1 DEF Queue
<1>2. Len(Queue(s)) \in Nat /\ DOMAIN Queue(s) = 1 .. Len(Queue(s))
  BY DEF Types, Queue
<1>4. \A t \in Sessions : requests[Home[t]] \in Seq(ARequest)
  BY DEF Types
<1>5. \A t \in Sessions : DOMAIN Queue(t) \subseteq Nat
  BY <1>4 DEF Queue
<1>3. /\ DOMAIN Queue(s)' = 1 .. Len(Queue(s)) + 1
      /\ \A i \in DOMAIN Queue(s) : Queue(s)'[i] = Queue(s)[i]
      /\ Queue(s)'[Len(Queue(s)) + 1] = q
  BY <1>1, <1>2, AppendProperties DEF Types, Queue
<1>6. ASSUME NEW t \in Sessions, t # q.s PROVE SameQueue(t, 0)
  <2>1. CASE Home[t] = Home[s]
    <3>1. Queue(t) = Queue(s) /\ Queue(t)' = Queue(s)'
      BY <1>7, <2>1
    <3> QED
      BY <1>2, <1>3, <1>6, <3>1 DEF SameQueue, IsQueued
  <2>2. CASE Home[t] # Home[s]
    BY <1>5, <1>7, <2>2 DEF SameQueue, IsQueued
  <2> QED
    BY <2>1, <2>2
<1>8. DOMAIN Queue(s)' = DOMAIN Queue(s) \cup {Len(Queue(s)) + 1}
  BY <1>2, <1>3
<1> QED
  BY <1>1, <1>2, <1>3, <1>6, <1>8 DEF Appended

LEMMA QueueShifted ==
    ASSUME Types, NEW v \in Servers, requests[v] # <<>>,
           requests' = [requests EXCEPT ![v] = Tail(@)]
    PROVE  /\ requests' \in [Servers -> Seq(ARequest)]
           /\ Head(requests[v]) \in ARequest
           /\ \A t \in Sessions : Home[t] = v =>
                 /\ 1 \in DOMAIN Queue(t) /\ Queue(t)[1] = Head(requests[v])
                 /\ Len(Queue(t)) \in Nat
                 /\ DOMAIN Queue(t) = 1 .. Len(Queue(t))
                 /\ DOMAIN Queue(t)' = 1 .. Len(Queue(t)) - 1
                 /\ \A i \in DOMAIN Queue(t)' : Queue(t)'[i] = Queue(t)[i + 1]
           /\ \A t \in Sessions :
                 t # Head(requests[v]).s => \E d \in {0, 1} : SameQueue(t, d)
<1>1. /\ requests' \in [Servers -> Seq(ARequest)]
      /\ \A t \in Sessions : Home[t] # v => Queue(t)' = Queue(t)
      /\ \A t \in Sessions : Home[t] = v =>
            Queue(t) = requests[v] /\ Queue(t)' = Tail(requests[v])
      /\ requests[v] \in Seq(ARequest)
  BY DEF Types, Queue
<1>2. /\ Len(requests[v]) \in Nat /\ Len(requests[v]) >= 1
      /\ DOMAIN requests[v] = 1 .. Len(requests[v])
      /\ Head(requests[v]) \in ARequest /\ requests[v][1] = Head(requests[v])
      /\ DOMAIN Tail(requests[v]) = 1 .. Len(requests[v]) - 1
      /\ \A i \in 1 .. Len(requests[v]) - 1 : Tail(requests[v])[i] = requests[v][i + 1]
  BY <1>1
<1>3. \A t \in Sessions : DOMAIN Queue(t) \subseteq Nat
  <2>1. \A t \in Sessions : requests[Home[t]] \in Seq(ARequest)
    BY DEF Types
  <2> QED
    BY <2>1 DEF Queue
<1>4. ASSUME NEW t \in Sessions, t # Head(requests[v]).s
      PROVE  \E d \in {0, 1} : SameQueue(t, d)
  <2>1. CASE Home[t] = v
    <3>1. SameQueue(t, 1)
      BY <1>1, <1>2, <1>4, <2>1, SMTT(30) DEF SameQueue, IsQueued, Queue
    <3> QED BY <3>1
  <2>2. CASE Home[t] # v
    <3>1. SameQueue(t, 0)
      BY <1>1, <1>3, <2>2 DEF SameQueue, IsQueued
    <3> QED BY <3>1
  <2> QED BY <2>1, <2>2
<1>5. ASSUME NEW t \in Sessions, Home[t] = v
      PROVE  /\ 1 \in DOMAIN Queue(t) /\ Queue(t)[1] = Head(requests[v])
             /\ Len(Queue(t)) \in Nat
             /\ DOMAIN Queue(t) = 1 .. Len(Queue(t))
             /\ DOMAIN Queue(t)' = 1 .. Len(Queue(t)) - 1
             /\ \A i \in DOMAIN Queue(t)' : Queue(t)'[i] = Queue(t)[i + 1]
  <2>1. Queue(t) = requests[v] /\ Queue(t)' = Tail(requests[v])
    BY <1>1, <1>5
  <2> QED
    BY <1>2, <2>1
<1> QED
  BY <1>1, <1>2, <1>4, <1>5

-----------------------------------------------------------------------------
(* What a step leaves alone of the databases.                              *)
LEMMA MessagesUnchanged ==
    ASSUME Types, NEW t, messages' = messages PROVE MessagesGrow(t)
<1>1. Len(messages) \in Nat
  BY DEF Types
<1> QED
  BY <1>1 DEF MessagesGrow

(* The same owners do when the tables do not change.                       *)
LEMMA OwnersUnchanged ==
    ASSUME Types, Types', OneOwner, chatRooms' = chatRooms, messages' = messages,
           NEW s \in Sessions,
           \A t \in Sessions \ {s} : Same(t),
           \A o \in Seq(Sessions) : Len(o) \in Nat /\ Holds(o, s) => Holds(o, s)'
    PROVE  OneOwner'
<1>1. PICK o \in [DOMAIN chatRooms -> Sessions] : Owned(o)
  BY DEF OneOwner
<1>2. o \in Seq(Sessions) /\ Len(o) \in Nat
  BY <1>1 DEF Owned
<1>3. ASSUME NEW t \in Sessions PROVE Holds(o, t)'
  <2>1. Holds(o, t)
    BY <1>1 DEF Owned
  <2>2. CASE t = s
    BY <1>2, <2>1, <2>2
  <2>3. CASE t # s
    BY <1>2, <2>1, <2>3, SameHolds
  <2> QED
    BY <2>2, <2>3
<1>4. HoldsMessages(o)'
  BY <1>1 DEF Owned, HoldsMessages, Mine
<1>5. Owned(o)'
  BY <1>1, <1>2, <1>3, <1>4 DEF Owned
<1> QED
  BY <1>1, <1>5 DEF OneOwner

-----------------------------------------------------------------------------
(* The client's steps.                                                     *)
LEMMA SendFacts ==
    ASSUME IInv, NEW s \in Sessions,
           NEW kind \in {"login", "create", "view", "post"},
           NEW u \in User, NEW line \in ALine, Send(s, kind, u, line),
           client' \in [Sessions -> {"start", "wait", "menu", "room"}],
           created' \in [Sessions -> Nat], posted' \in [Sessions -> Nat],
           shown' = shown,
           \A t \in Sessions \ {s} : client'[t] = client[t] /\ created'[t] = created[t]
                                     /\ posted'[t] = posted[t]
    PROVE  /\ Types' /\ AtHome' /\ OneOwner'
           /\ \A t \in Sessions \ {s} : Same(t)
           /\ Appended(s, Asked(kind, s, u, room[s], line))
           /\ UNCHANGED <<conn, room, job, record, chatRooms, messages, inbox, shown, failed>>
<1> DEFINE q == Asked(kind, s, u, room[s], line)
<1>0. Types /\ AtHome /\ OneOwner /\ ClientInv(s)
  BY DEF IInv
<1>1. q \in ARequest /\ q.s = s /\ q.room = room[s]
  BY <1>0 DEF Types, Asked, ARequest
<1>2. /\ Appends(s, q)
      /\ UNCHANGED <<conn, room, job, record, chatRooms, messages, inbox, failed>>
  BY DEF Send, Appends, dbVars
<1> HIDE DEF q
<1>3. Appended(s, q) /\ \A t \in Sessions \ {s} : SameQueue(t, 0)
  BY <1>0, <1>1, <1>2, QueueAppended
<1>4. Types'
  BY <1>0, <1>2, <1>3 DEF Types, Appended
<1>5. AtHome'
  <2>2. \A i \in DOMAIN Queue(s)' : Home[Queue(s)'[i].s] = Home[s]
    <3>1. \A i \in DOMAIN Queue(s) : Home[Queue(s)[i].s] = Home[s]
      BY <1>0 DEF AtHome, Queue
    <3> QED
      BY <1>1, <1>3, <3>1 DEF Appended
  <2>3. \A v \in Servers : v # Home[s] => requests'[v] = requests[v]
    BY <1>3 DEF Appended
  <2>4. job' = job
    BY <1>2
  <2> QED
    BY <1>0, <2>2, <2>3, <2>4 DEF AtHome, Queue
<1>6. ASSUME NEW t \in Sessions \ {s} PROVE Same(t)
  <2>1. SameQueue(t, 0) /\ MessagesGrow(t)
    BY <1>0, <1>2, <1>3, MessagesUnchanged
  <2> QED
    BY <1>2, <2>1 DEF Same, SameJob, Job
<1>7. OneOwner'
  <2>1. ASSUME NEW o \in Seq(Sessions), Holds(o, s) PROVE Holds(o, s)'
    <3>1. room'[s] = room[s] /\ record'[s] = record[s] /\ inbox'[s] = inbox[s]
          /\ Job(s)' = Job(s)
      BY <1>2 DEF Job
    <3>2. \A i \in DOMAIN Queue(s)' : Queue(s)'[i].s = s => Mine(o, s, Queue(s)'[i].room)
      BY <1>1, <1>3, <2>1 DEF Holds, IsQueued, Appended
    <3> QED
      BY <2>1, <3>1, <3>2 DEF Holds, Works, IsQueued
  <2> QED
    BY <1>0, <1>2, <1>4, <1>6, <2>1, OwnersUnchanged
<1> QED
  BY <1>2, <1>3, <1>4, <1>5, <1>6, <1>7 DEF q

(* A client that asks waits, and nothing else is under way for it that is  *)
(* not a post.                                                             *)
LEMMA AskKeeps ==
    ASSUME IInv, NEW s \in Sessions, NEW kind \in {"login", "create", "view"},
           NEW u \in User, Send(s, kind, u, NoLine),
           client[s] = IF kind = "login" THEN "start" ELSE "menu",
           client' \in [Sessions -> {"start", "wait", "menu", "room"}],
           created' \in [Sessions -> Nat], client'[s] = "wait",
           created'[s] <= MaxRooms[s],
           posted' = posted, shown' = shown,
           \A t \in Sessions \ {s} : client'[t] = client[t] /\ created'[t] = created[t]
    PROVE  IInv'
<1> DEFINE q == Asked(kind, s, u, room[s], NoLine)
<1>0. Types /\ AtHome /\ \A t \in Sessions : ClientInv(t)
  BY DEF IInv
<1>1. NoLine \in ALine
  BY DEF NoLine, Line, ALine, Someone
<1>2. posted' \in [Sessions -> Nat]
  BY <1>0 DEF Types
<1>3. /\ Types' /\ AtHome' /\ OneOwner'
      /\ \A t \in Sessions \ {s} : Same(t)
      /\ Appended(s, q)
      /\ UNCHANGED <<conn, room, job, record, chatRooms, messages, inbox, shown, failed>>
  BY <1>1, <1>2, SendFacts
<1>4. q.s = s /\ q.kind = kind /\ q.room = room[s]
  BY DEF Asked
<1> HIDE DEF q
<1>5. /\ Job(s)' = Job(s) /\ room'[s] = room[s] /\ record'[s] = record[s]
      /\ inbox'[s] = inbox[s] /\ shown'[s] = shown[s] /\ conn'[s] = conn[s]
      /\ failed' = failed /\ messages' = messages /\ posted'[s] = posted[s]
  BY <1>3 DEF Job
<1>6. /\ Len(Queue(s)) \in Nat
      /\ DOMAIN Queue(s) = 1 .. Len(Queue(s))
      /\ DOMAIN Queue(s)' = DOMAIN Queue(s) \cup {Len(Queue(s)) + 1}
      /\ \A i \in DOMAIN Queue(s) : Queue(s)'[i] = Queue(s)[i]
      /\ Queue(s)'[Len(Queue(s)) + 1] = q
  BY <1>3 DEF Appended
<1>7. /\ Local(s) /\ Waits(s) /\ InItsRoom(s) /\ LinesInOrder(s) /\ StoredInOrder(s)
      /\ Numbered(s) /\ HasRecord(s) /\ RecordFollows(s) /\ NoneLost(s)
  BY <1>0 DEF ClientInv
<1>8. client[s] # "wait" /\ ~Works(s, AskStages) /\ \A i \in DOMAIN inbox[s] : Heard(s, i)
  BY <1>7 DEF Waits
<1>9. \A i \in DOMAIN Queue(s)' : IsPost(s, i)' => i \in DOMAIN Queue(s) /\ IsPost(s, i)
  BY <1>4, <1>6 DEF IsPost
<1> USE <1>5
<1>a. Local(s)'
  BY <1>4, <1>6, <1>7, <1>9 DEF Local, Works, Heard, IsQueued, IsPost
<1>b. Waits(s)'
  BY <1>4, <1>6, <1>7, <1>8 DEF Waits, Works, Heard, IsQueued, IsPost
<1>c. InItsRoom(s)'
  BY <1>4, <1>6, <1>7, <1>8 DEF InItsRoom, Works, Heard, IsQueued, IsPost
<1>d. LinesInOrder(s)'
  BY <1>6, <1>7, <1>9, SMTT(30) DEF LinesInOrder, Works, Heard, IsPost, Sending
<1>e. StoredInOrder(s)'
  BY <1>6, <1>7, <1>9 DEF StoredInOrder, Works, IsPost
<1>f. Numbered(s)'
  BY <1>7 DEF Numbered, Works, Heard, IsNumberOf
<1>g. HasRecord(s)'
  BY <1>4, <1>6, <1>7 DEF HasRecord, Fine, Works, IsQueued
<1>h. RecordFollows(s)'
  BY <1>7 DEF RecordFollows, Fine, Works, Follows, NoAnswer
<1>i. NoneLost(s)'
  BY <1>6, <1>7, SMTT(30) DEF NoneLost, Fine, Kept, Sending, Works, Heard, IsPost
<1>10. ClientInv(s)'
  BY <1>a, <1>b, <1>c, <1>d, <1>e, <1>f, <1>g, <1>h, <1>i DEF ClientInv
<1>11. \A t \in Sessions : ClientInv(t)'
  BY <1>0, <1>3, <1>10, SameKeeps
<1> QED
  BY <1>3, <1>11 DEF IInv

LEMMA AskingKeeps ==
    ASSUME IInv, NEW s \in Sessions, Login(s) \/ Create(s) \/ View(s)
    PROVE  IInv'
<1>1. Types
  BY DEF IInv
<1>2. CASE Login(s)
  <2>1. PICK u \in Users \cup Strangers : Send(s, "login", u, NoLine)
    BY <1>2 DEF Login
  <2>2. u \in User
    BY DEF User
  <2>3. /\ client[s] = "start" /\ client' = [client EXCEPT ![s] = "wait"]
        /\ created' = created /\ posted' = posted /\ shown' = shown
    BY <1>2, <2>1 DEF Login, Send
  <2>4. /\ client' \in [Sessions -> {"start", "wait", "menu", "room"}]
        /\ created' \in [Sessions -> Nat] /\ client'[s] = "wait"
        /\ \A t \in Sessions \ {s} : client'[t] = client[t] /\ created'[t] = created[t]
    BY <1>1, <2>3 DEF Types
  <2>5. created'[s] <= MaxRooms[s]
    BY <2>3 DEF IInv, ClientInv, Local
  <2> QED
    BY <2>1, <2>2, <2>3, <2>4, <2>5, AskKeeps
<1>3. CASE Create(s)
  <2>1. Send(s, "create", NoUser, NoLine) /\ NoUser \in User
    BY <1>3 DEF Create, User
  <2>2. /\ client[s] = "menu" /\ client' = [client EXCEPT ![s] = "wait"]
        /\ created[s] < MaxRooms[s] /\ created' = [created EXCEPT ![s] = @ + 1]
        /\ posted' = posted /\ shown' = shown
    BY <1>3, <2>1 DEF Create, Send
  <2>3. /\ client' \in [Sessions -> {"start", "wait", "menu", "room"}]
        /\ created' \in [Sessions -> Nat] /\ client'[s] = "wait"
        /\ \A t \in Sessions \ {s} : client'[t] = client[t] /\ created'[t] = created[t]
        /\ created'[s] = created[s] + 1
    BY <1>1, <2>2 DEF Types
  <2>4. created'[s] <= MaxRooms[s]
    BY <1>1, <2>2, <2>3, ChatServiceAssumption DEF Types
  <2> QED
    BY <2>1, <2>2, <2>3, <2>4, AskKeeps
<1>4. CASE View(s)
  <2>1. Send(s, "view", NoUser, NoLine) /\ NoUser \in User
    BY <1>4 DEF View, User
  <2>2. /\ client[s] = "menu" /\ client' = [client EXCEPT ![s] = "wait"]
        /\ created' = created /\ posted' = posted /\ shown' = shown
    BY <1>4, <2>1 DEF View, Send
  <2>3. /\ client' \in [Sessions -> {"start", "wait", "menu", "room"}]
        /\ created' \in [Sessions -> Nat] /\ client'[s] = "wait"
        /\ \A t \in Sessions \ {s} : client'[t] = client[t] /\ created'[t] = created[t]
    BY <1>1, <2>2 DEF Types
  <2>4. created'[s] <= MaxRooms[s]
    BY <2>2 DEF IInv, ClientInv, Local
  <2> QED
    BY <2>1, <2>2, <2>3, <2>4, AskKeeps
<1> QED
  BY <1>2, <1>3, <1>4

LEMMA PostKeeps ==
    ASSUME IInv, NEW s \in Sessions, Post(s)
    PROVE  IInv'
<1> DEFINE line == Line(s, posted[s] + 1)
           q == Asked("post", s, NoUser, room[s], line)
<1>0. Types /\ AtHome /\ \A t \in Sessions : ClientInv(t)
  BY DEF IInv
<1>1. posted[s] \in Nat /\ line \in ALine /\ line.by = s /\ line.k = posted[s] + 1
  BY <1>0 DEF Types, Line, ALine, Someone
<1>2. /\ client[s] = "room" /\ posted[s] < MaxPosts[s]
      /\ posted' = [posted EXCEPT ![s] = @ + 1]
      /\ client' = client /\ created' = created /\ shown' = shown
  BY DEF Post, Send
<1>3. /\ posted' \in [Sessions -> Nat] /\ posted'[s] = posted[s] + 1
      /\ client' \in [Sessions -> {"start", "wait", "menu", "room"}]
      /\ created' \in [Sessions -> Nat]
      /\ \A t \in Sessions \ {s} : client'[t] = client[t] /\ created'[t] = created[t]
                                   /\ posted'[t] = posted[t]
  BY <1>0, <1>2 DEF Types
<1>4. Send(s, "post", NoUser, line) /\ NoUser \in User
  BY DEF Post, User
<1> HIDE DEF line
<1>5. /\ Types' /\ AtHome' /\ OneOwner'
      /\ \A t \in Sessions \ {s} : Same(t)
      /\ Appended(s, q)
      /\ UNCHANGED <<conn, room, job, record, chatRooms, messages, inbox, shown, failed>>
  BY <1>1, <1>2, <1>3, <1>4, SendFacts
<1>6. q.s = s /\ q.kind = "post" /\ q.room = room[s] /\ q.line = line
  BY DEF Asked
<1> HIDE DEF q
<1>7. /\ Job(s)' = Job(s) /\ room'[s] = room[s] /\ record'[s] = record[s]
      /\ inbox'[s] = inbox[s] /\ shown'[s] = shown[s] /\ conn'[s] = conn[s]
      /\ failed' = failed /\ messages' = messages /\ client'[s] = client[s]
      /\ created'[s] = created[s]
  BY <1>2, <1>5 DEF Job
<1>8. /\ Len(Queue(s)) \in Nat
      /\ DOMAIN Queue(s) = 1 .. Len(Queue(s))
      /\ DOMAIN Queue(s)' = DOMAIN Queue(s) \cup {Len(Queue(s)) + 1}
      /\ \A i \in DOMAIN Queue(s) : Queue(s)'[i] = Queue(s)[i]
      /\ Queue(s)'[Len(Queue(s)) + 1] = q
  BY <1>5 DEF Appended
<1>9. /\ Local(s) /\ Waits(s) /\ InItsRoom(s) /\ LinesInOrder(s) /\ StoredInOrder(s)
      /\ Numbered(s) /\ HasRecord(s) /\ RecordFollows(s) /\ NoneLost(s)
  BY <1>0 DEF ClientInv
<1>10. /\ \A i \in DOMAIN Queue(s) : IsQueued(s, i) => IsPost(s, i)
       /\ \A i \in DOMAIN inbox[s] : Heard(s, i)
       /\ ~Works(s, AskStages) /\ room[s] >= 1
  BY <1>2, <1>9 DEF Waits, InItsRoom
<1> USE <1>7
<1>a. Local(s)'
  <2>1. posted'[s] <= MaxPosts[s] /\ posted'[s] >= 1
    BY <1>1, <1>2, <1>3, ChatServiceAssumption
  <2>2. \A i \in DOMAIN Queue(s)' :
           /\ IsQueued(s, i)' => Queue(s)'[i].room >= -1
           /\ IsPost(s, i)' => Queue(s)'[i].room >= 1 /\ Queue(s)'[i].line.by = s
                               /\ Queue(s)'[i].line.k >= 1
    BY <1>1, <1>6, <1>8, <1>9, <1>10 DEF Local, IsQueued, IsPost
  <2> QED
    BY <1>9, <2>1, <2>2 DEF Local, Works, Heard, IsQueued, IsPost
<1>b. Waits(s)'
  <2>1. \A i \in DOMAIN Queue(s)' : IsQueued(s, i)' => IsPost(s, i)'
    BY <1>6, <1>8, <1>10 DEF IsQueued, IsPost
  <2> QED
    BY <1>10, <2>1 DEF Waits, Works, Heard, IsQueued, IsPost, NoneQueued
<1>c. InItsRoom(s)'
  <2>1. \A i \in DOMAIN Queue(s)' :
           /\ IsQueued(s, i)' => Queue(s)'[i].kind # "login"
           /\ IsPost(s, i)' => Queue(s)'[i].room = room[s]
    BY <1>6, <1>8, <1>9, <1>10 DEF InItsRoom, IsQueued, IsPost
  <2> QED
    BY <1>9, <2>1 DEF InItsRoom, Works, Heard, IsQueued, IsPost
<1>d. LinesInOrder(s)'
  <2>1. /\ \A i \in DOMAIN shown[s] : shown[s][i].line.k < q.line.k
        /\ \A i \in DOMAIN inbox[s] : Heard(s, i) => inbox[s][i].line.k < q.line.k
        /\ Works(s, PostStages) => Job(s).line.k < q.line.k
        /\ \A i \in DOMAIN Queue(s) : IsPost(s, i) => Queue(s)[i].line.k < q.line.k
    BY <1>0, <1>1, <1>6, <1>9, LineTypes DEF LinesInOrder
  <2>2. \A i \in DOMAIN Queue(s)' : IsPost(s, i)' =>
           /\ Queue(s)'[i].line.k <= posted[s] + 1
           /\ \A k \in DOMAIN Queue(s)' : i < k /\ IsPost(s, k)' =>
                 Queue(s)'[i].line.k < Queue(s)'[k].line.k
    BY <1>0, <1>1, <1>6, <1>8, <1>9, <2>1, LineTypes DEF LinesInOrder, IsPost
  <2>3. /\ \A i \in DOMAIN shown[s] : shown[s][i].line.k <= posted[s] + 1
        /\ \A i \in DOMAIN inbox[s] : Heard(s, i) => inbox[s][i].line.k <= posted[s] + 1
        /\ Works(s, PostStages) => Job(s).line.k <= posted[s] + 1
    BY <1>0, <1>1, <1>9, LineTypes DEF LinesInOrder
  <2>4. \A k \in DOMAIN Queue(s)' : IsPost(s, k)' =>
           /\ \A i \in DOMAIN shown[s] : shown[s][i].line.k < Queue(s)'[k].line.k
           /\ \A i \in DOMAIN inbox[s] : Heard(s, i) => inbox[s][i].line.k < Queue(s)'[k].line.k
           /\ Works(s, PostStages) => Job(s).line.k < Queue(s)'[k].line.k
    BY <1>8, <1>9, <2>1 DEF LinesInOrder, IsPost
  <2> QED
    BY <1>3, <1>9, <2>2, <2>3, <2>4 DEF LinesInOrder, Works, Heard, Sending, IsPost
<1>e. StoredInOrder(s)'
  <2>1. \A n \in DOMAIN messages : messages[n].line.by = s =>
           messages[n].line.k <= posted[s] + 1 /\ messages[n].line.k < q.line.k
    BY <1>0, <1>1, <1>6, <1>9, LineTypes DEF StoredInOrder
  <2>2. \A n \in DOMAIN messages : messages[n].line.by = s =>
           \A i \in DOMAIN Queue(s)' : IsPost(s, i)' =>
               messages[n].line.k < Queue(s)'[i].line.k
    BY <1>8, <1>9, <2>1 DEF StoredInOrder, IsPost
  <2> QED
    BY <1>3, <1>9, <2>1, <2>2 DEF StoredInOrder, Works, IsPost
<1>f. Numbered(s)'
  BY <1>9 DEF Numbered, Works, Heard, IsNumberOf
<1>g. HasRecord(s)'
  BY <1>6, <1>8, <1>9 DEF HasRecord, Fine, Works, IsQueued
<1>h. RecordFollows(s)'
  BY <1>9 DEF RecordFollows, Fine, Works, Follows, NoAnswer
<1>i. NoneLost(s)'
  <2>1. ASSUME NEW k, Kept(s, k) PROVE Kept(s, k)'
    BY <1>8, <2>1 DEF Kept, Sending, Works, Heard, IsPost
  <2>2. ASSUME NEW k, k = posted[s] + 1 PROVE Kept(s, k)'
    <3>1. q.line = Line(s, posted[s] + 1) /\ Len(Queue(s)) + 1 \in DOMAIN Queue(s)'
      BY <1>6, <1>8 DEF line
    <3> QED
      BY <1>6, <1>8, <2>2, <3>1 DEF Kept, IsPost
  <2> QED
    <3>1. Fine(s)' => \A k \in 1 .. posted[s] : Kept(s, k)
      BY <1>9 DEF NoneLost, Fine
    <3>2. posted[s] \in Nat /\ posted'[s] = posted[s] + 1
      BY <1>0, <1>1, <1>3, <1>9 DEF Types
    <3>3. \A k \in 1 .. posted'[s] : k \in 1 .. posted[s] \/ k = posted[s] + 1
      BY <3>2
    <3> QED
      BY <2>1, <2>2, <3>1, <3>3 DEF NoneLost
<1>11. ClientInv(s)'
  BY <1>a, <1>b, <1>c, <1>d, <1>e, <1>f, <1>g, <1>h, <1>i DEF ClientInv
<1>12. \A t \in Sessions : ClientInv(t)'
  BY <1>0, <1>5, <1>11, SameKeeps
<1> QED
  BY <1>5, <1>12 DEF IInv

-----------------------------------------------------------------------------
(* A step changes what is one client's, and neither the tables nor what is *)
(* queued.                                                                 *)
OnlyOf(s) ==
    /\ \A t \in Sessions \ {s} :
          /\ conn'[t] = conn[t] /\ client'[t] = client[t] /\ room'[t] = room[t]
          /\ created'[t] = created[t] /\ posted'[t] = posted[t]
          /\ record'[t] = record[t] /\ inbox'[t] = inbox[t] /\ shown'[t] = shown[t]
    /\ \A t \in Sessions \ {s} : SameJob(t)
    /\ failed \subseteq failed'
    /\ UNCHANGED requests

KeepsRooms(s) == \A o \in Seq(Sessions) : Len(o) \in Nat /\ Holds(o, s) => Holds(o, s)'

LEMMA OnlyOfSame ==
    ASSUME Types, NEW s \in Sessions, OnlyOf(s),
           \A t \in Sessions \ {s} : MessagesGrow(t)
    PROVE  \A t \in Sessions \ {s} : Same(t)
<1>1. \A t \in Sessions : SameQueue(t, 0)
  BY QueueUnchanged DEF OnlyOf
<1> QED
  BY <1>1 DEF OnlyOf, Same

LEMMA OnlyOfKeeps ==
    ASSUME IInv, NEW s \in Sessions, OnlyOf(s), messages' = messages,
           chatRooms' = chatRooms, Types', AtHome', ClientInv(s)', KeepsRooms(s)
    PROVE  IInv'
<1>1. Types /\ OneOwner /\ \A t \in Sessions : ClientInv(t)
  BY DEF IInv
<1>2. \A t \in Sessions \ {s} : Same(t)
  BY <1>1, MessagesUnchanged, OnlyOfSame
<1>3. OneOwner'
  BY <1>1, <1>2, OwnersUnchanged DEF KeepsRooms
<1>4. \A t \in Sessions : ClientInv(t)'
  BY <1>1, <1>2, SameKeeps
<1> QED
  BY <1>3, <1>4 DEF IInv

LEMMA LeaveKeeps ==
    ASSUME IInv, NEW s \in Sessions, Leave(s)
    PROVE  IInv'
<1>0. Types /\ AtHome /\ ClientInv(s)
  BY DEF IInv
<1>1. /\ client[s] = "room" /\ client' = [client EXCEPT ![s] = "menu"]
      /\ UNCHANGED <<conn, room, created, posted, requests, job, record, chatRooms,
                     messages, inbox, shown, failed>>
  BY DEF Leave, serverVars, dbVars
<1>2. /\ client'[s] = "menu" /\ \A t \in Sessions \ {s} : client'[t] = client[t]
      /\ client' \in [Sessions -> {"start", "wait", "menu", "room"}]
  BY <1>0, <1>1 DEF Types
<1>3. Types' /\ AtHome'
  BY <1>0, <1>1, <1>2 DEF Types, AtHome
<1>4. OnlyOf(s) /\ KeepsRooms(s)
  BY <1>1, <1>2 DEF OnlyOf, SameJob, Job, KeepsRooms, Holds, Works, Queue, IsQueued
<1>5. Job(s)' = Job(s) /\ Queue(s)' = Queue(s)
  BY <1>1 DEF Job, Queue
<1>6. /\ Local(s)' /\ Waits(s)' /\ InItsRoom(s)'
  BY <1>0, <1>1, <1>2, <1>5
  DEF ClientInv, Local, Waits, InItsRoom, Works, Heard, IsQueued, IsPost, NoneQueued
<1>7. LinesInOrder(s)' /\ StoredInOrder(s)' /\ Numbered(s)'
  BY <1>0, <1>1, <1>5
  DEF ClientInv, LinesInOrder, StoredInOrder, Numbered, Works, Heard, IsPost, Sending,
      IsNumberOf
<1>8. HasRecord(s)' /\ RecordFollows(s)' /\ NoneLost(s)'
  BY <1>0, <1>1, <1>2, <1>5
  DEF ClientInv, HasRecord, RecordFollows, NoneLost, Fine, Works, Heard, IsQueued, IsPost,
      Follows, NoAnswer, Kept, Sending
<1>9. ClientInv(s)'
  BY <1>6, <1>7, <1>8 DEF ClientInv
<1> QED
  BY <1>1, <1>3, <1>4, <1>9, OnlyOfKeeps

LEMMA OnCloseKeeps ==
    ASSUME IInv, NEW s \in Sessions, OnClose(s)
    PROVE  IInv'
<1>0. Types /\ AtHome /\ ClientInv(s)
  BY DEF IInv
<1>1. /\ conn' = [conn EXCEPT ![s] = "closed"]
      /\ record' = [record EXCEPT ![s] = None] \/ record' = record
      /\ inbox' = [inbox EXCEPT ![s] = <<>>]
      /\ UNCHANGED <<client, room, created, posted, requests, job, chatRooms,
                     messages, shown, failed>>
  BY DEF OnClose, clientVars, serverVars
<1>2. /\ None \in ARecord /\ None.room = -2
      /\ <<>> \in Seq(APacket)
  BY DEF None, ARecord, Someone, User
<1>3. /\ conn'[s] = "closed" /\ record'[s] \in {None, record[s]} /\ inbox'[s] = <<>>
      /\ \A t \in Sessions \ {s} :
            conn'[t] = conn[t] /\ record'[t] = record[t] /\ inbox'[t] = inbox[t]
      /\ conn' \in [Sessions -> {"open", "closed"}]
      /\ record' \in [Sessions -> ARecord]
      /\ inbox' \in [Sessions -> Seq(APacket)]
  <2>0. conn \in [Sessions -> {"open", "closed"}] /\ record \in [Sessions -> ARecord]
        /\ inbox \in [Sessions -> Seq(APacket)]
    BY <1>0 DEF Types
  <2>1. /\ conn'[s] = "closed" /\ inbox'[s] = <<>>
        /\ \A t \in Sessions \ {s} : conn'[t] = conn[t] /\ inbox'[t] = inbox[t]
        /\ conn' \in [Sessions -> {"open", "closed"}]
        /\ inbox' \in [Sessions -> Seq(APacket)]
    BY <1>1, <1>2, <2>0
  <2>2. /\ record'[s] \in {None, record[s]} /\ record' \in [Sessions -> ARecord]
        /\ \A t \in Sessions \ {s} : record'[t] = record[t]
    BY <1>1, <1>2, <2>0
  <2> QED
    BY <2>1, <2>2
<1>4. Types' /\ AtHome'
  BY <1>0, <1>1, <1>3 DEF Types, AtHome
<1>5. OnlyOf(s)
  BY <1>1, <1>3 DEF OnlyOf, SameJob, Job
<1>6. Job(s)' = Job(s) /\ Queue(s)' = Queue(s) /\ DOMAIN inbox'[s] = {}
  BY <1>1, <1>3 DEF Job, Queue
<1>7. KeepsRooms(s)
  BY <1>1, <1>2, <1>3, <1>6 DEF KeepsRooms, Holds, Mine, Works, IsQueued
<1>8. /\ Local(s)' /\ Waits(s)' /\ InItsRoom(s)'
  BY <1>0, <1>1, <1>3, <1>6
  DEF ClientInv, Local, Waits, InItsRoom, Works, Heard, IsQueued, IsPost, NoneQueued
<1>9. LinesInOrder(s)' /\ StoredInOrder(s)' /\ Numbered(s)'
  BY <1>0, <1>1, <1>6
  DEF ClientInv, LinesInOrder, StoredInOrder, Numbered, Works, Heard, IsPost, Sending,
      IsNumberOf
<1>10. HasRecord(s)' /\ RecordFollows(s)' /\ NoneLost(s)'
  BY <1>3 DEF HasRecord, RecordFollows, NoneLost, Fine
<1>11. ClientInv(s)'
  BY <1>8, <1>9, <1>10 DEF ClientInv
<1> QED
  BY <1>1, <1>4, <1>5, <1>7, <1>11, OnlyOfKeeps

(* What is left of an inbox.                                               *)
Shifted(s) ==
    /\ Len(inbox[s]) \in Nat /\ 1 \in DOMAIN inbox[s]
    /\ DOMAIN inbox[s] = 1 .. Len(inbox[s])
    /\ DOMAIN inbox'[s] = 1 .. Len(inbox[s]) - 1
    /\ \A i \in DOMAIN inbox'[s] : i + 1 \in DOMAIN inbox[s] /\ inbox'[s][i] = inbox[s][i + 1]

LEMMA ProcessFacts ==
    ASSUME Types, NEW s \in Sessions, Process(s)
    PROVE  /\ Shifted(s)
           /\ inbox[s][1] = Head(inbox[s]) /\ Head(inbox[s]) \in APacket
           /\ inbox' \in [Sessions -> Seq(APacket)]
           /\ \A t \in Sessions \ {s} : inbox'[t] = inbox[t]
           /\ UNCHANGED <<conn, created, posted, requests, job, record, chatRooms,
                          messages, failed>>
<1>1. /\ inbox[s] # <<>> /\ inbox' = [inbox EXCEPT ![s] = Tail(@)]
      /\ UNCHANGED <<conn, created, posted, requests, job, record, chatRooms,
                     messages, failed>>
  BY DEF Process, serverVars, dbVars
<1>2. inbox[s] \in Seq(APacket) /\ inbox \in [Sessions -> Seq(APacket)]
  BY DEF Types
<1>3. Tail(inbox[s]) \in Seq(APacket) /\ Head(inbox[s]) \in APacket
  BY <1>1, <1>2
<1>4. /\ inbox' \in [Sessions -> Seq(APacket)] /\ inbox'[s] = Tail(inbox[s])
      /\ \A t \in Sessions \ {s} : inbox'[t] = inbox[t]
  BY <1>1, <1>2, <1>3
<1>5. /\ Len(inbox[s]) \in Nat /\ Len(inbox[s]) >= 1
      /\ DOMAIN inbox[s] = 1 .. Len(inbox[s])
      /\ inbox[s][1] = Head(inbox[s])
      /\ DOMAIN Tail(inbox[s]) = 1 .. Len(inbox[s]) - 1
      /\ \A i \in 1 .. Len(inbox[s]) - 1 : Tail(inbox[s])[i] = inbox[s][i + 1]
  BY <1>1, <1>2
<1>6. Shifted(s)
  BY <1>4, <1>5 DEF Shifted
<1> QED
  BY <1>1, <1>3, <1>4, <1>5, <1>6

(* An answer is the last packet under way, and the client moves to where   *)
(* it says.                                                                *)
LEMMA AnswerKeeps ==
    ASSUME IInv, NEW s \in Sessions, Process(s), Head(inbox[s]).kind # "broadcast"
    PROVE  IInv'
<1> DEFINE p == Head(inbox[s])
<1>0. Types /\ AtHome /\ ClientInv(s)
  BY DEF IInv
<1>1. /\ Shifted(s) /\ inbox[s][1] = p /\ p \in APacket
      /\ inbox' \in [Sessions -> Seq(APacket)]
      /\ \A t \in Sessions \ {s} : inbox'[t] = inbox[t]
      /\ UNCHANGED <<conn, created, posted, requests, job, record, chatRooms,
                     messages, failed>>
  BY <1>0, ProcessFacts
<1>2. /\ shown' = shown
      /\ \/ /\ p.kind = "login" /\ room' = room
            /\ client' = [client EXCEPT ![s] = IF p.ok THEN "menu" ELSE @]
         \/ /\ p.kind = "create" /\ room' = [room EXCEPT ![s] = p.room]
            /\ client' = [client EXCEPT ![s] = IF p.ok THEN "room" ELSE @]
         \/ p.kind \notin {"login", "create"} /\ room' = room /\ client' = client
  BY DEF Process
<1> HIDE DEF p
<1>3. /\ client[s] = "wait" /\ 1 = Len(inbox[s]) /\ NoneQueued(s)
      /\ ~Works(s, AskStages \cup PostStages)
      /\ ~Heard(s, 1)
  BY <1>0, <1>1 DEF ClientInv, Waits, Heard, Shifted, p
<1>4. /\ DOMAIN inbox'[s] = {}
      /\ DOMAIN inbox[s] = {1}
  <2>1. /\ DOMAIN inbox[s] = 1 .. Len(inbox[s])
        /\ DOMAIN inbox'[s] = 1 .. Len(inbox[s]) - 1
    BY <1>1 DEF Shifted
  <2>2. Len(inbox[s]) = 1
    BY <1>3
  <2> QED
    BY <2>1, <2>2
<1>5. /\ client' \in [Sessions -> {"start", "wait", "menu", "room"}]
      /\ room' \in [Sessions -> Int]
      /\ \A t \in Sessions \ {s} : client'[t] = client[t] /\ room'[t] = room[t]
      /\ shown' = shown
  <2>1. p.room \in Int
    BY <1>1 DEF APacket
  <2>2. client \in [Sessions -> {"start", "wait", "menu", "room"}] /\ room \in [Sessions -> Int]
    BY <1>0 DEF Types
  <2> QED
    BY <1>2, <2>1, <2>2
<1>6. \/ p.kind = "login" /\ p.ok /\ room'[s] = room[s] /\ client'[s] = "menu"
      \/ p.kind = "create" /\ p.ok /\ room'[s] = p.room /\ client'[s] = "room"
      \/ p.kind # "create" /\ room'[s] = room[s] /\ client'[s] = "wait"
      \/ p.kind = "create" /\ ~p.ok /\ room'[s] = p.room /\ client'[s] = "wait"
  BY <1>0, <1>2, <1>3 DEF Types
<1>7. Types' /\ AtHome'
  BY <1>0, <1>1, <1>5 DEF Types, AtHome
<1>8. OnlyOf(s)
  BY <1>1, <1>5 DEF OnlyOf, SameJob, Job
<1>9. /\ Job(s)' = Job(s) /\ Queue(s)' = Queue(s) /\ record'[s] = record[s]
      /\ shown'[s] = shown[s] /\ messages' = messages /\ failed' = failed
      /\ conn'[s] = conn[s] /\ posted'[s] = posted[s] /\ created'[s] = created[s]
  BY <1>1, <1>5 DEF Job, Queue
<1>10. KeepsRooms(s)
  BY <1>1, <1>4, <1>6, <1>9 DEF KeepsRooms, Holds, Mine, Works, IsQueued
<1>11. /\ Local(s) /\ Waits(s) /\ InItsRoom(s) /\ LinesInOrder(s) /\ StoredInOrder(s)
       /\ Numbered(s) /\ HasRecord(s) /\ RecordFollows(s) /\ NoneLost(s)
  BY <1>0 DEF ClientInv
<1>12. /\ p.room >= -1 /\ (p.kind = "create" => (p.ok <=> p.room >= 1))
  BY <1>1, <1>4, <1>11 DEF Local
<1> USE <1>9
<1>a. Local(s)'
  BY <1>4, <1>6, <1>11, <1>12 DEF Local, Works, IsQueued, IsPost
<1>b. Waits(s)'
  BY <1>3, <1>4 DEF Waits, Works, NoneQueued, IsQueued, IsPost
<1>c. InItsRoom(s)'
  BY <1>3, <1>4, <1>6, <1>11, <1>12
  DEF InItsRoom, Works, NoneQueued, IsQueued, IsPost, AskStages
<1>d. LinesInOrder(s)'
  BY <1>4, <1>11 DEF LinesInOrder, Works, IsPost, Sending, Heard
<1>e. StoredInOrder(s)'
  BY <1>11 DEF StoredInOrder, Works, IsPost
<1>f. Numbered(s)'
  BY <1>4, <1>11 DEF Numbered, Works, IsNumberOf
<1>g. HasRecord(s)'
  BY <1>1, <1>4, <1>6, <1>11 DEF HasRecord, Fine, Works, IsQueued
<1>h. RecordFollows(s)'
  BY <1>1, <1>4, <1>6, <1>11, <1>12 DEF RecordFollows, Fine, Works, Follows, NoAnswer
<1>i. NoneLost(s)'
  BY <1>3, <1>4, <1>11 DEF NoneLost, Fine, Kept, Sending, Works, Heard, IsPost
<1>13. ClientInv(s)'
  BY <1>a, <1>b, <1>c, <1>d, <1>e, <1>f, <1>g, <1>h, <1>i DEF ClientInv
<1> QED
  BY <1>1, <1>7, <1>8, <1>10, <1>13, OnlyOfKeeps

(* A broadcast moves from the inbox to the history.                        *)
LEMMA HearKeeps ==
    ASSUME IInv, NEW s \in Sessions, Process(s), Head(inbox[s]).kind = "broadcast"
    PROVE  IInv'
<1> DEFINE p == Head(inbox[s])
           b == [p EXCEPT !.at = room[s]]
           n == Len(shown[s]) + 1
<1>0. Types /\ AtHome /\ ClientInv(s)
  BY DEF IInv
<1>1. /\ Shifted(s) /\ inbox[s][1] = p /\ p \in APacket
      /\ inbox' \in [Sessions -> Seq(APacket)]
      /\ \A t \in Sessions \ {s} : inbox'[t] = inbox[t]
      /\ UNCHANGED <<conn, created, posted, requests, job, record, chatRooms,
                     messages, failed>>
  BY <1>0, ProcessFacts
<1>2. /\ client' = client /\ room' = room
      /\ shown' = [shown EXCEPT ![s] = Append(@, b)]
  BY DEF Process
<1>3. room[s] \in Int /\ shown[s] \in Seq(APacket)
  BY <1>0 DEF Types
<1>4. /\ b \in APacket /\ b.kind = "broadcast" /\ b.line = p.line /\ b.room = p.room
      /\ b.number = p.number /\ b.at = room[s]
  BY <1>1, <1>3 DEF APacket
<1>5. p.kind = "broadcast"
  OBVIOUS
<1> HIDE DEF p, b
<1>6. /\ Append(shown[s], b) \in Seq(APacket)
      /\ Len(shown[s]) \in Nat /\ DOMAIN shown[s] = 1 .. Len(shown[s])
      /\ DOMAIN Append(shown[s], b) = 1 .. Len(shown[s]) + 1
      /\ \A i \in DOMAIN shown[s] : Append(shown[s], b)[i] = shown[s][i]
      /\ Append(shown[s], b)[Len(shown[s]) + 1] = b
  BY <1>3, <1>4, AppendProperties
<1>7. /\ shown' \in [Sessions -> Seq(APacket)]
      /\ shown'[s] = Append(shown[s], b)
      /\ \A t \in Sessions \ {s} : shown'[t] = shown[t]
  BY <1>0, <1>2, <1>6 DEF Types
<1>8. /\ DOMAIN shown'[s] = DOMAIN shown[s] \cup {n} /\ shown'[s][n] = b
      /\ \A i \in DOMAIN shown[s] : shown'[s][i] = shown[s][i] /\ i < n /\ i \in Nat
      /\ n \in Nat
  BY <1>6, <1>7
<1> HIDE DEF n
<1>9. Types' /\ AtHome'
  BY <1>0, <1>1, <1>2, <1>7 DEF Types, AtHome
<1>10. OnlyOf(s)
  BY <1>1, <1>2, <1>7 DEF OnlyOf, SameJob, Job
<1>11. /\ Job(s)' = Job(s) /\ Queue(s)' = Queue(s) /\ record'[s] = record[s]
       /\ messages' = messages /\ failed' = failed
       /\ conn'[s] = conn[s] /\ posted'[s] = posted[s] /\ created'[s] = created[s]
       /\ client'[s] = client[s] /\ room'[s] = room[s]
  BY <1>1, <1>2 DEF Job, Queue
<1>12. KeepsRooms(s)
  BY <1>1, <1>11 DEF KeepsRooms, Holds, Works, IsQueued, Shifted
<1>13. /\ Local(s) /\ Waits(s) /\ InItsRoom(s) /\ LinesInOrder(s) /\ StoredInOrder(s)
       /\ Numbered(s) /\ HasRecord(s) /\ RecordFollows(s) /\ NoneLost(s)
  BY <1>0 DEF ClientInv
<1>14. \A i \in DOMAIN inbox'[s] : i + 1 \in DOMAIN inbox[s] /\ inbox'[s][i] = inbox[s][i + 1]
                                   /\ i \in Nat
  BY <1>1 DEF Shifted
<1>15. /\ 1 \in DOMAIN inbox[s] /\ Heard(s, 1)
       /\ \A i \in DOMAIN inbox[s] : i = 1 \/ (i - 1 \in DOMAIN inbox'[s] /\ inbox'[s][i - 1] = inbox[s][i])
  BY <1>1, <1>5 DEF Shifted, Heard
<1>16. Len(inbox'[s]) = Len(inbox[s]) - 1 /\ Len(inbox[s]) \in Nat
  BY <1>1 DEF Shifted
<1> USE <1>11
<1>a. Local(s)'
  BY <1>1, <1>4, <1>8, <1>13, <1>14, <1>15 DEF Local, Works, IsQueued, IsPost, Heard
<1>b. Waits(s)'
  BY <1>13, <1>14, <1>16 DEF Waits, Works, NoneQueued, IsQueued, IsPost, Heard
<1>c. InItsRoom(s)'
  BY <1>1, <1>4, <1>8, <1>13, <1>14, <1>15 DEF InItsRoom, Works, IsQueued, IsPost, Heard
<1>d. LinesInOrder(s)'
  BY <1>1, <1>4, <1>8, <1>13, <1>14, <1>15, SMTT(30)
  DEF LinesInOrder, Works, IsPost, Sending, Heard
<1>e. StoredInOrder(s)'
  BY <1>13 DEF StoredInOrder, Works, IsPost
<1>f. Numbered(s)'
  BY <1>1, <1>4, <1>8, <1>13, <1>14, <1>15 DEF Numbered, Works, IsNumberOf, Heard
<1>g. HasRecord(s)'
  BY <1>13, <1>14 DEF HasRecord, Fine, Works, IsQueued
<1>h. RecordFollows(s)'
  BY <1>1, <1>5, <1>13, <1>14, <1>15 DEF RecordFollows, Fine, Works, Follows, NoAnswer
<1>i. NoneLost(s)'
  <2>1. ASSUME NEW k, \E i \in DOMAIN inbox[s] : Heard(s, i) /\ inbox[s][i].line = Line(s, k)
        PROVE  \/ \E i \in DOMAIN shown'[s] : shown'[s][i].line = Line(s, k)
               \/ \E i \in DOMAIN inbox'[s] : Heard(s, i)' /\ inbox'[s][i].line = Line(s, k)
    <3> PICK i \in DOMAIN inbox[s] : Heard(s, i) /\ inbox[s][i].line = Line(s, k)
      BY <2>1
    <3>1. CASE i = 1
      BY <1>1, <1>4, <1>8, <3>1
    <3>2. CASE i # 1
      BY <1>15, <3>2 DEF Heard
    <3> QED
      BY <3>1, <3>2
  <2>2. ASSUME NEW k, \E i \in DOMAIN shown[s] : shown[s][i].line = Line(s, k)
        PROVE  \E i \in DOMAIN shown'[s] : shown'[s][i].line = Line(s, k)
    BY <1>8, <2>2
  <2>3. ASSUME NEW k, Kept(s, k) PROVE Kept(s, k)'
    BY <2>1, <2>2, <2>3 DEF Kept, Sending, Works, IsPost
  <2> QED
    BY <1>13, <2>3 DEF NoneLost, Fine, Kept, Sending, Works, Heard, IsPost
<1>17. ClientInv(s)'
  BY <1>a, <1>b, <1>c, <1>d, <1>e, <1>f, <1>g, <1>h, <1>i DEF ClientInv
<1> QED
  BY <1>1, <1>9, <1>10, <1>12, <1>17, OnlyOfKeeps

-----------------------------------------------------------------------------
(* The server's steps.                                                     *)
LEMMA IdleIsAJob == Idle \in AJob
<1>1. NoLine \in ALine
  BY DEF NoLine, Line, ALine, Someone
<1>2. None \in ARecord
  BY DEF None, ARecord, Someone, User
<1> QED
  BY <1>1, <1>2 DEF Idle, AJob, Someone, User

(* TakeRequest moves a request from the head of the queue into the job.    *)
LEMMA TakeRequestKeeps ==
    ASSUME IInv, NEW v \in Servers, TakeRequest(v)
    PROVE  IInv'
<1>0. Types /\ AtHome /\ OneOwner /\ \A t \in Sessions : ClientInv(t)
  BY DEF IInv
<1>1. /\ job[v].pc = "idle" /\ requests[v] # <<>>
      /\ requests' = [requests EXCEPT ![v] = Tail(@)]
      /\ job' = [job EXCEPT ![v] = [Idle EXCEPT
                    !.pc = Head(requests[v]).kind, !.s = Head(requests[v]).s,
                    !.user = Head(requests[v]).user, !.room = Head(requests[v]).room,
                    !.line = Head(requests[v]).line]]
      /\ UNCHANGED <<conn, client, room, created, posted, record, chatRooms, messages,
                     inbox, shown, failed>>
  BY DEF TakeRequest, At, clientVars, dbVars
<1>2. /\ requests' \in [Servers -> Seq(ARequest)] /\ Head(requests[v]) \in ARequest
      /\ \A t \in Sessions : Home[t] = v =>
            /\ 1 \in DOMAIN Queue(t) /\ Queue(t)[1] = Head(requests[v])
            /\ Len(Queue(t)) \in Nat
            /\ DOMAIN Queue(t) = 1 .. Len(Queue(t))
            /\ DOMAIN Queue(t)' = 1 .. Len(Queue(t)) - 1
            /\ \A i \in DOMAIN Queue(t)' : Queue(t)'[i] = Queue(t)[i + 1]
      /\ \A t \in Sessions :
            t # Head(requests[v]).s => \E d \in {0, 1} : SameQueue(t, d)
  BY <1>0, <1>1, QueueShifted
<1> PICK q \in ARequest : Head(requests[v]) = q
  BY <1>2
<1>3. /\ q.s \in Sessions /\ q.kind \in {"login", "create", "view", "post"}
      /\ q.user \in User /\ q.room \in Int /\ q.line \in ALine
  BY DEF ARequest
<1> PICK s \in Sessions : q.s = s
  BY <1>3
<1> DEFINE j == [Idle EXCEPT !.pc = q.kind, !.s = q.s, !.user = q.user,
                             !.room = q.room, !.line = q.line]
<1>4. /\ j.pc = q.kind /\ j.s = s /\ j.room = q.room /\ j.line = q.line /\ j.number = 0
      /\ j.ok = TRUE /\ j.to = {}
  BY DEF Idle
<1>5. j \in AJob
  <2>1. q.kind \in Stages \cup {"idle", "crashed"}
    BY <1>3 DEF Stages, AskStages, LoginStages, CreateStages, PostStages
  <2> QED
    BY <1>3, <2>1, IdleIsAJob DEF AJob, Someone
<1> HIDE DEF j
<1>6. Home[s] = v
  <2>1. requests[v] \in Seq(ARequest)
    BY <1>0 DEF Types
  <2>2. 1 \in DOMAIN requests[v] /\ requests[v][1] = q
    BY <1>1, <2>1
  <2> QED
    BY <1>0, <2>2 DEF AtHome
<1>7. /\ job' \in [Servers -> AJob] /\ job'[v] = j
      /\ \A w \in Servers \ {v} : job'[w] = job[w]
  BY <1>0, <1>1, <1>5 DEF Types, j
<1>8. Types'
  BY <1>0, <1>1, <1>2, <1>7 DEF Types
<1>9. job[v].s = NoSession
  BY <1>0, <1>1 DEF AtHome, Stages, AskStages, LoginStages, CreateStages, RecordStages, PostStages
<1>10. /\ Job(s)' = j /\ Job(s)'.s = s /\ Job(s)'.pc = q.kind /\ Job(s)'.line = q.line
       /\ Job(s)'.room = q.room /\ Job(s)'.number = 0 /\ Job(s)'.to = {}
       /\ Job(s)'.ok = TRUE /\ Job(s).s # s
  BY <1>4, <1>6, <1>7, <1>9 DEF Job
<1>11. /\ 1 \in DOMAIN Queue(s) /\ Queue(s)[1] = q /\ IsQueued(s, 1)
       /\ (q.kind = "post" => IsPost(s, 1))
       /\ \A i \in DOMAIN Queue(s)' :
             i + 1 \in DOMAIN Queue(s) /\ Queue(s)'[i] = Queue(s)[i + 1] /\ i \in Nat /\ i >= 1
       /\ \A i \in DOMAIN Queue(s) :
             i = 1 \/ (i - 1 \in DOMAIN Queue(s)' /\ Queue(s)'[i - 1] = Queue(s)[i])
  BY <1>2, <1>6 DEF IsQueued, IsPost
<1>12. AtHome'
  <2>1. ASSUME NEW w \in Servers \ {v}
        PROVE  requests'[w] = requests[w] /\ job'[w] = job[w]
    BY <1>0, <1>1, <1>7 DEF Types
  <2>2. /\ j.pc \in Stages /\ j.s \in Sessions /\ Home[j.s] = v
    BY <1>3, <1>4, <1>6 DEF Stages, AskStages, LoginStages, CreateStages, PostStages
  <2>3. \A i \in DOMAIN requests'[v] : Home[requests'[v][i].s] = v
    BY <1>0, <1>6, <1>11 DEF AtHome, Queue
  <2> QED
    BY <1>0, <1>7, <2>1, <2>2, <2>3 DEF AtHome
<1>13. ASSUME NEW t \in Sessions \ {s} PROVE Same(t)
  <2>1. SameJob(t)
    BY <1>4, <1>6, <1>7, <1>9, <1>13 DEF SameJob, Job
  <2>2. MessagesGrow(t) /\ \E d \in {0, 1} : SameQueue(t, d)
    BY <1>0, <1>1, <1>2, <1>13, MessagesUnchanged
  <2> QED
    BY <1>1, <2>1, <2>2 DEF Same
<1>14. OneOwner'
  <2>1. ASSUME NEW o \in Seq(Sessions), Holds(o, s) PROVE Holds(o, s)'
    BY <1>1, <1>4, <1>10, <1>11, <2>1 DEF Holds, Works, IsQueued
  <2> QED
    BY <1>0, <1>1, <1>8, <1>13, <2>1, OwnersUnchanged
<1>15. /\ Local(s) /\ Waits(s) /\ InItsRoom(s) /\ LinesInOrder(s) /\ StoredInOrder(s)
       /\ Numbered(s) /\ HasRecord(s) /\ RecordFollows(s) /\ NoneLost(s)
  BY <1>0 DEF ClientInv
<1>16. /\ q.kind \in Stages \ RecordStages
       /\ q.kind \in PostStages <=> q.kind = "post"
       /\ q.kind \in AskStages <=> q.kind # "post"
       /\ q.kind \in LoginStages <=> q.kind = "login"
       /\ q.kind \in CreateStages <=> q.kind = "create"
       /\ q.kind \notin {"remove_user", "answer_create", "set_record", "broadcast", "compare",
                         "insert_message", "select_number", "retrieve"}
  BY <1>3 DEF Stages, AskStages, LoginStages, CreateStages, PostStages, RecordStages
<1>17. /\ conn'[s] = conn[s] /\ client'[s] = client[s] /\ room'[s] = room[s]
       /\ created'[s] = created[s] /\ posted'[s] = posted[s] /\ record'[s] = record[s]
       /\ inbox'[s] = inbox[s] /\ shown'[s] = shown[s]
       /\ failed' = failed /\ messages' = messages
  BY <1>1
<1>18. \A i \in DOMAIN inbox[s] : Heard(s, i)
  BY <1>11, <1>15 DEF Waits, NoneQueued
<1>19. q.kind # "post" => client[s] = "wait" /\ \A i \in DOMAIN Queue(s)' : ~IsQueued(s, i)'
  BY <1>11, <1>15 DEF Waits, IsQueued, IsPost
<1> USE <1>17
<1>a. Local(s)'
  BY <1>10, <1>11, <1>15, <1>16 DEF Local, Works, IsQueued, IsPost, Heard
<1>b. Waits(s)'
  BY <1>10, <1>11, <1>15, <1>16, <1>18, <1>19 DEF Waits, Works, NoneQueued, IsQueued, IsPost, Heard
<1>c. InItsRoom(s)'
  BY <1>10, <1>11, <1>15, <1>16 DEF InItsRoom, Works, IsQueued, IsPost, Heard
<1>d. LinesInOrder(s)'
  BY <1>10, <1>11, <1>15, <1>16 DEF LinesInOrder, Works, IsPost, Sending, Heard
<1>e. StoredInOrder(s)'
  <2>1. \A n \in DOMAIN messages : messages[n].line.by = s =>
           /\ q.kind = "post" => messages[n].line.k < q.line.k /\ messages[n].line.k <= q.line.k
           /\ \A i \in DOMAIN Queue(s)' : IsPost(s, i)' =>
                 messages[n].line.k < Queue(s)'[i].line.k
    <3>1. q.line.k \in Nat /\ \A n \in DOMAIN messages : messages[n].line.k \in Nat
      BY <1>0, <1>11, LineTypes
    <3> QED
      BY <1>11, <1>15, <3>1 DEF StoredInOrder, IsPost
  <2> QED
    BY <1>10, <1>15, <1>16, <2>1 DEF StoredInOrder, Works, IsPost
<1>f. Numbered(s)'
  BY <1>8, <1>10, <1>15, <1>16 DEF Types, Numbered, Works, IsNumberOf, Heard
<1>g. HasRecord(s)'
  BY <1>10, <1>11, <1>15, <1>16 DEF HasRecord, Fine, Works, IsQueued
<1>h. RecordFollows(s)'
  BY <1>10, <1>15, <1>16 DEF RecordFollows, Fine, Works, Follows, NoAnswer
<1>i. NoneLost(s)'
  <2>1. ASSUME NEW k, \E i \in DOMAIN Queue(s) : IsPost(s, i) /\ Queue(s)[i].line = Line(s, k)
        PROVE  \/ Sending(s)' /\ Job(s)'.line = Line(s, k)
               \/ \E i \in DOMAIN Queue(s)' : IsPost(s, i)' /\ Queue(s)'[i].line = Line(s, k)
    <3> PICK i \in DOMAIN Queue(s) : IsPost(s, i) /\ Queue(s)[i].line = Line(s, k)
      BY <2>1
    <3>1. CASE i = 1
      BY <1>4, <1>10, <1>11, <3>1 DEF Sending, Works, IsPost
    <3>2. CASE i # 1
      BY <1>11, <3>2 DEF IsPost
    <3> QED
      BY <3>1, <3>2
  <2>2. ASSUME NEW k, Kept(s, k) PROVE Kept(s, k)'
    BY <1>10, <2>1, <2>2 DEF Kept, Sending, Works, Heard
  <2> QED
    BY <1>15, <2>2 DEF NoneLost, Fine, Kept, Sending, Works, Heard, IsPost
<1>20. ClientInv(s)'
  BY <1>a, <1>b, <1>c, <1>d, <1>e, <1>f, <1>g, <1>h, <1>i DEF ClientInv
<1>21. \A t \in Sessions : ClientInv(t)'
  BY <1>0, <1>8, <1>13, <1>20, SameKeeps
<1> QED
  BY <1>8, <1>12, <1>14, <1>21 DEF IInv

-----------------------------------------------------------------------------
(* A step of the server of s that works for s.                             *)
StagesKnown == Stages = {"login", "store_user", "remove_user", "compare", "answer_login",
    "create", "insert_room", "answer_create", "view", "get_record", "set_record",
    "post", "insert_message", "select_number", "retrieve", "broadcast", "attend"}

LEMMA StagesAre == StagesKnown
  BY DEF StagesKnown, Stages, AskStages, LoginStages, CreateStages, RecordStages, PostStages

LEMMA WorkerOf ==
    ASSUME IInv, NEW v \in Servers, job[v].pc \in Stages
    PROVE  \E s \in Sessions : Home[s] = v /\ Job(s) = job[v] /\ Job(s).s = s
  BY DEF IInv, AtHome, Job

LEMMA GotoFacts ==
    ASSUME Types, NEW s \in Sessions, NEW j \in AJob,
           NEW pc \in Stages \cup {"idle", "crashed"}, Goto(Home[s], j, pc)
    PROVE  /\ job' \in [Servers -> AJob]
           /\ \A w \in Servers \ {Home[s]} : job'[w] = job[w]
           /\ Job(s)'.pc = pc /\ Job(s)'.s = j.s /\ Job(s)'.user = j.user
           /\ Job(s)'.room = j.room /\ Job(s)'.line = j.line /\ Job(s)'.number = j.number
           /\ Job(s)'.ok = j.ok /\ Job(s)'.rec = j.rec /\ Job(s)'.to = j.to
<1> DEFINE n == [j EXCEPT !.pc = pc]
<1>1. n \in AJob
  BY DEF AJob
<1>2. /\ n.pc = pc /\ n.s = j.s /\ n.user = j.user /\ n.room = j.room /\ n.line = j.line
      /\ n.number = j.number /\ n.ok = j.ok /\ n.rec = j.rec /\ n.to = j.to
  BY DEF AJob
<1>3. job' = [job EXCEPT ![Home[s]] = n] /\ job \in [Servers -> AJob]
  BY DEF Goto, Types
<1> HIDE DEF n
<1>4. /\ job' \in [Servers -> AJob] /\ Job(s)' = n
      /\ \A w \in Servers \ {Home[s]} : job'[w] = job[w]
  BY <1>1, <1>3 DEF Job
<1> QED
  BY <1>2, <1>4

(* What such a step leaves alone.                                          *)
ServesOnly(s) ==
    /\ \A w \in Servers \ {Home[s]} : job'[w] = job[w]
    /\ Job(s)'.s \in {s, NoSession}
    /\ \A t \in Sessions \ {s} : record'[t] = record[t] /\ inbox'[t] = inbox[t]
    /\ failed' = failed \/ (failed' = failed \cup {Home[s]} /\ Home[s] \in Failing)
    /\ UNCHANGED <<conn, client, room, created, posted, requests, shown>>

ServedTypes ==
    /\ job' \in [Servers -> AJob] /\ record' \in [Sessions -> ARecord]
    /\ inbox' \in [Sessions -> Seq(APacket)]
    /\ chatRooms' \in Seq(Users) /\ messages' \in Seq(AMessage)

(* The job goes on, or the goroutine is idle again.                        *)
GoesOn(s) ==
    \/ Job(s)'.pc \in Stages /\ Job(s)'.s = s
    \/ /\ Job(s)'.pc = "idle" /\ Job(s)'.s = NoSession
       /\ Job(s)'.room = 0 /\ Job(s)'.number = 0

LEMMA ServeFacts ==
    ASSUME IInv, NEW s \in Sessions, Job(s).s = s, ServesOnly(s), ServedTypes, GoesOn(s),
           \A t \in Sessions \ {s} : MessagesGrow(t)
    PROVE  /\ Types' /\ AtHome'
           /\ \A t \in Sessions \ {s} : Same(t)
<1>0. Types /\ AtHome
  BY DEF IInv
<1>1. Types'
  BY <1>0 DEF Types, ServesOnly, ServedTypes
<1>2. AtHome'
  <2>1. /\ Job(s)'.pc \in Stages => Job(s)'.s = s
        /\ Job(s)'.pc \notin Stages =>
              Job(s)'.s = NoSession /\ Job(s)'.room = 0 /\ Job(s)'.number = 0
    BY StagesAre DEF GoesOn, StagesKnown
  <2>2. /\ \A w \in Servers \ {Home[s]} : job'[w] = job[w]
        /\ requests' = requests
    BY DEF ServesOnly
  <2> QED
    BY <1>0, <2>1, <2>2 DEF AtHome, Job
<1>3. ASSUME NEW t \in Sessions \ {s} PROVE SameJob(t)
  <2>1. CASE Home[t] = Home[s]
    BY <1>3, <2>1 DEF SameJob, Job, ServesOnly
  <2>2. CASE Home[t] # Home[s]
    BY <2>2 DEF SameJob, Job, ServesOnly
  <2> QED
    BY <2>1, <2>2
<1>4. OnlyOf(s)
  BY <1>3 DEF OnlyOf, ServesOnly
<1>5. \A t \in Sessions \ {s} : Same(t)
  BY <1>0, <1>4, OnlyOfSame
<1> QED
  BY <1>1, <1>2, <1>5

LEMMA ServeKeeps ==
    ASSUME IInv, NEW s \in Sessions, Job(s).s = s, ServesOnly(s), ServedTypes, GoesOn(s),
           messages' = messages, chatRooms' = chatRooms, ClientInv(s)', KeepsRooms(s)
    PROVE  IInv'
<1>1. Types /\ OneOwner /\ \A t \in Sessions : ClientInv(t)
  BY DEF IInv
<1>2. \A t \in Sessions \ {s} : MessagesGrow(t)
  BY <1>1, MessagesUnchanged
<1>3. Types' /\ AtHome' /\ \A t \in Sessions \ {s} : Same(t)
  BY <1>2, ServeFacts
<1>4. OneOwner'
  BY <1>1, <1>3, OwnersUnchanged DEF KeepsRooms
<1>5. \A t \in Sessions : ClientInv(t)'
  BY <1>1, <1>3, SameKeeps
<1> QED
  BY <1>3, <1>4, <1>5 DEF IInv

(* What ClientInv(s) says of a client to whose data nothing happens.       *)
LEMMA ServedFacts ==
    ASSUME IInv, NEW s \in Sessions, ServesOnly(s)
    PROVE  /\ Queue(s)' = Queue(s)
           /\ conn'[s] = conn[s] /\ client'[s] = client[s] /\ room'[s] = room[s]
           /\ created'[s] = created[s] /\ posted'[s] = posted[s] /\ shown'[s] = shown[s]
           /\ failed \subseteq failed' /\ (failed' = failed \/ Home[s] \in failed')
           /\ Local(s) /\ Waits(s) /\ InItsRoom(s) /\ LinesInOrder(s) /\ StoredInOrder(s)
           /\ Numbered(s) /\ HasRecord(s) /\ RecordFollows(s) /\ NoneLost(s)
  BY DEF ServesOnly, Queue, IInv, ClientInv

LEMMA LoadAccountKeeps ==
    ASSUME IInv, NEW v \in Servers, LoadAccount(v)
    PROVE  IInv'
<1>0. Types
  BY DEF IInv
<1>1. job[v].pc = "login"
  BY DEF LoadAccount, At
<1> PICK s \in Sessions : Home[s] = v /\ Job(s) = job[v] /\ Job(s).s = s
  BY <1>1, WorkerOf, StagesAre DEF StagesKnown
<1>2. /\ Job(s) \in AJob /\ record[s] \in ARecord
      /\ \A j \in AJob : [j EXCEPT !.ok = FALSE] \in AJob
  <2>1. Job(s) \in AJob /\ record[s] \in ARecord
    BY <1>0 DEF Types, Job
  <2> QED
    BY <2>1 DEF AJob
<1>3. PICK j \in {Job(s), [Job(s) EXCEPT !.ok = FALSE]}, pc \in {"store_user", "answer_login"} :
         Goto(Home[s], j, pc)
  BY DEF LoadAccount
<1>4. /\ j \in AJob /\ j.s = s /\ j.room = Job(s).room /\ j.number = Job(s).number
      /\ pc \in Stages
  BY <1>2, <1>3, StagesAre DEF AJob, StagesKnown
<1>5. /\ job' \in [Servers -> AJob] /\ \A w \in Servers \ {Home[s]} : job'[w] = job[w]
      /\ Job(s)'.pc \in {"store_user", "answer_login"} /\ Job(s)'.s = s
      /\ Job(s)'.room = Job(s).room /\ Job(s)'.number = Job(s).number
  BY <1>0, <1>3, <1>4, GotoFacts
<1>6. /\ UNCHANGED <<conn, client, room, created, posted, requests, record, chatRooms,
                     messages, inbox, shown>>
      /\ failed' = failed \/ (failed' = failed \cup {Home[s]} /\ Home[s] \in Failing)
  BY DEF LoadAccount, clientVars, dbVars, Success, Failure
<1>7. ServesOnly(s) /\ ServedTypes /\ GoesOn(s)
  <2>1. ServedTypes
    BY <1>0, <1>5, <1>6 DEF Types, ServedTypes
  <2> QED
    BY <1>5, <1>6, <2>1, StagesAre DEF ServesOnly, GoesOn, StagesKnown
<1>8. {"login", "store_user", "answer_login"} \subseteq
      (Stages \cap AskStages \cap LoginStages) \ (CreateStages \cup RecordStages \cup PostStages)
  BY DEF Stages, AskStages, LoginStages, CreateStages, RecordStages, PostStages
<1>9. KeepsRooms(s)
  BY <1>1, <1>5, <1>6, <1>7, <1>8, ServedFacts DEF KeepsRooms, Holds, Works, IsQueued
<1> USE <1>1, <1>5, <1>6, <1>8
<1>10. /\ Queue(s)' = Queue(s)
       /\ conn'[s] = conn[s] /\ client'[s] = client[s] /\ room'[s] = room[s]
       /\ created'[s] = created[s] /\ posted'[s] = posted[s] /\ shown'[s] = shown[s]
       /\ failed \subseteq failed' /\ (failed' = failed \/ Home[s] \in failed')
       /\ Local(s) /\ Waits(s) /\ InItsRoom(s) /\ LinesInOrder(s) /\ StoredInOrder(s)
       /\ Numbered(s) /\ HasRecord(s) /\ RecordFollows(s) /\ NoneLost(s)
  BY <1>7, ServedFacts
<1>a. Local(s)' /\ Waits(s)' /\ InItsRoom(s)'
  BY <1>10 DEF Local, Waits, InItsRoom, Works, NoneQueued, IsQueued, IsPost, Heard
<1>b. LinesInOrder(s)' /\ StoredInOrder(s)' /\ Numbered(s)'
  <2>1. LinesInOrder(s)'
    BY <1>10 DEF LinesInOrder, Works, IsPost, Sending, Heard
  <2>2. StoredInOrder(s)'
    BY <1>10 DEF StoredInOrder, Works, IsPost
  <2>3. Numbered(s)'
    BY <1>10 DEF Numbered, Works, Heard, IsNumberOf
  <2> QED
    BY <2>1, <2>2, <2>3
<1>c. HasRecord(s)' /\ RecordFollows(s)' /\ NoneLost(s)'
  BY <1>10 DEF HasRecord, RecordFollows, NoneLost, Fine, Works, Follows, NoAnswer, Kept,
               Sending, Heard, IsQueued, IsPost
<1>11. ClientInv(s)'
  BY <1>a, <1>b, <1>c DEF ClientInv
<1> QED
  BY <1>7, <1>9, <1>11, ServeKeeps

LEMMA LoadCreatorKeeps ==
    ASSUME IInv, NEW v \in Servers, LoadCreator(v)
    PROVE  IInv'
<1>0. Types
  BY DEF IInv
<1>1. job[v].pc = "create"
  BY DEF LoadCreator, At, LoadUserInfo
<1> PICK s \in Sessions : Home[s] = v /\ Job(s) = job[v] /\ Job(s).s = s
  BY <1>1, WorkerOf, StagesAre DEF StagesKnown
<1>2. Job(s) \in AJob /\ record[s] \in ARecord
  BY <1>0 DEF Types, Job
<1>3. PICK u \in User : Goto(Home[s], [Job(s) EXCEPT !.user = u], "insert_room")
  BY <1>2 DEF LoadCreator, LoadUserInfo, ARecord, User
<1> DEFINE j == [Job(s) EXCEPT !.user = u]
<1>4. /\ Goto(Home[s], j, "insert_room") /\ j \in AJob
      /\ j.s = s
      /\ j.room = Job(s).room
      /\ j.line = Job(s).line
      /\ j.number = Job(s).number /\ j.to = Job(s).to /\ j.ok = Job(s).ok
      /\ "insert_room" \in Stages
  BY <1>2, <1>3, StagesAre DEF AJob, StagesKnown
<1> HIDE DEF j
<1>5. /\ job' \in [Servers -> AJob] /\ \A w \in Servers \ {Home[s]} : job'[w] = job[w]
      /\ Job(s)'.pc = "insert_room" /\ Job(s)'.s = s
      /\ Job(s)'.room = Job(s).room /\ Job(s)'.line = Job(s).line
      /\ Job(s)'.number = Job(s).number /\ Job(s)'.to = Job(s).to
      /\ Job(s)'.ok = Job(s).ok
  BY <1>0, <1>4, GotoFacts
<1>6. /\ UNCHANGED <<conn, client, room, created, posted, requests, record,
                     chatRooms, messages, inbox, shown>>
      /\ failed' = failed \/ (failed' = failed \cup {Home[s]} /\ Home[s] \in Failing)
  BY DEF LoadCreator, clientVars, dbVars, Success, Failure, LoadUserInfo
<1>7. ServesOnly(s) /\ ServedTypes /\ GoesOn(s)
  <2>1. ServedTypes
    BY <1>0, <1>5, <1>6 DEF Types, ServedTypes
  <2> QED
    BY <1>5, <1>6, <2>1, StagesAre DEF ServesOnly, GoesOn, StagesKnown
<1>8. /\ "create" \in (Stages \cap AskStages \cap CreateStages) \ (LoginStages \cup RecordStages \cup PostStages)
      /\ "insert_room" \in (Stages \cap AskStages \cap CreateStages)
               \ (LoginStages \cup RecordStages \cup PostStages)
  BY DEF Stages, AskStages, LoginStages, CreateStages, RecordStages, PostStages
<1>9. KeepsRooms(s)
  BY <1>1, <1>5, <1>6, <1>7, <1>8, ServedFacts DEF KeepsRooms, Holds, Works, IsQueued
<1>10. /\ Queue(s)' = Queue(s)
       /\ conn'[s] = conn[s] /\ client'[s] = client[s] /\ room'[s] = room[s]
       /\ created'[s] = created[s] /\ posted'[s] = posted[s] /\ shown'[s] = shown[s]
       /\ failed \subseteq failed' /\ (failed' = failed \/ Home[s] \in failed')
       /\ Local(s) /\ Waits(s) /\ InItsRoom(s) /\ LinesInOrder(s) /\ StoredInOrder(s)
       /\ Numbered(s) /\ HasRecord(s) /\ RecordFollows(s) /\ NoneLost(s)
  BY <1>7, ServedFacts
<1> USE <1>1, <1>5, <1>6, <1>8
<1>a. Local(s)' /\ Waits(s)' /\ InItsRoom(s)'
  BY <1>10 DEF Local, Waits, InItsRoom, Works, NoneQueued, IsQueued, IsPost, Heard
<1>b. LinesInOrder(s)' /\ StoredInOrder(s)' /\ Numbered(s)'
  <2>1. LinesInOrder(s)'
    BY <1>10 DEF LinesInOrder, Works, IsPost, Sending, Heard
  <2>2. StoredInOrder(s)'
    BY <1>10 DEF StoredInOrder, Works, IsPost
  <2>3. Numbered(s)'
    BY <1>10 DEF Numbered, Works, Heard, IsNumberOf
  <2> QED
    BY <2>1, <2>2, <2>3
<1>c. HasRecord(s)' /\ RecordFollows(s)' /\ NoneLost(s)'
  BY <1>10 DEF HasRecord, RecordFollows, NoneLost, Fine, Works, Follows, NoAnswer, Kept,
               Sending, Heard, IsQueued, IsPost
<1>11. ClientInv(s)'
  BY <1>a, <1>b, <1>c DEF ClientInv
<1> QED
  BY <1>6, <1>7, <1>9, <1>11, ServeKeeps

LEMMA LoadPosterKeeps ==
    ASSUME IInv, NEW v \in Servers, LoadPoster(v)
    PROVE  IInv'
<1>0. Types
  BY DEF IInv
<1>1. job[v].pc = "post"
  BY DEF LoadPoster, At, LoadUserInfo
<1> PICK s \in Sessions : Home[s] = v /\ Job(s) = job[v] /\ Job(s).s = s
  BY <1>1, WorkerOf, StagesAre DEF StagesKnown
<1>2. Job(s) \in AJob /\ record[s] \in ARecord
  BY <1>0 DEF Types, Job
<1>3. PICK u \in User : Goto(Home[s], [Job(s) EXCEPT !.user = u], "insert_message")
  BY <1>2 DEF LoadPoster, LoadUserInfo, ARecord, User
<1> DEFINE j == [Job(s) EXCEPT !.user = u]
<1>4. /\ Goto(Home[s], j, "insert_message") /\ j \in AJob
      /\ j.s = s
      /\ j.room = Job(s).room
      /\ j.line = Job(s).line
      /\ j.number = Job(s).number /\ j.to = Job(s).to
      /\ "insert_message" \in Stages
  BY <1>2, <1>3, StagesAre DEF AJob, StagesKnown
<1> HIDE DEF j
<1>5. /\ job' \in [Servers -> AJob] /\ \A w \in Servers \ {Home[s]} : job'[w] = job[w]
      /\ Job(s)'.pc = "insert_message" /\ Job(s)'.s = s
      /\ Job(s)'.room = Job(s).room /\ Job(s)'.line = Job(s).line
      /\ Job(s)'.number = Job(s).number /\ Job(s)'.to = Job(s).to
  BY <1>0, <1>4, GotoFacts
<1>6. /\ UNCHANGED <<conn, client, room, created, posted, requests, record,
                     chatRooms, messages, inbox, shown>>
      /\ failed' = failed \/ (failed' = failed \cup {Home[s]} /\ Home[s] \in Failing)
  BY DEF LoadPoster, clientVars, dbVars, Success, Failure, LoadUserInfo
<1>7. ServesOnly(s) /\ ServedTypes /\ GoesOn(s)
  <2>1. ServedTypes
    BY <1>0, <1>5, <1>6 DEF Types, ServedTypes
  <2> QED
    BY <1>5, <1>6, <2>1, StagesAre DEF ServesOnly, GoesOn, StagesKnown
<1>8. /\ "post" \in (Stages \cap PostStages) \ (AskStages \cup LoginStages \cup CreateStages \cup RecordStages)
      /\ "insert_message" \in (Stages \cap PostStages)
               \ (AskStages \cup LoginStages \cup CreateStages \cup RecordStages)
  BY DEF Stages, AskStages, LoginStages, CreateStages, RecordStages, PostStages
<1>9. KeepsRooms(s)
  BY <1>1, <1>5, <1>6, <1>7, <1>8, ServedFacts DEF KeepsRooms, Holds, Works, IsQueued
<1>10. /\ Queue(s)' = Queue(s)
       /\ conn'[s] = conn[s] /\ client'[s] = client[s] /\ room'[s] = room[s]
       /\ created'[s] = created[s] /\ posted'[s] = posted[s] /\ shown'[s] = shown[s]
       /\ failed \subseteq failed' /\ (failed' = failed \/ Home[s] \in failed')
       /\ Local(s) /\ Waits(s) /\ InItsRoom(s) /\ LinesInOrder(s) /\ StoredInOrder(s)
       /\ Numbered(s) /\ HasRecord(s) /\ RecordFollows(s) /\ NoneLost(s)
  BY <1>7, ServedFacts
<1> USE <1>1, <1>5, <1>6, <1>8
<1>a. Local(s)' /\ Waits(s)' /\ InItsRoom(s)'
  BY <1>10 DEF Local, Waits, InItsRoom, Works, NoneQueued, IsQueued, IsPost, Heard
<1>b. LinesInOrder(s)' /\ StoredInOrder(s)' /\ Numbered(s)'
  <2>1. LinesInOrder(s)'
    BY <1>10 DEF LinesInOrder, Works, IsPost, Sending, Heard
  <2>2. StoredInOrder(s)'
    BY <1>10 DEF StoredInOrder, Works, IsPost
  <2>3. Numbered(s)'
    BY <1>10 DEF Numbered, Works, Heard, IsNumberOf
  <2> QED
    BY <2>1, <2>2, <2>3
<1>c. HasRecord(s)' /\ RecordFollows(s)' /\ NoneLost(s)'
  BY <1>10 DEF HasRecord, RecordFollows, NoneLost, Fine, Works, Follows, NoAnswer, Kept,
               Sending, Heard, IsQueued, IsPost
<1>11. ClientInv(s)'
  BY <1>a, <1>b, <1>c DEF ClientInv
<1> QED
  BY <1>6, <1>7, <1>9, <1>11, ServeKeeps

LEMMA GetRecordKeeps ==
    ASSUME IInv, NEW v \in Servers, GetRecord(v)
    PROVE  IInv'
<1>0. Types
  BY DEF IInv
<1>1. job[v].pc = "get_record"
  BY DEF GetRecord, At
<1> PICK s \in Sessions : Home[s] = v /\ Job(s) = job[v] /\ Job(s).s = s
  BY <1>1, WorkerOf, StagesAre DEF StagesKnown
<1>2. Job(s) \in AJob /\ record[s] \in ARecord
  BY <1>0 DEF Types, Job
<1>3. PICK r \in {NoRecord, record[s]} :
         /\ Goto(Home[s], [Job(s) EXCEPT !.rec = r], "set_record")
         /\ r = record[s] \/ record[s] = None \/ Home[s] \in failed'
  BY DEF GetRecord, Failure
<1> DEFINE j == [Job(s) EXCEPT !.rec = r]
<1>4. /\ Goto(Home[s], j, "set_record")
      /\ r \in ARecord /\ j \in AJob
      /\ j.s = s
      /\ j.room = Job(s).room
      /\ j.number = Job(s).number
      /\ j.rec = r
      /\ "set_record" \in Stages
  <2>1. r \in ARecord
    BY <1>2, <1>3 DEF NoRecord, Record, ARecord, Someone, User
  <2> QED
    BY <1>2, <1>3, <2>1, StagesAre DEF AJob, StagesKnown
<1> HIDE DEF j
<1>5. /\ job' \in [Servers -> AJob] /\ \A w \in Servers \ {Home[s]} : job'[w] = job[w]
      /\ Job(s)'.pc = "set_record" /\ Job(s)'.s = s
      /\ Job(s)'.room = Job(s).room /\ Job(s)'.number = Job(s).number /\ Job(s)'.rec = r
  BY <1>0, <1>4, GotoFacts
<1>6. /\ UNCHANGED <<conn, client, room, created, posted, requests, record,
                     chatRooms, messages, inbox, shown>>
      /\ failed' = failed \/ (failed' = failed \cup {Home[s]} /\ Home[s] \in Failing)
  BY DEF GetRecord, clientVars, dbVars, Success, Failure
<1>7. ServesOnly(s) /\ ServedTypes /\ GoesOn(s)
  <2>1. ServedTypes
    BY <1>0, <1>5, <1>6 DEF Types, ServedTypes
  <2> QED
    BY <1>5, <1>6, <2>1, StagesAre DEF ServesOnly, GoesOn, StagesKnown
<1>8. /\ "get_record" \in (Stages \cap RecordStages) \ (AskStages \cup LoginStages \cup CreateStages \cup PostStages)
      /\ "set_record" \in (Stages \cap RecordStages)
               \ (AskStages \cup LoginStages \cup CreateStages \cup PostStages)
  BY DEF Stages, AskStages, LoginStages, CreateStages, RecordStages, PostStages
<1>9. KeepsRooms(s)
  BY <1>1, <1>5, <1>6, <1>7, <1>8, ServedFacts DEF KeepsRooms, Holds, Works, IsQueued
<1>10. /\ Queue(s)' = Queue(s)
       /\ conn'[s] = conn[s] /\ client'[s] = client[s] /\ room'[s] = room[s]
       /\ created'[s] = created[s] /\ posted'[s] = posted[s] /\ shown'[s] = shown[s]
       /\ failed \subseteq failed' /\ (failed' = failed \/ Home[s] \in failed')
       /\ Local(s) /\ Waits(s) /\ InItsRoom(s) /\ LinesInOrder(s) /\ StoredInOrder(s)
       /\ Numbered(s) /\ HasRecord(s) /\ RecordFollows(s) /\ NoneLost(s)
  BY <1>7, ServedFacts
<1>12. /\ r.session \in {s, NoSession}
       /\ record[s].session = s => r.session = s \/ Home[s] \in failed'
  BY <1>3, <1>10 DEF Local, NoRecord, Record, None
<1> USE <1>1, <1>5, <1>6, <1>8, <1>12
<1>a. Local(s)' /\ Waits(s)' /\ InItsRoom(s)'
  BY <1>10 DEF Local, Waits, InItsRoom, Works, NoneQueued, IsQueued, IsPost, Heard
<1>b. LinesInOrder(s)' /\ StoredInOrder(s)' /\ Numbered(s)'
  <2>1. LinesInOrder(s)'
    BY <1>10 DEF LinesInOrder, Works, IsPost, Sending, Heard
  <2>2. StoredInOrder(s)'
    BY <1>10 DEF StoredInOrder, Works, IsPost
  <2>3. Numbered(s)'
    BY <1>10 DEF Numbered, Works, Heard, IsNumberOf
  <2> QED
    BY <2>1, <2>2, <2>3
<1>c. HasRecord(s)' /\ RecordFollows(s)' /\ NoneLost(s)'
  BY <1>10 DEF HasRecord, RecordFollows, NoneLost, Fine, Works, Follows, NoAnswer, Kept,
               Sending, Heard, IsQueued, IsPost
<1>11. ClientInv(s)'
  BY <1>a, <1>b, <1>c DEF ClientInv
<1> QED
  BY <1>6, <1>7, <1>9, <1>11, ServeKeeps

(* Nothing with the id of the job's room is another client's.              *)
LEMMA RoomIsMine ==
    ASSUME IInv, NEW s \in Sessions, Works(s, Stages), Job(s).room >= 1
    PROVE  /\ \A t \in Sessions : record[t].room = Job(s).room => t = s
           /\ \A n \in DOMAIN messages :
                 messages[n].room = Job(s).room => messages[n].line.by = s
<1>1. PICK o \in [DOMAIN chatRooms -> Sessions] : Owned(o)
  BY DEF IInv, OneOwner
<1>2. Job(s).room \in Int /\ \A t \in Sessions : record[t].room \in Int
  BY DEF IInv, Types, Job, AJob, ARecord
<1>3. o[Job(s).room] = s
  BY <1>1, <1>2 DEF Owned, Holds, Mine
<1>4. ASSUME NEW t \in Sessions, record[t].room = Job(s).room PROVE t = s
  BY <1>1, <1>2, <1>3, <1>4 DEF Owned, Holds, Mine
<1>5. ASSUME NEW n \in DOMAIN messages, messages[n].room = Job(s).room
      PROVE  messages[n].line.by = s
  BY <1>1, <1>2, <1>3, <1>5 DEF Owned, HoldsMessages, Mine
<1> QED
  BY <1>4, <1>5

LEMMA RetrieveUsersFromCIDKeeps ==
    ASSUME IInv, NEW v \in Servers, RetrieveUsersFromCID(v)
    PROVE  IInv'
<1>0. Types
  BY DEF IInv
<1>1. job[v].pc = "retrieve"
  BY DEF RetrieveUsersFromCID, At
<1> PICK s \in Sessions : Home[s] = v /\ Job(s) = job[v] /\ Job(s).s = s
  BY <1>1, WorkerOf, StagesAre DEF StagesKnown
<1>2. Job(s) \in AJob /\ record[s] \in ARecord
  BY <1>0 DEF Types, Job
<1>3. PICK m \in {Job(s).to, Members(Job(s).room)} :
         /\ Goto(Home[s], [Job(s) EXCEPT !.to = m], "broadcast")
         /\ m = Members(Job(s).room) \/ Home[s] \in failed'
  <2>1. Job(s) = [Job(s) EXCEPT !.to = Job(s).to]
    BY <1>2 DEF AJob
  <2> QED
    BY <2>1 DEF RetrieveUsersFromCID, Failure
<1> DEFINE j == [Job(s) EXCEPT !.to = m]
<1>4. /\ Goto(Home[s], j, "broadcast")
      /\ j \in AJob /\ j.s = s /\ j.room = Job(s).room /\ j.line = Job(s).line
      /\ j.number = Job(s).number /\ j.to = m /\ "broadcast" \in Stages
  <2>1. Members(Job(s).room) \subseteq Someone
    BY <1>0 DEF Types, Members, ARecord
  <2> QED
    BY <1>2, <1>3, <2>1, StagesAre DEF AJob, StagesKnown
<1> HIDE DEF j
<1>5. /\ job' \in [Servers -> AJob] /\ \A w \in Servers \ {Home[s]} : job'[w] = job[w]
      /\ Job(s)'.pc = "broadcast" /\ Job(s)'.s = s /\ Job(s)'.to = m
      /\ Job(s)'.room = Job(s).room /\ Job(s)'.line = Job(s).line
      /\ Job(s)'.number = Job(s).number
  BY <1>0, <1>4, GotoFacts
<1>6. /\ UNCHANGED <<conn, client, room, created, posted, requests, record,
                     chatRooms, messages, inbox, shown>>
      /\ failed' = failed \/ (failed' = failed \cup {Home[s]} /\ Home[s] \in Failing)
  BY DEF RetrieveUsersFromCID, clientVars, dbVars, Success, Failure
<1>7. ServesOnly(s) /\ ServedTypes /\ GoesOn(s)
  <2>1. ServedTypes
    BY <1>0, <1>5, <1>6 DEF Types, ServedTypes
  <2> QED
    BY <1>5, <1>6, <2>1, StagesAre DEF ServesOnly, GoesOn, StagesKnown
<1>8. /\ "retrieve" \in (Stages \cap PostStages) \ (AskStages \cup LoginStages \cup CreateStages \cup RecordStages)
      /\ "broadcast" \in (Stages \cap PostStages)
               \ (AskStages \cup LoginStages \cup CreateStages \cup RecordStages)
  BY DEF Stages, AskStages, LoginStages, CreateStages, RecordStages, PostStages
<1>9. KeepsRooms(s)
  BY <1>1, <1>5, <1>6, <1>7, <1>8, ServedFacts DEF KeepsRooms, Holds, Works, IsQueued
<1>10. /\ Queue(s)' = Queue(s)
       /\ conn'[s] = conn[s] /\ client'[s] = client[s] /\ room'[s] = room[s]
       /\ created'[s] = created[s] /\ posted'[s] = posted[s] /\ shown'[s] = shown[s]
       /\ failed \subseteq failed' /\ (failed' = failed \/ Home[s] \in failed')
       /\ Local(s) /\ Waits(s) /\ InItsRoom(s) /\ LinesInOrder(s) /\ StoredInOrder(s)
       /\ Numbered(s) /\ HasRecord(s) /\ RecordFollows(s) /\ NoneLost(s)
  BY <1>7, ServedFacts
<1>12. m \subseteq {s, NoSession} /\ (s \in m \/ ~Fine(s)')
  <2>1. Works(s, Stages) /\ Works(s, PostStages) /\ Job(s).room >= 1 /\ Job(s).room = room[s]
    BY <1>1, <1>8, <1>10 DEF Works, Local, InItsRoom
  <2>2. \A t \in Sessions : record[t].room = Job(s).room => t = s
    BY <2>1, RoomIsMine
  <2>3. record[s].room = Job(s).room => record[s].session \in {s, NoSession}
    BY <1>10, <2>1 DEF Local, None
  <2>4. Members(Job(s).room) \subseteq {s, NoSession}
    BY <2>2, <2>3 DEF Members
  <2>5. ASSUME Fine(s)' PROVE s \in Members(Job(s).room)
    <3>1. NoAnswer(s) /\ Fine(s)
      BY <1>1, <1>8, <1>10, <2>1, <2>5 DEF Waits, Works, Heard, NoAnswer, Fine
    <3>2. record[s].session = s /\ record[s].room = Job(s).room
      BY <1>1, <1>8, <1>10, <2>1, <3>1 DEF RecordFollows, Follows, Works
    <3> QED
      BY <3>2 DEF Members
  <2>6. Fine(s)' => Home[s] \notin failed'
    BY DEF Fine
  <2>7. Job(s).to \subseteq {s, NoSession}
    BY <1>10, <2>1 DEF Local
  <2> QED
    BY <1>3, <2>4, <2>5, <2>6, <2>7
<1> USE <1>1, <1>5, <1>6, <1>8, <1>12
<1>a. Local(s)' /\ Waits(s)' /\ InItsRoom(s)'
  BY <1>10 DEF Local, Waits, InItsRoom, Works, NoneQueued, IsQueued, IsPost, Heard
<1>b. LinesInOrder(s)' /\ StoredInOrder(s)' /\ Numbered(s)'
  <2>1. LinesInOrder(s)'
    BY <1>10 DEF LinesInOrder, Works, IsPost, Sending, Heard
  <2>2. StoredInOrder(s)'
    BY <1>10 DEF StoredInOrder, Works, IsPost
  <2>3. Numbered(s)'
    BY <1>10 DEF Numbered, Works, Heard, IsNumberOf
  <2> QED
    BY <2>1, <2>2, <2>3
<1>c. HasRecord(s)' /\ RecordFollows(s)' /\ NoneLost(s)'
  BY <1>10 DEF HasRecord, RecordFollows, NoneLost, Fine, Works, Follows, NoAnswer, Kept,
               Sending, Heard, IsQueued, IsPost
<1>11. ClientInv(s)'
  BY <1>a, <1>b, <1>c DEF ClientInv
<1> QED
  BY <1>6, <1>7, <1>9, <1>11, ServeKeeps

(* The greatest number of the job's room is that of the job's own line:    *)
(* only this client posts to the room, and it has posted nothing since.    *)
LEMMA LastNumberIsOwn ==
    ASSUME IInv, NEW s \in Sessions, Works(s, {"select_number"})
    PROVE  /\ LastNumber(Job(s).room) \in DOMAIN messages
           /\ IsNumberOf(LastNumber(Job(s).room), Job(s).room, Job(s).line)
<1>0. Types /\ Local(s) /\ StoredInOrder(s) /\ Numbered(s)
  BY DEF IInv, ClientInv
<1>1. Works(s, Stages) /\ Works(s, PostStages)
  BY DEF Works, Stages, PostStages
<1>2. Job(s).room >= 1 /\ Job(s).line.by = s /\ Job(s).line.k \in Nat
  BY <1>0, <1>1, LineTypes DEF Local
<1>3. PICK n \in DOMAIN messages :
         messages[n].line = Job(s).line /\ messages[n].room = Job(s).room
  BY <1>0 DEF Numbered
<1> DEFINE numbers == {i \in DOMAIN messages : messages[i].room = Job(s).room}
<1>4. ASSUME NEW m \in numbers PROVE m <= n
  <2>1. messages[m].line.by = s /\ messages[n].line.by = s
    BY <1>1, <1>2, <1>3, RoomIsMine
  <2>2. messages[m].line.k <= Job(s).line.k /\ messages[m].line.k \in Nat
    BY <1>0, <1>1, <2>1, LineTypes DEF StoredInOrder
  <2>3. n < m => messages[n].line.k < messages[m].line.k
    BY <1>0, <2>1 DEF StoredInOrder
  <2>4. m \in Nat /\ n \in Nat
    BY <1>0 DEF Types
  <2> QED
    BY <1>2, <1>3, <2>2, <2>3, <2>4
<1>5. numbers \subseteq Nat /\ n \in numbers
  BY <1>0, <1>3 DEF Types
<1>6. LastNumber(Job(s).room) = n
  <2>1. LastNumber(Job(s).room) = CHOOSE i \in numbers : \A m \in numbers : m <= i
    BY DEF LastNumber
  <2>2. \A i \in numbers : (\A m \in numbers : m <= i) => i = n
    BY <1>4, <1>5
  <2> HIDE DEF numbers
  <2> QED
    BY <1>4, <1>5, <2>1, <2>2
<1> QED
  BY <1>3, <1>6 DEF IsNumberOf

LEMMA SelectNumberKeeps ==
    ASSUME IInv, NEW v \in Servers, SelectNumber(v)
    PROVE  IInv'
<1>0. Types
  BY DEF IInv
<1>1. job[v].pc = "select_number"
  BY DEF SelectNumber, At
<1> PICK s \in Sessions : Home[s] = v /\ Job(s) = job[v] /\ Job(s).s = s
  BY <1>1, WorkerOf, StagesAre DEF StagesKnown
<1>2. Job(s) \in AJob /\ record[s] \in ARecord
  BY <1>0 DEF Types, Job
<1>3. PICK n \in {-1, LastNumber(Job(s).room)}, ok \in {Job(s).ok, FALSE} :
         Goto(Home[s], [Job(s) EXCEPT !.number = n, !.ok = ok], "retrieve")
  <2>1. [Job(s) EXCEPT !.number = LastNumber(Job(s).room)] =
        [Job(s) EXCEPT !.number = LastNumber(Job(s).room), !.ok = Job(s).ok]
    BY <1>2 DEF AJob
  <2> QED
    BY <2>1 DEF SelectNumber, NotStored
<1>12. IsNumberOf(n, Job(s).room, Job(s).line) /\ n \in -1 .. Len(messages)
  <2>1. LastNumber(Job(s).room) \in 1 .. Len(messages)
    BY <1>0, <1>1, LastNumberIsOwn DEF Types, Works
  <2> QED
    BY <1>1, <1>3, <2>1, LastNumberIsOwn DEF IsNumberOf, Works
<1> DEFINE j == [Job(s) EXCEPT !.number = n, !.ok = ok]
<1>4. /\ Goto(Home[s], j, "retrieve")
      /\ j \in AJob /\ j.s = s /\ j.room = Job(s).room /\ j.line = Job(s).line
      /\ j.number = n /\ j.to = Job(s).to /\ "retrieve" \in Stages
  <2>1. Len(messages) \in Nat
    BY <1>0 DEF Types
  <2>2. n \in Int
    BY <1>12, <2>1
  <2>3. ok \in BOOLEAN
    BY <1>2 DEF AJob
  <2> QED
    BY <1>2, <1>3, <2>2, <2>3, StagesAre DEF AJob, StagesKnown
<1> HIDE DEF j
<1>5. /\ job' \in [Servers -> AJob] /\ \A w \in Servers \ {Home[s]} : job'[w] = job[w]
      /\ Job(s)'.pc = "retrieve" /\ Job(s)'.s = s /\ Job(s)'.to = Job(s).to
      /\ Job(s)'.room = Job(s).room /\ Job(s)'.line = Job(s).line
      /\ Job(s)'.number = n
  BY <1>0, <1>4, GotoFacts
<1>6. /\ UNCHANGED <<conn, client, room, created, posted, requests, record,
                     chatRooms, messages, inbox, shown>>
      /\ failed' = failed \/ (failed' = failed \cup {Home[s]} /\ Home[s] \in Failing)
  BY DEF SelectNumber, clientVars, dbVars, Success, Failure
<1>7. ServesOnly(s) /\ ServedTypes /\ GoesOn(s)
  <2>1. ServedTypes
    BY <1>0, <1>5, <1>6 DEF Types, ServedTypes
  <2> QED
    BY <1>5, <1>6, <2>1, StagesAre DEF ServesOnly, GoesOn, StagesKnown
<1>8. /\ "select_number" \in (Stages \cap PostStages) \ (AskStages \cup LoginStages \cup CreateStages \cup RecordStages)
      /\ "retrieve" \in (Stages \cap PostStages)
               \ (AskStages \cup LoginStages \cup CreateStages \cup RecordStages)
  BY DEF Stages, AskStages, LoginStages, CreateStages, RecordStages, PostStages
<1>9. KeepsRooms(s)
  BY <1>1, <1>5, <1>6, <1>7, <1>8, ServedFacts DEF KeepsRooms, Holds, Works, IsQueued
<1>10. /\ Queue(s)' = Queue(s)
       /\ conn'[s] = conn[s] /\ client'[s] = client[s] /\ room'[s] = room[s]
       /\ created'[s] = created[s] /\ posted'[s] = posted[s] /\ shown'[s] = shown[s]
       /\ failed \subseteq failed' /\ (failed' = failed \/ Home[s] \in failed')
       /\ Local(s) /\ Waits(s) /\ InItsRoom(s) /\ LinesInOrder(s) /\ StoredInOrder(s)
       /\ Numbered(s) /\ HasRecord(s) /\ RecordFollows(s) /\ NoneLost(s)
  BY <1>7, ServedFacts
<1> USE <1>1, <1>5, <1>6, <1>8, <1>12
<1>a. Local(s)' /\ Waits(s)' /\ InItsRoom(s)'
  BY <1>10 DEF Local, Waits, InItsRoom, Works, NoneQueued, IsQueued, IsPost, Heard
<1>b. LinesInOrder(s)' /\ StoredInOrder(s)' /\ Numbered(s)'
  <2>1. LinesInOrder(s)'
    BY <1>10 DEF LinesInOrder, Works, IsPost, Sending, Heard
  <2>2. StoredInOrder(s)'
    BY <1>10 DEF StoredInOrder, Works, IsPost
  <2>3. Numbered(s)'
    BY <1>10 DEF Numbered, Works, Heard, IsNumberOf
  <2> QED
    BY <2>1, <2>2, <2>3
<1>c. HasRecord(s)' /\ RecordFollows(s)' /\ NoneLost(s)'
  BY <1>10 DEF HasRecord, RecordFollows, NoneLost, Fine, Works, Follows, NoAnswer, Kept,
               Sending, Heard, IsQueued, IsPost
<1>11. ClientInv(s)'
  BY <1>a, <1>b, <1>c DEF ClientInv
<1> QED
  BY <1>6, <1>7, <1>9, <1>11, ServeKeeps

LEMMA StoreUserInfoKeeps ==
    ASSUME IInv, NEW v \in Servers, StoreUserInfo(v)
    PROVE  IInv'
<1>0. Types
  BY DEF IInv
<1>1. job[v].pc = "store_user"
  BY DEF StoreUserInfo, At
<1> PICK s \in Sessions : Home[s] = v /\ Job(s) = job[v] /\ Job(s).s = s
  BY <1>1, WorkerOf, StagesAre DEF StagesKnown
<1>2. Job(s) \in AJob /\ record[s] \in ARecord
  BY <1>0 DEF Types, Job
<1>3. PICK pc \in {"compare", "remove_user"} : Goto(Home[s], Job(s), pc)
  BY DEF StoreUserInfo
<1>4. Job(s).user \in User /\ pc \in Stages
  BY <1>2, StagesAre DEF AJob, StagesKnown
<1>5. /\ job' \in [Servers -> AJob] /\ \A w \in Servers \ {Home[s]} : job'[w] = job[w]
      /\ Job(s)'.pc \in {"compare", "remove_user"}
      /\ Job(s)'.s = s /\ Job(s)'.room = Job(s).room /\ Job(s)'.number = Job(s).number
  BY <1>0, <1>2, <1>3, <1>4, GotoFacts
<1>6. /\ UNCHANGED <<conn, client, room, created, posted, requests, chatRooms,
                     messages, inbox, shown>>
      /\ failed' = failed \/ (failed' = failed \cup {Home[s]} /\ Home[s] \in Failing)
      /\ \A t \in Sessions \ {s} : record'[t] = record[t]
      /\ record' \in [Sessions -> ARecord]
      /\ \/ Job(s)'.pc = "compare" /\ record'[s] = Record(s, Job(s).user, 0)
         \/ Job(s)'.pc = "remove_user" /\ record'[s] = record[s] /\ Home[s] \in failed'
  <2>1. Record(s, Job(s).user, 0) \in ARecord
    BY <1>4 DEF Record, ARecord, Someone
  <2>2. \/ Goto(Home[s], Job(s), "compare") /\ record' = [record EXCEPT ![s] = Record(s, Job(s).user, 0)]
        \/ Goto(Home[s], Job(s), "remove_user") /\ record' = record /\ Home[s] \in failed'
    BY DEF StoreUserInfo, Failure
  <2>3. Goto(Home[s], Job(s), "compare") => Job(s)'.pc = "compare"
    BY <1>0, <1>2, StagesAre, GotoFacts DEF StagesKnown
  <2>4. Goto(Home[s], Job(s), "remove_user") => Job(s)'.pc = "remove_user"
    BY <1>0, <1>2, StagesAre, GotoFacts DEF StagesKnown
  <2>5. UNCHANGED <<conn, client, room, created, posted, requests, chatRooms, messages,
                    inbox, shown>>
    BY DEF StoreUserInfo, clientVars
  <2>6. failed' = failed \/ (failed' = failed \cup {Home[s]} /\ Home[s] \in Failing)
    BY DEF StoreUserInfo, Success, Failure
  <2>7. /\ \A t \in Sessions \ {s} : record'[t] = record[t]
        /\ record' \in [Sessions -> ARecord]
        /\ \/ Goto(Home[s], Job(s), "compare") /\ record'[s] = Record(s, Job(s).user, 0)
           \/ Goto(Home[s], Job(s), "remove_user") /\ record'[s] = record[s] /\ Home[s] \in failed'
    <3>1. record \in [Sessions -> ARecord]
      BY <1>0 DEF Types
    <3> QED
      BY <2>1, <2>2, <3>1
  <2> QED
    BY <2>3, <2>4, <2>5, <2>6, <2>7
<1>7. ServesOnly(s) /\ ServedTypes /\ GoesOn(s)
  <2>1. ServedTypes
    BY <1>0, <1>5, <1>6 DEF Types, ServedTypes
  <2> QED
    BY <1>5, <1>6, <2>1, StagesAre DEF ServesOnly, GoesOn, StagesKnown
<1>8. /\ "store_user" \in (Stages \cap AskStages \cap LoginStages) \ (CreateStages \cup RecordStages \cup PostStages)
      /\ "compare" \in (Stages \cap AskStages \cap LoginStages)
               \ (CreateStages \cup RecordStages \cup PostStages)
      /\ "remove_user" \in (Stages \cap AskStages \cap LoginStages)
               \ (CreateStages \cup RecordStages \cup PostStages)
  BY DEF Stages, AskStages, LoginStages, CreateStages, RecordStages, PostStages
<1>9. KeepsRooms(s)
  BY <1>1, <1>5, <1>6, <1>7, <1>8, ServedFacts DEF KeepsRooms, Holds, Works, IsQueued, Mine, Record
<1>10. /\ Queue(s)' = Queue(s)
       /\ conn'[s] = conn[s] /\ client'[s] = client[s] /\ room'[s] = room[s]
       /\ created'[s] = created[s] /\ posted'[s] = posted[s] /\ shown'[s] = shown[s]
       /\ failed \subseteq failed' /\ (failed' = failed \/ Home[s] \in failed')
       /\ Local(s) /\ Waits(s) /\ InItsRoom(s) /\ LinesInOrder(s) /\ StoredInOrder(s)
       /\ Numbered(s) /\ HasRecord(s) /\ RecordFollows(s) /\ NoneLost(s)
  BY <1>7, ServedFacts
<1>12. Record(s, Job(s).user, 0).session = s /\ Record(s, Job(s).user, 0).room = 0
  BY DEF Record
<1>13. /\ room[s] = 0 /\ \A i \in DOMAIN inbox[s] : inbox[s][i].kind # "create"
       /\ ~Works(s, RecordStages)'
  BY <1>1, <1>5, <1>8, <1>10 DEF InItsRoom, Waits, Works, Heard
<1> USE <1>1, <1>5, <1>6, <1>8, <1>12
<1>a. Local(s)' /\ Waits(s)' /\ InItsRoom(s)'
  <2>1. Local(s)'
    BY <1>10 DEF Local, Works, IsQueued, IsPost, Heard
  <2>2. Waits(s)'
    BY <1>10 DEF Waits, Works, NoneQueued, IsQueued, IsPost, Heard
  <2>3. InItsRoom(s)'
    BY <1>10 DEF InItsRoom, Works, IsQueued, IsPost, Heard
  <2> QED
    BY <2>1, <2>2, <2>3
<1>b. LinesInOrder(s)' /\ StoredInOrder(s)' /\ Numbered(s)'
  <2>1. LinesInOrder(s)'
    BY <1>10 DEF LinesInOrder, Works, IsPost, Sending, Heard
  <2>2. StoredInOrder(s)'
    BY <1>10 DEF StoredInOrder, Works, IsPost
  <2>3. Numbered(s)'
    BY <1>10 DEF Numbered, Works, Heard, IsNumberOf
  <2> QED
    BY <2>1, <2>2, <2>3
<1>c. HasRecord(s)' /\ RecordFollows(s)' /\ NoneLost(s)'
  <2>1. HasRecord(s)'
    BY <1>10 DEF HasRecord, Fine, Works, IsQueued
  <2>2. RecordFollows(s)'
    BY <1>10, <1>13 DEF RecordFollows, Fine, Works, Follows, NoAnswer
  <2>3. NoneLost(s)'
    BY <1>10 DEF NoneLost, Fine, Kept, Sending, Works, Heard, IsPost
  <2> QED
    BY <2>1, <2>2, <2>3
<1>11. ClientInv(s)'
  BY <1>a, <1>b, <1>c DEF ClientInv
<1> QED
  BY <1>6, <1>7, <1>9, <1>11, ServeKeeps

LEMMA RemoveUserInfoKeeps ==
    ASSUME IInv, NEW v \in Servers, RemoveUserInfo(v)
    PROVE  IInv'
<1>0. Types
  BY DEF IInv
<1>1. job[v].pc = "remove_user"
  BY DEF RemoveUserInfo, At
<1> PICK s \in Sessions : Home[s] = v /\ Job(s) = job[v] /\ Job(s).s = s
  BY <1>1, WorkerOf, StagesAre DEF StagesKnown
<1>2. Job(s) \in AJob /\ record[s] \in ARecord
  BY <1>0 DEF Types, Job
<1>3. Goto(Home[s], Job(s), "compare") /\ "compare" \in Stages
  BY StagesAre DEF RemoveUserInfo, StagesKnown
<1>5. /\ job' \in [Servers -> AJob] /\ \A w \in Servers \ {Home[s]} : job'[w] = job[w]
      /\ Job(s)'.pc = "compare"
      /\ Job(s)'.s = s /\ Job(s)'.room = Job(s).room /\ Job(s)'.number = Job(s).number
  BY <1>0, <1>2, <1>3, GotoFacts
<1>6. /\ UNCHANGED <<conn, client, room, created, posted, requests, chatRooms,
                     messages, inbox, shown>>
      /\ failed' = failed \/ (failed' = failed \cup {Home[s]} /\ Home[s] \in Failing)
      /\ \A t \in Sessions \ {s} : record'[t] = record[t]
      /\ record' \in [Sessions -> ARecord]
      /\ record'[s] = None
  <2>1. None \in ARecord
    BY DEF None, ARecord, Someone, User
  <2>2. record' = [record EXCEPT ![s] = None]
    BY DEF RemoveUserInfo
  <2> QED
    BY <1>0, <2>1, <2>2 DEF RemoveUserInfo, clientVars, Types
<1>7. ServesOnly(s) /\ ServedTypes /\ GoesOn(s)
  <2>1. ServedTypes
    BY <1>0, <1>5, <1>6 DEF Types, ServedTypes
  <2> QED
    BY <1>5, <1>6, <2>1, StagesAre DEF ServesOnly, GoesOn, StagesKnown
<1>8. /\ "remove_user" \in (Stages \cap AskStages \cap LoginStages) \ (CreateStages \cup RecordStages \cup PostStages)
      /\ "compare" \in (Stages \cap AskStages \cap LoginStages)
               \ (CreateStages \cup RecordStages \cup PostStages)
  BY DEF Stages, AskStages, LoginStages, CreateStages, RecordStages, PostStages
<1>9. KeepsRooms(s)
  BY <1>1, <1>5, <1>6, <1>7, <1>8, ServedFacts DEF KeepsRooms, Holds, Works, IsQueued, Mine, None
<1>10. /\ Queue(s)' = Queue(s)
       /\ conn'[s] = conn[s] /\ client'[s] = client[s] /\ room'[s] = room[s]
       /\ created'[s] = created[s] /\ posted'[s] = posted[s] /\ shown'[s] = shown[s]
       /\ failed \subseteq failed' /\ (failed' = failed \/ Home[s] \in failed')
       /\ Local(s) /\ Waits(s) /\ InItsRoom(s) /\ LinesInOrder(s) /\ StoredInOrder(s)
       /\ Numbered(s) /\ HasRecord(s) /\ RecordFollows(s) /\ NoneLost(s)
  BY <1>7, ServedFacts
<1>12. None.room = -2 /\ ~Fine(s)'
  BY <1>1, <1>10 DEF None, Local, Works, Fine
<1> USE <1>1, <1>5, <1>6, <1>8, <1>12
<1>a. Local(s)' /\ Waits(s)' /\ InItsRoom(s)'
  BY <1>10 DEF Local, Waits, InItsRoom, Works, NoneQueued, IsQueued, IsPost, Heard
<1>b. LinesInOrder(s)' /\ StoredInOrder(s)' /\ Numbered(s)'
  <2>1. LinesInOrder(s)'
    BY <1>10 DEF LinesInOrder, Works, IsPost, Sending, Heard
  <2>2. StoredInOrder(s)'
    BY <1>10 DEF StoredInOrder, Works, IsPost
  <2>3. Numbered(s)'
    BY <1>10 DEF Numbered, Works, Heard, IsNumberOf
  <2> QED
    BY <2>1, <2>2, <2>3
<1>c. HasRecord(s)' /\ RecordFollows(s)' /\ NoneLost(s)'
  BY <1>10 DEF HasRecord, RecordFollows, NoneLost, Fine, Works, Follows, NoAnswer, Kept,
               Sending, Heard, IsQueued, IsPost
<1>11. ClientInv(s)'
  BY <1>a, <1>b, <1>c DEF ClientInv
<1> QED
  BY <1>6, <1>7, <1>9, <1>11, ServeKeeps

(* What is written to s, if it is there.                                   *)
Arrives(s, p) ==
    /\ \A i \in DOMAIN inbox[s] : i \in DOMAIN inbox'[s] /\ inbox'[s][i] = inbox[s][i]
    /\ \A i \in DOMAIN inbox'[s] :
          /\ i \in Nat
          /\ \/ i \in DOMAIN inbox[s] /\ inbox'[s][i] = inbox[s][i]
             \/ /\ inbox'[s][i] = p /\ i = Len(inbox'[s])
                /\ \A k \in DOMAIN inbox[s] : k < i
    /\ conn[s] = "open" => \E i \in DOMAIN inbox'[s] : inbox'[s][i] = p

LEMMA WrittenFacts ==
    ASSUME Types, NEW s \in Sessions, NEW p \in APacket, Written(Home[s], s, p)
    PROVE  /\ inbox' \in [Sessions -> Seq(APacket)]
           /\ \A t \in Sessions \ {s} : inbox'[t] = inbox[t]
           /\ Arrives(s, p)
<1>1. inbox \in [Sessions -> Seq(APacket)] /\ inbox[s] \in Seq(APacket)
  BY DEF Types
<1>2. Len(inbox[s]) \in Nat /\ DOMAIN inbox[s] = 1 .. Len(inbox[s])
  BY <1>1
<1>3. CASE conn[s] = "open"
  <2> DEFINE after == Append(inbox[s], p)
  <2>1. after \in Seq(APacket) /\ inbox' = [inbox EXCEPT ![s] = after]
    BY <1>1, <1>3 DEF Written
  <2>2. /\ Len(after) = Len(inbox[s]) + 1 /\ DOMAIN after = 1 .. Len(inbox[s]) + 1
        /\ \A i \in DOMAIN inbox[s] : after[i] = inbox[s][i]
        /\ after[Len(inbox[s]) + 1] = p
    BY <1>1, <1>2, AppendProperties
  <2> HIDE DEF after
  <2>3. /\ inbox' \in [Sessions -> Seq(APacket)] /\ inbox'[s] = after
        /\ \A t \in Sessions \ {s} : inbox'[t] = inbox[t]
    BY <1>1, <2>1
  <2>4. DOMAIN after = DOMAIN inbox[s] \cup {Len(inbox[s]) + 1}
    BY <1>2, <2>2
  <2> QED
    BY <1>2, <1>3, <2>2, <2>3, <2>4 DEF Arrives
<1>4. CASE conn[s] # "open"
  BY <1>1, <1>2, <1>4 DEF Written, Arrives
<1> QED
  BY <1>3, <1>4

LEMMA AnsweredInOrder ==
    ASSUME NEW s \in Sessions, LinesInOrder(s),
           shown'[s] = shown[s], posted'[s] = posted[s], Queue(s)' = Queue(s),
           ~Works(s, PostStages)', ~Sending(s)',
           \A i \in DOMAIN inbox'[s] : inbox'[s][i].kind = "broadcast" =>
               i \in DOMAIN inbox[s] /\ inbox'[s][i] = inbox[s][i]
    PROVE  LinesInOrder(s)'
<1>1. DOMAIN Queue(s)' = DOMAIN Queue(s) /\ DOMAIN shown'[s] = DOMAIN shown[s]
  OBVIOUS
<1>2. \A i \in DOMAIN shown[s] : shown'[s][i] = shown[s][i]
  OBVIOUS
<1> QED
  BY <1>1, <1>2 DEF LinesInOrder, IsPost, Heard

LEMMA sendLoginResultKeeps ==
    ASSUME IInv, NEW v \in Servers, sendLoginResult(v)
    PROVE  IInv'
<1>0. Types
  BY DEF IInv
<1>1. job[v].pc \in {"compare", "answer_login"}
  BY DEF sendLoginResult, At
<1> PICK s \in Sessions : Home[s] = v /\ Job(s) = job[v] /\ Job(s).s = s
  BY <1>1, WorkerOf, StagesAre DEF StagesKnown
<1>2. Job(s) \in AJob /\ record[s] \in ARecord
  BY <1>0 DEF Types, Job
<1>3. PICK p \in APacket :
         /\ Written(Home[s], s, p)
         /\ p.kind = "login" /\ p.room = 0 /\ (p.ok => Job(s).pc = "compare")
  <2>1. PICK right \in BOOLEAN :
           /\ At(v, "compare") \/ (At(v, "answer_login") /\ ~right)
           /\ Written(v, s, Answer("login", Job(s).ok /\ right, 0))
    BY DEF sendLoginResult
  <2> DEFINE p == Answer("login", Job(s).ok /\ right, 0)
  <2>2. NoLine \in ALine
    BY DEF NoLine, Line, ALine, Someone
  <2>3. p \in APacket /\ p.kind = "login" /\ p.room = 0 /\ (p.ok => right)
    BY <2>2 DEF Answer, Packet, APacket
  <2>4. right => Job(s).pc = "compare"
    BY <2>1 DEF At
  <2> QED
    BY <2>1, <2>3, <2>4
<1>4. Goto(Home[s], Idle, "idle") /\ Idle.s = NoSession /\ Idle.room = 0 /\ Idle.number = 0
  BY DEF sendLoginResult, Idle
<1>5. /\ job' \in [Servers -> AJob] /\ \A w \in Servers \ {Home[s]} : job'[w] = job[w]
      /\ Job(s)'.pc = "idle" /\ Job(s)'.s = NoSession /\ Job(s)'.room = 0 /\ Job(s)'.number = 0
  BY <1>0, <1>4, IdleIsAJob, GotoFacts
<1>6. /\ UNCHANGED <<conn, client, room, created, posted, requests, record,
                     chatRooms, messages, shown>>
      /\ failed' = failed \/ (failed' = failed \cup {Home[s]} /\ Home[s] \in Failing)
      /\ \A t \in Sessions \ {s} : inbox'[t] = inbox[t]
      /\ inbox' \in [Sessions -> Seq(APacket)]
      /\ Arrives(s, p)
  <2>1. UNCHANGED <<conn, client, room, created, posted, requests, record, chatRooms,
                    messages, shown, failed>>
    BY DEF sendLoginResult, clientVars, dbVars
  <2> QED
    BY <1>0, <1>3, <2>1, WrittenFacts
<1>7. ServesOnly(s) /\ ServedTypes /\ GoesOn(s)
  <2>1. ServedTypes
    BY <1>0, <1>5, <1>6 DEF Types, ServedTypes
  <2> QED
    BY <1>5, <1>6, <2>1, StagesAre DEF ServesOnly, GoesOn, StagesKnown
<1>8. /\ "compare" \in (Stages \cap AskStages \cap LoginStages) \ (CreateStages \cup RecordStages \cup PostStages)
      /\ "answer_login" \in (Stages \cap AskStages \cap LoginStages)
               \ (CreateStages \cup RecordStages \cup PostStages)
      /\ "idle" \notin
               (Stages \cup AskStages \cup LoginStages \cup CreateStages \cup RecordStages \cup PostStages)
  BY DEF Stages, AskStages, LoginStages, CreateStages, RecordStages, PostStages
<1>9. KeepsRooms(s)
  <2> SUFFICES ASSUME NEW o \in Seq(Sessions), Holds(o, s) PROVE Holds(o, s)'
    BY DEF KeepsRooms
  <2>1. Mine(o, s, p.room)
    BY <1>1, <1>3, <1>8 DEF Holds, Works, Mine
  <2>2. \A i \in DOMAIN inbox'[s] : Mine(o, s, inbox'[s][i].room)
    BY <1>6, <2>1 DEF Holds, Arrives
  <2> QED
    BY <1>1, <1>5, <1>6, <1>7, <1>8, <2>2, ServedFacts DEF Holds, Works, IsQueued
<1>10. /\ Queue(s)' = Queue(s)
       /\ conn'[s] = conn[s] /\ client'[s] = client[s] /\ room'[s] = room[s]
       /\ created'[s] = created[s] /\ posted'[s] = posted[s] /\ shown'[s] = shown[s]
       /\ failed \subseteq failed' /\ (failed' = failed \/ Home[s] \in failed')
       /\ Local(s) /\ Waits(s) /\ InItsRoom(s) /\ LinesInOrder(s) /\ StoredInOrder(s)
       /\ Numbered(s) /\ HasRecord(s) /\ RecordFollows(s) /\ NoneLost(s)
  BY <1>7, ServedFacts
<1>12. /\ client[s] = "wait" /\ NoneQueued(s)
       /\ \A i \in DOMAIN inbox[s] : Heard(s, i)
       /\ Job(s).s = s /\ ~Works(s, RecordStages) /\ Job(s)'.s # s
  BY <1>1, <1>5, <1>8, <1>10 DEF Waits, Works
<1>13. /\ p.kind = "login" /\ p.room = 0 /\ (p.ok => Job(s).pc = "compare")
       /\ Arrives(s, p)
  BY <1>3, <1>6
<1>14. \A i \in DOMAIN inbox'[s] :
          \/ i \in DOMAIN inbox[s] /\ inbox'[s][i] = inbox[s][i]
          \/ inbox'[s][i] = p /\ i = Len(inbox'[s])
  BY <1>13 DEF Arrives
<1>15. \A i \in DOMAIN inbox[s] : i \in DOMAIN inbox'[s] /\ inbox'[s][i] = inbox[s][i]
  BY <1>13 DEF Arrives
<1>16. \A i \in DOMAIN inbox'[s] : inbox'[s][i].kind = "broadcast" =>
          i \in DOMAIN inbox[s] /\ inbox'[s][i] = inbox[s][i]
  BY <1>13, <1>14
<1> USE <1>1, <1>5, <1>6, <1>8
<1>a. Local(s)' /\ Waits(s)' /\ InItsRoom(s)'
  <2>1. Local(s)'
    BY <1>10, <1>12, <1>13, <1>14 DEF Local, Works, IsQueued, IsPost, Heard
  <2>2. Waits(s)'
    BY <1>10, <1>12, <1>13, <1>14 DEF Waits, Works, NoneQueued, IsQueued, IsPost, Heard
  <2>3. InItsRoom(s)'
    BY <1>10, <1>12, <1>16, SMTT(60) DEF InItsRoom, Works, IsQueued, IsPost, Heard
  <2> QED
    BY <2>1, <2>2, <2>3
<1>b. LinesInOrder(s)' /\ StoredInOrder(s)' /\ Numbered(s)'
  <2>1. LinesInOrder(s)'
    BY <1>10, <1>12, <1>16, SMTT(60) DEF LinesInOrder, Works, IsPost, Sending, Heard
  <2>2. StoredInOrder(s)'
    BY <1>10, <1>12 DEF StoredInOrder, Works, IsPost
  <2>3. Numbered(s)'
    BY <1>10, <1>12, <1>16 DEF Numbered, Works, IsNumberOf, Heard
  <2> QED
    BY <2>1, <2>2, <2>3
<1>c. HasRecord(s)' /\ RecordFollows(s)' /\ NoneLost(s)'
  <2>1. HasRecord(s)'
    BY <1>10, <1>12, <1>13, <1>14 DEF HasRecord, Fine, Works, IsQueued
  <2>2. RecordFollows(s)'
    <3>1. NoAnswer(s) /\ \A i \in DOMAIN inbox'[s] : inbox'[s][i].kind # "create"
      BY <1>12, <1>13, <1>14 DEF NoAnswer, Heard
    <3>2. ~Works(s, RecordStages) /\ ~Works(s, RecordStages)'
      BY <1>12 DEF Works
    <3> QED
      BY <1>10, <3>1, <3>2 DEF RecordFollows, Fine, Follows
  <2>3. NoneLost(s)'
    <3>1. ~Works(s, PostStages) /\ ~Sending(s)
      BY DEF Works, Sending, PostStages
    <3>2. SUFFICES ASSUME NEW k, Kept(s, k) PROVE Kept(s, k)'
      BY <1>10 DEF NoneLost, Fine
    <3> QED
      BY <1>10, <1>15, <3>1, <3>2, SMTT(60) DEF Kept, Works, Heard, IsPost
  <2> QED
    BY <2>1, <2>2, <2>3
<1>11. ClientInv(s)'
  BY <1>a, <1>b, <1>c DEF ClientInv
<1> QED
  BY <1>6, <1>7, <1>9, <1>11, ServeKeeps

LEMMA sendCreateNewChatResultKeeps ==
    ASSUME IInv, NEW v \in Servers, sendCreateNewChatResult(v)
    PROVE  IInv'
<1>0. Types
  BY DEF IInv
<1>1. job[v].pc = "answer_create"
  BY DEF sendCreateNewChatResult, At
<1> PICK s \in Sessions : Home[s] = v /\ Job(s) = job[v] /\ Job(s).s = s
  BY <1>1, WorkerOf, StagesAre DEF StagesKnown
<1>2. Job(s) \in AJob /\ record[s] \in ARecord
  BY <1>0 DEF Types, Job
<1> DEFINE p == Answer("create", Job(s).ok, Job(s).room)
<1>3. /\ Written(Home[s], s, p) /\ p \in APacket
      /\ p.kind = "create" /\ p.room = Job(s).room /\ (p.ok <=> Job(s).ok)
  <2>1. NoLine \in ALine
    BY DEF NoLine, Line, ALine, Someone
  <2> QED
    BY <1>2, <2>1 DEF sendCreateNewChatResult, Answer, Packet, APacket, AJob
<1> HIDE DEF p
<1>4. Goto(Home[s], Job(s), "get_record") /\ "get_record" \in Stages
  BY StagesAre DEF sendCreateNewChatResult, StagesKnown
<1>5. /\ job' \in [Servers -> AJob] /\ \A w \in Servers \ {Home[s]} : job'[w] = job[w]
      /\ Job(s)'.pc = "get_record" /\ Job(s)'.s = s
      /\ Job(s)'.room = Job(s).room /\ Job(s)'.number = Job(s).number
  BY <1>0, <1>2, <1>4, GotoFacts
<1>6. /\ UNCHANGED <<conn, client, room, created, posted, requests, record,
                     chatRooms, messages, shown>>
      /\ failed' = failed \/ (failed' = failed \cup {Home[s]} /\ Home[s] \in Failing)
      /\ \A t \in Sessions \ {s} : inbox'[t] = inbox[t]
      /\ inbox' \in [Sessions -> Seq(APacket)]
      /\ Arrives(s, p)
  <2>1. UNCHANGED <<conn, client, room, created, posted, requests, record, chatRooms,
                    messages, shown, failed>>
    BY DEF sendCreateNewChatResult, clientVars, dbVars
  <2> QED
    BY <1>0, <1>3, <2>1, WrittenFacts
<1>7. ServesOnly(s) /\ ServedTypes /\ GoesOn(s)
  <2>1. ServedTypes
    BY <1>0, <1>5, <1>6 DEF Types, ServedTypes
  <2> QED
    BY <1>5, <1>6, <2>1, StagesAre DEF ServesOnly, GoesOn, StagesKnown
<1>8. /\ "answer_create" \in (Stages \cap AskStages \cap CreateStages) \ (LoginStages \cup RecordStages \cup PostStages)
      /\ "get_record" \in (Stages \cap RecordStages)
               \ (AskStages \cup LoginStages \cup CreateStages \cup PostStages)
  BY DEF Stages, AskStages, LoginStages, CreateStages, RecordStages, PostStages
<1>9. KeepsRooms(s)
  <2> SUFFICES ASSUME NEW o \in Seq(Sessions), Holds(o, s) PROVE Holds(o, s)'
    BY DEF KeepsRooms
  <2>1. Mine(o, s, p.room)
    BY <1>1, <1>3, <1>8 DEF Holds, Works, Mine
  <2>2. \A i \in DOMAIN inbox'[s] : Mine(o, s, inbox'[s][i].room)
    BY <1>6, <2>1 DEF Holds, Arrives
  <2> QED
    BY <1>1, <1>5, <1>6, <1>7, <1>8, <2>2, ServedFacts DEF Holds, Works, IsQueued
<1>10. /\ Queue(s)' = Queue(s)
       /\ conn'[s] = conn[s] /\ client'[s] = client[s] /\ room'[s] = room[s]
       /\ created'[s] = created[s] /\ posted'[s] = posted[s] /\ shown'[s] = shown[s]
       /\ failed \subseteq failed' /\ (failed' = failed \/ Home[s] \in failed')
       /\ Local(s) /\ Waits(s) /\ InItsRoom(s) /\ LinesInOrder(s) /\ StoredInOrder(s)
       /\ Numbered(s) /\ HasRecord(s) /\ RecordFollows(s) /\ NoneLost(s)
  BY <1>7, ServedFacts
<1>12. /\ client[s] = "wait" /\ NoneQueued(s)
       /\ \A i \in DOMAIN inbox[s] : Heard(s, i)
       /\ Works(s, {"answer_create"}) /\ Works(s, RecordStages)' /\ Job(s).room >= -1
       /\ Job(s).ok <=> Job(s).room >= 1
  BY <1>1, <1>5, <1>8, <1>10 DEF Waits, Works, Local
<1>13. /\ p.kind = "create" /\ p.room = Job(s).room /\ (p.ok <=> Job(s).ok)
       /\ Arrives(s, p)
  BY <1>3, <1>6
<1>14. \A i \in DOMAIN inbox'[s] :
          \/ i \in DOMAIN inbox[s] /\ inbox'[s][i] = inbox[s][i]
          \/ inbox'[s][i] = p /\ i = Len(inbox'[s])
  BY <1>13 DEF Arrives
<1>15. \A i \in DOMAIN inbox[s] : i \in DOMAIN inbox'[s] /\ inbox'[s][i] = inbox[s][i]
  BY <1>13 DEF Arrives
<1>16. \A i \in DOMAIN inbox'[s] : inbox'[s][i].kind = "broadcast" =>
          i \in DOMAIN inbox[s] /\ inbox'[s][i] = inbox[s][i]
  BY <1>13, <1>14
<1>17. /\ \A i \in DOMAIN inbox'[s] : inbox'[s][i].kind = "create" => inbox'[s][i] = p
       /\ Fine(s)' => ~NoAnswer(s)'
  <2>1. \A i \in DOMAIN inbox[s] : inbox[s][i].kind # "create"
    BY <1>12 DEF Heard
  <2>2. conn'[s] = "open" => \E i \in DOMAIN inbox'[s] : inbox'[s][i] = p
    BY <1>10, <1>13 DEF Arrives
  <2> QED
    BY <1>13, <1>14, <2>1, <2>2 DEF NoAnswer, Fine
<1> USE <1>1, <1>5, <1>6, <1>8
<1>a. Local(s)' /\ Waits(s)' /\ InItsRoom(s)'
  <2>1. Local(s)'
    BY <1>10, <1>12, <1>13, <1>14 DEF Local, Works, IsQueued, IsPost, Heard
  <2>2. Waits(s)'
    BY <1>10, <1>12, <1>13, <1>14 DEF Waits, Works, NoneQueued, IsQueued, IsPost, Heard
  <2>3. InItsRoom(s)'
    BY <1>10, <1>12, <1>16, SMTT(60) DEF InItsRoom, Works, IsQueued, IsPost, Heard
  <2> QED
    BY <2>1, <2>2, <2>3
<1>b. LinesInOrder(s)' /\ StoredInOrder(s)' /\ Numbered(s)'
  <2>1. LinesInOrder(s)'
    <3>1. ~Works(s, PostStages)' /\ ~Sending(s)'
      BY DEF Works, Sending, PostStages
    <3> QED
      BY <1>10, <1>16, <3>1, AnsweredInOrder
  <2>2. StoredInOrder(s)'
    BY <1>10, <1>12 DEF StoredInOrder, Works, IsPost
  <2>3. Numbered(s)'
    BY <1>10, <1>12, <1>16 DEF Numbered, Works, IsNumberOf, Heard
  <2> QED
    BY <2>1, <2>2, <2>3
<1>c. HasRecord(s)' /\ RecordFollows(s)' /\ NoneLost(s)'
  <2>1. HasRecord(s)'
    BY <1>10, <1>12, <1>13, <1>14 DEF HasRecord, Fine, Works, IsQueued
  <2>2. RecordFollows(s)'
    BY <1>10, <1>12, <1>13, <1>14, <1>15, <1>17 DEF RecordFollows, Fine, Works, Follows, NoAnswer
  <2>3. NoneLost(s)'
    <3>1. ~Works(s, PostStages) /\ ~Sending(s)
      BY DEF Works, Sending, PostStages
    <3>2. SUFFICES ASSUME NEW k, Kept(s, k) PROVE Kept(s, k)'
      BY <1>10 DEF NoneLost, Fine
    <3> QED
      BY <1>10, <1>15, <3>1, <3>2, SMTT(60) DEF Kept, Works, Heard, IsPost
  <2> QED
    BY <2>1, <2>2, <2>3
<1>11. ClientInv(s)'
  BY <1>a, <1>b, <1>c DEF ClientInv
<1> QED
  BY <1>6, <1>7, <1>9, <1>11, ServeKeeps

LEMMA SetRecordKeeps ==
    ASSUME IInv, NEW v \in Servers, SetRecord(v)
    PROVE  IInv'
<1>0. Types
  BY DEF IInv
<1>1. job[v].pc = "set_record"
  BY DEF SetRecord, At
<1> PICK s \in Sessions : Home[s] = v /\ Job(s) = job[v] /\ Job(s).s = s
  BY <1>1, WorkerOf, StagesAre DEF StagesKnown
<1>2. Job(s) \in AJob /\ record[s] \in ARecord
  BY <1>0 DEF Types, Job
<1>3. Goto(Home[s], Job(s), "attend") /\ "attend" \in Stages
  BY StagesAre DEF SetRecord, StagesKnown
<1> DEFINE new == [Job(s).rec EXCEPT !.room = Job(s).room]
<1>4. new \in ARecord /\ new.session = Job(s).rec.session /\ new.room = Job(s).room
  <2>1. Job(s).rec \in ARecord /\ Job(s).room \in Int
    BY <1>2 DEF AJob
  <2> QED
    BY <2>1 DEF ARecord
<1>12. record' = [record EXCEPT ![s] = new] \/ (record' = record /\ Home[s] \in failed')
  BY DEF SetRecord, Failure
<1> HIDE DEF new
<1>5. /\ job' \in [Servers -> AJob] /\ \A w \in Servers \ {Home[s]} : job'[w] = job[w]
      /\ Job(s)'.pc = "attend"
      /\ Job(s)'.s = s /\ Job(s)'.room = Job(s).room /\ Job(s)'.number = Job(s).number
  BY <1>0, <1>2, <1>3, GotoFacts
<1>6. /\ UNCHANGED <<conn, client, room, created, posted, requests, chatRooms,
                     messages, inbox, shown>>
      /\ failed' = failed \/ (failed' = failed \cup {Home[s]} /\ Home[s] \in Failing)
      /\ \A t \in Sessions \ {s} : record'[t] = record[t]
      /\ record' \in [Sessions -> ARecord]
      /\ record'[s] = new \/ (record'[s] = record[s] /\ Home[s] \in failed')
  <2>1. /\ UNCHANGED <<conn, client, room, created, posted, requests, chatRooms, messages,
                       inbox, shown>>
        /\ failed' = failed \/ (failed' = failed \cup {Home[s]} /\ Home[s] \in Failing)
    BY DEF SetRecord, clientVars, Success, Failure
  <2>2. record \in [Sessions -> ARecord]
    BY <1>0 DEF Types
  <2> QED
    BY <1>4, <1>12, <2>1, <2>2
<1>7. ServesOnly(s) /\ ServedTypes /\ GoesOn(s)
  <2>1. ServedTypes
    BY <1>0, <1>5, <1>6 DEF Types, ServedTypes
  <2> QED
    BY <1>5, <1>6, <2>1, StagesAre DEF ServesOnly, GoesOn, StagesKnown
<1>8. /\ "set_record" \in (Stages \cap RecordStages) \ (AskStages \cup LoginStages \cup CreateStages \cup PostStages)
      /\ "attend" \in Stages
               \ (AskStages \cup LoginStages \cup CreateStages \cup RecordStages \cup PostStages)
  BY DEF Stages, AskStages, LoginStages, CreateStages, RecordStages, PostStages
<1>9. KeepsRooms(s)
  <2> SUFFICES ASSUME NEW o \in Seq(Sessions), Holds(o, s) PROVE Holds(o, s)'
    BY DEF KeepsRooms
  <2>1. Mine(o, s, record'[s].room)
    BY <1>1, <1>4, <1>6, <1>8 DEF Holds, Works
  <2> QED
    BY <1>1, <1>5, <1>6, <1>7, <1>8, <2>1, ServedFacts DEF Holds, Works, IsQueued
<1>10. /\ Queue(s)' = Queue(s)
       /\ conn'[s] = conn[s] /\ client'[s] = client[s] /\ room'[s] = room[s]
       /\ created'[s] = created[s] /\ posted'[s] = posted[s] /\ shown'[s] = shown[s]
       /\ failed \subseteq failed' /\ (failed' = failed \/ Home[s] \in failed')
       /\ Local(s) /\ Waits(s) /\ InItsRoom(s) /\ LinesInOrder(s) /\ StoredInOrder(s)
       /\ Numbered(s) /\ HasRecord(s) /\ RecordFollows(s) /\ NoneLost(s)
  BY <1>7, ServedFacts
<1>13. /\ Works(s, RecordStages) /\ Works(s, {"set_record"}) /\ Job(s).room >= -1
       /\ ~Works(s, RecordStages)' /\ Job(s).rec.session \in {s, NoSession}
  BY <1>1, <1>5, <1>8, <1>10 DEF Works, Local
<1>14. Fine(s)' => /\ Fine(s) /\ record'[s].session = s /\ record'[s].room = Job(s).room
  BY <1>4, <1>6, <1>10, <1>13 DEF Fine, HasRecord
<1> USE <1>1, <1>5, <1>6, <1>8
<1>a. Local(s)' /\ Waits(s)' /\ InItsRoom(s)'
  <2>1. Local(s)'
    BY <1>4, <1>10, <1>13 DEF Local, Works, IsQueued, IsPost, Heard
  <2>2. Waits(s)'
    BY <1>10 DEF Waits, Works, NoneQueued, IsQueued, IsPost, Heard
  <2>3. InItsRoom(s)'
    BY <1>10 DEF InItsRoom, Works, IsQueued, IsPost, Heard
  <2> QED
    BY <2>1, <2>2, <2>3
<1>b. LinesInOrder(s)' /\ StoredInOrder(s)' /\ Numbered(s)'
  <2>1. LinesInOrder(s)'
    BY <1>10 DEF LinesInOrder, Works, IsPost, Sending, Heard
  <2>2. StoredInOrder(s)'
    BY <1>10 DEF StoredInOrder, Works, IsPost
  <2>3. Numbered(s)'
    BY <1>10 DEF Numbered, Works, Heard, IsNumberOf
  <2> QED
    BY <2>1, <2>2, <2>3
<1>c. HasRecord(s)' /\ RecordFollows(s)' /\ NoneLost(s)'
  <2>1. HasRecord(s)'
    BY <1>10, <1>14 DEF HasRecord, Fine, Works, IsQueued
  <2>2. RecordFollows(s)'
    <3>1. SUFFICES ASSUME Fine(s)'
                   PROVE  /\ \A i \in DOMAIN inbox'[s] :
                                inbox'[s][i].kind = "create" /\ inbox'[s][i].room >= 1 =>
                                   record'[s].room = inbox'[s][i].room
                          /\ room'[s] >= 1 /\ NoAnswer(s)' => record'[s].room = room'[s]
      BY <1>13, <1>14 DEF RecordFollows, Follows
    <3> QED
      BY <1>10, <1>13, <1>14, <3>1 DEF RecordFollows, NoAnswer
  <2>3. NoneLost(s)'
    BY <1>10 DEF NoneLost, Fine, Kept, Sending, Works, Heard, IsPost
  <2> QED
    BY <2>1, <2>2, <2>3
<1>11. ClientInv(s)'
  BY <1>a, <1>b, <1>c DEF ClientInv
<1> QED
  BY <1>6, <1>7, <1>9, <1>11, ServeKeeps

-----------------------------------------------------------------------------
(* One member is told, or nobody: NoSession stands for a record without a  *)
(* session.                                                                *)
Sent(s) == Packet("broadcast", TRUE, Job(s).room, Job(s).line, Job(s).number)

Tells(s) ==
    /\ s \in Job(s).to /\ Written(Home[s], s, Sent(s))
    /\ Goto(Home[s], [Job(s) EXCEPT !.to = Job(s).to \ {s}], "broadcast")

TellsNobody(s) ==
    /\ UNCHANGED inbox
    /\ \/ Goto(Home[s], [Job(s) EXCEPT !.to = Job(s).to \ {NoSession}], "broadcast")
       \/ Job(s).to = {} /\ Goto(Home[s], Idle, "idle")

StillTelling(s, to) ==
    /\ Job(s)'.pc = "broadcast" /\ Job(s)'.s = s /\ Job(s)'.room = Job(s).room
    /\ Job(s)'.line = Job(s).line /\ Job(s)'.number = Job(s).number
    /\ Job(s)'.to = to

LEMMA TellingFacts ==
    ASSUME Types, NEW s \in Sessions, Works(s, {"broadcast"}), NEW r,
           Goto(Home[s], [Job(s) EXCEPT !.to = Job(s).to \ {r}], "broadcast")
    PROVE  /\ job' \in [Servers -> AJob] /\ \A w \in Servers \ {Home[s]} : job'[w] = job[w]
           /\ StillTelling(s, Job(s).to \ {r})
<1> DEFINE j == [Job(s) EXCEPT !.to = Job(s).to \ {r}]
<1>1. Job(s) \in AJob /\ "broadcast" \in Stages
  BY StagesAre DEF Types, Job, StagesKnown
<1>2. /\ j \in AJob /\ j.s = Job(s).s /\ j.room = Job(s).room /\ j.line = Job(s).line
      /\ j.number = Job(s).number /\ j.to = Job(s).to \ {r}
  BY <1>1 DEF AJob
<1>3. Goto(Home[s], j, "broadcast")
  OBVIOUS
<1> HIDE DEF j
<1> QED
  BY <1>1, <1>2, <1>3, GotoFacts DEF StillTelling, Works

LEMMA ToldInOrder ==
    ASSUME NEW s \in Sessions, NEW p, LinesInOrder(s),
           shown'[s] = shown[s], posted'[s] = posted[s], Queue(s)' = Queue(s),
           Works(s, PostStages), Sending(s), p.line = Job(s).line,
           Job(s)'.line = Job(s).line, ~Sending(s)',
           \A i \in DOMAIN inbox'[s] :
               /\ i \in Nat
               /\ \/ i \in DOMAIN inbox[s] /\ inbox'[s][i] = inbox[s][i]
                            /\ inbox[s][i].kind = "broadcast"
                  \/ inbox'[s][i] = p /\ \A k \in DOMAIN inbox'[s] : k <= i
    PROVE  LinesInOrder(s)'
<1>1. /\ \A i \in DOMAIN shown[s] :
            shown[s][i].line.k < p.line.k
      /\ \A i \in DOMAIN inbox[s] : Heard(s, i) => inbox[s][i].line.k < p.line.k
      /\ p.line.k <= posted[s]
      /\ \A k \in DOMAIN Queue(s) : IsPost(s, k) => p.line.k < Queue(s)[k].line.k
  BY DEF LinesInOrder
<1>2. \A i \in DOMAIN shown'[s] :
          /\ shown'[s][i].line.k <= posted'[s]
          /\ \A k \in DOMAIN shown'[s] : i < k => shown'[s][i].line.k < shown'[s][k].line.k
          /\ \A k \in DOMAIN inbox'[s] : shown'[s][i].line.k < inbox'[s][k].line.k
          /\ \A k \in DOMAIN Queue(s) : IsPost(s, k) =>
                shown'[s][i].line.k < Queue(s)[k].line.k
  BY <1>1 DEF LinesInOrder, Heard
<1>3. \A i \in DOMAIN inbox'[s] :
          /\ inbox'[s][i].line.k <= posted'[s]
          /\ \A k \in DOMAIN inbox'[s] : i < k => inbox'[s][i].line.k < inbox'[s][k].line.k
          /\ \A k \in DOMAIN Queue(s) : IsPost(s, k) =>
                inbox'[s][i].line.k < Queue(s)[k].line.k
  <2> TAKE i \in DOMAIN inbox'[s]
  <2>1. CASE i \in DOMAIN inbox[s] /\ inbox'[s][i] = inbox[s][i] /\ Heard(s, i)
    BY <1>1, <2>1 DEF LinesInOrder, Heard
  <2>2. CASE inbox'[s][i] = p /\ \A k \in DOMAIN inbox'[s] : k <= i
    BY <1>1, <2>2
  <2> QED
    BY <2>1, <2>2 DEF Heard
<1>4. /\ Job(s).line.k <= posted[s]
      /\ \A k \in DOMAIN Queue(s) : IsPost(s, k) => Job(s).line.k < Queue(s)[k].line.k
      /\ \A i \in DOMAIN Queue(s) : IsPost(s, i) =>
            /\ Queue(s)[i].line.k <= posted[s]
            /\ \A k \in DOMAIN Queue(s) : i < k /\ IsPost(s, k) =>
                  Queue(s)[i].line.k < Queue(s)[k].line.k
  BY DEF LinesInOrder
<1> QED
  BY <1>2, <1>3, <1>4 DEF LinesInOrder, IsPost

LEMMA TellsKeeps ==
    ASSUME IInv, NEW s \in Sessions, Works(s, {"broadcast"}), Tells(s),
           UNCHANGED <<conn, clientVars, requests, dbVars, failed>>
    PROVE  IInv'
<1>0. Types
  BY DEF IInv
<1>1. Job(s).pc = "broadcast" /\ Job(s).s = s
  BY DEF Works
<1>2. Job(s) \in AJob /\ record[s] \in ARecord
  BY <1>0 DEF Types, Job
<1>3. /\ Local(s) /\ Waits(s) /\ InItsRoom(s) /\ Works(s, PostStages)
      /\ Works(s, {"retrieve", "broadcast"}) /\ Numbered(s)
  BY DEF Works, PostStages, IInv, ClientInv
<1> DEFINE p == Sent(s)
<1>4. /\ p \in APacket /\ Written(Home[s], s, p) /\ p.kind = "broadcast"
      /\ p.room = Job(s).room /\ p.line = Job(s).line /\ p.number = Job(s).number
  BY <1>2 DEF Tells, Sent, Packet, APacket, AJob
<1>12. /\ p.room >= 1 /\ p.line.by = s /\ p.room = room[s]
       /\ IsNumberOf(p.number, p.room, p.line)
       /\ \A i \in DOMAIN inbox[s] : inbox[s][i].kind = "broadcast"
       /\ Job(s).to \subseteq {s, NoSession} /\ Sending(s)
  <2>1. IsNumberOf(p.number, p.room, p.line)
    BY <1>3, <1>4 DEF Numbered
  <2>2. \A i \in DOMAIN inbox[s] : inbox[s][i].kind = "broadcast"
    BY <1>3 DEF Waits, Works, Heard
  <2> QED
    BY <1>1, <1>3, <1>4, <2>1, <2>2 DEF Local, InItsRoom, Sending, Works, Tells
<1> HIDE DEF p
<1>5. /\ job' \in [Servers -> AJob] /\ \A w \in Servers \ {Home[s]} : job'[w] = job[w]
      /\ Job(s)'.pc = "broadcast" /\ Job(s)'.s = s /\ Job(s)'.room = Job(s).room
      /\ Job(s)'.line = Job(s).line /\ Job(s)'.number = Job(s).number
      /\ Job(s)'.to = Job(s).to \ {s}
  BY <1>0, TellingFacts DEF Tells, StillTelling
<1>6. /\ UNCHANGED <<conn, client, room, created, posted, requests, record,
                     chatRooms, messages, shown>>
      /\ failed' = failed \/ (failed' = failed \cup {Home[s]} /\ Home[s] \in Failing)
      /\ \A t \in Sessions \ {s} : inbox'[t] = inbox[t]
      /\ inbox' \in [Sessions -> Seq(APacket)]
      /\ Arrives(s, p)
  <2>1. UNCHANGED <<conn, client, room, created, posted, requests, record, chatRooms,
                    messages, shown, failed>>
    BY DEF clientVars, dbVars
  <2> QED
    BY <1>0, <1>4, <2>1, WrittenFacts
<1>7. ServesOnly(s) /\ ServedTypes /\ GoesOn(s)
  <2>1. ServedTypes
    BY <1>0, <1>5, <1>6 DEF Types, ServedTypes
  <2> QED
    BY <1>5, <1>6, <2>1, StagesAre DEF ServesOnly, GoesOn, StagesKnown
<1>8. /\ "broadcast" \in (Stages \cap PostStages) \ (AskStages \cup LoginStages \cup CreateStages \cup RecordStages)
      /\ "broadcast" \in (Stages \cap PostStages)
               \ (AskStages \cup LoginStages \cup CreateStages \cup RecordStages)
  BY DEF Stages, AskStages, LoginStages, CreateStages, RecordStages, PostStages
<1>9. KeepsRooms(s)
  <2> SUFFICES ASSUME NEW o \in Seq(Sessions), Holds(o, s) PROVE Holds(o, s)'
    BY DEF KeepsRooms
  <2>1. Mine(o, s, p.room)
    BY <1>1, <1>4, <1>8 DEF Holds, Works
  <2>2. \A i \in DOMAIN inbox'[s] : Mine(o, s, inbox'[s][i].room)
    BY <1>6, <2>1 DEF Holds, Arrives
  <2> QED
    BY <1>1, <1>5, <1>6, <1>7, <1>8, <2>2, ServedFacts DEF Holds, Works, IsQueued
<1>10. /\ Queue(s)' = Queue(s)
       /\ conn'[s] = conn[s] /\ client'[s] = client[s] /\ room'[s] = room[s]
       /\ created'[s] = created[s] /\ posted'[s] = posted[s] /\ shown'[s] = shown[s]
       /\ failed \subseteq failed' /\ (failed' = failed \/ Home[s] \in failed')
       /\ Local(s) /\ Waits(s) /\ InItsRoom(s) /\ LinesInOrder(s) /\ StoredInOrder(s)
       /\ Numbered(s) /\ HasRecord(s) /\ RecordFollows(s) /\ NoneLost(s)
  BY <1>7, ServedFacts
<1>14. \A i \in DOMAIN inbox'[s] :
          /\ i \in Nat /\ inbox'[s][i].kind = "broadcast"
          /\ \/ i \in DOMAIN inbox[s] /\ inbox'[s][i] = inbox[s][i]
             \/ inbox'[s][i] = p /\ \A k \in DOMAIN inbox'[s] : k <= i
  <2>1. inbox'[s] \in Seq(APacket)
    BY <1>6
  <2>2. \A k \in DOMAIN inbox'[s] : k \in Nat /\ k <= Len(inbox'[s])
    BY <2>1
  <2> QED
    BY <1>4, <1>6, <1>12, <2>2 DEF Arrives
<1>15. /\ \A i \in DOMAIN inbox[s] : i \in DOMAIN inbox'[s] /\ inbox'[s][i] = inbox[s][i]
       /\ conn[s] = "open" => \E i \in DOMAIN inbox'[s] : inbox'[s][i] = p
  BY <1>6 DEF Arrives
<1> USE <1>1, <1>5, <1>6, <1>8
<1>a. Local(s)' /\ Waits(s)' /\ InItsRoom(s)'
  <2>1. Local(s)'
    <3>1. \A i \in DOMAIN inbox'[s] :
             /\ inbox'[s][i].room >= -1
             /\ inbox'[s][i].kind # "create"
             /\ inbox'[s][i].line.by = s
      <4> TAKE i \in DOMAIN inbox'[s]
      <4>1. i \in DOMAIN inbox[s] => inbox[s][i].room >= -1 /\ inbox[s][i].line.by = s
        BY <1>10, <1>12 DEF Local, Heard
      <4>2. p.room \in Int
        BY <1>4 DEF APacket
      <4> QED
        BY <1>12, <1>14, <4>1, <4>2
    <3>2. /\ Job(s)'.room >= -1 /\ Job(s)'.room >= 1 /\ Job(s)'.line.by = s
          /\ Job(s)'.line.k >= 1 /\ Job(s)'.to \subseteq {s, NoSession}
      BY <1>10, <1>12, StagesAre DEF Local, Works, StagesKnown
    <3> QED
      BY <1>10, <3>1, <3>2 DEF Local, Works, IsQueued, IsPost, Heard
  <2>2. Waits(s)'
    BY <1>10, <1>14 DEF Waits, Works, NoneQueued, IsQueued, IsPost, Heard
  <2>3. InItsRoom(s)'
    BY <1>10, <1>12, <1>14 DEF InItsRoom, Works, IsQueued, IsPost, Heard
  <2> QED
    BY <2>1, <2>2, <2>3
<1>b. LinesInOrder(s)' /\ StoredInOrder(s)' /\ Numbered(s)'
  <2>1. LinesInOrder(s)'
    <3>1. Works(s, PostStages) /\ Works(s, PostStages)' /\ ~Sending(s)'
      BY DEF Works, Sending
    <3> QED
      BY <1>4, <1>10, <1>12, <1>14, <3>1, ToldInOrder
  <2>2. StoredInOrder(s)'
    BY <1>10 DEF StoredInOrder, Works, IsPost
  <2>3. Numbered(s)'
    BY <1>10, <1>12, <1>14, SMTT(30) DEF Numbered, Works, IsNumberOf, Heard
  <2> QED
    BY <2>1, <2>2, <2>3
<1>c. HasRecord(s)' /\ RecordFollows(s)' /\ NoneLost(s)'
  <2>1. HasRecord(s)'
    <3>1. /\ ~Works(s, CreateStages \cup RecordStages \cup {"compare"})'
          /\ ~Works(s, {"set_record"})'
      BY DEF Works
    <3>2. \A i \in DOMAIN inbox'[s] : inbox'[s][i].kind \notin {"login", "create"}
      BY <1>14
    <3> QED
      BY <1>10, <3>1, <3>2 DEF HasRecord, Fine, IsQueued
  <2>2. RecordFollows(s)'
    <3>1. NoAnswer(s) /\ \A i \in DOMAIN inbox'[s] : inbox'[s][i].kind # "create"
      BY <1>12, <1>14 DEF NoAnswer
    <3>2. ~Works(s, RecordStages) /\ ~Works(s, RecordStages)'
      BY DEF Works
    <3> QED
      BY <1>10, <3>1, <3>2 DEF RecordFollows, Fine, Follows
  <2>3. NoneLost(s)'
    <3>1. SUFFICES ASSUME Fine(s)', NEW k, Kept(s, k) PROVE Kept(s, k)'
      BY <1>10 DEF NoneLost, Fine
    <3> QED
      BY <1>4, <1>10, <1>12, <1>14, <1>15, <3>1, SMTT(30) DEF Kept, Fine, Heard, IsPost
  <2> QED
    BY <2>1, <2>2, <2>3
<1>11. ClientInv(s)'
  BY <1>a, <1>b, <1>c DEF ClientInv
<1> QED
  BY <1>6, <1>7, <1>9, <1>11, ServeKeeps


LEMMA TellsNobodyKeeps ==
    ASSUME IInv, NEW s \in Sessions, Works(s, {"broadcast"}), TellsNobody(s),
           UNCHANGED <<conn, clientVars, requests, dbVars, failed>>
    PROVE  IInv'
<1>0. Types
  BY DEF IInv
<1>1. Job(s).pc = "broadcast" /\ Job(s).s = s
  BY DEF Works
<1>2. Job(s) \in AJob /\ record[s] \in ARecord
  BY <1>0 DEF Types, Job
<1>3. Works(s, PostStages) /\ Local(s)
  BY DEF Works, PostStages, IInv, ClientInv
<1>4. Idle.s = NoSession /\ Idle.room = 0 /\ Idle.number = 0
  BY DEF Idle
<1>5. /\ job' \in [Servers -> AJob] /\ \A w \in Servers \ {Home[s]} : job'[w] = job[w]
      /\ Job(s)'.pc \in {"broadcast", "idle"}
      /\ Job(s)'.pc = "broadcast" => /\ Job(s)'.s = s /\ Job(s)'.room = Job(s).room
      /\ Job(s)'.pc = "broadcast" => /\ Job(s)'.line = Job(s).line /\ Job(s)'.number = Job(s).number
      /\ Job(s)'.pc = "broadcast" => Job(s)'.to = Job(s).to \ {NoSession}
      /\ Job(s)'.pc = "idle" => /\ Job(s)'.s = NoSession /\ Job(s)'.room = 0 /\ Job(s)'.number = 0
      /\ Job(s)'.pc = "idle" => Job(s).to = {}
  <2>1. CASE Goto(Home[s], [Job(s) EXCEPT !.to = Job(s).to \ {NoSession}], "broadcast")
    BY <1>0, <2>1, TellingFacts DEF StillTelling
  <2>2. CASE Job(s).to = {} /\ Goto(Home[s], Idle, "idle")
    BY <1>0, <1>4, <2>2, IdleIsAJob, GotoFacts
  <2> QED
    BY <2>1, <2>2 DEF TellsNobody
<1>6. /\ UNCHANGED <<conn, client, room, created, posted, requests, record,
                     chatRooms, messages, inbox, shown>>
      /\ failed' = failed \/ (failed' = failed \cup {Home[s]} /\ Home[s] \in Failing)
  BY DEF TellsNobody, clientVars, dbVars
<1>7. ServesOnly(s) /\ ServedTypes /\ GoesOn(s)
  <2>1. ServedTypes
    BY <1>0, <1>5, <1>6 DEF Types, ServedTypes
  <2> QED
    BY <1>5, <1>6, <2>1, StagesAre DEF ServesOnly, GoesOn, StagesKnown
<1>8. /\ "broadcast" \in (Stages \cap PostStages) \ (AskStages \cup LoginStages \cup CreateStages \cup RecordStages)
      /\ "broadcast" \in (Stages \cap PostStages)
               \ (AskStages \cup LoginStages \cup CreateStages \cup RecordStages)
      /\ "idle" \notin
               (Stages \cup AskStages \cup LoginStages \cup CreateStages \cup RecordStages \cup PostStages)
  BY DEF Stages, AskStages, LoginStages, CreateStages, RecordStages, PostStages
<1>9. KeepsRooms(s)
  BY <1>1, <1>5, <1>6, <1>7, <1>8, ServedFacts DEF KeepsRooms, Holds, Works, IsQueued
<1>10. /\ Queue(s)' = Queue(s)
       /\ conn'[s] = conn[s] /\ client'[s] = client[s] /\ room'[s] = room[s]
       /\ created'[s] = created[s] /\ posted'[s] = posted[s] /\ shown'[s] = shown[s]
       /\ failed \subseteq failed' /\ (failed' = failed \/ Home[s] \in failed')
       /\ Local(s) /\ Waits(s) /\ InItsRoom(s) /\ LinesInOrder(s) /\ StoredInOrder(s)
       /\ Numbered(s) /\ HasRecord(s) /\ RecordFollows(s) /\ NoneLost(s)
  BY <1>7, ServedFacts
<1>12. /\ Sending(s)' <=> Sending(s)
       /\ ~Works(s, RecordStages) /\ ~Works(s, RecordStages)'
  BY <1>1, <1>5, <1>8 DEF Works, Sending
<1>13. /\ Works(s, Stages)' \/ Works(s, PostStages)' => Job(s)'.pc = "broadcast"
       /\ Job(s)'.line = Job(s).line \/ ~(Works(s, Stages)' \/ Works(s, PostStages)' \/ Sending(s))
  BY <1>1, <1>5, <1>8, <1>12 DEF Works, Sending
<1> USE <1>1, <1>5, <1>6, <1>8
<1>a. Local(s)' /\ Waits(s)' /\ InItsRoom(s)'
  <2>1. Local(s)'
    BY <1>3, <1>10, <1>13 DEF Local, Works, IsQueued, IsPost, Heard
  <2>2. Waits(s)'
    BY <1>10 DEF Waits, Works, NoneQueued, IsQueued, IsPost, Heard
  <2>3. InItsRoom(s)'
    BY <1>10 DEF InItsRoom, Works, IsQueued, IsPost, Heard
  <2> QED
    BY <2>1, <2>2, <2>3
<1>b. LinesInOrder(s)' /\ StoredInOrder(s)' /\ Numbered(s)'
  <2>1. LinesInOrder(s)'
    BY <1>3, <1>10, <1>12, <1>13 DEF LinesInOrder, Works, IsPost, Sending, Heard
  <2>2. StoredInOrder(s)'
    BY <1>3, <1>10, <1>13 DEF StoredInOrder, Works, IsPost
  <2>3. Numbered(s)'
    BY <1>10 DEF Numbered, Works, IsNumberOf, Heard
  <2> QED
    BY <2>1, <2>2, <2>3
<1>c. HasRecord(s)' /\ RecordFollows(s)' /\ NoneLost(s)'
  <2>1. HasRecord(s)'
    BY <1>10 DEF HasRecord, Fine, Works, IsQueued
  <2>2. RecordFollows(s)'
    BY <1>10, <1>12 DEF RecordFollows, Fine, Works, Follows, NoAnswer
  <2>3. NoneLost(s)'
    <3>1. SUFFICES ASSUME NEW k, Kept(s, k) PROVE Kept(s, k)'
      BY <1>10 DEF NoneLost, Fine
    <3> QED
      BY <1>10, <1>12, <1>13, <3>1 DEF Kept, Heard, IsPost
  <2> QED
    BY <2>1, <2>2, <2>3
<1>11. ClientInv(s)'
  BY <1>a, <1>b, <1>c DEF ClientInv
<1> QED
  BY <1>6, <1>7, <1>9, <1>11, ServeKeeps

LEMMA BroadcastMessageToLiveUsersKeeps ==
    ASSUME IInv, NEW v \in Servers, BroadcastMessageToLiveUsers(v)
    PROVE  IInv'
<1>1. job[v].pc = "broadcast"
  BY DEF BroadcastMessageToLiveUsers, At
<1> PICK s \in Sessions : Home[s] = v /\ Job(s) = job[v] /\ Job(s).s = s
  BY <1>1, WorkerOf, StagesAre DEF StagesKnown
<1>2. /\ Works(s, {"broadcast"}) /\ Job(s) \in AJob
      /\ UNCHANGED <<conn, clientVars, requests, dbVars, failed>>
  BY <1>1 DEF Works, BroadcastMessageToLiveUsers, IInv, Types, Job
<1>3. CASE \E r \in Job(s).to :
              /\ Written(Home[s], r, Sent(s))
              /\ job' = [job EXCEPT ![Home[s]].to = @ \ {r}]
  <2> PICK r \in Job(s).to : /\ Written(Home[s], r, Sent(s))
                             /\ job' = [job EXCEPT ![Home[s]].to = @ \ {r}]
    BY <1>3
  <2>1. r \in {s, NoSession}
    <3>1. Works(s, PostStages) /\ Local(s)
      BY <1>2 DEF Works, PostStages, IInv, ClientInv
    <3> QED
      BY <3>1 DEF Local
  <2>2. Goto(Home[s], [Job(s) EXCEPT !.to = Job(s).to \ {r}], "broadcast")
    <3> DEFINE j == [Job(s) EXCEPT !.to = Job(s).to \ {r}]
    <3>1. [j EXCEPT !.pc = "broadcast"] = j
      BY <1>1, <1>2 DEF AJob
    <3>2. job' = [job EXCEPT ![Home[s]] = j]
      BY DEF Job
    <3> QED
      BY <3>1, <3>2 DEF Goto
  <2>3. CASE r = s
    BY <1>2, <2>2, <2>3, TellsKeeps DEF Tells
  <2>4. CASE r = NoSession
    <3>1. UNCHANGED inbox
      BY <2>4 DEF Written
    <3> QED
      BY <1>2, <2>2, <2>4, <3>1, TellsNobodyKeeps DEF TellsNobody
  <2> QED
    BY <2>1, <2>3, <2>4
<1>4. CASE Job(s).to = {} /\ Goto(Home[s], Idle, "idle") /\ UNCHANGED inbox
  BY <1>2, <1>4, TellsNobodyKeeps DEF TellsNobody
<1> QED
  BY <1>3, <1>4 DEF BroadcastMessageToLiveUsers, Sent

-----------------------------------------------------------------------------
(* The attendance and the list of rooms, when nothing panics.              *)
Attends(v) ==
    /\ At(v, "attend") /\ (Success \/ Failure(v)) /\ Goto(v, Idle, "idle")
    /\ UNCHANGED <<conn, inbox, requests, clientVars, dbVars>>

ListsRooms(v) ==
    /\ At(v, "view") /\ Success
    /\ Written(v, job[v].s, Answer("view", TRUE, 0)) /\ Goto(v, Idle, "idle")
    /\ UNCHANGED <<conn, requests, clientVars, dbVars>>


LEMMA AttendsKeeps ==
    ASSUME IInv, NEW v \in Servers, Attends(v)
    PROVE  IInv'
<1>0. Types
  BY DEF IInv
<1>1. job[v].pc = "attend"
  BY DEF Attends, At
<1> PICK s \in Sessions : Home[s] = v /\ Job(s) = job[v] /\ Job(s).s = s
  BY <1>1, WorkerOf, StagesAre DEF StagesKnown
<1>2. Job(s) \in AJob /\ record[s] \in ARecord
  BY <1>0 DEF Types, Job
<1>4. Goto(Home[s], Idle, "idle") /\ Idle.s = NoSession /\ Idle.room = 0 /\ Idle.number = 0
  BY DEF Attends, Idle
<1>5. /\ job' \in [Servers -> AJob] /\ \A w \in Servers \ {Home[s]} : job'[w] = job[w]
      /\ Job(s)'.pc = "idle" /\ Job(s)'.s = NoSession /\ Job(s)'.room = 0 /\ Job(s)'.number = 0
  BY <1>0, <1>4, IdleIsAJob, GotoFacts
<1>6. /\ UNCHANGED <<conn, client, room, created, posted, requests, record,
                     chatRooms, messages, inbox, shown>>
      /\ failed' = failed \/ (failed' = failed \cup {Home[s]} /\ Home[s] \in Failing)
  BY DEF Attends, clientVars, dbVars, Success, Failure
<1>7. ServesOnly(s) /\ ServedTypes /\ GoesOn(s)
  <2>1. ServedTypes
    BY <1>0, <1>5, <1>6 DEF Types, ServedTypes
  <2> QED
    BY <1>5, <1>6, <2>1, StagesAre DEF ServesOnly, GoesOn, StagesKnown
<1>8. /\ "attend" \in Stages \ (AskStages \cup LoginStages \cup CreateStages \cup RecordStages \cup PostStages)
      /\ "idle" \notin
               (Stages \cup AskStages \cup LoginStages \cup CreateStages \cup RecordStages \cup PostStages)
  BY DEF Stages, AskStages, LoginStages, CreateStages, RecordStages, PostStages
<1>9. KeepsRooms(s)
  BY <1>1, <1>5, <1>6, <1>7, <1>8, ServedFacts DEF KeepsRooms, Holds, Works, IsQueued
<1>10. /\ Queue(s)' = Queue(s)
       /\ conn'[s] = conn[s] /\ client'[s] = client[s] /\ room'[s] = room[s]
       /\ created'[s] = created[s] /\ posted'[s] = posted[s] /\ shown'[s] = shown[s]
       /\ failed \subseteq failed' /\ (failed' = failed \/ Home[s] \in failed')
       /\ Local(s) /\ Waits(s) /\ InItsRoom(s) /\ LinesInOrder(s) /\ StoredInOrder(s)
       /\ Numbered(s) /\ HasRecord(s) /\ RecordFollows(s) /\ NoneLost(s)
  BY <1>7, ServedFacts
<1> USE <1>1, <1>5, <1>6, <1>8
<1>a. Local(s)' /\ Waits(s)' /\ InItsRoom(s)'
  BY <1>10 DEF Local, Waits, InItsRoom, Works, NoneQueued, IsQueued, IsPost, Heard
<1>b. LinesInOrder(s)' /\ StoredInOrder(s)' /\ Numbered(s)'
  <2>1. LinesInOrder(s)'
    BY <1>10 DEF LinesInOrder, Works, IsPost, Sending, Heard
  <2>2. StoredInOrder(s)'
    BY <1>10 DEF StoredInOrder, Works, IsPost
  <2>3. Numbered(s)'
    BY <1>10 DEF Numbered, Works, Heard, IsNumberOf
  <2> QED
    BY <2>1, <2>2, <2>3
<1>c. HasRecord(s)' /\ RecordFollows(s)' /\ NoneLost(s)'
  BY <1>10 DEF HasRecord, RecordFollows, NoneLost, Fine, Works, Follows, NoAnswer, Kept,
               Sending, Heard, IsQueued, IsPost
<1>11. ClientInv(s)'
  BY <1>a, <1>b, <1>c DEF ClientInv
<1> QED
  BY <1>6, <1>7, <1>9, <1>11, ServeKeeps

LEMMA ListsRoomsKeeps ==
    ASSUME IInv, NEW v \in Servers, ListsRooms(v)
    PROVE  IInv'
<1>0. Types
  BY DEF IInv
<1>1. job[v].pc = "view"
  BY DEF ListsRooms, At
<1> PICK s \in Sessions : Home[s] = v /\ Job(s) = job[v] /\ Job(s).s = s
  BY <1>1, WorkerOf, StagesAre DEF StagesKnown
<1>2. Job(s) \in AJob /\ record[s] \in ARecord
  BY <1>0 DEF Types, Job
<1> DEFINE p == Answer("view", TRUE, 0)
<1>3. Written(Home[s], s, p) /\ p \in APacket /\ p.kind = "view" /\ p.room = 0
  <2>1. NoLine \in ALine
    BY DEF NoLine, Line, ALine, Someone
  <2> QED
    BY <2>1 DEF ListsRooms, Answer, Packet, APacket
<1> HIDE DEF p
<1>4. Goto(Home[s], Idle, "idle") /\ Idle.s = NoSession /\ Idle.room = 0 /\ Idle.number = 0
  BY DEF ListsRooms, Idle
<1>5. /\ job' \in [Servers -> AJob] /\ \A w \in Servers \ {Home[s]} : job'[w] = job[w]
      /\ Job(s)'.pc = "idle" /\ Job(s)'.s = NoSession /\ Job(s)'.room = 0 /\ Job(s)'.number = 0
  BY <1>0, <1>4, IdleIsAJob, GotoFacts
<1>6. /\ UNCHANGED <<conn, client, room, created, posted, requests, record,
                     chatRooms, messages, shown>>
      /\ failed' = failed \/ (failed' = failed \cup {Home[s]} /\ Home[s] \in Failing)
      /\ \A t \in Sessions \ {s} : inbox'[t] = inbox[t]
      /\ inbox' \in [Sessions -> Seq(APacket)]
      /\ Arrives(s, p)
  <2>1. UNCHANGED <<conn, client, room, created, posted, requests, record, chatRooms,
                    messages, shown, failed>>
    BY DEF ListsRooms, clientVars, dbVars, Success
  <2> QED
    BY <1>0, <1>3, <2>1, WrittenFacts
<1>7. ServesOnly(s) /\ ServedTypes /\ GoesOn(s)
  <2>1. ServedTypes
    BY <1>0, <1>5, <1>6 DEF Types, ServedTypes
  <2> QED
    BY <1>5, <1>6, <2>1, StagesAre DEF ServesOnly, GoesOn, StagesKnown
<1>8. /\ "view" \in (Stages \cap AskStages) \ (LoginStages \cup CreateStages \cup RecordStages \cup PostStages)
      /\ "idle" \notin
               (Stages \cup AskStages \cup LoginStages \cup CreateStages \cup RecordStages \cup PostStages)
  BY DEF Stages, AskStages, LoginStages, CreateStages, RecordStages, PostStages
<1>9. KeepsRooms(s)
  <2> SUFFICES ASSUME NEW o \in Seq(Sessions), Holds(o, s) PROVE Holds(o, s)'
    BY DEF KeepsRooms
  <2>1. Mine(o, s, p.room)
    BY <1>1, <1>3, <1>8 DEF Holds, Works, Mine
  <2>2. \A i \in DOMAIN inbox'[s] : Mine(o, s, inbox'[s][i].room)
    BY <1>6, <2>1 DEF Holds, Arrives
  <2> QED
    BY <1>1, <1>5, <1>6, <1>7, <1>8, <2>2, ServedFacts DEF Holds, Works, IsQueued
<1>10. /\ Queue(s)' = Queue(s)
       /\ conn'[s] = conn[s] /\ client'[s] = client[s] /\ room'[s] = room[s]
       /\ created'[s] = created[s] /\ posted'[s] = posted[s] /\ shown'[s] = shown[s]
       /\ failed \subseteq failed' /\ (failed' = failed \/ Home[s] \in failed')
       /\ Local(s) /\ Waits(s) /\ InItsRoom(s) /\ LinesInOrder(s) /\ StoredInOrder(s)
       /\ Numbered(s) /\ HasRecord(s) /\ RecordFollows(s) /\ NoneLost(s)
  BY <1>7, ServedFacts
<1>12. /\ client[s] = "wait" /\ NoneQueued(s)
       /\ \A i \in DOMAIN inbox[s] : Heard(s, i)
       /\ Job(s).s = s /\ ~Works(s, RecordStages) /\ Job(s)'.s # s
  BY <1>1, <1>5, <1>8, <1>10 DEF Waits, Works
<1>13. /\ p.kind = "view" /\ p.room = 0
       /\ Arrives(s, p)
  BY <1>3, <1>6
<1>14. \A i \in DOMAIN inbox'[s] :
          \/ i \in DOMAIN inbox[s] /\ inbox'[s][i] = inbox[s][i]
          \/ inbox'[s][i] = p /\ i = Len(inbox'[s])
  BY <1>13 DEF Arrives
<1>15. \A i \in DOMAIN inbox[s] : i \in DOMAIN inbox'[s] /\ inbox'[s][i] = inbox[s][i]
  BY <1>13 DEF Arrives
<1>16. \A i \in DOMAIN inbox'[s] : inbox'[s][i].kind = "broadcast" =>
          i \in DOMAIN inbox[s] /\ inbox'[s][i] = inbox[s][i]
  BY <1>13, <1>14
<1> USE <1>1, <1>5, <1>6, <1>8
<1>a. Local(s)' /\ Waits(s)' /\ InItsRoom(s)'
  <2>1. Local(s)'
    BY <1>10, <1>12, <1>13, <1>14 DEF Local, Works, IsQueued, IsPost, Heard
  <2>2. Waits(s)'
    BY <1>10, <1>12, <1>13, <1>14 DEF Waits, Works, NoneQueued, IsQueued, IsPost, Heard
  <2>3. InItsRoom(s)'
    BY <1>10, <1>12, <1>16, SMTT(60) DEF InItsRoom, Works, IsQueued, IsPost, Heard
  <2> QED
    BY <2>1, <2>2, <2>3
<1>b. LinesInOrder(s)' /\ StoredInOrder(s)' /\ Numbered(s)'
  <2>1. LinesInOrder(s)'
    BY <1>10, <1>12, <1>16, SMTT(60) DEF LinesInOrder, Works, IsPost, Sending, Heard
  <2>2. StoredInOrder(s)'
    BY <1>10, <1>12 DEF StoredInOrder, Works, IsPost
  <2>3. Numbered(s)'
    BY <1>10, <1>12, <1>16 DEF Numbered, Works, IsNumberOf, Heard
  <2> QED
    BY <2>1, <2>2, <2>3
<1>c. HasRecord(s)' /\ RecordFollows(s)' /\ NoneLost(s)'
  <2>1. HasRecord(s)'
    BY <1>10, <1>12, <1>13, <1>14 DEF HasRecord, Fine, Works, IsQueued
  <2>2. RecordFollows(s)'
    <3>1. NoAnswer(s) /\ \A i \in DOMAIN inbox'[s] : inbox'[s][i].kind # "create"
      BY <1>12, <1>13, <1>14 DEF NoAnswer, Heard
    <3>2. ~Works(s, RecordStages) /\ ~Works(s, RecordStages)'
      BY <1>12 DEF Works
    <3> QED
      BY <1>10, <3>1, <3>2 DEF RecordFollows, Fine, Follows
  <2>3. NoneLost(s)'
    <3>1. ~Works(s, PostStages) /\ ~Sending(s)
      BY DEF Works, Sending, PostStages
    <3>2. SUFFICES ASSUME NEW k, Kept(s, k) PROVE Kept(s, k)'
      BY <1>10 DEF NoneLost, Fine
    <3> QED
      BY <1>10, <1>15, <3>1, <3>2, SMTT(60) DEF Kept, Works, Heard, IsPost
  <2> QED
    BY <2>1, <2>2, <2>3
<1>11. ClientInv(s)'
  BY <1>a, <1>b, <1>c DEF ClientInv
<1> QED
  BY <1>6, <1>7, <1>9, <1>11, ServeKeeps

(* A panic ends the process, and with it all connections of the server.    *)
Panics(v) == Panic(v) /\ UNCHANGED <<clientVars, dbVars>>

LEMMA PanicFacts ==
    ASSUME IInv, NEW v \in Servers, Panics(v)
    PROVE  /\ UNCHANGED <<client, room, created, posted, shown, record, chatRooms, messages>>
           /\ failed' = failed \cup {v} /\ v \in Failing
           /\ job' \in [Servers -> AJob] /\ job'[v].pc = "crashed"
           /\ job'[v].s = NoSession /\ job'[v].room = 0 /\ job'[v].number = 0
           /\ requests' \in [Servers -> Seq(ARequest)] /\ requests'[v] = <<>>
           /\ \A w \in Servers \ {v} : job'[w] = job[w] /\ requests'[w] = requests[w]
           /\ conn' \in [Sessions -> {"open", "closed"}]
           /\ inbox' \in [Sessions -> Seq(APacket)]
           /\ \A s \in Sessions : Home[s] = v => conn'[s] = "closed" /\ inbox'[s] = <<>>
           /\ \A s \in Sessions : Home[s] # v => conn'[s] = conn[s] /\ inbox'[s] = inbox[s]
<1>1. Types
  BY DEF IInv
<1>2. UNCHANGED <<client, room, created, posted, shown, record, chatRooms, messages>>
  BY DEF Panics, clientVars, dbVars
<1>3. failed' = failed \cup {v} /\ v \in Failing
  BY DEF Panics, Panic, Failure
<1>4. /\ job' \in [Servers -> AJob] /\ job'[v].pc = "crashed"
      /\ job'[v].s = NoSession /\ job'[v].room = 0 /\ job'[v].number = 0
      /\ \A w \in Servers \ {v} : job'[w] = job[w]
  <2> DEFINE j == [Idle EXCEPT !.pc = "crashed"]
  <2>1. j \in AJob /\ j.pc = "crashed" /\ j.s = NoSession /\ j.room = 0 /\ j.number = 0
    BY IdleIsAJob DEF AJob, Idle
  <2>2. job' = [job EXCEPT ![v] = j] /\ job \in [Servers -> AJob]
    BY <1>1 DEF Types, Panics, Panic, Goto
  <2> HIDE DEF j
  <2> QED
    BY <2>1, <2>2
<1>5. /\ requests' \in [Servers -> Seq(ARequest)] /\ requests'[v] = <<>>
      /\ \A w \in Servers \ {v} : requests'[w] = requests[w]
  BY <1>1 DEF Types, Panics, Panic
<1>6. /\ conn' \in [Sessions -> {"open", "closed"}]
      /\ \A s \in Sessions : Home[s] = v => conn'[s] = "closed"
      /\ \A s \in Sessions : Home[s] # v => conn'[s] = conn[s]
  BY <1>1 DEF Types, Panics, Panic
<1>7. /\ inbox' \in [Sessions -> Seq(APacket)]
      /\ \A s \in Sessions : Home[s] = v => inbox'[s] = <<>>
      /\ \A s \in Sessions : Home[s] # v => inbox'[s] = inbox[s]
  BY <1>1 DEF Types, Panics, Panic
<1> QED
  BY <1>2, <1>3, <1>4, <1>5, <1>6, <1>7

LEMMA PanicKeeps ==
    ASSUME IInv, NEW v \in Servers, Panics(v)
    PROVE  IInv'
<1>1. Types /\ AtHome /\ OneOwner /\ \A s \in Sessions : ClientInv(s)
  BY DEF IInv
<1>2. Types'
  BY <1>1, PanicFacts DEF Types
<1>3. AtHome'
  <2> SUFFICES ASSUME NEW w \in Servers
               PROVE  /\ job'[w].pc \in Stages => job'[w].s \in Sessions /\ Home[job'[w].s] = w
                      /\ job'[w].pc \notin Stages =>
                            job'[w].s = NoSession /\ job'[w].room = 0 /\ job'[w].number = 0
                      /\ \A i \in DOMAIN requests'[w] : Home[requests'[w][i].s] = w
    BY DEF AtHome
  <2>1. CASE w = v
    <3>1. "crashed" \notin Stages /\ DOMAIN requests'[w] = {}
      BY <2>1, PanicFacts, StagesAre DEF StagesKnown
    <3> QED
      BY <2>1, <3>1, PanicFacts
  <2>2. CASE w # v
    <3>1. job'[w] = job[w] /\ requests'[w] = requests[w]
      BY <2>2, PanicFacts
    <3>2. /\ job[w].pc \in Stages => job[w].s \in Sessions /\ Home[job[w].s] = w
          /\ job[w].pc \notin Stages =>
                job[w].s = NoSession /\ job[w].room = 0 /\ job[w].number = 0
          /\ \A i \in DOMAIN requests[w] : Home[requests[w][i].s] = w
      BY <1>1 DEF AtHome
    <3> QED
      BY <3>1, <3>2
  <2> QED
    BY <2>1, <2>2
<1>4. ASSUME NEW s \in Sessions, Home[s] # v PROVE Same(s)
  <2>1. Job(s)' = Job(s) /\ Queue(s)' = Queue(s)
    BY <1>4, PanicFacts DEF Job, Queue
  <2>2. SameQueue(s, 0)
    <3>1. DOMAIN Queue(s) \subseteq Int
      BY <1>1 DEF Types, Queue
    <3> QED
      BY <2>1, <3>1 DEF SameQueue, IsQueued
  <2> QED
    BY <1>1, <1>4, <2>1, <2>2, PanicFacts, MessagesUnchanged DEF Same, SameJob
<1>5. ASSUME NEW s \in Sessions, Home[s] = v
      PROVE  /\ conn'[s] = "closed" /\ inbox'[s] = <<>> /\ Queue(s)' = <<>>
             /\ Job(s)'.s = NoSession /\ client'[s] = client[s] /\ room'[s] = room[s]
             /\ created'[s] = created[s] /\ posted'[s] = posted[s]
             /\ record'[s] = record[s] /\ shown'[s] = shown[s] /\ messages' = messages
  BY <1>5, PanicFacts DEF Queue, Job
<1>6. OneOwner'
  <2>1. PICK o \in [DOMAIN chatRooms -> Sessions] : Owned(o)
    BY <1>1 DEF OneOwner
  <2>2. ASSUME NEW s \in Sessions PROVE Holds(o, s)'
    <3>1. Holds(o, s)
      BY <2>1 DEF Owned
    <3>2. CASE Home[s] = v
      BY <1>5, <3>1, <3>2 DEF Holds, Works
    <3>3. CASE Home[s] # v
      BY <1>2, <1>1, <1>4, <3>1, <3>3, SameHolds
    <3> QED
      BY <3>2, <3>3
  <2>3. HoldsMessages(o)'
    BY <2>1, PanicFacts DEF Owned, HoldsMessages
  <2>4. chatRooms' = chatRooms
    BY PanicFacts
  <2> QED
    BY <2>1, <2>2, <2>3, <2>4 DEF OneOwner, Owned
<1>7. ASSUME NEW s \in Sessions, Home[s] = v PROVE ClientInv(s)'
  <2>1. /\ ~Works(s, Stages)' /\ ~Works(s, PostStages)' /\ ~Sending(s)' /\ ~Fine(s)'
        /\ \A stages : ~Works(s, stages)'
    BY <1>5, <1>7 DEF Works, Sending, Fine
  <2>2. /\ Local(s) /\ InItsRoom(s) /\ LinesInOrder(s) /\ StoredInOrder(s) /\ Numbered(s)
    BY <1>1 DEF ClientInv
  <2>3. DOMAIN Queue(s)' = {} /\ DOMAIN inbox'[s] = {}
    BY <1>5, <1>7
  <2>4. Local(s)' /\ Waits(s)' /\ InItsRoom(s)'
    BY <1>5, <1>7, <2>2, <2>3 DEF Local, Waits, InItsRoom, Works
  <2>5. LinesInOrder(s)' /\ StoredInOrder(s)' /\ Numbered(s)'
    BY <1>5, <1>7, <2>2, <2>3 DEF LinesInOrder, StoredInOrder, Numbered, Works, Sending, IsNumberOf
  <2>6. HasRecord(s)' /\ RecordFollows(s)' /\ NoneLost(s)'
    BY <2>1 DEF HasRecord, RecordFollows, NoneLost
  <2> QED
    BY <2>4, <2>5, <2>6 DEF ClientInv
<1>8. ASSUME NEW s \in Sessions, Home[s] # v PROVE ClientInv(s)'
  BY <1>1, <1>2, <1>4, <1>8, SameKeeps
<1> QED
  BY <1>2, <1>3, <1>6, <1>7, <1>8 DEF IInv

LEMMA InsertAttendanceInformationKeeps ==
    ASSUME IInv, NEW v \in Servers, InsertAttendanceInformation(v)
    PROVE  IInv'
<1>1. Attends(v) \/ Panics(v)
  BY DEF InsertAttendanceInformation, Attends, Panics, clientVars, dbVars
<1> QED
  BY <1>1, AttendsKeeps, PanicKeeps

LEMMA ViewAvailableChatRoomKeeps ==
    ASSUME IInv, NEW v \in Servers, ViewAvailableChatRoom(v)
    PROVE  IInv'
<1>1. ListsRooms(v) \/ Panics(v)
  BY DEF ViewAvailableChatRoom, ListsRooms, Panics, clientVars, dbVars
<1> QED
  BY <1>1, ListsRoomsKeeps, PanicKeeps

-----------------------------------------------------------------------------
(* A new room belongs to the client that asked for it.                     *)
LEMMA OwnersGrow ==
    ASSUME Types, Types', OneOwner, messages' = messages, NEW s \in Sessions,
           Len(chatRooms') = Len(chatRooms) + 1,
           \A t \in Sessions \ {s} : Same(t),
           \A o, p \in Seq(Sessions) :
               /\ Holds(o, s) /\ Len(o) = Len(chatRooms)
               /\ \A r : Mine(o, s, r) => Mine(p, s, r)
               /\ Mine(p, s, Len(o) + 1)
               => Holds(p, s)'
    PROVE  OneOwner'
<1>1. PICK o \in [DOMAIN chatRooms -> Sessions] : Owned(o)
  BY DEF OneOwner
<1> DEFINE p == Append(o, s)
<1>2. /\ o \in Seq(Sessions) /\ Len(o) = Len(chatRooms) /\ Len(o) \in Nat
      /\ \A t \in Sessions : Holds(o, t)
      /\ HoldsMessages(o)
  BY <1>1 DEF Owned
<1>3. /\ p \in Seq(Sessions) /\ Len(p) = Len(o) + 1 /\ Len(p) \in Nat
      /\ \A r \in 1 .. Len(o) : p[r] = o[r]
      /\ p[Len(o) + 1] = s
  BY <1>2, AppendProperties
<1> HIDE DEF p
<1>4. /\ \A t, r : Mine(o, t, r) => Mine(p, t, r)
      /\ Mine(p, s, Len(o) + 1)
  <2>1. ASSUME NEW t, NEW r, Mine(o, t, r) PROVE Mine(p, t, r)
    BY <1>2, <1>3, <2>1 DEF Mine
  <2> QED
    BY <1>2, <1>3, <2>1 DEF Mine
<1>5. ASSUME NEW t \in Sessions PROVE Holds(p, t)'
  <2>1. CASE t = s
    BY <1>2, <1>3, <1>4, <2>1
  <2>2. CASE t # s
    BY <1>2, <1>3, <2>2, SameHolds
  <2> QED
    BY <2>1, <2>2
<1>6. HoldsMessages(p)'
  BY <1>2, <1>4 DEF HoldsMessages
<1>7. p \in [DOMAIN chatRooms' -> Sessions]
  <2>1. DOMAIN chatRooms' = 1 .. Len(p) /\ p \in [1 .. Len(p) -> Sessions]
    BY <1>2, <1>3 DEF Types
  <2> QED
    BY <2>1
<1>8. Owned(p)'
  BY <1>2, <1>3, <1>5, <1>6 DEF Owned
<1> QED
  BY <1>7, <1>8 DEF OneOwner

LEMMA CreateNewChatRoomKeeps ==
    ASSUME IInv, NEW v \in Servers, CreateNewChatRoom(v)
    PROVE  IInv'
<1>0. Types
  BY DEF IInv
<1>1. job[v].pc = "insert_room"
  BY DEF CreateNewChatRoom, At
<1> PICK s \in Sessions : Home[s] = v /\ Job(s) = job[v] /\ Job(s).s = s
  BY <1>1, WorkerOf, StagesAre DEF StagesKnown
<1>2. Job(s) \in AJob /\ record[s] \in ARecord
  BY <1>0 DEF Types, Job
<1>3. PICK r \in Int, ok \in BOOLEAN :
         /\ Goto(Home[s], [Job(s) EXCEPT !.room = r, !.ok = ok], "answer_create")
         /\ \/ /\ chatRooms' \in Seq(Users) /\ Len(chatRooms') = Len(chatRooms) + 1
               /\ r = Len(chatRooms) + 1 /\ ok = Job(s).ok
            \/ chatRooms' = chatRooms /\ r = -1 /\ ok = FALSE
  <2>1. chatRooms \in Seq(Users) /\ Len(chatRooms) + 1 \in Int
    BY <1>0 DEF Types
  <2>2. CASE /\ Job(s).user \in Users /\ chatRooms' = Append(chatRooms, Job(s).user)
             /\ Goto(Home[s], [Job(s) EXCEPT !.room = Len(chatRooms) + 1], "answer_create")
    <3>1. chatRooms' \in Seq(Users) /\ Len(chatRooms') = Len(chatRooms) + 1
      BY <2>1, <2>2, AppendProperties
    <3>2. [Job(s) EXCEPT !.room = Len(chatRooms) + 1] =
          [Job(s) EXCEPT !.room = Len(chatRooms) + 1, !.ok = Job(s).ok]
      BY <1>2 DEF AJob
    <3>3. Job(s).ok \in BOOLEAN /\ Len(chatRooms) + 1 \in Int
      BY <1>2, <2>1 DEF AJob
    <3>4. Goto(Home[s], [Job(s) EXCEPT !.room = Len(chatRooms) + 1, !.ok = Job(s).ok],
               "answer_create")
      BY <2>2, <3>2
    <3> USE <3>3
    <3> WITNESS Len(chatRooms) + 1 \in Int, Job(s).ok \in BOOLEAN
    <3> QED
      BY <3>1, <3>4, Zenon
  <2>3. CASE /\ chatRooms' = chatRooms
             /\ Goto(Home[s], [Job(s) EXCEPT !.room = -1, !.ok = FALSE], "answer_create")
    <3>1. -1 \in Int /\ FALSE \in BOOLEAN
      OBVIOUS
    <3> USE <3>1
    <3> WITNESS -1 \in Int, FALSE \in BOOLEAN
    <3> QED
      BY <2>3, Zenon
  <2> QED
    BY <2>2, <2>3 DEF CreateNewChatRoom, MayCreate
<1> DEFINE j == [Job(s) EXCEPT !.room = r, !.ok = ok]
<1>4. /\ Goto(Home[s], j, "answer_create") /\ j \in AJob /\ j.s = s /\ j.room = r
      /\ j.ok = ok /\ j.number = Job(s).number /\ "answer_create" \in Stages
  BY <1>2, <1>3, StagesAre DEF AJob, StagesKnown
<1> HIDE DEF j
<1>5. /\ job' \in [Servers -> AJob] /\ \A w \in Servers \ {Home[s]} : job'[w] = job[w]
      /\ Job(s)'.pc = "answer_create" /\ Job(s)'.s = s
      /\ Job(s)'.room = r /\ Job(s)'.number = Job(s).number /\ Job(s)'.ok = ok
  BY <1>0, <1>4, GotoFacts
<1>6. /\ UNCHANGED <<conn, client, room, created, posted, requests, record,
                     messages, inbox, shown>>
      /\ failed' = failed \/ (failed' = failed \cup {Home[s]} /\ Home[s] \in Failing)
  BY DEF CreateNewChatRoom, clientVars, Success, Failure
<1>7. ServesOnly(s) /\ ServedTypes /\ GoesOn(s)
  <2>1. ServedTypes
    BY <1>0, <1>3, <1>5, <1>6 DEF Types, ServedTypes
  <2> QED
    BY <1>5, <1>6, <2>1, StagesAre DEF ServesOnly, GoesOn, StagesKnown
<1>8. /\ "insert_room" \in (Stages \cap AskStages \cap CreateStages) \ (LoginStages \cup RecordStages \cup PostStages)
      /\ "answer_create" \in (Stages \cap AskStages \cap CreateStages)
               \ (LoginStages \cup RecordStages \cup PostStages)
  BY DEF Stages, AskStages, LoginStages, CreateStages, RecordStages, PostStages
<1>9. Types' /\ AtHome' /\ \A t \in Sessions \ {s} : Same(t)
  BY <1>0, <1>6, <1>7, MessagesUnchanged, ServeFacts
<1>10. /\ Queue(s)' = Queue(s)
       /\ conn'[s] = conn[s] /\ client'[s] = client[s] /\ room'[s] = room[s]
       /\ created'[s] = created[s] /\ posted'[s] = posted[s] /\ shown'[s] = shown[s]
       /\ failed \subseteq failed' /\ (failed' = failed \/ Home[s] \in failed')
       /\ Local(s) /\ Waits(s) /\ InItsRoom(s) /\ LinesInOrder(s) /\ StoredInOrder(s)
       /\ Numbered(s) /\ HasRecord(s) /\ RecordFollows(s) /\ NoneLost(s)
  BY <1>7, ServedFacts
<1>12. r >= -1 /\ (ok <=> r >= 1)
  <2>1. Job(s).ok = TRUE
    BY <1>1, <1>10 DEF Local, Works
  <2>2. Len(chatRooms) \in Nat
    BY <1>0 DEF Types
  <2> QED
    BY <1>3, <2>1, <2>2
<1> USE <1>1, <1>5, <1>6, <1>8, <1>12
<1>a. Local(s)' /\ Waits(s)' /\ InItsRoom(s)'
  <2>1. Local(s)'
    BY <1>10 DEF Local, Works, IsQueued, IsPost, Heard
  <2>2. Waits(s)'
    BY <1>10 DEF Waits, Works, NoneQueued, IsQueued, IsPost, Heard
  <2>3. InItsRoom(s)'
    BY <1>10 DEF InItsRoom, Works, IsQueued, IsPost, Heard
  <2> QED
    BY <2>1, <2>2, <2>3
<1>b. LinesInOrder(s)' /\ StoredInOrder(s)' /\ Numbered(s)'
  <2>1. LinesInOrder(s)'
    BY <1>10 DEF LinesInOrder, Works, IsPost, Sending, Heard
  <2>2. StoredInOrder(s)'
    BY <1>10 DEF StoredInOrder, Works, IsPost
  <2>3. Numbered(s)'
    BY <1>10 DEF Numbered, Works, Heard, IsNumberOf
  <2> QED
    BY <2>1, <2>2, <2>3
<1>c. HasRecord(s)' /\ RecordFollows(s)' /\ NoneLost(s)'
  BY <1>10 DEF HasRecord, RecordFollows, NoneLost, Fine, Works, Follows, NoAnswer, Kept,
               Sending, Heard, IsQueued, IsPost
<1>11. ClientInv(s)'
  BY <1>a, <1>b, <1>c DEF ClientInv
<1>13. OneOwner'
  <2>1. OneOwner
    BY DEF IInv
  <2>2. CASE Len(chatRooms') = Len(chatRooms) + 1 /\ r = Len(chatRooms) + 1
    <3>1. ASSUME NEW o \in Seq(Sessions), NEW p \in Seq(Sessions), Holds(o, s),
                 Len(o) = Len(chatRooms),
                 \A i : Mine(o, s, i) => Mine(p, s, i), Mine(p, s, Len(o) + 1)
          PROVE  Holds(p, s)'
      BY <1>1, <1>10, <2>2, <3>1 DEF Holds, Works, IsQueued
    <3> QED
      BY <1>0, <1>6, <1>9, <2>1, <2>2, <3>1, OwnersGrow
  <2>3. CASE chatRooms' = chatRooms /\ r = -1
    <3>1. ASSUME NEW o \in Seq(Sessions), Holds(o, s) PROVE Holds(o, s)'
      <4>1. Mine(o, s, r)
        BY <2>3 DEF Mine
      <4> QED
        BY <1>1, <1>10, <3>1, <4>1 DEF Holds, Works, IsQueued
    <3> QED
      BY <1>0, <1>6, <1>9, <2>1, <2>3, <3>1, OwnersUnchanged
  <2> QED
    BY <1>3, <2>2, <2>3
<1>14. \A t \in Sessions : ClientInv(t)'
  BY <1>0, <1>9, <1>11, SameKeeps DEF IInv
<1> QED
  BY <1>9, <1>13, <1>14 DEF IInv

-----------------------------------------------------------------------------
(* The line of the job becomes the last of the messages, or is not stored. *)
Stored(s) ==
    /\ \A n \in DOMAIN messages : n \in DOMAIN messages' /\ messages'[n] = messages[n]
    /\ \A n \in DOMAIN messages' :
          \/ n \in DOMAIN messages
          \/ /\ n = Len(messages) + 1
             /\ messages'[n].line = Job(s).line /\ messages'[n].room = Job(s).room

(* The lines stay in order while the server works at the one it has.       *)
LEMMA LinesStay ==
    ASSUME NEW s \in Sessions, LinesInOrder(s), Works(s, PostStages), Sending(s),
           Queue(s)' = Queue(s), Job(s)'.line = Job(s).line,
           UNCHANGED <<inbox, shown, posted>>
    PROVE  LinesInOrder(s)'
<1>1. /\ inbox'[s] = inbox[s] /\ shown'[s] = shown[s] /\ posted'[s] = posted[s]
  OBVIOUS
<1>2. \A i : (Heard(s, i)' <=> Heard(s, i)) /\ (IsPost(s, i)' <=> IsPost(s, i))
  BY <1>1 DEF Heard, IsPost
<1> QED
  BY <1>1, <1>2 DEF LinesInOrder

LEMMA StoredFacts ==
    ASSUME Types, NEW s \in Sessions, NEW m \in AMessage,
           m.line = Job(s).line, m.room = Job(s).room, messages' = Append(messages, m)
    PROVE  /\ messages' \in Seq(AMessage) /\ Len(messages') = Len(messages) + 1
           /\ Stored(s)
           /\ Len(messages) + 1 \in DOMAIN messages'
           /\ messages'[Len(messages) + 1] = m
<1>1. messages \in Seq(AMessage) /\ Len(messages) \in Nat /\ DOMAIN messages = 1 .. Len(messages)
  BY DEF Types
<1>2. /\ messages' \in Seq(AMessage) /\ Len(messages') = Len(messages) + 1
      /\ DOMAIN messages' = 1 .. Len(messages) + 1
      /\ \A n \in 1 .. Len(messages) : messages'[n] = messages[n]
      /\ messages'[Len(messages) + 1] = m
  BY <1>1, AppendProperties
<1> QED
  BY <1>1, <1>2 DEF Stored

LEMMA StoreMessageKeeps ==
    ASSUME IInv, NEW v \in Servers, StoreMessage(v)
    PROVE  IInv'
<1>0. Types
  BY DEF IInv
<1>1. job[v].pc = "insert_message"
  BY DEF StoreMessage, At
<1> PICK s \in Sessions : Home[s] = v /\ Job(s) = job[v] /\ Job(s).s = s
  BY <1>1, WorkerOf, StagesAre DEF StagesKnown
<1>2. Job(s) \in AJob /\ record[s] \in ARecord
  BY <1>0 DEF Types, Job
<1>3. /\ Local(s) /\ Works(s, PostStages) /\ Works(s, {"insert_message"})
      /\ Job(s).room >= 1 /\ Job(s).line.by = s
  BY <1>1 DEF Works, PostStages, IInv, ClientInv, Local
<1> DEFINE j == NotStored(Job(s))
<1>4. /\ j \in AJob /\ j.s = s /\ j.room = Job(s).room /\ j.line = Job(s).line
      /\ j.number = -1 /\ j.to = Job(s).to
      /\ "retrieve" \in Stages /\ "select_number" \in Stages
  <2>1. /\ j \in AJob /\ j.s = Job(s).s /\ j.room = Job(s).room /\ j.line = Job(s).line
        /\ j.number = -1 /\ j.to = Job(s).to
    <3> PICK n \in Int, b \in BOOLEAN :
             n = -1 /\ j = [Job(s) EXCEPT !.number = n, !.ok = b]
      <4>1. -1 \in Int /\ FALSE \in BOOLEAN
        OBVIOUS
      <4> USE <4>1
      <4> WITNESS -1 \in Int, FALSE \in BOOLEAN
      <4> QED
        BY Zenon DEF NotStored
    <3> HIDE DEF j
    <3> DEFINE x == [Job(s) EXCEPT !.number = n, !.ok = b]
    <3>1. x \in AJob
      BY <1>2 DEF AJob
    <3>2. /\ x.s = Job(s).s /\ x.room = Job(s).room /\ x.line = Job(s).line
          /\ x.number = n /\ x.to = Job(s).to
      BY <1>2 DEF AJob
    <3> QED
      BY <3>1, <3>2
  <2> QED
    BY <2>1, StagesAre DEF StagesKnown
<1> DEFINE m == [room |-> Job(s).room, user |-> Job(s).user, line |-> Job(s).line]
<1>12. m \in AMessage /\ m.line = Job(s).line /\ m.room = Job(s).room
  BY <1>2 DEF AMessage, AJob
<1>13. \/ messages' = Append(messages, m) /\ Goto(Home[s], Job(s), "select_number")
       \/ messages' = messages /\ Goto(Home[s], j, "retrieve")
  BY DEF StoreMessage
<1> HIDE DEF j, m
<1>5. /\ job' \in [Servers -> AJob] /\ \A w \in Servers \ {Home[s]} : job'[w] = job[w]
      /\ Job(s)'.pc \in {"select_number", "retrieve"} /\ Job(s)'.s = s
      /\ Job(s)'.room = Job(s).room /\ Job(s)'.line = Job(s).line /\ Job(s)'.to = Job(s).to
      /\ Job(s)'.number \in {-1, Job(s).number}
      /\ Job(s)'.pc = "retrieve" => Job(s)'.number = -1
      /\ messages' \in Seq(AMessage) /\ Stored(s) /\ Len(messages) <= Len(messages')
      /\ Job(s)'.pc = "select_number" => /\ Len(messages) + 1 \in DOMAIN messages'
                                     /\ messages'[Len(messages) + 1] = m
  <2>1. CASE messages' = Append(messages, m) /\ Goto(Home[s], Job(s), "select_number")
    <3>1. /\ messages' \in Seq(AMessage) /\ Stored(s) /\ Len(messages) <= Len(messages')
          /\ Len(messages) + 1 \in DOMAIN messages' /\ messages'[Len(messages) + 1] = m
      <4>1. Len(messages) \in Nat
        BY <1>0 DEF Types
      <4> QED
        BY <1>0, <1>12, <2>1, <4>1, StoredFacts
    <3> QED
      BY <1>0, <1>2, <1>4, <2>1, <3>1, GotoFacts
  <2>2. CASE messages' = messages /\ Goto(Home[s], j, "retrieve")
    <3>1. messages' \in Seq(AMessage) /\ Stored(s) /\ Len(messages) <= Len(messages')
      BY <1>0, <2>2 DEF Types, Stored
    <3> QED
      BY <1>0, <1>4, <2>2, <3>1, GotoFacts
  <2> QED
    BY <1>13, <2>1, <2>2
<1>6. /\ UNCHANGED <<conn, client, room, created, posted, requests, record,
                     chatRooms, inbox, shown>>
      /\ failed' = failed \/ (failed' = failed \cup {Home[s]} /\ Home[s] \in Failing)
  BY DEF StoreMessage, clientVars, Success, Failure
<1>7. ServesOnly(s) /\ ServedTypes /\ GoesOn(s)
  <2>1. ServedTypes
    BY <1>0, <1>5, <1>6 DEF Types, ServedTypes
  <2> QED
    BY <1>5, <1>6, <2>1, StagesAre DEF ServesOnly, GoesOn, StagesKnown
<1>8. /\ "insert_message" \in (Stages \cap PostStages) \ (AskStages \cup LoginStages \cup CreateStages \cup RecordStages)
      /\ "select_number" \in (Stages \cap PostStages)
               \ (AskStages \cup LoginStages \cup CreateStages \cup RecordStages)
      /\ "retrieve" \in (Stages \cap PostStages)
               \ (AskStages \cup LoginStages \cup CreateStages \cup RecordStages)
  BY DEF Stages, AskStages, LoginStages, CreateStages, RecordStages, PostStages
<1>9. Types' /\ AtHome' /\ \A t \in Sessions \ {s} : Same(t)
  <2>1. ASSUME NEW t \in Sessions \ {s} PROVE MessagesGrow(t)
    <3>1. \A n \in DOMAIN messages' \ DOMAIN messages : messages'[n].line.by = s
      BY <1>3, <1>5 DEF Stored
    <3> QED
      BY <1>5, <2>1, <3>1 DEF MessagesGrow, Stored
  <2> QED
    BY <1>7, <2>1, ServeFacts
<1>10. /\ Queue(s)' = Queue(s)
       /\ conn'[s] = conn[s] /\ client'[s] = client[s] /\ room'[s] = room[s]
       /\ created'[s] = created[s] /\ posted'[s] = posted[s] /\ shown'[s] = shown[s]
       /\ failed \subseteq failed' /\ (failed' = failed \/ Home[s] \in failed')
       /\ Local(s) /\ Waits(s) /\ InItsRoom(s) /\ LinesInOrder(s) /\ StoredInOrder(s)
       /\ Numbered(s) /\ HasRecord(s) /\ RecordFollows(s) /\ NoneLost(s)
  BY <1>7, ServedFacts
<1>14. /\ Works(s, PostStages)' /\ Sending(s) /\ Sending(s)'
       /\ ~Works(s, {"post", "insert_message"})'
  BY <1>1, <1>5, <1>8 DEF Works, Sending
<1>15. /\ \A n \in DOMAIN messages : n \in Nat /\ n \in DOMAIN messages' /\ messages'[n] = messages[n]
       /\ \A n \in DOMAIN messages' :
             \/ n \in DOMAIN messages
             \/ /\ n = Len(messages) + 1
                /\ messages'[n].line = Job(s).line /\ messages'[n].room = Job(s).room
       /\ Len(messages) \in Nat /\ Len(messages') \in Nat
       /\ DOMAIN messages = 1 .. Len(messages)
  BY <1>0, <1>5 DEF Types, Stored
<1> USE <1>1, <1>6, <1>8
<1>a. Local(s)' /\ Waits(s)' /\ InItsRoom(s)'
  <2>1. Local(s)'
    BY <1>3, <1>5, <1>10 DEF Local, Works, IsQueued, IsPost, Heard
  <2>2. Waits(s)'
    BY <1>5, <1>10 DEF Waits, Works, NoneQueued, IsQueued, IsPost, Heard
  <2>3. InItsRoom(s)'
    BY <1>5, <1>10 DEF InItsRoom, Works, IsQueued, IsPost, Heard
  <2> QED
    BY <2>1, <2>2, <2>3
<1>b. LinesInOrder(s)' /\ StoredInOrder(s)' /\ Numbered(s)'
  <2>1. LinesInOrder(s)'
    <3>1. LinesInOrder(s) /\ Works(s, PostStages)
      BY <1>3, <1>10
    <3> QED
      BY <1>5, <1>10, <1>14, <3>1, LinesStay
  <2>2. StoredInOrder(s)'
    <3>1. /\ StoredInOrder(s) /\ LinesInOrder(s)
          /\ Works(s, PostStages) /\ Works(s, {"post", "insert_message"})
      BY <1>3, <1>10 DEF Works
    <3>2. /\ Job(s).line.k <= posted[s] /\ Job(s).line.k \in Nat
          /\ \A k \in DOMAIN Queue(s) : IsPost(s, k) => Job(s).line.k < Queue(s)[k].line.k
          /\ \A n \in DOMAIN messages : messages[n].line.k \in Nat
      BY <1>0, <3>1, LineTypes DEF LinesInOrder
    <3>3. ASSUME NEW n \in DOMAIN messages', messages'[n].line.by = s
          PROVE  /\ messages'[n].line.k <= posted[s] /\ messages'[n].line.k <= Job(s).line.k
                 /\ \A i \in DOMAIN messages' : i < n /\ messages'[i].line.by = s =>
                       messages'[i].line.k < messages'[n].line.k
                 /\ \A i \in DOMAIN Queue(s) : IsPost(s, i) =>
                       messages'[n].line.k < Queue(s)[i].line.k
      <4>1. CASE n \in DOMAIN messages
        <5>1. messages'[n] = messages[n] /\ n <= Len(messages)
          BY <1>15, <4>1
        <5>2. \A i \in DOMAIN messages' : i < n => i \in DOMAIN messages /\ messages'[i] = messages[i]
          BY <1>15, <4>1, <5>1
        <5>3. messages[n].line.k <= posted[s] /\ messages[n].line.k < Job(s).line.k
          BY <3>1, <3>3, <4>1, <5>1 DEF StoredInOrder
        <5>4. messages[n].line.k <= Job(s).line.k
          BY <3>2, <4>1, <5>3
        <5> QED
          BY <3>1, <3>3, <4>1, <5>1, <5>2, <5>3, <5>4 DEF StoredInOrder
      <4>2. CASE n = Len(messages) + 1 /\ messages'[n].line = Job(s).line
        <5>1. \A i \in DOMAIN messages' : i < n => i \in DOMAIN messages /\ messages'[i] = messages[i]
          BY <1>15, <4>2
        <5>2. \A i \in DOMAIN messages : messages[i].line.by = s =>
                 messages[i].line.k < Job(s).line.k
          BY <3>1 DEF StoredInOrder
        <5> QED
          BY <3>2, <4>2, <5>1, <5>2
      <4> QED
        BY <1>15, <4>1, <4>2
    <3> QED
      BY <1>5, <1>10, <1>14, <3>3 DEF StoredInOrder, IsPost
  <2>3. Numbered(s)'
    <3>1. Numbered(s)
      BY <1>10
    <3>2. \A n, r, line : IsNumberOf(n, r, line) => IsNumberOf(n, r, line)'
      BY <1>15 DEF IsNumberOf
    <3>3. Job(s)'.number \in -1 .. Len(messages')
      <4>1. Job(s).number \in -1 .. Len(messages)
        BY <1>1, <3>1 DEF Numbered, Works
      <4> QED
        BY <1>5, <1>15, <4>1
    <3>4. Works(s, {"select_number"})' =>
             \E n \in DOMAIN messages' :
                messages'[n].line = Job(s)'.line /\ messages'[n].room = Job(s)'.room
      BY <1>5, <1>12 DEF Works
    <3>5. Works(s, {"retrieve", "broadcast"})' => Job(s)'.number = -1
      BY <1>5 DEF Works
    <3>6. /\ \A i \in DOMAIN inbox[s] : Heard(s, i) =>
                IsNumberOf(inbox[s][i].number, inbox[s][i].room, inbox[s][i].line)'
          /\ \A i \in DOMAIN shown[s] :
                IsNumberOf(shown[s][i].number, shown[s][i].room, shown[s][i].line)'
      BY <3>1, <3>2 DEF Numbered
    <3> QED
      BY <3>3, <3>4, <3>5, <3>6 DEF Numbered, IsNumberOf, Heard
  <2> QED
    BY <2>1, <2>2, <2>3
<1>c. HasRecord(s)' /\ RecordFollows(s)' /\ NoneLost(s)'
  <2>1. HasRecord(s)'
    BY <1>5, <1>10 DEF HasRecord, Fine, Works, IsQueued
  <2>2. RecordFollows(s)'
    BY <1>5, <1>10 DEF RecordFollows, Fine, Works, Follows, NoAnswer
  <2>3. NoneLost(s)'
    <3>1. SUFFICES ASSUME NEW k, Kept(s, k) PROVE Kept(s, k)'
      BY <1>10 DEF NoneLost, Fine
    <3> QED
      BY <1>5, <1>10, <1>14, <3>1 DEF Kept, Heard, IsPost
  <2> QED
    BY <2>1, <2>2, <2>3
<1>11. ClientInv(s)'
  BY <1>a, <1>b, <1>c DEF ClientInv
<1>16. OneOwner'
  <2>1. PICK o \in [DOMAIN chatRooms -> Sessions] : Owned(o)
    BY DEF IInv, OneOwner
  <2>2. /\ Len(o) \in Nat /\ Holds(o, s) /\ HoldsMessages(o)
    BY <2>1 DEF Owned
  <2>3. ASSUME NEW t \in Sessions PROVE Holds(o, t)'
    <3>1. CASE t = s
      <4>1. Mine(o, s, Job(s).room)
        BY <1>1, <1>8, <2>2 DEF Holds, Works
      <4>2. Holds(o, s)'
        BY <1>5, <1>10, <2>2, <4>1 DEF Holds, Works, IsQueued
      <4> QED
        BY <3>1, <4>2
    <3>2. CASE t # s
      BY <1>0, <1>9, <2>1, <2>2, <3>2, SameHolds DEF Owned
    <3> QED
      BY <3>1, <3>2
  <2>4. HoldsMessages(o)'
    <3>1. Mine(o, s, Job(s).room)
      BY <1>1, <1>8, <2>2 DEF Holds, Works
    <3> QED
      BY <1>3, <1>15, <2>2, <3>1 DEF HoldsMessages
  <2> QED
    BY <1>6, <2>1, <2>3, <2>4 DEF OneOwner, Owned
<1>17. \A t \in Sessions : ClientInv(t)'
  BY <1>0, <1>9, <1>11, SameKeeps DEF IInv
<1> QED
  BY <1>9, <1>16, <1>17 DEF IInv

-----------------------------------------------------------------------------
(* The invariant is inductive.                                             *)
LEMMA InitIInv == Init => IInv
<1> SUFFICES ASSUME Init PROVE IInv
  OBVIOUS
<1>1. /\ conn = [s \in Sessions |-> "open"] /\ client = [s \in Sessions |-> "start"]
      /\ room = [s \in Sessions |-> 0] /\ created = [s \in Sessions |-> 0]
      /\ posted = [s \in Sessions |-> 0] /\ requests = [v \in Servers |-> <<>>]
      /\ job = [v \in Servers |-> Idle] /\ record = [s \in Sessions |-> None]
      /\ chatRooms = <<>> /\ messages = <<>>
      /\ inbox = [s \in Sessions |-> <<>>] /\ shown = [s \in Sessions |-> <<>>]
      /\ failed = {}
  BY DEF Init
<1>2. Idle \in AJob /\ None \in ARecord
  BY IdleIsAJob DEF None, ARecord, Someone, User
<1>3. Types
  BY <1>1, <1>2 DEF Types
<1>4. /\ Idle.pc = "idle" /\ Idle.s = NoSession /\ Idle.room = 0 /\ Idle.number = 0
      /\ "idle" \notin Stages
  BY StagesAre DEF Idle, StagesKnown
<1>5. AtHome
  BY <1>1, <1>4 DEF AtHome
<1>6. OneOwner
  <2> DEFINE o == [i \in 1 .. 0 |-> CHOOSE s \in Sessions : TRUE]
  <2>1. o = <<>> /\ DOMAIN chatRooms = {} /\ DOMAIN messages = {} /\ Len(chatRooms) = 0
    BY <1>1
  <2>2. o \in [DOMAIN chatRooms -> Sessions] /\ o \in Seq(Sessions) /\ Len(o) = 0
    BY <2>1
  <2> HIDE DEF o
  <2>3. ASSUME NEW s \in Sessions PROVE Holds(o, s)
    <3>1. /\ room[s] = 0 /\ record[s].room = -2 /\ DOMAIN inbox[s] = {} /\ DOMAIN Queue(s) = {}
          /\ Job(s).s = NoSession
      BY <1>1, <1>4 DEF None, Queue, Job
    <3> QED
      BY <3>1 DEF Holds, Works, Mine
  <2> QED
    BY <2>1, <2>2, <2>3 DEF OneOwner, Owned, HoldsMessages
<1>7. ASSUME NEW s \in Sessions PROVE ClientInv(s)
  <2>1. /\ client[s] = "start" /\ room[s] = 0 /\ created[s] = 0 /\ posted[s] = 0
        /\ record[s] = None
        /\ DOMAIN inbox[s] = {} /\ DOMAIN shown[s] = {} /\ DOMAIN Queue(s) = {}
        /\ DOMAIN messages = {} /\ Job(s).s = NoSession
    BY <1>1, <1>4 DEF Queue, Job
  <2>2. MaxRooms[s] \in Nat /\ MaxPosts[s] \in Nat
    BY ChatServiceAssumption
  <2>3. /\ \A stages : ~Works(s, stages)
        /\ ~Sending(s)
    BY <2>1 DEF Works, Sending
  <2>4. Local(s) /\ Waits(s) /\ InItsRoom(s)
    BY <2>1, <2>2, <2>3 DEF Local, Waits, InItsRoom
  <2>5. LinesInOrder(s) /\ StoredInOrder(s) /\ Numbered(s)
    BY <2>1, <2>3 DEF LinesInOrder, StoredInOrder, Numbered
  <2>6. HasRecord(s) /\ RecordFollows(s)
    BY <2>1, <2>3 DEF HasRecord, RecordFollows
  <2>7. NoneLost(s)
    BY <2>1 DEF NoneLost
  <2> QED
    BY <2>4, <2>5, <2>6, <2>7 DEF ClientInv
<1> QED
  BY <1>3, <1>5, <1>6, <1>7 DEF IInv

LEMMA StutterKeeps == ASSUME IInv, UNCHANGED vars PROVE IInv'
<1>1. Types /\ AtHome /\ OneOwner /\ \A s \in Sessions : ClientInv(s)
  BY DEF IInv
<1>2. UNCHANGED <<conn, client, room, created, posted, requests, job, record, chatRooms,
                  messages, inbox, shown, failed>>
  BY DEF vars, clientVars, serverVars, dbVars
<1>3. Types' /\ AtHome'
  BY <1>1, <1>2 DEF Types, AtHome
<1>4. OneOwner'
  <2>1. PICK o \in [DOMAIN chatRooms -> Sessions] : Owned(o)
    BY <1>1 DEF OneOwner
  <2>2. \A s \in Sessions : Holds(o, s)'
    BY <1>2, <2>1 DEF Owned, Holds, Works, Job, Queue, IsQueued
  <2>3. HoldsMessages(o)'
    BY <1>2, <2>1 DEF Owned, HoldsMessages
  <2> QED
    BY <1>2, <2>1, <2>2, <2>3 DEF OneOwner, Owned
<1>5. ASSUME NEW s \in Sessions PROVE Same(s)
  BY <1>1, <1>2, QueueUnchanged, MessagesUnchanged DEF Same, SameJob, Job
<1> QED
  BY <1>1, <1>3, <1>4, <1>5, SameKeeps DEF IInv

LEMMA ServesKeep == ASSUME IInv, NEW v \in Servers, Serve(v) PROVE IInv'
  BY TakeRequestKeeps, LoadAccountKeeps, StoreUserInfoKeeps, RemoveUserInfoKeeps,
     sendLoginResultKeeps, LoadCreatorKeeps, CreateNewChatRoomKeeps,
     sendCreateNewChatResultKeeps, GetRecordKeeps, SetRecordKeeps,
     InsertAttendanceInformationKeeps, LoadPosterKeeps, StoreMessageKeeps, SelectNumberKeeps,
     RetrieveUsersFromCIDKeeps, BroadcastMessageToLiveUsersKeeps, ViewAvailableChatRoomKeeps
     DEF Serve

LEMMA ProcessKeeps == ASSUME IInv, NEW s \in Sessions, Process(s) PROVE IInv'
  BY AnswerKeeps, HearKeeps

LEMMA NextIInv == IInv /\ [Next]_vars => IInv'
<1> SUFFICES ASSUME IInv, [Next]_vars PROVE IInv'
  OBVIOUS
<1>1. CASE \E s \in Sessions : Login(s) \/ Create(s) \/ View(s)
  BY <1>1, AskingKeeps
<1>2. CASE \E s \in Sessions : Post(s) \/ Leave(s) \/ Process(s) \/ OnClose(s)
  BY <1>2, PostKeeps, LeaveKeeps, ProcessKeeps, OnCloseKeeps
<1>3. CASE \E v \in Servers : Serve(v)
  BY <1>3, ServesKeep
<1>4. CASE UNCHANGED vars
  BY <1>4, StutterKeeps
<1> QED
  BY <1>1, <1>2, <1>3, <1>4 DEF Next

(* The inductive invariant holds in every state of every behaviour.        *)
THEOREM Inductive == Spec => []IInv
<1>1. Init => IInv
  BY InitIInv
<1>2. IInv /\ [Next]_vars => IInv'
  BY NextIInv
<1> QED
  BY <1>1, <1>2, PTL DEF Spec

-----------------------------------------------------------------------------
(* What it says of the properties of ChatService.                          *)
LEMMA RoomsExist ==
    ASSUME IInv
    PROVE  /\ \A s \in Sessions : room[s] \in -1 .. Len(chatRooms)
           /\ \A s \in Sessions : record[s].room <= Len(chatRooms)
           /\ \A v \in Servers : job[v].room \in -1 .. Len(chatRooms)
           /\ \A n \in DOMAIN messages : messages[n].room \in DOMAIN chatRooms
<1>0. Types /\ AtHome /\ \A s \in Sessions : Local(s)
  BY DEF IInv, ClientInv
<1>1. PICK o \in [DOMAIN chatRooms -> Sessions] : Owned(o)
  BY DEF IInv, OneOwner
<1>2. /\ \A s \in Sessions : Holds(o, s)
      /\ HoldsMessages(o) /\ Len(o) = Len(chatRooms)
      /\ Len(chatRooms) \in Nat /\ DOMAIN chatRooms = 1 .. Len(chatRooms)
  BY <1>0, <1>1 DEF Owned, Types
<1>3. ASSUME NEW s \in Sessions
      PROVE  room[s] \in -1 .. Len(chatRooms) /\ record[s].room <= Len(chatRooms)
  <2>1. room[s] \in Int /\ record[s] \in ARecord
    BY <1>0 DEF Types
  <2>2. record[s].room \in Int /\ room[s] >= -1
    BY <1>0, <2>1 DEF ARecord, Local
  <2> QED
    BY <1>2, <2>1, <2>2 DEF Holds, Mine
<1>4. ASSUME NEW v \in Servers PROVE job[v].room \in -1 .. Len(chatRooms)
  <2>1. CASE job[v].pc \in Stages
    <3>1. PICK s \in Sessions : Job(s) = job[v] /\ Job(s).s = s
      BY <2>1, WorkerOf
    <3>2. Works(s, Stages)
      BY <2>1, <3>1 DEF Works
    <3>3. Mine(o, s, Job(s).room) /\ Job(s).room >= -1
      BY <1>0, <1>2, <3>2 DEF Holds, Local
    <3>4. job[v].room \in Int
      BY <1>0 DEF Types, AJob
    <3> QED
      BY <1>2, <3>1, <3>3, <3>4 DEF Mine
  <2>2. CASE job[v].pc \notin Stages
    BY <1>0, <1>2, <2>2 DEF AtHome
  <2> QED
    BY <2>1, <2>2
<1>5. ASSUME NEW n \in DOMAIN messages PROVE messages[n].room \in DOMAIN chatRooms
  <2>3. messages \in Seq(AMessage)
    BY <1>0 DEF Types
  <2>1. messages[n] \in AMessage
    BY <2>3
  <2>2. messages[n].room \in Int
    BY <2>1 DEF AMessage
  <2> QED
    BY <1>2, <2>2 DEF HoldsMessages, Mine
<1> QED
  BY <1>3, <1>4, <1>5

LEMMA IInvTypeOK == IInv => TypeOK
<1> SUFFICES ASSUME IInv PROVE TypeOK
  OBVIOUS
<1>0. Types /\ AtHome /\ \A s \in Sessions : Local(s) /\ Numbered(s)
  BY DEF IInv, ClientInv
<1>1. room \in [Sessions -> -1 .. Len(chatRooms)]
  BY <1>0, RoomsExist DEF Types
<1>2. ASSUME NEW s \in Sessions
      PROVE  created[s] \in 0 .. MaxRooms[s] /\ posted[s] \in 0 .. MaxPosts[s]
  <2>1. MaxRooms[s] \in Nat /\ MaxPosts[s] \in Nat
    BY ChatServiceAssumption
  <2> QED
    BY <1>0, <2>1 DEF Types, Local
<1>3. ASSUME NEW v \in Servers
      PROVE  /\ job[v].s \in Sessions \cup {NoSession} /\ job[v].user \in User
             /\ job[v].room \in -1 .. Len(chatRooms) /\ job[v].number \in -1 .. Len(messages)
             /\ job[v].to \subseteq Sessions \cup {NoSession}
  <2>1. job[v] \in AJob /\ Len(messages) \in Nat
    BY <1>0 DEF Types
  <2>2. job[v].number \in -1 .. Len(messages)
    <3>1. CASE job[v].pc \in Stages
      <4>1. PICK s \in Sessions : Job(s) = job[v] /\ Job(s).s = s
        BY <3>1, WorkerOf
      <4> QED
        BY <1>0, <3>1, <4>1 DEF Numbered, Works
    <3>2. CASE job[v].pc \notin Stages
      BY <1>0, <2>1, <3>2 DEF AtHome
    <3> QED
      BY <3>1, <3>2
  <2> QED
    BY <2>1, <2>2, RoomsExist DEF AJob, Someone
<1>4. ASSUME NEW s \in Sessions, record[s] # None
      PROVE  record[s] \in [session : {s, NoSession}, user : User, room : -1 .. Len(chatRooms)]
  <2>1. /\ record[s] \in ARecord /\ Len(chatRooms) \in Nat
        /\ record[s].room >= -1 /\ record[s].session \in {s, NoSession}
        /\ record[s].room <= Len(chatRooms)
    BY <1>0, <1>4, RoomsExist DEF Types, Local
  <2> QED
    BY <2>1 DEF ARecord
<1> QED
  BY <1>0, <1>1, <1>2, <1>3, <1>4, RoomsExist DEF TypeOK, Types

(* A broadcast has been shown to the client, or waits in its inbox.        *)
LEMMA BroadcastFacts ==
    ASSUME Types, NEW s \in Sessions, NEW i \in Broadcasts(s)
    PROVE  /\ i \in Nat
           /\ \/ i \in DOMAIN shown[s] /\ Arrived(s)[i] = shown[s][i]
              \/ /\ i - Len(shown[s]) \in DOMAIN inbox[s] /\ i > Len(shown[s])
                 /\ Arrived(s)[i] = inbox[s][i - Len(shown[s])]
                 /\ Heard(s, i - Len(shown[s]))
<1>1. shown[s] \in Seq(APacket) /\ inbox[s] \in Seq(APacket)
  BY DEF Types
<1>2. i \in DOMAIN Arrived(s) /\ Arrived(s)[i].kind = "broadcast"
  BY DEF Broadcasts
<1> PICK a \in Seq(APacket), b \in Seq(APacket) : shown[s] = a /\ inbox[s] = b
  BY <1>1
<1>3. Arrived(s) = a \o b
  BY DEF Arrived
<1>4. /\ Len(a) \in Nat /\ Len(b) \in Nat
      /\ DOMAIN a = 1 .. Len(a) /\ DOMAIN b = 1 .. Len(b)
      /\ DOMAIN (a \o b) = 1 .. Len(a) + Len(b)
      /\ \A k \in 1 .. Len(a) + Len(b) :
            (a \o b)[k] = IF k <= Len(a) THEN a[k] ELSE b[k - Len(a)]
  OBVIOUS
<1>5. i \in 1 .. Len(a) + Len(b)
  BY <1>2, <1>3, <1>4
<1>6. CASE i <= Len(a)
  BY <1>3, <1>4, <1>5, <1>6
<1>7. CASE i > Len(a)
  <2>1. Arrived(s)[i] = b[i - Len(a)] /\ i - Len(a) \in DOMAIN b
    BY <1>3, <1>4, <1>5, <1>7
  <2> QED
    BY <1>2, <1>5, <1>7, <2>1 DEF Heard
<1> QED
  BY <1>4, <1>5, <1>6, <1>7

LEMMA BroadcastIsNumbered ==
    ASSUME IInv, NEW s \in Sessions, NEW i \in Broadcasts(s)
    PROVE  /\ IsNumberOf(Arrived(s)[i].number, Arrived(s)[i].room, Arrived(s)[i].line)
           /\ Arrived(s)[i].line.by = s
           /\ Arrived(s)[i].line.k \in Nat
<1>1. Types /\ Local(s) /\ Numbered(s)
  BY DEF IInv, ClientInv
<1>2. CASE i \in DOMAIN shown[s] /\ Arrived(s)[i] = shown[s][i]
  BY <1>1, <1>2, LineTypes DEF Local, Numbered
<1>3. CASE /\ i - Len(shown[s]) \in DOMAIN inbox[s] /\ Heard(s, i - Len(shown[s]))
           /\ Arrived(s)[i] = inbox[s][i - Len(shown[s])]
  BY <1>1, <1>3, LineTypes DEF Local, Numbered
<1> QED
  BY <1>1, <1>2, <1>3, BroadcastFacts

LEMMA IInvOwnNumber == IInv => OwnNumber
  BY BroadcastIsNumbered DEF OwnNumber, IsNumberOf

LEMMA IInvOnlyMembersHear == IInv => OnlyMembersHear
  BY BroadcastIsNumbered DEF OnlyMembersHear

LEMMA BroadcastsInOrder ==
    ASSUME IInv, NEW s \in Sessions, NEW i \in Broadcasts(s), NEW k \in Broadcasts(s), i < k
    PROVE  Arrived(s)[i].line.k < Arrived(s)[k].line.k
<1>1. Types /\ LinesInOrder(s)
  BY DEF IInv, ClientInv
<1>2. Len(shown[s]) \in Nat /\ DOMAIN shown[s] = 1 .. Len(shown[s])
  BY <1>1 DEF Types
<1>3. CASE k \in DOMAIN shown[s] /\ Arrived(s)[k] = shown[s][k]
  <2>1. i \in DOMAIN shown[s] /\ Arrived(s)[i] = shown[s][i]
    <3>1. i \in Nat /\ k \in Nat /\ k <= Len(shown[s])
      BY <1>1, <1>2, <1>3, BroadcastFacts
    <3>2. ~(i > Len(shown[s]))
      BY <1>2, <3>1
    <3> QED
      BY <1>1, <3>2, BroadcastFacts
  <2> QED
    BY <1>1, <1>3, <2>1 DEF LinesInOrder
<1>4. CASE /\ k - Len(shown[s]) \in DOMAIN inbox[s] /\ Heard(s, k - Len(shown[s]))
           /\ Arrived(s)[k] = inbox[s][k - Len(shown[s])]
  <2>1. CASE i \in DOMAIN shown[s] /\ Arrived(s)[i] = shown[s][i]
    BY <1>1, <1>4, <2>1 DEF LinesInOrder
  <2>2. CASE /\ i - Len(shown[s]) \in DOMAIN inbox[s] /\ Heard(s, i - Len(shown[s]))
             /\ Arrived(s)[i] = inbox[s][i - Len(shown[s])]
    <3>1. i \in Nat /\ k \in Nat
      BY <1>1, BroadcastFacts
    <3>2. i - Len(shown[s]) < k - Len(shown[s])
      BY <1>2, <3>1
    <3> QED
      BY <1>1, <1>4, <2>2, <3>2 DEF LinesInOrder
  <2> QED
    BY <1>1, <2>1, <2>2, BroadcastFacts
<1> QED
  BY <1>1, <1>3, <1>4, BroadcastFacts

LEMMA IInvInOrder == IInv => InOrder
<1> SUFFICES ASSUME IInv, NEW s \in Sessions, NEW i \in Broadcasts(s), NEW k \in Broadcasts(s),
                    i < k
             PROVE  /\ Arrived(s)[i].line.k < Arrived(s)[k].line.k
                    /\ Arrived(s)[i].number # -1 /\ Arrived(s)[k].number # -1 =>
                          Arrived(s)[i].number < Arrived(s)[k].number
  BY DEF InOrder
<1>1. Types /\ StoredInOrder(s)
  BY DEF IInv, ClientInv
<1>2. Arrived(s)[i].line.k < Arrived(s)[k].line.k
  BY BroadcastsInOrder
<1>3. ASSUME NEW n \in DOMAIN messages, NEW m \in DOMAIN messages,
             messages[n].line = Arrived(s)[i].line, messages[m].line = Arrived(s)[k].line
      PROVE  n < m
  <2>1. n \in Nat /\ m \in Nat /\ messages[n].line.k \in Nat /\ messages[m].line.k \in Nat
    BY <1>1, LineTypes, SMTT(30) DEF Types
  <2>2. messages[n].line.k < messages[m].line.k
    BY <1>2, <1>3
  <2>3. messages[n].line.by = s /\ messages[m].line.by = s
    BY <1>3, BroadcastIsNumbered
  <2>4. ~(m < n)
    BY <1>1, <2>1, <2>2, <2>3 DEF StoredInOrder
  <2>5. m # n
    BY <2>1, <2>2
  <2> QED
    BY <2>1, <2>4, <2>5
<1> QED
  BY <1>2, <1>3, BroadcastIsNumbered DEF IsNumberOf

LEMMA IInvRecordFollowsClient == IInv => RecordFollowsClient
<1> SUFFICES ASSUME IInv, NEW s \in Sessions,
                    conn[s] = "open" /\ client[s] = "room" /\ Home[s] \notin failed
             PROVE  \/ record[s] = Record(s, record[s].user, room[s])
                    \/ /\ job[Home[s]].s = s
                       /\ job[Home[s]].pc \in {"get_record", "set_record"}
                       /\ job[Home[s]].room = room[s]
  BY DEF RecordFollowsClient
<1>1. /\ Types /\ Waits(s) /\ InItsRoom(s) /\ RecordFollows(s) /\ Fine(s)
  BY DEF IInv, ClientInv, Fine
<1>2. room[s] >= 1 /\ NoAnswer(s)
  BY <1>1 DEF InItsRoom, Waits, Heard, NoAnswer
<1>3. Follows(s, room[s])
  BY <1>1, <1>2 DEF RecordFollows
<1>4. CASE record[s].session = s /\ record[s].room = room[s]
  <2>1. record[s] \in ARecord
    BY <1>1 DEF Types
  <2> QED
    BY <1>4, <2>1 DEF ARecord, Record
<1>5. CASE Works(s, RecordStages) /\ Job(s).room = room[s]
  BY <1>5 DEF Works, RecordStages, Job
<1> QED
  BY <1>3, <1>4, <1>5 DEF Follows

LEMMA IInvOwnLineReturns == IInv => OwnLineReturns
<1> SUFFICES ASSUME IInv, NEW s \in Sessions,
                    conn[s] = "open" /\ Home[s] \notin failed /\ Served(s),
                    NEW k \in 1 .. posted[s]
             PROVE  \E i \in DOMAIN shown[s] : shown[s][i].line = Line(s, k)
  BY DEF OwnLineReturns
<1>1. NoneLost(s) /\ Fine(s)
  BY DEF IInv, ClientInv, Fine
<1>2. Kept(s, k)
  BY <1>1 DEF NoneLost
<1>3. /\ ~Sending(s) /\ DOMAIN inbox[s] = {}
      /\ \A i \in DOMAIN Queue(s) : ~IsPost(s, i)
  BY DEF Served, Sending, Works, Job, Queue, IsPost
<1> QED
  BY <1>2, <1>3 DEF Kept

LEMMA IInvStoredUnderItsRoom == IInv => StoredUnderItsRoom
  BY DEF IInv, ClientInv, InItsRoom, StoredUnderItsRoom

-----------------------------------------------------------------------------
(* Rooms and numbers that a client, a record, a message or a request names *)
(* exist in the tables, whatever fails and whoever hangs up.               *)
THEOREM ServiceTyping == Spec => []TypeOK
  BY Inductive, IInvTypeOK, PTL

(* The number that a line is broadcast with is that of its own row, even   *)
(* though SelectNumber asks for the greatest of the room (accountDB.go     *)
(* 190) and the servers insert side by side.                               *)
THEOREM BroadcastsAreNumbered == Spec => []OwnNumber
  BY Inductive, IInvOwnNumber, PTL

(* The broadcasts reach a client in the order in which it posted the lines *)
(* and of their numbers, none twice.                                       *)
THEOREM BroadcastsAreInOrder == Spec => []InOrder
  BY Inductive, IInvInOrder, PTL

(* What Members finds in the records (memoryDB.go 190) never leads a line  *)
(* to a client other than the one whose room it was posted to.             *)
THEOREM MembersHear == Spec => []OnlyMembersHear
  BY Inductive, IInvOnlyMembersHear, PTL

(* The record of a client in a room is in that room, or its own goroutine  *)
(* is about to put it there, unless a statement of its server failed.      *)
THEOREM RecordsFollow == Spec => []RecordFollowsClient
  BY Inductive, IInvRecordFollowsClient, PTL

(* A client for which nothing is left to do has been sent each of its      *)
(* lines, so that its input area is not blocked for ever, unless a         *)
(* statement of its own server failed.                                     *)
THEOREM LinesReturn == Spec => []OwnLineReturns
  BY Inductive, IInvOwnLineReturns, PTL

(* A line is stored under the room that it was sent to, although the       *)
(* client stores it under the room that it is in (game.go 431).            *)
THEOREM LinesAreStoredRight == Spec => []StoredUnderItsRoom
  BY Inductive, IInvStoredUnderItsRoom, PTL
=============================================================================
