--------------------------- MODULE PacketsProofs ---------------------------
(* Proofs about Packets: every packet that is on its way is whole and      *)
(* carries what was asked or answered at its position, whatever the texts, *)
(* the numbers of rooms and requests, and the widths of an integer.        *)
EXTENDS PacketCodecProofs

(* The fields of the requests and of the answers that have fixed ones.     *)
RequestFields(id) ==
    CASE id = 701 -> <<"UserID", "UserPW">>
      [] id = 703 -> <<"UserID", "UserPW", "UserName">>
      [] id = 801 -> <<"ChatRoomName", "ChatRoomPW">>
      [] id = 803 -> <<"UserID">>
      [] id = 807 -> <<"UserID", "ChatRoomID">>
      [] id = 811 -> <<"ChatRoomID", "TimeChat", "Message">>

AnswerFields(id) ==
    CASE id \in {702, 704, 812} -> <<"ErrorCode">>
      [] id = 802 -> <<"ErrorCode", "ChatRoomID">>
      [] id = 813 -> <<"MessageSequence", "Message", "TimeChat", "UserName">>

RequestIds == {701, 703, 801, 803, 807, 811}
AnswerIds == {702, 704, 802, 804, 812, 813}

(* Values of some fields, as a record.                                     *)
IsRecord(F, val) ==
    /\ DOMAIN val = {F[k] : k \in 1 .. Len(F)}
    /\ val = [f \in DOMAIN val |-> val[f]]

(* What a function of send_request is called with.                         *)
IsRequest(m) ==
    /\ m = [id |-> m.id, values |-> m.values] /\ m.id \in RequestIds
    /\ IsRecord(RequestFields(m.id), m.values)
    /\ \A f \in DOMAIN m.values :
          /\ m.values[f] \in Value
          /\ IF f \in IntegerField THEN m.values[f].text = "number"
                                   ELSE m.values[f].n \in Nat
    /\ m.id = 811 => m.values.TimeChat = Now

(* What a handler of the server answers while there are so many rooms.     *)
IsAnswer(a, rows) ==
    /\ a = [id |-> a.id, values |-> a.values] /\ a.id \in AnswerIds
    /\ a.id = 804 => a.values.Len.n \in Nat /\ a.values.Len.n <= rows

(* The packet is whole, and the server decodes the request from it.        *)
Delivers(p, m) ==
    LET r == Decode(ServerWidth, Layout(m.id, RequestFields(m.id)), PeekPacketBody(p))
    IN  /\ Packet(p) /\ PeekPacketID(p) = m.id
        /\ PacketTotalSize(p) = p.len /\ p.pos = p.len
        /\ r.ok /\ r.values = AsSent(m).values

(* An int16 can count the rows of the answer, if it has any.               *)
Countable(a) == a.id = 804 => a.values.Len.n < WordSize \div 2

(* The packet is whole, and the client decodes the answer from it.         *)
Conveys(p, a) ==
    /\ Packet(p) /\ PeekPacketID(p) = a.id
    /\ Countable(a) => PacketTotalSize(p) = p.len /\ p.pos = p.len
    /\ a.id = 804 /\ Countable(a) => ClientViewRes(PeekPacketBody(p)) = a.values
    /\ a.id # 804 =>
          Decode(ClientWidth, Layout(a.id, AnswerFields(a.id)), PeekPacketBody(p)).values
            = a.values

-----------------------------------------------------------------------------
(* The fields of a request, and of an answer, are those of a fixed packet. *)
LEMMA FieldsAreFixed ==
    /\ \A id \in RequestIds : RequestFields(id) \in FieldLists /\ id \in Int
    /\ \A id \in AnswerIds : id # 804 => AnswerFields(id) \in FieldLists /\ id \in Int
<1>1. ASSUME NEW id \in RequestIds PROVE RequestFields(id) \in FieldLists /\ id \in Int
  <2>1. \/ RequestFields(id) = <<"UserID", "UserPW">>
        \/ RequestFields(id) = <<"UserID", "UserPW", "UserName">>
        \/ RequestFields(id) = <<"ChatRoomName", "ChatRoomPW">>
        \/ RequestFields(id) = <<"UserID">>
        \/ RequestFields(id) = <<"UserID", "ChatRoomID">>
        \/ RequestFields(id) = <<"ChatRoomID", "TimeChat", "Message">>
    BY DEF RequestIds, RequestFields
  <2>2. id \in Int
    BY DEF RequestIds
  <2> QED
    BY <2>1, <2>2, Zenon DEF FieldLists
<1>2. ASSUME NEW id \in AnswerIds, id # 804
      PROVE  AnswerFields(id) \in FieldLists /\ id \in Int
  <2>1. \/ AnswerFields(id) = <<"ErrorCode">>
        \/ AnswerFields(id) = <<"ErrorCode", "ChatRoomID">>
        \/ AnswerFields(id) = <<"MessageSequence", "Message", "TimeChat", "UserName">>
    BY <1>2 DEF AnswerIds, AnswerFields
  <2>2. id \in Int
    BY DEF AnswerIds
  <2> QED
    BY <2>1, <2>2, Zenon DEF FieldLists
<1> QED
  BY <1>1, <1>2

(* What the fields of a request become in its slices.                      *)
LEMMA SentFits ==
    ASSUME NEW m, IsRequest(m)
    PROVE  /\ RequestFields(m.id) \in FieldLists /\ m.id \in Int
           /\ Fit(ServerWidth, RequestFields(m.id), AsSent(m).values)
           /\ IsRecord(RequestFields(m.id), AsSent(m).values)
<1>f. PICK F : F = RequestFields(m.id)
  OBVIOUS
<1>1. F \in FieldLists /\ m.id \in Int
  BY <1>f, FieldsAreFixed DEF IsRequest
<1>d. PICK D : D = DOMAIN m.values
  OBVIOUS
<1>2. D = {F[k] : k \in 1 .. Len(F)}
  BY <1>f, <1>d, Zenon DEF IsRequest, IsRecord
<1>3. AreFields(ServerWidth, F)
  BY <1>1, FixedFits
<1>4. D \subseteq DOMAIN ServerWidth
  <2>1. F \in Seq(DOMAIN ServerWidth)
    BY <1>3 DEF AreFields
  <2>2. \A k \in 1 .. Len(F) : F[k] \in DOMAIN ServerWidth
    BY <2>1
  <2> QED
    BY <2>2, <1>2
<1> DEFINE sent(f) == IF f \in IntegerField THEN m.values[f]
                      ELSE Cut(ServerWidth[f], m.values[f])
<1>v. PICK val : val = AsSent(m).values
  OBVIOUS
<1>5. val = [f \in D |-> sent(f)]
  <2>1. AsSent(m).values = [f \in D |-> sent(f)]
    BY <1>d DEF AsSent
  <2> QED
    BY <2>1, <1>v, Zenon
<1>6. ASSUME NEW f \in D
      PROVE  sent(f) \in Value /\ (sent(f).text = "number" \/ sent(f).n <= ServerWidth[f])
  <2>1. /\ m.values[f] \in Value
        /\ IF f \in IntegerField THEN m.values[f].text = "number" ELSE m.values[f].n \in Nat
    BY <1>d DEF IsRequest
  <2>2. ServerWidth[f] \in Nat
    BY <1>4, WidthsPositive
  <2>3. CASE f \in IntegerField
    BY <2>1, <2>3
  <2>4. CASE f \notin IntegerField
    <3>1. PICK v : v = m.values[f]
      OBVIOUS
    <3>2. v \in Value /\ v.n \in Nat
      BY <2>1, <2>4, <3>1
    <3>3. PICK w \in Nat : w = ServerWidth[f]
      BY <2>2
    <3>4. Cut(w, v) \in Value /\ Cut(w, v).n <= w
      BY <3>2, CutFits
    <3> QED
      BY <2>4, <3>1, <3>3, <3>4
  <2> QED
    BY <2>3, <2>4
<1> HIDE DEF sent
<1>7. DOMAIN val = D /\ val = [f \in DOMAIN val |-> val[f]] /\ \A f \in D : val[f] = sent(f)
  BY <1>5
<1>8. Fit(ServerWidth, F, val)
  <2>1. ASSUME NEW k \in 1 .. Len(F)
        PROVE  /\ val[F[k]] \in Value
               /\ val[F[k]].text = "number" \/ val[F[k]].n <= ServerWidth[F[k]]
    <3>1. F[k] \in D
      BY <1>2
    <3> QED
      BY <3>1, <1>6, <1>7
  <2> QED
    BY <2>1 DEF Fit
<1>9. IsRecord(F, val)
  BY <1>2, <1>7, Zenon DEF IsRecord
<1> QED
  BY <1>1, <1>8, <1>9, <1>f, <1>v, Zenon

(* The packet of a request delivers it.                                    *)
LEMMA RequestSent ==
    ASSUME NEW m, IsRequest(m)
    PROVE  Delivers(Encode(ServerWidth, Layout(m.id, RequestFields(m.id)),
                           AsSent(m).values), m)
<1>f. PICK F \in FieldLists : F = RequestFields(m.id)
  BY SentFits
<1>v. PICK val : val = AsSent(m).values
  OBVIOUS
<1>i. PICK id \in Int : id = m.id
  BY SentFits
<1>1. Fit(ServerWidth, F, val) /\ IsRecord(F, val)
  BY <1>f, <1>v, SentFits, Zenon
<1>2. /\ DOMAIN val = {F[k] : k \in 1 .. Len(F)} /\ val = [f \in DOMAIN val |-> val[f]]
      /\ Fit(ServerWidth, F, val)
  BY <1>1 DEF IsRecord
<1>m. PICK M : M = Layout(id, F)
  OBVIOUS
<1>3. M.check = F /\ M.get = F
  BY <1>m DEF Layout
<1>p. PICK p : p = Encode(ServerWidth, Layout(id, F), val)
  OBVIOUS
<1>4. /\ Packet(p) /\ p.pos = p.len
      /\ PacketTotalSize(p) = p.len /\ PeekPacketID(p) = id
      /\ Decode(ServerWidth, M, PeekPacketBody(p)).ok
      /\ Decode(ServerWidth, M, PeekPacketBody(p)).values = val
  BY <1>2, <1>3, <1>p, FixedRoundTrip
<1>5. Delivers(p, m)
  BY <1>4, <1>f, <1>i, <1>m, <1>v DEF Delivers
<1> QED
  BY <1>5, <1>f, <1>i, <1>p, <1>v, Zenon

(* The packet of an answer of fixed fields conveys it.                     *)
LEMMA AnswerSent ==
    ASSUME NEW id \in AnswerIds, id # 804, NEW val,
           Fit(ServerWidth, AnswerFields(id), val), IsRecord(AnswerFields(id), val)
    PROVE  LET p == Encode(ServerWidth, Layout(id, AnswerFields(id)), val)
           IN  Conveys(p, [id |-> id, values |-> val]) /\ ~p.panic
<1>f. PICK F \in FieldLists : F = AnswerFields(id)
  BY FieldsAreFixed
<1>i. id \in Int
  BY FieldsAreFixed
<1>2. /\ DOMAIN val = {F[k] : k \in 1 .. Len(F)} /\ val = [f \in DOMAIN val |-> val[f]]
      /\ Fit(ServerWidth, F, val)
  BY <1>f DEF IsRecord
<1>m. PICK M : M = Layout(id, F)
  OBVIOUS
<1>3. M.check = F /\ M.get = F
  BY <1>m DEF Layout
<1>p. PICK p : p = Encode(ServerWidth, Layout(id, F), val)
  OBVIOUS
<1>4. /\ Packet(p) /\ p.pos = p.len
      /\ PacketTotalSize(p) = p.len /\ PeekPacketID(p) = id
      /\ Decode(ServerWidth, M, PeekPacketBody(p)).values = val
  BY <1>2, <1>3, <1>p, <1>i, FixedRoundTrip
<1>a. PICK a : a = [id |-> id, values |-> val]
  OBVIOUS
<1>5. a.id = id /\ a.values = val
  BY <1>a
<1>6. Conveys(p, a) /\ ~p.panic
  <2>1. ~p.panic
    BY <1>4 DEF Packet
  <2>2. Decode(ClientWidth, Layout(a.id, AnswerFields(a.id)), PeekPacketBody(p)).values = a.values
    BY <1>4, <1>5, <1>f, <1>m, SameWidths, Zenon
  <2> QED
    BY <1>4, <1>5, <2>1, <2>2 DEF Conveys
<1> QED
  BY <1>6, <1>a, <1>f, <1>p, Zenon

-----------------------------------------------------------------------------
(* Sequences, whatever their elements.                                     *)
IsSequence(s) == Len(s) \in Nat /\ s = [i \in 1 .. Len(s) |-> s[i]]

(* It is a sequence of its own elements.                                   *)
LEMMA SequenceOf ==
    ASSUME NEW s, IsSequence(s)
    PROVE  s \in Seq({s[i] : i \in 1 .. Len(s)})
<1>1. PICK n \in Nat : n = Len(s)
  BY DEF IsSequence
<1>2. s = [i \in 1 .. n |-> s[i]]
  BY <1>1 DEF IsSequence
<1>3. [i \in 1 .. n |-> s[i]] \in Seq({s[i] : i \in 1 .. n})
  OBVIOUS
<1> QED
  BY <1>1, <1>2, <1>3, Zenon

(* A sequence of any elements is one.                                      *)
LEMMA IsSequenceOf ==
    ASSUME NEW S, NEW s \in Seq(S)
    PROVE  IsSequence(s)
  BY DEF IsSequence

(* One element more.                                                       *)
LEMMA Appended ==
    ASSUME NEW s, IsSequence(s), NEW x
    PROVE  /\ IsSequence(Append(s, x)) /\ Len(Append(s, x)) = Len(s) + 1
           /\ Append(s, x)[Len(s) + 1] = x
           /\ \A i \in 1 .. Len(s) : Append(s, x)[i] = s[i]
<1>1. PICK S : S = {s[i] : i \in 1 .. Len(s)} \cup {x}
  OBVIOUS
<1>2. s \in Seq(S) /\ x \in S
  <2>1. s \in Seq({s[i] : i \in 1 .. Len(s)})
    BY SequenceOf
  <2>2. PICK U : U = {s[i] : i \in 1 .. Len(s)}
    OBVIOUS
  <2>3. s \in Seq(U) /\ U \subseteq S /\ x \in S
    BY <1>1, <2>1, <2>2
  <2> QED
    BY <2>3
<1>3. Append(s, x) \in Seq(S)
  BY <1>2
<1>4. IsSequence(Append(s, x))
  BY <1>3, IsSequenceOf
<1> QED
  BY <1>2, <1>4

(* One less.                                                               *)
LEMMA Tailed ==
    ASSUME NEW s, IsSequence(s), s # <<>>
    PROVE  /\ IsSequence(Tail(s)) /\ Len(Tail(s)) = Len(s) - 1 /\ Len(s) \in Nat \ {0}
           /\ Head(s) = s[1]
           /\ \A i \in 1 .. Len(Tail(s)) : Tail(s)[i] = s[i + 1]
<1>1. PICK S : s \in Seq(S)
  BY SequenceOf
<1>2. /\ Tail(s) \in Seq(S) /\ Len(Tail(s)) = Len(s) - 1 /\ Len(s) \in Nat \ {0}
      /\ Head(s) = s[1]
  BY <1>1
<1>3. \A i \in 1 .. Len(Tail(s)) : Tail(s)[i] = s[i + 1]
  BY <1>1, HeadTailProperties
<1> QED
  BY <1>2, <1>3, IsSequenceOf

-----------------------------------------------------------------------------
(* The inductive invariant, for the values of the variables.               *)
Asks(s) == IsSequence(s) /\ \A i \in 1 .. Len(s) : IsRequest(s[i])

(* What is on its way to the server was asked last, in this order.         *)
Sends(q, s) ==
    /\ IsSequence(q) /\ Len(q) <= Len(s)
    /\ \A i \in 1 .. Len(q) : Delivers(q[i], s[(Len(s) - Len(q)) + i])

(* What the server hears are the first n requests that it handles.         *)
HandledOf(s, n) == Kept(s, {i \in 1 .. n : s[i].id \in ServerHandles})
Hears(n, s, h) ==
    /\ IsSequence(h) /\ Len(h) = Len(HandledOf(s, n))
    /\ \A i \in 1 .. Len(h) : h[i] = AsSent(HandledOf(s, n)[i])

(* Its answers that are no broadcasts are those to what it hears, and none *)
(* is missing while it runs.                                               *)
RepliesOf(a) == Kept(a, {i \in 1 .. Len(a) : a[i].id # 813})
Replies(a, h, u) ==
    /\ Len(RepliesOf(a)) <= Len(h) /\ (u => Len(RepliesOf(a)) = Len(h))
    /\ \A i \in 1 .. Len(RepliesOf(a)) : RepliesOf(a)[i].id = h[i].id + 1

(* What is on its way to the client was answered last, in this order; the  *)
(* answers before it the client has been told.                             *)
Returns(q, a, t, n) ==
    /\ IsSequence(q) /\ IsSequence(a) /\ IsSequence(t)
    /\ Len(a) = Len(t) + Len(q)
    /\ \A i \in 1 .. Len(a) : IsAnswer(a[i], n)
    /\ \A i \in 1 .. Len(q) : Conveys(q[i], a[Len(t) + i])
    /\ \A i \in 1 .. Len(t) : t[i].id = a[i].id /\ (Countable(a[i]) => t[i] = a[i])

(* A broadcast shows a message that was asked for.                         *)
Shows(b, m) ==
    /\ m.id = 811
    /\ b.values.Message = Cut(ServerWidth.Message, m.values.Message)
    /\ b.values.TimeChat = m.values.TimeChat
Echoes(a, s) ==
    \A i \in 1 .. Len(a) : a[i].id = 813 => \E k \in 1 .. Len(s) : Shows(a[i], s[k])

IInv ==
    /\ rooms \in Nat /\ up \in BOOLEAN
    /\ Asks(asked)
    /\ Sends(toServer, asked)
    /\ Hears(Len(asked) - Len(toServer), asked, heard)
    /\ Replies(answered, heard, up)
    /\ Returns(toClient, answered, told, rooms)
    /\ Echoes(answered, asked)
    /\ OnlyLongListsPanic

-----------------------------------------------------------------------------
(* What is logged of an answer, and whether it is a broadcast.             *)
BodyOf(x) == [id |-> x.id, values |-> x.values]
IsEcho(y) == y.id = 813

(* How its parts are preserved, first when the client asks.                *)
LEMMA AsksMore ==
    ASSUME NEW s, Asks(s), NEW m, IsRequest(m), NEW q, Sends(q, s),
           NEW p, Delivers(p, m), NEW a, Echoes(a, s)
    PROVE  /\ Asks(Append(s, m)) /\ Sends(Append(q, p), Append(s, m))
           /\ Echoes(a, Append(s, m))
           /\ Len(Append(s, m)) - Len(Append(q, p)) = Len(s) - Len(q)
<1>r. PICK r : r = Append(s, m)
  OBVIOUS
<1>o. PICK o : o = Append(q, p)
  OBVIOUS
<1>1. /\ IsSequence(r) /\ Len(r) = Len(s) + 1 /\ r[Len(s) + 1] = m
      /\ \A i \in 1 .. Len(s) : r[i] = s[i]
      /\ Len(s) \in Nat
  <2>1. IsSequence(s) /\ Len(s) \in Nat
    BY DEF Asks, IsSequence
  <2> QED
    BY <2>1, <1>r, Appended
<1>2. /\ IsSequence(o) /\ Len(o) = Len(q) + 1 /\ o[Len(q) + 1] = p
      /\ \A i \in 1 .. Len(q) : o[i] = q[i]
      /\ Len(q) \in Nat /\ Len(q) <= Len(s)
  <2>1. IsSequence(q) /\ Len(q) \in Nat /\ Len(q) <= Len(s)
    BY DEF Sends, IsSequence
  <2> QED
    BY <2>1, <1>o, Appended
<1>3. Asks(r)
  <2>1. ASSUME NEW i \in 1 .. Len(r) PROVE IsRequest(r[i])
    <3>1. CASE i = Len(s) + 1
      BY <3>1, <1>1
    <3>2. CASE i # Len(s) + 1
      <4>1. i \in 1 .. Len(s)
        BY <3>2, <1>1
      <4>2. IsRequest(s[i])
        BY <4>1 DEF Asks
      <4> QED
        BY <4>1, <4>2, <1>1
    <3> QED
      BY <3>1, <3>2
  <2> QED
    BY <2>1, <1>1 DEF Asks
<1>4. Len(r) - Len(o) = Len(s) - Len(q)
  BY <1>1, <1>2
<1>5. Sends(o, r)
  <2>1. ASSUME NEW i \in 1 .. Len(o) PROVE Delivers(o[i], r[(Len(r) - Len(o)) + i])
    <3>1. CASE i = Len(q) + 1
      <4>1. (Len(r) - Len(o)) + i = Len(s) + 1
        BY <3>1, <1>1, <1>2
      <4> QED
        BY <3>1, <4>1, <1>1, <1>2
    <3>2. CASE i # Len(q) + 1
      <4>1. i \in 1 .. Len(q)
        BY <3>2, <1>2
      <4>2. PICK j : j = (Len(s) - Len(q)) + i
        OBVIOUS
      <4>3. j \in 1 .. Len(s) /\ (Len(r) - Len(o)) + i = j
        BY <4>1, <4>2, <1>1, <1>2
      <4>4. Delivers(q[i], s[j])
        BY <4>1, <4>2 DEF Sends
      <4>5. r[j] = s[j] /\ o[i] = q[i]
        BY <4>1, <4>3, <1>1, <1>2
      <4> QED
        BY <4>3, <4>4, <4>5
    <3> QED
      BY <3>1, <3>2
  <2>2. Len(o) <= Len(r)
    BY <1>1, <1>2
  <2> QED
    BY <2>1, <2>2, <1>2 DEF Sends
<1>6. Echoes(a, r)
  <2>1. ASSUME NEW i \in 1 .. Len(a), a[i].id = 813
        PROVE  \E k \in 1 .. Len(r) : Shows(a[i], r[k])
    <3>1. PICK k \in 1 .. Len(s) : Shows(a[i], s[k])
      BY <2>1 DEF Echoes
    <3>2. k \in 1 .. Len(r) /\ r[k] = s[k]
      BY <1>1
    <3> QED
      BY <3>1, <3>2
  <2> QED
    BY <2>1 DEF Echoes
<1> QED
  BY <1>3, <1>4, <1>5, <1>6, <1>o, <1>r, Zenon

(* What the server has heard does not depend on what is asked later.       *)
LEMMA HearsAsMuch ==
    ASSUME NEW s, Asks(s), NEW m, NEW n \in Nat, n <= Len(s), NEW h, Hears(n, s, h)
    PROVE  Hears(n, Append(s, m), h)
<1>r. PICK r : r = Append(s, m)
  OBVIOUS
<1>1. /\ Len(r) = Len(s) + 1 /\ \A i \in 1 .. Len(s) : r[i] = s[i]
      /\ Len(s) \in Nat
  <2>1. IsSequence(s) /\ Len(s) \in Nat
    BY DEF Asks, IsSequence
  <2> QED
    BY <2>1, <1>r, Appended
<1>2. PICK S : s \in Seq(S) /\ m \in S
  <2>1. IsSequence(s)
    BY DEF Asks
  <2>2. PICK U : s \in Seq(U)
    BY <2>1, SequenceOf
  <2>3. PICK S : S = U \cup {m}
    OBVIOUS
  <2>4. s \in Seq(S) /\ m \in S
    BY <2>2, <2>3
  <2> QED
    BY <2>4
<1> DEFINE I == {i \in 1 .. n : s[i].id \in ServerHandles}
           J == {i \in 1 .. n : r[i].id \in ServerHandles}
<1>3. I = J /\ Len(s) + 1 \notin J
  <2>1. \A i \in 1 .. n : r[i] = s[i]
    BY <1>1
  <2> QED
    BY <2>1, <1>1
<1>4. HandledOf(r, n) = HandledOf(s, n)
  <2>1. Kept(Append(s, m), J) = Kept(s, I)
    <3> HIDE DEF I, J
    <3> QED
      BY <1>2, <1>3, KeptAppend
  <2> QED
    BY <2>1, <1>r DEF HandledOf
<1>5. Hears(n, r, h)
  BY <1>4 DEF Hears
<1> QED
  BY <1>5, <1>r

(* The server takes the oldest packet.                                     *)
LEMMA SendsLess ==
    ASSUME NEW s, Asks(s), NEW q, Sends(q, s), q # <<>>
    PROVE  LET n == Len(s) - Len(q)
           IN  /\ n \in Nat /\ n + 1 \in 1 .. Len(s) /\ n < Len(s)
               /\ Delivers(Head(q), s[n + 1]) /\ IsRequest(s[n + 1])
               /\ Sends(Tail(q), s) /\ Len(s) - Len(Tail(q)) = n + 1
<1>0. Len(s) \in Nat
  BY DEF Asks, IsSequence
<1>1. IsSequence(q) /\ Len(q) <= Len(s)
  BY DEF Sends
<1>o. PICK o : o = Tail(q)
  OBVIOUS
<1>2. /\ IsSequence(o) /\ Len(o) = Len(q) - 1 /\ Len(q) \in Nat \ {0}
      /\ Head(q) = q[1]
      /\ \A i \in 1 .. Len(o) : o[i] = q[i + 1]
  BY <1>1, <1>o, Tailed
<1>n. PICK n : n = Len(s) - Len(q)
  OBVIOUS
<1>3. n \in Nat /\ n + 1 \in 1 .. Len(s) /\ n < Len(s) /\ Len(s) - Len(o) = n + 1
  BY <1>0, <1>1, <1>2, <1>n
<1>4. Delivers(Head(q), s[n + 1])
  <2>1. 1 \in 1 .. Len(q)
    BY <1>2
  <2>2. Delivers(q[1], s[(Len(s) - Len(q)) + 1])
    BY <2>1 DEF Sends
  <2> QED
    BY <2>2, <1>2, <1>n, Zenon
<1>5. IsRequest(s[n + 1])
  BY <1>3 DEF Asks
<1>6. Sends(o, s)
  <2>1. ASSUME NEW i \in 1 .. Len(o) PROVE Delivers(o[i], s[(Len(s) - Len(o)) + i])
    <3>1. i + 1 \in 1 .. Len(q)
      BY <1>2
    <3>2. Delivers(q[i + 1], s[(Len(s) - Len(q)) + (i + 1)])
      BY <3>1 DEF Sends
    <3>3. (Len(s) - Len(q)) + (i + 1) = (Len(s) - Len(o)) + i
      BY <1>0, <1>2
    <3>4. o[i] = q[i + 1]
      BY <1>2
    <3> QED
      BY <3>2, <3>3, <3>4, Zenon
  <2>2. Len(o) <= Len(s)
    BY <1>0, <1>1, <1>2
  <2> QED
    BY <2>1, <2>2, <1>2 DEF Sends
<1> QED
  BY <1>3, <1>4, <1>5, <1>6, <1>n, <1>o, Zenon

(* And hears it, when it handles it.                                       *)
LEMMA HearsMore ==
    ASSUME NEW s, Asks(s), NEW n \in Nat, n < Len(s), NEW h, Hears(n, s, h)
    PROVE  /\ s[n + 1].id \in ServerHandles =>
                  Hears(n + 1, s, Append(h, AsSent(s[n + 1])))
           /\ s[n + 1].id \notin ServerHandles => Hears(n + 1, s, h)
<1>1. PICK S : s \in Seq(S)
  <2>1. IsSequence(s)
    BY DEF Asks
  <2> QED
    BY <2>1, SequenceOf
<1> DEFINE I == {i \in 1 .. n : s[i].id \in ServerHandles}
           J == {i \in 1 .. n + 1 : s[i].id \in ServerHandles}
<1>2. /\ \A i \in 1 .. Len(s) : i > n => i \notin I
      /\ \A i \in 1 .. Len(s) : i > n + 1 => i \notin J
      /\ \A i \in 1 .. n : i \in I <=> i \in J
      /\ n + 1 \in J <=> s[n + 1].id \in ServerHandles
  <2>1. n + 1 \in 1 .. n + 1 /\ \A i \in 1 .. n : i \in 1 .. n + 1
    OBVIOUS
  <2> QED
    BY <2>1
<1>k. PICK k, l : k = Kept(s, I) /\ l = Kept(s, J)
  OBVIOUS
<1>3. k = HandledOf(s, n) /\ l = HandledOf(s, n + 1)
  BY <1>k DEF HandledOf
<1>4. l = IF n + 1 \in J THEN Append(k, s[n + 1]) ELSE k
  <2> HIDE DEF I, J
  <2> QED
    BY <1>1, <1>2, <1>k, KeptStep
<1>5. k \in Seq(S)
  <2>1. \A i \in 1 .. Len(s) : i \in I <=> i \in I /\ i <= n
    OBVIOUS
  <2> HIDE DEF I, J
  <2>2. n \in Nat /\ n <= Len(s)
    BY <1>1
  <2>3. Kept(s, I) \in Seq(S)
    BY <2>1, <2>2, <1>1, KeptPrefix
  <2> QED
    BY <2>3, <1>k
<1> HIDE DEF I, J
<1>6. IsSequence(h) /\ Len(h) = Len(k) /\ \A i \in 1 .. Len(h) : h[i] = AsSent(k[i])
  BY <1>3 DEF Hears
<1>7. ASSUME s[n + 1].id \in ServerHandles
      PROVE  Hears(n + 1, s, Append(h, AsSent(s[n + 1])))
  <2>m. PICK m : m = s[n + 1]
    OBVIOUS
  <2>g. PICK g : g = Append(h, AsSent(m))
    OBVIOUS
  <2>1. l = Append(k, m)
    BY <1>2, <1>4, <1>7, <2>m
  <2>2. /\ Len(l) = Len(k) + 1 /\ l[Len(k) + 1] = m /\ Len(k) \in Nat
        /\ \A i \in 1 .. Len(k) : l[i] = k[i]
    <3>1. IsSequence(k) /\ Len(k) \in Nat
      BY <1>5, IsSequenceOf
    <3> QED
      BY <3>1, <2>1, Appended
  <2>3. /\ IsSequence(g) /\ Len(g) = Len(h) + 1 /\ g[Len(h) + 1] = AsSent(m)
        /\ \A i \in 1 .. Len(h) : g[i] = h[i]
    BY <2>g, <1>6, Appended
  <2>4. ASSUME NEW i \in 1 .. Len(g) PROVE g[i] = AsSent(l[i])
    <3>1. CASE i = Len(k) + 1
      BY <3>1, <2>2, <2>3, <1>6
    <3>2. CASE i # Len(k) + 1
      <4>1. i \in 1 .. Len(k) /\ i \in 1 .. Len(h)
        BY <3>2, <2>2, <2>3, <1>6
      <4> QED
        BY <4>1, <2>2, <2>3, <1>6
    <3> QED
      BY <3>1, <3>2
  <2>5. Hears(n + 1, s, g)
    BY <2>2, <2>3, <2>4, <1>3, <1>6 DEF Hears
  <2> QED
    BY <2>5, <2>g, <2>m
<1>8. ASSUME s[n + 1].id \notin ServerHandles PROVE Hears(n + 1, s, h)
  <2>1. l = k
    BY <1>2, <1>4, <1>8
  <2> QED
    BY <2>1, <1>3, <1>6 DEF Hears
<1> QED
  BY <1>7, <1>8

(* One answer more.                                                        *)
LEMMA RepliesAppend ==
    ASSUME NEW a, IsSequence(a), NEW y
    PROVE  /\ RepliesOf(Append(a, y)) =
                 IF y.id # 813 THEN Append(RepliesOf(a), y) ELSE RepliesOf(a)
           /\ IsSequence(RepliesOf(a))
<1>b. PICK b : b = Append(a, y)
  OBVIOUS
<1>1. /\ Len(b) = Len(a) + 1 /\ b[Len(a) + 1] = y /\ Len(a) \in Nat
      /\ \A i \in 1 .. Len(a) : b[i] = a[i]
  <2>1. Len(a) \in Nat
    BY DEF IsSequence
  <2> QED
    BY <2>1, <1>b, Appended
<1>2. PICK S : a \in Seq(S) /\ y \in S
  <2>1. PICK U : a \in Seq(U)
    BY SequenceOf
  <2>2. PICK S : S = U \cup {y}
    OBVIOUS
  <2>3. a \in Seq(S) /\ y \in S
    BY <2>1, <2>2
  <2> QED
    BY <2>3
<1> DEFINE I == {i \in 1 .. Len(a) : a[i].id # 813}
           J == {i \in 1 .. Len(b) : b[i].id # 813}
<1>3. /\ \A i \in 1 .. Len(a) : i \in I <=> i \in J
      /\ Len(a) + 1 \in J <=> y.id # 813
  BY <1>1
<1>4. RepliesOf(a) = Kept(a, I) /\ RepliesOf(b) = Kept(b, J)
  BY DEF RepliesOf
<1>5. \A i \in 1 .. Len(a) : i \in I <=> i \in I /\ i <= Len(a)
  BY <1>1
<1> HIDE DEF I, J
<1>6. Kept(b, J) = IF Len(a) + 1 \in J THEN Append(Kept(a, I), y) ELSE Kept(a, I)
  BY <1>2, <1>3, <1>b, KeptAppend
<1>7. Kept(a, I) \in Seq(S)
  <2>1. Len(a) \in Nat /\ Len(a) <= Len(a)
    BY <1>1
  <2> QED
    BY <2>1, <1>2, <1>5, KeptPrefix
<1>8. IsSequence(Kept(a, I))
  BY <1>7, IsSequenceOf
<1> QED
  BY <1>3, <1>4, <1>6, <1>8, <1>b

(* The server hears a request and answers it, or ends.                     *)
LEMMA RepliesMore ==
    ASSUME NEW a, IsSequence(a), NEW h, IsSequence(h), NEW x, Replies(a, h, TRUE)
    PROVE  /\ Replies(a, Append(h, x), FALSE)
           /\ \A y : y.id = x.id + 1 /\ ~IsEcho(y) =>
                 Replies(Append(a, y), Append(h, x), TRUE)
<1>k. PICK k : k = RepliesOf(a)
  OBVIOUS
<1>0. IsSequence(k)
  BY <1>k, RepliesAppend
<1>1. Len(k) = Len(h) /\ Len(h) \in Nat /\ Len(k) \in Nat
      /\ \A i \in 1 .. Len(k) : k[i].id = h[i].id + 1
  BY <1>k, <1>0 DEF Replies, IsSequence
<1>g. PICK g : g = Append(h, x)
  OBVIOUS
<1>2. /\ Len(g) = Len(h) + 1 /\ g[Len(h) + 1] = x
      /\ \A i \in 1 .. Len(h) : g[i] = h[i]
  BY <1>g, Appended
<1>3. Replies(a, g, FALSE)
  BY <1>1, <1>2, <1>k DEF Replies
<1>4. ASSUME NEW y, y.id = x.id + 1, ~IsEcho(y)
      PROVE  Replies(Append(a, y), g, TRUE)
  <2>l. PICK l : l = RepliesOf(Append(a, y))
    OBVIOUS
  <2>1. l = Append(k, y)
    BY <1>4, <1>k, <2>l, RepliesAppend DEF IsEcho
  <2>2. /\ Len(l) = Len(k) + 1 /\ l[Len(k) + 1] = y
        /\ \A i \in 1 .. Len(k) : l[i] = k[i]
    BY <2>1, <1>0, Appended
  <2>3. ASSUME NEW i \in 1 .. Len(l) PROVE l[i].id = g[i].id + 1
    <3>1. CASE i = Len(k) + 1
      BY <3>1, <2>2, <1>1, <1>2, <1>4
    <3>2. CASE i # Len(k) + 1
      <4>1. i \in 1 .. Len(k) /\ i \in 1 .. Len(h)
        BY <3>2, <2>2, <1>1
      <4> QED
        BY <4>1, <2>2, <1>1, <1>2
    <3> QED
      BY <3>1, <3>2
  <2>4. Len(l) = Len(g) /\ Len(l) <= Len(g)
    BY <2>2, <1>1, <1>2
  <2> QED
    BY <2>3, <2>4, <2>l DEF Replies
<1> QED
  BY <1>3, <1>4, <1>g

(* A broadcast is no reply.                                                *)
LEMMA RepliesBroadcast ==
    ASSUME NEW a, IsSequence(a), NEW h, NEW u, Replies(a, h, u), NEW y, IsEcho(y)
    PROVE  Replies(Append(a, y), h, u)
<1>1. RepliesOf(Append(a, y)) = RepliesOf(a)
  BY RepliesAppend DEF IsEcho
<1> QED
  BY <1>1 DEF Replies

(* An answer is sent.                                                      *)
LEMMA ReturnsMore ==
    ASSUME NEW q, NEW a, NEW t, NEW n, Returns(q, a, t, n),
           NEW p, NEW y, Conveys(p, y), IsAnswer(y, n)
    PROVE  Returns(Append(q, p), Append(a, y), t, n)
<1>0. IsSequence(q) /\ IsSequence(a) /\ IsSequence(t) /\ Len(a) = Len(t) + Len(q)
      /\ Len(q) \in Nat /\ Len(a) \in Nat /\ Len(t) \in Nat
  BY DEF Returns, IsSequence
<1>o. PICK o : o = Append(q, p)
  OBVIOUS
<1>b. PICK b : b = Append(a, y)
  OBVIOUS
<1>1. /\ IsSequence(o) /\ Len(o) = Len(q) + 1 /\ o[Len(q) + 1] = p
      /\ \A i \in 1 .. Len(q) : o[i] = q[i]
  BY <1>0, <1>o, Appended
<1>2. /\ IsSequence(b) /\ Len(b) = Len(a) + 1 /\ b[Len(a) + 1] = y
      /\ \A i \in 1 .. Len(a) : b[i] = a[i]
  BY <1>0, <1>b, Appended
<1>3. Len(b) = Len(t) + Len(o)
  BY <1>0, <1>1, <1>2
<1>4. ASSUME NEW i \in 1 .. Len(b) PROVE IsAnswer(b[i], n)
  <2>1. CASE i = Len(a) + 1
    BY <2>1, <1>2
  <2>2. CASE i # Len(a) + 1
    <3>1. i \in 1 .. Len(a)
      BY <2>2, <1>0, <1>2
    <3>2. IsAnswer(a[i], n)
      BY <3>1 DEF Returns
    <3> QED
      BY <3>1, <3>2, <1>2
  <2> QED
    BY <2>1, <2>2
<1>5. ASSUME NEW i \in 1 .. Len(o) PROVE Conveys(o[i], b[Len(t) + i])
  <2>1. CASE i = Len(q) + 1
    <3>1. Len(t) + i = Len(a) + 1
      BY <2>1, <1>0
    <3> QED
      BY <2>1, <3>1, <1>1, <1>2
  <2>2. CASE i # Len(q) + 1
    <3>1. i \in 1 .. Len(q)
      BY <2>2, <1>0, <1>1
    <3>2. Conveys(q[i], a[Len(t) + i])
      BY <3>1 DEF Returns
    <3>3. Len(t) + i \in 1 .. Len(a)
      BY <3>1, <1>0
    <3> QED
      BY <3>1, <3>2, <3>3, <1>1, <1>2
  <2> QED
    BY <2>1, <2>2
<1>6. ASSUME NEW i \in 1 .. Len(t)
      PROVE  t[i].id = b[i].id /\ (Countable(b[i]) => t[i] = b[i])
  <2>1. t[i].id = a[i].id /\ (Countable(a[i]) => t[i] = a[i])
    BY DEF Returns
  <2>2. i \in 1 .. Len(a)
    BY <1>0
  <2> QED
    BY <2>1, <2>2, <1>2
<1>7. Returns(o, b, t, n)
  BY <1>0, <1>1, <1>2, <1>3, <1>4, <1>5, <1>6 DEF Returns
<1> QED
  BY <1>7, <1>b, <1>o

(* An answer is decoded.                                                   *)
LEMMA ReturnsLess ==
    ASSUME NEW q, NEW a, NEW t, NEW n, Returns(q, a, t, n), q # <<>>
    PROVE  /\ Conveys(Head(q), a[Len(t) + 1]) /\ IsAnswer(a[Len(t) + 1], n)
           /\ \A x : x.id = a[Len(t) + 1].id
                     /\ (Countable(a[Len(t) + 1]) => x = a[Len(t) + 1])
                     => Returns(Tail(q), a, Append(t, x), n)
<1>0. IsSequence(q) /\ IsSequence(a) /\ IsSequence(t) /\ Len(a) = Len(t) + Len(q)
      /\ Len(q) \in Nat /\ Len(a) \in Nat /\ Len(t) \in Nat
  BY DEF Returns, IsSequence
<1>o. PICK o : o = Tail(q)
  OBVIOUS
<1>1. /\ IsSequence(o) /\ Len(o) = Len(q) - 1 /\ Len(q) \in Nat \ {0}
      /\ Head(q) = q[1]
      /\ \A i \in 1 .. Len(o) : o[i] = q[i + 1]
  BY <1>0, <1>o, Tailed
<1>2. Conveys(Head(q), a[Len(t) + 1])
  <2>1. 1 \in 1 .. Len(q)
    BY <1>1
  <2>2. Conveys(q[1], a[Len(t) + 1])
    BY <2>1 DEF Returns
  <2> QED
    BY <2>2, <1>1
<1>3. IsAnswer(a[Len(t) + 1], n)
  <2>1. Len(t) + 1 \in 1 .. Len(a)
    BY <1>0, <1>1
  <2> QED
    BY <2>1 DEF Returns
<1>4. ASSUME NEW x, x.id = a[Len(t) + 1].id,
             Countable(a[Len(t) + 1]) => x = a[Len(t) + 1]
      PROVE  Returns(o, a, Append(t, x), n)
  <2>u. PICK u : u = Append(t, x)
    OBVIOUS
  <2>1. /\ IsSequence(u) /\ Len(u) = Len(t) + 1 /\ u[Len(t) + 1] = x
        /\ \A i \in 1 .. Len(t) : u[i] = t[i]
    BY <2>u, <1>0, Appended
  <2>2. Len(a) = Len(u) + Len(o)
    BY <1>0, <1>1, <2>1
  <2>3. ASSUME NEW i \in 1 .. Len(o) PROVE Conveys(o[i], a[Len(u) + i])
    <3>1. i + 1 \in 1 .. Len(q) /\ Len(t) + (i + 1) = Len(u) + i
      BY <1>0, <1>1, <2>1
    <3>2. Conveys(q[i + 1], a[Len(t) + (i + 1)])
      BY <3>1 DEF Returns
    <3>3. o[i] = q[i + 1]
      BY <1>1
    <3> QED
      BY <3>1, <3>2, <3>3, Zenon
  <2>4. ASSUME NEW i \in 1 .. Len(u)
        PROVE  u[i].id = a[i].id /\ (Countable(a[i]) => u[i] = a[i])
    <3>1. CASE i = Len(t) + 1
      BY <3>1, <2>1, <1>4
    <3>2. CASE i # Len(t) + 1
      <4>1. i \in 1 .. Len(t)
        BY <3>2, <1>0, <2>1
      <4>2. t[i].id = a[i].id /\ (Countable(a[i]) => t[i] = a[i])
        BY <4>1 DEF Returns
      <4> QED
        BY <4>1, <4>2, <2>1
    <3> QED
      BY <3>1, <3>2
  <2>5. \A i \in 1 .. Len(a) : IsAnswer(a[i], n)
    BY DEF Returns
  <2>6. Returns(o, a, u, n)
    BY <1>0, <1>1, <2>1, <2>2, <2>3, <2>4, <2>5 DEF Returns
  <2> QED
    BY <2>6, <2>u
<1> QED
  BY <1>2, <1>3, <1>4, <1>o

(* A room is created.                                                      *)
LEMMA ReturnsRooms ==
    ASSUME NEW q, NEW a, NEW t, NEW n \in Nat, Returns(q, a, t, n)
    PROVE  Returns(q, a, t, n + 1)
<1>1. ASSUME NEW i \in 1 .. Len(a) PROVE IsAnswer(a[i], n + 1)
  <2>1. IsAnswer(a[i], n)
    BY DEF Returns
  <2>2. PICK x : x = a[i].values.Len.n
    OBVIOUS
  <2>3. x \in Nat /\ x <= n => x <= n + 1
    OBVIOUS
  <2> QED
    BY <2>1, <2>2, <2>3 DEF IsAnswer
<1>2. /\ IsSequence(q) /\ IsSequence(a) /\ IsSequence(t) /\ Len(a) = Len(t) + Len(q)
      /\ \A i \in 1 .. Len(q) : Conveys(q[i], a[Len(t) + i])
      /\ \A i \in 1 .. Len(t) : t[i].id = a[i].id /\ (Countable(a[i]) => t[i] = a[i])
  BY DEF Returns
<1> QED
  BY <1>1, <1>2 DEF Returns

(* An answer that shows a request, or is no broadcast.                     *)
LEMMA EchoesMore ==
    ASSUME NEW a, IsSequence(a), NEW s, Echoes(a, s), NEW y,
           IsEcho(y) => \E k \in 1 .. Len(s) : Shows(y, s[k])
    PROVE  Echoes(Append(a, y), s)
<1>b. PICK b : b = Append(a, y)
  OBVIOUS
<1>1. /\ Len(b) = Len(a) + 1 /\ b[Len(a) + 1] = y /\ Len(a) \in Nat
      /\ \A i \in 1 .. Len(a) : b[i] = a[i]
  <2>1. Len(a) \in Nat
    BY DEF IsSequence
  <2> QED
    BY <2>1, <1>b, Appended
<1>2. ASSUME NEW i \in 1 .. Len(b), b[i].id = 813
      PROVE  \E k \in 1 .. Len(s) : Shows(b[i], s[k])
  <2>1. CASE i = Len(a) + 1
    BY <2>1, <1>1, <1>2 DEF IsEcho
  <2>2. CASE i # Len(a) + 1
    <3>1. i \in 1 .. Len(a)
      BY <2>2, <1>1
    <3> QED
      BY <3>1, <1>1, <1>2 DEF Echoes
  <2> QED
    BY <2>1, <2>2
<1>3. Echoes(b, s)
  BY <1>2 DEF Echoes
<1> QED
  BY <1>3, <1>b

-----------------------------------------------------------------------------
(* Answers, one or two.                                                    *)
LEMMA AnswerOne ==
    ASSUME NEW x, ~x.packet.panic, IsSequence(toClient), IsSequence(answered),
           Answer(<<x>>)
    PROVE  /\ toClient' = Append(toClient, x.packet)
           /\ answered' = Append(answered, BodyOf(x))
           /\ up' = up
<1>1. DOMAIN <<x>> = {1} /\ <<x>>[1] = x
  OBVIOUS
<1>2. ~\E i \in DOMAIN <<x>> : <<x>>[i].packet.panic
  BY <1>1
<1>3. /\ toClient' = toClient \o [i \in DOMAIN <<x>> |-> <<x>>[i].packet]
      /\ answered' = answered \o [i \in DOMAIN <<x>> |->
                        [id |-> <<x>>[i].id, values |-> <<x>>[i].values]]
      /\ up' = up
  BY <1>2, Zenon DEF Answer
<1>4. ASSUME NEW s, IsSequence(s), NEW y, NEW z, z = [i \in DOMAIN <<x>> |-> y]
      PROVE  s \o z = Append(s, y)
  <2>1. z = <<y>>
    <3>1. [i \in {1} |-> y] = <<y>>
      OBVIOUS
    <3> QED
      BY <3>1, <1>1, <1>4, Zenon
  <2>2. PICK S : s \in Seq(S)
    BY <1>4, SequenceOf
  <2>3. s \o <<y>> = Append(s, y)
    <3>1. s \in Seq(S \cup {y}) /\ y \in S \cup {y}
      BY <2>2
    <3> QED
      BY <3>1, AppendIsConcat
  <2> QED
    BY <2>1, <2>3, Zenon
<1>5. [i \in DOMAIN <<x>> |-> <<x>>[i].packet] = [i \in DOMAIN <<x>> |-> x.packet]
  BY <1>1
<1>6. [i \in DOMAIN <<x>> |-> [id |-> <<x>>[i].id, values |-> <<x>>[i].values]]
        = [i \in DOMAIN <<x>> |-> [id |-> x.id, values |-> x.values]]
  BY <1>1
<1> QED
  BY <1>3, <1>4, <1>5, <1>6, Zenon DEF BodyOf

(* Two answers, one behind the other.                                      *)
LEMMA AnswerTwo ==
    ASSUME NEW x, NEW y, ~x.packet.panic, ~y.packet.panic,
           IsSequence(toClient), IsSequence(answered), Answer(<<x, y>>)
    PROVE  /\ toClient' = Append(Append(toClient, x.packet), y.packet)
           /\ answered' = Append(Append(answered, BodyOf(x)), BodyOf(y))
           /\ up' = up
<1>w. PICK w : w = <<x, y>>
  OBVIOUS
<1>1. DOMAIN w = {1, 2} /\ w[1] = x /\ w[2] = y
  <2>1. DOMAIN <<x, y>> = 1 .. 2 /\ 1 .. 2 = {1, 2}
    OBVIOUS
  <2> QED
    BY <2>1, <1>w
<1>2. ~\E i \in DOMAIN w : w[i].packet.panic
  BY <1>1
<1>3. /\ toClient' = toClient \o [i \in DOMAIN w |-> w[i].packet]
      /\ answered' = answered \o [i \in DOMAIN w |-> [id |-> w[i].id, values |-> w[i].values]]
      /\ up' = up
  <2>1. Answer(w)
    BY <1>w
  <2> QED
    BY <1>2, <2>1, Zenon DEF Answer
<1>4. ASSUME NEW s, IsSequence(s), NEW u, NEW v
      PROVE  s \o <<u, v>> = Append(Append(s, u), v)
  <2>1. PICK U : s \in Seq(U)
    BY <1>4, SequenceOf
  <2>2. PICK S : S = U \cup {u, v}
    OBVIOUS
  <2>3. s \in Seq(S) /\ u \in S /\ v \in S
    BY <2>1, <2>2
  <2>z. PICK z : z = <<u, v>>
    OBVIOUS
  <2>4. z \in Seq(S) /\ Len(z) = 2 /\ z[1] = u /\ z[2] = v
    BY <2>3, <2>z
  <2>l. PICK l : l = s \o z
    OBVIOUS
  <2>5. /\ l \in Seq(S) /\ Len(l) = Len(s) + 2
        /\ \A k \in 1 .. Len(s) : l[k] = s[k]
        /\ \A k \in 1 .. 2 : l[Len(s) + k] = z[k]
    <3>1. s \in Seq(S) /\ z \in Seq(S)
      BY <2>3, <2>4
    <3>2. /\ l \in Seq(S) /\ Len(l) = Len(s) + Len(z)
          /\ \A k \in 1 .. Len(s) : l[k] = s[k]
          /\ \A k \in 1 .. Len(z) : l[Len(s) + k] = z[k]
      BY <3>1, <2>l, Concatenated
    <3> QED
      BY <3>2, <2>4
  <2>a. PICK a : a = Append(s, u)
    OBVIOUS
  <2>b. PICK b : b = Append(a, v)
    OBVIOUS
  <2>6. /\ a \in Seq(S) /\ Len(a) = Len(s) + 1 /\ a[Len(s) + 1] = u
        /\ \A k \in 1 .. Len(s) : a[k] = s[k]
        /\ Len(s) \in Nat
    BY <2>3, <2>a
  <2>7. /\ b \in Seq(S) /\ Len(b) = Len(s) + 2 /\ b[Len(s) + 2] = v
        /\ \A k \in 1 .. Len(s) + 1 : b[k] = a[k]
    <3>1. /\ b \in Seq(S) /\ Len(b) = Len(a) + 1 /\ b[Len(a) + 1] = v
          /\ \A k \in 1 .. Len(a) : b[k] = a[k]
      BY <2>3, <2>6, <2>b
    <3>2. Len(a) + 1 = Len(s) + 2
      BY <2>6
    <3> QED
      BY <3>1, <3>2, <2>6
  <2>8. ASSUME NEW k \in 1 .. Len(l) PROVE l[k] = b[k]
    <3>0. 1 \in 1 .. 2 /\ 2 \in 1 .. 2
      OBVIOUS
    <3>1. CASE k \in 1 .. Len(s)
      <4>1. k \in 1 .. Len(s) + 1
        BY <3>1, <2>6
      <4> QED
        BY <3>1, <4>1, <2>5, <2>6, <2>7
    <3>2. CASE k = Len(s) + 1
      <4>1. Len(s) + 1 \in 1 .. Len(s) + 1
        BY <2>6
      <4>2. l[Len(s) + 1] = u
        BY <3>0, <2>4, <2>5
      <4>3. b[Len(s) + 1] = u
        BY <4>1, <2>6, <2>7
      <4> QED
        BY <3>2, <4>2, <4>3
    <3>3. CASE k = Len(s) + 2
      <4>1. l[Len(s) + 2] = v
        BY <3>0, <2>4, <2>5
      <4> QED
        BY <3>3, <4>1, <2>7
    <3> QED
      BY <3>1, <3>2, <3>3, <2>5, <2>6
  <2>9. l = b
    BY <2>5, <2>7, <2>8, SameSequence
  <2> QED
    BY <2>9, <2>a, <2>b, <2>l, <2>z, Zenon
<1>5. [i \in DOMAIN w |-> w[i].packet] = <<x.packet, y.packet>>
  <2>1. PICK u, v : u = x.packet /\ v = y.packet
    OBVIOUS
  <2>2. \A i \in {1, 2} : w[i].packet = <<u, v>>[i]
    BY <1>1, <2>1
  <2>3. <<u, v>> = [i \in {1, 2} |-> <<u, v>>[i]]
    OBVIOUS
  <2> QED
    BY <1>1, <2>1, <2>2, <2>3, Zenon
<1>6. [i \in DOMAIN w |-> [id |-> w[i].id, values |-> w[i].values]]
        = <<[id |-> x.id, values |-> x.values], [id |-> y.id, values |-> y.values]>>
  <2>1. PICK u, v : u = [id |-> x.id, values |-> x.values] /\ v = [id |-> y.id, values |-> y.values]
    OBVIOUS
  <2>2. \A i \in {1, 2} : [id |-> w[i].id, values |-> w[i].values] = <<u, v>>[i]
    BY <1>1, <2>1
  <2>3. <<u, v>> = [i \in {1, 2} |-> <<u, v>>[i]]
    OBVIOUS
  <2> QED
    BY <1>1, <2>1, <2>2, <2>3, Zenon
<1> QED
  BY <1>3, <1>4, <1>5, <1>6 DEF BodyOf

(* An answer whose packet conveys it.                                      *)
Says(x, n) ==
    Conveys(x.packet, BodyOf(x)) /\ ~x.packet.panic /\ IsAnswer(BodyOf(x), n)

(* An answer of fixed fields that fit is conveyed by its packet.           *)
LEMMA SaysFixed ==
    ASSUME NEW id \in AnswerIds, id # 804, NEW val, NEW n,
           Fit(ServerWidth, AnswerFields(id), val), IsRecord(AnswerFields(id), val)
    PROVE  LET x == Say(Layout(id, AnswerFields(id)), val)
           IN  Says(x, n) /\ x.id = id
<1>l. PICK layout : layout = Layout(id, AnswerFields(id))
  OBVIOUS
<1>p. PICK p : p = Encode(ServerWidth, Layout(id, AnswerFields(id)), val)
  OBVIOUS
<1>1. Conveys(p, [id |-> id, values |-> val]) /\ ~p.panic
  BY <1>p, AnswerSent
<1>x. PICK x : x = Say(layout, val)
  OBVIOUS
<1>2. layout.id = id
  BY <1>l DEF Layout
<1>3. x.id = id /\ x.values = val /\ x.packet = p
  <2>1. Encode(ServerWidth, layout, val) = p
    BY <1>l, <1>p, Zenon
  <2> QED
    BY <1>x, <1>2, <2>1 DEF Say
<1>4. IsAnswer([id |-> id, values |-> val], n)
  BY DEF IsAnswer
<1>5. Says(x, n)
  BY <1>1, <1>3, <1>4, Zenon DEF Says, BodyOf
<1> QED
  BY <1>3, <1>5, <1>x, <1>l, Zenon

(* The result of a request.                                                *)
LEMMA SaysCode ==
    ASSUME NEW id \in {702, 704, 812}, NEW code \in Int, NEW n
    PROVE  LET x == Say(Layout(id, <<"ErrorCode">>), [ErrorCode |-> Number(code)])
           IN  Says(x, n) /\ x.id = id
<1>f. PICK F : F = AnswerFields(id)
  OBVIOUS
<1>1. F = <<"ErrorCode">> /\ id \in AnswerIds /\ id # 804
  BY <1>f DEF AnswerFields, AnswerIds
<1> DEFINE val == [ErrorCode |-> Number(code)]
<1>2. Number(code) \in Value /\ Number(code).text = "number"
  BY NumberIsValue
<1>3. Len(F) = 1 /\ F[1] = "ErrorCode" /\ \A k : k \in 1 .. 1 <=> k = 1
  BY <1>1
<1>v. val["ErrorCode"] = Number(code) /\ DOMAIN val = {"ErrorCode"}
      /\ val = [f \in {"ErrorCode"} |-> val[f]]
  OBVIOUS
<1> HIDE DEF val
<1>4. Fit(ServerWidth, F, val)
  BY <1>2, <1>3, <1>v DEF Fit
<1>5. IsRecord(F, val)
  <2>1. {F[k] : k \in 1 .. Len(F)} = {"ErrorCode"}
    BY <1>3
  <2> QED
    BY <1>v, <2>1, Zenon DEF IsRecord
<1>6. Says(Say(Layout(id, F), val), n) /\ Say(Layout(id, F), val).id = id
  <2>1. Fit(ServerWidth, AnswerFields(id), val) /\ IsRecord(AnswerFields(id), val)
    BY <1>4, <1>5, <1>f
  <2>2. id \in AnswerIds /\ id # 804
    BY <1>1
  <2>3. /\ Says(Say(Layout(id, AnswerFields(id)), val), n)
        /\ Say(Layout(id, AnswerFields(id)), val).id = id
    BY <2>1, <2>2, SaysFixed
  <2> QED
    BY <2>3, <1>f
<1>7. /\ Says(Say(Layout(id, <<"ErrorCode">>), val), n)
      /\ Say(Layout(id, <<"ErrorCode">>), val).id = id
  BY <1>1, <1>6
<1> QED
  BY <1>7 DEF val

(* The result of a new room.                                               *)
LEMMA SaysRoom ==
    ASSUME NEW code \in Int, NEW room \in Int, NEW n
    PROVE  LET x == Say(ServerCreateRes, [ErrorCode |-> Number(code),
                                          ChatRoomID |-> Number(room)])
           IN  Says(x, n) /\ x.id = 802
<1>f. PICK F : F = AnswerFields(802)
  OBVIOUS
<1>1. F = <<"ErrorCode", "ChatRoomID">> /\ 802 \in AnswerIds /\ 802 # 804
  BY <1>f DEF AnswerFields, AnswerIds
<1>v. PICK val : val = [ErrorCode |-> Number(code), ChatRoomID |-> Number(room)]
  OBVIOUS
<1>2. /\ Number(code) \in Value /\ Number(code).text = "number"
      /\ Number(room) \in Value /\ Number(room).text = "number"
  BY NumberIsValue
<1>3. Len(F) = 2 /\ F[1] = "ErrorCode" /\ F[2] = "ChatRoomID"
      /\ \A k : k \in 1 .. 2 <=> k = 1 \/ k = 2
  BY <1>1
<1>4. Fit(ServerWidth, F, val)
  <2>1. val["ErrorCode"] = Number(code) /\ val["ChatRoomID"] = Number(room)
    BY <1>v
  <2> QED
    BY <1>2, <1>3, <2>1 DEF Fit
<1>5. IsRecord(F, val)
  <2>1. /\ DOMAIN val = {"ErrorCode", "ChatRoomID"}
        /\ val = [f \in {"ErrorCode", "ChatRoomID"} |-> val[f]]
    BY <1>v
  <2>2. {F[k] : k \in 1 .. Len(F)} = {"ErrorCode", "ChatRoomID"}
    BY <1>3
  <2> QED
    BY <2>1, <2>2, Zenon DEF IsRecord
<1>6. ServerCreateRes = Layout(802, F)
  BY <1>1 DEF ServerCreateRes
<1>7. Says(Say(ServerCreateRes, val), n) /\ Say(ServerCreateRes, val).id = 802
  <2>1. Fit(ServerWidth, AnswerFields(802), val) /\ IsRecord(AnswerFields(802), val)
    BY <1>4, <1>5, <1>f, Zenon
  <2>2. /\ Says(Say(Layout(802, AnswerFields(802)), val), n)
        /\ Say(Layout(802, AnswerFields(802)), val).id = 802
    <3>1. 802 \in AnswerIds /\ 802 # 804
      BY <1>1
    <3>2. PICK id : id = 802
      OBVIOUS
    <3>3. id \in AnswerIds /\ id # 804
      BY <3>1, <3>2
    <3>4. Fit(ServerWidth, AnswerFields(id), val) /\ IsRecord(AnswerFields(id), val)
      BY <2>1, <3>2, Zenon
    <3>5. /\ Says(Say(Layout(id, AnswerFields(id)), val), n)
          /\ Say(Layout(id, AnswerFields(id)), val).id = id
      BY <3>3, <3>4, SaysFixed
    <3> QED
      BY <3>5, <3>2
  <2> QED
    BY <2>2, <1>6, <1>f
<1> QED
  BY <1>7, <1>v, Zenon

(* The broadcast of a message shows it.                                    *)
EchoOf(m, sequence, name) ==
    Say(ServerBroadcast, Echo(AsSent(m).values, sequence, name))

(* It is one, and the client's packets convey it.                          *)
LEMMA SaysEcho ==
    ASSUME NEW m, IsRequest(m), m.id = 811, NEW sequence \in Int,
           NEW name \in Names \cup {Nothing}, NEW n,
           NEW x, x = EchoOf(m, sequence, name)
    PROVE  Says(x, n) /\ IsEcho(x) /\ Shows(BodyOf(x), m)
<1>f. PICK F : F = AnswerFields(813)
  OBVIOUS
<1>1. F = <<"MessageSequence", "Message", "TimeChat", "UserName">>
      /\ 813 \in AnswerIds /\ 813 # 804
  BY <1>f DEF AnswerFields, AnswerIds
<1>d. /\ "Message" \in DOMAIN m.values /\ "TimeChat" \in DOMAIN m.values
      /\ "Message" \notin IntegerField /\ "TimeChat" \notin IntegerField
      /\ m.values.TimeChat = Now
  <2>1. RequestFields(m.id) = <<"ChatRoomID", "TimeChat", "Message">>
    BY DEF RequestFields
  <2>2. PICK G : G = RequestFields(m.id)
    OBVIOUS
  <2>3. G[2] = "TimeChat" /\ G[3] = "Message" /\ 2 \in 1 .. Len(G) /\ 3 \in 1 .. Len(G)
    BY <2>1, <2>2
  <2>4. DOMAIN m.values = {G[k] : k \in 1 .. Len(G)}
    <3>1. IsRecord(RequestFields(m.id), m.values)
      BY DEF IsRequest
    <3>2. IsRecord(G, m.values)
      BY <3>1, <2>2
    <3> QED
      BY <3>2 DEF IsRecord
  <2>5. "Message" \notin IntegerField /\ "TimeChat" \notin IntegerField
    BY DEF IntegerField, Integers16
  <2>6. m.values.TimeChat = Now
    BY DEF IsRequest
  <2> QED
    BY <2>3, <2>4, <2>5, <2>6
<1>m. PICK message : message = m.values.Message
  OBVIOUS
<1>t. PICK time : time = m.values.TimeChat
  OBVIOUS
<1>2. message \in Value /\ message.n \in Nat /\ time \in Value /\ time.n = 23
  <2>1. message \in Value /\ message.n \in Nat /\ time \in Value
    BY <1>d, <1>m, <1>t DEF IsRequest
  <2>2. time = Now
    BY <1>d, <1>t
  <2> QED
    BY <2>1, <2>2 DEF Now
<1>s. PICK sent : sent = AsSent(m).values
  OBVIOUS
<1>3. sent.Message = Cut(512, message) /\ sent.TimeChat = Cut(24, time)
  <2>1. sent = [f \in DOMAIN m.values |->
                  IF f \in IntegerField THEN m.values[f] ELSE Cut(ServerWidth[f], m.values[f])]
    BY <1>s DEF AsSent
  <2>2. /\ sent["Message"] = Cut(ServerWidth["Message"], m.values["Message"])
        /\ sent["TimeChat"] = Cut(ServerWidth["TimeChat"], m.values["TimeChat"])
    BY <2>1, <1>d
  <2>3. ServerWidth["Message"] = 512 /\ ServerWidth["TimeChat"] = 24
    BY DEF ServerWidth
  <2> QED
    BY <2>2, <2>3, <1>m, <1>t
<1>4. Cut(24, time) = time
  <2>1. Lesser(24, time.n) = time.n
    BY <1>2 DEF Lesser
  <2>2. [time EXCEPT !.n = time.n] = time
    BY <1>2 DEF Value
  <2> QED
    BY <2>1, <2>2 DEF Cut
<1>5. /\ Cut(512, message) \in Value /\ Cut(512, message).n <= 512
      /\ Cut(512, Cut(512, message)) = Cut(512, message)
  BY <1>2, CutFits
<1>6. name \in Value /\ name.n \in Nat
  <2>1. Nothing \in Value /\ Nothing.n \in Nat
    <3>1. "" \in Text /\ 0 \in Int
      BY DEF Text
    <3> QED
      BY <3>1 DEF Nothing, Value
  <2> QED
    BY <2>1, PacketsAssumption
<1>7. Cut(16, name) \in Value /\ Cut(16, name).n <= 16
  BY <1>6, CutFits
<1>8. Number(sequence) \in Value /\ Number(sequence).text = "number"
  BY NumberIsValue
<1>v. PICK val : val = Echo(sent, sequence, name)
  OBVIOUS
<1>9. /\ val = [MessageSequence |-> Number(sequence), Message |-> Cut(512, message),
                TimeChat |-> time, UserName |-> Cut(16, name)]
  <2>1. /\ ServerWidth.Message = 512 /\ ServerWidth.TimeChat = 24
        /\ ServerWidth.UserName = 16
    BY DEF ServerWidth
  <2>2. /\ Cut(ServerWidth.Message, sent.Message) = Cut(512, message)
        /\ Cut(ServerWidth.TimeChat, sent.TimeChat) = time
        /\ Cut(ServerWidth.UserName, name) = Cut(16, name)
    BY <2>1, <1>3, <1>4, <1>5
  <2> QED
    BY <2>2, <1>v, Zenon DEF Echo
<1>a. /\ val["MessageSequence"] = Number(sequence) /\ val["Message"] = Cut(512, message)
      /\ val["TimeChat"] = time /\ val["UserName"] = Cut(16, name)
      /\ DOMAIN val = {"MessageSequence", "Message", "TimeChat", "UserName"}
  BY <1>9
<1>b. /\ Len(F) = 4 /\ F[1] = "MessageSequence" /\ F[2] = "Message"
      /\ F[3] = "TimeChat" /\ F[4] = "UserName"
      /\ \A k : k \in 1 .. 4 <=> k = 1 \/ k = 2 \/ k = 3 \/ k = 4
  BY <1>1
<1>c. Fit(ServerWidth, F, val)
  <2>1. ServerWidth["Message"] = 512 /\ ServerWidth["TimeChat"] = 24
        /\ ServerWidth["UserName"] = 16
    BY DEF ServerWidth
  <2>2. time.n <= 24
    BY <1>2
  <2>3. ASSUME NEW k \in 1 .. Len(F)
        PROVE  /\ val[F[k]] \in Value
               /\ val[F[k]].text = "number" \/ val[F[k]].n <= ServerWidth[F[k]]
    <3>1. CASE k = 1
      BY <3>1, <1>a, <1>b, <1>8
    <3>2. CASE k = 2
      BY <3>2, <1>a, <1>b, <1>5, <2>1
    <3>3. CASE k = 3
      BY <3>3, <1>a, <1>b, <1>2, <2>1, <2>2
    <3>4. CASE k = 4
      BY <3>4, <1>a, <1>b, <1>7, <2>1
    <3> QED
      BY <3>1, <3>2, <3>3, <3>4, <1>b
  <2> QED
    BY <2>3 DEF Fit
<1>g. IsRecord(F, val)
  <2>1. val = [f \in {"MessageSequence", "Message", "TimeChat", "UserName"} |-> val[f]]
    BY <1>9
  <2>2. {F[k] : k \in 1 .. Len(F)} = {"MessageSequence", "Message", "TimeChat", "UserName"}
    BY <1>b
  <2> QED
    BY <2>1, <2>2, <1>a, Zenon DEF IsRecord
<1>h. ServerBroadcast = Layout(813, F)
  BY <1>1 DEF ServerBroadcast
<1>x. x = Say(ServerBroadcast, val)
  BY <1>v, <1>s DEF EchoOf
<1>i. Says(x, n) /\ IsEcho(x)
  <2>1. PICK id : id = 813
    OBVIOUS
  <2>2. id \in AnswerIds /\ id # 804
    BY <1>1, <2>1
  <2>3. F = AnswerFields(id)
    BY <1>f, <2>1
  <2>4. Fit(ServerWidth, AnswerFields(id), val) /\ IsRecord(AnswerFields(id), val)
    BY <2>3, <1>c, <1>g, Zenon
  <2>5. /\ Says(Say(Layout(id, AnswerFields(id)), val), n)
        /\ Say(Layout(id, AnswerFields(id)), val).id = id
    BY <2>2, <2>4, SaysFixed
  <2> QED
    BY <2>5, <2>1, <2>3, <1>h, <1>x DEF IsEcho
<1>j. x.values = val
  BY <1>x DEF Say
<1>k. Shows(BodyOf(x), m)
  <2> DEFINE b == BodyOf(x)
  <2>1. b.values = x.values
    BY DEF BodyOf
  <2> HIDE DEF b
  <2>2. b.values = val
    BY <2>1, <1>j
  <2>3. ServerWidth.Message = 512
    BY DEF ServerWidth
  <2>4. /\ b.values.Message = Cut(ServerWidth.Message, m.values.Message)
        /\ b.values.TimeChat = m.values.TimeChat
    BY <2>2, <2>3, <1>a, <1>m, <1>t
  <2>5. Shows(b, m)
    BY <2>4 DEF Shows
  <2> QED
    BY <2>5 DEF b
<1> QED
  BY <1>i, <1>k

(* The rows that the server sends, and the answer that they make.          *)
RowsOf(n, creator, title) == [i \in 1 .. n |-> Row(i, creator, title)]
ListAnswer(n, list) ==
    [id |-> 804, packet |-> ServerViewRes(0, list),
     values |-> [ErrorCode |-> Number(0), Len |-> Number(n), rows |-> list]]

(* n rows that fit.                                                        *)
FullRows(list, n) ==
    /\ Len(list) = n /\ list \in Seq({list[i] : i \in 1 .. n}) /\ AreRows(list)
    /\ \A i \in 1 .. n : list[i] = Filled(ServerChatRoom, list[i])

(* The rows of the list are copied into slices of their fields.            *)
LEMMA RowsAre ==
    ASSUME NEW creator \in Names, NEW title \in Names, NEW n \in Nat,
           NEW list, list = RowsOf(n, creator, title)
    PROVE  FullRows(list, n)
<1>f. PICK F : F = ServerChatRoom
  OBVIOUS
<1>b. /\ Len(F) = 5 /\ F[1] = "ChatRoomID" /\ F[2] = "TimeChat" /\ F[3] = "UserName"
      /\ F[4] = "ChatRoomName" /\ F[5] = "NumAttendance"
      /\ \A k : k \in 1 .. 5 <=> k = 1 \/ k = 2 \/ k = 3 \/ k = 4 \/ k = 5
  BY <1>f DEF ServerChatRoom
<1>1. /\ creator \in Value /\ creator.n \in Nat
      /\ title \in Value /\ title.n \in Nat
  BY PacketsAssumption
<1>2. /\ Cut(16, creator) \in Value /\ Cut(16, creator).n <= 16
      /\ Cut(20, title) \in Value /\ Cut(20, title).n <= 20
  BY <1>1, CutFits
<1>w. /\ ServerWidth["TimeChat"] = 24 /\ ServerWidth["UserName"] = 16
      /\ ServerWidth["ChatRoomName"] = 20
  BY DEF ServerWidth
<1>3. ASSUME NEW i \in Nat
      PROVE  Fit(ServerWidth, F, Row(i, creator, title))
             /\ Row(i, creator, title) = Filled(F, Row(i, creator, title))
  <2>r. PICK row : row = Row(i, creator, title)
    OBVIOUS
  <2>d. PICK date : date = [text |-> "date", n |-> 19]
    OBVIOUS
  <2>1. date \in Value /\ date.n = 19 /\ date.n <= 24
    BY <2>d DEF Value, Text
  <2>c. PICK x, y : x = Cut(16, creator) /\ y = Cut(20, title)
    OBVIOUS
  <2>n. PICK u, v : u = Number(Int16(i)) /\ v = Number(1)
    OBVIOUS
  <2>2. /\ u \in Value /\ u.text = "number" /\ v \in Value /\ v.text = "number"
    <3>1. Int16(i) \in Int
      BY Int16Range
    <3> QED
      BY <3>1, <2>n, NumberIsValue
  <2>3. row = [ChatRoomID |-> u, TimeChat |-> date, UserName |-> x,
               ChatRoomName |-> y, NumAttendance |-> v]
    <3>1. ServerWidth.UserName = 16 /\ ServerWidth.ChatRoomName = 20
      BY <1>w
    <3> QED
      BY <3>1, <2>r, <2>d, <2>c, <2>n, Zenon DEF Row
  <2>4. /\ row["ChatRoomID"] = u /\ row["TimeChat"] = date /\ row["UserName"] = x
        /\ row["ChatRoomName"] = y /\ row["NumAttendance"] = v
    BY <2>3
  <2>5. row = [f \in {"ChatRoomID", "TimeChat", "UserName", "ChatRoomName",
                      "NumAttendance"} |-> row[f]]
    BY <2>3
  <2>6. ASSUME NEW k \in 1 .. Len(F)
        PROVE  /\ row[F[k]] \in Value
               /\ row[F[k]].text = "number" \/ row[F[k]].n <= ServerWidth[F[k]]
    <3>1. CASE k = 1
      BY <3>1, <2>2, <2>4, <1>b
    <3>2. CASE k = 2
      BY <3>2, <2>1, <2>4, <1>b, <1>w
    <3>3. CASE k = 3
      BY <3>3, <2>c, <2>4, <1>2, <1>b, <1>w
    <3>4. CASE k = 4
      BY <3>4, <2>c, <2>4, <1>2, <1>b, <1>w
    <3>5. CASE k = 5
      BY <3>5, <2>2, <2>4, <1>b
    <3> QED
      BY <3>1, <3>2, <3>3, <3>4, <3>5, <1>b
  <2>7. Fit(ServerWidth, F, row)
    BY <2>6 DEF Fit
  <2>8. {F[k] : k \in 1 .. Len(F)} = {"ChatRoomID", "TimeChat", "UserName",
                                      "ChatRoomName", "NumAttendance"}
    BY <1>b
  <2>9. row = Filled(F, row)
    BY <2>5, <2>8, Zenon DEF Filled
  <2> QED
    BY <2>7, <2>9, <2>r, Zenon
<1> DEFINE row(i) == Row(i, creator, title)
<1>l. list = [i \in 1 .. n |-> row(i)]
  BY DEF RowsOf
<1> HIDE DEF row
<1>4. /\ Len(list) = n /\ list = [i \in 1 .. Len(list) |-> list[i]]
      /\ \A i \in 1 .. n : list[i] = row(i)
  BY <1>l
<1>5. list \in Seq({list[i] : i \in 1 .. n})
  <2>1. [i \in 1 .. n |-> list[i]] \in Seq({list[i] : i \in 1 .. n})
    OBVIOUS
  <2> QED
    BY <1>4, <2>1, Zenon
<1>6. \A i \in 1 .. n : Fit(ServerWidth, F, list[i]) /\ list[i] = Filled(F, list[i])
  <2>1. \A i \in 1 .. n : Fit(ServerWidth, F, row(i)) /\ row(i) = Filled(F, row(i))
    BY <1>3 DEF row
  <2> QED
    BY <2>1, <1>4
<1>7. AreRows(list)
  BY <1>4, <1>6, <1>f DEF AreRows
<1> QED
  BY <1>4, <1>5, <1>6, <1>7, <1>f, Zenon DEF FullRows

-----------------------------------------------------------------------------
(* The server takes a request and hears what was asked.                    *)
Takes(m) ==
    /\ IsRequest(m) /\ \E k \in 1 .. Len(asked) : m = asked[k]
    /\ up = TRUE /\ asked' = asked
    /\ heard' = Append(heard, AsSent(m))
    /\ Sends(toServer', asked')
    /\ Hears(Len(asked') - Len(toServer'), asked', heard')

(* The handler of an id takes the oldest request and decodes it.           *)
LEMMA Hearing ==
    ASSUME IInv, NEW id \in ServerHandles, NEW layout,
           layout = Layout(id, RequestFields(id)),
           Dispatch(id), Hear(layout), asked' = asked
    PROVE  \E m : /\ Takes(m) /\ m.id = id
                  /\ Decode(ServerWidth, layout, Body).ok
                  /\ Decode(ServerWidth, layout, Body).values = AsSent(m).values
<1>q. PICK q : q = toServer
  OBVIOUS
<1>s. PICK s : s = asked
  OBVIOUS
<1>n. PICK n : n = Len(s) - Len(q)
  OBVIOUS
<1>1. /\ Asks(s) /\ Sends(q, s) /\ Hears(n, s, heard) /\ up \in BOOLEAN
  BY <1>q, <1>s, <1>n DEF IInv
<1>2. /\ up /\ q # <<>> /\ PeekPacketID(Head(q)) = id /\ toServer' = Tail(q)
  BY <1>q DEF Dispatch
<1>3. /\ n \in Nat /\ n + 1 \in 1 .. Len(s) /\ n < Len(s)
      /\ Delivers(Head(q), s[n + 1]) /\ IsRequest(s[n + 1])
      /\ Sends(Tail(q), s) /\ Len(s) - Len(Tail(q)) = n + 1
  BY <1>1, <1>2, <1>n, SendsLess
<1>m. PICK m : m = s[n + 1]
  OBVIOUS
<1>4. m.id = id /\ IsRequest(m) /\ Delivers(Head(q), m)
  <2>1. Delivers(Head(q), m) /\ IsRequest(m)
    BY <1>3, <1>m
  <2> QED
    BY <2>1, <1>2 DEF Delivers
<1>r. PICK r : r = Decode(ServerWidth, layout, Body)
  OBVIOUS
<1>5. r.ok /\ r.values = AsSent(m).values
  <2>1. Body = PeekPacketBody(Head(q))
    BY <1>q DEF Body
  <2>2. layout = Layout(m.id, RequestFields(m.id))
    BY <1>4
  <2>3. r = Decode(ServerWidth, Layout(m.id, RequestFields(m.id)), PeekPacketBody(Head(q)))
    BY <2>1, <2>2, <1>r, Zenon
  <2> QED
    BY <2>3, <1>4, Zenon DEF Delivers
<1>6. heard' = Append(heard, AsSent(m))
  <2>1. layout.id = id
    BY DEF Layout
  <2>2. heard' = Append(heard, [id |-> id, values |-> r.values])
    BY <2>1, <1>r, Zenon DEF Hear
  <2>3. AsSent(m) = [id |-> m.id, values |-> AsSent(m).values]
    BY DEF AsSent
  <2> QED
    BY <2>2, <2>3, <1>4, <1>5, Zenon
<1>7. Hears(n + 1, s, heard')
  <2>1. s[n + 1].id \in ServerHandles
    BY <1>4, <1>m
  <2>2. Hears(n + 1, s, Append(heard, AsSent(s[n + 1])))
    BY <2>1, <1>1, <1>3, HearsMore
  <2> QED
    BY <2>2, <1>6, <1>m, Zenon
<1>8. Takes(m)
  <2>1. \E k \in 1 .. Len(asked) : m = asked[k]
    BY <1>3, <1>m, <1>s
  <2>2. Sends(toServer', asked')
    BY <1>2, <1>3, <1>s
  <2>3. Hears(Len(asked') - Len(toServer'), asked', heard')
    <3>1. Len(asked') - Len(toServer') = n + 1 /\ asked' = s
      BY <1>2, <1>3, <1>s
    <3> QED
      BY <3>1, <1>7, Zenon
  <2>4. up = TRUE
    BY <1>1, <1>2
  <2> QED
    BY <2>1, <2>2, <2>3, <2>4, <1>4, <1>6 DEF Takes
<1> QED
  BY <1>4, <1>5, <1>8, <1>r

(* The parts of the invariant about the requests and the counts.           *)
LEMMA TakenParts ==
    ASSUME IInv, NEW m, Takes(m)
    PROVE  /\ Asks(asked') /\ IsSequence(heard) /\ IsSequence(answered)
           /\ IsSequence(toClient) /\ IsSequence(told)
           /\ Replies(answered, heard, TRUE)
           /\ AsSent(m).id = m.id /\ m.id \in RequestIds
<1>1. Asks(asked')
  BY DEF IInv, Takes
<1>2. IsSequence(heard)
  BY DEF IInv, Hears
<1>3. IsSequence(answered) /\ IsSequence(toClient) /\ IsSequence(told)
  BY DEF IInv, Returns
<1>4. Replies(answered, heard, TRUE)
  BY DEF IInv, Takes
<1>5. AsSent(m).id = m.id /\ m.id \in RequestIds
  BY DEF AsSent, Takes, IsRequest
<1> QED
  BY <1>1, <1>2, <1>3, <1>4, <1>5

(* It answers.                                                             *)
LEMMA RepliedOnce ==
    ASSUME IInv, NEW m, Takes(m), NEW x, Says(x, rooms), x.id = m.id + 1, ~IsEcho(x),
           Answer(<<x>>), rooms' \in {rooms, rooms + 1}, told' = told
    PROVE  IInv'
<1>y. PICK y : y = BodyOf(x)
  OBVIOUS
<1>1. Conveys(x.packet, y) /\ ~x.packet.panic /\ IsAnswer(y, rooms)
  BY <1>y, Zenon DEF Says
<1>2. y.id = x.id /\ ~IsEcho(y)
  BY <1>y DEF BodyOf, IsEcho
<1>t. IsSequence(heard) /\ IsSequence(answered) /\ IsSequence(toClient)
  BY TakenParts
<1>h. heard' = Append(heard, AsSent(m)) /\ asked' = asked /\ up = TRUE
  BY DEF Takes
<1>3. /\ toClient' = Append(toClient, x.packet)
      /\ answered' = Append(answered, y)
      /\ up' = up
  <2>1. /\ toClient' = Append(toClient, x.packet)
        /\ answered' = Append(answered, BodyOf(x))
        /\ up' = up
    BY <1>1, <1>t, AnswerOne
  <2> QED
    BY <2>1, <1>y
<1>4. Replies(answered', heard', up')
  <2>1. y.id = AsSent(m).id + 1
    BY <1>2, TakenParts
  <2>2. Replies(answered, heard, TRUE)
    BY TakenParts
  <2>3. \A e : e.id = AsSent(m).id + 1 /\ ~IsEcho(e) =>
            Replies(Append(answered, e), Append(heard, AsSent(m)), TRUE)
    BY <2>2, <1>t, RepliesMore, Zenon
  <2>4. Replies(Append(answered, y), Append(heard, AsSent(m)), TRUE)
    BY <2>1, <2>3, <1>2, Zenon
  <2> QED
    BY <2>4, <1>3, <1>h, Zenon
<1>5. Returns(toClient', answered', told', rooms')
  <2>1. Returns(toClient', answered', told, rooms)
    BY <1>1, <1>3, ReturnsMore DEF IInv
  <2>2. Returns(toClient', answered', told, rooms + 1)
    BY <2>1, ReturnsRooms DEF IInv
  <2> QED
    BY <2>1, <2>2
<1>6. Echoes(answered', asked')
  <2>1. Echoes(answered, asked)
    BY DEF IInv
  <2>2. Echoes(Append(answered, y), asked)
    BY <2>1, <1>2, <1>t, EchoesMore, Zenon
  <2> QED
    BY <2>2, <1>3, <1>h, Zenon
<1>7. rooms' \in Nat /\ up' = TRUE
  BY <1>3, <1>h DEF IInv
<1>8. OnlyLongListsPanic'
  BY <1>7 DEF OnlyLongListsPanic
<1> QED
  BY <1>4, <1>5, <1>6, <1>7, <1>8, TakenParts DEF IInv, Takes

(* It answers, and broadcasts the message.                                 *)
LEMMA RepliedTwice ==
    ASSUME IInv, NEW m, Takes(m), NEW x, Says(x, rooms), x.id = m.id + 1, ~IsEcho(x),
           NEW z, Says(z, rooms), IsEcho(z), Shows(BodyOf(z), m),
           Answer(<<x, z>>), rooms' = rooms, told' = told
    PROVE  IInv'
<1>y. PICK y : y = BodyOf(x)
  OBVIOUS
<1>b. PICK b : b = BodyOf(z)
  OBVIOUS
<1>1. /\ Conveys(x.packet, y) /\ ~x.packet.panic /\ IsAnswer(y, rooms)
      /\ Conveys(z.packet, b) /\ ~z.packet.panic /\ IsAnswer(b, rooms)
  BY <1>y, <1>b, Zenon DEF Says
<1>2. y.id = x.id /\ ~IsEcho(y) /\ IsEcho(b) /\ Shows(b, m)
  <2>1. y.id = x.id /\ ~IsEcho(y)
    BY <1>y DEF BodyOf, IsEcho
  <2>2. IsEcho(b)
    BY <1>b DEF BodyOf, IsEcho
  <2> QED
    BY <2>1, <2>2, <1>b
<1>t. IsSequence(heard) /\ IsSequence(answered) /\ IsSequence(toClient)
  BY TakenParts
<1>h. /\ heard' = Append(heard, AsSent(m)) /\ asked' = asked /\ up = TRUE
      /\ \E k \in 1 .. Len(asked) : m = asked[k]
  BY DEF Takes
<1>a. PICK a : a = Append(answered, y)
  BY Zenon
<1>q. PICK q : q = Append(toClient, x.packet)
  BY Zenon
<1>3. /\ toClient' = Append(q, z.packet) /\ answered' = Append(a, b) /\ up' = up
  <2>1. /\ toClient' = Append(Append(toClient, x.packet), z.packet)
        /\ answered' = Append(Append(answered, BodyOf(x)), BodyOf(z))
        /\ up' = up
    BY <1>1, <1>t, AnswerTwo, Zenon
  <2> QED
    BY <2>1, <1>y, <1>b, <1>a, <1>q, Zenon
<1>4. IsSequence(a)
  BY <1>a, <1>t, Appended, Zenon
<1>5. Replies(answered', heard', up')
  <2>1. y.id = AsSent(m).id + 1
    <3>1. AsSent(m).id = m.id
      BY TakenParts
    <3> QED
      BY <3>1, <1>2, Zenon
  <2>2. Replies(answered, heard, TRUE)
    BY TakenParts
  <2>3. \A e : e.id = AsSent(m).id + 1 /\ ~IsEcho(e) =>
            Replies(Append(answered, e), Append(heard, AsSent(m)), TRUE)
    BY <2>2, <1>t, RepliesMore, Zenon
  <2>4. Replies(a, heard', up')
    BY <2>1, <2>3, <1>2, <1>3, <1>a, <1>h, Zenon
  <2>5. Replies(Append(a, b), heard', up')
    BY <2>4, <1>2, <1>4, RepliesBroadcast, Zenon
  <2> QED
    BY <2>5, <1>3, Zenon
<1>6. Returns(toClient', answered', told', rooms')
  <2>1. Returns(q, a, told, rooms)
    <3>1. Returns(toClient, answered, told, rooms)
      BY DEF IInv
    <3> QED
      BY <3>1, <1>1, <1>a, <1>q, ReturnsMore, Zenon
  <2>2. Returns(Append(q, z.packet), Append(a, b), told, rooms)
    BY <2>1, <1>1, ReturnsMore, Zenon
  <2> QED
    BY <2>2, <1>3, Zenon
<1>7. Echoes(answered', asked')
  <2>1. Echoes(answered, asked)
    BY DEF IInv
  <2>2. Echoes(a, asked)
    BY <2>1, <1>2, <1>a, <1>t, EchoesMore, Zenon
  <2>3. \E k \in 1 .. Len(asked) : Shows(b, asked[k])
    BY <1>2, <1>h, Zenon
  <2>4. Echoes(Append(a, b), asked)
    BY <2>2, <2>3, <1>4, EchoesMore, Zenon
  <2> QED
    BY <2>4, <1>3, <1>h, Zenon
<1>8. rooms' \in Nat /\ up' = TRUE
  BY <1>3, <1>h DEF IInv
<1>9. OnlyLongListsPanic'
  BY <1>8 DEF OnlyLongListsPanic
<1> QED
  BY <1>5, <1>6, <1>7, <1>8, <1>9, TakenParts DEF IInv, Takes

-----------------------------------------------------------------------------
(* The actions of the client's requests.                                   *)
LEMMA Requesting ==
    ASSUME IInv, NEW layout, NEW values, NEW m, m = [id |-> layout.id, values |-> values],
           IsRequest(m), layout = Layout(m.id, RequestFields(m.id)),
           Request(layout, values)
    PROVE  IInv'
<1>s. PICK s : s = asked
  OBVIOUS
<1>q. PICK q : q = toServer
  OBVIOUS
<1>n. PICK n : n = Len(s) - Len(q)
  OBVIOUS
<1>1. m.id = layout.id /\ m.values = values
  OBVIOUS
<1>p. PICK p : p = Encode(ServerWidth, Layout(m.id, RequestFields(m.id)), AsSent(m).values)
  OBVIOUS
<1>2. Delivers(p, m)
  BY <1>p, RequestSent
<1>3. asked' = Append(s, m) /\ toServer' = Append(q, p)
      /\ UNCHANGED <<toClient, rooms, up, heard, answered, told>>
  <2>1. AsSent(m).values = [f \in DOMAIN values |->
                              IF f \in IntegerField THEN values[f]
                              ELSE Cut(ServerWidth[f], values[f])]
    BY <1>1 DEF AsSent
  <2>2. toServer' = Append(toServer, Encode(ServerWidth, layout,
                  [f \in DOMAIN values |-> IF f \in IntegerField THEN values[f]
                                           ELSE Cut(ServerWidth[f], values[f])]))
    BY SameWidths, Zenon DEF Request
  <2>3. toServer' = Append(q, p)
    BY <2>1, <2>2, <1>p, <1>q, Zenon
  <2>4. /\ asked' = Append(asked, [id |-> layout.id, values |-> values])
        /\ UNCHANGED <<toClient, rooms, up, heard, answered, told>>
    BY DEF Request
  <2> QED
    BY <2>3, <2>4, <1>s
<1>4. Asks(s) /\ Sends(q, s) /\ Hears(n, s, heard) /\ Echoes(answered, s)
  BY <1>s, <1>q, <1>n DEF IInv
<1>5. /\ Asks(asked') /\ Sends(toServer', asked') /\ Echoes(answered, asked')
      /\ Len(asked') - Len(toServer') = n
  <2>1. /\ Asks(Append(s, m)) /\ Sends(Append(q, p), Append(s, m))
        /\ Echoes(answered, Append(s, m))
        /\ Len(Append(s, m)) - Len(Append(q, p)) = Len(s) - Len(q)
    BY <1>2, <1>4, AsksMore
  <2> QED
    BY <2>1, <1>3, <1>n, Zenon
<1>6. n \in Nat /\ n <= Len(s)
  <2>1. Len(s) \in Nat /\ Len(q) \in Nat /\ Len(q) <= Len(s)
    BY <1>4 DEF Asks, Sends, IsSequence
  <2> QED
    BY <2>1, <1>n
<1>7. Hears(n, asked', heard)
  BY <1>3, <1>4, <1>6, HearsAsMuch
<1>8. Hears(Len(asked') - Len(toServer'), asked', heard')
  <2>1. heard' = heard
    BY <1>3
  <2> QED
    BY <2>1, <1>5, <1>7, Zenon
<1>9. OnlyLongListsPanic'
  BY <1>3 DEF IInv, OnlyLongListsPanic
<1> QED
  BY <1>3, <1>5, <1>8, <1>9 DEF IInv

(* What the functions of send_request are called with.                     *)
AsksFor(id, values) == IsRequest([id |-> id, values |-> values])

(* The user's name.                                                        *)
LEMMA RequestOfOne ==
    ASSUME NEW id \in Names
    PROVE  AsksFor(803, [UserID |-> id])
<1>v. PICK v : v = [UserID |-> id]
  OBVIOUS
<1>m. PICK m : m = [id |-> 803, values |-> v]
  OBVIOUS
<1>1. m.id = 803 /\ m.values = v /\ m = [id |-> m.id, values |-> m.values]
  BY <1>m
<1>2. DOMAIN v = {"UserID"} /\ v["UserID"] = id /\ v = [f \in DOMAIN v |-> v[f]]
  BY <1>v
<1>f. PICK F : F = RequestFields(m.id)
  OBVIOUS
<1>3. F = <<"UserID">>
  BY <1>1, <1>f DEF RequestFields
<1>4. {F[k] : k \in 1 .. Len(F)} = {"UserID"}
  BY <1>3
<1>5. IsRecord(F, v)
  BY <1>2, <1>4, Zenon DEF IsRecord
<1>6. id \in Value /\ id.n \in Nat
  BY PacketsAssumption
<1>7. "UserID" \notin IntegerField
  BY DEF IntegerField, Integers16
<1>8. m.id \in RequestIds /\ m.id # 811
  BY <1>1 DEF RequestIds
<1>9. IsRequest(m)
  BY <1>1, <1>2, <1>5, <1>6, <1>7, <1>8, <1>f DEF IsRequest
<1> QED
  BY <1>9, <1>m, <1>v DEF AsksFor

(* A login, and a new room.                                                *)
LEMMA RequestOfTwo ==
    ASSUME NEW id \in Names, NEW pw \in Names
    PROVE  /\ AsksFor(701, [UserID |-> id, UserPW |-> pw])
           /\ AsksFor(801, [ChatRoomName |-> id, ChatRoomPW |-> pw])
<1>6. id \in Value /\ id.n \in Nat /\ pw \in Value /\ pw.n \in Nat
  BY PacketsAssumption
<1>a. AsksFor(701, [UserID |-> id, UserPW |-> pw])
  <2>v. PICK v : v = [UserID |-> id, UserPW |-> pw]
    OBVIOUS
  <2>m. PICK m : m = [id |-> 701, values |-> v]
    OBVIOUS
  <2>1. m.id = 701 /\ m.values = v /\ m = [id |-> m.id, values |-> m.values]
    BY <2>m
  <2>2. /\ DOMAIN v = {"UserID", "UserPW"} /\ v["UserID"] = id /\ v["UserPW"] = pw
        /\ v = [f \in DOMAIN v |-> v[f]]
    BY <2>v
  <2>f. PICK F : F = RequestFields(m.id)
    OBVIOUS
  <2>3. F = <<"UserID", "UserPW">>
    BY <2>1, <2>f DEF RequestFields
  <2>4. {F[k] : k \in 1 .. Len(F)} = {"UserID", "UserPW"}
    BY <2>3
  <2>5. IsRecord(F, v)
    BY <2>2, <2>4, Zenon DEF IsRecord
  <2>7. "UserID" \notin IntegerField /\ "UserPW" \notin IntegerField
    BY DEF IntegerField, Integers16
  <2>8. m.id \in RequestIds /\ m.id # 811
    BY <2>1 DEF RequestIds
  <2>9. IsRequest(m)
    BY <2>1, <2>2, <2>5, <1>6, <2>7, <2>8, <2>f DEF IsRequest
  <2> QED
    BY <2>9, <2>m, <2>v DEF AsksFor
<1>b. AsksFor(801, [ChatRoomName |-> id, ChatRoomPW |-> pw])
  <2>v. PICK v : v = [ChatRoomName |-> id, ChatRoomPW |-> pw]
    OBVIOUS
  <2>m. PICK m : m = [id |-> 801, values |-> v]
    OBVIOUS
  <2>1. m.id = 801 /\ m.values = v /\ m = [id |-> m.id, values |-> m.values]
    BY <2>m
  <2>2. /\ DOMAIN v = {"ChatRoomName", "ChatRoomPW"}
        /\ v["ChatRoomName"] = id /\ v["ChatRoomPW"] = pw
        /\ v = [f \in DOMAIN v |-> v[f]]
    BY <2>v
  <2>f. PICK F : F = RequestFields(m.id)
    OBVIOUS
  <2>3. F = <<"ChatRoomName", "ChatRoomPW">>
    BY <2>1, <2>f DEF RequestFields
  <2>4. {F[k] : k \in 1 .. Len(F)} = {"ChatRoomName", "ChatRoomPW"}
    BY <2>3
  <2>5. IsRecord(F, v)
    BY <2>2, <2>4, Zenon DEF IsRecord
  <2>7. "ChatRoomName" \notin IntegerField /\ "ChatRoomPW" \notin IntegerField
    BY DEF IntegerField, Integers16
  <2>8. m.id \in RequestIds /\ m.id # 811
    BY <2>1 DEF RequestIds
  <2>9. IsRequest(m)
    BY <2>1, <2>2, <2>5, <1>6, <2>7, <2>8, <2>f DEF IsRequest
  <2> QED
    BY <2>9, <2>m, <2>v DEF AsksFor
<1> QED
  BY <1>a, <1>b

(* A join.                                                                 *)
LEMMA RequestOfThree ==
    ASSUME NEW id \in Names, NEW pw \in Names, NEW name \in Names
    PROVE  AsksFor(703, [UserID |-> id, UserPW |-> pw,
                         UserName |-> name])
<1>v. PICK v : v = [UserID |-> id, UserPW |-> pw, UserName |-> name]
  OBVIOUS
<1>m. PICK m : m = [id |-> 703, values |-> v]
  OBVIOUS
<1>1. m.id = 703 /\ m.values = v /\ m = [id |-> m.id, values |-> m.values]
  BY <1>m
<1>2. /\ DOMAIN v = {"UserID", "UserPW", "UserName"}
      /\ v["UserID"] = id /\ v["UserPW"] = pw /\ v["UserName"] = name
      /\ v = [f \in DOMAIN v |-> v[f]]
  BY <1>v
<1>f. PICK F : F = RequestFields(m.id)
  OBVIOUS
<1>3. F = <<"UserID", "UserPW", "UserName">>
  BY <1>1, <1>f DEF RequestFields
<1>4. {F[k] : k \in 1 .. Len(F)} = {"UserID", "UserPW", "UserName"}
  BY <1>3
<1>5. IsRecord(F, v)
  BY <1>2, <1>4, Zenon DEF IsRecord
<1>6. /\ id \in Value /\ id.n \in Nat /\ pw \in Value /\ pw.n \in Nat
      /\ name \in Value /\ name.n \in Nat
  BY PacketsAssumption
<1>7. /\ "UserID" \notin IntegerField /\ "UserPW" \notin IntegerField
      /\ "UserName" \notin IntegerField
  BY DEF IntegerField, Integers16
<1>8. m.id \in RequestIds /\ m.id # 811
  BY <1>1 DEF RequestIds
<1>9. IsRequest(m)
  BY <1>1, <1>2, <1>5, <1>6, <1>7, <1>8, <1>f DEF IsRequest
<1> QED
  BY <1>9, <1>m, <1>v DEF AsksFor

(* A room that was chosen.                                                 *)
LEMMA RequestOfRoom ==
    ASSUME NEW id \in Names, NEW room \in RoomIDs
    PROVE  AsksFor(807, [UserID |-> id, ChatRoomID |-> Number(room)])
<1>u. PICK u : u = Number(room)
  OBVIOUS
<1>v. PICK v : v = [UserID |-> id, ChatRoomID |-> u]
  OBVIOUS
<1>m. PICK m : m = [id |-> 807, values |-> v]
  OBVIOUS
<1>1. m.id = 807 /\ m.values = v /\ m = [id |-> m.id, values |-> m.values]
  BY <1>m
<1>2. /\ DOMAIN v = {"UserID", "ChatRoomID"}
      /\ v["UserID"] = id /\ v["ChatRoomID"] = u
      /\ v = [f \in DOMAIN v |-> v[f]]
  BY <1>v
<1>f. PICK F : F = RequestFields(m.id)
  OBVIOUS
<1>3. F = <<"UserID", "ChatRoomID">>
  BY <1>1, <1>f DEF RequestFields
<1>4. {F[k] : k \in 1 .. Len(F)} = {"UserID", "ChatRoomID"}
  BY <1>3
<1>5. IsRecord(F, v)
  BY <1>2, <1>4, Zenon DEF IsRecord
<1>6. id \in Value /\ id.n \in Nat /\ u \in Value /\ u.text = "number"
  <2>1. room \in Int
    BY PacketsAssumption
  <2> QED
    BY <2>1, <1>u, PacketsAssumption, NumberIsValue
<1>7. "UserID" \notin IntegerField /\ "ChatRoomID" \in IntegerField
  BY DEF IntegerField, Integers16
<1>8. m.id \in RequestIds /\ m.id # 811
  BY <1>1 DEF RequestIds
<1>9. IsRequest(m)
  BY <1>1, <1>2, <1>5, <1>6, <1>7, <1>8, <1>f DEF IsRequest
<1> QED
  BY <1>9, <1>m, <1>v, <1>u DEF AsksFor

(* A line.                                                                 *)
LEMMA RequestOfLine ==
    ASSUME NEW room \in RoomIDs, NEW line \in Lines
    PROVE  AsksFor(811, [ChatRoomID |-> Number(room), TimeChat |-> Now,
                         Message |-> line])
<1>u. PICK u : u = Number(room)
  OBVIOUS
<1>t. PICK t : t = Now
  OBVIOUS
<1>v. PICK v : v = [ChatRoomID |-> u, TimeChat |-> t, Message |-> line]
  OBVIOUS
<1>m. PICK m : m = [id |-> 811, values |-> v]
  OBVIOUS
<1>1. m.id = 811 /\ m.values = v /\ m = [id |-> m.id, values |-> m.values]
  BY <1>m
<1>2. /\ DOMAIN v = {"ChatRoomID", "TimeChat", "Message"}
      /\ v["ChatRoomID"] = u /\ v["TimeChat"] = t /\ v["Message"] = line
      /\ v = [f \in DOMAIN v |-> v[f]]
  BY <1>v
<1>f. PICK F : F = RequestFields(m.id)
  OBVIOUS
<1>3. F = <<"ChatRoomID", "TimeChat", "Message">>
  BY <1>1, <1>f DEF RequestFields
<1>4. {F[k] : k \in 1 .. Len(F)} = {"ChatRoomID", "TimeChat", "Message"}
  BY <1>3
<1>5. IsRecord(F, v)
  BY <1>2, <1>4, Zenon DEF IsRecord
<1>6. /\ u \in Value /\ u.text = "number" /\ t \in Value /\ t.n \in Nat
      /\ line \in Value /\ line.n \in Nat
  <2>1. room \in Int
    BY PacketsAssumption
  <2>2. t \in Value /\ t.n \in Nat
    BY <1>t DEF Now, Value, Text
  <2> QED
    BY <2>1, <2>2, <1>u, PacketsAssumption, NumberIsValue
<1>7. /\ "ChatRoomID" \in IntegerField /\ "TimeChat" \notin IntegerField
      /\ "Message" \notin IntegerField
  BY DEF IntegerField, Integers16
<1>8. m.id \in RequestIds /\ m.values.TimeChat = Now
  BY <1>1, <1>2, <1>t DEF RequestIds
<1>9. IsRequest(m)
  BY <1>1, <1>2, <1>5, <1>6, <1>7, <1>8, <1>f DEF IsRequest
<1> QED
  BY <1>9, <1>m, <1>v, <1>u, <1>t DEF AsksFor

(* Every function of send_request preserves the invariant.                 *)
LEMMA StepAsk == ASSUME IInv, Ask PROVE IInv'
<1>1. ASSUME NEW id, NEW values, AsksFor(id, values),
             Request(Layout(id, RequestFields(id)), values)
      PROVE  IInv'
  <2>m. PICK m : m = [id |-> id, values |-> values]
    OBVIOUS
  <2>l. PICK layout : layout = Layout(id, RequestFields(id))
    OBVIOUS
  <2>1. m.id = id /\ layout.id = id
    BY <2>m, <2>l DEF Layout
  <2>2. m = [id |-> layout.id, values |-> values]
    BY <2>1, <2>m
  <2>3. layout = Layout(m.id, RequestFields(m.id))
    BY <2>1, <2>l
  <2>4. IsRequest(m) /\ Request(layout, values)
    BY <1>1, <2>m, <2>l DEF AsksFor
  <2> QED
    BY <2>2, <2>3, <2>4, Requesting
<1>2. /\ ClientLoginReq = Layout(701, RequestFields(701))
      /\ ClientJoinReq = Layout(703, RequestFields(703))
      /\ ClientCreateReq = Layout(801, RequestFields(801))
      /\ ClientViewReq = Layout(803, RequestFields(803))
      /\ ClientConnReq = Layout(807, RequestFields(807))
      /\ ClientTransferReq = Layout(811, RequestFields(811))
  BY DEF ClientLoginReq, ClientJoinReq, ClientCreateReq, ClientViewReq, ClientConnReq,
         ClientTransferReq, RequestFields
<1>3. ASSUME NEW id \in Names, NEW pw \in Names, SendLogin(id, pw) PROVE IInv'
  <2>v. PICK v : v = [UserID |-> id, UserPW |-> pw]
    OBVIOUS
  <2>1. AsksFor(701, v)
    BY <2>v, RequestOfTwo
  <2>2. Request(Layout(701, RequestFields(701)), v)
    BY <1>2, <1>3, <2>v DEF SendLogin
  <2> QED
    BY <1>1, <2>1, <2>2
<1>4. ASSUME NEW id \in Names, NEW pw \in Names, SendCreateNewChatRoomReq(id, pw)
      PROVE  IInv'
  <2>v. PICK v : v = [ChatRoomName |-> id, ChatRoomPW |-> pw]
    OBVIOUS
  <2>1. AsksFor(801, v)
    <3>1. AsksFor(801, [ChatRoomName |-> id, ChatRoomPW |-> pw])
      BY RequestOfTwo
    <3> QED
      BY <3>1, <2>v
  <2>2. Request(Layout(801, RequestFields(801)), v)
    BY <1>2, <1>4, <2>v DEF SendCreateNewChatRoomReq
  <2> QED
    BY <1>1, <2>1, <2>2
<1>5. ASSUME NEW id \in Names, NEW pw \in Names, NEW name \in Names, SendJoin(id, pw, name)
      PROVE  IInv'
  <2>v. PICK v : v = [UserID |-> id, UserPW |-> pw, UserName |-> name]
    OBVIOUS
  <2>1. AsksFor(703, v)
    BY <2>v, RequestOfThree
  <2>2. Request(Layout(703, RequestFields(703)), v)
    BY <1>2, <1>5, <2>v DEF SendJoin
  <2> QED
    BY <1>1, <2>1, <2>2
<1>6. ASSUME NEW id \in Names, SendViewAvailableChatRoom(id) PROVE IInv'
  <2>v. PICK v : v = [UserID |-> id]
    OBVIOUS
  <2>1. AsksFor(803, v)
    BY <2>v, RequestOfOne
  <2>2. Request(Layout(803, RequestFields(803)), v)
    BY <1>2, <1>6, <2>v DEF SendViewAvailableChatRoom
  <2> QED
    BY <1>1, <2>1, <2>2
<1>7. ASSUME NEW id \in Names, NEW room \in RoomIDs, SendConnAvailableChatRoom(id, room)
      PROVE  IInv'
  <2>v. PICK v : v = [UserID |-> id, ChatRoomID |-> Number(room)]
    OBVIOUS
  <2>1. AsksFor(807, v)
    BY <2>v, RequestOfRoom
  <2>2. Request(Layout(807, RequestFields(807)), v)
    BY <1>2, <1>7, <2>v DEF SendConnAvailableChatRoom
  <2> QED
    BY <1>1, <2>1, <2>2
<1>8. ASSUME NEW room \in RoomIDs, NEW line \in Lines, SendTransferMessage(room, line)
      PROVE  IInv'
  <2>v. PICK v : v = [ChatRoomID |-> Number(room), TimeChat |-> Now, Message |-> line]
    OBVIOUS
  <2>1. AsksFor(811, v)
    BY <2>v, RequestOfLine
  <2>2. Request(Layout(811, RequestFields(811)), v)
    BY <1>2, <1>8, <2>v DEF SendTransferMessage
  <2> QED
    BY <1>1, <2>1, <2>2
<1> QED
  BY <1>3, <1>4, <1>5, <1>6, <1>7, <1>8 DEF Ask

-----------------------------------------------------------------------------
(* The server's handlers: login and join.                                  *)
LEMMA StepResult ==
    ASSUME IInv, NEW id \in {701, 703}, NEW request,
           request = Layout(id, RequestFields(id)), Dispatch(id), Hear(request),
           NEW code \in Int, NEW answer, answer = Layout(id + 1, <<"ErrorCode">>),
           Answer(<<Say(answer, [ErrorCode |-> Number(code)])>>),
           UNCHANGED <<rooms, asked, told>>
    PROVE  IInv'
<1>1. id \in ServerHandles /\ asked' = asked
  BY DEF ServerHandles
<1>2. PICK m : Takes(m) /\ m.id = id
  BY <1>1, Hearing
<1>x. PICK x : x = Say(answer, [ErrorCode |-> Number(code)])
  OBVIOUS
<1>i. PICK i : i = id + 1
  OBVIOUS
<1>3. i \in {702, 704, 812} /\ i # 813
  BY <1>i
<1>4. Says(x, rooms) /\ x.id = i
  <2>1. answer = Layout(i, <<"ErrorCode">>)
    BY <1>i
  <2> QED
    BY <2>1, <1>3, <1>x, SaysCode
<1>5. Answer(<<x>>) /\ rooms' \in {rooms, rooms + 1} /\ told' = told
  BY <1>x
<1>6. x.id = m.id + 1 /\ ~IsEcho(x)
  BY <1>2, <1>3, <1>4, <1>i DEF IsEcho
<1> QED
  BY <1>2, <1>4, <1>5, <1>6, RepliedOnce, Zenon

(* A login.                                                                *)
LEMMA StepLogin == ASSUME IInv, ProcessPacketLogin PROVE IInv'
<1>1. PICK code \in Int :
          Answer(<<Say(ServerLoginRes, [ErrorCode |-> Number(code)])>>)
  <2>1. NONE \in Int /\ MYSQL_ERROR \in Int /\ INVALID_REQUEST \in Int
    BY DEF NONE, MYSQL_ERROR, INVALID_REQUEST
  <2> QED
    BY <2>1 DEF ProcessPacketLogin
<1>2. Dispatch(701) /\ Hear(ServerLoginReq) /\ UNCHANGED <<rooms, asked, told>>
  BY DEF ProcessPacketLogin
<1>3. PICK id : id = 701
  OBVIOUS
<1>4. id \in {701, 703} /\ id + 1 = 702
  BY <1>3
<1>5. ServerLoginReq = Layout(id, RequestFields(id))
  BY <1>3 DEF ServerLoginReq, RequestFields
<1>6. ServerLoginRes = Layout(id + 1, <<"ErrorCode">>)
  BY <1>4 DEF ServerLoginRes
<1>7. Dispatch(id)
  BY <1>2, <1>3
<1> QED
  BY <1>1, <1>2, <1>4, <1>5, <1>6, <1>7, StepResult

(* A join.                                                                 *)
LEMMA StepJoin == ASSUME IInv, ProcessPacketJoin PROVE IInv'
<1>1. PICK code \in Int :
          Answer(<<Say(ServerJoinRes, [ErrorCode |-> Number(code)])>>)
  <2>1. NONE \in Int /\ MYSQL_ERROR \in Int /\ INVALID_REQUEST \in Int
    BY DEF NONE, MYSQL_ERROR, INVALID_REQUEST
  <2> QED
    BY <2>1 DEF ProcessPacketJoin
<1>2. Dispatch(703) /\ Hear(ServerJoinReq) /\ UNCHANGED <<rooms, asked, told>>
  BY DEF ProcessPacketJoin
<1>3. PICK id : id = 703
  OBVIOUS
<1>4. id \in {701, 703} /\ id + 1 = 704
  BY <1>3
<1>5. ServerJoinReq = Layout(id, RequestFields(id))
  BY <1>3 DEF ServerJoinReq, RequestFields
<1>6. ServerJoinRes = Layout(id + 1, <<"ErrorCode">>)
  BY <1>4 DEF ServerJoinRes
<1>7. Dispatch(id)
  BY <1>2, <1>3
<1> QED
  BY <1>1, <1>2, <1>4, <1>5, <1>6, <1>7, StepResult

(* A new room.                                                             *)
LEMMA StepCreate == ASSUME IInv, ProcessPacketCreateNewChat PROVE IInv'
<1>1. PICK id : id = 801
  OBVIOUS
<1>2. id \in ServerHandles /\ ServerCreateReq = Layout(id, RequestFields(id)) /\ id + 1 = 802
  BY <1>1 DEF ServerHandles, ServerCreateReq, RequestFields
<1>3. Dispatch(id) /\ Hear(ServerCreateReq) /\ asked' = asked /\ told' = told
  BY <1>1 DEF ProcessPacketCreateNewChat
<1>4. PICK m : Takes(m) /\ m.id = id
  BY <1>2, <1>3, Hearing
<1>5. PICK code \in Int, room \in Int :
          /\ Answer(<<Say(ServerCreateRes, [ErrorCode |-> Number(code),
                                            ChatRoomID |-> Number(room)])>>)
          /\ rooms' \in {rooms, rooms + 1}
  <2>1. rooms \in Nat
    BY DEF IInv
  <2>2. rooms + 1 \in Int
    BY <2>1
  <2>3. Int16(rooms + 1) \in Int
    BY <2>2, Int16Range
  <2>4. NONE \in Int /\ FAIL_CREATE_NEW_CHATROOM \in Int /\ -1 \in Int
    BY DEF NONE, FAIL_CREATE_NEW_CHATROOM
  <2> QED
    BY <2>3, <2>4 DEF ProcessPacketCreateNewChat
<1>x. PICK x : x = Say(ServerCreateRes, [ErrorCode |-> Number(code),
                                         ChatRoomID |-> Number(room)])
  OBVIOUS
<1>6. Says(x, rooms) /\ x.id = 802
  BY <1>x, SaysRoom
<1>7. Answer(<<x>>)
  BY <1>5, <1>x
<1>8. x.id = m.id + 1 /\ ~IsEcho(x)
  BY <1>2, <1>4, <1>6 DEF IsEcho
<1> QED
  BY <1>3, <1>4, <1>5, <1>6, <1>7, <1>8, RepliedOnce

(* A message.                                                              *)
LEMMA StepTransfer == ASSUME IInv, ProcessPacketTransferMessage PROVE IInv'
<1>1. PICK id : id = 811
  OBVIOUS
<1>2. id \in ServerHandles /\ ServerTransferReq = Layout(id, RequestFields(id)) /\ id + 1 = 812
  BY <1>1 DEF ServerHandles, ServerTransferReq, RequestFields
<1>3. /\ Dispatch(id) /\ Hear(ServerTransferReq)
      /\ asked' = asked /\ told' = told /\ rooms' = rooms
  BY <1>1 DEF ProcessPacketTransferMessage
<1>r. PICK r : r = Decode(ServerWidth, ServerTransferReq, Body)
  OBVIOUS
<1>4. PICK m : Takes(m) /\ m.id = id /\ r.ok /\ r.values = AsSent(m).values
  BY <1>2, <1>3, <1>r, Hearing
<1> DEFINE result(code) == Say(ServerTransferRes, [ErrorCode |-> Number(code)])
           echo(sequence, name) == Say(ServerBroadcast, Echo(AsSent(m).values, sequence, name))
<1>5. PICK code \in Int :
         \/ Answer(<<result(code)>>)
         \/ \E sequence \in Int, name \in Names \cup {Nothing} :
               Answer(<<result(code), echo(sequence, name)>>)
  <2>1. NONE \in Int /\ FAIL_TRANSFER_MESSAGE \in Int /\ -1 \in Int
    BY DEF NONE, FAIL_TRANSFER_MESSAGE
  <2>2. Len(heard) \in Int
    BY DEF IInv, Hears, IsSequence
  <2>3. \/ Answer(<<result(NONE)>>)
        \/ Answer(<<result(FAIL_TRANSFER_MESSAGE)>>)
        \/ \E name \in Names : Answer(<<result(NONE), echo(Len(heard), name)>>)
        \/ Answer(<<result(FAIL_TRANSFER_MESSAGE), echo(-1, Nothing)>>)
    <3>1. Decode(ServerWidth, ServerTransferReq, Body).ok
          /\ Decode(ServerWidth, ServerTransferReq, Body).values = AsSent(m).values
      BY <1>4, <1>r
    <3> QED
      BY <3>1, Zenon DEF ProcessPacketTransferMessage
  <2> HIDE DEF result, echo
  <2> QED
    BY <2>1, <2>2, <2>3
<1>6. Says(result(code), rooms) /\ result(code).id = 812
  <2>1. PICK i : i = 812
    OBVIOUS
  <2>2. i \in {702, 704, 812} /\ ServerTransferRes = Layout(i, <<"ErrorCode">>)
    BY <2>1 DEF ServerTransferRes
  <2>3. Says(result(code), rooms) /\ result(code).id = i
    BY <2>2, SaysCode
  <2> QED
    BY <2>1, <2>3
<1>7. ASSUME NEW sequence \in Int, NEW name \in Names \cup {Nothing}
      PROVE  /\ Says(echo(sequence, name), rooms) /\ IsEcho(echo(sequence, name))
             /\ Shows(BodyOf(echo(sequence, name)), m)
  <2>1. IsRequest(m) /\ m.id = 811
    BY <1>1, <1>4 DEF Takes
  <2>x. PICK x : x = echo(sequence, name)
    OBVIOUS
  <2>e. x = EchoOf(m, sequence, name)
    BY <2>x, Zenon DEF EchoOf
  <2>2. Says(x, rooms) /\ IsEcho(x) /\ Shows(BodyOf(x), m)
    BY <2>1, <2>e, SaysEcho
  <2> HIDE DEF echo
  <2> QED
    BY <2>2, <2>x
<1> HIDE DEF result, echo
<1>8. result(code).id = m.id + 1 /\ ~IsEcho(result(code))
  BY <1>2, <1>4, <1>6 DEF IsEcho
<1>9. CASE Answer(<<result(code)>>)
  <2>x. PICK x : x = result(code)
    OBVIOUS
  <2>1. Says(x, rooms) /\ x.id = m.id + 1 /\ ~IsEcho(x) /\ Answer(<<x>>)
    BY <1>6, <1>8, <1>9, <2>x, Zenon
  <2>2. rooms' \in {rooms, rooms + 1} /\ told' = told
    BY <1>3
  <2> QED
    BY <1>4, <2>1, <2>2, RepliedOnce, Zenon
<1>10. ASSUME NEW sequence \in Int, NEW name \in Names \cup {Nothing},
              Answer(<<result(code), echo(sequence, name)>>)
       PROVE  IInv'
  <2>z. PICK z : z = echo(sequence, name)
    OBVIOUS
  <2>x. PICK x : x = result(code)
    OBVIOUS
  <2>1. Says(z, rooms) /\ IsEcho(z) /\ Shows(BodyOf(z), m)
    BY <1>7, <2>z
  <2>2. Answer(<<x, z>>)
    BY <1>10, <2>x, <2>z
  <2>3. Says(x, rooms) /\ x.id = m.id + 1 /\ ~IsEcho(x)
    BY <1>6, <1>8, <2>x
  <2> QED
    BY <1>3, <1>4, <2>1, <2>2, <2>3, RepliedTwice, Zenon
<1> QED
  BY <1>5, <1>9, <1>10

(* The list of rooms.                                                      *)
LEMMA StepView == ASSUME IInv, ProcessPacketViewAvailableChatRoom PROVE IInv'
<1>1. PICK id : id = 803
  OBVIOUS
<1>2. id \in ServerHandles /\ ServerViewReq = Layout(id, RequestFields(id)) /\ id + 1 = 804
  BY <1>1 DEF ServerHandles, ServerViewReq, RequestFields
<1>3. /\ Dispatch(id) /\ Hear(ServerViewReq)
      /\ asked' = asked /\ told' = told /\ rooms' = rooms
  BY <1>1 DEF ProcessPacketViewAvailableChatRoom
<1>4. PICK m : Takes(m) /\ m.id = id
  BY <1>2, <1>3, Hearing
<1>n. PICK n \in Nat : n = rooms
  BY DEF IInv
<1>5. PICK creator \in Names, title \in Names :
          Answer(<<ListAnswer(rooms, RowsOf(rooms, creator, title))>>)
  BY DEF ProcessPacketViewAvailableChatRoom, ListAnswer, RowsOf
<1>l. PICK list : list = RowsOf(n, creator, title)
  OBVIOUS
<1>6. /\ Len(list) = n /\ list \in Seq({list[i] : i \in 1 .. n}) /\ AreRows(list)
      /\ \A i \in 1 .. n : list[i] = Filled(ServerChatRoom, list[i])
  <2>1. FullRows(list, n)
    BY <1>l, RowsAre
  <2> QED
    BY <2>1, Zenon DEF FullRows
<1>p. PICK p : p = ServerViewRes(0, list)
  OBVIOUS
<1>v. PICK v : v = [ErrorCode |-> Number(0), Len |-> Number(n), rows |-> list]
  OBVIOUS
<1>x. PICK x : x = ListAnswer(n, list)
  OBVIOUS
<1>7. Answer(<<x>>)
  BY <1>5, <1>l, <1>n, <1>x, Zenon
<1>8. x.id = 804 /\ x.packet = p /\ x.values = v
  BY <1>p, <1>v, <1>x DEF ListAnswer
<1>9. CASE p.panic
  <2>1. <<x>>[1] = x /\ DOMAIN <<x>> = {1}
    OBVIOUS
  <2>2. \E i \in DOMAIN <<x>> : <<x>>[i].packet.panic
    BY <2>1, <1>8, <1>9
  <2>3. up' = FALSE /\ toClient' = toClient /\ answered' = answered
    BY <2>2, <1>7 DEF Answer
  <2>4. Replies(answered', heard', up')
    <3>1. Replies(answered, Append(heard, AsSent(m)), FALSE)
      BY <1>4, TakenParts, RepliesMore
    <3>2. heard' = Append(heard, AsSent(m))
      BY <1>4 DEF Takes
    <3> QED
      BY <3>1, <3>2, <2>3, Zenon
  <2>5. HeaderSize + (4 + 64 * n) >= WordSize \div 2
    <3>1. ~(HeaderSize + (4 + 64 * Len(list)) < WordSize \div 2)
      BY <1>6, <1>9, <1>p, ListPanics
    <3>2. HeaderSize = 5
      BY DEF HeaderSize
    <3> QED
      BY <3>1, <3>2, <1>6, HalfWord
  <2>6. OnlyLongListsPanic'
    <3>1. Total(ServerWidth, ServerChatRoom) = 64
      BY FieldsOfRow
    <3>2. HeaderSize = 5
      BY DEF HeaderSize
    <3>3. HeaderSize + 4 + n * 64 > WordSize \div 2 - 1
      BY <2>5, <3>2, HalfWord
    <3>4. rooms' = n
      BY <1>3, <1>n
    <3> QED
      BY <3>1, <3>3, <3>4 DEF OnlyLongListsPanic
  <2>7. Returns(toClient', answered', told', rooms') /\ Echoes(answered', asked')
    BY <2>3, <1>3 DEF IInv
  <2>8. rooms' \in Nat /\ up' \in BOOLEAN
    BY <2>3, <1>3, <1>n
  <2> QED
    BY <2>4, <2>6, <2>7, <2>8, <1>4, TakenParts DEF IInv, Takes
<1>10. CASE ~p.panic
  <2>a. PICK a : a = BodyOf(x)
    OBVIOUS
  <2>1. a.id = 804 /\ a.values = v /\ a = [id |-> a.id, values |-> a.values]
    BY <2>a, <1>8 DEF BodyOf
  <2>2. v.Len.n = n
    <3>1. Number(n).n = n
      BY NumberIsValue
    <3> QED
      BY <3>1, <1>v
  <2>s. PICK S : list \in Seq(S)
    BY <1>6
  <2>3. /\ Packet(p) /\ PeekPacketID(p) = 804
        /\ n < WordSize \div 2 => p.pos = p.len /\ PacketTotalSize(p) = p.len
        /\ n < WordSize \div 2 => ClientViewRes(PeekPacketBody(p)) = v
    BY <2>s, <1>6, <1>10, <1>p, <1>v, ListSent
  <2>4. Countable(a) => n < WordSize \div 2
    BY <2>1, <2>2 DEF Countable
  <2>5. Conveys(p, a)
    BY <2>1, <2>3, <2>4 DEF Conveys
  <2>6. IsAnswer(a, n)
    <3>1. 804 \in AnswerIds
      BY DEF AnswerIds
    <3> QED
      BY <3>1, <2>1, <2>2 DEF IsAnswer
  <2>7. Says(x, rooms)
    BY <2>5, <2>6, <2>a, <1>8, <1>10, <1>n DEF Says
  <2>8. x.id = m.id + 1 /\ ~IsEcho(x)
    BY <1>2, <1>4, <1>8 DEF IsEcho
  <2>9. rooms' \in {rooms, rooms + 1} /\ told' = told
    BY <1>3
  <2> QED
    BY <1>4, <1>7, <2>7, <2>8, <2>9, RepliedOnce, Zenon
<1> QED
  BY <1>9, <1>10

(* A request that the server does not have.                                *)
LEMMA StepInvalid == ASSUME IInv, InvalidPacketID PROVE IInv'
<1>q. PICK q : q = toServer
  OBVIOUS
<1>s. PICK s : s = asked
  OBVIOUS
<1>n. PICK n : n = Len(s) - Len(q)
  OBVIOUS
<1>1. Asks(s) /\ Sends(q, s) /\ Hears(n, s, heard)
  BY <1>q, <1>s, <1>n DEF IInv
<1>2. /\ q # <<>> /\ PeekPacketID(Head(q)) \notin ServerHandles /\ toServer' = Tail(q)
      /\ UNCHANGED <<toClient, rooms, up, asked, heard, answered, told>>
  BY <1>q DEF InvalidPacketID, Dispatch
<1>3. /\ n \in Nat /\ n + 1 \in 1 .. Len(s) /\ n < Len(s)
      /\ Delivers(Head(q), s[n + 1]) /\ Sends(Tail(q), s) /\ Len(s) - Len(Tail(q)) = n + 1
  BY <1>1, <1>2, <1>n, SendsLess
<1>4. s[n + 1].id \notin ServerHandles
  <2>1. PeekPacketID(Head(q)) = s[n + 1].id
    BY <1>3 DEF Delivers
  <2> QED
    BY <2>1, <1>2
<1>5. Hears(n + 1, s, heard)
  BY <1>1, <1>3, <1>4, HearsMore
<1>6. Sends(toServer', asked') /\ Hears(Len(asked') - Len(toServer'), asked', heard')
  <2>1. asked' = s /\ heard' = heard /\ Len(asked') - Len(toServer') = n + 1
    BY <1>2, <1>3, <1>s
  <2> QED
    BY <2>1, <1>2, <1>3, <1>5, Zenon
<1>7. OnlyLongListsPanic'
  BY <1>2 DEF IInv, OnlyLongListsPanic
<1> QED
  BY <1>2, <1>6, <1>7 DEF IInv

-----------------------------------------------------------------------------
(* The client's handlers.                                                  *)
LEMMA Telling ==
    ASSUME IInv, toClient # <<>>, NEW a, a = answered[Len(told) + 1], NEW values,
           Countable(a) => values = a.values, Tell(a.id, values)
    PROVE  IInv'
<1>x. PICK x : x = [id |-> a.id, values |-> values]
  OBVIOUS
<1>1. Returns(toClient, answered, told, rooms)
  BY DEF IInv
<1>2. IsAnswer(a, rooms)
  BY <1>1, ReturnsLess
<1>3. x.id = a.id /\ (Countable(a) => x = a)
  <2>1. a = [id |-> a.id, values |-> a.values]
    BY <1>2 DEF IsAnswer
  <2> QED
    BY <2>1, <1>x
<1>4. /\ told' = Append(told, x) /\ toClient' = Tail(toClient)
      /\ UNCHANGED <<toServer, rooms, up, asked, heard, answered>>
  BY <1>x DEF Tell
<1>5. Returns(Tail(toClient), answered, Append(told, x), rooms)
  BY <1>1, <1>3, ReturnsLess
<1>6. Returns(toClient', answered', told', rooms')
  BY <1>4, <1>5
<1>7. OnlyLongListsPanic'
  BY <1>4 DEF IInv, OnlyLongListsPanic
<1> QED
  BY <1>4, <1>6, <1>7 DEF IInv

(* What the client decodes is its copy of the packet's layout.             *)
LEMMA ClientDecodes ==
    ASSUME NEW id \in AnswerIds, id # 804, NEW b
    PROVE  Decode(ClientWidth, ClientLayout(id), b)
             = Decode(ClientWidth, Layout(id, AnswerFields(id)), b)
<1>c. PICK c : c = ClientLayout(id)
  OBVIOUS
<1>l. PICK l : l = Layout(id, AnswerFields(id))
  OBVIOUS
<1>f. PICK F : F = AnswerFields(id)
  OBVIOUS
<1>1. l.check = F /\ l.get = F
  BY <1>l, <1>f DEF Layout
<1>2. c.check = F /\ c.get = F
  <2>1. CASE id \in {702, 704}
    <3>1. c = ClientLoginRes
      BY <2>1, <1>c DEF ClientLayout
    <3>2. F = <<"ErrorCode">>
      BY <2>1, <1>f DEF AnswerFields
    <3> QED
      BY <3>1, <3>2 DEF ClientLoginRes, Layout
  <2>2. CASE id = 802
    <3>1. c = ClientCreateRes
      BY <2>2, <1>c DEF ClientLayout
    <3>2. F = <<"ErrorCode", "ChatRoomID">>
      BY <2>2, <1>f DEF AnswerFields
    <3> QED
      BY <3>1, <3>2 DEF ClientCreateRes, Layout
  <2>3. CASE id = 812
    <3>1. c = ClientTransferRes
      BY <2>3, <1>c DEF ClientLayout
    <3>2. F = <<"ErrorCode">>
      BY <2>3, <1>f DEF AnswerFields
    <3> QED
      BY <3>1, <3>2 DEF ClientTransferRes, Layout
  <2>4. CASE id = 813
    <3>1. c = ClientBroadcast
      BY <2>4, <1>c DEF ClientLayout
    <3>2. F = <<"MessageSequence", "Message", "TimeChat", "UserName">>
      BY <2>4, <1>f DEF AnswerFields
    <3> QED
      BY <3>1, <3>2 DEF ClientBroadcast, Layout
  <2> QED
    BY <2>1, <2>2, <2>3, <2>4 DEF AnswerIds
<1>3. Decode(ClientWidth, c, b) = Decode(ClientWidth, l, b)
  BY <1>1, <1>2, Zenon DEF Decode
<1> QED
  BY <1>3, <1>c, <1>l

(* PacketProcess, for every answer but the list.                           *)
LEMMA StepProcess == ASSUME IInv, PacketProcess PROVE IInv'
<1>a. PICK a : a = answered[Len(told) + 1]
  OBVIOUS
<1>p. PICK p : p = Head(toClient)
  OBVIOUS
<1>1. toClient # <<>> /\ PeekPacketID(p) # 804
  BY <1>p DEF PacketProcess
<1>2. Conveys(p, a) /\ IsAnswer(a, rooms)
  BY <1>1, <1>a, <1>p, ReturnsLess DEF IInv
<1>3. a.id = PeekPacketID(p) /\ a.id \in AnswerIds /\ a.id # 804
  BY <1>1, <1>2 DEF Conveys, IsAnswer
<1>v. PICK values : values = Decode(ClientWidth, ClientLayout(a.id), PeekPacketBody(p)).values
  OBVIOUS
<1>4. values = a.values
  <2>1. Decode(ClientWidth, ClientLayout(a.id), PeekPacketBody(p))
          = Decode(ClientWidth, Layout(a.id, AnswerFields(a.id)), PeekPacketBody(p))
    BY <1>3, ClientDecodes
  <2>2. Decode(ClientWidth, Layout(a.id, AnswerFields(a.id)), PeekPacketBody(p)).values
          = a.values
    BY <1>2, <1>3 DEF Conveys
  <2> QED
    BY <2>1, <2>2, <1>v, Zenon
<1>5. Tell(a.id, values)
  <2>1. Tell(PeekPacketID(Head(toClient)),
             Decode(ClientWidth, ClientLayout(PeekPacketID(Head(toClient))),
                    PeekPacketBody(Head(toClient))).values)
    BY DEF PacketProcess
  <2> QED
    BY <2>1, <1>3, <1>p, <1>v, Zenon
<1> QED
  BY <1>1, <1>4, <1>5, <1>a, Telling

(* PacketProcess, for the list of rooms.                                   *)
LEMMA StepList == ASSUME IInv, ProcessPacketViewAvailableChat PROVE IInv'
<1>a. PICK a : a = answered[Len(told) + 1]
  OBVIOUS
<1>p. PICK p : p = Head(toClient)
  OBVIOUS
<1>1. toClient # <<>> /\ PeekPacketID(p) = 804
  BY <1>p DEF ProcessPacketViewAvailableChat
<1>2. Conveys(p, a)
  BY <1>1, <1>a, <1>p, ReturnsLess DEF IInv
<1>3. a.id = 804
  BY <1>1, <1>2 DEF Conveys
<1>v. PICK values : values = ClientViewRes(PeekPacketBody(p))
  OBVIOUS
<1>4. Countable(a) => values = a.values
  BY <1>2, <1>3, <1>v DEF Conveys
<1>5. Tell(a.id, values)
  <2>1. PICK id : id = 804
    OBVIOUS
  <2>2. Tell(id, ClientViewRes(PeekPacketBody(Head(toClient))))
    BY <2>1 DEF ProcessPacketViewAvailableChat
  <2>3. a.id = id
    BY <2>1, <1>3
  <2> QED
    BY <2>2, <2>3, <1>p, <1>v, Zenon
<1> QED
  BY <1>1, <1>4, <1>5, <1>a, Telling

-----------------------------------------------------------------------------
(* The invariant is one.                                                   *)
LEMMA InitIInv == ASSUME Init PROVE IInv
<1>1. /\ toServer = <<>> /\ toClient = <<>> /\ rooms \in Nat /\ up = TRUE
      /\ asked = <<>> /\ heard = <<>> /\ answered = <<>> /\ told = <<>>
  BY PacketsAssumption DEF Init
<1>e. PICK e : e = <<>>
  OBVIOUS
<1>2. IsSequence(e) /\ Len(e) = 0
  BY <1>e DEF IsSequence
<1>3. HandledOf(e, 0) = <<>> /\ RepliesOf(e) = <<>>
  <2>1. e \in Seq({})
    BY <1>e
  <2>2. ASSUME NEW I PROVE Kept(e, I) = <<>>
    <3>1. \A i \in 1 .. Len(e) : i \notin I
      BY <1>2
    <3> QED
      BY <2>1, <3>1, KeptNone
  <2> QED
    BY <2>2 DEF HandledOf, RepliesOf
<1>4. Asks(e) /\ Sends(e, e) /\ Returns(e, e, e, rooms) /\ Echoes(e, e)
  BY <1>2 DEF Asks, Sends, Returns, Echoes
<1>5. Hears(0, e, e) /\ Replies(e, e, TRUE)
  BY <1>2, <1>3, <1>e DEF Hears, Replies
<1>6. Len(e) - Len(e) = 0
  BY <1>2
<1>7. OnlyLongListsPanic
  BY <1>1 DEF OnlyLongListsPanic
<1> QED
  <2>1. /\ toServer = e /\ toClient = e /\ asked = e /\ heard = e
        /\ answered = e /\ told = e /\ up = TRUE /\ rooms \in Nat
    BY <1>1, <1>e
  <2>2. Hears(Len(asked) - Len(toServer), asked, heard)
    BY <2>1, <1>5, <1>6, Zenon
  <2>3. /\ Asks(asked) /\ Sends(toServer, asked) /\ Replies(answered, heard, up)
        /\ Returns(toClient, answered, told, rooms) /\ Echoes(answered, asked)
    BY <2>1, <1>4, <1>5, Zenon
  <2> QED
    BY <2>1, <2>2, <2>3, <1>7 DEF IInv

(* Every step preserves it.                                                *)
LEMMA NextIInv == ASSUME IInv, [Next]_vars PROVE IInv'
<1>1. CASE Ask
  BY <1>1, StepAsk
<1>2. CASE Serve
  BY <1>2, StepLogin, StepJoin, StepCreate, StepTransfer, StepView, StepInvalid DEF Serve
<1>3. CASE PacketProcess
  BY <1>3, StepProcess
<1>4. CASE ProcessPacketViewAvailableChat
  BY <1>4, StepList
<1>5. CASE UNCHANGED vars
  BY <1>5 DEF vars, IInv, OnlyLongListsPanic
<1> QED
  BY <1>1, <1>2, <1>3, <1>4, <1>5 DEF Next

-----------------------------------------------------------------------------
(* What it says of the variables: their lengths and elements.              *)
LEMMA Identities ==
    ASSUME IInv
    PROVE  /\ IsSequence(toServer) /\ IsSequence(toClient)
           /\ IsSequence(asked) /\ IsSequence(heard)
           /\ IsSequence(answered) /\ IsSequence(told)
           /\ Len(told) <= Len(answered)
           /\ Len(heard) <= Len(Known) /\ Known \in Seq({asked[i] : i \in 1 .. Len(asked)})
           /\ \A i \in 1 .. Len(heard) : heard[i] = AsSent(Known[i])
<1>1. /\ IsSequence(toServer) /\ IsSequence(toClient) /\ IsSequence(asked)
      /\ IsSequence(heard) /\ IsSequence(answered) /\ IsSequence(told)
  BY DEF IInv, Asks, Sends, Hears, Returns
<1>2. Len(told) <= Len(answered)
  BY <1>1 DEF IInv, Returns, IsSequence
<1>n. PICK n : n = Len(asked) - Len(toServer)
  OBVIOUS
<1>3. n \in Nat /\ n <= Len(asked)
  <2>1. Len(toServer) <= Len(asked)
    BY DEF IInv, Sends
  <2>2. Len(asked) \in Nat /\ Len(toServer) \in Nat
    BY <1>1 DEF IsSequence
  <2> QED
    BY <2>1, <2>2, <1>n
<1>S. PICK S : S = {asked[i] : i \in 1 .. Len(asked)}
  OBVIOUS
<1>4. asked \in Seq(S) /\ DOMAIN asked = 1 .. Len(asked)
  <2>1. asked \in Seq(S)
    BY <1>1, <1>S, SequenceOf
  <2> QED
    BY <2>1
<1>I. PICK I : I = {i \in 1 .. n : asked[i].id \in ServerHandles}
  OBVIOUS
<1>J. PICK J : J = {i \in DOMAIN asked : asked[i].id \in ServerHandles}
  OBVIOUS
<1>5. \A i \in 1 .. Len(asked) : i \in I <=> i \in J /\ i <= n
  BY <1>3, <1>4, <1>I, <1>J
<1>6. /\ Kept(asked, J) \in Seq(S) /\ Len(Kept(asked, I)) <= Len(Kept(asked, J))
      /\ \A j \in 1 .. Len(Kept(asked, I)) : Kept(asked, I)[j] = Kept(asked, J)[j]
  BY <1>3, <1>4, <1>5, KeptPrefix
<1>7. Known = Kept(asked, J) /\ HandledOf(asked, n) = Kept(asked, I)
  BY <1>I, <1>J DEF Known, HandledOf
<1>8. /\ Len(heard) = Len(HandledOf(asked, n))
      /\ \A i \in 1 .. Len(heard) : heard[i] = AsSent(HandledOf(asked, n)[i])
  BY <1>n DEF IInv, Hears
<1>9. Len(heard) <= Len(Known) /\ Known \in Seq(S)
  BY <1>6, <1>7, <1>8
<1>10. ASSUME NEW i \in 1 .. Len(heard) PROVE heard[i] = AsSent(Known[i])
  <2>1. i \in 1 .. Len(Kept(asked, I))
    BY <1>7, <1>8
  <2>2. HandledOf(asked, n)[i] = Known[i]
    BY <2>1, <1>6, <1>7
  <2> QED
    BY <2>2, <1>8
<1> QED
  BY <1>1, <1>2, <1>9, <1>10, <1>S, Zenon

(* The types.                                                              *)
LEMMA ImpliesTypeOK == ASSUME IInv PROVE TypeOK
<1>d. /\ DOMAIN toServer = 1 .. Len(toServer) /\ DOMAIN toClient = 1 .. Len(toClient)
      /\ DOMAIN asked = 1 .. Len(asked) /\ DOMAIN heard = 1 .. Len(heard)
      /\ DOMAIN answered = 1 .. Len(answered) /\ DOMAIN told = 1 .. Len(told)
  <2>1. ASSUME NEW s, IsSequence(s) PROVE DOMAIN s = 1 .. Len(s)
    BY <2>1 DEF IsSequence
  <2> QED
    BY <2>1, Identities
<1>1. \A k \in DOMAIN toServer : Packet(toServer[k])
  BY <1>d DEF IInv, Sends, Delivers
<1>2. \A k \in DOMAIN toClient : Packet(toClient[k])
  BY <1>d DEF IInv, Returns, Conveys
<1>3. \A k \in 1 .. Len(asked) : asked[k].id \in RequestIds
  BY DEF IInv, Asks, IsRequest
<1>4. \A k \in 1 .. Len(answered) : answered[k].id \in AnswerIds
  BY DEF IInv, Returns, IsAnswer
<1>5. ASSUME NEW k \in 1 .. Len(told) PROVE told[k].id \in AnswerIds
  <2>1. k \in 1 .. Len(answered)
    BY Identities DEF IsSequence
  <2>2. told[k].id = answered[k].id
    BY DEF IInv, Returns
  <2> QED
    BY <2>1, <2>2, <1>4
<1>6. ASSUME NEW k \in 1 .. Len(heard) PROVE heard[k].id \in RequestIds
  <2>1. heard[k] = AsSent(Known[k])
    BY Identities
  <2>2. Known[k] \in {asked[i] : i \in 1 .. Len(asked)}
    <3>1. k \in 1 .. Len(Known)
      BY Identities DEF IsSequence
    <3> QED
      BY <3>1, Identities
  <2>3. AsSent(Known[k]).id = Known[k].id
    BY DEF AsSent
  <2> QED
    BY <2>1, <2>2, <2>3, <1>3
<1>7. \A i \in RequestIds \cup AnswerIds : i \in 701 .. 815
  BY DEF RequestIds, AnswerIds
<1>8. \A s \in {asked, heard, answered, told} : \A k \in DOMAIN s : s[k].id \in 701 .. 815
  <2>1. ASSUME NEW k \in DOMAIN asked PROVE asked[k].id \in 701 .. 815
    <3>1. k \in 1 .. Len(asked)
      BY <1>d
    <3>2. asked[k].id \in RequestIds \cup AnswerIds
      BY <3>1, <1>3
    <3> QED
      BY <3>2, <1>7, Zenon
  <2>2. ASSUME NEW k \in DOMAIN heard PROVE heard[k].id \in 701 .. 815
    <3>1. k \in 1 .. Len(heard)
      BY <1>d
    <3>2. heard[k].id \in RequestIds \cup AnswerIds
      BY <3>1, <1>6
    <3> QED
      BY <3>2, <1>7, Zenon
  <2>3. ASSUME NEW k \in DOMAIN answered PROVE answered[k].id \in 701 .. 815
    <3>1. k \in 1 .. Len(answered)
      BY <1>d
    <3>2. answered[k].id \in RequestIds \cup AnswerIds
      BY <3>1, <1>4
    <3> QED
      BY <3>2, <1>7, Zenon
  <2>4. ASSUME NEW k \in DOMAIN told PROVE told[k].id \in 701 .. 815
    <3>1. k \in 1 .. Len(told)
      BY <1>d
    <3>2. told[k].id \in RequestIds \cup AnswerIds
      BY <3>1, <1>5
    <3> QED
      BY <3>2, <1>7, Zenon
  <2> QED
    BY <2>1, <2>2, <2>3, <2>4
<1>9. rooms \in Nat /\ up \in BOOLEAN
  BY DEF IInv
<1> QED
  BY <1>1, <1>2, <1>8, <1>9 DEF TypeOK

(* What the handlers of the server decode.                                 *)
LEMMA ImpliesHeardIsAsked == ASSUME IInv PROVE HeardIsAsked
<1>1. DOMAIN heard = 1 .. Len(heard)
  BY Identities DEF IsSequence
<1> QED
  BY <1>1, Identities DEF HeardIsAsked

(* The broadcasts.                                                         *)
LEMMA ImpliesEchoIsTyped == ASSUME IInv PROVE EchoIsTyped
<1>1. DOMAIN told = 1 .. Len(told) /\ DOMAIN asked = 1 .. Len(asked)
  BY Identities DEF IsSequence
<1>2. ASSUME NEW i \in 1 .. Len(told), told[i].id = 813
      PROVE  \E k \in 1 .. Len(asked) : Shows(told[i], asked[k])
  <2>1. told[i].id = answered[i].id /\ (Countable(answered[i]) => told[i] = answered[i])
    BY DEF IInv, Returns
  <2>2. answered[i].id = 813 /\ told[i] = answered[i]
    BY <1>2, <2>1 DEF Countable
  <2>3. i \in 1 .. Len(answered)
    BY Identities DEF IsSequence
  <2> QED
    BY <2>2, <2>3 DEF IInv, Echoes
<1> QED
  BY <1>1, <1>2 DEF EchoIsTyped, Shows

(* The order of the answers.                                               *)
LEMMA ImpliesAnswersInTurn == ASSUME IInv PROVE AnswersInTurn
<1>I. PICK I : I = {i \in DOMAIN told : told[i].id # 813}
  OBVIOUS
<1>J. PICK J : J = {i \in 1 .. Len(answered) : answered[i].id # 813}
  OBVIOUS
<1>S. PICK S : S = {told[i] : i \in 1 .. Len(told)} \cup {answered[i] : i \in 1 .. Len(answered)}
  OBVIOUS
<1>1. told \in Seq(S) /\ answered \in Seq(S)
  <2>t. PICK T : T = {told[i] : i \in 1 .. Len(told)}
    OBVIOUS
  <2>a. PICK A : A = {answered[i] : i \in 1 .. Len(answered)}
    OBVIOUS
  <2>1. told \in Seq(T) /\ answered \in Seq(A)
    BY <2>t, <2>a, Identities, SequenceOf
  <2>2. T \subseteq S /\ A \subseteq S
    BY <2>t, <2>a, <1>S
  <2> QED
    BY <2>1, <2>2
<1>2. DOMAIN told = 1 .. Len(told) /\ Len(told) \in Nat /\ Len(answered) \in Nat
      /\ Len(told) <= Len(answered)
  BY Identities DEF IsSequence
<1>3. \A i \in 1 .. Len(told) : told[i].id = answered[i].id
  BY DEF IInv, Returns
<1>4. \A i \in 1 .. Len(told) : told[i].id = answered[i].id /\ (i \in I <=> i \in J)
  BY <1>2, <1>3, <1>I, <1>J
<1>k. PICK k : k = Kept(told, I)
  OBVIOUS
<1>r. PICK r : r = Kept(answered, J)
  OBVIOUS
<1>5. /\ k \in Seq(S) /\ Len(k) <= Len(r) /\ r \in Seq(S)
      /\ \A j \in 1 .. Len(k) : k[j].id = r[j].id
  BY <1>1, <1>2, <1>4, <1>k, <1>r, KeptMatch
<1>6. r = RepliesOf(answered)
  BY <1>r, <1>J DEF RepliesOf
<1>7. Len(r) <= Len(heard) /\ \A i \in 1 .. Len(r) : r[i].id = heard[i].id + 1
  BY <1>6 DEF IInv, Replies
<1>8. /\ Len(k) \in Nat /\ Len(r) \in Nat /\ Len(heard) \in Nat /\ Len(Known) \in Nat
      /\ Len(heard) <= Len(Known) /\ DOMAIN k = 1 .. Len(k)
  <2>1. Len(k) \in Nat /\ Len(r) \in Nat /\ DOMAIN k = 1 .. Len(k)
    BY <1>5
  <2>2. Len(heard) \in Nat /\ Len(heard) <= Len(Known)
    BY Identities DEF IsSequence
  <2>3. PICK U : Known \in Seq(U)
    BY Identities
  <2> QED
    BY <2>1, <2>2, <2>3
<1>9. ASSUME NEW i \in DOMAIN k PROVE k[i].id = Known[i].id + 1
  <2>1. i \in 1 .. Len(k) /\ i \in 1 .. Len(r) /\ i \in 1 .. Len(heard)
    BY <1>5, <1>7, <1>8
  <2>2. k[i].id = heard[i].id + 1
    BY <2>1, <1>5, <1>7
  <2>3. heard[i] = AsSent(Known[i])
    BY <2>1, Identities
  <2>4. AsSent(Known[i]).id = Known[i].id
    BY DEF AsSent
  <2> QED
    BY <2>2, <2>3, <2>4
<1>10. Len(k) <= Len(Known)
  BY <1>5, <1>7, <1>8
<1>11. k = Kept(told, {i \in DOMAIN told : told[i].id # 813})
  BY <1>k, <1>I
<1> QED
  BY <1>9, <1>10, <1>11, Zenon DEF AnswersInTurn

(* While an int16 counts the rooms, it counts the rows of every answer.    *)
LEMMA AllCountable ==
    ASSUME IInv, rooms < WordSize \div 2
    PROVE  \A i \in 1 .. Len(answered) : Countable(answered[i])
<1>1. ASSUME NEW i \in 1 .. Len(answered) PROVE Countable(answered[i])
  <2>1. IsAnswer(answered[i], rooms)
    BY DEF IInv, Returns
  <2>2. PICK n : n = answered[i].values.Len.n
    OBVIOUS
  <2>3. answered[i].id = 804 => n \in Nat /\ n <= rooms
    BY <2>1, <2>2 DEF IsAnswer
  <2>4. rooms \in Nat
    BY DEF IInv
  <2>5. answered[i].id = 804 => n < WordSize \div 2
    BY <2>3, <2>4, HalfWord
  <2> QED
    BY <2>2, <2>5 DEF Countable
<1> QED
  BY <1>1

(* The lengths of the packets.                                             *)
LEMMA ImpliesPacketIsWhole == ASSUME IInv, rooms < WordSize \div 2 PROVE PacketIsWhole
<1>1. DOMAIN toServer = 1 .. Len(toServer) /\ DOMAIN toClient = 1 .. Len(toClient)
  BY Identities DEF IsSequence
<1>2. \A k \in 1 .. Len(toServer) :
          PacketTotalSize(toServer[k]) = toServer[k].len /\ toServer[k].pos = toServer[k].len
  BY DEF IInv, Sends, Delivers
<1>3. ASSUME NEW k \in 1 .. Len(toClient)
      PROVE  PacketTotalSize(toClient[k]) = toClient[k].len /\ toClient[k].pos = toClient[k].len
  <2>1. Conveys(toClient[k], answered[Len(told) + k])
    BY DEF IInv, Returns
  <2>2. Len(told) + k \in 1 .. Len(answered)
    <3>1. Len(answered) = Len(told) + Len(toClient)
      BY DEF IInv, Returns
    <3>2. Len(told) \in Nat /\ Len(toClient) \in Nat
      BY Identities DEF IsSequence
    <3> QED
      BY <3>1, <3>2
  <2>3. Countable(answered[Len(told) + k])
    BY <2>2, AllCountable
  <2> QED
    BY <2>1, <2>3 DEF Conveys
<1> QED
  BY <1>1, <1>2, <1>3 DEF PacketIsWhole

(* What the handlers of the client decode.                                 *)
LEMMA ImpliesToldIsAnswered == ASSUME IInv, rooms < WordSize \div 2 PROVE ToldIsAnswered
<1>1. /\ Len(told) \in Nat /\ Len(answered) \in Nat /\ Len(told) <= Len(answered)
  BY Identities DEF IsSequence
<1>2. ASSUME NEW i \in 1 .. Len(told) PROVE told[i] = answered[i]
  <2>1. i \in 1 .. Len(answered)
    BY <1>1
  <2>2. Countable(answered[i])
    BY <2>1, AllCountable
  <2> QED
    BY <2>2 DEF IInv, Returns
<1>S. PICK S : answered \in Seq(S)
  BY Identities, SequenceOf
<1>b. PICK b : b = SubSeq(answered, 1, Len(told))
  OBVIOUS
<1>3. b = [i \in 1 .. Len(told) |-> answered[i]]
  BY <1>1, <1>S, <1>b
<1>4. told = [i \in 1 .. Len(told) |-> told[i]]
  BY Identities DEF IsSequence
<1>5. [i \in 1 .. Len(told) |-> told[i]] = [i \in 1 .. Len(told) |-> answered[i]]
  BY <1>2
<1>6. told = b
  BY <1>3, <1>4, <1>5, Zenon
<1> QED
  BY <1>1, <1>6, <1>b DEF ToldIsAnswered

-----------------------------------------------------------------------------
(* The inductive invariant.                                                *)
THEOREM Correctness == Spec => []IInv
<1>1. Init => IInv
  BY InitIInv
<1>2. IInv /\ [Next]_vars => IInv'
  BY NextIInv
<1> QED
  BY <1>1, <1>2, PTL DEF Spec

(* The packets and the histories keep their types: no encoder writes a     *)
(* slice that is longer than its field, and no packet that panicked is     *)
(* sent.                                                                   *)
THEOREM Types == Spec => []TypeOK
<1>1. IInv => TypeOK
  BY ImpliesTypeOK
<1> QED
  BY <1>1, Correctness, PTL

(* What the server's handlers decode is what the client's functions were   *)
(* called with, in their order, whatever is typed.                         *)
THEOREM RequestsArrive == Spec => []HeardIsAsked
<1>1. IInv => HeardIsAsked
  BY ImpliesHeardIsAsked
<1> QED
  BY <1>1, Correctness, PTL

(* The answers come in the order of the requests, each of its request's    *)
(* kind: the client is never mistaken about what an answer is to.          *)
THEOREM AnswersMatch == Spec => []AnswersInTurn
<1>1. IInv => AnswersInTurn
  BY ImpliesAnswersInTurn
<1> QED
  BY <1>1, Correctness, PTL

(* A broadcast shows a line that was typed, with the time of its entry.    *)
THEOREM EchoesAreTyped == Spec => []EchoIsTyped
<1>1. IInv => EchoIsTyped
  BY ImpliesEchoIsTyped
<1> QED
  BY <1>1, Correctness, PTL

(* Nothing but a list of rooms that is too long for an int16 ends the      *)
(* server in an encoder.                                                   *)
THEOREM OnlyListsPanic == Spec => []OnlyLongListsPanic
<1>1. IInv => OnlyLongListsPanic
  BY DEF IInv
<1> QED
  BY <1>1, Correctness, PTL

(* Every packet is as long as its header says and written to its end,      *)
(* while an int16 can count the rooms.                                     *)
THEOREM PacketsAreWhole == Spec => [](rooms < WordSize \div 2 => PacketIsWhole)
<1>1. IInv => (rooms < WordSize \div 2 => PacketIsWhole)
  BY ImpliesPacketIsWhole
<1> QED
  BY <1>1, Correctness, PTL

(* What the client's handlers decode is what the server's answered, in its *)
(* order and with every row, while an int16 can count the rooms.           *)
THEOREM AnswersArrive == Spec => [](rooms < WordSize \div 2 => ToldIsAnswered)
<1>1. IInv => (rooms < WordSize \div 2 => ToldIsAnswered)
  BY ImpliesToldIsAnswered
<1> QED
  BY <1>1, Correctness, PTL
=============================================================================
