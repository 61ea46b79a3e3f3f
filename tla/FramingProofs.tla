--------------------------- MODULE FramingProofs ---------------------------
(***************************************************************************)
(* Framing hands over the packets that were sent, for every size of the    *)
(* buffer, the header and the packets, and so implements PacketFifo.       *)
(***************************************************************************)
EXTENDS Framing, SequenceTheorems, TLAPS

(* The packets sent are the bytes 1 .. written of the stream, end to end.  *)
EndToEnd ==
    /\ \A n \in 1 .. Len(sent) :
          /\ Len(sent[n]) \in Nat
          /\ Len(sent[n]) >= HeaderSize
          /\ sent[n][1] \in Nat \ {0}
          /\ \A j \in 1 .. Len(sent[n]) : sent[n][j] = sent[n][1] + j - 1
          /\ sent[n][1] + Len(sent[n]) <= written + 1
    /\ \A m, n \in 1 .. Len(sent) : m < n => sent[m][1] + Len(sent[m]) <= sent[n][1]
    /\ \A n \in 1 .. Len(sent) :
          IF n = Len(sent) THEN sent[n][1] + Len(sent[n]) = written + 1
                           ELSE sent[n][1] + Len(sent[n]) = sent[n + 1][1]
    /\ IF sent = <<>> THEN written = 0 ELSE sent[1][1] = 1

Prefix ==
    /\ Len(delivered) <= Len(sent)
    /\ \A n \in 1 .. Len(delivered) : delivered[n] = sent[n]

(* How many bytes are in the buffer, and the number of the first of them.  *)
Kept     == IF pc = "make" THEN readAbleByte ELSE startRecvPos
NextByte == received - Kept + 1

(* What is in the buffer starts with the next packet to be delivered.      *)
AtPacket ==
    pc \in {"read", "make"} =>
        /\ Kept <= received
        /\ IF Len(delivered) < Len(sent)
           THEN sent[Len(delivered) + 1][1] = NextByte
           ELSE Kept = 0 /\ received = written

Buffered ==
    /\ pc = "read" =>
          \A i \in 0 .. startRecvPos - 1 : recvBuff[i] = NextByte + i
    /\ pc = "make" =>
          /\ readPos + readAbleByte <= MaxBuffer
          /\ \A i \in 0 .. readAbleByte - 1 : recvBuff[readPos + i] = NextByte + i

FInv ==
    /\ TypeOK
    /\ EndToEnd
    /\ Prefix
    /\ AtPacket
    /\ Buffered
    /\ NothingCompleteWaits

USE FramingAssumption

-----------------------------------------------------------------------------
LEMMA FInvInit == Init => FInv
  BY DEF Init, FInv, TypeOK, EndToEnd, Prefix, AtPacket, Buffered, Kept,
         NextByte, NothingCompleteWaits, Slot

(* With a byte to read, what PacketTotalSize finds is the size of the next *)
(* packet.                                                                 *)
LEMMA NextSize ==
    ASSUME FInv, pc = "make", readAbleByte > 0
    PROVE  /\ Len(delivered) < Len(sent)
           /\ Len(delivered) + 1 \in 1 .. Len(sent)
           /\ requireDataSize = {Len(sent[Len(delivered) + 1])}
<1> DEFINE d == Len(delivered) + 1
<1>1. Len(delivered) < Len(sent)
  BY DEF FInv, AtPacket, Kept, Prefix, TypeOK
<1>2. d \in 1 .. Len(sent) /\ DOMAIN sent = 1 .. Len(sent)
  BY <1>1 DEF FInv, TypeOK
<1>3. recvBuff[readPos] = sent[d][1]
  <2>1. recvBuff[readPos + 0] = NextByte + 0
    BY DEF FInv, Buffered, TypeOK
  <2>2. NextByte \in Int /\ readPos \in Int
    BY DEF FInv, NextByte, Kept, TypeOK
  <2> QED
    BY <1>1, <2>1, <2>2 DEF FInv, AtPacket
<1>4. \A n \in 1 .. Len(sent) : StartsPacket(n) <=> n = d
  <2>0. \A n \in 1 .. Len(sent) : StartsPacket(n) <=> sent[d][1] = sent[n][1]
    BY <1>3 DEF StartsPacket
  <2> HIDE DEF d
  <2> SUFFICES ASSUME NEW n \in 1 .. Len(sent), n # d
               PROVE  sent[n][1] # sent[d][1]
    BY <2>0
  <2>1. /\ sent[n][1] \in Nat /\ Len(sent[n]) \in Nat /\ Len(sent[n]) > 0
        /\ sent[d][1] \in Nat /\ Len(sent[d]) \in Nat /\ Len(sent[d]) > 0
    <3>1. \A m \in 1 .. Len(sent) :
            sent[m][1] \in Nat /\ Len(sent[m]) \in Nat /\ Len(sent[m]) >= HeaderSize
      BY DEF FInv, EndToEnd
    <3>2. HeaderSize \in Nat /\ HeaderSize > 0
      OBVIOUS
    <3> QED
      BY <1>2, <3>1, <3>2
  <2>2. CASE n < d
    <3>1. sent[n][1] + Len(sent[n]) <= sent[d][1]
      BY <1>2, <2>2 DEF FInv, EndToEnd
    <3> QED
      BY <2>1, <3>1
  <2>3. CASE d < n
    <3>1. sent[d][1] + Len(sent[d]) <= sent[n][1]
      BY <1>2, <2>3 DEF FInv, EndToEnd
    <3> QED
      BY <2>1, <3>1
  <2>4. Len(sent) \in Nat
    BY DEF FInv, TypeOK
  <2> QED
    BY <1>2, <2>2, <2>3, <2>4
<1> QED
  BY <1>1, <1>2, <1>4 DEF requireDataSize

-----------------------------------------------------------------------------
LEMMA FInvSend ==
    ASSUME FInv, NEW size \in Sizes, Send(size)
    PROVE  FInv'
<1> DEFINE p == [j \in 1 .. size |-> written + j]
<1>1. /\ size \in Nat /\ size >= HeaderSize /\ size >= 1
      /\ written \in Nat
  BY DEF FInv, TypeOK
<1>2. p \in Seq(Nat) /\ Len(p) = size /\ \A j \in 1 .. size : p[j] = written + j
  BY <1>1
<1> HIDE DEF p
<1>3. /\ sent \in Seq(Seq(Nat))
      /\ sent' = Append(sent, p)
      /\ sent' \in Seq(Seq(Nat))
      /\ Len(sent') = Len(sent) + 1
      /\ \A n \in 1 .. Len(sent) : sent'[n] = sent[n]
      /\ sent'[Len(sent) + 1] = p
      /\ Len(sent) \in Nat
      /\ sent' # <<>>
  <2>1. sent' = Append(sent, p)
    BY DEF Send, p
  <2>2. sent \in Seq(Seq(Nat))
    BY DEF FInv, TypeOK
  <2>3. p \in Seq(Nat)
    BY <1>2
  <2>4. /\ sent' \in Seq(Seq(Nat))
        /\ Len(sent') = Len(sent) + 1
        /\ Len(sent) \in Nat
        /\ \A n \in 1 .. Len(sent) : sent'[n] = sent[n]
        /\ sent'[Len(sent) + 1] = p
    BY <2>1, <2>2, <2>3, AppendProperties
  <2> QED
    BY <2>1, <2>2, <2>3, <2>4, AppendProperties
<1>4. TypeOK'
  BY <1>1, <1>3 DEF Send, recvVars, FInv, TypeOK
<1>5. /\ \A n \in 1 .. Len(sent) : sent'[n][1] = sent[n][1]
      /\ sent'[Len(sent) + 1][1] = written + 1
      /\ written' = written + size
  BY <1>1, <1>2, <1>3 DEF Send
<1>6. /\ Len(sent) \in Nat
      /\ Len(sent') = Len(sent) + 1
      /\ \A n \in 1 .. Len(sent) : sent'[n] = sent[n]
      /\ sent'[Len(sent) + 1] = p
      /\ sent # <<>> => Len(sent) >= 1
  BY <1>3, EmptySeq
<1>7. \A n \in 1 .. Len(sent) :
        /\ Len(sent[n]) \in Nat
        /\ Len(sent[n]) >= HeaderSize
        /\ sent[n][1] \in Nat \ {0}
        /\ \A j \in 1 .. Len(sent[n]) : sent[n][j] = sent[n][1] + j - 1
        /\ sent[n][1] + Len(sent[n]) <= written + 1
  BY DEF FInv, EndToEnd
<1>8. EndToEnd'
  <2>1. \A n \in 1 .. Len(sent') :
          /\ Len(sent'[n]) \in Nat
          /\ Len(sent'[n]) >= HeaderSize
          /\ sent'[n][1] \in Nat \ {0}
          /\ \A j \in 1 .. Len(sent'[n]) : sent'[n][j] = sent'[n][1] + j - 1
          /\ sent'[n][1] + Len(sent'[n]) <= written' + 1
    <3> TAKE n \in 1 .. Len(sent')
    <3>1. CASE n \in 1 .. Len(sent)
      <4>1. sent'[n] = sent[n]
        BY <1>6, <3>1
      <4> QED
        BY <1>1, <1>7, <1>5, <3>1, <4>1, SMTT(30)
    <3>2. CASE n = Len(sent) + 1
      BY <1>1, <1>2, <1>6, <1>5, <3>2
    <3> QED
      BY <1>6, <3>1, <3>2
  <2>2. \A m, n \in 1 .. Len(sent') :
          m < n => sent'[m][1] + Len(sent'[m]) <= sent'[n][1]
    <3> TAKE m, n \in 1 .. Len(sent')
    <3> SUFFICES ASSUME m < n
                 PROVE  sent'[m][1] + Len(sent'[m]) <= sent'[n][1]
      OBVIOUS
    <3>1. m \in 1 .. Len(sent) /\ sent'[m] = sent[m]
      BY <1>6
    <3>2. CASE n \in 1 .. Len(sent)
      <4>1. sent'[n] = sent[n]
        BY <1>6, <3>2
      <4> QED
        BY <3>1, <3>2, <4>1 DEF FInv, EndToEnd
    <3>3. CASE n = Len(sent) + 1
      <4>1. sent'[n][1] = written + 1
        BY <1>5, <3>3
      <4> QED
        BY <1>7, <3>1, <4>1
    <3> QED
      BY <1>6, <3>2, <3>3
  <2>3. \A n \in 1 .. Len(sent') :
          IF n = Len(sent') THEN sent'[n][1] + Len(sent'[n]) = written' + 1
                            ELSE sent'[n][1] + Len(sent'[n]) = sent'[n + 1][1]
    <3> TAKE n \in 1 .. Len(sent')
    <3>1. CASE n \in 1 .. Len(sent) /\ n # Len(sent)
      <4>1. n + 1 \in 1 .. Len(sent) /\ n # Len(sent')
        BY <1>6, <3>1
      <4>2. sent'[n] = sent[n] /\ sent'[n + 1] = sent[n + 1]
        BY <1>6, <3>1, <4>1
      <4>3. sent[n][1] + Len(sent[n]) = sent[n + 1][1]
        BY <3>1 DEF FInv, EndToEnd
      <4> QED
        BY <4>1, <4>2, <4>3
    <3>2. CASE n \in 1 .. Len(sent) /\ n = Len(sent)
      <4>1. sent[n][1] + Len(sent[n]) = written + 1
        BY <3>2 DEF FInv, EndToEnd
      <4>2. sent'[n] = sent[n] /\ sent'[n + 1] = p /\ n # Len(sent')
        BY <1>6, <3>2
      <4> QED
        BY <1>1, <1>2, <4>1, <4>2
    <3>3. CASE n = Len(sent) + 1
      BY <1>1, <1>2, <1>6, <1>5, <3>3
    <3> QED
      BY <1>6, <3>1, <3>2, <3>3
  <2>4. sent'[1][1] = 1
    <3>1. CASE sent = <<>>
      BY <1>1, <1>3, <1>5, <3>1 DEF FInv, EndToEnd
    <3>2. CASE sent # <<>>
      BY <1>6, <3>2 DEF FInv, EndToEnd
    <3> QED
      BY <3>1, <3>2
  <2> QED
    BY <1>3, <2>1, <2>2, <2>3, <2>4 DEF EndToEnd
<1>9. Prefix'
  BY <1>3 DEF Send, Prefix, FInv, TypeOK
<1>10. /\ Kept' = Kept /\ NextByte' = NextByte /\ Kept \in Nat
      /\ pc' = pc /\ received' = received /\ delivered' = delivered
      /\ Len(delivered) \in Nat /\ received \in Nat
  BY DEF Send, recvVars, Kept, NextByte, FInv, TypeOK
<1>11. AtPacket'
  <2>1. CASE Len(delivered) < Len(sent)
    BY <1>3, <1>5, <1>10, <2>1, SMTT(30) DEF AtPacket, FInv
  <2>2. CASE Len(delivered) = Len(sent)
    BY <1>1, <1>3, <1>5, <1>10, <2>2 DEF AtPacket, FInv, NextByte
  <2> QED
    BY <1>3, <1>10, <2>1, <2>2 DEF FInv, Prefix
<1>12. Buffered'
  BY <1>10 DEF Send, recvVars, Buffered, FInv
<1>13. NothingCompleteWaits'
  <2>1. CASE Len(delivered) < Len(sent)
    BY <1>3, <1>10, <2>1 DEF Send, recvVars, NothingCompleteWaits, FInv
  <2>2. CASE Len(delivered) = Len(sent)
    BY <1>1, <1>2, <1>3, <1>10, <2>2
       DEF Send, recvVars, NothingCompleteWaits, FInv, AtPacket, Kept
  <2> QED
    BY <1>3, <1>10, <2>1, <2>2 DEF FInv, Prefix
<1> QED
  BY <1>4, <1>8, <1>9, <1>11, <1>12, <1>13 DEF FInv

-----------------------------------------------------------------------------
LEMMA FInvRead ==
    ASSUME FInv, NEW k \in 0 .. MaxBuffer, Read(k)
    PROVE  FInv'
<1>1. /\ startRecvPos \in 0 .. MaxBuffer
      /\ k \in 0 .. MaxBuffer - startRecvPos
      /\ received \in Nat /\ written \in Nat /\ received + k <= written
      /\ received' = received + k
      /\ readAbleByte' = startRecvPos + k
      /\ readPos' = 0
      /\ pc = "read" /\ pc' = "make"
      /\ Len(delivered) \in Nat /\ Len(sent) \in Nat
      /\ UNCHANGED <<sent, written, startRecvPos, delivered>>
  BY DEF Read, RoomLeft, FInv, TypeOK
<1>2. \A i \in Slot : recvBuff'[i] = IF i >= startRecvPos /\ i < startRecvPos + k
                                    THEN received + 1 + i - startRecvPos
                                    ELSE recvBuff[i]
  BY DEF Read, Into
<1>3. recvBuff' \in [Slot -> Nat]
  BY <1>1 DEF Read, Into, Slot, FInv, TypeOK
<1>4. TypeOK'
  BY <1>1, <1>3 DEF FInv, TypeOK
<1>5. EndToEnd' /\ Prefix'
  BY <1>1 DEF FInv, EndToEnd, Prefix
<1>6. NextByte' = NextByte /\ Kept = startRecvPos /\ Kept' = startRecvPos + k
      /\ NextByte = received - startRecvPos + 1
  BY <1>1 DEF NextByte, Kept
<1>7. AtPacket'
  BY <1>1, <1>6 DEF FInv, AtPacket, Prefix
<1>8. Buffered'
  <2> SUFFICES ASSUME NEW i \in 0 .. startRecvPos + k - 1
               PROVE  recvBuff'[i] = NextByte + i
    BY <1>1, <1>6 DEF Buffered
  <2>1. i \in Slot
    BY <1>1 DEF Slot
  <2>2. CASE i < startRecvPos
    BY <1>1, <1>2, <2>1, <2>2 DEF FInv, Buffered
  <2>3. CASE i >= startRecvPos
    BY <1>1, <1>2, <1>6, <2>1, <2>3
  <2> QED
    BY <1>1, <2>2, <2>3
<1>9. NothingCompleteWaits'
  BY <1>1 DEF NothingCompleteWaits
<1> QED
  BY <1>4, <1>5, <1>7, <1>8, <1>9 DEF FInv

(* The packet that is cut out is the next of those that were sent.         *)
LEMMA CutIsNext ==
    ASSUME FInv, CutPacket
    PROVE  /\ Len(delivered) < Len(sent)
           /\ delivered' = Append(delivered, sent[Len(delivered) + 1])
           /\ Len(sent[Len(delivered) + 1]) \in 1 .. readAbleByte
           /\ readPos' = readPos + Len(sent[Len(delivered) + 1])
           /\ readAbleByte' = readAbleByte - Len(sent[Len(delivered) + 1])
<1> DEFINE d == Len(delivered) + 1
           size == Len(sent[d])
<1>1. readAbleByte \in Nat /\ readAbleByte > 0 /\ pc = "make"
  BY DEF CutPacket, FInv, TypeOK
<1>2. /\ Len(delivered) < Len(sent)
      /\ d \in 1 .. Len(sent)
      /\ requireDataSize = {size}
  BY <1>1, NextSize
<1>3. /\ readAbleByte >= size
      /\ delivered' = Append(delivered, [j \in 1 .. size |-> recvBuff[readPos + j - 1]])
      /\ readPos' = readPos + size
      /\ readAbleByte' = readAbleByte - size
  BY <1>2 DEF CutPacket, Complete
<1>4. size \in Nat /\ size > 0
  BY <1>2 DEF FInv, EndToEnd
<1>5. [j \in 1 .. size |-> recvBuff[readPos + j - 1]] = sent[d]
  <2>1. sent[d] = [j \in 1 .. size |-> sent[d][j]]
    BY <1>2 DEF FInv, TypeOK
  <2>2. \A j \in 1 .. size : recvBuff[readPos + j - 1] = sent[d][j]
    <3> TAKE j \in 1 .. size
    <3>1. sent[d][j] = sent[d][1] + j - 1
      BY <1>2 DEF FInv, EndToEnd
    <3>2. sent[d][1] = NextByte
      BY <1>1, <1>2 DEF FInv, AtPacket
    <3>3. j - 1 \in 0 .. readAbleByte - 1
      BY <1>1, <1>3, <1>4
    <3>4. recvBuff[readPos + (j - 1)] = NextByte + (j - 1)
      BY <1>1, <3>3 DEF FInv, Buffered
    <3>5. readPos \in Int /\ NextByte \in Int
      BY <1>1 DEF FInv, TypeOK, NextByte, Kept
    <3> HIDE DEF d, size
    <3>6. readPos + j - 1 = readPos + (j - 1) /\ NextByte + (j - 1) = NextByte + j - 1
      BY <3>5
    <3> QED
      BY <3>1, <3>2, <3>4, <3>6
  <2> HIDE DEF d, size
  <2> QED
    BY <2>1, <2>2
<1> QED
  BY <1>1, <1>2, <1>3, <1>4, <1>5

LEMMA FInvCut ==
    ASSUME FInv, CutPacket
    PROVE  FInv'
<1> DEFINE d == Len(delivered) + 1
           size == Len(sent[d])
<1>1. /\ d \in 1 .. Len(sent)
      /\ delivered' = Append(delivered, sent[d])
      /\ size \in 1 .. readAbleByte
      /\ readPos' = readPos + size
      /\ readAbleByte' = readAbleByte - size
      /\ pc = "make" /\ pc' = "make"
      /\ UNCHANGED <<sent, written, received, recvBuff, startRecvPos>>
  <2>1. Len(delivered) \in Nat /\ Len(sent) \in Nat
    BY DEF FInv, TypeOK
  <2>2. d \in 1 .. Len(sent)
    BY <2>1, CutIsNext
  <2>3. /\ delivered' = Append(delivered, sent[d])
        /\ size \in 1 .. readAbleByte
        /\ readPos' = readPos + size
        /\ readAbleByte' = readAbleByte - size
    BY CutIsNext
  <2>4. /\ pc = "make" /\ pc' = "make"
        /\ UNCHANGED <<sent, written, received, recvBuff, startRecvPos>>
    BY DEF CutPacket
  <2> HIDE DEF d, size
  <2> QED
    BY <2>2, <2>3, <2>4
<1>2. /\ readAbleByte \in 0 .. MaxBuffer /\ readPos \in 0 .. MaxBuffer
      /\ readPos + readAbleByte <= MaxBuffer
      /\ received \in Nat /\ written \in Nat /\ Len(sent) \in Nat
      /\ readAbleByte <= received
      /\ Kept = readAbleByte
      /\ NextByte = received - readAbleByte + 1
      /\ Kept' = readAbleByte - size
      /\ NextByte' = NextByte + size
  <2>1. readAbleByte \in 0 .. MaxBuffer /\ readPos \in 0 .. MaxBuffer
    BY DEF FInv, TypeOK
  <2>2. received \in Nat /\ written \in Nat /\ Len(sent) \in Nat
    BY DEF FInv, TypeOK
  <2>3. readPos + readAbleByte <= MaxBuffer
    BY <1>1 DEF FInv, Buffered
  <2>4. Kept = readAbleByte /\ Kept' = readAbleByte'
    BY <1>1 DEF Kept
  <2>5. readAbleByte <= received
    BY <1>1, <2>4 DEF FInv, AtPacket
  <2>6. NextByte = received - Kept + 1 /\ NextByte' = received' - Kept' + 1
    BY DEF NextByte
  <2> HIDE DEF size
  <2> QED
    BY <1>1, <2>1, <2>2, <2>3, <2>4, <2>5, <2>6
<1>3. /\ delivered \in Seq(Seq(Nat)) /\ sent \in Seq(Seq(Nat))
      /\ sent[d] \in Seq(Nat)
  BY <1>1 DEF FInv, TypeOK
<1>4. /\ delivered' \in Seq(Seq(Nat))
      /\ Len(delivered') = d
      /\ Len(delivered) \in Nat
      /\ \A n \in 1 .. Len(delivered) : delivered'[n] = delivered[n]
      /\ delivered'[d] = sent[d]
  BY <1>1, <1>3, AppendProperties
<1>5. size \in Nat /\ sent[d][1] \in Nat /\ sent[d][1] = NextByte
  <2>1. sent[d][1] \in Nat
    BY <1>1 DEF FInv, EndToEnd
  <2>2. Len(delivered) < Len(sent)
    BY <1>1, <1>2, <1>4
  <2>3. sent[d][1] = NextByte
    BY <1>1, <2>2 DEF FInv, AtPacket
  <2> QED
    BY <1>1, <2>1, <2>3
<1>6. IF d = Len(sent) THEN NextByte + size = written + 1
                       ELSE NextByte + size = sent[d + 1][1]
  BY <1>1, <1>5 DEF FInv, EndToEnd
<1> HIDE DEF d, size
<1>7. TypeOK'
  <2>1. readPos' \in 0 .. MaxBuffer /\ readAbleByte' \in 0 .. MaxBuffer
    BY <1>1, <1>2
  <2> QED
    BY <1>1, <1>4, <2>1 DEF FInv, TypeOK
<1>8. EndToEnd'
  BY <1>1 DEF FInv, EndToEnd
<1>9. Prefix'
  <2>1. Len(delivered') <= Len(sent')
    BY <1>1, <1>2, <1>4
  <2>2. ASSUME NEW n \in 1 .. Len(delivered')
        PROVE  delivered'[n] = sent'[n]
    <3>1. d = Len(delivered) + 1
      BY DEF d
    <3>2. CASE n = d
      BY <1>1, <1>4, <3>2
    <3>3. CASE n # d
      <4>1. n \in 1 .. Len(delivered)
        BY <1>4, <3>1, <3>3
      <4> QED
        BY <1>1, <1>4, <4>1 DEF FInv, Prefix
    <3> QED
      BY <3>2, <3>3
  <2> QED
    BY <2>1, <2>2 DEF Prefix
<1>10. AtPacket'
  <2>1. CASE d = Len(sent)
    <3>1. NextByte + size = written + 1
      BY <1>6, <2>1
    <3>2. received \in 0 .. written
      BY DEF FInv, TypeOK
    <3>3. Kept' = 0 /\ received = written
      BY <1>1, <1>2, <1>5, <3>1, <3>2
    <3> QED
      BY <1>1, <1>2, <1>4, <2>1, <3>3 DEF AtPacket
  <2>2. CASE d < Len(sent)
    <3>1. NextByte + size = sent[d + 1][1]
      BY <1>1, <1>2, <1>6, <2>2
    <3>2. sent'[Len(delivered') + 1][1] = NextByte'
      BY <1>1, <1>2, <1>4, <3>1
    <3>3. Kept' <= received'
      BY <1>1, <1>2, <1>5
    <3>4. Len(delivered') < Len(sent')
      BY <1>1, <1>4, <2>2
    <3> QED
      BY <3>2, <3>3, <3>4 DEF AtPacket
  <2> QED
    BY <1>1, <1>2, <2>1, <2>2
<1>11. Buffered'
  <2>1. readPos' + readAbleByte' <= MaxBuffer
    BY <1>1, <1>2, <1>5
  <2>2. ASSUME NEW i \in 0 .. readAbleByte' - 1
        PROVE  recvBuff'[readPos' + i] = NextByte' + i
    <3>1. size + i \in 0 .. readAbleByte - 1
      BY <1>1, <1>2, <1>5
    <3>2. recvBuff[readPos + (size + i)] = NextByte + (size + i)
      BY <1>1, <3>1 DEF FInv, Buffered
    <3>3. readPos' + i = readPos + (size + i) /\ NextByte' + i = NextByte + (size + i)
      BY <1>1, <1>2, <1>5
    <3> QED
      BY <1>1, <3>2, <3>3
  <2> QED
    BY <1>1, <2>1, <2>2 DEF Buffered
<1>12. NothingCompleteWaits'
  BY <1>1 DEF NothingCompleteWaits
<1> QED
  BY <1>7, <1>8, <1>9, <1>10, <1>11, <1>12 DEF FInv

-----------------------------------------------------------------------------
LEMMA FInvKeep ==
    ASSUME FInv, KeepRest
    PROVE  FInv'
<1>1. /\ pc = "make" /\ pc' = "read"
      /\ startRecvPos' = readAbleByte
      /\ UNCHANGED <<sent, written, received, readPos, readAbleByte, delivered>>
      /\ recvBuff' = [i \in Slot |->
                        IF i < readAbleByte THEN recvBuff[readPos + i]
                                            ELSE recvBuff[i]]
  BY DEF KeepRest
<1>2. /\ readAbleByte \in 0 .. MaxBuffer /\ readPos \in 0 .. MaxBuffer
      /\ readPos + readAbleByte <= MaxBuffer
      /\ recvBuff \in [Slot -> Nat]
      /\ Len(sent) \in Nat /\ Len(delivered) \in Nat
  BY <1>1 DEF FInv, TypeOK, Buffered
<1>3. /\ Kept = readAbleByte /\ Kept' = readAbleByte
      /\ NextByte' = NextByte
  BY <1>1 DEF Kept, NextByte
<1>4. TypeOK'
  <2>1. recvBuff' \in [Slot -> Nat]
    <3> SUFFICES ASSUME NEW i \in Slot
                 PROVE  (IF i < readAbleByte THEN recvBuff[readPos + i]
                                             ELSE recvBuff[i]) \in Nat
      BY <1>1
    <3>1. CASE i < readAbleByte
      BY <1>2, <3>1 DEF Slot
    <3> QED
      BY <1>2, <3>1
  <2> QED
    BY <1>1, <1>2, <2>1 DEF FInv, TypeOK
<1>5. EndToEnd' /\ Prefix'
  BY <1>1 DEF FInv, EndToEnd, Prefix
<1>6. AtPacket'
  BY <1>1, <1>3 DEF FInv, AtPacket
<1>7. Buffered'
  <2> SUFFICES ASSUME NEW i \in 0 .. readAbleByte - 1
               PROVE  recvBuff'[i] = NextByte + i
    BY <1>1, <1>3 DEF Buffered
  <2>1. i \in Slot /\ i < readAbleByte
    BY <1>2 DEF Slot
  <2> QED
    BY <1>1, <2>1 DEF FInv, Buffered
<1>8. NothingCompleteWaits'
  <2> DEFINE size == Len(sent[Len(delivered) + 1])
  <2> SUFFICES ASSUME Len(delivered) < Len(sent)
               PROVE  readAbleByte < size
    BY <1>1 DEF NothingCompleteWaits
  <2>1. size \in Nat /\ size >= HeaderSize /\ HeaderSize \in Nat /\ HeaderSize > 0
    BY <1>2 DEF FInv, EndToEnd
  <2>2. CASE readAbleByte < HeaderSize
    BY <1>2, <2>1, <2>2
  <2>3. CASE \E s \in requireDataSize : ~Complete(s)
    <3>1. CASE readAbleByte = 0
      BY <2>1, <3>1
    <3>2. CASE readAbleByte > 0
      <4>1. requireDataSize = {size}
        BY <1>1, <3>2, NextSize
      <4> QED
        BY <1>2, <2>1, <2>3, <4>1 DEF Complete
    <3> QED
      BY <1>2, <3>1, <3>2
  <2> QED
    BY <2>2, <2>3 DEF KeepRest
<1> QED
  BY <1>4, <1>5, <1>6, <1>7, <1>8 DEF FInv

LEMMA FInvEnd ==
    ASSUME FInv, TooLargePacket \/ ReadError
    PROVE  FInv'
<1>1. /\ pc' \in {"refused", "closed"}
      /\ UNCHANGED <<sent, written, received, recvBuff, startRecvPos, readPos,
                     readAbleByte, delivered>>
  BY DEF TooLargePacket, ReadError, recvVars
<1>2. TypeOK'
  BY <1>1 DEF FInv, TypeOK
<1>3. EndToEnd' /\ Prefix'
  BY <1>1 DEF FInv, EndToEnd, Prefix
<1>4. AtPacket' /\ Buffered' /\ NothingCompleteWaits'
  BY <1>1 DEF AtPacket, Buffered, NothingCompleteWaits
<1> QED
  BY <1>2, <1>3, <1>4 DEF FInv

LEMMA FInvStep == FInv /\ [Next]_vars => FInv'
<1>1. ASSUME FInv, UNCHANGED vars
      PROVE  FInv'
  BY <1>1 DEF vars, recvVars, FInv, TypeOK, EndToEnd, Prefix, AtPacket,
              Buffered, Kept, NextByte, NothingCompleteWaits
<1> QED
  BY <1>1, FInvSend, FInvRead, FInvCut, FInvKeep, FInvEnd DEF Next, Receive

-----------------------------------------------------------------------------
(* In every reachable state the buffer holds a piece of the stream that    *)
(* begins where the last packet cut out by makePacket ended.               *)
THEOREM FramingInvariant == Spec => []FInv
  BY FInvInit, FInvStep, PTL DEF Spec

(* The positions of handleTcpRead and makePacket stay inside recvBuff,     *)
(* whatever the sizes of the packets and of the buffer.                    *)
THEOREM FramingTyping == Spec => []TypeOK
<1>1. FInv => TypeOK
  BY DEF FInv
<1> QED
  BY <1>1, FramingInvariant, PTL

(* A sequence that agrees with another one as far as it goes is its        *)
(* beginning.                                                              *)
LEMMA PrefixIsSubSeq ==
    ASSUME NEW T, NEW s \in Seq(T), NEW t \in Seq(T), Len(s) <= Len(t),
           \A n \in 1 .. Len(s) : s[n] = t[n]
    PROVE  s = SubSeq(t, 1, Len(s))
<1>1. Len(s) \in Nat /\ Len(t) \in Nat
  OBVIOUS
<1>2. /\ SubSeq(t, 1, Len(s)) \in Seq(T)
      /\ Len(SubSeq(t, 1, Len(s))) = Len(s)
      /\ \A n \in 1 .. Len(s) : SubSeq(t, 1, Len(s))[n] = t[n]
  <2>1. \A n \in 1 .. Len(s) : n \in 1 .. Len(t)
    BY <1>1
  <2> QED
    BY <1>1, <2>1, SubSeqProperties
<1> QED
  BY <1>1, <1>2, SeqEqual

LEMMA FInvInOrder == FInv => DeliveredInOrder
  BY PrefixIsSubSeq DEF FInv, TypeOK, Prefix, DeliveredInOrder

(* OnReceive is given the packets that were sent, whole, once and in       *)
(* order, for every size of the header, the buffer and the packets.        *)
THEOREM InOrder == Spec => []DeliveredInOrder
  BY FInvInOrder, FramingInvariant, PTL

(* makePacket leaves no complete packet in the buffer when the reader goes *)
(* back to Read.                                                           *)
THEOREM NothingWaits == Spec => []NothingCompleteWaits
<1>1. FInv => NothingCompleteWaits
  BY DEF FInv
<1> QED
  BY <1>1, FramingInvariant, PTL

-----------------------------------------------------------------------------
LEMMA FifoStep == FInv /\ [Next]_vars => [Fifo!Next]_(Fifo!vars)
<1> SUFFICES ASSUME FInv, [Next]_vars
             PROVE  [Fifo!Next]_(Fifo!vars)
  OBVIOUS
<1>1. ASSUME NEW size \in Sizes, Send(size)
      PROVE  Fifo!Send
  <2> DEFINE p == [j \in 1 .. size |-> written + j]
  <2>1. /\ size \in Nat /\ written \in Nat /\ sent \in Seq(Seq(Nat))
        /\ sent' = Append(sent, p)
        /\ UNCHANGED <<delivered, pc>>
    BY <1>1 DEF Send, FInv, TypeOK
  <2>2. p \in Seq(Nat)
    BY <2>1
  <2> HIDE DEF p
  <2>3. /\ sent' \in Seq(Seq(Nat))
        /\ Len(sent') = Len(sent) + 1
        /\ Len(sent) \in Nat
        /\ \A n \in 1 .. Len(sent) : sent'[n] = sent[n]
    BY <2>1, <2>2, AppendProperties
  <2>4. Len(sent) <= Len(sent')
    BY <2>3
  <2>5. sent = SubSeq(sent', 1, Len(sent))
    BY <2>1, <2>3, <2>4, PrefixIsSubSeq
  <2> QED
    BY <2>1, <2>3, <2>5 DEF Fifo!Send
<1>2. ASSUME CutPacket
      PROVE  Fifo!Deliver
  <2>1. /\ pc = "make" /\ UNCHANGED <<sent, pc>>
    BY <1>2 DEF CutPacket
  <2> QED
    BY <1>2, <2>1, CutIsNext DEF Fifo!Deliver
<1>3. ASSUME TooLargePacket \/ ReadError
      PROVE  Fifo!Break
  BY <1>3 DEF TooLargePacket, ReadError, Fifo!Break
<1>4. ASSUME KeepRest \/ (\E k \in 0 .. MaxBuffer : Read(k)) \/ UNCHANGED vars
      PROVE  UNCHANGED Fifo!vars
  BY <1>4 DEF KeepRest, Read, vars, recvVars, Fifo!vars
<1> QED
  BY <1>1, <1>2, <1>3, <1>4 DEF Next, Receive, Fifo!Next

(* The reader of a connection implements a queue of packets: each step of  *)
(* the read loop and of makePacket sends, delivers or gives up, or does    *)
(* nothing that a user of the packet layer could see.                      *)
THEOREM FramingImplementsFifo == Spec => FifoSpec
<1>1. Init => Fifo!Init
  BY DEF Init, Fifo!Init
<1> QED
  BY <1>1, FifoStep, FramingInvariant, PTL DEF Spec, FifoSpec, Fifo!Spec

=============================================================================
