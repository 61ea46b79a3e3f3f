------------------------------ MODULE Framing ------------------------------
(***************************************************************************)
(* How a receiver cuts the byte stream of a connection into packets: the   *)
(* read loop and makePacket of network/network.go.  The client's           *)
(* (client/network/network.go, handleToRead) goes through the same steps.  *)
(*                                                                         *)
(* A byte is its number in the stream, from 1; 0 is a byte of recvBuff     *)
(* that was never written.  A packet is the sequence of its bytes.  What   *)
(* the first two bytes of a packet say is its size.                        *)
(***************************************************************************)
EXTENDS Integers, Sequences

CONSTANTS
    HeaderSize,    \* the size of a packet's header
    MaxPacketSize, \* MAX_PACKET_SIZE of network/define.go
    MaxBuffer,     \* MAX_BUFFER
    Sizes,         \* bound: the sizes of the packets sent, header included
    MaxPackets     \* bound: how many packets are sent

ASSUME FramingAssumption ==
    /\ HeaderSize \in Nat \ {0}
    /\ MaxPacketSize \in Nat
    /\ MaxBuffer \in Nat \ {0}
    /\ Sizes \subseteq Nat
    /\ \A s \in Sizes : s >= HeaderSize
    /\ MaxPackets \in Nat

VARIABLES
    sent,         \* the packets written to the connection
    written,      \* how many bytes they have
    received,     \* how many bytes Read has returned
    recvBuff,
    startRecvPos,
    readPos,
    readAbleByte,
    pc,           \* in Read, in makePacket, or after the last return
    delivered     \* the packets passed to OnReceive

recvVars == <<recvBuff, startRecvPos, readPos, readAbleByte>>
vars == <<sent, written, received, recvVars, pc, delivered>>

Slot == 0 .. MaxBuffer - 1

TypeOK ==
    /\ sent \in Seq(Seq(Nat))
    /\ written \in Nat
    /\ received \in 0 .. written
    /\ recvBuff \in [Slot -> Nat]
    /\ startRecvPos \in 0 .. MaxBuffer
    /\ readPos \in 0 .. MaxBuffer
    /\ readAbleByte \in 0 .. MaxBuffer
    /\ pc \in {"read", "make", "refused", "closed"}
    /\ delivered \in Seq(Seq(Nat))

Init ==
    /\ sent = <<>>
    /\ written = 0
    /\ received = 0
    /\ recvBuff = [i \in Slot |-> 0]
    /\ startRecvPos = 0
    /\ readPos = 0
    /\ readAbleByte = 0
    /\ pc = "read"
    /\ delivered = <<>>

-----------------------------------------------------------------------------
(* A Write puts a whole packet into the stream.                            *)
Send(size) ==
    /\ Len(sent) < MaxPackets
    /\ sent' = Append(sent, [j \in 1 .. size |-> written + j])
    /\ written' = written + size
    /\ UNCHANGED <<received, recvVars, pc, delivered>>

(* Where the next k bytes go.                                              *)
\* Mutant of Into: a Read that does not stop where the kept bytes end.
Into_Start(i, k) == i < k

Into(i, k) == i >= startRecvPos /\ i < startRecvPos + k

\* Mutant of RoomLeft: the bytes kept are not counted.
RoomLeft_Whole == MaxBuffer

(* recvBuff[startRecvPos:]                                                 *)
RoomLeft == MaxBuffer - startRecvPos

(* Read returns some of the bytes that have arrived; at once and with none *)
(* when it is given no room.                                               *)
Read(k) ==
    /\ pc = "read"
    /\ k \in 0 .. written - received
    /\ k <= RoomLeft
    /\ k = 0 => RoomLeft = 0
    /\ recvBuff' = [i \in Slot |->
                      IF Into(i, k) THEN received + 1 + i - startRecvPos
                                    ELSE recvBuff[i]]
    /\ received' = received + k
    /\ readAbleByte' = startRecvPos + k
    /\ readPos' = 0
    /\ pc' = "make"
    /\ UNCHANGED <<sent, written, startRecvPos, delivered>>

(* The connection was closed by either side.                               *)
ReadError ==
    /\ pc = "read"
    /\ pc' = "closed"
    /\ UNCHANGED <<sent, written, received, recvVars, delivered>>

(* What PacketTotalSize can find at readPos: the size of the packet that   *)
(* starts there, or anything if none does.                                 *)
StartsPacket(n) == recvBuff[readPos] = sent[n][1]

requireDataSize ==
    IF \E n \in DOMAIN sent : StartsPacket(n)
    THEN {Len(sent[n]) : n \in {m \in DOMAIN sent : StartsPacket(m)}}
    ELSE 1 .. MaxBuffer

(* The next packet is complete.                                            *)
\* Mutant of Complete: off by one, a packet waits for a byte of the next.
Complete_Strict(size) == readAbleByte > size

Complete(size) == readAbleByte >= size

CutPacket ==
    /\ pc = "make"
    /\ HeaderSize <= readAbleByte
    /\ readAbleByte <= MaxPacketSize
    /\ \E size \in requireDataSize :
          /\ Complete(size)
          /\ delivered' = Append(delivered,
                                 [j \in 1 .. size |-> recvBuff[readPos + j - 1]])
          /\ readPos' = readPos + size
          /\ readAbleByte' = readAbleByte - size
    /\ UNCHANGED <<sent, written, received, recvBuff, startRecvPos, pc>>

(* NET_ERROR_TOO_LARGE_PACKET: the loop returns, on the server after       *)
(* closeProcess.  All the bytes that are readable are compared.            *)
TooLargePacket ==
    /\ pc = "make"
    /\ HeaderSize <= readAbleByte
    /\ readAbleByte > MaxPacketSize
    /\ \E size \in requireDataSize : Complete(size)
    /\ pc' = "refused"
    /\ UNCHANGED <<sent, written, received, recvVars, delivered>>

\* Mutant of KeepRest: the rest is not moved to the start of the buffer.
KeepRest_NoCopy ==
    /\ pc = "make"
    /\ \/ readAbleByte < HeaderSize
       \/ \E size \in requireDataSize : ~Complete(size)
    /\ startRecvPos' = readAbleByte
    /\ pc' = "read"
    /\ UNCHANGED <<sent, written, received, recvBuff, readPos, readAbleByte,
                   delivered>>

(* What is left is moved to the start of the buffer.                       *)
KeepRest ==
    /\ pc = "make"
    /\ \/ readAbleByte < HeaderSize
       \/ \E size \in requireDataSize : ~Complete(size)
    /\ recvBuff' = [i \in Slot |->
                      IF i < readAbleByte THEN recvBuff[readPos + i]
                                          ELSE recvBuff[i]]
    /\ startRecvPos' = readAbleByte
    /\ pc' = "read"
    /\ UNCHANGED <<sent, written, received, readPos, readAbleByte, delivered>>

-----------------------------------------------------------------------------
Receive ==
    \/ \E k \in 0 .. MaxBuffer : Read(k)
    \/ CutPacket \/ TooLargePacket \/ KeepRest

Next ==
    \/ \E size \in Sizes : Send(size)
    \/ Receive
    \/ ReadError

Spec == Init /\ [][Next]_vars

(* The reader goroutine is scheduled, and Read returns what has arrived.   *)
FairSpec == Spec /\ WF_vars(Receive)

-----------------------------------------------------------------------------
(* Properties.                                                             *)

(* However Read cuts the stream, what OnReceive has been given is exactly  *)
(* the packets that were sent, whole, once and in order (the promise of    *)
(* the comment at network.go 147-164).                                     *)
DeliveredInOrder ==
    /\ Len(delivered) <= Len(sent)
    /\ delivered = SubSeq(sent, 1, Len(delivered))

(* A packet that has been received completely is not left in the buffer    *)
(* until more bytes come: when the reader goes back to Read, the bytes of  *)
(* the next packet are not all there.                                      *)
NothingCompleteWaits ==
    pc = "read" /\ Len(delivered) < Len(sent)
        => startRecvPos < Len(sent[Len(delivered) + 1])

(* Framing implements PacketFifo.                                          *)
Fifo == INSTANCE PacketFifo WITH broken <- pc \in {"refused", "closed"}
FifoSpec == Fifo!Spec

(* A packet comes out, unless the receiver gives up on the connection; but *)
(* none comes out behind one that is larger than the buffer, for which     *)
(* Read is called with no room for ever.                                   *)
EveryPacketArrives ==
    \A n \in 1 .. MaxPackets :
        n <= Len(sent) /\ (\A m \in 1 .. n : Len(sent[m]) <= MaxBuffer)
            ~> n <= Len(delivered) \/ pc \in {"refused", "closed"}

(* network.go 150-161: what can be processed is processed and the rest is  *)
(* kept for the next Read, so packets within MAX_PACKET_SIZE are never a   *)
(* reason to give up on the connection.                                    *)
SmallPacketsAreProcessed ==
    pc = "refused" => \E n \in DOMAIN sent : Len(sent[n]) > MaxPacketSize

=============================================================================
