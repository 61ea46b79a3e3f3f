----------------------------- MODULE PacketFifo -----------------------------
(***************************************************************************)
(* What the packet layer promises on one connection and in one direction:  *)
(* the packets that are written come out whole, once and in order, until   *)
(* the receiver gives up on the connection.                                *)
(***************************************************************************)
EXTENDS Naturals, Sequences

VARIABLES
    sent,      \* the packets written
    delivered, \* the packets handed to OnReceive
    broken     \* the receiver has given up

vars == <<sent, delivered, broken>>

Init ==
    /\ sent = <<>>
    /\ delivered = <<>>
    /\ broken = FALSE

Send ==
    /\ Len(sent') = Len(sent) + 1
    /\ sent = SubSeq(sent', 1, Len(sent))
    /\ UNCHANGED <<delivered, broken>>

Deliver ==
    /\ ~broken
    /\ Len(delivered) < Len(sent)
    /\ delivered' = Append(delivered, sent[Len(delivered) + 1])
    /\ UNCHANGED <<sent, broken>>

Break ==
    /\ broken' = TRUE
    /\ UNCHANGED <<sent, delivered>>

Next == Send \/ Deliver \/ Break

Spec == Init /\ [][Next]_vars
=============================================================================
