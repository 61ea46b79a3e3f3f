----------------------------- MODULE MCPackets -----------------------------
(* What a user types: nothing, less and more than a field holds.           *)
EXTENDS Packets

MCNames == {Nothing, [text |-> "ann", n |-> 3], [text |-> "long", n |-> 30]}
MCLines == {[text |-> "hello", n |-> 5], [text |-> "essay", n |-> 600]}
MCRoomIDs == {-1, 7}
=============================================================================
