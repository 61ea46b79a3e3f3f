----------------------------- MODULE Selection -----------------------------
(* Parts of a sequence.                                                    *)
EXTENDS Integers, Sequences

(* What a sequence has at the given positions, in its order.               *)
Kept(s, positions) ==
    LET kept[i \in 0 .. Len(s)] ==
            IF i = 0 THEN <<>>
            ELSE IF i \in positions THEN Append(kept[i - 1], s[i]) ELSE kept[i - 1]
    IN  kept[Len(s)]
=============================================================================
