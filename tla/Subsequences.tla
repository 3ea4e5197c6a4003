------------------------------ MODULE Subsequences ------------------------------
(* What stays of a sequence.                                               *)
EXTENDS Integers, Sequences

(* The elements of s at the positions in keep, in their order.             *)
Kept(s, keep) ==
    LET kept[i \in 0..Len(s)] ==
            IF i = 0 THEN <<>>
            ELSE IF i \in keep THEN Append(kept[i - 1], s[i]) ELSE kept[i - 1]
    IN  kept[Len(s)]
=============================================================================
