------------------------------ MODULE Selection ------------------------------
(* The loop that goes through a sequence and keeps some of its elements.    *)
EXTENDS Integers, Sequences

Keep(q, x, S) == IF x \in S THEN Append(q, x) ELSE q

\* The elements of s that are in S, in their order.
Those(s, S) ==
    LET kept[i \in 0 .. Len(s)] == IF i = 0 THEN <<>> ELSE Keep(kept[i - 1], s[i], S)
    IN  kept[Len(s)]
=============================================================================
