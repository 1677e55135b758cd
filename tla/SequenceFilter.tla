---------------------------- MODULE SequenceFilter --------------------------
(***************************************************************************)
(* What is left of a list when a loop keeps some of its elements, in their *)
(* order: std::remove() followed by erase(), or push_back() of those that  *)
(* pass a test.  A recursive function and not SelectSeq, about which the   *)
(* provers know nothing.                                                   *)
(***************************************************************************)
EXTENDS Naturals, Sequences

(* The elements in S among the first n of the sequence s.                  *)
KeptOfFirst(n, s, S) ==
    LET kept[m \in 0..Len(s)] ==
            IF m = 0 THEN <<>>
            ELSE IF s[m] \in S THEN Append(kept[m - 1], s[m])
                 ELSE kept[m - 1]
    IN  kept[n]

Kept(s, S) == KeptOfFirst(Len(s), s, S)
=============================================================================
