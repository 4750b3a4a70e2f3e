-------------------------------- MODULE Lists --------------------------------
(***************************************************************************)
(* What a loop with a condition collects from a list.  It is SelectSeq     *)
(* with membership as the test, written so that it can be proved about.    *)
(***************************************************************************)
EXTENDS Naturals, Sequences

(* The members of the list that are in S, in their order.                  *)
Only(list, S) ==
    LET kept[i \in 0 .. Len(list)] ==
            IF i = 0 THEN <<>>
            ELSE IF list[i] \in S THEN Append(kept[i - 1], list[i])
            ELSE kept[i - 1]
    IN  kept[Len(list)]
=============================================================================
