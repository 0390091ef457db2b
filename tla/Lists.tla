------------------------------- MODULE Lists --------------------------------
(***************************************************************************)
(* Choosing from a list by position.                                       *)
(***************************************************************************)
EXTENDS Integers, Sequences

(* The elements of seq at the positions in K, in their order.              *)
Select(seq, K) ==
    LET sel[n \in 0..Len(seq)] ==
            IF n = 0 THEN <<>>
            ELSE IF n \in K THEN Append(sel[n - 1], seq[n]) ELSE sel[n - 1]
    IN  sel[Len(seq)]
=============================================================================
