------------------------------- MODULE Deletion -------------------------------
(***************************************************************************)
(* What a deletion leaves of rows kept in their order: what SelectSeq      *)
(* would be, as a function that proofs can look into.                      *)
(***************************************************************************)
EXTENDS Naturals, Sequences

(* The rows of t at the indices kept.                                      *)
Remaining(t, kept) ==
    LET rows[i \in 0..Len(t)] == IF i = 0 THEN <<>>
                                 ELSE IF i \in kept THEN Append(rows[i - 1], t[i])
                                 ELSE rows[i - 1]
    IN  rows[Len(t)]
=============================================================================
