-------------------------------- MODULE Lists --------------------------------
(***************************************************************************)
(* The rows that a WHERE clause lets through, in the order they have.      *)
(***************************************************************************)
EXTENDS Naturals, Sequences

\* The elements of seq at the given positions.
Pick(seq, positions) ==
  LET taken[i \in 0..Len(seq)] ==
        IF i = 0 THEN <<>>
        ELSE IF i \in positions THEN Append(taken[i - 1], seq[i])
        ELSE taken[i - 1]
  IN  taken[Len(seq)]
==============================================================================
