------------------------------ MODULE Filtering -------------------------------
(***************************************************************************)
(* What a filter, or a deletion of rows or entries, leaves of a list.      *)
(***************************************************************************)
EXTENDS Integers, Sequences

\* The list without what is in out, in its order.
Without(list, out) ==
    LET Kept[n \in 0..Len(list)] ==
          IF n = 0 THEN <<>>
          ELSE IF list[n] \in out THEN Kept[n - 1]
          ELSE Append(Kept[n - 1], list[n])
    IN  Kept[Len(list)]
=============================================================================
