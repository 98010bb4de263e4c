------------------------------- MODULE Lists --------------------------------
(***************************************************************************)
(* Lists filtered by a comprehension, written as a recursive function so   *)
(* that what it does can be proved (DataFacts).                            *)
(***************************************************************************)
EXTENDS Naturals, Sequences

(* The rows at some places of a list, in their order. *)
RowsAt(s, places) ==
    LET upTo[n \in 0..Len(s)] ==
          IF n = 0 THEN <<>> ELSE IF n \in places THEN Append(upTo[n - 1], s[n]) ELSE upTo[n - 1]
    IN  upTo[Len(s)]
=============================================================================
