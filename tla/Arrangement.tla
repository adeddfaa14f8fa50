------------------------------ MODULE Arrangement ------------------------------
(***************************************************************************)
(* What the analyses build lists with: sorted (which is stable), the list  *)
(* of the rows that pass a test, and a loop that puts one row after the    *)
(* other into a result.  The sorts of the standard modules have no value   *)
(* for rows that compare equal; here every order is one of positions.      *)
(***************************************************************************)
EXTENDS Integers, Sequences, FiniteSets

\* The elements of a set in the order before, a strict total one: the k-th has k - 1
\* elements before it.
Arranged(set, before) ==
    [k \in 1..Cardinality(set) |->
        CHOOSE x \in set : Cardinality({y \in set : <<y, x>> \in before}) = k - 1]

\* The rows at some positions, the positions in the order before.
RowsAt(rows, positions, before) ==
    LET arranged == Arranged(positions, before) IN
    [k \in 1..Cardinality(positions) |-> rows[arranged[k]]]

Below(set) == {pair \in set \X set : pair[1] < pair[2]}
Ascending(set) == Arranged(set, Below(set))

\* The rows at some positions, as they come.
Filtered(rows, positions) == RowsAt(rows, positions, Below(positions))

\* for row in rows: result = Add(result, row)
Folded(start, rows, Add(_, _)) ==
    LET after[n \in 0..Len(rows)] ==
          IF n = 0 THEN start ELSE Add(after[n - 1], rows[n])
    IN after[Len(rows)]
=============================================================================
