------------------------------ MODULE RowOrder ------------------------------
(***************************************************************************)
(* Lists of the explorer and of the Cosmos endpoints show rows by height   *)
(* and index, the newest first (ORDER BY ... DESC, ORDER_BY_DESC).         *)
(***************************************************************************)
EXTENDS Integers, FiniteSets

\* Order of rows by height, then index.
Below(x, y) == x[1] < y[1] \/ (x[1] = y[1] /\ x[2] < y[2])

\* The rows of S that come before x.
Above(S, x) == {y \in S : Below(x, y)}

NewestFirst(S) ==
    [i \in 1..Cardinality(S) |-> CHOOSE x \in S : Cardinality(Above(S, x)) = i - 1]
=============================================================================
