--------------------------- MODULE MCAssignments ---------------------------
(* Joins of all sorted tables of up to three rows over three values,         *)
(* and groups of all sorted tables of up to three rows over the group -1 and *)
(* three others.  The values have both signs, so that MIN, MAX and a rounded *)
(* AVG show, and differ from row to row, so that a row in a wrong group does.*)
EXTENDS Assignments

SortedOver(S, n) == {s \in [1 .. n -> S] : \A i, j \in 1 .. n : i < j => s[i] <= s[j]}

MCJoinTables ==
    LET sorted == UNION {SortedOver(1 .. 3, n) : n \in 1 .. 3} IN sorted \X sorted

MCGroupTables ==
    UNION {{[i \in 1 .. n |-> [group |-> groups[i], value |-> IF odd[i] THEN -3 ELSE 2, having |-> IF odd[i] THEN 2 ELSE -1]] :
               groups \in SortedOver({-1, 1, 2, 3}, n), odd \in [1 .. n -> BOOLEAN]} : n \in 1 .. 3}

MCGroupQueries ==
    [having : Aggregates, binOp : BinaryOperators, attributeValue : {1}, returned : Aggregates]
=============================================================================
