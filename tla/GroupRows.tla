------------------------------ MODULE GroupRows ------------------------------
(***************************************************************************)
(* The loop of Table::groupBy (src/src/table.cpp) over the copy of the     *)
(* table that is sorted ascending on the grouping column, and what the     *)
(* parser (src/src/executors/groupBy.cpp) lets through to it.              *)
(*                                                                         *)
(* A row is its three columns that count: the group, the value that RETURN *)
(* aggregates and the value that HAVING aggregates.                        *)
(***************************************************************************)
EXTENDS ResultTable, KeyOrder

VARIABLES query,  \* having, binOp, attributeValue and returned
          table,  \* the sorted copy
          row,    \* where its cursor is
          currentGroupValue, aggregationResult, aggregateCount,
          havingaggregateResult, havingaggregateCount

groupVars == <<query, table, row, currentGroupValue, aggregationResult, aggregateCount,
               havingaggregateResult, havingaggregateCount>>

Aggregates == {"MIN", "MAX", "SUM", "COUNT", "AVG"}
NoQuery == [having |-> "", binOp |-> "", attributeValue |-> 0, returned |-> ""]
NoGroup == -1

\* The parser takes RETURN COUNT only after HAVING COUNT, whose name it tests
\* once more in place of that of RETURN.
Accepted(q) == q.returned = "COUNT" => q.having = "COUNT"

\* Integer division in C++ goes towards zero.
Quotient(a, n) == IF a >= 0 THEN a \div n ELSE -((-a) \div n)
Smaller(a, b) == IF a < b THEN a ELSE b
Larger(a, b) == IF a > b THEN a ELSE b

NoGrouping ==
    /\ query = NoQuery /\ table = <<>> /\ row = 0 /\ currentGroupValue = NoGroup
    /\ aggregationResult = 0 /\ aggregateCount = 0
    /\ havingaggregateResult = 0 /\ havingaggregateCount = 0

ForgetGrouping ==
    /\ query' = NoQuery /\ table' = <<>> /\ row' = 0 /\ currentGroupValue' = NoGroup
    /\ aggregationResult' = 0 /\ aggregateCount' = 0
    /\ havingaggregateResult' = 0 /\ havingaggregateCount' = 0

BeginGroup(q, sorted) ==
    /\ pc = "idle" /\ Accepted(q)
    /\ \A i, j \in DOMAIN sorted : i < j => sorted[i].group <= sorted[j].group
    /\ query' = q /\ table' = sorted /\ row' = 1
    /\ pc' = "row"
    /\ UNCHANGED <<pageData, pageFile, pageCounter, copied, csv, rows, currentGroupValue,
                   aggregationResult, aggregateCount, havingaggregateResult, havingaggregateCount>>

\* The HAVING value of the group that ends.
HavingValue ==
    IF query.having = "AVG" /\ havingaggregateCount > 0
    THEN Quotient(havingaggregateResult, havingaggregateCount) ELSE havingaggregateResult

\* The group that ends goes to the result: only COUNT and AVG of HAVING are counted.
Qualifies ==
    /\ currentGroupValue # NoGroup /\ havingaggregateCount > 0
    /\ Holds(query.binOp, HavingValue, query.attributeValue)

ReturnedValue ==
    CASE query.returned \in {"MIN", "MAX", "SUM"} -> aggregationResult
      [] query.returned = "COUNT" -> aggregateCount
      [] query.returned = "AVG" -> Quotient(aggregationResult, aggregateCount)

\* The rows that the end of a group adds to the result.
GroupResult == IF Qualifies THEN << <<currentGroupValue, ReturnedValue>> >> ELSE <<>>

\* An aggregate so far, and one value more; result is the RETURN aggregate,
\* which MIN and MAX of HAVING start from.
Returning(sofar, value) ==
    CASE query.returned = "MIN" -> Smaller(sofar, value)
      [] query.returned = "MAX" -> Larger(sofar, value)
      [] query.returned = "COUNT" -> sofar
      [] OTHER -> sofar + value
Having(sofar, value, result) ==
    CASE query.having = "MIN" -> Smaller(result, value)
      [] query.having = "MAX" -> Larger(result, value)
      [] query.having = "COUNT" -> sofar + 1
      [] OTHER -> sofar + value
Counts(aggregate) == IF aggregate \in {"COUNT", "AVG"} THEN 1 ELSE 0

\* Faulty version: the sum of HAVING is kept when a group begins.
NextRowKeepsSum ==
    /\ pc = "row" /\ row <= Len(table)
    /\ LET next == table[row]
           new  == next.group # currentGroupValue
           SoFar(local) == IF new THEN 0 ELSE local
       IN  /\ Collect(IF new THEN GroupResult ELSE <<>>)
           /\ currentGroupValue' = next.group
           /\ aggregationResult' = Returning(SoFar(aggregationResult), next.value)
           /\ aggregateCount' = SoFar(aggregateCount) + Counts(query.returned)
           /\ havingaggregateResult' = Having(havingaggregateResult, next.having, aggregationResult')
           /\ havingaggregateCount' = SoFar(havingaggregateCount) + Counts(query.having)
    /\ row' = row + 1
    /\ UNCHANGED <<pc, query, table>>

\* A row of another group ends the group before it; then the row is added to
\* the aggregates, and the page is written if it is full.
NextRow ==
    /\ pc = "row" /\ row <= Len(table)
    /\ LET next == table[row]
           new  == next.group # currentGroupValue
           SoFar(local) == IF new THEN 0 ELSE local
       IN  /\ Collect(IF new THEN GroupResult ELSE <<>>)
           /\ currentGroupValue' = next.group
           /\ aggregationResult' = Returning(SoFar(aggregationResult), next.value)
           /\ aggregateCount' = SoFar(aggregateCount) + Counts(query.returned)
           /\ havingaggregateResult' = Having(SoFar(havingaggregateResult), next.having, aggregationResult')
           /\ havingaggregateCount' = SoFar(havingaggregateCount) + Counts(query.having)
    /\ row' = row + 1
    /\ UNCHANGED <<pc, query, table>>

\* The end of the table ends the last group, whose row may fill the page.
LastGroup ==
    /\ pc = "row" /\ row > Len(table)
    /\ rows' = rows \o GroupResult
    /\ pageData' = pageData \o GroupResult
    /\ pc' = "last"
    /\ UNCHANGED <<pageFile, pageCounter, copied, csv, groupVars>>

GroupStep == NextRow \/ LastGroup

-----------------------------------------------------------------------------
\* Part of the type invariant.
GroupTypeOK ==
    /\ query = NoQuery \/ Accepted(query)
    /\ row \in 0 .. Len(table) + 1
    /\ aggregateCount \in 0 .. Len(table) /\ havingaggregateCount \in 0 .. Len(table)

\* The rows of a group, and an aggregate over them.
RowsOf(g) == {i \in DOMAIN table : table[i].group = g}
Total(f, places) == MapThenSumSet(LAMBDA i : f[i], places)
Aggregate(name, f, places) ==
    CASE name = "MIN" -> Min({f[i] : i \in places})
      [] name = "MAX" -> Max({f[i] : i \in places})
      [] name = "SUM" -> Total(f, places)
      [] name = "COUNT" -> Cardinality(places)
      [] name = "AVG" -> Quotient(Total(f, places), Cardinality(places))

Groups == {table[i].group : i \in DOMAIN table}
ValueOf == [i \in DOMAIN table |-> table[i].value]
HavingOf == [i \in DOMAIN table |-> table[i].having]

\* What the six comparisons of README.md 250 mean, != with them; the code's own
\* are Holds.
Satisfies(binOp, a, b) ==
    CASE binOp = "==" -> a = b
      [] binOp = "!=" -> a # b
      [] binOp = ">"  -> a > b
      [] binOp = ">=" -> a >= b
      [] binOp = "<"  -> a < b
      [] binOp = "<=" -> a <= b
Meets(g) == Satisfies(query.binOp, Aggregate(query.having, HavingOf, RowsOf(g)), query.attributeValue)

\* The aggregate the code returns: MIN and MAX start from 0.
Returned(g) ==
    LET aggregate == Aggregate(query.returned, ValueOf, RowsOf(g))
    IN  CASE query.returned = "MIN" -> Smaller(0, aggregate)
          [] query.returned = "MAX" -> Larger(0, aggregate)
          [] OTHER -> aggregate

\* Under HAVING COUNT and HAVING AVG, compared by anything but !=, the result
\* has one row for each group (but -1) that meets the condition, in order, with
\* its aggregate: the last group, which no other row ends, is not forgotten, and
\* nothing of one group leaks into the next.  Under the other aggregates, and
\* under != which neither copy of the test has a case for, the result is empty,
\* whichever groups meet the condition (HavingStores is about those).
GroupsAreRight ==
    query # NoQuery /\ pc = "done" =>
        LET answered == query.having \in {"COUNT", "AVG"} /\ query.binOp # "!="
            met      == Ascending({g \in Groups \ {NoGroup} : answered /\ Meets(g)})
        IN  csv = [i \in DOMAIN met |-> <<met[i], Returned(met[i])>>]

\* "If HAVING condition is met, store result in groupedTable" (README.md 138),
\* for each aggregate and each of the six comparisons (README.md 250).
HavingStores ==
    query # NoQuery /\ pc = "done" =>
        \A g \in Groups \ {NoGroup} : Meets(g) => \E i \in DOMAIN csv : csv[i][1] = g
=============================================================================
