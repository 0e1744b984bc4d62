------------------------------ MODULE JoinRows ------------------------------
(***************************************************************************)
(* The merge of Table::joinTables (src/src/table.cpp): two cursors walk    *)
(* the copies of the tables, each sorted ascending on its join column.     *)
(* When the rows they are at match, a copy of each cursor runs on from     *)
(* there to collect the other matches of the two rows.                     *)
(*                                                                         *)
(* A table is the sequence of its join column; a row is its place in it,   *)
(* as is a cursor, and a row of the result is the pair of its two rows.    *)
(***************************************************************************)
EXTENDS ResultTable

VARIABLES binOp, left, right,  \* the condition and the two sorted copies
          row1, row2,          \* where the two cursors are
          inner                \* where the copied cursor is

joinVars == <<binOp, left, right, row1, row2, inner>>

Ascends(table) == \A i, j \in DOMAIN table : i < j => table[i] <= table[j]

NoJoin ==
    /\ binOp = "" /\ left = <<>> /\ right = <<>>
    /\ row1 = 0 /\ row2 = 0 /\ inner = 0

ForgetJoin ==
    /\ binOp' = "" /\ left' = <<>> /\ right' = <<>>
    /\ row1' = 0 /\ row2' = 0 /\ inner' = 0

\* The copies are sorted and the first row of each is read.
BeginJoin(condition, table1, table2) ==
    /\ pc = "idle" /\ Ascends(table1) /\ Ascends(table2)
    /\ binOp' = condition /\ left' = table1 /\ right' = table2
    /\ row1' = 1 /\ row2' = 1 /\ inner' = 0
    /\ pc' = "outer"
    /\ UNCHANGED <<pageData, pageFile, pageCounter, copied, csv, rows>>

AtRows == pc = "outer" /\ row1 <= Len(left) /\ row2 <= Len(right)

\* conditionFunction is null for !=, and is called.
NullCondition ==
    /\ AtRows /\ binOp = "!="
    /\ pc' = "crashed"
    /\ UNCHANGED <<pageData, pageFile, pageCounter, copied, csv, rows, joinVars>>

Match ==
    /\ AtRows /\ Holds(binOp, left[row1], right[row2])
    /\ Collect(<< <<row1, row2>> >>)
    /\ inner' = row1 + 1
    /\ pc' = "left"
    /\ UNCHANGED <<binOp, left, right, row1, row2>>

\* cursor1i: the rows of the left table behind row1, with row2.
MatchLeft ==
    /\ pc = "left"
    /\ IF inner <= Len(left) /\ Holds(binOp, left[inner], right[row2])
       THEN Collect(<< <<inner, row2>> >>) /\ inner' = inner + 1 /\ UNCHANGED pc
       ELSE /\ inner' = row2 + 1 /\ pc' = "right"
            /\ UNCHANGED <<pageData, pageFile, pageCounter, copied, csv, rows>>
    /\ UNCHANGED <<binOp, left, right, row1, row2>>

\* Faulty version: only the left cursor goes on after a match.
MatchRightStays ==
    /\ pc = "right"
    /\ IF inner <= Len(right) /\ Holds(binOp, left[row1], right[inner])
       THEN /\ Collect(<< <<row1, inner>> >>) /\ inner' = inner + 1
            /\ UNCHANGED <<pc, row1, row2>>
       ELSE /\ pc' = "outer" /\ row1' = row1 + 1 /\ inner' = 0
            /\ UNCHANGED <<pageData, pageFile, pageCounter, copied, csv, rows, row2>>
    /\ UNCHANGED <<binOp, left, right>>

\* cursor2i: row1 with the rows of the right table behind row2; then both
\* cursors go on.
MatchRight ==
    /\ pc = "right"
    /\ IF inner <= Len(right) /\ Holds(binOp, left[row1], right[inner])
       THEN /\ Collect(<< <<row1, inner>> >>) /\ inner' = inner + 1
            /\ UNCHANGED <<pc, row1, row2>>
       ELSE /\ pc' = "outer" /\ row1' = row1 + 1 /\ row2' = row2 + 1 /\ inner' = 0
            /\ UNCHANGED <<pageData, pageFile, pageCounter, copied, csv, rows>>
    /\ UNCHANGED <<binOp, left, right>>

\* Of two rows that do not match, the one that matches nothing further goes.
RightGoesOn == binOp \in {"<", "<="} \/ (binOp = "==" /\ left[row1] > right[row2])

\* Faulty version: under == nothing goes on when the left row is smaller.
MismatchStays ==
    /\ AtRows /\ binOp # "!=" /\ ~Holds(binOp, left[row1], right[row2])
    /\ row2' = IF RightGoesOn THEN row2 + 1 ELSE row2
    /\ row1' = IF binOp \in {">", ">="} THEN row1 + 1 ELSE row1
    /\ UNCHANGED <<resultVars, binOp, left, right, inner>>

Mismatch ==
    /\ AtRows /\ binOp # "!=" /\ ~Holds(binOp, left[row1], right[row2])
    /\ row2' = IF RightGoesOn THEN row2 + 1 ELSE row2
    /\ row1' = IF RightGoesOn THEN row1 ELSE row1 + 1
    /\ UNCHANGED <<resultVars, binOp, left, right, inner>>

\* One of the tables has no more rows.
EndOfTable ==
    /\ pc = "outer" /\ ~AtRows
    /\ pc' = "last"
    /\ UNCHANGED <<pageData, pageFile, pageCounter, copied, csv, rows, joinVars>>

JoinStep == NullCondition \/ Match \/ MatchLeft \/ MatchRight \/ Mismatch \/ EndOfTable

-----------------------------------------------------------------------------
\* Part of the type invariant.
JoinTypeOK ==
    /\ binOp \in BinaryOperators \cup {""}
    /\ row1 \in 0 .. Len(left) + 1 /\ row2 \in 0 .. Len(right) + 1
    /\ inner \in 0 .. Len(left) + 1 \/ inner \in 0 .. Len(right) + 1

Matching ==
    {p \in (1 .. Len(left)) \X (1 .. Len(right)) : Holds(binOp, left[p[1]], right[p[2]])}

\* "Compare and join based on provided binary operator" (README.md): where the
\* outer loop stands, it has produced the matching pairs with a row that is
\* behind it, and no others; the inner loops are on the way there, also when
\* many rows are equal.  No pair is produced twice, and in the end the .csv
\* has all matching pairs.
JoinIsComplete ==
    binOp # "" /\ pc # "crashed" =>
        /\ \A i, j \in DOMAIN rows : rows[i] = rows[j] => i = j
        /\ pc = "outer" => ToSet(rows) = {p \in Matching : p[1] < row1 \/ p[2] < row2}
        /\ pc = "left" => ToSet(rows) = {p \in Matching : p[1] < row1 \/ p[2] < row2 \/ (p[1] < inner /\ p[2] = row2)}
        /\ pc = "right" => ToSet(rows) = {p \in Matching : p[1] < row1 \/ p[2] <= row2 \/ (p[1] = row1 /\ p[2] < inner)}
        /\ pc = "done" => ToSet(csv) = Matching
=============================================================================
