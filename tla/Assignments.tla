---------------------------- MODULE Assignments ----------------------------
(***************************************************************************)
(* What a JOIN or a GROUP BY puts in its result (executeJOIN and           *)
(* executeGROUPBY of src/src/executors).  Assignments follow each other,   *)
(* all into a result of the same name, which is cleared in between.        *)
(* TableSession has the commands around them, and ExternalSort the sort.   *)
(***************************************************************************)
EXTENDS JoinRows, GroupRows

CONSTANTS JoinTables,    \* bound: the pairs of sorted tables that are joined
          GroupQueries,  \* bound: the HAVING and RETURN clauses
          GroupTables    \* bound: the sorted tables that are grouped

ASSUME AssignmentsAssumption ==
    /\ JoinTables \subseteq Seq(Int) \X Seq(Int)
    /\ GroupTables \subseteq Seq([group : Int, value : Int, having : Int])
    /\ GroupQueries \subseteq [having : Aggregates, binOp : BinaryOperators, attributeValue : Int, returned : Aggregates]

vars == <<resultVars, joinVars, groupVars>>

Init == ResultInit /\ NoJoin /\ NoGrouping

executeJOIN ==
    /\ pc = "idle"
    /\ \E condition \in BinaryOperators, tables \in JoinTables :
          BeginJoin(condition, tables[1], tables[2]) /\ UNCHANGED groupVars

executeGROUPBY ==
    /\ pc = "idle"
    /\ \E q \in GroupQueries, sorted \in GroupTables :
          BeginGroup(q, sorted) /\ UNCHANGED joinVars

\* The steps of the assignment that runs; both kinds end in the same way.
Running ==
    \/ JoinStep /\ UNCHANGED groupVars
    \/ GroupStep /\ UNCHANGED joinVars
    \/ (WriteLastPage \/ CopyPage) /\ UNCHANGED <<joinVars, groupVars>>

\* What the assignment had in memory is gone when the next one begins.
NextAssignment == Forget /\ ForgetJoin /\ ForgetGrouping

Next == executeJOIN \/ executeGROUPBY \/ Running \/ NextAssignment

\* An assignment that runs goes on; nobody has to give the next.
Spec == Init /\ [][Next]_vars /\ WF_vars(Running)

-----------------------------------------------------------------------------
\* Type invariant: that of each part, and no assignment uses the other's variables.
TypeOK ==
    /\ ResultTypeOK /\ JoinTypeOK /\ GroupTypeOK
    /\ NoJoin \/ NoGrouping

\* Every assignment ends, with its result in the .csv or with the process: the
\* cursors of the merge advance whatever the rows and the condition are.
AssignmentEnds == pc \notin {"idle", "done", "crashed"} ~> pc \in {"done", "crashed"}
=============================================================================
