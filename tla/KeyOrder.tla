------------------------------ MODULE KeyOrder ------------------------------
(* Finite sets of integers read in increasing order: what iterating a      *)
(* std::map or a sorted std::vector of keys does.                          *)
EXTENDS Integers, FiniteSets

Below(S, x) == {y \in S : y < x}

\* The n smallest elements.
Lowest(S, n) == {x \in S : Cardinality(Below(S, x)) < n}

\* The elements in increasing order.
Ascending(S) == [i \in 1..Cardinality(S) |-> CHOOSE x \in S : Cardinality(Below(S, x)) = i - 1]
=============================================================================
