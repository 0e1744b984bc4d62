--------------------------- MODULE MCExternalSort ---------------------------
EXTENDS ExternalSort

\* A row is a value and its place in the file, so that equal values differ.
Table(values) == [i \in DOMAIN values |-> <<values[i], i>>]

\* All small tables, with ties; and tables of up to five pages, which take three
\* iterations, in the orders that multiplying by a number modulo 11 gives:
\* sorted, reversed, and mixed between the pages in other ways.
MCTables ==
    {Table(v) : v \in UNION {[1 .. n -> 1 .. 3] : n \in 1 .. 4}}
    \cup {Table(v) : v \in UNION {[1 .. n -> 1 .. 2] : n \in {5}}}
    \cup {Table([i \in 1 .. n |-> (i * m) % 11]) : n \in 5 .. 9, m \in 1 .. 10}

MCSortSpecs ==
    {<<[column |-> 1, strategy |-> "ASC"]>>,
     <<[column |-> 1, strategy |-> "DESC"], [column |-> 2, strategy |-> "ASC"]>>}
=============================================================================
