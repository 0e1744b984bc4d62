--------------------------- MODULE MCTableSession ---------------------------
EXTENDS TableSession

MCUserNames == {"A", "R"}
MCColumnNames == {"a", "b"}

\* A is there to be loaded, with one column or with two; R is not, so it is a
\* name for results.
MCInitialFiles ==
    {[n \in Names |-> CASE n = "A" -> [columns |-> columns, rows |-> TRUE, clean |-> TRUE]
                        [] OTHER -> NoFile] : columns \in {<<"a">>, <<"a", "b">>}}

\* As many strategies as columns, one too many and one too few, a strategy that
\* is not known after none and after one, and no column at all.
MCSortCommands ==
    {[columns |-> <<"a">>, strategies |-> 1, known |-> TRUE],
     [columns |-> <<"a", "b">>, strategies |-> 2, known |-> TRUE],
     [columns |-> <<"b">>, strategies |-> 2, known |-> TRUE],
     [columns |-> <<"a", "b">>, strategies |-> 1, known |-> TRUE],
     [columns |-> <<"a">>, strategies |-> 0, known |-> FALSE],
     [columns |-> <<"b", "a">>, strategies |-> 1, known |-> FALSE],
     [columns |-> <<>>, strategies |-> 1, known |-> TRUE]}
=============================================================================
