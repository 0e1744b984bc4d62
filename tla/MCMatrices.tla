----------------------------- MODULE MCMatrices -----------------------------
EXTENDS Matrices

MCNames == {"A", "B", "A_RESULT"}
MCResultName == [n \in MCNames |-> CASE n = "A" -> "A_RESULT" [] n = "B" -> "B_RESULT"
                                     [] OTHER -> "A_RESULT_RESULT"]

Square(n, value(_, _)) == [cell \in (1 .. n) \X (1 .. n) |-> value(cell[1], cell[2])]

\* One page and four pages, with and without padding, symmetric or not.
MCFiles == [n \in MCNames |->
    CASE n = "A" -> {Square(3, LAMBDA r, c : 3 * r + c)}
      [] n = "B" -> {Square(2, LAMBDA r, c : r + c), NoMatrix}
      [] OTHER   -> {NoMatrix}]
=============================================================================
