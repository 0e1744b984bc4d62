---------------------------- MODULE MatrixStore ----------------------------
(***************************************************************************)
(* What the matrix commands promise: named square matrices and the .csv    *)
(* files they come from, one step per command.  No pages, no buffer.       *)
(***************************************************************************)
EXTENDS Integers

CONSTANTS Names,       \* the matrix names that commands use
          ResultName,  \* COMPUTE A writes the file ResultName[A]
          NoMatrix,
          PRINT_COUNT  \* PRINT shows this many rows and columns at most

VARIABLES matrices,    \* name -> matrix, or NoMatrix
          csv,         \* file name -> matrix, or NoMatrix
          answer       \* the last answer of CHECKSYMMETRY or PRINT

vars == <<matrices, csv, answer>>

\* A matrix is a function of its row and column numbers.
Transposed(M) == [cell \in DOMAIN M |-> M[<<cell[2], cell[1]>>]]
LessTransposed(M) == [cell \in DOMAIN M |-> M[cell] - M[<<cell[2], cell[1]>>]]

Stored == {n \in Names : matrices[n] # NoMatrix}

Init == matrices = [n \in Names |-> NoMatrix] /\ answer = NoMatrix

Load(n) ==
    /\ csv[n] # NoMatrix /\ matrices' = [matrices EXCEPT ![n] = csv[n]]
    /\ UNCHANGED <<csv, answer>>

Transpose(n) == matrices' = [matrices EXCEPT ![n] = Transposed(@)] /\ UNCHANGED <<csv, answer>>

CheckSymmetry(n) ==
    /\ answer' = <<"symmetric", matrices[n] = Transposed(matrices[n])>>
    /\ UNCHANGED <<matrices, csv>>

Corner(M) == [cell \in {c \in DOMAIN M : c[1] <= PRINT_COUNT /\ c[2] <= PRINT_COUNT} |-> M[cell]]
Show(n) == answer' = <<"printed", Corner(matrices[n])>> /\ UNCHANGED <<matrices, csv>>

Rename(n, to) ==
    /\ matrices' = [[matrices EXCEPT ![n] = NoMatrix] EXCEPT ![to] = matrices[n]]
    /\ UNCHANGED <<csv, answer>>

Export(n) == csv' = [csv EXCEPT ![n] = matrices[n]] /\ UNCHANGED <<matrices, answer>>

Compute(n) ==
    /\ csv' = [csv EXCEPT ![ResultName[n]] = LessTransposed(matrices[n])]
    /\ UNCHANGED <<matrices, answer>>

Next ==
    \/ \E n \in Names : Load(n)
    \/ \E n \in Stored : Transpose(n) \/ CheckSymmetry(n) \/ Show(n) \/ Export(n) \/ Compute(n)
    \/ \E n \in Stored, to \in Names : Rename(n, to)

Spec == Init /\ [][Next]_vars
=============================================================================
