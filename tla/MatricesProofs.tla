--------------------------- MODULE MatricesProofs ---------------------------
(***************************************************************************)
(* Proofs about Matrices, for matrices, pages and a pool of any size: the  *)
(* page files are those of the catalogued matrices, and the commands, page *)
(* by page, are those of MatrixStore on whole matrices.                    *)
(***************************************************************************)
EXTENDS Matrices, TLAPS, FiniteSetTheorems, SequenceTheorems, WellFoundedInduction

(* Arithmetic of pages *)

LEMMA Product ==
    ASSUME NEW a \in Int, NEW b \in Int, NEW d \in Nat \ {0}
    PROVE  a * d \in Int /\ (a < b <=> a * d < b * d) /\ (a + 1) * d = a * d + d
OBVIOUS

\* Division with a remainder.
LEMMA DivMod ==
    ASSUME NEW x \in Nat, NEW d \in Nat \ {0}
    PROVE  /\ x \div d \in Nat /\ x % d \in 0 .. d - 1
           /\ x = (x \div d) * d + (x % d)
OBVIOUS

\* The page count covers every row, and no page is past the last row.
LEMMA Counted ==
    ASSUME NEW dim \in Nat \ {0}
    PROVE  /\ PageCount(dim) \in Nat \ {0}
           /\ \A x \in 1 .. dim : (x - 1) \div matrixDims \in 0 .. PageCount(dim) - 1
<1>0. matrixDims \in Nat \ {0}
    BY MatricesAssumption
<1>1. dim + matrixDims - 1 \in Nat
    BY <1>0
<1> DEFINE q == PageCount(dim)
<1>2. /\ q \in Nat
      /\ dim + matrixDims - 1 = q * matrixDims + ((dim + matrixDims - 1) % matrixDims)
      /\ (dim + matrixDims - 1) % matrixDims \in 0 .. matrixDims - 1
    BY <1>0, <1>1, DivMod DEF PageCount
<1> HIDE DEF q
<1>3. q * matrixDims \in Int /\ dim <= q * matrixDims
    BY <1>0, <1>2
<1>4. q # 0
    BY <1>3, <1>0
<1>5. ASSUME NEW x \in 1 .. dim PROVE (x - 1) \div matrixDims \in 0 .. q - 1
  <2> DEFINE p == (x - 1) \div matrixDims
  <2>1. x - 1 \in Nat
      BY <1>5
  <2>2. p \in Nat /\ x - 1 = p * matrixDims + ((x - 1) % matrixDims) /\ (x - 1) % matrixDims \in 0 .. matrixDims - 1
      BY <1>0, <2>1, DivMod
  <2> HIDE DEF p
  <2>3. p * matrixDims \in Int /\ p * matrixDims < q * matrixDims
      BY <1>0, <1>3, <2>2
  <2>4. p < q
      BY <1>0, <1>2, <2>2, <2>3, Product
  <2> QED BY <1>2, <2>2, <2>4 DEF p
<1> QED BY <1>2, <1>4, <1>5 DEF q

-----------------------------------------------------------------------------
(* Matrices and their pages *)

\* The sizes that a matrix may have, and that tell it from NoMatrix.
Dims == {dim \in Nat \ {0} : NoMatrix \notin Squares(dim)}

LEMMA Constants ==
    /\ matrixDims \in Nat \ {0} /\ BLOCK_COUNT \in Nat \ {0} /\ PRINT_COUNT \in Nat \ {0}
    /\ Dims \subseteq Nat \ {0}
BY MatricesAssumption DEF Dims

LEMMA SideOf ==
    ASSUME NEW dim \in Nat \ {0}, NEW M \in Squares(dim)
    PROVE  Side(M) = dim
<1>1. DOMAIN M = (1 .. dim) \X (1 .. dim)
    BY DEF Squares
<1>2. Cardinality(DOMAIN M) = dim * dim
  <2>1. IsFiniteSet(1 .. dim) /\ Cardinality(1 .. dim) = dim
      BY FS_Interval
  <2> QED BY <1>1, <2>1, FS_Product
<1>3. dim \in 1 .. Cardinality(DOMAIN M)
    BY <1>2
<1>4. ASSUME NEW n \in Nat \ {0}, (1 .. n) \X (1 .. n) = (1 .. dim) \X (1 .. dim) PROVE n = dim
  <2>1. <<n, n>> \in (1 .. dim) \X (1 .. dim) /\ <<dim, dim>> \in (1 .. n) \X (1 .. n)
      BY <1>4
  <2> QED BY <2>1
<1>5. \A n \in 1 .. Cardinality(DOMAIN M) : DOMAIN M = (1 .. n) \X (1 .. n) => n = dim
  <2>1. \A n \in 1 .. Cardinality(DOMAIN M) : n \in Nat \ {0}
      BY <1>2
  <2> QED BY <1>1, <1>4, <2>1
<1> QED BY <1>1, <1>3, <1>5 DEF Side

LEMMA PageType ==
    ASSUME NEW dim \in Nat \ {0}, NEW M \in Squares(dim), NEW r \in Nat, NEW c \in Nat
    PROVE  PageOf(M, r, c) \in [PageCells -> Int]
BY DEF PageOf, Squares

\* The row or column x is the one at that place on its page.
LEMMA PlaceOnPage ==
    ASSUME NEW x \in Nat \ {0}
    PROVE  /\ (x - 1) \div matrixDims \in Nat
           /\ ((x - 1) % matrixDims) + 1 \in 1 .. matrixDims
           /\ ((x - 1) \div matrixDims) * matrixDims + (((x - 1) % matrixDims) + 1) = x
<1>1. x - 1 \in Nat
    OBVIOUS
<1> QED BY <1>1, Constants, DivMod

Cut(M, shown) == [cell \in (1 .. shown) \X (1 .. shown) |-> M[cell]]

\* Pages put together are the matrix they were cut from, or its first rows and columns.
LEMMA Reassembled ==
    ASSUME NEW dim \in Nat \ {0}, NEW M \in Squares(dim), NEW shown \in 1 .. dim, NEW page,
           \A place \in Places(shown) : page[place] = PageOf(M, place[1], place[2])
    PROVE  Assembled(page, shown) = Cut(M, shown)
<1> DEFINE P(x) == (x - 1) \div matrixDims
           I(x) == ((x - 1) % matrixDims) + 1
<1>1. \A x \in 1 .. shown : /\ P(x) \in 0 .. PageCount(shown) - 1 /\ I(x) \in 1 .. matrixDims
                            /\ P(x) * matrixDims + I(x) = x
  <2> TAKE x \in 1 .. shown
  <2>1. x \in Nat \ {0} /\ shown \in Nat \ {0}
      OBVIOUS
  <2>2. P(x) \in 0 .. PageCount(shown) - 1
      BY <2>1, Counted
  <2> QED BY <2>1, <2>2, PlaceOnPage
<1>2. Assembled(page, shown) = [cell \in (1 .. shown) \X (1 .. shown) |-> page[<<P(cell[1]), P(cell[2])>>][<<I(cell[1]), I(cell[2])>>]]
    BY DEF Assembled
<1> HIDE DEF P, I
<1>3. ASSUME NEW x \in 1 .. shown, NEW y \in 1 .. shown
      PROVE  page[<<P(x), P(y)>>][<<I(x), I(y)>>] = M[<<x, y>>]
  <2>1. page[<<P(x), P(y)>>] = PageOf(M, P(x), P(y)) /\ <<I(x), I(y)>> \in PageCells
      BY <1>1 DEF PageCells, Places
  <2>2. PageOf(M, P(x), P(y))[<<I(x), I(y)>>] =
            IF <<P(x) * matrixDims + I(x), P(y) * matrixDims + I(y)>> \in DOMAIN M
            THEN M[<<P(x) * matrixDims + I(x), P(y) * matrixDims + I(y)>>] ELSE 0
      BY <2>1 DEF PageOf
  <2>3. <<x, y>> \in DOMAIN M
      BY DEF Squares
  <2> QED BY <1>1, <2>1, <2>2, <2>3
<1> QED BY <1>2, <1>3 DEF Cut

\* A mirrored page is a page of the transposed matrix.
LEMMA MirrorPage ==
    ASSUME NEW dim \in Nat \ {0}, NEW M \in Squares(dim), NEW r \in Nat, NEW c \in Nat
    PROVE  /\ Promised!Transposed(M) \in Squares(dim)
           /\ Mirror(PageOf(M, c, r)) = PageOf(Promised!Transposed(M), r, c)
<1>1. DOMAIN M = (1 .. dim) \X (1 .. dim)
    BY DEF Squares
<1>2. Promised!Transposed(M) = [cell \in (1 .. dim) \X (1 .. dim) |-> M[<<cell[2], cell[1]>>]]
    BY <1>1 DEF Promised!Transposed
<1>3. Promised!Transposed(M) \in Squares(dim)
    BY <1>2 DEF Squares
<1>4. ASSUME NEW i \in 1 .. matrixDims, NEW j \in 1 .. matrixDims
      PROVE  PageOf(M, c, r)[<<j, i>>] = PageOf(Promised!Transposed(M), r, c)[<<i, j>>]
  <2> DEFINE x == r * matrixDims + i
             y == c * matrixDims + j
  <2>1. PageOf(M, c, r)[<<j, i>>] = IF <<y, x>> \in DOMAIN M THEN M[<<y, x>>] ELSE 0
      BY DEF PageOf, PageCells
  <2>2. PageOf(Promised!Transposed(M), r, c)[<<i, j>>] =
            IF <<x, y>> \in DOMAIN Promised!Transposed(M) THEN Promised!Transposed(M)[<<x, y>>] ELSE 0
      BY DEF PageOf, PageCells
  <2> HIDE DEF x, y
  <2> QED BY <1>1, <1>2, <2>1, <2>2
<1>5. Mirror(PageOf(M, c, r)) = [cell \in PageCells |-> PageOf(Promised!Transposed(M), r, c)[cell]]
    BY <1>4 DEF Mirror, PageCells
<1>6. PageOf(Promised!Transposed(M), r, c) = [cell \in PageCells |-> PageOf(Promised!Transposed(M), r, c)[cell]]
    BY DEF PageOf
<1> QED BY <1>3, <1>5, <1>6

\* What computeOnMatrix makes of two pages is a page of the difference.
LEMMA DifferencePage ==
    ASSUME NEW dim \in Nat \ {0}, NEW M \in Squares(dim), NEW r \in Nat, NEW c \in Nat
    PROVE  /\ Promised!LessTransposed(M) \in Squares(dim)
           /\ Minus(PageOf(M, r, c), Mirror(PageOf(M, c, r))) = PageOf(Promised!LessTransposed(M), r, c)
           /\ Mirror([cell \in PageCells |-> -PageOf(Promised!LessTransposed(M), r, c)[cell]])
                = PageOf(Promised!LessTransposed(M), c, r)
<1> DEFINE D == Promised!LessTransposed(M)
           T == Promised!Transposed(M)
<1>1. DOMAIN M = (1 .. dim) \X (1 .. dim) /\ \A x, y \in 1 .. dim : M[<<x, y>>] \in Int
    BY DEF Squares
<1>2. D = [cell \in (1 .. dim) \X (1 .. dim) |-> M[cell] - M[<<cell[2], cell[1]>>]]
    BY <1>1 DEF Promised!LessTransposed
<1>3. D \in Squares(dim)
    BY <1>1, <1>2 DEF Squares
<1>4. T = [cell \in (1 .. dim) \X (1 .. dim) |-> M[<<cell[2], cell[1]>>]]
    BY <1>1 DEF Promised!Transposed
<1> HIDE DEF D, T
<1>5. ASSUME NEW p \in Nat, NEW q \in Nat, NEW i \in 1 .. matrixDims, NEW j \in 1 .. matrixDims
      PROVE  /\ PageOf(D, p, q)[<<i, j>>] = PageOf(M, p, q)[<<i, j>>] - PageOf(T, p, q)[<<i, j>>]
             /\ PageOf(D, q, p)[<<j, i>>] = -PageOf(D, p, q)[<<i, j>>]
  <2> DEFINE x == p * matrixDims + i
             y == q * matrixDims + j
  <2>1. /\ PageOf(D, p, q)[<<i, j>>] = IF <<x, y>> \in DOMAIN D THEN D[<<x, y>>] ELSE 0
        /\ PageOf(M, p, q)[<<i, j>>] = IF <<x, y>> \in DOMAIN M THEN M[<<x, y>>] ELSE 0
        /\ PageOf(T, p, q)[<<i, j>>] = IF <<x, y>> \in DOMAIN T THEN T[<<x, y>>] ELSE 0
        /\ PageOf(D, q, p)[<<j, i>>] = IF <<y, x>> \in DOMAIN D THEN D[<<y, x>>] ELSE 0
      BY DEF PageOf, PageCells
  <2> HIDE DEF x, y
  <2>2. <<x, y>> \in DOMAIN D <=> <<y, x>> \in DOMAIN D
      BY <1>2
  <2>3. CASE <<x, y>> \in DOMAIN D
      BY <1>1, <1>2, <1>4, <2>1, <2>2, <2>3
  <2>4. CASE <<x, y>> \notin DOMAIN D
      BY <1>1, <1>2, <1>4, <2>1, <2>2, <2>4
  <2> QED BY <2>3, <2>4
<1>6. Mirror(PageOf(M, c, r)) = PageOf(T, r, c)
    BY MirrorPage DEF T
<1>7. Minus(PageOf(M, r, c), PageOf(T, r, c)) = [cell \in PageCells |-> PageOf(D, r, c)[cell]]
  <2>1. \A i, j \in 1 .. matrixDims : PageOf(M, r, c)[<<i, j>>] - PageOf(T, r, c)[<<i, j>>] = PageOf(D, r, c)[<<i, j>>]
      BY <1>5, ZenonT(30)
  <2> QED BY <2>1 DEF Minus, PageCells
<1>8. Mirror([cell \in PageCells |-> -PageOf(D, r, c)[cell]]) = [cell \in PageCells |-> PageOf(D, c, r)[cell]]
    BY <1>5 DEF Mirror, PageCells
<1>9. \A p, q \in Nat : PageOf(D, p, q) = [cell \in PageCells |-> PageOf(D, p, q)[cell]]
    BY DEF PageOf
<1> QED BY <1>3, <1>6, <1>7, <1>8, <1>9 DEF D


-----------------------------------------------------------------------------
(* The inductive invariant *)

Triples == FileNames \X Nat \X Nat

\* The matrices and the .csv files that MatrixStore sees.
Store == IF job = Idle THEN Held ELSE before.matrices
StoreCsv == IF job = Idle THEN csv ELSE before.csv

\* The size of the matrix that command j works on.
DimOf(j, sizes, F) ==
    IF j.op = "load" THEN Side(F[j.name]) ELSE IF j.op = "rename" THEN sizes[j.to] ELSE sizes[j.name]

\* The loops of command j have gone past this place.
Over(j, r, c) == r < j.row \/ (r = j.row /\ c < j.col)
OverPair(j, r, c) == IF r <= c THEN Over(j, r, c) ELSE Over(j, c, r)

Makes(j) == j.op \in {"load", "rename", "compute", "result"}
Done(j, r, c) == CASE j.op = "load" -> Over(j, c, r)
                   [] j.op = "rename" -> Over(j, r, c)
                   [] j.op = "result" -> TRUE
                   [] OTHER -> OverPair(j, r, c)

\* A catalogued page.
Listed(sizes, n, r, c) == n \in Names /\ sizes[n] # 0 /\ <<r, c>> \in Places(sizes[n])

\* In the middle of command j that page has a file.
Present(j, sizes, dim, n, r, c) ==
    IF Makes(j) /\ n = j.to THEN <<r, c>> \in Places(dim) /\ Done(j, r, c)
    ELSE IF j.op = "rename" /\ n = j.name THEN <<r, c>> \in Places(dim) /\ ~Done(j, r, c)
    ELSE Listed(sizes, n, r, c)

\* The matrix that the page is cut from.
Made(j, S, F) == IF j.op = "load" THEN F[j.name]
                 ELSE IF j.op = "rename" THEN S[j.name] ELSE Promised!LessTransposed(S[j.name])
Content(j, S, F, n, r, c) ==
    IF Makes(j) /\ n = j.to THEN Made(j, S, F)
    ELSE IF j.op = "transpose" /\ n = j.name /\ Done(j, r, c) THEN Promised!Transposed(S[n])
    ELSE S[n]

FilesAre(j, sizes, S, F, files) ==
    /\ DOMAIN files \subseteq Triples
    /\ \A n \in FileNames, r \in Nat, c \in Nat :
          /\ <<n, r, c>> \in DOMAIN files <=> Present(j, sizes, DimOf(j, sizes, F), n, r, c)
          /\ <<n, r, c>> \in DOMAIN files => files[<<n, r, c>>] = PageOf(Content(j, S, F, n, r, c), r, c)

\* The store holds matrices of the catalogued sizes; RENAME has changed the
\* catalogue before it moves a page.
SizeIs(S, n, dim) == IF dim = 0 THEN S[n] = NoMatrix ELSE S[n] \in Squares(dim)
StoreIs(j, sizes, S) ==
    /\ sizes \in [Names -> Dims \cup {0}]
    /\ S = [n \in Names |-> S[n]]
    /\ \A n \in Names :
          SizeIs(S, n, IF j.op = "rename" /\ n = j.name THEN sizes[j.to]
                       ELSE IF j.op = "rename" /\ n = j.to THEN 0 ELSE sizes[n])

\* The place of command j is one of the matrix's, on or right of the diagonal.
Inside(j, dim) == j.row \in 0 .. PageCount(dim) - 1 /\ j.col \in 0 .. PageCount(dim) - 1
Upper(j) == j.row <= j.col

PairOps == {"transpose", "symmetry", "compute"}
JobIs(j, sizes, F) ==
    /\ j = [op |-> j.op, name |-> j.name, to |-> j.to, row |-> j.row, col |-> j.col]
    /\ j.op \in {"none", "load", "rename", "result"} \cup PairOps
    /\ j.op = "none" => j = Idle
    /\ j.op # "none" => /\ j.name \in Names /\ DimOf(j, sizes, F) \in Dims
                        /\ Inside(j, DimOf(j, sizes, F))
    /\ j.op \in PairOps => Upper(j)
    /\ j.op = "load" => j.to = j.name /\ sizes[j.name] = 0 /\ F[j.name] \in Squares(DimOf(j, sizes, F))
    /\ j.op = "rename" => j.to \in Names /\ j.to # j.name /\ sizes[j.name] = 0
    /\ j.op \in {"compute", "result"} => j.to = ResultName[j.name] /\ (j.to \in Names => sizes[j.to] = 0)

\* CHECKSYMMETRY goes on only past pages that mirror each other.
MirroredSoFar(j, sizes, S) ==
    j.op = "symmetry" =>
        \A r, c \in 0 .. PageCount(sizes[j.name]) - 1 :
            r <= c /\ Over(j, r, c) => PageOf(S[j.name], r, c) = Mirror(PageOf(S[j.name], c, r))

\* No page in the pool has a name that getMatrix asks for.
PoolIs(buffer) ==
    \E T : buffer \in Seq(T) /\ \A e \in T : \E name : e.pageName = PoolName(name)

CsvIs(F) == F \in [FileNames -> (UNION {Squares(dim) : dim \in Dims}) \cup {NoMatrix}]

Holds(j, sizes, S, F, files) ==
    /\ CsvIs(F) /\ StoreIs(j, sizes, S) /\ JobIs(j, sizes, F)
    /\ MirroredSoFar(j, sizes, S) /\ FilesAre(j, sizes, S, F, files)

MatricesInv ==
    /\ Holds(job, catalogue, Store, csv, pageFile)
    /\ PoolIs(pool)
    /\ job # Idle => before.csv = csv

-----------------------------------------------------------------------------
(* What the invariant says in each command *)

LEMMA LoadForm ==
    ASSUME NEW j, j.op = "load", NEW sizes, NEW dim, NEW S, NEW F, NEW n, NEW r, NEW c
    PROVE  /\ Present(j, sizes, dim, n, r, c) <=>
                 IF n = j.to THEN <<r, c>> \in Places(dim) /\ Over(j, c, r) ELSE Listed(sizes, n, r, c)
           /\ Content(j, S, F, n, r, c) = IF n = j.to THEN F[j.name] ELSE S[n]
           /\ DimOf(j, sizes, F) = Side(F[j.name])
BY DEF Present, Content, Done, Makes, Made, DimOf

LEMMA RenameForm ==
    ASSUME NEW j, j.op = "rename", j.to # j.name, NEW sizes, NEW dim, NEW S, NEW F, NEW n, NEW r, NEW c
    PROVE  /\ Present(j, sizes, dim, n, r, c) <=>
                 IF n = j.to THEN <<r, c>> \in Places(dim) /\ Over(j, r, c)
                 ELSE IF n = j.name THEN <<r, c>> \in Places(dim) /\ ~Over(j, r, c)
                 ELSE Listed(sizes, n, r, c)
           /\ Content(j, S, F, n, r, c) = IF n = j.to THEN S[j.name] ELSE S[n]
           /\ DimOf(j, sizes, F) = sizes[j.to]
BY DEF Present, Content, Done, Makes, Made, DimOf

LEMMA TransposeForm ==
    ASSUME NEW j, j.op = "transpose", NEW sizes, NEW dim, NEW S, NEW F, NEW n, NEW r, NEW c
    PROVE  /\ Present(j, sizes, dim, n, r, c) <=> Listed(sizes, n, r, c)
           /\ Content(j, S, F, n, r, c) =
                 IF n = j.name /\ OverPair(j, r, c) THEN Promised!Transposed(S[n]) ELSE S[n]
           /\ DimOf(j, sizes, F) = sizes[j.name]
BY DEF Present, Content, Done, Makes, DimOf

LEMMA ComputeForm ==
    ASSUME NEW j, j.op \in {"compute", "result"}, NEW sizes, NEW dim, NEW S, NEW F, NEW n, NEW r, NEW c
    PROVE  /\ Present(j, sizes, dim, n, r, c) <=>
                 IF n = j.to THEN <<r, c>> \in Places(dim) /\ (j.op = "result" \/ OverPair(j, r, c))
                 ELSE Listed(sizes, n, r, c)
           /\ Content(j, S, F, n, r, c) = IF n = j.to THEN Promised!LessTransposed(S[j.name]) ELSE S[n]
           /\ DimOf(j, sizes, F) = sizes[j.name]
BY DEF Present, Content, Done, Makes, Made, DimOf

\* Between commands, and while CHECKSYMMETRY only reads.
LEMMA RestForm ==
    ASSUME NEW j, j.op \in {"none", "symmetry"}, NEW sizes, NEW dim, NEW S, NEW F, NEW n, NEW r, NEW c
    PROVE  /\ Present(j, sizes, dim, n, r, c) <=> Listed(sizes, n, r, c)
           /\ Content(j, S, F, n, r, c) = S[n]
           /\ DimOf(j, sizes, F) = sizes[j.name]
BY DEF Present, Content, Done, Makes, DimOf


-----------------------------------------------------------------------------
(* The loops *)

\* One step of the loops over all pages goes past exactly one more place.
LEMMA PageStep ==
    ASSUME NEW count \in Nat \ {0}, NEW j, NEW k,
           j.row \in 0 .. count - 1, j.col \in 0 .. count - 1,
           \/ j.col + 1 < count /\ k.row = j.row /\ k.col = j.col + 1
           \/ ~(j.col + 1 < count) /\ j.row + 1 < count /\ k.row = j.row + 1 /\ k.col = 0
    PROVE  /\ k.row \in 0 .. count - 1 /\ k.col \in 0 .. count - 1
           /\ \A r, c \in 0 .. count - 1 : Over(k, r, c) <=> Over(j, r, c) \/ (r = j.row /\ c = j.col)
BY DEF Over

LEMMA LastPage ==
    ASSUME NEW count \in Nat \ {0}, NEW j, j.row \in 0 .. count - 1, j.col \in 0 .. count - 1,
           ~(j.col + 1 < count), ~(j.row + 1 < count)
    PROVE  \A r, c \in 0 .. count - 1 : Over(j, r, c) \/ (r = j.row /\ c = j.col)
BY DEF Over

\* One step of the loops over the pairs goes past exactly one more pair.
LEMMA PairStep ==
    ASSUME NEW count \in Nat \ {0}, NEW j, NEW k,
           j.row \in 0 .. count - 1, j.col \in 0 .. count - 1, j.row <= j.col,
           ~(j.row = count - 1 /\ j.col = count - 1),
           \/ j.col + 1 < count /\ k.row = j.row /\ k.col = j.col + 1
           \/ ~(j.col + 1 < count) /\ k.row = j.row + 1 /\ k.col = j.row + 1
    PROVE  /\ k.row \in 0 .. count - 1 /\ k.col \in 0 .. count - 1 /\ k.row <= k.col
           /\ \A r, c \in 0 .. count - 1 :
                 r <= c => (Over(k, r, c) <=> Over(j, r, c) \/ (r = j.row /\ c = j.col))
           /\ \A r, c \in 0 .. count - 1 :
                 OverPair(k, r, c) <=> \/ OverPair(j, r, c)
                                       \/ r = j.row /\ c = j.col
                                       \/ r = j.col /\ c = j.row
BY DEF Over, OverPair

LEMMA LastPairStep ==
    ASSUME NEW count \in Nat \ {0}, NEW j, j.row = count - 1, j.col = count - 1
    PROVE  /\ \A r, c \in 0 .. count - 1 : r <= c => Over(j, r, c) \/ (r = j.row /\ c = j.col)
           /\ \A r, c \in 0 .. count - 1 : OverPair(j, r, c) \/ (r = j.row /\ c = j.col)
BY DEF Over, OverPair

\* Nothing is past at the start.
LEMMA NothingOver ==
    ASSUME NEW j, j.row = 0, j.col = 0
    PROVE  \A r, c \in Nat : ~Over(j, r, c) /\ ~OverPair(j, r, c)
BY DEF Over, OverPair

-----------------------------------------------------------------------------
(* The pool *)

LEMMA NeverInPool ==
    ASSUME PoolIs(pool), NEW n, NEW r, NEW c
    PROVE  ~InPool(pool, <<n, r, c>>)
<1>1. PICK T : pool \in Seq(T) /\ \A e \in T : \E name : e.pageName = PoolName(name)
    BY DEF PoolIs
<1>2. \A i \in DOMAIN pool : pool[i] \in T
    BY <1>1
<1>3. \A name : PoolName(name) # <<n, r, c>>
    BY DEF PoolName
<1> QED BY <1>1, <1>2, <1>3 DEF InPool

\* getMatrix always reads the file.
LEMMA ReadsFile ==
    ASSUME PoolIs(pool), NEW n, NEW r, NEW c, NEW junk
    PROVE  GetMatrix(<<n, r, c>>, junk) = FileRead(<<n, r, c>>, junk)
BY NeverInPool DEF GetMatrix

LEMMA EmptyIs == PoolIs(<<>>)
<1> DEFINE T == {}
<1>1. <<>> \in Seq(T) /\ \A e \in T : \E name : e.pageName = PoolName(name)
    OBVIOUS
<1> HIDE DEF T
<1> QED BY <1>1 DEF PoolIs

LEMMA NewestIs ==
    ASSUME NEW entries, PoolIs(entries)
    PROVE  PoolIs(Newest(entries))
<1>1. PICK T : entries \in Seq(T) /\ \A e \in T : \E name : e.pageName = PoolName(name)
    BY DEF PoolIs
<1>2. Newest(entries) \in Seq(T)
  <2> DEFINE first == IF Len(entries) > BLOCK_COUNT THEN Len(entries) - BLOCK_COUNT + 1 ELSE 1
  <2>1. first \in Nat \ {0} /\ first <= Len(entries) + 1 /\ Len(entries) \in Nat
      BY <1>1, Constants
  <2>2. Newest(entries) = SubSeq(entries, first, Len(entries))
      BY DEF Newest
  <2> HIDE DEF first
  <2> QED BY <1>1, <2>1, <2>2
<1> QED BY <1>1, <1>2 DEF PoolIs

LEMMA AppendedIs ==
    ASSUME NEW buffer, PoolIs(buffer), NEW name, NEW page
    PROVE  PoolIs(Append(buffer, [pageName |-> PoolName(name), page |-> page]))
<1> DEFINE e == [pageName |-> PoolName(name), page |-> page]
<1>1. PICK T : buffer \in Seq(T) /\ \A x \in T : \E y : x.pageName = PoolName(y)
    BY DEF PoolIs
<1>2. e.pageName = PoolName(name)
    OBVIOUS
<1> HIDE DEF e
<1>3. Append(buffer, e) \in Seq(T \cup {e})
    BY <1>1
<1>4. \A x \in T \cup {e} : \E y : x.pageName = PoolName(y)
    BY <1>1, <1>2
<1> QED BY <1>3, <1>4 DEF PoolIs, e


\* Induction, as a fact about a set of numbers.
LEMMA AllNaturals ==
    ASSUME NEW S \in SUBSET Nat, 0 \in S, \A n \in S : n + 1 \in S
    PROVE  S = Nat
<1> DEFINE R == {p \in Nat \X Nat : p[1] < p[2]}
           Rest == Nat \ S
<1>1. IsWellFoundedOn(R, Nat)
    BY NatLessThanWellFounded DEF OpToRel
<1>2. SUFFICES ASSUME Rest # {} PROVE FALSE
    OBVIOUS
<1>3. PICK i \in Rest : \A j \in Rest : ~(<<j, i>> \in R)
    BY <1>1, <1>2, WFMin
<1>4. i - 1 \in Nat /\ i - 1 + 1 = i /\ i - 1 < i
    BY <1>3
<1>5. i - 1 \in S
    BY <1>3, <1>4
<1> QED BY <1>3, <1>4, <1>5

\* The pages that come in are in the pool under their own names as well.
LEMMA PoolAfterIs ==
    ASSUME PoolIs(pool), NEW names, Len(names) \in Nat, NEW junk
    PROVE  PoolIs(PoolAfter(names, junk))
<1> DEFINE Step(b, i) == IF InPool(pool, names[i]) THEN b
                         ELSE Append(b, [pageName |-> PoolName(names[i]), page |-> FileRead(names[i], junk)])
           Run(g, n) == g = [i \in 0 .. n |-> IF i = 0 THEN pool ELSE Step(g[i - 1], i)]
           Runs == {n \in Nat : \E g : Run(g, n)}
           after == CHOOSE g : Run(g, Len(names))
           Sound == {n \in Nat : n <= Len(names) => PoolIs(after[n])}
<1>1. PoolAfter(names, junk) = Newest(after[Len(names)])
    BY DEF PoolAfter
<1>2. \A b, i : PoolIs(b) => PoolIs(Step(b, i))
    BY AppendedIs
<1> HIDE DEF Step
<1>3. 0 \in Runs
  <2>1. Run([i \in 0 .. 0 |-> pool], 0)
      OBVIOUS
  <2> QED BY <2>1
<1>4. ASSUME NEW n \in Runs PROVE n + 1 \in Runs
  <2>1. PICK g : Run(g, n)
      BY <1>4
  <2> DEFINE h == [i \in 0 .. n + 1 |-> IF i = 0 THEN pool ELSE IF i = n + 1 THEN Step(g[n], n + 1) ELSE g[i]]
  <2>2. n \in Nat
      BY <1>4
  <2>3. ASSUME NEW i \in 0 .. n + 1, i # 0 PROVE h[i] = Step(h[i - 1], i)
    <3>1. i - 1 \in 0 .. n /\ h[i - 1] = g[i - 1]
        BY <2>1, <2>2, <2>3
    <3>2. CASE i = n + 1
        BY <2>2, <3>1, <3>2
    <3>3. CASE i # n + 1
      <4>1. i \in 0 .. n /\ h[i] = g[i]
          BY <2>2, <2>3, <3>3
      <4>2. g[i] = Step(g[i - 1], i)
          BY <2>1, <2>3, <4>1
      <4> QED BY <3>1, <4>1, <4>2
    <3> QED BY <3>2, <3>3
  <2>4. Run(h, n + 1)
      BY <2>2, <2>3
  <2> HIDE DEF Run
  <2> QED BY <2>2, <2>4
<1>5. Runs = Nat
    BY <1>3, <1>4, AllNaturals
<1>6. Run(after, Len(names))
  <2>1. \E g : Run(g, Len(names))
      BY <1>5
  <2> HIDE DEF Run
  <2> QED BY <2>1
<1> HIDE DEF after
<1>7. after[0] = pool /\ \A i \in 0 .. Len(names) : i # 0 => after[i] = Step(after[i - 1], i)
    BY <1>6
<1>8. 0 \in Sound
    BY <1>7
<1>9. ASSUME NEW n \in Sound PROVE n + 1 \in Sound
  <2>1. n + 1 <= Len(names) => after[n + 1] = Step(after[n], n + 1) /\ PoolIs(after[n])
      BY <1>7, <1>9
  <2> QED BY <1>2, <1>9, <2>1
<1>10. Sound = Nat
    BY <1>8, <1>9, AllNaturals
<1>11. PoolIs(after[Len(names)])
    BY <1>10
<1> QED BY <1>1, <1>11, NewestIs

-----------------------------------------------------------------------------
(* Page files and matrices *)

HeldIn(sizes, files, blank) ==
    [n \in Names |->
        IF sizes[n] = 0 THEN NoMatrix
        ELSE Assembled([place \in Places(sizes[n]) |->
                           IF <<n, place[1], place[2]>> \in DOMAIN files
                           THEN files[<<n, place[1], place[2]>>] ELSE blank], sizes[n])]

\* The pages of the catalogued matrices make up the matrices.
LEMMA HeldIs ==
    ASSUME NEW sizes, NEW S, NEW F, NEW files, NEW blank,
           StoreIs(Idle, sizes, S), FilesAre(Idle, sizes, S, F, files)
    PROVE  HeldIn(sizes, files, blank) = S
<1>1. Idle.op = "none" /\ Idle.op # "rename"
    BY DEF Idle
<1>2. \A n \in Names : SizeIs(S, n, sizes[n]) /\ sizes[n] \in Dims \cup {0}
    BY <1>1 DEF StoreIs
<1>3. ASSUME NEW n \in Names, sizes[n] # 0
      PROVE  Assembled([place \in Places(sizes[n]) |->
                           IF <<n, place[1], place[2]>> \in DOMAIN files
                           THEN files[<<n, place[1], place[2]>>] ELSE blank], sizes[n]) = S[n]
  <2> DEFINE dim == sizes[n]
             page == [place \in Places(dim) |->
                         IF <<n, place[1], place[2]>> \in DOMAIN files
                         THEN files[<<n, place[1], place[2]>>] ELSE blank]
  <2>1. dim \in Nat \ {0} /\ S[n] \in Squares(dim)
      BY <1>2, <1>3, Constants DEF SizeIs
  <2>2. ASSUME NEW r \in 0 .. PageCount(dim) - 1, NEW c \in 0 .. PageCount(dim) - 1
        PROVE  <<n, r, c>> \in DOMAIN files /\ files[<<n, r, c>>] = PageOf(S[n], r, c)
    <3>1. n \in FileNames /\ r \in Nat /\ c \in Nat
        BY <2>1, Counted DEF FileNames
    <3>2. Present(Idle, sizes, DimOf(Idle, sizes, F), n, r, c) /\ Content(Idle, S, F, n, r, c) = S[n]
      <4>1. Listed(sizes, n, r, c)
          BY <1>3 DEF Listed, Places
      <4> QED BY <1>1, <4>1, RestForm
    <3> QED BY <3>1, <3>2 DEF FilesAre
  <2>3. \A place \in Places(dim) : page[place] = PageOf(S[n], place[1], place[2])
      BY <2>2 DEF Places
  <2>4. dim \in 1 .. dim
      BY <2>1
  <2> HIDE DEF dim, page
  <2>5. Assembled(page, dim) = Cut(S[n], dim)
      BY <2>1, <2>3, <2>4, Reassembled
  <2>6. S[n] = Cut(S[n], dim)
      BY <2>1 DEF Squares, Cut
  <2> QED BY <2>5, <2>6 DEF page, dim
<1>4. \A n \in Names : sizes[n] = 0 => S[n] = NoMatrix
    BY <1>2 DEF SizeIs
<1>5. S = [n \in Names |-> S[n]]
    BY DEF StoreIs
<1> QED BY <1>3, <1>4, <1>5 DEF HeldIn

-----------------------------------------------------------------------------
(* What the invariant says *)

LEMMA AtRest ==
    ASSUME MatricesInv, job.op \in {"none", "symmetry"}
    PROVE  /\ DOMAIN pageFile \subseteq Triples
           /\ \A n \in FileNames, r \in Nat, c \in Nat :
                 /\ <<n, r, c>> \in DOMAIN pageFile <=> Listed(catalogue, n, r, c)
                 /\ <<n, r, c>> \in DOMAIN pageFile => pageFile[<<n, r, c>>] = PageOf(Store[n], r, c)
           /\ StoreIs(Idle, catalogue, Store)
           /\ FilesAre(Idle, catalogue, Store, csv, pageFile)
<1>1. Idle.op = "none"
    BY DEF Idle
<1>2. /\ DOMAIN pageFile \subseteq Triples
      /\ \A n \in FileNames, r \in Nat, c \in Nat :
            /\ <<n, r, c>> \in DOMAIN pageFile <=> Listed(catalogue, n, r, c)
            /\ <<n, r, c>> \in DOMAIN pageFile => pageFile[<<n, r, c>>] = PageOf(Store[n], r, c)
  <2>1. FilesAre(job, catalogue, Store, csv, pageFile)
      BY DEF MatricesInv, Holds
  <2>2. ASSUME NEW n \in FileNames, NEW r \in Nat, NEW c \in Nat
        PROVE  /\ <<n, r, c>> \in DOMAIN pageFile <=> Listed(catalogue, n, r, c)
               /\ <<n, r, c>> \in DOMAIN pageFile => pageFile[<<n, r, c>>] = PageOf(Store[n], r, c)
    <3>1. /\ Present(job, catalogue, DimOf(job, catalogue, csv), n, r, c) <=> Listed(catalogue, n, r, c)
          /\ Content(job, Store, csv, n, r, c) = Store[n]
        BY RestForm
    <3> QED BY <2>1, <3>1 DEF FilesAre
  <2> QED BY <2>1, <2>2 DEF FilesAre
<1>3. StoreIs(Idle, catalogue, Store)
    BY <1>1 DEF MatricesInv, Holds, StoreIs
<1>4. FilesAre(Idle, catalogue, Store, csv, pageFile)
    BY <1>1, <1>2, RestForm DEF FilesAre
<1> QED BY <1>2, <1>3, <1>4

\* The catalogued matrices are there, with their sizes.
LEMMA StoreIsSized ==
    ASSUME NEW sizes, NEW S, StoreIs(Idle, sizes, S), NEW n \in Names
    PROVE  /\ sizes[n] \in Nat
           /\ IF sizes[n] = 0 THEN S[n] = NoMatrix
              ELSE sizes[n] \in Dims /\ S[n] \in Squares(sizes[n]) /\ S[n] # NoMatrix
<1>1. SizeIs(S, n, sizes[n]) /\ sizes[n] \in Dims \cup {0}
    BY DEF StoreIs, Idle
<1>2. sizes[n] # 0 => NoMatrix \notin Squares(sizes[n])
    BY <1>1 DEF Dims
<1>3. sizes[n] \in Nat /\ (sizes[n] # 0 => sizes[n] \in Dims)
  <2>1. \A d \in Dims : d \in Nat
      BY Constants
  <2> QED BY <1>1, <2>1
<1>4. CASE sizes[n] = 0
    BY <1>1, <1>3, <1>4 DEF SizeIs
<1>5. CASE sizes[n] # 0
  <2>1. S[n] \in Squares(sizes[n])
      BY <1>1, <1>5 DEF SizeIs
  <2> QED BY <1>2, <1>3, <1>5, <2>1
<1> QED BY <1>4, <1>5

LEMMA CsvIsSized ==
    ASSUME NEW F, CsvIs(F), NEW n \in FileNames, F[n] # NoMatrix
    PROVE  Side(F[n]) \in Dims /\ F[n] \in Squares(Side(F[n]))
<1>1. PICK dim \in Dims : F[n] \in Squares(dim)
    BY DEF CsvIs
<1> QED BY <1>1, SideOf, Constants

\* Reading gives the page of the matrix, wherever in a command.
LEMMA Reading ==
    ASSUME MatricesInv, NEW n \in FileNames, NEW r \in Nat, NEW c \in Nat, NEW junk,
           Present(job, catalogue, DimOf(job, catalogue, csv), n, r, c)
    PROVE  GetMatrix(<<n, r, c>>, junk) = PageOf(Content(job, Store, csv, n, r, c), r, c)
<1>1. <<n, r, c>> \in DOMAIN pageFile
      /\ pageFile[<<n, r, c>>] = PageOf(Content(job, Store, csv, n, r, c), r, c)
    BY DEF MatricesInv, Holds, FilesAre
<1> QED BY <1>1, ReadsFile DEF MatricesInv, FileRead

-----------------------------------------------------------------------------
(* The beginning of a command *)

LEMMA Began ==
    ASSUME MatricesInv, NEW op, NEW n, NEW to, Begin(op, n, to), op # "none",
           csv' = csv, pageFile' = pageFile, pool' = pool,
           Holds(job', catalogue', Store, csv, pageFile)
    PROVE  MatricesInv' /\ Store' = Store /\ StoreCsv' = StoreCsv
<1>1. job = Idle /\ job'.op = op /\ before' = [matrices |-> Held, csv |-> csv]
    BY DEF Begin
<1>2. job' # Idle
  <2>1. Idle.op = "none"
      BY DEF Idle
  <2> QED BY <1>1, <2>1
<1>3. Store = Held /\ Store' = before'.matrices /\ StoreCsv = csv /\ StoreCsv' = before'.csv
    BY <1>1, <1>2 DEF Store, StoreCsv
<1>4. Store' = Store /\ StoreCsv' = StoreCsv /\ before'.csv = csv
    BY <1>1, <1>3
<1>5. Holds(job', catalogue', Store', csv', pageFile')
    BY <1>4
<1>6. PoolIs(pool')
    BY DEF MatricesInv
<1> QED BY <1>4, <1>5, <1>6 DEF MatricesInv

\* Of a command on a matrix, when it makes nothing yet.
LEMMA BeganOn ==
    ASSUME MatricesInv, NEW op \in PairOps, NEW n \in Catalogued, NEW to, Begin(op, n, to),
           op = "compute" => to = ResultName[n] /\ Free(to),
           UNCHANGED <<csv, pageFile, catalogue, pool>>
    PROVE  MatricesInv' /\ Store' = Store /\ StoreCsv' = StoreCsv
<1>1. job = Idle /\ job.op = "none" /\ job' = [op |-> op, name |-> n, to |-> to, row |-> 0, col |-> 0]
    BY DEF Begin, Idle
<1>2. n \in Names /\ catalogue[n] # 0 /\ op # "none" /\ op # "load" /\ op # "rename" /\ op # "result"
    BY DEF Catalogued, PairOps
<1>3. StoreIs(Idle, catalogue, Store) /\ catalogue[n] \in Dims /\ CsvIs(csv)
    BY <1>1, <1>2, AtRest, StoreIsSized DEF MatricesInv, Holds
<1>4. job'.op = op /\ job'.name = n /\ job'.to = to /\ job'.row = 0 /\ job'.col = 0
    BY <1>1
<1>5. StoreIs(job', catalogue', Store)
    BY <1>2, <1>3, <1>4 DEF StoreIs, Idle
<1>6. DimOf(job', catalogue', csv) = catalogue[n]
    BY <1>2, <1>4 DEF DimOf
<1>7. Inside(job', catalogue[n]) /\ Upper(job')
  <2>1. PageCount(catalogue[n]) \in Nat \ {0}
      BY <1>3, Counted, Constants
  <2> QED BY <1>4, <2>1 DEF Inside, Upper
<1>8. op = "compute" => to = ResultName[n] /\ (to \in Names => catalogue[to] = 0)
    BY DEF Free, Catalogued
<1>9. JobIs(job', catalogue', csv)
    BY <1>1, <1>2, <1>3, <1>4, <1>6, <1>7, <1>8 DEF JobIs
<1>10. \A r, c \in Nat : ~Over(job', r, c) /\ ~OverPair(job', r, c)
    BY <1>4, NothingOver
<1>11. MirroredSoFar(job', catalogue', Store)
  <2>1. 0 .. PageCount(catalogue[n]) - 1 \subseteq Nat
      BY <1>3, Counted, Constants
  <2> QED BY <1>4, <1>10, <2>1 DEF MirroredSoFar
<1>12. FilesAre(job', catalogue', Store, csv, pageFile)
  <2>1. DOMAIN pageFile \subseteq Triples
      BY <1>1, AtRest
  <2>2. ASSUME NEW m \in FileNames, NEW r \in Nat, NEW c \in Nat
        PROVE  /\ <<m, r, c>> \in DOMAIN pageFile <=> Present(job', catalogue', DimOf(job', catalogue', csv), m, r, c)
               /\ <<m, r, c>> \in DOMAIN pageFile
                    => pageFile[<<m, r, c>>] = PageOf(Content(job', Store, csv, m, r, c), r, c)
    <3>1. /\ <<m, r, c>> \in DOMAIN pageFile <=> Listed(catalogue, m, r, c)
          /\ <<m, r, c>> \in DOMAIN pageFile => pageFile[<<m, r, c>>] = PageOf(Store[m], r, c)
        BY <1>1, AtRest
    <3>2. ~OverPair(job', r, c)
        BY <1>10
    <3>3. CASE op = "compute"
      <4>1. m = to => ~Listed(catalogue, m, r, c)
          BY <1>8, <3>3 DEF Listed
      <4>2. /\ ~Present(job', catalogue', DimOf(job', catalogue', csv), m, r, c) <=> (m = to \/ ~Listed(catalogue, m, r, c))
            /\ m # to => Content(job', Store, csv, m, r, c) = Store[m]
        <5>1. job'.op \in {"compute", "result"} /\ job'.op # "result"
            BY <1>4, <3>3
        <5>2. /\ Present(job', catalogue, DimOf(job', catalogue', csv), m, r, c) <=>
                     IF m = job'.to
                     THEN <<r, c>> \in Places(DimOf(job', catalogue', csv)) /\ (job'.op = "result" \/ OverPair(job', r, c))
                     ELSE Listed(catalogue, m, r, c)
              /\ m # job'.to => Content(job', Store, csv, m, r, c) = Store[m]
            BY <5>1, ComputeForm
        <5> QED BY <1>4, <3>2, <5>1, <5>2, Zenon
      <4> QED BY <3>1, <4>1, <4>2
    <3>4. CASE op = "transpose"
      <4>1. /\ Present(job', catalogue', DimOf(job', catalogue', csv), m, r, c) <=> Listed(catalogue, m, r, c)
            /\ Content(job', Store, csv, m, r, c) = Store[m]
          BY <1>4, <3>2, <3>4, TransposeForm
      <4> QED BY <3>1, <4>1
    <3>5. CASE op = "symmetry"
      <4>1. /\ Present(job', catalogue', DimOf(job', catalogue', csv), m, r, c) <=> Listed(catalogue, m, r, c)
            /\ Content(job', Store, csv, m, r, c) = Store[m]
          BY <1>4, <3>5, RestForm
      <4> QED BY <3>1, <4>1
    <3> QED BY <3>3, <3>4, <3>5 DEF PairOps
  <2> QED BY <2>1, <2>2 DEF FilesAre
<1>13. Holds(job', catalogue', Store, csv, pageFile)
    BY <1>3, <1>5, <1>9, <1>11, <1>12 DEF Holds
<1> QED BY <1>2, <1>13, Began

LEMMA BeganLoad ==
    ASSUME MatricesInv, NEW n \in Names, LoadMatrix(n)
    PROVE  MatricesInv' /\ Store' = Store /\ StoreCsv' = StoreCsv
<1>1. /\ job = Idle /\ job.op = "none" /\ job' = [op |-> "load", name |-> n, to |-> n, row |-> 0, col |-> 0]
      /\ UNCHANGED <<csv, pageFile, catalogue, pool>> /\ Begin("load", n, n)
    BY DEF LoadMatrix, Begin, Idle
<1>2. job'.op = "load" /\ job'.name = n /\ job'.to = n /\ job'.row = 0 /\ job'.col = 0
    BY <1>1
<1>3. CsvIs(csv) /\ csv[n] # NoMatrix /\ n \in FileNames /\ catalogue[n] = 0
    BY DEF LoadMatrix, Free, Catalogued, FileNames, MatricesInv, Holds
<1>4. Side(csv[n]) \in Dims /\ csv[n] \in Squares(Side(csv[n]))
    BY <1>3, CsvIsSized
<1>5. StoreIs(Idle, catalogue, Store)
    BY <1>1, AtRest
<1>6. StoreIs(job', catalogue', Store)
    BY <1>1, <1>2, <1>5 DEF StoreIs, Idle
<1>7. DimOf(job', catalogue', csv) = Side(csv[n])
    BY <1>2 DEF DimOf
<1>8. Inside(job', Side(csv[n]))
  <2>1. PageCount(Side(csv[n])) \in Nat \ {0}
      BY <1>4, Counted, Constants
  <2> QED BY <1>2, <2>1 DEF Inside
<1>9. JobIs(job', catalogue', csv)
    BY <1>1, <1>2, <1>3, <1>4, <1>7, <1>8 DEF JobIs, PairOps
<1>10. MirroredSoFar(job', catalogue', Store)
    BY <1>2 DEF MirroredSoFar
<1>11. FilesAre(job', catalogue', Store, csv, pageFile)
  <2>1. DOMAIN pageFile \subseteq Triples
      BY <1>1, AtRest
  <2>2. ASSUME NEW m \in FileNames, NEW r \in Nat, NEW c \in Nat
        PROVE  /\ <<m, r, c>> \in DOMAIN pageFile <=> Present(job', catalogue', DimOf(job', catalogue', csv), m, r, c)
               /\ <<m, r, c>> \in DOMAIN pageFile
                    => pageFile[<<m, r, c>>] = PageOf(Content(job', Store, csv, m, r, c), r, c)
    <3>1. /\ <<m, r, c>> \in DOMAIN pageFile <=> Listed(catalogue, m, r, c)
          /\ <<m, r, c>> \in DOMAIN pageFile => pageFile[<<m, r, c>>] = PageOf(Store[m], r, c)
        BY <1>1, AtRest
    <3>2. ~Over(job', c, r)
        BY <1>2, NothingOver
    <3>3. m = n => ~Listed(catalogue, m, r, c)
        BY <1>3 DEF Listed
    <3>4. /\ Present(job', catalogue, DimOf(job', catalogue', csv), m, r, c) <=>
                 IF m = job'.to THEN <<r, c>> \in Places(DimOf(job', catalogue', csv)) /\ Over(job', c, r)
                 ELSE Listed(catalogue, m, r, c)
          /\ Content(job', Store, csv, m, r, c) = IF m = job'.to THEN csv[job'.name] ELSE Store[m]
      <4>1. job'.op = "load"
          BY <1>2
      <4>2. Present(job', catalogue, DimOf(job', catalogue', csv), m, r, c) <=>
                 IF m = job'.to THEN <<r, c>> \in Places(DimOf(job', catalogue', csv)) /\ Over(job', c, r)
                 ELSE Listed(catalogue, m, r, c)
          BY <4>1 DEF Present, Done, Makes
      <4>3. Content(job', Store, csv, m, r, c) = IF m = job'.to THEN csv[job'.name] ELSE Store[m]
          BY <4>1 DEF Content, Made, Makes
      <4> QED BY <4>2, <4>3
    <3> QED BY <1>1, <1>2, <3>1, <3>2, <3>3, <3>4, Zenon
  <2> QED BY <2>1, <2>2 DEF FilesAre
<1>12. Holds(job', catalogue', Store, csv, pageFile)
    BY <1>3, <1>6, <1>9, <1>10, <1>11 DEF Holds
<1> QED BY <1>1, <1>12, Began

\* RENAME changes the catalogue at once, and no page yet.
LEMMA BeganRename ==
    ASSUME MatricesInv, NEW n \in Names, NEW to \in Names, RenameMatrix(n, to)
    PROVE  MatricesInv' /\ Store' = Store /\ StoreCsv' = StoreCsv
<1>1. /\ job = Idle /\ job.op = "none" /\ job' = [op |-> "rename", name |-> n, to |-> to, row |-> 0, col |-> 0]
      /\ UNCHANGED <<csv, pageFile, pool>> /\ Begin("rename", n, to)
      /\ catalogue' = [[catalogue EXCEPT ![n] = 0] EXCEPT ![to] = catalogue[n]]
    BY DEF RenameMatrix, Begin, Idle
<1>2. job'.op = "rename" /\ job'.name = n /\ job'.to = to /\ job'.row = 0 /\ job'.col = 0
    BY <1>1
<1>3. catalogue[n] # 0 /\ catalogue[to] = 0 /\ n # to
    BY DEF RenameMatrix, Free, Catalogued
<1>4. StoreIs(Idle, catalogue, Store) /\ CsvIs(csv)
    BY <1>1, AtRest DEF MatricesInv, Holds
<1>5. catalogue \in [Names -> Dims \cup {0}] /\ catalogue[n] \in Dims
    BY <1>3, <1>4, StoreIsSized DEF StoreIs
<1>6. /\ catalogue' \in [Names -> Dims \cup {0}] /\ catalogue'[n] = 0 /\ catalogue'[to] = catalogue[n]
      /\ \A m \in Names : m # n /\ m # to => catalogue'[m] = catalogue[m]
    BY <1>1, <1>3, <1>5
<1>7. StoreIs(job', catalogue', Store)
  <2>1. \A m \in Names : SizeIs(Store, m, catalogue[m])
      BY <1>4 DEF StoreIs, Idle
  <2>2. Store = [m \in Names |-> Store[m]]
      BY <1>4 DEF StoreIs
  <2> QED BY <1>2, <1>3, <1>6, <2>1, <2>2 DEF StoreIs
<1>8. DimOf(job', catalogue', csv) = catalogue[n]
    BY <1>2, <1>6 DEF DimOf
<1>9. Inside(job', catalogue[n])
  <2>1. PageCount(catalogue[n]) \in Nat \ {0}
      BY <1>5, Counted, Constants
  <2> QED BY <1>2, <2>1 DEF Inside
<1>10. JobIs(job', catalogue', csv)
    BY <1>1, <1>2, <1>3, <1>5, <1>6, <1>8, <1>9 DEF JobIs, PairOps
<1>11. MirroredSoFar(job', catalogue', Store)
    BY <1>2 DEF MirroredSoFar
<1>12. FilesAre(job', catalogue', Store, csv, pageFile)
  <2>1. DOMAIN pageFile \subseteq Triples
      BY <1>1, AtRest
  <2>2. ASSUME NEW m \in FileNames, NEW r \in Nat, NEW c \in Nat
        PROVE  /\ <<m, r, c>> \in DOMAIN pageFile <=> Present(job', catalogue', DimOf(job', catalogue', csv), m, r, c)
               /\ <<m, r, c>> \in DOMAIN pageFile
                    => pageFile[<<m, r, c>>] = PageOf(Content(job', Store, csv, m, r, c), r, c)
    <3>1. /\ <<m, r, c>> \in DOMAIN pageFile <=> Listed(catalogue, m, r, c)
          /\ <<m, r, c>> \in DOMAIN pageFile => pageFile[<<m, r, c>>] = PageOf(Store[m], r, c)
        BY <1>1, AtRest
    <3>2. ~Over(job', r, c)
        BY <1>2, NothingOver
    <3>3. /\ m = to => ~Listed(catalogue, m, r, c)
          /\ m = n => (Listed(catalogue, m, r, c) <=> <<r, c>> \in Places(catalogue[n]))
          /\ m # n /\ m # to => (Listed(catalogue', m, r, c) <=> Listed(catalogue, m, r, c))
        BY <1>3, <1>6 DEF Listed
    <3>4. /\ Present(job', catalogue', catalogue[n], m, r, c) <=>
                 IF m = job'.to THEN <<r, c>> \in Places(catalogue[n]) /\ Over(job', r, c)
                 ELSE IF m = job'.name THEN <<r, c>> \in Places(catalogue[n]) /\ ~Over(job', r, c)
                 ELSE Listed(catalogue', m, r, c)
          /\ Content(job', Store, csv, m, r, c) = IF m = job'.to THEN Store[job'.name] ELSE Store[m]
      <4>1. job'.op = "rename" /\ job'.to # job'.name
          BY <1>2, <1>3
      <4> QED BY <4>1, RenameForm
    <3> QED BY <1>2, <1>8, <3>1, <3>2, <3>3, <3>4, Zenon
  <2> QED BY <2>1, <2>2 DEF FilesAre
<1>13. Holds(job', catalogue', Store, csv, pageFile)
    BY <1>4, <1>7, <1>10, <1>11, <1>12 DEF Holds
<1> QED BY <1>1, <1>13, Began

-----------------------------------------------------------------------------
(* The end of a command *)

LEMMA RestHolds ==
    ASSUME NEW sizes, NEW S, NEW F, NEW files, CsvIs(F), StoreIs(Idle, sizes, S),
           DOMAIN files \subseteq Triples,
           \A n \in FileNames, r \in Nat, c \in Nat :
              /\ <<n, r, c>> \in DOMAIN files <=> Listed(sizes, n, r, c)
              /\ <<n, r, c>> \in DOMAIN files => files[<<n, r, c>>] = PageOf(S[n], r, c)
    PROVE  Holds(Idle, sizes, S, F, files)
<1>1. Idle.op = "none"
    BY DEF Idle
<1>2. Idle = [op |-> Idle.op, name |-> Idle.name, to |-> Idle.to, row |-> Idle.row, col |-> Idle.col]
    BY DEF Idle
<1>3. JobIs(Idle, sizes, F)
    BY <1>1, <1>2 DEF JobIs, PairOps
<1>4. MirroredSoFar(Idle, sizes, S)
    BY <1>1 DEF MirroredSoFar
<1>5. FilesAre(Idle, sizes, S, F, files)
  <2>1. ASSUME NEW n \in FileNames, NEW r \in Nat, NEW c \in Nat
        PROVE  /\ <<n, r, c>> \in DOMAIN files <=> Present(Idle, sizes, DimOf(Idle, sizes, F), n, r, c)
               /\ <<n, r, c>> \in DOMAIN files => files[<<n, r, c>>] = PageOf(Content(Idle, S, F, n, r, c), r, c)
    <3>1. /\ Present(Idle, sizes, DimOf(Idle, sizes, F), n, r, c) <=> Listed(sizes, n, r, c)
          /\ Content(Idle, S, F, n, r, c) = S[n]
        BY <1>1, RestForm
    <3> QED BY <3>1
  <2> QED BY <2>1 DEF FilesAre
<1> QED BY <1>3, <1>4, <1>5 DEF Holds

\* The store is then what the files hold.
LEMMA Ended ==
    ASSUME job' = Idle, NEW S, Holds(Idle, catalogue', S, csv', pageFile'), PoolIs(pool')
    PROVE  MatricesInv' /\ Store' = S /\ StoreCsv' = csv'
<1>1. StoreIs(Idle, catalogue', S) /\ FilesAre(Idle, catalogue', S, csv', pageFile')
    BY DEF Holds
<1>2. Held' = S
  <2> DEFINE blank == [cell \in PageCells |-> CHOOSE junk \in Uninitialised : TRUE]
  <2>1. Held' = HeldIn(catalogue', pageFile', blank)
      BY DEF Held, HeldIn, FilePage, FileRead
  <2> HIDE DEF blank
  <2>2. HeldIn(catalogue', pageFile', blank) = S
      BY <1>1, HeldIs
  <2> QED BY <2>1, <2>2
<1>3. Store' = S /\ StoreCsv' = csv'
    BY <1>2 DEF Store, StoreCsv
<1> QED BY <1>3 DEF MatricesInv

LEMMA Continued ==
    ASSUME MatricesInv, job # Idle, job' # Idle, before' = before, csv' = csv, PoolIs(pool'),
           Holds(job', catalogue', Store, csv, pageFile')
    PROVE  MatricesInv' /\ Store' = Store /\ StoreCsv' = StoreCsv
BY DEF MatricesInv, Store, StoreCsv

\* makePermanent and print get the matrix, or its first rows and columns.
LEMMA Shown ==
    ASSUME MatricesInv, job = Idle, NEW n \in Catalogued, NEW shown \in 1 .. catalogue[n], NEW junk
    PROVE  ReadMatrix(n, shown, junk) = Cut(Store[n], shown)
<1>1. job.op = "none"
    BY DEF Idle
<1>2. n \in Names /\ n \in FileNames /\ catalogue[n] # 0
    BY DEF Catalogued, FileNames
<1>3. catalogue[n] \in Nat \ {0} /\ Store[n] \in Squares(catalogue[n])
    BY <1>1, <1>2, AtRest, StoreIsSized
<1>4. PageCount(shown) \in Nat \ {0} /\ PageCount(shown) <= PageCount(catalogue[n])
  <2>1. shown \in Nat \ {0} /\ shown + matrixDims - 1 \in Nat /\ shown <= catalogue[n] /\ catalogue[n] + matrixDims - 1 \in Nat
      BY <1>3, Constants
  <2>2. matrixDims \in Nat \ {0} /\ PageCount(shown) \in Nat \ {0}
      BY <2>1, Counted, Constants
  <2>3. \A x, y \in Nat, d \in Nat \ {0} : x <= y => x \div d <= y \div d
      OBVIOUS
  <2>4. shown + matrixDims - 1 <= catalogue[n] + matrixDims - 1
      BY <2>1, <2>2, <1>3
  <2> QED BY <2>1, <2>2, <2>3, <2>4 DEF PageCount
<1>5. ASSUME NEW r \in 0 .. PageCount(shown) - 1, NEW c \in 0 .. PageCount(shown) - 1
      PROVE  GetMatrix(<<n, r, c>>, junk) = PageOf(Store[n], r, c)
  <2>1. r \in Nat /\ c \in Nat
      BY <1>4
  <2>2. <<r, c>> \in Places(catalogue[n])
      BY <1>3, <1>4, Counted DEF Places
  <2>3. <<n, r, c>> \in DOMAIN pageFile /\ pageFile[<<n, r, c>>] = PageOf(Store[n], r, c)
    <3>1. Listed(catalogue, n, r, c)
        BY <1>2, <2>2 DEF Listed
    <3> QED BY <1>1, <1>2, <2>1, <3>1, AtRest
  <2>4. GetMatrix(<<n, r, c>>, junk) = FileRead(<<n, r, c>>, junk)
      BY ReadsFile DEF MatricesInv
  <2> QED BY <2>3, <2>4 DEF FileRead
<1> DEFINE page == [place \in Places(shown) |-> GetMatrix(<<n, place[1], place[2]>>, junk)]
<1>6. \A place \in Places(shown) : page[place] = PageOf(Store[n], place[1], place[2])
    BY <1>5 DEF Places
<1>7. ReadMatrix(n, shown, junk) = Assembled(page, shown)
    BY DEF ReadMatrix
<1> HIDE DEF page
<1>8. Assembled(page, shown) = Cut(Store[n], shown)
    BY <1>3, <1>6, Reassembled
<1> QED BY <1>7, <1>8

LEMMA WholeCut ==
    ASSUME NEW dim, NEW M \in Squares(dim)
    PROVE  Cut(M, dim) = M
BY DEF Cut, Squares

\* print shows the corner.
LEMMA CornerCut ==
    ASSUME NEW dim \in Nat \ {0}, NEW M \in Squares(dim)
    PROVE  Cut(M, IF dim < PRINT_COUNT THEN dim ELSE PRINT_COUNT) = Promised!Corner(M)
<1> DEFINE shown == IF dim < PRINT_COUNT THEN dim ELSE PRINT_COUNT
<1>1. DOMAIN M = (1 .. dim) \X (1 .. dim)
    BY DEF Squares
<1>2. {c \in DOMAIN M : c[1] <= PRINT_COUNT /\ c[2] <= PRINT_COUNT} = (1 .. shown) \X (1 .. shown)
    BY <1>1, Constants
<1> HIDE DEF shown
<1>3. Promised!Corner(M) = [cell \in (1 .. shown) \X (1 .. shown) |-> M[cell]]
    BY <1>2 DEF Promised!Corner
<1> QED BY <1>3 DEF Cut, shown

\* The pages they read are finitely many.
LEMMA ReadsAreFinite ==
    ASSUME NEW n, NEW rows \in Nat \ {0}, NEW columns \in Nat \ {0}
    PROVE  /\ RowReads(n, rows, columns) \in Seq({n} \X Int \X Int)
           /\ PageReads(n, columns) \in Seq({n} \X Int \X Int)
<1>1. PageCount(columns) \in Nat \ {0}
    BY Counted
<1>2. rows * PageCount(columns) \in Nat /\ PageCount(columns) * PageCount(columns) \in Nat
    BY <1>1
<1> DEFINE k == PageCount(columns)
<1> HIDE DEF k
<1>3. \A i \in Nat \ {0} : /\ (i - 1) \div k \in Int /\ (i - 1) % k \in Int
                           /\ ((i - 1) \div k) \div matrixDims \in Int
    BY <1>1, Constants DEF k
<1>4. RowReads(n, rows, columns) =
          [i \in 1 .. rows * k |-> <<n, ((i - 1) \div k) \div matrixDims, (i - 1) % k>>]
    BY DEF RowReads, k
<1>5. PageReads(n, columns) = [i \in 1 .. k * k |-> <<n, (i - 1) \div k, (i - 1) % k>>]
    BY DEF PageReads, k
<1>6. \A m \in Nat : /\ [i \in 1 .. m |-> <<n, ((i - 1) \div k) \div matrixDims, (i - 1) % k>>] \in [1 .. m -> {n} \X Int \X Int]
                     /\ [i \in 1 .. m |-> <<n, (i - 1) \div k, (i - 1) % k>>] \in [1 .. m -> {n} \X Int \X Int]
    BY <1>3
<1>7. \A m \in Nat : [1 .. m -> {n} \X Int \X Int] \subseteq Seq({n} \X Int \X Int)
    OBVIOUS
<1>8. rows * k \in Nat /\ k * k \in Nat
    BY <1>2 DEF k
<1>9. RowReads(n, rows, columns) \in [1 .. rows * k -> {n} \X Int \X Int]
    BY <1>4, <1>6, <1>8
<1>10. PageReads(n, columns) \in [1 .. k * k -> {n} \X Int \X Int]
    BY <1>5, <1>6, <1>8
<1> QED BY <1>7, <1>8, <1>9, <1>10

-----------------------------------------------------------------------------
(* EXPORT and PRINT *)

\* A catalogued matrix, between commands.
LEMMA StoredMatrix ==
    ASSUME MatricesInv, job = Idle, NEW n \in Catalogued
    PROVE  /\ n \in Names /\ n \in FileNames /\ catalogue[n] \in Dims
           /\ Store[n] \in Squares(catalogue[n]) /\ n \in Promised!Stored
<1>1. job.op = "none"
    BY DEF Idle
<1>2. n \in Names /\ n \in FileNames /\ catalogue[n] # 0
    BY DEF Catalogued, FileNames
<1>3. catalogue[n] \in Dims /\ Store[n] \in Squares(catalogue[n]) /\ Store[n] # NoMatrix
    BY <1>1, <1>2, AtRest, StoreIsSized
<1> QED BY <1>2, <1>3 DEF Promised!Stored, Store

\* A matrix into a .csv file.
LEMMA CsvExcept ==
    ASSUME NEW F, CsvIs(F), NEW n \in FileNames, NEW dim \in Dims, NEW M \in Squares(dim)
    PROVE  CsvIs([F EXCEPT ![n] = M])
BY DEF CsvIs

LEMMA ExportStep ==
    ASSUME MatricesInv, NEW n \in Names, ExportMatrix(n)
    PROVE  MatricesInv' /\ Promised!Next
<1>1. /\ job = Idle /\ job' = Idle /\ job.op = "none" /\ n \in Catalogued
      /\ UNCHANGED <<pageFile, catalogue, answer>>
    BY DEF ExportMatrix, Idle
<1>2. PICK junk \in Uninitialised :
          /\ csv' = [csv EXCEPT ![n] = ReadMatrix(n, catalogue[n], junk)]
          /\ pool' = PoolAfter(RowReads(n, catalogue[n], catalogue[n]), junk)
    BY DEF ExportMatrix
<1>3. /\ n \in FileNames /\ catalogue[n] \in Dims /\ catalogue[n] \in Nat \ {0}
      /\ Store[n] \in Squares(catalogue[n]) /\ n \in Promised!Stored
    BY <1>1, StoredMatrix, Constants
<1>4. ReadMatrix(n, catalogue[n], junk) = Store[n]
  <2>1. catalogue[n] \in 1 .. catalogue[n]
      BY <1>3
  <2> QED BY <1>1, <1>3, <2>1, Shown, WholeCut
<1>5. csv' = [csv EXCEPT ![n] = Store[n]]
    BY <1>2, <1>4
<1>6. PoolIs(pool')
  <2>1. Len(RowReads(n, catalogue[n], catalogue[n])) \in Nat
      BY <1>3, ReadsAreFinite
  <2> QED BY <1>2, <2>1, PoolAfterIs DEF MatricesInv
<1>7. CsvIs(csv')
    BY <1>3, <1>5, CsvExcept DEF MatricesInv, Holds
<1>8. Holds(Idle, catalogue', Store, csv', pageFile')
  <2>1. StoreIs(Idle, catalogue, Store)
      BY <1>1, AtRest
  <2>2. /\ DOMAIN pageFile \subseteq Triples
        /\ \A m \in FileNames, r \in Nat, c \in Nat :
              /\ <<m, r, c>> \in DOMAIN pageFile <=> Listed(catalogue, m, r, c)
              /\ <<m, r, c>> \in DOMAIN pageFile => pageFile[<<m, r, c>>] = PageOf(Store[m], r, c)
      BY <1>1, AtRest
  <2>3. Holds(Idle, catalogue, Store, csv', pageFile)
      BY <1>7, <2>1, <2>2, RestHolds
  <2> QED BY <1>1, <2>3
<1>9. MatricesInv' /\ Store' = Store /\ StoreCsv' = csv'
    BY <1>1, <1>6, <1>8, Ended
<1>10. StoreCsv' = [StoreCsv EXCEPT ![n] = Store[n]] /\ Store' = Store /\ answer' = answer
    BY <1>1, <1>5, <1>9 DEF StoreCsv
<1>11. Promised!Export(n)
    BY <1>10 DEF Promised!Export, Store, StoreCsv
<1> QED BY <1>3, <1>9, <1>11 DEF Promised!Next

LEMMA PrintStep ==
    ASSUME MatricesInv, NEW n \in Names, PrintMatrix(n)
    PROVE  MatricesInv' /\ Promised!Next
<1> DEFINE shown == IF catalogue[n] < PRINT_COUNT THEN catalogue[n] ELSE PRINT_COUNT
<1>1. /\ job = Idle /\ job' = Idle /\ job.op = "none" /\ n \in Catalogued
      /\ UNCHANGED <<csv, pageFile, catalogue>>
    BY DEF PrintMatrix, Idle
<1>2. PICK junk \in Uninitialised :
          /\ answer' = <<"printed", ReadMatrix(n, shown, junk)>>
          /\ pool' = PoolAfter(RowReads(n, shown, shown), junk)
    BY DEF PrintMatrix
<1>3. /\ n \in FileNames /\ catalogue[n] \in Dims /\ catalogue[n] \in Nat \ {0}
      /\ Store[n] \in Squares(catalogue[n]) /\ n \in Promised!Stored
    BY <1>1, StoredMatrix, Constants
<1>4. shown \in 1 .. catalogue[n] /\ shown \in Nat \ {0}
    BY <1>3, Constants
<1>5. Cut(Store[n], shown) = Promised!Corner(Store[n])
    BY <1>3, CornerCut
<1> HIDE DEF shown
<1>6. ReadMatrix(n, shown, junk) = Promised!Corner(Store[n])
    BY <1>1, <1>4, <1>5, Shown
<1>7. PoolIs(pool')
  <2>1. Len(RowReads(n, shown, shown)) \in Nat
      BY <1>4, ReadsAreFinite
  <2> QED BY <1>2, <2>1, PoolAfterIs DEF MatricesInv
<1>8. Holds(Idle, catalogue', Store, csv', pageFile')
  <2>1. Holds(Idle, catalogue, Store, csv, pageFile)
      BY <1>1 DEF MatricesInv
  <2> QED BY <1>1, <2>1
<1>9. MatricesInv' /\ Store' = Store /\ StoreCsv' = csv'
    BY <1>1, <1>7, <1>8, Ended
<1>10. StoreCsv' = StoreCsv /\ Store' = Store /\ answer' = <<"printed", Promised!Corner(Store[n])>>
    BY <1>1, <1>2, <1>6, <1>9 DEF StoreCsv
<1>11. Promised!Show(n)
    BY <1>10 DEF Promised!Show, Store, StoreCsv
<1> QED BY <1>3, <1>9, <1>11 DEF Promised!Next

-----------------------------------------------------------------------------
(* One step of a command *)

OnePage(t, page) == [name \in {t} |-> page]

LEMMA WriteOneNames ==
    ASSUME NEW files, NEW t, NEW page
    PROVE  DOMAIN Write(files, OnePage(t, page)) = DOMAIN files \cup {t}
BY DEF Write, OnePage

LEMMA WriteOne ==
    ASSUME NEW files, NEW t, NEW page
    PROVE  /\ Write(files, OnePage(t, page))[t] = page
           /\ \A x \in DOMAIN files : x # t => Write(files, OnePage(t, page))[x] = files[x]
BY DEF Write, OnePage

\* Two pages, or one on the diagonal.
LEMMA WritePairNames ==
    ASSUME NEW files, NEW n, NEW page, NEW opposite
    PROVE  DOMAIN Write(files, Pair(n, page, opposite)) = DOMAIN files \cup {This(n), Opposite(n)}
BY DEF Write, Pair

LEMMA WritePair ==
    ASSUME NEW files, NEW n, NEW page, NEW opposite
    PROVE  /\ Write(files, Pair(n, page, opposite))[This(n)] = page
           /\ Opposite(n) # This(n) => Write(files, Pair(n, page, opposite))[Opposite(n)] = opposite
           /\ \A x \in DOMAIN files : x # This(n) /\ x # Opposite(n) =>
                 Write(files, Pair(n, page, opposite))[x] = files[x]
<1>1. DOMAIN Pair(n, page, opposite) = {This(n), Opposite(n)}
    BY DEF Pair
<1>2. /\ Pair(n, page, opposite)[This(n)] = page
      /\ Opposite(n) # This(n) => Pair(n, page, opposite)[Opposite(n)] = opposite
    BY DEF Pair
<1> QED BY <1>1, <1>2 DEF Write

\* The job record of the next step.
LEMMA NextPageIs ==
    ASSUME MatricesInv, job.op # "none", NEW count \in Nat \ {0},
           job.row \in 0 .. count - 1, job.col \in 0 .. count - 1, NextPage(count)
    PROVE  \/ /\ job' # Idle
              /\ job' = [op |-> job.op, name |-> job.name, to |-> job.to, row |-> job'.row, col |-> job'.col]
              /\ \/ job.col + 1 < count /\ job'.row = job.row /\ job'.col = job.col + 1
                 \/ ~(job.col + 1 < count) /\ job.row + 1 < count /\ job'.row = job.row + 1 /\ job'.col = 0
           \/ job' = Idle /\ ~(job.col + 1 < count) /\ ~(job.row + 1 < count)
<1>1. job = [op |-> job.op, name |-> job.name, to |-> job.to, row |-> job.row, col |-> job.col]
    BY DEF MatricesInv, Holds, JobIs
<1>2. Idle.op = "none"
    BY DEF Idle
<1>3. CASE job.col + 1 < count
  <2>1. job' = [op |-> job.op, name |-> job.name, to |-> job.to, row |-> job.row, col |-> job.col + 1]
      BY <1>1, <1>3 DEF NextPage
  <2>2. job'.op = job.op
      BY <2>1
  <2>3. job' # Idle
      BY <1>2, <2>2
  <2> QED BY <1>3, <2>1, <2>3
<1>4. CASE ~(job.col + 1 < count) /\ job.row + 1 < count
  <2>1. job' = [op |-> job.op, name |-> job.name, to |-> job.to, row |-> job.row + 1, col |-> 0]
      BY <1>1, <1>4 DEF NextPage
  <2>2. job'.op = job.op
      BY <2>1
  <2>3. job' # Idle
      BY <1>2, <2>2
  <2> QED BY <1>4, <2>1, <2>3
<1>5. CASE ~(job.col + 1 < count) /\ ~(job.row + 1 < count)
    BY <1>5 DEF NextPage
<1> QED BY <1>3, <1>4, <1>5

LEMMA NextPairIs ==
    ASSUME MatricesInv, job.op # "none", NEW count \in Nat \ {0}, job' = NextPair(count)
    PROVE  /\ job' # Idle
           /\ job' = [op |-> job.op, name |-> job.name, to |-> job.to, row |-> job'.row, col |-> job'.col]
           /\ \/ job.col + 1 < count /\ job'.row = job.row /\ job'.col = job.col + 1
              \/ ~(job.col + 1 < count) /\ job'.row = job.row + 1 /\ job'.col = job.row + 1
<1>1. job = [op |-> job.op, name |-> job.name, to |-> job.to, row |-> job.row, col |-> job.col]
    BY DEF MatricesInv, Holds, JobIs
<1>2. Idle.op = "none"
    BY DEF Idle
<1>3. CASE job.col + 1 < count
  <2>1. job' = [op |-> job.op, name |-> job.name, to |-> job.to, row |-> job.row, col |-> job.col + 1]
      BY <1>1, <1>3 DEF NextPair
  <2>2. job'.op = job.op
      BY <2>1
  <2>3. job' # Idle
      BY <1>2, <2>2
  <2> QED BY <1>3, <2>1, <2>3
<1>4. CASE ~(job.col + 1 < count)
  <2>1. job' = [op |-> job.op, name |-> job.name, to |-> job.to, row |-> job.row + 1, col |-> job.row + 1]
      BY <1>1, <1>4 DEF NextPair
  <2>2. job'.op = job.op
      BY <2>1
  <2>3. job' # Idle
      BY <1>2, <2>2
  <2> QED BY <1>4, <2>1, <2>3
<1> QED BY <1>3, <1>4

\* A step that does not end the command is none of MatrixStore's.
LEMMA Unmoved ==
    ASSUME Store' = Store, StoreCsv' = StoreCsv, answer' = answer
    PROVE  UNCHANGED Promised!vars
BY DEF Promised!vars, Store, StoreCsv

LEMMA LoadStep ==
    ASSUME MatricesInv, LoadPage, before' = IF job' = Idle THEN NoMatrix ELSE before
    PROVE  MatricesInv' /\ (Promised!Next \/ UNCHANGED Promised!vars)
<1> DEFINE n == job.name
           dim == Side(csv[n])
           count == PageCount(dim)
<1>1. /\ job.op = "load" /\ job.op # "none" /\ job.op # "rename" /\ job.op # "symmetry" /\ job # Idle
      /\ UNCHANGED <<csv, pool, answer>>
  <2>1. job.op = "load" /\ UNCHANGED <<csv, pool, answer>>
      BY DEF LoadPage
  <2>2. Idle.op = "none"
      BY DEF Idle
  <2> QED BY <2>1, <2>2
<1>2. /\ DimOf(job, catalogue, csv) = dim /\ n \in Names /\ n \in FileNames /\ job.to = n /\ catalogue[n] = 0
      /\ dim \in Dims /\ csv[n] \in Squares(dim) /\ Inside(job, dim) /\ CsvIs(csv)
    BY <1>1 DEF MatricesInv, Holds, JobIs, DimOf, FileNames
<1>3. dim \in Nat \ {0} /\ count \in Nat \ {0} /\ job.row \in 0 .. count - 1 /\ job.col \in 0 .. count - 1
    BY <1>2, Counted, Constants DEF Inside
<1>4. /\ pageFile' = Write(pageFile, OnePage(<<n, job.col, job.row>>, PageOf(csv[n], job.col, job.row)))
      /\ NextPage(count)
      /\ catalogue' = IF job' = Idle THEN [catalogue EXCEPT ![n] = dim] ELSE catalogue
    BY DEF LoadPage, Opposite, OnePage
<1> HIDE DEF dim, count
<1>5. DOMAIN pageFile \subseteq Triples
      /\ \A m \in FileNames, r \in Nat, c \in Nat :
            /\ <<m, r, c>> \in DOMAIN pageFile <=>
                 IF m = n THEN <<r, c>> \in Places(dim) /\ Over(job, c, r) ELSE Listed(catalogue, m, r, c)
            /\ <<m, r, c>> \in DOMAIN pageFile =>
                 pageFile[<<m, r, c>>] = PageOf(IF m = n THEN csv[n] ELSE Store[m], r, c)
  <2>1. FilesAre(job, catalogue, Store, csv, pageFile)
      BY DEF MatricesInv, Holds
  <2>2. ASSUME NEW m \in FileNames, NEW r \in Nat, NEW c \in Nat
        PROVE  /\ Present(job, catalogue, dim, m, r, c) <=>
                    IF m = n THEN <<r, c>> \in Places(dim) /\ Over(job, c, r) ELSE Listed(catalogue, m, r, c)
               /\ Content(job, Store, csv, m, r, c) = IF m = n THEN csv[n] ELSE Store[m]
    <3>1. /\ Present(job, catalogue, dim, m, r, c) <=>
               IF m = job.to THEN <<r, c>> \in Places(dim) /\ Over(job, c, r) ELSE Listed(catalogue, m, r, c)
          /\ Content(job, Store, csv, m, r, c) = IF m = job.to THEN csv[job.name] ELSE Store[m]
        BY <1>1, LoadForm
    <3> QED BY <1>2, <3>1
  <2> QED BY <1>2, <2>1, <2>2 DEF FilesAre
<1>6. DOMAIN pageFile' \subseteq Triples
      /\ \A m \in FileNames, r \in Nat, c \in Nat :
            /\ <<m, r, c>> \in DOMAIN pageFile' <=> <<m, r, c>> \in DOMAIN pageFile \/ (m = n /\ r = job.col /\ c = job.row)
            /\ <<m, r, c>> \in DOMAIN pageFile' =>
                 pageFile'[<<m, r, c>>] = PageOf(IF m = n THEN csv[n] ELSE Store[m], r, c)
  <2>1. DOMAIN pageFile' = DOMAIN pageFile \cup {<<n, job.col, job.row>>}
        /\ pageFile'[<<n, job.col, job.row>>] = PageOf(csv[n], job.col, job.row)
        /\ \A x \in DOMAIN pageFile : x # <<n, job.col, job.row>> => pageFile'[x] = pageFile[x]
    <3> DEFINE t == <<n, job.col, job.row>>
               page == PageOf(csv[n], job.col, job.row)
    <3>1. pageFile' = Write(pageFile, OnePage(t, page))
        BY <1>4
    <3> HIDE DEF t, page
    <3>2. DOMAIN pageFile' = DOMAIN pageFile \cup {t}
        BY <3>1, WriteOneNames
    <3>3. pageFile'[t] = page /\ \A x \in DOMAIN pageFile : x # t => pageFile'[x] = pageFile[x]
        BY <3>1, WriteOne
    <3> QED BY <3>2, <3>3 DEF t, page
  <2>2. <<n, job.col, job.row>> \in Triples
      BY <1>2, <1>3 DEF Triples
  <2> QED BY <1>5, <2>1, <2>2
<1>7. \A r, c : <<r, c>> \in Places(dim) <=> r \in 0 .. count - 1 /\ c \in 0 .. count - 1
    BY DEF Places, count
<1>8. PoolIs(pool') /\ CsvIs(csv')
    BY <1>1, <1>2 DEF MatricesInv
<1>9. CASE /\ job' # Idle
           /\ job' = [op |-> job.op, name |-> job.name, to |-> job.to, row |-> job'.row, col |-> job'.col]
           /\ \/ job.col + 1 < count /\ job'.row = job.row /\ job'.col = job.col + 1
              \/ ~(job.col + 1 < count) /\ job.row + 1 < count /\ job'.row = job.row + 1 /\ job'.col = 0
  <2>1. /\ job'.row \in 0 .. count - 1 /\ job'.col \in 0 .. count - 1
        /\ \A r, c \in 0 .. count - 1 : Over(job', r, c) <=> Over(job, r, c) \/ (r = job.row /\ c = job.col)
      BY <1>3, <1>9, PageStep
  <2>2. catalogue' = catalogue /\ before' = before
      BY <1>4, <1>9
  <2>3. job'.op = "load" /\ job'.name = n /\ job'.to = n /\ job'.to = job'.name
      BY <1>1, <1>2, <1>9
  <2>4. DimOf(job', catalogue', csv) = dim
      BY <1>2, <2>3 DEF DimOf, dim
  <2>5. StoreIs(job', catalogue', Store)
      BY <1>1, <2>2, <2>3 DEF MatricesInv, Holds, StoreIs
  <2>6. Inside(job', dim)
      BY <2>1 DEF Inside, count
  <2>7. JobIs(job', catalogue', csv)
      BY <1>2, <1>9, <2>2, <2>3, <2>4, <2>6 DEF JobIs, PairOps
  <2>8. MirroredSoFar(job', catalogue', Store)
      BY <2>3 DEF MirroredSoFar
  <2>9. FilesAre(job', catalogue', Store, csv, pageFile')
    <3>1. ASSUME NEW m \in FileNames, NEW r \in Nat, NEW c \in Nat
          PROVE  /\ <<m, r, c>> \in DOMAIN pageFile' <=> Present(job', catalogue', dim, m, r, c)
                 /\ Content(job', Store, csv, m, r, c) = IF m = n THEN csv[n] ELSE Store[m]
      <4>1. job'.op = "load"
          BY <2>3
      <4>2. /\ Present(job', catalogue', dim, m, r, c) <=>
                 IF m = job'.to THEN <<r, c>> \in Places(dim) /\ Over(job', c, r) ELSE Listed(catalogue', m, r, c)
            /\ Content(job', Store, csv, m, r, c) = IF m = job'.to THEN csv[job'.name] ELSE Store[m]
          BY <4>1, LoadForm
      <4>3. /\ Present(job', catalogue', dim, m, r, c) <=>
                 IF m = n THEN <<r, c>> \in Places(dim) /\ Over(job', c, r) ELSE Listed(catalogue, m, r, c)
            /\ Content(job', Store, csv, m, r, c) = IF m = n THEN csv[n] ELSE Store[m]
          BY <2>2, <2>3, <4>2
      <4>4. <<r, c>> \in Places(dim) /\ Over(job', c, r) <=>
               (<<r, c>> \in Places(dim) /\ Over(job, c, r)) \/ (r = job.col /\ c = job.row)
          BY <1>3, <1>7, <2>1
      <4> QED BY <1>5, <1>6, <4>3, <4>4
    <3> QED BY <1>6, <2>4, <3>1 DEF FilesAre
  <2>10. Holds(job', catalogue', Store, csv, pageFile')
      BY <1>2, <2>5, <2>7, <2>8, <2>9 DEF Holds
  <2>11. MatricesInv' /\ Store' = Store /\ StoreCsv' = StoreCsv
      BY <1>1, <1>8, <1>9, <2>2, <2>10, Continued
  <2> QED BY <1>1, <2>11, Unmoved
<1>10. CASE job' = Idle /\ ~(job.col + 1 < count) /\ ~(job.row + 1 < count)
  <2> DEFINE S == [Store EXCEPT ![n] = csv[n]]
  <2>1. \A r, c \in 0 .. count - 1 : Over(job, r, c) \/ (r = job.row /\ c = job.col)
      BY <1>3, <1>10, LastPage
  <2>2. catalogue' = [catalogue EXCEPT ![n] = dim]
      BY <1>4, <1>10
  <2>3. /\ catalogue \in [Names -> Dims \cup {0}] /\ Store = [m \in Names |-> Store[m]]
        /\ \A m \in Names : SizeIs(Store, m, catalogue[m])
      BY <1>1 DEF MatricesInv, Holds, StoreIs
  <2>4. /\ S[n] = csv[n] /\ S = [m \in Names |-> S[m]]
        /\ \A m \in Names : m # n => S[m] = Store[m]
      BY <1>2, <2>3
  <2>5. /\ catalogue' \in [Names -> Dims \cup {0}] /\ catalogue'[n] = dim
        /\ \A m \in Names : m # n => catalogue'[m] = catalogue[m]
      BY <1>2, <2>2, <2>3
  <2> HIDE DEF S
  <2>6. StoreIs(Idle, catalogue', S)
    <3>1. ASSUME NEW m \in Names PROVE SizeIs(S, m, catalogue'[m])
      <4>1. CASE m = n
          BY <1>2, <1>3, <2>4, <2>5, <4>1 DEF SizeIs
      <4>2. CASE m # n
          BY <2>3, <2>4, <2>5, <4>2 DEF SizeIs
      <4> QED BY <4>1, <4>2
    <3> QED BY <2>4, <2>5, <3>1 DEF StoreIs, Idle
  <2>7. ASSUME NEW m \in FileNames, NEW r \in Nat, NEW c \in Nat
        PROVE  /\ <<m, r, c>> \in DOMAIN pageFile' <=> Listed(catalogue', m, r, c)
               /\ <<m, r, c>> \in DOMAIN pageFile' => pageFile'[<<m, r, c>>] = PageOf(S[m], r, c)
    <3>1. CASE m = n
      <4>1. Listed(catalogue', m, r, c) <=> <<r, c>> \in Places(dim)
          BY <1>2, <1>3, <2>5, <3>1 DEF Listed
      <4>2. <<r, c>> \in Places(dim) <=> <<m, r, c>> \in DOMAIN pageFile'
          BY <1>3, <1>5, <1>6, <1>7, <2>1, <3>1
      <4> QED BY <1>6, <2>4, <3>1, <4>1, <4>2
    <3>2. CASE m # n
      <4>1. Listed(catalogue', m, r, c) <=> Listed(catalogue, m, r, c)
          BY <2>5, <3>2 DEF Listed
      <4>2. Listed(catalogue, m, r, c) => S[m] = Store[m]
          BY <2>4, <3>2 DEF Listed
      <4>3. <<m, r, c>> \in DOMAIN pageFile' <=> Listed(catalogue, m, r, c)
          BY <1>5, <1>6, <3>2
      <4>4. <<m, r, c>> \in DOMAIN pageFile' => pageFile'[<<m, r, c>>] = PageOf(Store[m], r, c)
          BY <1>6, <3>2
      <4> QED BY <4>1, <4>2, <4>3, <4>4, Zenon
    <3> QED BY <3>1, <3>2
  <2>8. Holds(Idle, catalogue', S, csv', pageFile')
      BY <1>6, <1>8, <2>6, <2>7, RestHolds
  <2>9. MatricesInv' /\ Store' = S /\ StoreCsv' = csv'
      BY <1>8, <1>10, <2>8, Ended
  <2>10. StoreCsv = csv /\ StoreCsv' = StoreCsv
      BY <1>1, <2>9 DEF MatricesInv, StoreCsv
  <2>11. csv[n] # NoMatrix
      BY <1>2 DEF Dims
  <2>12. Promised!Load(n)
      BY <1>1, <2>9, <2>10, <2>11 DEF Promised!Load, Store, StoreCsv, S
  <2> QED BY <1>2, <2>9, <2>12 DEF Promised!Next
<1> QED BY <1>1, <1>3, <1>4, <1>9, <1>10, NextPageIs

LEMMA UnlinkOne ==
    ASSUME NEW files, NEW t
    PROVE  /\ DOMAIN Unlink(files, {t}) = DOMAIN files \ {t}
           /\ \A x \in DOMAIN files : x # t => Unlink(files, {t})[x] = files[x]
BY DEF Unlink

LEMMA RenameStep ==
    ASSUME MatricesInv, RenamePage, before' = IF job' = Idle THEN NoMatrix ELSE before
    PROVE  MatricesInv' /\ (Promised!Next \/ UNCHANGED Promised!vars)
<1> DEFINE n == job.name
           to == job.to
           dim == catalogue[to]
           count == PageCount(dim)
<1>1. /\ job.op = "rename" /\ job.op # "none" /\ job.op # "load" /\ job # Idle
      /\ UNCHANGED <<csv, catalogue, answer>>
  <2>1. job.op = "rename" /\ UNCHANGED <<csv, catalogue, answer>>
      BY DEF RenamePage
  <2>2. Idle.op = "none"
      BY DEF Idle
  <2> QED BY <2>1, <2>2
<1>2. /\ DimOf(job, catalogue, csv) = dim /\ n \in Names /\ n \in FileNames /\ to \in Names /\ to \in FileNames
      /\ to # n /\ catalogue[n] = 0 /\ dim \in Dims /\ Inside(job, dim) /\ CsvIs(csv)
    BY <1>1 DEF MatricesInv, Holds, JobIs, DimOf, FileNames
<1>3. dim \in Nat \ {0} /\ count \in Nat \ {0} /\ job.row \in 0 .. count - 1 /\ job.col \in 0 .. count - 1
    BY <1>2, Counted, Constants DEF Inside
<1>4. PICK junk \in Uninitialised :
          /\ pageFile' = Write(Unlink(pageFile, {<<n, job.row, job.col>>}),
                               OnePage(<<to, job.row, job.col>>, GetMatrix(<<n, job.row, job.col>>, junk)))
          /\ pool' = PoolAfter(<<This(n)>>, junk)
    BY DEF RenamePage, This, OnePage
<1>5. NextPage(count)
    BY DEF RenamePage, Pages
<1> HIDE DEF dim, count
<1>6. DOMAIN pageFile \subseteq Triples
      /\ \A m \in FileNames, r \in Nat, c \in Nat :
            /\ <<m, r, c>> \in DOMAIN pageFile <=>
                 IF m = to THEN <<r, c>> \in Places(dim) /\ Over(job, r, c)
                 ELSE IF m = n THEN <<r, c>> \in Places(dim) /\ ~Over(job, r, c)
                 ELSE Listed(catalogue, m, r, c)
            /\ <<m, r, c>> \in DOMAIN pageFile =>
                 pageFile[<<m, r, c>>] = PageOf(IF m = to THEN Store[n] ELSE Store[m], r, c)
  <2>1. FilesAre(job, catalogue, Store, csv, pageFile)
      BY DEF MatricesInv, Holds
  <2>2. ASSUME NEW m \in FileNames, NEW r \in Nat, NEW c \in Nat
        PROVE  /\ Present(job, catalogue, dim, m, r, c) <=>
                    IF m = to THEN <<r, c>> \in Places(dim) /\ Over(job, r, c)
                    ELSE IF m = n THEN <<r, c>> \in Places(dim) /\ ~Over(job, r, c)
                    ELSE Listed(catalogue, m, r, c)
               /\ Content(job, Store, csv, m, r, c) = IF m = to THEN Store[n] ELSE Store[m]
      BY <1>1, <1>2, RenameForm
  <2> QED BY <1>2, <2>1, <2>2 DEF FilesAre
<1>7. \A r, c : <<r, c>> \in Places(dim) <=> r \in 0 .. count - 1 /\ c \in 0 .. count - 1
    BY DEF Places, count
<1>8. GetMatrix(<<n, job.row, job.col>>, junk) = PageOf(Store[n], job.row, job.col)
  <2>1. ~Over(job, job.row, job.col)
      BY <1>3 DEF Over
  <2>2. job.row \in Nat /\ job.col \in Nat /\ <<job.row, job.col>> \in Places(dim)
      BY <1>3, <1>7
  <2>3. <<n, job.row, job.col>> \in DOMAIN pageFile
        /\ pageFile[<<n, job.row, job.col>>] = PageOf(Store[n], job.row, job.col)
      BY <1>2, <1>6, <2>1, <2>2
  <2>4. GetMatrix(<<n, job.row, job.col>>, junk) = FileRead(<<n, job.row, job.col>>, junk)
      BY ReadsFile DEF MatricesInv
  <2> QED BY <2>3, <2>4 DEF FileRead
<1>9. DOMAIN pageFile' \subseteq Triples
      /\ \A m \in FileNames, r \in Nat, c \in Nat :
            /\ <<m, r, c>> \in DOMAIN pageFile' <=>
                  \/ <<m, r, c>> \in DOMAIN pageFile /\ ~(m = n /\ r = job.row /\ c = job.col)
                  \/ m = to /\ r = job.row /\ c = job.col
            /\ <<m, r, c>> \in DOMAIN pageFile' =>
                  pageFile'[<<m, r, c>>] = PageOf(IF m = to THEN Store[n] ELSE Store[m], r, c)
  <2> DEFINE old == <<n, job.row, job.col>>
             new == <<to, job.row, job.col>>
             page == PageOf(Store[n], job.row, job.col)
             rest == Unlink(pageFile, {old})
  <2>1. pageFile' = Write(rest, OnePage(new, page))
      BY <1>4, <1>8
  <2>2. new \in Triples
      BY <1>2, <1>3 DEF Triples
  <2> HIDE DEF old, new, page, rest
  <2>3. DOMAIN pageFile' = DOMAIN rest \cup {new}
      BY <2>1, WriteOneNames
  <2>4. pageFile'[new] = page /\ \A x \in DOMAIN rest : x # new => pageFile'[x] = rest[x]
      BY <2>1, WriteOne
  <2>5. DOMAIN rest = DOMAIN pageFile \ {old}
      BY UnlinkOne DEF rest
  <2>6. \A x \in DOMAIN pageFile : x # old => rest[x] = pageFile[x]
      BY UnlinkOne DEF rest
  <2>7. /\ DOMAIN pageFile' = (DOMAIN pageFile \ {old}) \cup {new}
        /\ \A x \in DOMAIN pageFile : x # old /\ x # new => pageFile'[x] = pageFile[x]
      BY <2>3, <2>4, <2>5, <2>6
  <2>8. DOMAIN pageFile' \subseteq Triples
      BY <1>6, <2>2, <2>7
  <2>9. ASSUME NEW m \in FileNames, NEW r \in Nat, NEW c \in Nat
        PROVE  /\ <<m, r, c>> \in DOMAIN pageFile' <=>
                     \/ <<m, r, c>> \in DOMAIN pageFile /\ ~(m = n /\ r = job.row /\ c = job.col)
                     \/ m = to /\ r = job.row /\ c = job.col
               /\ <<m, r, c>> \in DOMAIN pageFile' =>
                     pageFile'[<<m, r, c>>] = PageOf(IF m = to THEN Store[n] ELSE Store[m], r, c)
    <3>1. /\ <<m, r, c>> = old <=> m = n /\ r = job.row /\ c = job.col
          /\ <<m, r, c>> = new <=> m = to /\ r = job.row /\ c = job.col
        BY DEF old, new
    <3>2. CASE <<m, r, c>> = new
        BY <2>4, <2>7, <3>1, <3>2 DEF page
    <3>3. CASE <<m, r, c>> # new
      <4>1. <<m, r, c>> \in DOMAIN pageFile' <=> <<m, r, c>> \in DOMAIN pageFile /\ <<m, r, c>> # old
          BY <2>7, <3>3
      <4>2. <<m, r, c>> \in DOMAIN pageFile' => pageFile'[<<m, r, c>>] = pageFile[<<m, r, c>>]
          BY <2>7, <3>3, <4>1
      <4>3. <<m, r, c>> \in DOMAIN pageFile =>
               pageFile[<<m, r, c>>] = PageOf(IF m = to THEN Store[n] ELSE Store[m], r, c)
          BY <1>6
      <4>4. <<m, r, c>> \in DOMAIN pageFile' =>
               pageFile'[<<m, r, c>>] = PageOf(IF m = to THEN Store[n] ELSE Store[m], r, c)
          BY <4>1, <4>2, <4>3
      <4>5. <<m, r, c>> \in DOMAIN pageFile' <=>
               \/ <<m, r, c>> \in DOMAIN pageFile /\ ~(m = n /\ r = job.row /\ c = job.col)
               \/ m = to /\ r = job.row /\ c = job.col
          BY <3>1, <3>3, <4>1
      <4> QED BY <4>4, <4>5
    <3> QED BY <3>2, <3>3
  <2> QED BY <2>8, <2>9
<1>10. PoolIs(pool') /\ CsvIs(csv')
  <2>1. Len(<<This(n)>>) \in Nat
      OBVIOUS
  <2> QED BY <1>1, <1>2, <1>4, <2>1, PoolAfterIs DEF MatricesInv
<1>11. CASE /\ job' # Idle
            /\ job' = [op |-> job.op, name |-> job.name, to |-> job.to, row |-> job'.row, col |-> job'.col]
            /\ \/ job.col + 1 < count /\ job'.row = job.row /\ job'.col = job.col + 1
               \/ ~(job.col + 1 < count) /\ job.row + 1 < count /\ job'.row = job.row + 1 /\ job'.col = 0
  <2>1. /\ job'.row \in 0 .. count - 1 /\ job'.col \in 0 .. count - 1
        /\ \A r, c \in 0 .. count - 1 : Over(job', r, c) <=> Over(job, r, c) \/ (r = job.row /\ c = job.col)
      BY <1>3, <1>11, PageStep
  <2>2. before' = before
      BY <1>11
  <2>3. job'.op = "rename" /\ job'.name = n /\ job'.to = to
      BY <1>1, <1>11
  <2>4. DimOf(job', catalogue', csv) = dim
      BY <1>1, <1>2, <2>3 DEF DimOf, dim
  <2>5. StoreIs(job', catalogue', Store)
      BY <1>1, <2>3 DEF MatricesInv, Holds, StoreIs
  <2>6. Inside(job', dim)
      BY <2>1 DEF Inside, count
  <2>7. JobIs(job', catalogue', csv)
      BY <1>1, <1>2, <1>11, <2>3, <2>4, <2>6 DEF JobIs, PairOps
  <2>8. MirroredSoFar(job', catalogue', Store)
      BY <2>3 DEF MirroredSoFar
  <2>9. FilesAre(job', catalogue', Store, csv, pageFile')
    <3>1. ASSUME NEW m \in FileNames, NEW r \in Nat, NEW c \in Nat
          PROVE  /\ <<m, r, c>> \in DOMAIN pageFile' <=> Present(job', catalogue', dim, m, r, c)
                 /\ Content(job', Store, csv, m, r, c) = IF m = to THEN Store[n] ELSE Store[m]
      <4>1. job'.op = "rename" /\ job'.to # job'.name
          BY <1>2, <2>3
      <4>2. /\ Present(job', catalogue', dim, m, r, c) <=>
                 IF m = job'.to THEN <<r, c>> \in Places(dim) /\ Over(job', r, c)
                 ELSE IF m = job'.name THEN <<r, c>> \in Places(dim) /\ ~Over(job', r, c)
                 ELSE Listed(catalogue', m, r, c)
            /\ Content(job', Store, csv, m, r, c) = IF m = job'.to THEN Store[job'.name] ELSE Store[m]
          BY <4>1, RenameForm
      <4>3. /\ Present(job', catalogue', dim, m, r, c) <=>
                 IF m = to THEN <<r, c>> \in Places(dim) /\ Over(job', r, c)
                 ELSE IF m = n THEN <<r, c>> \in Places(dim) /\ ~Over(job', r, c)
                 ELSE Listed(catalogue, m, r, c)
            /\ Content(job', Store, csv, m, r, c) = IF m = to THEN Store[n] ELSE Store[m]
          BY <1>1, <2>3, <4>2
      <4>4. <<r, c>> \in Places(dim) =>
               (Over(job', r, c) <=> Over(job, r, c) \/ (r = job.row /\ c = job.col))
          BY <1>7, <2>1
      <4>5. r = job.row /\ c = job.col => <<r, c>> \in Places(dim)
          BY <1>3, <1>7
      <4>6. CASE m = to
          BY <1>2, <1>6, <1>9, <4>3, <4>4, <4>5, <4>6
      <4>7. CASE m # to /\ m = n
          BY <1>2, <1>6, <1>9, <4>3, <4>4, <4>5, <4>7
      <4>8. CASE m # to /\ m # n
          BY <1>6, <1>9, <4>3, <4>8
      <4> QED BY <4>6, <4>7, <4>8
    <3> QED BY <1>9, <2>4, <3>1 DEF FilesAre
  <2>10. Holds(job', catalogue', Store, csv, pageFile')
      BY <1>2, <2>5, <2>7, <2>8, <2>9 DEF Holds
  <2>11. MatricesInv' /\ Store' = Store /\ StoreCsv' = StoreCsv
      BY <1>1, <1>10, <1>11, <2>2, <2>10, Continued
  <2> QED BY <1>1, <2>11, Unmoved
<1>12. CASE job' = Idle /\ ~(job.col + 1 < count) /\ ~(job.row + 1 < count)
  <2> DEFINE S == [[Store EXCEPT ![n] = NoMatrix] EXCEPT ![to] = Store[n]]
  <2>1. \A r, c \in 0 .. count - 1 : Over(job, r, c) \/ (r = job.row /\ c = job.col)
      BY <1>3, <1>12, LastPage
  <2>2. /\ catalogue \in [Names -> Dims \cup {0}] /\ Store = [m \in Names |-> Store[m]]
        /\ \A m \in Names : SizeIs(Store, m, IF m = n THEN dim ELSE IF m = to THEN 0 ELSE catalogue[m])
      BY <1>1 DEF MatricesInv, Holds, StoreIs, dim
  <2>3. /\ S[n] = NoMatrix /\ S[to] = Store[n] /\ S = [m \in Names |-> S[m]]
        /\ \A m \in Names : m # n /\ m # to => S[m] = Store[m]
      BY <1>2, <2>2
  <2> HIDE DEF S
  <2>4. StoreIs(Idle, catalogue', S)
    <3>1. ASSUME NEW m \in Names PROVE SizeIs(S, m, catalogue[m])
      <4>1. CASE m = n
          BY <1>2, <2>3, <4>1 DEF SizeIs
      <4>2. CASE m = to
        <5>1. SizeIs(Store, n, dim)
            BY <1>2, <2>2
        <5> QED BY <2>3, <4>2, <5>1 DEF SizeIs, dim
      <4>3. CASE m # n /\ m # to
          BY <2>2, <2>3, <4>3 DEF SizeIs
      <4> QED BY <4>1, <4>2, <4>3
    <3> QED BY <1>1, <2>2, <2>3, <3>1 DEF StoreIs, Idle
  <2>5. ASSUME NEW m \in FileNames, NEW r \in Nat, NEW c \in Nat
        PROVE  /\ <<m, r, c>> \in DOMAIN pageFile' <=> Listed(catalogue, m, r, c)
               /\ <<m, r, c>> \in DOMAIN pageFile' => pageFile'[<<m, r, c>>] = PageOf(S[m], r, c)
    <3>1. CASE m = to
      <4>1. Listed(catalogue, m, r, c) <=> <<r, c>> \in Places(dim)
          BY <1>2, <1>3, <3>1 DEF Listed, dim
      <4>2. <<r, c>> \in Places(dim) <=> <<m, r, c>> \in DOMAIN pageFile'
          BY <1>2, <1>3, <1>6, <1>7, <1>9, <2>1, <3>1
      <4> QED BY <1>9, <2>3, <3>1, <4>1, <4>2
    <3>2. CASE m = n
      <4>1. ~Listed(catalogue, m, r, c)
          BY <1>2, <3>2 DEF Listed
      <4>2. ~(<<m, r, c>> \in DOMAIN pageFile')
        <5>1. SUFFICES ASSUME <<m, r, c>> \in DOMAIN pageFile' PROVE FALSE
            OBVIOUS
        <5>2. <<m, r, c>> \in DOMAIN pageFile /\ ~(r = job.row /\ c = job.col)
            BY <1>2, <1>9, <3>2, <5>1
        <5>3. <<r, c>> \in Places(dim) /\ ~Over(job, r, c)
            BY <1>2, <1>6, <3>2, <5>2
        <5> QED BY <1>7, <2>1, <5>2, <5>3
      <4> QED BY <4>1, <4>2
    <3>3. CASE m # to /\ m # n
      <4>1. Listed(catalogue, m, r, c) => S[m] = Store[m]
          BY <2>3, <3>3 DEF Listed
      <4>2. <<m, r, c>> \in DOMAIN pageFile' <=> Listed(catalogue, m, r, c)
          BY <1>6, <1>9, <3>3
      <4>3. <<m, r, c>> \in DOMAIN pageFile' => pageFile'[<<m, r, c>>] = PageOf(Store[m], r, c)
          BY <1>9, <3>3
      <4> QED BY <4>1, <4>2, <4>3, Zenon
    <3> QED BY <3>1, <3>2, <3>3
  <2>6. Holds(Idle, catalogue', S, csv', pageFile')
      BY <1>1, <1>9, <1>10, <2>4, <2>5, RestHolds
  <2>7. MatricesInv' /\ Store' = S /\ StoreCsv' = csv'
      BY <1>10, <1>12, <2>6, Ended
  <2>8. StoreCsv' = StoreCsv
      BY <1>1, <2>7 DEF MatricesInv, StoreCsv
  <2>9. Promised!Rename(n, to)
      BY <1>1, <2>7, <2>8 DEF Promised!Rename, Store, StoreCsv, S
  <2>10. n \in Promised!Stored
    <3>1. Store[n] \in Squares(dim)
        BY <1>2, <1>3, <2>2 DEF SizeIs
    <3>2. Store[n] # NoMatrix
        BY <1>2, <3>1 DEF Dims
    <3> QED BY <1>2, <3>2 DEF Promised!Stored, Store
  <2> QED BY <1>2, <2>7, <2>9, <2>10 DEF Promised!Next
<1> QED BY <1>1, <1>3, <1>5, <1>11, <1>12, NextPageIs

\* What the pair commands work on.
LEMMA PairWork ==
    ASSUME MatricesInv, job.op \in PairOps
    PROVE  LET dim == catalogue[job.name]
               count == PageCount(dim)
           IN  /\ job.op # "none" /\ job.op # "rename" /\ job.op # "load" /\ job # Idle
               /\ job.name \in Names /\ job.name \in FileNames /\ dim \in Dims /\ dim \in Nat \ {0}
               /\ count \in Nat \ {0} /\ job.row \in 0 .. count - 1 /\ job.col \in 0 .. count - 1
               /\ job.row <= job.col
               /\ DimOf(job, catalogue, csv) = dim /\ Inside(job, dim) /\ CsvIs(csv)
               /\ Store[job.name] \in Squares(dim) /\ job.name \in Promised!Stored
               /\ ~OverPair(job, job.row, job.col) /\ ~OverPair(job, job.col, job.row)
<1> DEFINE dim == catalogue[job.name]
           count == PageCount(dim)
<1>1. job.op # "none" /\ job.op # "rename" /\ job.op # "load"
    BY DEF PairOps
<1>2. job # Idle
  <2>1. Idle.op = "none"
      BY DEF Idle
  <2> QED BY <1>1, <2>1
<1>3. DimOf(job, catalogue, csv) = dim
    BY <1>1 DEF DimOf
<1>4. /\ job.name \in Names /\ job.name \in FileNames /\ dim \in Dims /\ Inside(job, dim) /\ Upper(job) /\ CsvIs(csv)
      /\ SizeIs(Store, job.name, dim)
    BY <1>1, <1>3 DEF MatricesInv, Holds, JobIs, StoreIs, FileNames
<1>5. dim \in Nat \ {0}
    BY <1>4, Constants
<1>6. Store[job.name] \in Squares(dim)
    BY <1>4, <1>5 DEF SizeIs
<1>7. job.name \in Promised!Stored
    BY <1>4, <1>6 DEF Dims, Promised!Stored, Store
<1>8. count \in Nat \ {0} /\ job.row \in 0 .. count - 1 /\ job.col \in 0 .. count - 1 /\ job.row <= job.col
    BY <1>4, <1>5, Counted DEF Inside, Upper
<1>9. ~OverPair(job, job.row, job.col) /\ ~OverPair(job, job.col, job.row)
    BY <1>8 DEF OverPair, Over
<1> QED BY <1>1, <1>2, <1>3, <1>4, <1>5, <1>6, <1>7, <1>8, <1>9

\* Both pages of the pair are read as they are in the matrix.
LEMMA PairPages ==
    ASSUME MatricesInv, job.op \in PairOps, NEW junk
    PROVE  /\ GetMatrix(This(job.name), junk) = PageOf(Store[job.name], job.row, job.col)
           /\ GetMatrix(Opposite(job.name), junk) = PageOf(Store[job.name], job.col, job.row)
<1> DEFINE n == job.name
           dim == catalogue[n]
           count == PageCount(dim)
<1>1. /\ n \in Names /\ n \in FileNames /\ dim \in Nat \ {0} /\ count \in Nat \ {0}
      /\ job.row \in 0 .. count - 1 /\ job.col \in 0 .. count - 1
      /\ ~OverPair(job, job.row, job.col) /\ ~OverPair(job, job.col, job.row)
    BY PairWork
<1> HIDE DEF count
<1>2. ASSUME NEW r \in 0 .. count - 1, NEW c \in 0 .. count - 1, ~OverPair(job, r, c)
      PROVE  GetMatrix(<<n, r, c>>, junk) = PageOf(Store[n], r, c)
  <2>1. r \in Nat /\ c \in Nat /\ Listed(catalogue, n, r, c)
      BY <1>1 DEF Listed, Places, count
  <2>2. Present(job, catalogue, DimOf(job, catalogue, csv), n, r, c)
        /\ Content(job, Store, csv, n, r, c) = Store[n]
    <3>1. CASE job.op = "transpose"
        BY <1>2, <2>1, <3>1, TransposeForm
    <3>2. CASE job.op = "symmetry"
      <4>1. job.op \in {"none", "symmetry"}
          BY <3>2
      <4> QED BY <2>1, <4>1, RestForm
    <3>3. CASE job.op = "compute"
      <4>1. n # job.to
          BY <1>1, <3>3, MatricesAssumption DEF MatricesInv, Holds, JobIs
      <4>2. job.op \in {"compute", "result"}
          BY <3>3
      <4>3. /\ Present(job, catalogue, DimOf(job, catalogue, csv), n, r, c) <=>
                 IF n = job.to
                 THEN <<r, c>> \in Places(DimOf(job, catalogue, csv)) /\ (job.op = "result" \/ OverPair(job, r, c))
                 ELSE Listed(catalogue, n, r, c)
            /\ Content(job, Store, csv, n, r, c) =
                 IF n = job.to THEN Promised!LessTransposed(Store[job.name]) ELSE Store[n]
          BY <4>2, ComputeForm
      <4> QED BY <2>1, <4>1, <4>3
    <3> QED BY <3>1, <3>2, <3>3 DEF PairOps
  <2> QED BY <1>1, <2>1, <2>2, Reading
<1> QED BY <1>1, <1>2 DEF This, Opposite

\* The next pair, of the same command.
LEMMA PairContinues ==
    ASSUME MatricesInv, job.op \in PairOps, catalogue' = catalogue, csv' = csv,
           ~LastPair(PageCount(catalogue[job.name])), job' = NextPair(PageCount(catalogue[job.name]))
    PROVE  LET count == PageCount(catalogue[job.name])
           IN  /\ job' # Idle /\ job'.op = job.op /\ job'.name = job.name /\ job'.to = job.to
               /\ StoreIs(job', catalogue', Store) /\ JobIs(job', catalogue', csv)
               /\ \A r, c \in 0 .. count - 1 :
                     r <= c => (Over(job', r, c) <=> Over(job, r, c) \/ (r = job.row /\ c = job.col))
               /\ \A r, c \in 0 .. count - 1 :
                     OverPair(job', r, c) <=> \/ OverPair(job, r, c)
                                              \/ r = job.row /\ c = job.col
                                              \/ r = job.col /\ c = job.row
<1> DEFINE dim == catalogue[job.name]
           count == PageCount(dim)
<1>1. /\ job.op # "none" /\ job.op # "rename" /\ job.op # "load" /\ job.name \in Names /\ dim \in Dims
      /\ count \in Nat \ {0} /\ job.row \in 0 .. count - 1 /\ job.col \in 0 .. count - 1 /\ job.row <= job.col
    BY PairWork
<1> HIDE DEF count
<1>2. /\ job' # Idle
      /\ job' = [op |-> job.op, name |-> job.name, to |-> job.to, row |-> job'.row, col |-> job'.col]
      /\ \/ job.col + 1 < count /\ job'.row = job.row /\ job'.col = job.col + 1
         \/ ~(job.col + 1 < count) /\ job'.row = job.row + 1 /\ job'.col = job.row + 1
    BY <1>1, NextPairIs DEF count
<1>3. job'.op = job.op /\ job'.name = job.name /\ job'.to = job.to
    BY <1>2
<1>4. ~(job.row = count - 1 /\ job.col = count - 1)
    BY DEF LastPair, count
<1>5. /\ job'.row \in 0 .. count - 1 /\ job'.col \in 0 .. count - 1 /\ job'.row <= job'.col
      /\ \A r, c \in 0 .. count - 1 :
            r <= c => (Over(job', r, c) <=> Over(job, r, c) \/ (r = job.row /\ c = job.col))
      /\ \A r, c \in 0 .. count - 1 :
            OverPair(job', r, c) <=> \/ OverPair(job, r, c)
                                     \/ r = job.row /\ c = job.col
                                     \/ r = job.col /\ c = job.row
    BY <1>1, <1>2, <1>4, PairStep
<1>6. StoreIs(job', catalogue', Store)
    BY <1>1, <1>3 DEF MatricesInv, Holds, StoreIs
<1>7. DimOf(job', catalogue', csv) = dim
    BY <1>1, <1>3 DEF DimOf
<1>8. Inside(job', dim) /\ Upper(job')
    BY <1>5 DEF Inside, Upper, count
<1>9. JobIs(job', catalogue', csv)
  <2>1. JobIs(job, catalogue, csv) /\ job.op \notin {"none", "load", "rename", "result"}
      BY DEF MatricesInv, Holds, PairOps
  <2>2. job' = [op |-> job'.op, name |-> job'.name, to |-> job'.to, row |-> job'.row, col |-> job'.col]
      BY <1>2, <1>3
  <2> QED BY <1>1, <1>3, <1>7, <1>8, <2>1, <2>2 DEF JobIs
<1> QED BY <1>2, <1>3, <1>5, <1>6, <1>9 DEF count

LEMMA TransposeStep ==
    ASSUME MatricesInv, TransposePair, before' = IF job' = Idle THEN NoMatrix ELSE before
    PROVE  MatricesInv' /\ (Promised!Next \/ UNCHANGED Promised!vars)
<1> DEFINE n == job.name
           dim == catalogue[n]
           count == PageCount(dim)
           T == Promised!Transposed(Store[n])
<1>1. job.op = "transpose" /\ job.op \in PairOps /\ UNCHANGED <<csv, catalogue, answer>>
    BY DEF TransposePair, PairOps
<1>2. /\ job.op # "none" /\ job.op # "rename" /\ job # Idle /\ n \in Names /\ n \in FileNames
      /\ dim \in Dims /\ dim \in Nat \ {0} /\ count \in Nat \ {0}
      /\ job.row \in 0 .. count - 1 /\ job.col \in 0 .. count - 1 /\ job.row <= job.col
      /\ DimOf(job, catalogue, csv) = dim /\ CsvIs(csv) /\ Store[n] \in Squares(dim) /\ n \in Promised!Stored
    BY <1>1, PairWork
<1>3. PICK junk \in Uninitialised :
          pageFile' = Write(pageFile, Pair(n, Mirror(GetMatrix(Opposite(n), junk)), Mirror(GetMatrix(This(n), junk))))
    BY DEF TransposePair
<1>4. /\ pool' = <<>>
      /\ job' = IF LastPair(count) THEN Idle ELSE NextPair(count)
    BY DEF TransposePair, Pages
<1> HIDE DEF dim, count, T
<1>5. T \in Squares(dim)
      /\ \A r, c \in Nat : Mirror(PageOf(Store[n], c, r)) = PageOf(T, r, c)
    BY <1>2, MirrorPage DEF T
<1>6. pageFile' = Write(pageFile, Pair(n, PageOf(T, job.row, job.col), PageOf(T, job.col, job.row)))
  <2>1. job.row \in Nat /\ job.col \in Nat
      BY <1>2
  <2>2. /\ Mirror(GetMatrix(Opposite(n), junk)) = PageOf(T, job.row, job.col)
        /\ Mirror(GetMatrix(This(n), junk)) = PageOf(T, job.col, job.row)
      BY <1>1, <1>5, <2>1, PairPages
  <2> QED BY <1>3, <2>2
<1>7. DOMAIN pageFile \subseteq Triples
      /\ \A m \in FileNames, r \in Nat, c \in Nat :
            /\ <<m, r, c>> \in DOMAIN pageFile <=> Listed(catalogue, m, r, c)
            /\ <<m, r, c>> \in DOMAIN pageFile =>
                 pageFile[<<m, r, c>>] = PageOf(IF m = n /\ OverPair(job, r, c) THEN T ELSE Store[m], r, c)
  <2>1. FilesAre(job, catalogue, Store, csv, pageFile)
      BY DEF MatricesInv, Holds
  <2>2. ASSUME NEW m \in FileNames, NEW r \in Nat, NEW c \in Nat
        PROVE  /\ Present(job, catalogue, DimOf(job, catalogue, csv), m, r, c) <=> Listed(catalogue, m, r, c)
               /\ Content(job, Store, csv, m, r, c) = IF m = n /\ OverPair(job, r, c) THEN T ELSE Store[m]
      BY <1>1, TransposeForm DEF T
  <2> QED BY <2>1, <2>2 DEF FilesAre
<1>8. \A r, c : <<r, c>> \in Places(dim) <=> r \in 0 .. count - 1 /\ c \in 0 .. count - 1
    BY DEF Places, count
<1> DEFINE Now(r, c) == (r = job.row /\ c = job.col) \/ (r = job.col /\ c = job.row)
<1>9. DOMAIN pageFile' \subseteq Triples
      /\ \A m \in FileNames, r \in Nat, c \in Nat :
            /\ <<m, r, c>> \in DOMAIN pageFile' <=> Listed(catalogue, m, r, c)
            /\ <<m, r, c>> \in DOMAIN pageFile' =>
                 pageFile'[<<m, r, c>>] =
                    PageOf(IF m = n /\ (OverPair(job, r, c) \/ Now(r, c)) THEN T ELSE Store[m], r, c)
  <2> DEFINE page == PageOf(T, job.row, job.col)
             opposite == PageOf(T, job.col, job.row)
             this == This(n)
             other == Opposite(n)
  <2>1. pageFile' = Write(pageFile, Pair(n, page, opposite))
      BY <1>6
  <2>2. this = <<n, job.row, job.col>> /\ other = <<n, job.col, job.row>>
      BY DEF This, Opposite
  <2> HIDE DEF page, opposite
  <2>3. DOMAIN pageFile' = DOMAIN pageFile \cup {This(n), Opposite(n)}
      BY <2>1, WritePairNames
  <2>4. /\ pageFile'[This(n)] = page /\ (Opposite(n) # This(n) => pageFile'[Opposite(n)] = opposite)
        /\ \A x \in DOMAIN pageFile : x # This(n) /\ x # Opposite(n) => pageFile'[x] = pageFile[x]
      BY <2>1, WritePair
  <2>5. this \in DOMAIN pageFile /\ other \in DOMAIN pageFile
    <3>1. /\ Listed(catalogue, n, job.row, job.col) /\ Listed(catalogue, n, job.col, job.row)
          /\ job.row \in Nat /\ job.col \in Nat
        BY <1>2, <1>8 DEF Listed, dim
    <3> QED BY <1>2, <1>7, <2>2, <3>1
  <2> HIDE DEF this, other
  <2>6. /\ DOMAIN pageFile' = DOMAIN pageFile
        /\ pageFile'[this] = page /\ (other # this => pageFile'[other] = opposite)
        /\ \A x \in DOMAIN pageFile : x # this /\ x # other => pageFile'[x] = pageFile[x]
      BY <2>3, <2>4, <2>5 DEF this, other
  <2>7. ASSUME NEW m \in FileNames, NEW r \in Nat, NEW c \in Nat, <<m, r, c>> \in DOMAIN pageFile'
        PROVE  pageFile'[<<m, r, c>>] =
                  PageOf(IF m = n /\ (OverPair(job, r, c) \/ Now(r, c)) THEN T ELSE Store[m], r, c)
    <3>1. /\ <<m, r, c>> = this <=> m = n /\ r = job.row /\ c = job.col
          /\ <<m, r, c>> = other <=> m = n /\ r = job.col /\ c = job.row
        BY <2>2
    <3>2. CASE <<m, r, c>> = this
        BY <2>6, <3>1, <3>2 DEF page
    <3>3. CASE <<m, r, c>> # this /\ <<m, r, c>> = other
        BY <2>6, <3>1, <3>3 DEF opposite
    <3>4. CASE <<m, r, c>> # this /\ <<m, r, c>> # other
      <4>1. pageFile'[<<m, r, c>>] = pageFile[<<m, r, c>>] /\ <<m, r, c>> \in DOMAIN pageFile
          BY <2>6, <2>7, <3>4
      <4>2. pageFile[<<m, r, c>>] = PageOf(IF m = n /\ OverPair(job, r, c) THEN T ELSE Store[m], r, c)
          BY <1>7, <4>1
      <4>3. ~(m = n /\ Now(r, c))
          BY <3>1, <3>4
      <4> HIDE DEF Now
      <4> QED BY <4>1, <4>2, <4>3
    <3> QED BY <3>2, <3>3, <3>4
  <2> QED BY <1>7, <2>6, <2>7
<1>10. PoolIs(pool') /\ CsvIs(csv')
  <2>1. PoolIs(pool')
      BY <1>4, EmptyIs
  <2> QED BY <1>1, <1>2, <2>1
<1>11. CASE ~LastPair(count)
  <2>1. /\ job' # Idle /\ job'.op = "transpose" /\ job'.name = n
        /\ StoreIs(job', catalogue', Store) /\ JobIs(job', catalogue', csv)
        /\ \A r, c \in 0 .. count - 1 : OverPair(job', r, c) <=> OverPair(job, r, c) \/ Now(r, c)
    <3>1. ~LastPair(PageCount(catalogue[job.name])) /\ job' = NextPair(PageCount(catalogue[job.name]))
        BY <1>4, <1>11 DEF count, dim
    <3> QED BY <1>1, <3>1, PairContinues DEF count, dim
  <2>2. MirroredSoFar(job', catalogue', Store)
      BY <2>1 DEF MirroredSoFar
  <2>3. FilesAre(job', catalogue', Store, csv, pageFile')
    <3>1. ASSUME NEW m \in FileNames, NEW r \in Nat, NEW c \in Nat
          PROVE  /\ <<m, r, c>> \in DOMAIN pageFile' <=>
                       Present(job', catalogue', DimOf(job', catalogue', csv), m, r, c)
                 /\ <<m, r, c>> \in DOMAIN pageFile' =>
                       pageFile'[<<m, r, c>>] = PageOf(Content(job', Store, csv, m, r, c), r, c)
      <4>1. job'.op = "transpose"
          BY <2>1
      <4>2. /\ Present(job', catalogue', DimOf(job', catalogue', csv), m, r, c) <=> Listed(catalogue', m, r, c)
            /\ Content(job', Store, csv, m, r, c) =
                  IF m = job'.name /\ OverPair(job', r, c) THEN Promised!Transposed(Store[m]) ELSE Store[m]
          BY <4>1, TransposeForm
      <4>3. /\ Present(job', catalogue', DimOf(job', catalogue', csv), m, r, c) <=> Listed(catalogue, m, r, c)
            /\ Content(job', Store, csv, m, r, c) = IF m = n /\ OverPair(job', r, c) THEN T ELSE Store[m]
          BY <1>1, <2>1, <4>2 DEF T
      <4>4. Listed(catalogue, n, r, c) => (OverPair(job', r, c) <=> OverPair(job, r, c) \/ Now(r, c))
        <5>1. Listed(catalogue, n, r, c) => r \in 0 .. count - 1 /\ c \in 0 .. count - 1
            BY <1>8 DEF Listed, dim
        <5> QED BY <2>1, <5>1
      <4>5. <<m, r, c>> \in DOMAIN pageFile' =>
               Content(job', Store, csv, m, r, c) = IF m = n /\ (OverPair(job, r, c) \/ Now(r, c)) THEN T ELSE Store[m]
        <5> HIDE DEF Now
        <5> QED BY <1>9, <4>3, <4>4
      <4> HIDE DEF Now
      <4> QED BY <1>9, <4>3, <4>5, Zenon
    <3> QED BY <1>9, <3>1 DEF FilesAre
  <2>4. Holds(job', catalogue', Store, csv, pageFile')
      BY <1>2, <2>1, <2>2, <2>3 DEF Holds
  <2>5. before' = before
      BY <2>1
  <2>6. MatricesInv' /\ Store' = Store /\ StoreCsv' = StoreCsv
      BY <1>1, <1>2, <1>10, <2>1, <2>4, <2>5, Continued
  <2> QED BY <1>1, <2>6, Unmoved
<1>12. CASE LastPair(count)
  <2> DEFINE S == [Store EXCEPT ![n] = T]
  <2>1. job' = Idle
      BY <1>4, <1>12
  <2>2. \A r, c \in 0 .. count - 1 : OverPair(job, r, c) \/ (r = job.row /\ c = job.col)
    <3>1. job.row = count - 1 /\ job.col = count - 1
        BY <1>12 DEF LastPair
    <3> QED BY <1>2, <3>1, LastPairStep
  <2>3. /\ catalogue \in [Names -> Dims \cup {0}] /\ Store = [m \in Names |-> Store[m]]
        /\ \A m \in Names : SizeIs(Store, m, catalogue[m])
      BY <1>2 DEF MatricesInv, Holds, StoreIs
  <2>4. S[n] = T /\ S = [m \in Names |-> S[m]] /\ \A m \in Names : m # n => S[m] = Store[m]
      BY <1>2, <2>3
  <2> HIDE DEF S
  <2>5. StoreIs(Idle, catalogue, S)
    <3>1. ASSUME NEW m \in Names PROVE SizeIs(S, m, catalogue[m])
      <4>1. CASE m = n
          BY <1>2, <1>5, <2>4, <4>1 DEF SizeIs, dim
      <4>2. CASE m # n
          BY <2>3, <2>4, <4>2 DEF SizeIs
      <4> QED BY <4>1, <4>2
    <3> QED BY <2>3, <2>4, <3>1 DEF StoreIs, Idle
  <2>6. ASSUME NEW m \in FileNames, NEW r \in Nat, NEW c \in Nat
        PROVE  /\ <<m, r, c>> \in DOMAIN pageFile' <=> Listed(catalogue, m, r, c)
               /\ <<m, r, c>> \in DOMAIN pageFile' => pageFile'[<<m, r, c>>] = PageOf(S[m], r, c)
    <3>1. Listed(catalogue, m, r, c) =>
             S[m] = IF m = n /\ (OverPair(job, r, c) \/ Now(r, c)) THEN T ELSE Store[m]
      <4>1. Listed(catalogue, n, r, c) => OverPair(job, r, c) \/ Now(r, c)
        <5>1. Listed(catalogue, n, r, c) => r \in 0 .. count - 1 /\ c \in 0 .. count - 1
            BY <1>8 DEF Listed, dim
        <5> QED BY <2>2, <5>1
      <4>2. Listed(catalogue, m, r, c) => m \in Names
          BY DEF Listed
      <4> HIDE DEF Now
      <4> QED BY <2>4, <4>1, <4>2
    <3> HIDE DEF Now
    <3> QED BY <1>9, <3>1, Zenon
  <2>7. Holds(Idle, catalogue', S, csv', pageFile')
    <3>1. Holds(Idle, catalogue, S, csv', pageFile')
        BY <1>9, <1>10, <2>5, <2>6, RestHolds
    <3> QED BY <1>1, <3>1
  <2>8. MatricesInv' /\ Store' = S /\ StoreCsv' = csv'
      BY <1>10, <2>1, <2>7, Ended
  <2>9. StoreCsv' = StoreCsv
      BY <1>1, <1>2, <2>8 DEF MatricesInv, StoreCsv
  <2>10. Promised!Transpose(n)
      BY <1>1, <2>8, <2>9 DEF Promised!Transpose, Store, StoreCsv, S, T
  <2> QED BY <1>2, <2>8, <2>10 DEF Promised!Next
<1> QED BY <1>11, <1>12

\* A matrix whose pages mirror each other is its transposed matrix.
LEMMA Symmetric ==
    ASSUME NEW dim \in Nat \ {0}, NEW M \in Squares(dim)
    PROVE  (\A r, c \in 0 .. PageCount(dim) - 1 : r <= c => PageOf(M, r, c) = Mirror(PageOf(M, c, r)))
             <=> M = Promised!Transposed(M)
<1> DEFINE T == Promised!Transposed(M)
           count == PageCount(dim)
<1>1. T \in Squares(dim) /\ \A r, c \in Nat : Mirror(PageOf(M, c, r)) = PageOf(T, r, c)
    BY MirrorPage
<1>2. count \in Nat \ {0}
    BY Counted
<1> HIDE DEF T
<1>3. ASSUME \A r, c \in 0 .. count - 1 : r <= c => PageOf(M, r, c) = Mirror(PageOf(M, c, r))
      PROVE  M = T
  <2>1. ASSUME NEW p, p \in [PageCells -> Int]
        PROVE  Mirror(Mirror(p)) = p
      BY <2>1 DEF Mirror, PageCells
  <2>2. ASSUME NEW r \in 0 .. count - 1, NEW c \in 0 .. count - 1
        PROVE  PageOf(M, r, c) = PageOf(T, r, c)
    <3>1. r \in Nat /\ c \in Nat
        BY <1>2
    <3>2. CASE r <= c
        BY <1>1, <1>3, <3>1, <3>2
    <3>3. CASE ~(r <= c)
      <4>1. PageOf(M, c, r) = Mirror(PageOf(M, r, c))
        <5>1. c <= r
            BY <3>1, <3>3
        <5> QED BY <1>3, <5>1
      <4>2. PageOf(M, r, c) \in [PageCells -> Int]
          BY <3>1, PageType
      <4>3. Mirror(PageOf(M, c, r)) = PageOf(M, r, c)
          BY <2>1, <4>1, <4>2
      <4> QED BY <1>1, <3>1, <4>3
    <3> QED BY <3>2, <3>3
  <2> DEFINE page == [place \in Places(dim) |-> PageOf(M, place[1], place[2])]
  <2>3. \A place \in Places(dim) : /\ page[place] = PageOf(M, place[1], place[2])
                                   /\ page[place] = PageOf(T, place[1], place[2])
      BY <2>2 DEF Places
  <2>4. dim \in 1 .. dim
      OBVIOUS
  <2> HIDE DEF page
  <2>5. Assembled(page, dim) = Cut(M, dim)
      BY <2>3, <2>4, Reassembled
  <2>6. Assembled(page, dim) = Cut(T, dim)
      BY <1>1, <2>3, <2>4, Reassembled
  <2> QED BY <1>1, <2>5, <2>6, WholeCut
<1>4. ASSUME M = T
      PROVE  \A r, c \in 0 .. count - 1 : r <= c => PageOf(M, r, c) = Mirror(PageOf(M, c, r))
  <2>1. \A r, c \in 0 .. count - 1 : r \in Nat /\ c \in Nat
      BY <1>2
  <2> QED BY <1>1, <1>4, <2>1
<1> QED BY <1>3, <1>4 DEF T

LEMMA SymmetryStep ==
    ASSUME MatricesInv, SymmetryPair, before' = IF job' = Idle THEN NoMatrix ELSE before
    PROVE  MatricesInv' /\ (Promised!Next \/ UNCHANGED Promised!vars)
<1> DEFINE n == job.name
           dim == catalogue[n]
           count == PageCount(dim)
           M == Store[n]
           T == Promised!Transposed(M)
<1>1. /\ job.op = "symmetry" /\ job.op \in PairOps /\ job.op \in {"none", "symmetry"}
      /\ UNCHANGED <<csv, pageFile, catalogue>>
    BY DEF SymmetryPair, PairOps
<1>2. /\ job.op # "none" /\ job # Idle /\ n \in Names
      /\ dim \in Dims /\ dim \in Nat \ {0} /\ count \in Nat \ {0}
      /\ job.row \in 0 .. count - 1 /\ job.col \in 0 .. count - 1 /\ job.row <= job.col
      /\ CsvIs(csv) /\ M \in Squares(dim) /\ n \in Promised!Stored
    BY <1>1, PairWork
<1>3. PICK junk \in Uninitialised :
          /\ pool' = PoolAfter(PairRead(n), junk)
          /\ IF GetMatrix(This(n), junk) # Mirror(GetMatrix(Opposite(n), junk))
             THEN answer' = <<"symmetric", FALSE>> /\ job' = Idle
             ELSE IF LastPair(count) THEN answer' = <<"symmetric", TRUE>> /\ job' = Idle
             ELSE job' = NextPair(count) /\ answer' = answer
    BY DEF SymmetryPair, Pages
<1>4. /\ GetMatrix(This(n), junk) = PageOf(M, job.row, job.col)
      /\ GetMatrix(Opposite(n), junk) = PageOf(M, job.col, job.row)
    BY <1>1, PairPages
<1>5. \A r, c \in 0 .. count - 1 : r <= c /\ Over(job, r, c) => PageOf(M, r, c) = Mirror(PageOf(M, c, r))
    BY <1>1 DEF MatricesInv, Holds, MirroredSoFar
<1>6. PoolIs(pool')
  <2>1. Len(PairRead(n)) \in Nat
      BY DEF PairRead
  <2> QED BY <1>3, <2>1, PoolAfterIs DEF MatricesInv
<1> HIDE DEF dim, count, M, T
<1>7. ASSUME job' = Idle PROVE MatricesInv' /\ Store' = Store /\ StoreCsv' = StoreCsv
  <2>1. StoreIs(Idle, catalogue, Store)
      BY <1>1, AtRest
  <2>2. /\ DOMAIN pageFile \subseteq Triples
        /\ \A m \in FileNames, r \in Nat, c \in Nat :
              /\ <<m, r, c>> \in DOMAIN pageFile <=> Listed(catalogue, m, r, c)
              /\ <<m, r, c>> \in DOMAIN pageFile => pageFile[<<m, r, c>>] = PageOf(Store[m], r, c)
      BY <1>1, AtRest
  <2>3. Holds(Idle, catalogue, Store, csv, pageFile)
      BY <1>2, <2>1, <2>2, RestHolds
  <2>4. Holds(Idle, catalogue', Store, csv', pageFile')
      BY <1>1, <2>3
  <2>5. MatricesInv' /\ Store' = Store /\ StoreCsv' = csv'
      BY <1>6, <1>7, <2>4, Ended
  <2> QED BY <1>1, <1>2, <2>5 DEF MatricesInv, StoreCsv
<1>8. CASE PageOf(M, job.row, job.col) # Mirror(PageOf(M, job.col, job.row))
  <2>1. job' = Idle /\ answer' = <<"symmetric", FALSE>>
      BY <1>3, <1>4, <1>8
  <2>2. M # T
      BY <1>2, <1>8, Symmetric DEF T, count
  <2>3. MatricesInv' /\ Store' = Store /\ StoreCsv' = StoreCsv
      BY <1>7, <2>1
  <2>4. (Store[n] = Promised!Transposed(Store[n])) = FALSE
      BY <2>2 DEF M, T
  <2>5. Promised!CheckSymmetry(n)
      BY <2>1, <2>3, <2>4 DEF Promised!CheckSymmetry, Store, StoreCsv
  <2> QED BY <1>2, <2>3, <2>5 DEF Promised!Next
<1>9. CASE PageOf(M, job.row, job.col) = Mirror(PageOf(M, job.col, job.row)) /\ LastPair(count)
  <2>1. job' = Idle /\ answer' = <<"symmetric", TRUE>>
      BY <1>3, <1>4, <1>9
  <2>2. \A r, c \in 0 .. count - 1 : r <= c => Over(job, r, c) \/ (r = job.row /\ c = job.col)
    <3>1. job.row = count - 1 /\ job.col = count - 1
        BY <1>9 DEF LastPair
    <3> QED BY <1>2, <3>1, LastPairStep
  <2>3. M = T
    <3>1. \A r, c \in 0 .. count - 1 : r <= c => PageOf(M, r, c) = Mirror(PageOf(M, c, r))
        BY <1>5, <1>9, <2>2
    <3> QED BY <1>2, <3>1, Symmetric DEF T, count
  <2>4. MatricesInv' /\ Store' = Store /\ StoreCsv' = StoreCsv
      BY <1>7, <2>1
  <2>5. (Store[n] = Promised!Transposed(Store[n])) = TRUE
      BY <2>3 DEF M, T
  <2>6. Promised!CheckSymmetry(n)
      BY <2>1, <2>4, <2>5 DEF Promised!CheckSymmetry, Store, StoreCsv
  <2> QED BY <1>2, <2>4, <2>6 DEF Promised!Next
<1>10. CASE PageOf(M, job.row, job.col) = Mirror(PageOf(M, job.col, job.row)) /\ ~LastPair(count)
  <2>1. job' = NextPair(count) /\ answer' = answer
      BY <1>3, <1>4, <1>10
  <2>2. /\ job' # Idle /\ job'.op = "symmetry" /\ job'.name = n
        /\ StoreIs(job', catalogue', Store) /\ JobIs(job', catalogue', csv)
        /\ \A r, c \in 0 .. count - 1 :
              r <= c => (Over(job', r, c) <=> Over(job, r, c) \/ (r = job.row /\ c = job.col))
    <3>1. ~LastPair(PageCount(catalogue[job.name])) /\ job' = NextPair(PageCount(catalogue[job.name]))
        BY <1>10, <2>1 DEF count, dim
    <3> QED BY <1>1, <3>1, PairContinues DEF count, dim
  <2>3. MirroredSoFar(job', catalogue', Store)
    <3>1. \A r, c \in 0 .. count - 1 : r <= c /\ Over(job', r, c) => PageOf(M, r, c) = Mirror(PageOf(M, c, r))
        BY <1>5, <1>10, <2>2
    <3> QED BY <1>1, <2>2, <3>1 DEF MirroredSoFar, M, count, dim
  <2>4. FilesAre(job', catalogue', Store, csv, pageFile')
    <3>1. ASSUME NEW m \in FileNames, NEW r \in Nat, NEW c \in Nat
          PROVE  /\ <<m, r, c>> \in DOMAIN pageFile <=>
                       Present(job', catalogue, DimOf(job', catalogue, csv), m, r, c)
                 /\ <<m, r, c>> \in DOMAIN pageFile =>
                       pageFile[<<m, r, c>>] = PageOf(Content(job', Store, csv, m, r, c), r, c)
      <4>1. job'.op \in {"none", "symmetry"}
          BY <2>2
      <4>2. /\ Present(job', catalogue, DimOf(job', catalogue, csv), m, r, c) <=> Listed(catalogue, m, r, c)
            /\ Content(job', Store, csv, m, r, c) = Store[m]
          BY <4>1, RestForm
      <4>3. /\ <<m, r, c>> \in DOMAIN pageFile <=> Listed(catalogue, m, r, c)
            /\ <<m, r, c>> \in DOMAIN pageFile => pageFile[<<m, r, c>>] = PageOf(Store[m], r, c)
          BY <1>1, AtRest
      <4> QED BY <4>2, <4>3
    <3>2. FilesAre(job', catalogue, Store, csv, pageFile)
        BY <1>1, <3>1, AtRest DEF FilesAre
    <3> QED BY <1>1, <3>2
  <2>5. Holds(job', catalogue', Store, csv, pageFile')
      BY <1>2, <2>2, <2>3, <2>4 DEF Holds
  <2>6. before' = before
      BY <2>2
  <2>7. MatricesInv' /\ Store' = Store /\ StoreCsv' = StoreCsv
      BY <1>1, <1>2, <1>6, <2>2, <2>5, <2>6, Continued
  <2> QED BY <2>1, <2>7, Unmoved
<1> QED BY <1>8, <1>9, <1>10

LEMMA ComputeStep ==
    ASSUME MatricesInv, ComputePair, before' = IF job' = Idle THEN NoMatrix ELSE before
    PROVE  MatricesInv' /\ (Promised!Next \/ UNCHANGED Promised!vars)
<1> DEFINE n == job.name
           to == job.to
           dim == catalogue[n]
           count == PageCount(dim)
           D == Promised!LessTransposed(Store[n])
<1>1. /\ job.op = "compute" /\ job.op \in PairOps /\ job.op \in {"compute", "result"} /\ job.op # "result"
      /\ UNCHANGED <<csv, catalogue, answer>>
    BY DEF ComputePair, PairOps
<1>2. /\ job.op # "none" /\ job.op # "rename" /\ job # Idle /\ n \in Names /\ n \in FileNames
      /\ dim \in Dims /\ dim \in Nat \ {0} /\ count \in Nat \ {0}
      /\ job.row \in 0 .. count - 1 /\ job.col \in 0 .. count - 1 /\ job.row <= job.col
      /\ DimOf(job, catalogue, csv) = dim /\ CsvIs(csv) /\ Store[n] \in Squares(dim) /\ Inside(job, dim)
    BY <1>1, PairWork
<1>3. to = ResultName[n] /\ to \in FileNames /\ (to \in Names => catalogue[to] = 0)
    BY <1>1, <1>2 DEF MatricesInv, Holds, JobIs, FileNames
<1>4. PICK junk \in Uninitialised :
        LET difference == Minus(GetMatrix(This(n), junk), Mirror(GetMatrix(Opposite(n), junk)))
        IN  /\ pageFile' = Write(pageFile, Pair(to, difference, Mirror([cell \in PageCells |-> -difference[cell]])))
            /\ pool' = PoolAfter(PairRead(n), junk)
    BY DEF ComputePair
<1>5. job' = IF LastPair(count) THEN [job EXCEPT !.op = "result"] ELSE NextPair(count)
    BY DEF ComputePair, Pages
<1> HIDE DEF dim, count, D
<1>6. pageFile' = Write(pageFile, Pair(to, PageOf(D, job.row, job.col), PageOf(D, job.col, job.row)))
  <2>1. job.row \in Nat /\ job.col \in Nat
      BY <1>2
  <2> DEFINE difference == Minus(GetMatrix(This(n), junk), Mirror(GetMatrix(Opposite(n), junk)))
  <2>2. difference = PageOf(D, job.row, job.col)
    <3>1. difference = Minus(PageOf(Store[n], job.row, job.col), Mirror(PageOf(Store[n], job.col, job.row)))
        BY <1>1, PairPages
    <3> HIDE DEF difference
    <3>2. Minus(PageOf(Store[n], job.row, job.col), Mirror(PageOf(Store[n], job.col, job.row)))
            = PageOf(D, job.row, job.col)
      <4>1. dim \in Nat \ {0} /\ Store[n] \in Squares(dim)
          BY <1>2
      <4>2. Minus(PageOf(Store[n], job.row, job.col), Mirror(PageOf(Store[n], job.col, job.row)))
              = PageOf(Promised!LessTransposed(Store[n]), job.row, job.col)
          BY <2>1, <4>1, DifferencePage
      <4> QED BY <4>2 DEF D
    <3> QED BY <3>1, <3>2
  <2>3. pageFile' = Write(pageFile, Pair(to, difference, Mirror([cell \in PageCells |-> -difference[cell]])))
      BY <1>4
  <2> HIDE DEF difference
  <2>4. Mirror([cell \in PageCells |-> -PageOf(D, job.row, job.col)[cell]]) = PageOf(D, job.col, job.row)
    <3>1. dim \in Nat \ {0} /\ Store[n] \in Squares(dim)
        BY <1>2
    <3>2. Mirror([cell \in PageCells |-> -PageOf(Promised!LessTransposed(Store[n]), job.row, job.col)[cell]])
            = PageOf(Promised!LessTransposed(Store[n]), job.col, job.row)
        BY <2>1, <3>1, DifferencePage
    <3> QED BY <3>2 DEF D
  <2> QED BY <2>2, <2>3, <2>4
<1>7. DOMAIN pageFile \subseteq Triples
      /\ \A m \in FileNames, r \in Nat, c \in Nat :
            /\ <<m, r, c>> \in DOMAIN pageFile <=>
                 IF m = to THEN <<r, c>> \in Places(dim) /\ OverPair(job, r, c) ELSE Listed(catalogue, m, r, c)
            /\ <<m, r, c>> \in DOMAIN pageFile =>
                 pageFile[<<m, r, c>>] = PageOf(IF m = to THEN D ELSE Store[m], r, c)
  <2>1. FilesAre(job, catalogue, Store, csv, pageFile)
      BY DEF MatricesInv, Holds
  <2>2. ASSUME NEW m \in FileNames, NEW r \in Nat, NEW c \in Nat
        PROVE  /\ Present(job, catalogue, DimOf(job, catalogue, csv), m, r, c) <=>
                    IF m = to THEN <<r, c>> \in Places(dim) /\ OverPair(job, r, c) ELSE Listed(catalogue, m, r, c)
               /\ Content(job, Store, csv, m, r, c) = IF m = to THEN D ELSE Store[m]
    <3>1. /\ Present(job, catalogue, dim, m, r, c) <=>
               IF m = job.to THEN <<r, c>> \in Places(dim) /\ (job.op = "result" \/ OverPair(job, r, c))
               ELSE Listed(catalogue, m, r, c)
          /\ Content(job, Store, csv, m, r, c) =
               IF m = job.to THEN Promised!LessTransposed(Store[job.name]) ELSE Store[m]
        BY <1>1, ComputeForm
    <3> QED BY <1>1, <1>2, <3>1 DEF D
  <2> QED BY <2>1, <2>2 DEF FilesAre
<1>8. \A r, c : <<r, c>> \in Places(dim) <=> r \in 0 .. count - 1 /\ c \in 0 .. count - 1
    BY DEF Places, count
<1> DEFINE Now(r, c) == (r = job.row /\ c = job.col) \/ (r = job.col /\ c = job.row)
<1>9. DOMAIN pageFile' \subseteq Triples
      /\ \A m \in FileNames, r \in Nat, c \in Nat :
            /\ <<m, r, c>> \in DOMAIN pageFile' <=> <<m, r, c>> \in DOMAIN pageFile \/ (m = to /\ Now(r, c))
            /\ <<m, r, c>> \in DOMAIN pageFile' =>
                 pageFile'[<<m, r, c>>] = PageOf(IF m = to THEN D ELSE Store[m], r, c)
  <2> DEFINE page == PageOf(D, job.row, job.col)
             opposite == PageOf(D, job.col, job.row)
             this == This(to)
             other == Opposite(to)
  <2>1. pageFile' = Write(pageFile, Pair(to, page, opposite))
      BY <1>6
  <2>2. this = <<to, job.row, job.col>> /\ other = <<to, job.col, job.row>>
      BY DEF This, Opposite
  <2> HIDE DEF page, opposite
  <2>3. DOMAIN pageFile' = DOMAIN pageFile \cup {This(to), Opposite(to)}
      BY <2>1, WritePairNames
  <2>4. /\ pageFile'[This(to)] = page /\ (Opposite(to) # This(to) => pageFile'[Opposite(to)] = opposite)
        /\ \A x \in DOMAIN pageFile : x # This(to) /\ x # Opposite(to) => pageFile'[x] = pageFile[x]
      BY <2>1, WritePair
  <2>5. this \in Triples /\ other \in Triples
      BY <1>2, <1>3, <2>2 DEF Triples
  <2> HIDE DEF this, other
  <2>6. /\ DOMAIN pageFile' = DOMAIN pageFile \cup {this, other}
        /\ pageFile'[this] = page /\ (other # this => pageFile'[other] = opposite)
        /\ \A x \in DOMAIN pageFile : x # this /\ x # other => pageFile'[x] = pageFile[x]
      BY <2>3, <2>4 DEF this, other
  <2>7. ASSUME NEW m \in FileNames, NEW r \in Nat, NEW c \in Nat
        PROVE  /\ <<m, r, c>> = this <=> m = to /\ r = job.row /\ c = job.col
               /\ <<m, r, c>> = other <=> m = to /\ r = job.col /\ c = job.row
      BY <2>2
  <2>8. ASSUME NEW m \in FileNames, NEW r \in Nat, NEW c \in Nat, <<m, r, c>> \in DOMAIN pageFile'
        PROVE  pageFile'[<<m, r, c>>] = PageOf(IF m = to THEN D ELSE Store[m], r, c)
    <3>1. CASE <<m, r, c>> = this
        BY <2>6, <2>7, <3>1 DEF page
    <3>2. CASE <<m, r, c>> # this /\ <<m, r, c>> = other
        BY <2>6, <2>7, <3>2 DEF opposite
    <3>3. CASE <<m, r, c>> # this /\ <<m, r, c>> # other
      <4>1. pageFile'[<<m, r, c>>] = pageFile[<<m, r, c>>] /\ <<m, r, c>> \in DOMAIN pageFile
          BY <2>6, <2>8, <3>3
      <4> HIDE DEF Now
      <4> QED BY <1>7, <4>1
    <3> QED BY <3>1, <3>2, <3>3
  <2>9. ASSUME NEW m \in FileNames, NEW r \in Nat, NEW c \in Nat
        PROVE  <<m, r, c>> \in DOMAIN pageFile' <=> <<m, r, c>> \in DOMAIN pageFile \/ (m = to /\ Now(r, c))
      BY <2>6, <2>7
  <2>10. DOMAIN pageFile' \subseteq Triples
      BY <1>7, <2>5, <2>6
  <2> QED BY <2>8, <2>9, <2>10
<1>10. PoolIs(pool')
  <2>1. Len(PairRead(n)) \in Nat
      BY DEF PairRead
  <2> QED BY <1>4, <2>1, PoolAfterIs DEF MatricesInv
\* A page of the result is there when the loops have gone past it.
<1>11. ASSUME job'.op \in {"compute", "result"}, job'.name = n, job'.to = to,
              \A r, c \in 0 .. count - 1 :
                 (job'.op = "result" \/ OverPair(job', r, c)) <=> (OverPair(job, r, c) \/ Now(r, c))
       PROVE  FilesAre(job', catalogue', Store, csv, pageFile')
  <2>1. ASSUME NEW m \in FileNames, NEW r \in Nat, NEW c \in Nat
        PROVE  /\ <<m, r, c>> \in DOMAIN pageFile' <=>
                     Present(job', catalogue, DimOf(job', catalogue, csv), m, r, c)
               /\ <<m, r, c>> \in DOMAIN pageFile' =>
                     pageFile'[<<m, r, c>>] = PageOf(Content(job', Store, csv, m, r, c), r, c)
    <3>1. DimOf(job', catalogue, csv) = dim
      <4>1. job'.op # "load" /\ job'.op # "rename"
          BY <1>11
      <4> QED BY <1>11, <4>1 DEF DimOf, dim
    <3>2. /\ Present(job', catalogue, dim, m, r, c) <=>
               IF m = job'.to THEN <<r, c>> \in Places(dim) /\ (job'.op = "result" \/ OverPair(job', r, c))
               ELSE Listed(catalogue, m, r, c)
          /\ Content(job', Store, csv, m, r, c) =
               IF m = job'.to THEN Promised!LessTransposed(Store[job'.name]) ELSE Store[m]
      <4>1. job'.op \in {"compute", "result"}
          BY <1>11
      <4> HIDE DEF Now
      <4>2. Present(job', catalogue, dim, m, r, c) <=>
               IF m = job'.to THEN <<r, c>> \in Places(dim) /\ (job'.op = "result" \/ OverPair(job', r, c))
               ELSE Listed(catalogue, m, r, c)
          BY <4>1 DEF Present, Done, Makes
      <4>3. Content(job', Store, csv, m, r, c) =
               IF m = job'.to THEN Promised!LessTransposed(Store[job'.name]) ELSE Store[m]
          BY <4>1 DEF Content, Made, Makes
      <4> QED BY <4>2, <4>3
    <3>3. /\ Present(job', catalogue, dim, m, r, c) <=>
               IF m = to THEN <<r, c>> \in Places(dim) /\ (job'.op = "result" \/ OverPair(job', r, c))
               ELSE Listed(catalogue, m, r, c)
          /\ Content(job', Store, csv, m, r, c) = IF m = to THEN D ELSE Store[m]
        BY <1>11, <3>2 DEF D
    <3>4. <<r, c>> \in Places(dim) =>
             ((job'.op = "result" \/ OverPair(job', r, c)) <=> (OverPair(job, r, c) \/ Now(r, c)))
        BY <1>8, <1>11
    <3>5. Now(r, c) => <<r, c>> \in Places(dim)
        BY <1>2, <1>8
    <3> HIDE DEF Now
    <3>6. <<m, r, c>> \in DOMAIN pageFile' <=> Present(job', catalogue, dim, m, r, c)
        BY <1>7, <1>9, <3>3, <3>4, <3>5
    <3>7. <<m, r, c>> \in DOMAIN pageFile' => pageFile'[<<m, r, c>>] = PageOf(IF m = to THEN D ELSE Store[m], r, c)
        BY <1>9
    <3>8. Content(job', Store, csv, m, r, c) = IF m = to THEN D ELSE Store[m]
        BY <3>3
    <3>9. <<m, r, c>> \in DOMAIN pageFile' =>
             pageFile'[<<m, r, c>>] = PageOf(Content(job', Store, csv, m, r, c), r, c)
        BY <3>7, <3>8
    <3> QED BY <3>1, <3>6, <3>9
  <2> HIDE DEF Now
  <2>2. FilesAre(job', catalogue, Store, csv, pageFile')
      BY <1>9, <2>1 DEF FilesAre
  <2> QED BY <1>1, <2>2
<1>12. CASE ~LastPair(count)
  <2>1. /\ job' # Idle /\ job'.op = "compute" /\ job'.name = n /\ job'.to = to
        /\ StoreIs(job', catalogue', Store) /\ JobIs(job', catalogue', csv)
        /\ \A r, c \in 0 .. count - 1 : OverPair(job', r, c) <=> OverPair(job, r, c) \/ Now(r, c)
    <3>1. ~LastPair(PageCount(catalogue[job.name])) /\ job' = NextPair(PageCount(catalogue[job.name]))
        BY <1>5, <1>12 DEF count, dim
    <3> QED BY <1>1, <3>1, PairContinues DEF count, dim
  <2>2. MirroredSoFar(job', catalogue', Store)
      BY <2>1 DEF MirroredSoFar
  <2>3. FilesAre(job', catalogue', Store, csv, pageFile')
    <3>1. job'.op \in {"compute", "result"} /\ job'.op # "result"
        BY <2>1
    <3> HIDE DEF Now
    <3> QED BY <1>11, <2>1, <3>1
  <2>4. Holds(job', catalogue', Store, csv, pageFile')
      BY <1>2, <2>1, <2>2, <2>3 DEF Holds
  <2>5. before' = before
      BY <2>1
  <2>6. MatricesInv' /\ Store' = Store /\ StoreCsv' = StoreCsv
      BY <1>1, <1>2, <1>10, <2>1, <2>4, <2>5, Continued
  <2> QED BY <1>1, <2>6, Unmoved
<1>13. CASE LastPair(count)
  <2>1. job' = [op |-> "result", name |-> n, to |-> to, row |-> job.row, col |-> job.col]
    <3>1. job = [op |-> job.op, name |-> n, to |-> to, row |-> job.row, col |-> job.col]
        BY DEF MatricesInv, Holds, JobIs
    <3>2. job' = [job EXCEPT !.op = "result"]
        BY <1>5, <1>13
    <3> QED BY <3>1, <3>2
  <2>2. /\ job'.op = "result" /\ job'.op \in {"compute", "result"} /\ job'.op # "rename" /\ job'.op # "load"
        /\ job'.name = n /\ job'.to = to /\ job'.row = job.row /\ job'.col = job.col
      BY <2>1
  <2>3. job' # Idle
    <3>1. Idle.op = "none"
        BY DEF Idle
    <3> QED BY <2>2, <3>1
  <2>4. StoreIs(job', catalogue', Store)
      BY <1>1, <1>2, <2>2 DEF MatricesInv, Holds, StoreIs
  <2>5. DimOf(job', catalogue', csv) = dim
      BY <1>1, <2>2 DEF DimOf, dim
  <2>6. Inside(job', dim)
      BY <1>2, <2>2 DEF Inside
  <2>7. JobIs(job', catalogue', csv)
      BY <1>1, <1>2, <1>3, <2>1, <2>2, <2>5, <2>6 DEF JobIs, PairOps
  <2>8. MirroredSoFar(job', catalogue', Store)
      BY <2>2 DEF MirroredSoFar
  <2>9. FilesAre(job', catalogue', Store, csv, pageFile')
    <3>1. \A r, c \in 0 .. count - 1 : OverPair(job, r, c) \/ Now(r, c)
      <4>1. job.row = count - 1 /\ job.col = count - 1
          BY <1>13 DEF LastPair
      <4> QED BY <1>2, <4>1, LastPairStep
    <3> HIDE DEF Now
    <3> QED BY <1>11, <2>2, <3>1
  <2>10. Holds(job', catalogue', Store, csv, pageFile')
      BY <1>2, <2>4, <2>7, <2>8, <2>9 DEF Holds
  <2>11. MatricesInv' /\ Store' = Store /\ StoreCsv' = StoreCsv
      BY <1>1, <1>2, <1>10, <2>3, <2>10, Continued
  <2> QED BY <1>1, <2>11, Unmoved
<1> QED BY <1>12, <1>13

LEMMA UnlinkAll ==
    ASSUME NEW files, NEW names
    PROVE  /\ DOMAIN Unlink(files, names) = DOMAIN files \ names
           /\ \A x \in DOMAIN files : x \notin names => Unlink(files, names)[x] = files[x]
BY DEF Unlink

LEMMA ResultStep ==
    ASSUME MatricesInv, ComputeResult, before' = IF job' = Idle THEN NoMatrix ELSE before
    PROVE  MatricesInv' /\ Promised!Next
<1> DEFINE n == job.name
           to == job.to
           dim == catalogue[n]
           D == Promised!LessTransposed(Store[n])
<1>1. /\ job.op = "result" /\ job.op \in {"compute", "result"} /\ job.op # "none" /\ job.op # "rename"
      /\ job.op # "load" /\ job' = Idle /\ UNCHANGED <<catalogue, answer>>
    BY DEF ComputeResult
<1>2. PICK junk \in Uninitialised :
          /\ csv' = [csv EXCEPT ![to] = ReadMatrix(to, dim, junk)]
          /\ pool' = PoolAfter(RowReads(to, dim, dim) \o PageReads(to, dim), junk)
          /\ pageFile' = Unlink(pageFile, PagesOf(to, dim))
    BY DEF ComputeResult
<1>3. job # Idle
  <2>1. Idle.op = "none"
      BY DEF Idle
  <2> QED BY <1>1, <2>1
<1>4. /\ Holds(job, catalogue, Store, csv, pageFile) /\ CsvIs(csv) /\ FilesAre(job, catalogue, Store, csv, pageFile)
      /\ StoreIs(job, catalogue, Store) /\ JobIs(job, catalogue, csv)
    BY DEF MatricesInv, Holds
<1>5. DimOf(job, catalogue, csv) = dim
    BY <1>1 DEF DimOf
<1>6. /\ n \in Names /\ n \in FileNames /\ dim \in Dims /\ dim \in Nat \ {0} /\ dim # 0
      /\ to = ResultName[n] /\ to \in FileNames /\ (to \in Names => catalogue[to] = 0)
    BY <1>1, <1>4, <1>5, Constants DEF JobIs, FileNames
<1>7. StoreIs(Idle, catalogue, Store)
  <2>1. Idle.op = "none"
      BY DEF Idle
  <2>2. /\ catalogue \in [Names -> Dims \cup {0}]
        /\ Store = [m \in Names |-> Store[m]]
        /\ \A m \in Names : SizeIs(Store, m, catalogue[m])
      BY <1>1, <1>4 DEF StoreIs
  <2>3. Idle.op # "rename"
      BY <2>1
  <2> QED BY <2>2, <2>3 DEF StoreIs
<1>8. Store[n] \in Squares(dim) /\ Store[n] # NoMatrix
    BY <1>6, <1>7, StoreIsSized
<1>9. D \in Squares(dim)
    BY <1>6, <1>8, DifferencePage
<1>10. ASSUME NEW m \in FileNames, NEW r \in Nat, NEW c \in Nat
       PROVE  /\ Present(job, catalogue, dim, m, r, c) <=>
                   IF m = to THEN <<r, c>> \in Places(dim) ELSE Listed(catalogue, m, r, c)
              /\ Content(job, Store, csv, m, r, c) = IF m = to THEN D ELSE Store[m]
  <2>1. /\ Present(job, catalogue, dim, m, r, c) <=>
             IF m = job.to THEN <<r, c>> \in Places(dim) /\ (job.op = "result" \/ OverPair(job, r, c))
             ELSE Listed(catalogue, m, r, c)
        /\ Content(job, Store, csv, m, r, c) = IF m = job.to THEN Promised!LessTransposed(Store[job.name]) ELSE Store[m]
    <3>1. job.op \in {"compute", "result"}
        BY <1>1
    <3> QED BY <3>1, ComputeForm
  <2> QED BY <1>1, <2>1
<1> HIDE DEF dim, D
<1>11. ReadMatrix(to, dim, junk) = D
  <2> DEFINE page == [place \in Places(dim) |-> GetMatrix(<<to, place[1], place[2]>>, junk)]
  <2>1. ASSUME NEW place \in Places(dim)
        PROVE  page[place] = PageOf(D, place[1], place[2])
    <3>1. /\ place[1] \in Nat /\ place[2] \in Nat /\ place = <<place[1], place[2]>>
          /\ <<place[1], place[2]>> \in Places(dim)
        BY <1>6, Counted DEF Places
    <3>2. GetMatrix(<<to, place[1], place[2]>>, junk) = PageOf(Content(job, Store, csv, to, place[1], place[2]), place[1], place[2])
        BY <1>5, <1>6, <1>10, <3>1, Reading
    <3>3. Content(job, Store, csv, to, place[1], place[2]) = D
        BY <1>6, <1>10, <3>1
    <3> QED BY <3>2, <3>3
  <2>2. ReadMatrix(to, dim, junk) = Assembled(page, dim)
      BY DEF ReadMatrix
  <2> HIDE DEF page
  <2>3. dim \in 1 .. dim
      BY <1>6
  <2>4. Assembled(page, dim) = Cut(D, dim)
      BY <1>6, <1>9, <2>1, <2>3, Reassembled
  <2> QED BY <1>9, <2>2, <2>4, WholeCut
<1>12. csv' = [csv EXCEPT ![to] = D]
    BY <1>2, <1>11
<1>13. CsvIs(csv')
    BY <1>4, <1>6, <1>9, <1>12, CsvExcept
<1>14. PoolIs(pool')
  <2>1. /\ RowReads(to, dim, dim) \in Seq({to} \X Int \X Int) /\ PageReads(to, dim) \in Seq({to} \X Int \X Int)
      BY <1>6, ReadsAreFinite
  <2>2. Len(RowReads(to, dim, dim) \o PageReads(to, dim)) \in Nat
      BY <2>1
  <2> QED BY <1>2, <2>2, PoolAfterIs DEF MatricesInv
\* What is left are the catalogued pages.
<1>15. DOMAIN pageFile' \subseteq Triples
       /\ \A m \in FileNames, r \in Nat, c \in Nat :
             /\ <<m, r, c>> \in DOMAIN pageFile' <=> Listed(catalogue, m, r, c)
             /\ <<m, r, c>> \in DOMAIN pageFile' => pageFile'[<<m, r, c>>] = PageOf(Store[m], r, c)
  <2>1. /\ DOMAIN pageFile' = DOMAIN pageFile \ PagesOf(to, dim)
        /\ \A x \in DOMAIN pageFile : x \notin PagesOf(to, dim) => pageFile'[x] = pageFile[x]
    <3> DEFINE gone == PagesOf(to, dim)
    <3>1. pageFile' = Unlink(pageFile, gone)
        BY <1>2
    <3> HIDE DEF gone
    <3>2. /\ DOMAIN Unlink(pageFile, gone) = DOMAIN pageFile \ gone
          /\ \A x \in DOMAIN pageFile : x \notin gone => Unlink(pageFile, gone)[x] = pageFile[x]
        BY UnlinkAll
    <3>3. /\ DOMAIN pageFile' = DOMAIN pageFile \ gone
          /\ \A x \in DOMAIN pageFile : x \notin gone => pageFile'[x] = pageFile[x]
        BY <3>1, <3>2
    <3> QED BY <3>3 DEF gone
  <2>2. ASSUME NEW m \in FileNames, NEW r \in Nat, NEW c \in Nat
        PROVE  <<m, r, c>> \in PagesOf(to, dim) <=> m = to /\ <<r, c>> \in Places(dim)
    <3>1. \A place \in Places(dim) : place = <<place[1], place[2]>>
        BY DEF Places
    <3>2. <<r, c>>[1] = r /\ <<r, c>>[2] = c
        OBVIOUS
    <3> QED BY <3>1, <3>2 DEF PagesOf
  <2>3. ASSUME NEW r \in Nat, NEW c \in Nat
        PROVE  ~Listed(catalogue, to, r, c)
      BY <1>6 DEF Listed
  <2>4. ASSUME NEW m \in FileNames, NEW r \in Nat, NEW c \in Nat
        PROVE  /\ <<m, r, c>> \in DOMAIN pageFile <=>
                    IF m = to THEN <<r, c>> \in Places(dim) ELSE Listed(catalogue, m, r, c)
               /\ <<m, r, c>> \in DOMAIN pageFile => pageFile[<<m, r, c>>] = PageOf(IF m = to THEN D ELSE Store[m], r, c)
      BY <1>4, <1>5, <1>10 DEF FilesAre
  <2>5. ASSUME NEW m \in FileNames, NEW r \in Nat, NEW c \in Nat
        PROVE  <<m, r, c>> \in DOMAIN pageFile' <=> Listed(catalogue, m, r, c)
    <3>1. <<m, r, c>> \in DOMAIN pageFile' <=> <<m, r, c>> \in DOMAIN pageFile /\ ~(m = to /\ <<r, c>> \in Places(dim))
        BY <2>1, <2>2
    <3>2. CASE m = to
        BY <2>3, <2>4, <3>1, <3>2
    <3>3. CASE m # to
        BY <2>4, <3>1, <3>3
    <3> QED BY <3>2, <3>3
  <2>6. ASSUME NEW m \in FileNames, NEW r \in Nat, NEW c \in Nat, <<m, r, c>> \in DOMAIN pageFile'
        PROVE  pageFile'[<<m, r, c>>] = PageOf(Store[m], r, c)
    <3>1. m # to /\ <<m, r, c>> \in DOMAIN pageFile /\ <<m, r, c>> \notin PagesOf(to, dim)
        BY <2>1, <2>3, <2>5, <2>6
    <3>2. pageFile'[<<m, r, c>>] = pageFile[<<m, r, c>>]
        BY <2>1, <3>1
    <3> QED BY <2>4, <3>1, <3>2
  <2>7. DOMAIN pageFile' \subseteq Triples
      BY <1>4, <2>1 DEF FilesAre
  <2> QED BY <2>5, <2>6, <2>7
<1>16. Holds(Idle, catalogue', Store, csv', pageFile')
  <2>1. Holds(Idle, catalogue, Store, csv', pageFile')
      BY <1>7, <1>13, <1>15, RestHolds
  <2> QED BY <1>1, <2>1
<1>17. MatricesInv' /\ Store' = Store /\ StoreCsv' = csv'
    BY <1>1, <1>14, <1>16, Ended
<1>18. StoreCsv' = [StoreCsv EXCEPT ![ResultName[n]] = Promised!LessTransposed(Store[n])] /\ Store' = Store /\ answer' = answer
    BY <1>1, <1>3, <1>6, <1>12, <1>17 DEF StoreCsv, MatricesInv, D
<1>19. Promised!Compute(n)
    BY <1>18 DEF Promised!Compute, Store, StoreCsv
<1>20. n \in Promised!Stored
    BY <1>6, <1>8 DEF Promised!Stored, Store
<1> QED BY <1>17, <1>19, <1>20 DEF Promised!Next

-----------------------------------------------------------------------------
(* All steps *)

LEMMA BeginStep ==
    ASSUME MatricesInv, NEW n \in Names,
           LoadMatrix(n) \/ TransposeMatrix(n) \/ CheckSymmetry(n) \/ ComputeMatrix(n)
           \/ \E to \in Names : RenameMatrix(n, to)
    PROVE  MatricesInv' /\ UNCHANGED Promised!vars
<1>1. CASE LoadMatrix(n)
  <2>1. answer' = answer
      BY <1>1 DEF LoadMatrix
  <2> QED BY <1>1, <2>1, BeganLoad, Unmoved
<1>2. CASE \E to \in Names : RenameMatrix(n, to)
  <2>1. PICK to \in Names : RenameMatrix(n, to)
      BY <1>2
  <2>2. answer' = answer
      BY <2>1 DEF RenameMatrix
  <2> QED BY <2>1, <2>2, BeganRename, Unmoved
<1>3. ASSUME NEW op \in PairOps, NEW to, n \in Catalogued, Begin(op, n, to),
             op = "compute" => to = ResultName[n] /\ Free(to),
             UNCHANGED <<csv, pageFile, catalogue, pool, answer>>
      PROVE  MatricesInv' /\ UNCHANGED Promised!vars
    BY <1>3, BeganOn, Unmoved
<1>4. CASE TransposeMatrix(n)
  <2>1. "transpose" \in PairOps /\ "transpose" # "compute"
      BY DEF PairOps
  <2>2. n \in Catalogued /\ Begin("transpose", n, n) /\ UNCHANGED <<csv, pageFile, catalogue, pool, answer>>
      BY <1>4 DEF TransposeMatrix
  <2> QED BY <1>3, <2>1, <2>2
<1>5. CASE CheckSymmetry(n)
  <2>1. "symmetry" \in PairOps /\ "symmetry" # "compute"
      BY DEF PairOps
  <2>2. n \in Catalogued /\ Begin("symmetry", n, n) /\ UNCHANGED <<csv, pageFile, catalogue, pool, answer>>
      BY <1>5 DEF CheckSymmetry
  <2> QED BY <1>3, <2>1, <2>2
<1>6. CASE ComputeMatrix(n)
  <2>1. "compute" \in PairOps
      BY DEF PairOps
  <2>2. /\ n \in Catalogued /\ Free(ResultName[n]) /\ Begin("compute", n, ResultName[n])
        /\ UNCHANGED <<csv, pageFile, catalogue, pool, answer>>
      BY <1>6 DEF ComputeMatrix
  <2> QED BY <1>3, <2>1, <2>2
<1> QED BY <1>1, <1>2, <1>4, <1>5, <1>6

\* Nothing changes.
LEMMA StutterStep ==
    ASSUME MatricesInv, UNCHANGED vars
    PROVE  MatricesInv' /\ UNCHANGED Promised!vars
<1>1. UNCHANGED <<csv, pageFile, catalogue, pool, job, answer, before>>
    BY DEF vars
<1>2. Held' = Held
    BY <1>1 DEF Held, FilePage, FileRead
<1>3. Store' = Store /\ StoreCsv' = StoreCsv
    BY <1>1, <1>2 DEF Store, StoreCsv
<1>4. MatricesInv'
    BY <1>1, <1>3 DEF MatricesInv
<1> QED BY <1>1, <1>3, <1>4, Unmoved

LEMMA NextStep ==
    ASSUME MatricesInv, [Next]_vars
    PROVE  MatricesInv' /\ [Promised!Next]_(Promised!vars)
<1>1. CASE UNCHANGED vars
    BY <1>1, StutterStep
<1>2. CASE \E n \in Names : ExportMatrix(n)
    BY <1>2, ExportStep
<1>3. CASE \E n \in Names : PrintMatrix(n)
    BY <1>3, PrintStep
<1>4. ASSUME NEW n \in Names,
             LoadMatrix(n) \/ TransposeMatrix(n) \/ CheckSymmetry(n) \/ ComputeMatrix(n)
             \/ \E to \in Names : RenameMatrix(n, to)
      PROVE  MatricesInv' /\ [Promised!Next]_(Promised!vars)
    BY <1>4, BeginStep
<1>5. CASE Working
    BY <1>5, LoadStep, TransposeStep, SymmetryStep, RenameStep, ComputeStep, ResultStep DEF Working
<1> QED BY <1>1, <1>2, <1>3, <1>4, <1>5 DEF Next

\* At the start there are only .csv files.
LEMMA InitStep ==
    ASSUME Init
    PROVE  MatricesInv /\ Promised!Init
<1> DEFINE none == [n \in Names |-> NoMatrix]
<1>1. /\ pageFile = <<>> /\ catalogue = [n \in Names |-> 0] /\ pool = <<>> /\ job = Idle /\ answer = NoMatrix
      /\ csv \in [FileNames -> (UNION {Files[n] : n \in Names}) \cup {NoMatrix}]
      /\ \A n \in FileNames : csv[n] \in IF n \in Names THEN Files[n] ELSE {NoMatrix}
    BY DEF Init
<1>2. DOMAIN pageFile = {}
    BY <1>1
<1>3. Store = none
    BY <1>1 DEF Store, Held
<1>4. CsvIs(csv)
  <2>1. ASSUME NEW n \in FileNames
        PROVE  csv[n] \in (UNION {Squares(dim) : dim \in Dims}) \cup {NoMatrix}
    <3>1. CASE n \in Names /\ csv[n] # NoMatrix
      <4>1. csv[n] \in Files[n] \ {NoMatrix}
          BY <1>1, <3>1
      <4>2. PICK dim \in 1 .. Cardinality(DOMAIN csv[n]) : csv[n] \in Squares(dim) /\ NoMatrix \notin Squares(dim)
          BY <3>1, <4>1, FilesAssumption
      <4>3. Cardinality(DOMAIN csv[n]) \in Nat
          BY <3>1, <4>1, FilesAssumption, FS_CardinalityType
      <4>4. dim \in Dims
          BY <4>2, <4>3 DEF Dims
      <4> QED BY <4>2, <4>4
    <3>2. CASE n \notin Names \/ csv[n] = NoMatrix
        BY <1>1, <3>2
    <3> QED BY <3>1, <3>2
  <2>2. csv = [n \in FileNames |-> csv[n]]
      BY <1>1
  <2> QED BY <2>1, <2>2 DEF CsvIs
<1>5. StoreIs(Idle, catalogue, none)
  <2>1. Idle.op # "rename"
      BY DEF Idle
  <2>2. catalogue \in [Names -> Dims \cup {0}] /\ \A n \in Names : catalogue[n] = 0 /\ none[n] = NoMatrix
      BY <1>1
  <2> QED BY <2>1, <2>2 DEF StoreIs, SizeIs
<1>6. ASSUME NEW m \in FileNames, NEW r \in Nat, NEW c \in Nat
      PROVE  ~Listed(catalogue, m, r, c)
    BY <1>1 DEF Listed
<1>7. Holds(Idle, catalogue, none, csv, pageFile)
    BY <1>2, <1>4, <1>5, <1>6, RestHolds
<1>8. PoolIs(pool)
    BY <1>1, EmptyIs
<1>9. MatricesInv
    BY <1>1, <1>3, <1>7, <1>8 DEF MatricesInv
<1> QED BY <1>1, <1>3, <1>9 DEF Promised!Init, Store

-----------------------------------------------------------------------------
(* The theorems *)

\* Between commands, and in the middle of each, the page files, the pool and the
\* running command are what the loops over pages have made of the matrices.
THEOREM MatricesInvariant == Spec => []MatricesInv
<1>1. Init => MatricesInv
    BY InitStep
<1>2. MatricesInv /\ [Next]_vars => MatricesInv'
    BY NextStep
<1> QED BY <1>1, <1>2, PTL DEF Spec

\* After every command the page files are those of the catalogued matrices:
\* matrixBlockify leaves no page out, renameMatrix none under the old name, and
\* computeOnMatrix none of its result.
THEOREM PageFilesAreThere == Spec => []PageFilesAreCatalogued
<1>1. ASSUME MatricesInv
      PROVE  PageFilesAreCatalogued
  <2> SUFFICES ASSUME job = Idle
               PROVE  DOMAIN pageFile = UNION {PagesOf(n, catalogue[n]) : n \in Catalogued}
      BY DEF PageFilesAreCatalogued
  <2>1. job.op = "none"
      BY DEF Idle
  <2>2. /\ DOMAIN pageFile \subseteq Triples
        /\ \A n \in FileNames, r \in Nat, c \in Nat : <<n, r, c>> \in DOMAIN pageFile <=> Listed(catalogue, n, r, c)
        /\ StoreIs(Idle, catalogue, Store)
      BY <1>1, <2>1, AtRest
  <2>3. ASSUME NEW n \in Catalogued, NEW r, NEW c, <<r, c>> \in Places(catalogue[n])
        PROVE  r \in Nat /\ c \in Nat
    <3>1. catalogue[n] \in Nat \ {0}
        BY <2>2, StoreIsSized DEF Catalogued
    <3> QED BY <2>3, <3>1, Counted DEF Places
  <2>4. ASSUME NEW n \in Catalogued, NEW x \in PagesOf(n, catalogue[n])
        PROVE  x \in DOMAIN pageFile
    <3>1. PICK place \in Places(catalogue[n]) : x = <<n, place[1], place[2]>>
        BY DEF PagesOf
    <3>2. place = <<place[1], place[2]>>
        BY DEF Places
    <3>3. n \in Names /\ n \in FileNames /\ catalogue[n] # 0
        BY DEF Catalogued, FileNames
    <3>4. place[1] \in Nat /\ place[2] \in Nat
        BY <2>3, <3>2
    <3>5. Listed(catalogue, n, place[1], place[2])
        BY <3>2, <3>3 DEF Listed
    <3> QED BY <2>2, <3>1, <3>3, <3>4, <3>5
  <2>5. ASSUME NEW x \in DOMAIN pageFile
        PROVE  \E n \in Catalogued : x \in PagesOf(n, catalogue[n])
    <3>1. PICK n \in FileNames, r \in Nat, c \in Nat : x = <<n, r, c>>
        BY <2>2 DEF Triples
    <3>2. n \in Names /\ catalogue[n] # 0 /\ <<r, c>> \in Places(catalogue[n])
        BY <2>2, <3>1 DEF Listed
    <3>3. <<r, c>>[1] = r /\ <<r, c>>[2] = c
        OBVIOUS
    <3> QED BY <3>1, <3>2, <3>3 DEF PagesOf, Catalogued
  <2> QED BY <2>4, <2>5
<1> QED BY <1>1, MatricesInvariant, PTL

\* The commands, page by page and through the pool, do to the matrices, to the
\* .csv files and to the answers what they would do to whole matrices.
THEOREM MatricesImplementStore == Spec => ImplementsMatrixStore
<1>1. Init => Promised!Init
    BY InitStep
<1>2. MatricesInv /\ [Next]_vars => [Promised!Next]_(Promised!vars)
    BY NextStep
<1> QED BY <1>1, <1>2, MatricesInvariant, PTL DEF Spec, ImplementsMatrixStore, Promised!Spec

=============================================================================
