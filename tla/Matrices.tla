------------------------------ MODULE Matrices ------------------------------
(***************************************************************************)
(* src/src/matrix.cpp, matrixCatalogue.cpp, the matrix half of             *)
(* bufferManager.cpp and page.cpp, and the matrix commands in executors/:  *)
(* a matrix lives in square page files of matrixDims x matrixDims, read    *)
(* through a FIFO pool of BLOCK_COUNT pages and written straight to disk.  *)
(* One step reads and writes one page or one pair of mirrored pages.       *)
(***************************************************************************)
EXTENDS KeyOrder, Sequences

CONSTANTS Names, ResultName, NoMatrix,
          Files,          \* what the .csv files may hold at the start
          matrixDims,     \* rows and columns of a page
          BLOCK_COUNT,    \* pages in the pool
          PRINT_COUNT,    \* rows and columns that PRINT shows at most
          Uninitialised,  \* what readMatrixPage's variable may hold unread
          MaxCommands     \* bound: the number of commands

FileNames == Names \cup {ResultName[n] : n \in Names}

ASSUME MatricesAssumption ==
    /\ ResultName \in [Names -> STRING] /\ \A n \in Names : ResultName[n] # n
    /\ matrixDims \in Nat \ {0} /\ BLOCK_COUNT \in Nat \ {0} /\ PRINT_COUNT \in Nat \ {0}
    /\ MaxCommands \in Nat

\* A matrix of that many rows and columns.
Squares(dim) == [(1 .. dim) \X (1 .. dim) -> Int]

ASSUME FilesAssumption ==
    \A n \in Names : \A M \in Files[n] \ {NoMatrix} :
        /\ IsFiniteSet(DOMAIN M)
        /\ \E dim \in 1 .. Cardinality(DOMAIN M) : M \in Squares(dim) /\ NoMatrix \notin Squares(dim)

VARIABLES csv,        \* data/<name>.csv
          pageFile,   \* data/temp: <<name, row, column>> -> page
          catalogue,  \* name -> rowsDim, or 0
          pool,       \* the buffer: sequence of [pageName, page]
          job,        \* the command that runs: [op, name, to, row, col]
          answer,     \* what CHECKSYMMETRY or PRINT showed last
          commands,   \* history: the number of commands
          before      \* history: matrices and files when the running command began

vars == <<csv, pageFile, catalogue, pool, job, answer, commands, before>>

Idle == [op |-> "none", name |-> "", to |-> "", row |-> 0, col |-> 0]

-----------------------------------------------------------------------------
PageCells == (1 .. matrixDims) \X (1 .. matrixDims)
PageCount(dim) == (dim + matrixDims - 1) \div matrixDims
Places(dim) == (0 .. PageCount(dim) - 1) \X (0 .. PageCount(dim) - 1)
Side(M) == CHOOSE n \in 1 .. Cardinality(DOMAIN M) : DOMAIN M = (1 .. n) \X (1 .. n)

\* insertRowInPage and matrixBlockify: one page of a matrix, filled with zeros.
PageOf(M, r, c) ==
    [cell \in PageCells |->
        LET place == <<r * matrixDims + cell[1], c * matrixDims + cell[2]>>
        IN  IF place \in DOMAIN M THEN M[place] ELSE 0]

\* The matrix that pages make up: which page a cell is on, and where in it.
Assembled(page, dim) ==
    [cell \in (1 .. dim) \X (1 .. dim) |->
        page[<<(cell[1] - 1) \div matrixDims, (cell[2] - 1) \div matrixDims>>]
            [<<((cell[1] - 1) % matrixDims) + 1, ((cell[2] - 1) % matrixDims) + 1>>]]

Mirror(page) == [cell \in PageCells |-> page[<<cell[2], cell[1]>>]]

\* Faulty version: pages enter the pool under the name getMatrix asks for.
PoolNameOfFile(name) == name
\* insertMatrixIntoPool: the page is made with the path of its file for a
\* matrix name, so its own name repeats the path.
PoolName(name) == <<name, name>>

InPool(buffer, name) == \E i \in DOMAIN buffer : buffer[i].pageName = name

\* The page in a file, or, when there is none, a page whose numbers are all the
\* uninitialised variable.
FileRead(name, junk) == IF name \in DOMAIN pageFile THEN pageFile[name] ELSE [cell \in PageCells |-> junk]

\* getMatrix: from the pool, or else from the file.
GetMatrix(name, junk) ==
    IF InPool(pool, name)
    THEN pool[CHOOSE i \in DOMAIN pool :
                 pool[i].pageName = name /\ \A j \in 1 .. i - 1 : pool[j].pageName # name].page
    ELSE FileRead(name, junk)

\* insertMatrixIntoPool: the oldest pages leave a full pool.
Newest(entries) ==
    SubSeq(entries, IF Len(entries) > BLOCK_COUNT THEN Len(entries) - BLOCK_COUNT + 1 ELSE 1, Len(entries))

\* The pool after reading those pages: those that are not there come in last.
\* A page read twice comes in twice, as no name in the pool is one that is
\* asked for (PoolName).
PoolAfter(names, junk) ==
    LET after[i \in 0 .. Len(names)] ==
            IF i = 0 THEN pool
            ELSE IF InPool(pool, names[i]) THEN after[i - 1]
            ELSE Append(after[i - 1], [pageName |-> PoolName(names[i]), page |-> FileRead(names[i], junk)])
    IN  Newest(after[Len(names)])

\* The first dim rows and columns of a matrix, as makePermanent and print read them.
ReadMatrix(n, dim, junk) ==
    Assembled([place \in Places(dim) |-> GetMatrix(<<n, place[1], place[2]>>, junk)], dim)

\* ofstream and remove: files written, and files taken away.
Write(files, pages) == [name \in DOMAIN files \cup DOMAIN pages |->
                           IF name \in DOMAIN pages THEN pages[name] ELSE files[name]]
Unlink(files, names) == [name \in DOMAIN files \ names |-> files[name]]

Catalogued == {n \in Names : catalogue[n] # 0}
Pages(n) == PageCount(catalogue[n])
PagesOf(n, dim) == {<<n, place[1], place[2]>> : place \in Places(dim)}

\* The pages they read for that: for each row those its numbers lie in.
RowReads(n, rows, columns) ==
    [i \in 1 .. rows * PageCount(columns) |->
        LET row == (i - 1) \div PageCount(columns)
        IN  <<n, row \div matrixDims, (i - 1) % PageCount(columns)>>]

\* The pages one by one, as computeOnMatrix reads them to remove them.
PageReads(n, dim) == [i \in 1 .. PageCount(dim) * PageCount(dim) |->
    <<n, (i - 1) \div PageCount(dim), (i - 1) % PageCount(dim)>>]

\* The matrices that the page files hold.
FilePage(name) == FileRead(name, CHOOSE junk \in Uninitialised : TRUE)
Held == [n \in Names |-> IF catalogue[n] = 0 THEN NoMatrix
                         ELSE Assembled([place \in Places(catalogue[n]) |-> FilePage(<<n, place[1], place[2]>>)],
                                        catalogue[n])]

-----------------------------------------------------------------------------
Init ==
    /\ csv \in [FileNames -> (UNION {Files[n] : n \in Names}) \cup {NoMatrix}]
    /\ \A n \in FileNames : csv[n] \in IF n \in Names THEN Files[n] ELSE {NoMatrix}
    /\ pageFile = <<>> /\ catalogue = [n \in Names |-> 0] /\ pool = <<>>
    /\ job = Idle /\ answer = NoMatrix /\ commands = 0
    /\ before = NoMatrix

Begin(op, n, to) ==
    /\ job = Idle /\ commands < MaxCommands
    /\ commands' = commands + 1
    /\ job' = [op |-> op, name |-> n, to |-> to, row |-> 0, col |-> 0]
    /\ before' = [matrices |-> Held, csv |-> csv]

\* Bound: the code checks no target, and the commands given here (README.md:
\* "Overwriting isn't permitted") name none that is in use.
Free(n) == n \notin Catalogued

\* LOAD MATRIX: the check that the name is free looks up a table that is never
\* there, so only the .csv has to exist.
LoadMatrix(n) ==
    /\ csv[n] # NoMatrix /\ Free(n)
    /\ Begin("load", n, n)
    /\ UNCHANGED <<csv, pageFile, catalogue, pool, answer>>

TransposeMatrix(n) ==
    /\ n \in Catalogued /\ Begin("transpose", n, n)
    /\ UNCHANGED <<csv, pageFile, catalogue, pool, answer>>

CheckSymmetry(n) ==
    /\ n \in Catalogued /\ Begin("symmetry", n, n)
    /\ UNCHANGED <<csv, pageFile, catalogue, pool, answer>>

ComputeMatrix(n) ==
    /\ n \in Catalogued /\ Free(ResultName[n])
    /\ Begin("compute", n, ResultName[n])
    /\ UNCHANGED <<csv, pageFile, catalogue, pool, answer>>

\* RENAME MATRIX: the catalogue changes first; only the old name is checked.
RenameMatrix(n, to) ==
    /\ n \in Catalogued /\ Free(to)
    /\ Begin("rename", n, to)
    /\ catalogue' = [[catalogue EXCEPT ![n] = 0] EXCEPT ![to] = catalogue[n]]
    /\ UNCHANGED <<csv, pageFile, pool, answer>>

\* EXPORT MATRIX: makePermanent writes the rows of all pages to the .csv.
ExportMatrix(n) ==
    /\ job = Idle /\ commands < MaxCommands /\ n \in Catalogued
    /\ commands' = commands + 1
    /\ \E junk \in Uninitialised :
          /\ csv' = [csv EXCEPT ![n] = ReadMatrix(n, catalogue[n], junk)]
          /\ pool' = PoolAfter(RowReads(n, catalogue[n], catalogue[n]), junk)
    /\ UNCHANGED <<pageFile, catalogue, job, answer, before>>

\* PRINT MATRIX shows the first rows and columns.
PrintMatrix(n) ==
    /\ job = Idle /\ commands < MaxCommands /\ n \in Catalogued
    /\ commands' = commands + 1
    /\ LET shown == IF catalogue[n] < PRINT_COUNT THEN catalogue[n] ELSE PRINT_COUNT
       IN  \E junk \in Uninitialised :
              /\ answer' = <<"printed", ReadMatrix(n, shown, junk)>>
              /\ pool' = PoolAfter(RowReads(n, shown, shown), junk)
    /\ UNCHANGED <<csv, pageFile, catalogue, job, before>>

-----------------------------------------------------------------------------
\* Faulty version: the row of pages never changes.
NextPageSameRow(count) ==
    job' = IF job.col + 1 < count THEN [job EXCEPT !.col = @ + 1]
           ELSE IF job.row + 1 < count THEN [job EXCEPT !.col = 0]
           ELSE Idle

\* The loops over all pages, and over a page and those right of the diagonal.
NextPage(count) ==
    job' = IF job.col + 1 < count THEN [job EXCEPT !.col = @ + 1]
           ELSE IF job.row + 1 < count THEN [job EXCEPT !.row = @ + 1, !.col = 0]
           ELSE Idle
LastPair(count) == job.row = count - 1 /\ job.col = count - 1
NextPair(count) ==
    IF job.col + 1 < count THEN [job EXCEPT !.col = @ + 1]
    ELSE [job EXCEPT !.row = @ + 1, !.col = job.row + 1]

This(n) == <<n, job.row, job.col>>
Opposite(n) == <<n, job.col, job.row>>
PairRead(n) == IF job.row = job.col THEN <<This(n)>> ELSE <<This(n), Opposite(n)>>
Pair(n, page, opposite) == [name \in {This(n), Opposite(n)} |-> IF name = This(n) THEN page ELSE opposite]

\* matrixBlockify goes by columns of pages; the matrix enters the catalogue
\* when all are written.
LoadPage ==
    /\ job.op = "load"
    /\ LET n == job.name
           dim == Side(csv[n])
       IN  /\ pageFile' = Write(pageFile, [name \in {Opposite(n)} |-> PageOf(csv[n], job.col, job.row)])
           /\ NextPage(PageCount(dim))
           /\ catalogue' = IF job' = Idle THEN [catalogue EXCEPT ![n] = dim] ELSE catalogue
    /\ UNCHANGED <<csv, pool, answer, commands>>

\* doTranspose: a pair of pages is mirrored and swapped, and the pool emptied.
TransposePair ==
    /\ job.op = "transpose"
    /\ LET n == job.name
       IN  \E junk \in Uninitialised :
              pageFile' = Write(pageFile, Pair(n, Mirror(GetMatrix(Opposite(n), junk)),
                                                  Mirror(GetMatrix(This(n), junk))))
    /\ pool' = <<>>
    /\ job' = IF LastPair(Pages(job.name)) THEN Idle ELSE NextPair(Pages(job.name))
    /\ UNCHANGED <<csv, catalogue, answer, commands>>

\* doCheckSymmetry: the first pair that differs answers FALSE.
SymmetryPair ==
    /\ job.op = "symmetry"
    /\ LET n == job.name
       IN  \E junk \in Uninitialised :
              /\ pool' = PoolAfter(PairRead(n), junk)
              /\ IF GetMatrix(This(n), junk) # Mirror(GetMatrix(Opposite(n), junk))
                 THEN answer' = <<"symmetric", FALSE>> /\ job' = Idle
                 ELSE IF LastPair(Pages(n)) THEN answer' = <<"symmetric", TRUE>> /\ job' = Idle
                 ELSE job' = NextPair(Pages(n)) /\ UNCHANGED answer
    /\ UNCHANGED <<csv, pageFile, catalogue, commands>>

\* Faulty version: the page files of the old name stay.
RenamePageKeepsFile ==
    /\ job.op = "rename"
    /\ \E junk \in Uninitialised :
          /\ pageFile' = Write(pageFile, [name \in {This(job.to)} |-> GetMatrix(This(job.name), junk)])
          /\ pool' = PoolAfter(<<This(job.name)>>, junk)
    /\ NextPage(Pages(job.to))
    /\ UNCHANGED <<csv, catalogue, answer, commands>>

\* renameMatrix: a page is read, its file removed, and written under the new name.
RenamePage ==
    /\ job.op = "rename"
    /\ \E junk \in Uninitialised :
          /\ pageFile' = Write(Unlink(pageFile, {This(job.name)}),
                               [name \in {This(job.to)} |-> GetMatrix(This(job.name), junk)])
          /\ pool' = PoolAfter(<<This(job.name)>>, junk)
    /\ NextPage(Pages(job.to))
    /\ UNCHANGED <<csv, catalogue, answer, commands>>

Minus(page, other) == [cell \in PageCells |-> page[cell] - other[cell]]

\* computeOnMatrix: a pair of pages of the result.
ComputePair ==
    /\ job.op = "compute"
    /\ LET n == job.name
       IN  \E junk \in Uninitialised :
              LET difference == Minus(GetMatrix(This(n), junk), Mirror(GetMatrix(Opposite(n), junk)))
              IN  /\ pageFile' = Write(pageFile, Pair(job.to, difference,
                                           Mirror([cell \in PageCells |-> -difference[cell]])))
                  /\ pool' = PoolAfter(PairRead(n), junk)
    /\ job' = IF LastPair(Pages(job.name)) THEN [job EXCEPT !.op = "result"] ELSE NextPair(Pages(job.name))
    /\ UNCHANGED <<csv, catalogue, answer, commands>>

\* The rest of computeOnMatrix: the result's pages become its .csv, and then
\* each is read once more and removed.
ComputeResult ==
    /\ job.op = "result"
    /\ LET dim == catalogue[job.name]
       IN  \E junk \in Uninitialised :
              /\ csv' = [csv EXCEPT ![job.to] = ReadMatrix(job.to, dim, junk)]
              /\ pool' = PoolAfter(RowReads(job.to, dim, dim) \o PageReads(job.to, dim), junk)
              /\ pageFile' = Unlink(pageFile, PagesOf(job.to, dim))
    /\ job' = Idle
    /\ UNCHANGED <<catalogue, answer, commands>>

\* One step of the command that runs.
Working ==
    /\ LoadPage \/ TransposePair \/ SymmetryPair \/ RenamePage \/ ComputePair \/ ComputeResult
    /\ before' = IF job' = Idle THEN NoMatrix ELSE before

Next ==
    \/ \E n \in Names : LoadMatrix(n)
    \/ \E n \in Names : TransposeMatrix(n)
    \/ \E n \in Names : CheckSymmetry(n)
    \/ \E n \in Names : ComputeMatrix(n)
    \/ \E n \in Names : ExportMatrix(n)
    \/ \E n \in Names : PrintMatrix(n)
    \/ \E n, to \in Names : RenameMatrix(n, to)
    \/ Working

\* A command that has begun runs to its end: the server is one thread.
Spec == Init /\ [][Next]_vars /\ WF_vars(Working)

-----------------------------------------------------------------------------
\* Every catalogued matrix has all its page files, and nothing else is in the
\* directory: RENAME leaves none under the old name and COMPUTE none of its result.
PageFilesAreCatalogued ==
    job = Idle => DOMAIN pageFile = UNION {PagesOf(n, catalogue[n]) : n \in Catalogued}

Promised == INSTANCE MatrixStore WITH
    matrices <- IF job = Idle THEN Held ELSE before.matrices,
    csv <- IF job = Idle THEN csv ELSE before.csv

\* Whatever the order of the commands, each does to the matrices, to the .csv
\* files and to the answers what it would do to whole matrices in memory.
ImplementsMatrixStore == Promised!Spec

\* Every command ends.
CommandEnds == job # Idle ~> job = Idle
=============================================================================
