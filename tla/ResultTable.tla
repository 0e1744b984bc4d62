----------------------------- MODULE ResultTable -----------------------------
(***************************************************************************)
(* The end that Table::joinTables and Table::groupBy (src/src/table.cpp)   *)
(* share: the rows of the result are collected in pageData, written to     *)
(* page files of maxRowsPerBlock rows under data/temp, and copied from     *)
(* there, page by page, to the end of the result's .csv.  The page files   *)
(* of an earlier result of the same name may still be there: its blocks    *)
(* were never counted, so CLEAR has not removed them.                      *)
(***************************************************************************)
EXTENDS Integers, SequencesExt, FiniteSetsExt

CONSTANTS maxRowsPerBlock,  \* of the result table
          OldRow            \* a row of an earlier result

ASSUME ResultAssumption == maxRowsPerBlock \in Nat \ {0}

VARIABLES pc,           \* where the assignment is
          pageData,     \* the rows of the page that is being filled
          pageFile,     \* the page files of the result's name in data/temp
          pageCounter,  \* how many of them this assignment has written
          copied,       \* how many of these are in the .csv
          csv,          \* the rows this assignment has put in the .csv
          rows          \* history: the rows produced; totalRow is their number

resultVars == <<pc, pageData, pageFile, pageCounter, copied, csv, rows>>

\* How a condition compares two numbers; != has no case (table.cpp 700-716, 958).
Holds(binOp, a, b) ==
    \/ binOp = "==" /\ a = b
    \/ binOp = ">"  /\ a > b
    \/ binOp = ">=" /\ a >= b
    \/ binOp = "<"  /\ a < b
    \/ binOp = "<=" /\ a <= b

BinaryOperators == {"==", ">", ">=", "<", "<=", "!="}

\* Nothing of a result is there but page files of earlier ones.
NoResult == pageData = <<>> /\ pageCounter = 0 /\ copied = 0 /\ csv = <<>> /\ rows = <<>>

ResultInit == pc = "idle" /\ pageFile = <<>> /\ NoResult

\* BufferManager::writePage opens the file of the next page and truncates it.
WritePage(page) ==
    /\ pageCounter' = pageCounter + 1
    /\ pageFile' = IF pageCounter < Len(pageFile) THEN [pageFile EXCEPT ![pageCounter + 1] = page]
                   ELSE Append(pageFile, page)

\* Faulty version: a page that was written is not cleared.
CollectKeepsPage(new) ==
    /\ rows' = rows \o new
    /\ pageData' = pageData \o new
    /\ IF Len(pageData') = maxRowsPerBlock THEN WritePage(pageData')
       ELSE UNCHANGED <<pageFile, pageCounter>>
    /\ UNCHANGED <<copied, csv>>

\* New rows go to the page, which is written when it is full.
Collect(new) ==
    /\ rows' = rows \o new
    /\ LET page == pageData \o new
       IN  IF Len(page) = maxRowsPerBlock
           THEN WritePage(page) /\ pageData' = <<>>
           ELSE pageData' = page /\ UNCHANGED <<pageFile, pageCounter>>
    /\ UNCHANGED <<copied, csv>>

\* After the loop: the page that was begun is written, if there is one.
WriteLastPage ==
    /\ pc = "last"
    /\ IF pageData = <<>> THEN UNCHANGED <<pageFile, pageCounter>> ELSE WritePage(pageData)
    /\ pageData' = <<>>
    /\ pc' = "copy"
    /\ UNCHANGED <<copied, csv, rows>>

\* Faulty version: pages are copied as long as there are files.
CopyPageThatExists ==
    /\ pc = "copy"
    /\ IF copied < Len(pageFile)
       THEN csv' = csv \o pageFile[copied + 1] /\ copied' = copied + 1 /\ UNCHANGED pc
       ELSE pc' = "done" /\ UNCHANGED <<csv, copied>>
    /\ UNCHANGED <<pageData, pageFile, pageCounter, rows>>

\* The page files are read back, line by line, into the .csv.
CopyPage ==
    /\ pc = "copy"
    /\ IF copied < pageCounter
       THEN csv' = csv \o pageFile[copied + 1] /\ copied' = copied + 1 /\ UNCHANGED pc
       ELSE pc' = "done" /\ UNCHANGED <<csv, copied>>
    /\ UNCHANGED <<pageData, pageFile, pageCounter, rows>>

\* The result is cleared, or the server starts again and empties data/temp.
\* The page files that stay hold old rows.
Forget ==
    /\ pc \in {"done", "crashed"}
    /\ pc' = "idle"
    /\ pageFile' = IF pc = "done" THEN [p \in DOMAIN pageFile |-> <<OldRow>>] ELSE <<>>
    /\ pageData' = <<>> /\ pageCounter' = 0 /\ copied' = 0 /\ csv' = <<>> /\ rows' = <<>>

-----------------------------------------------------------------------------
\* Part of the type invariant.  A page never has more rows than a block has
\* room for, and what is written and copied is there.
ResultTypeOK ==
    /\ pc \in {"idle", "outer", "left", "right", "row", "last", "copy", "done", "crashed"}
    /\ Len(pageData) <= maxRowsPerBlock
    /\ copied \in 0 .. pageCounter /\ pageCounter \in 0 .. Len(pageFile)

\* How many of total rows fit in n pages.
Room(n, total) == IF n * maxRowsPerBlock < total THEN n * maxRowsPerBlock ELSE total

\* Page p has the rows from the one behind those of page p - 1 on, as many as
\* it has room for and at least one, whatever page files were there before; the
\* page that is being filled has the others; and the .csv has what has been
\* copied, in the end every row, in order.
PagesHoldRows ==
    LET Upto(n) == Room(n, Len(rows))
    IN  /\ \A p \in 1 .. pageCounter :
              pageFile[p] # <<>> /\ pageFile[p] = SubSeq(rows, Upto(p - 1) + 1, Upto(p))
        /\ pageData = SubSeq(rows, Upto(pageCounter) + 1, Len(rows))
        /\ csv = SubSeq(rows, 1, Upto(copied))
        /\ pc = "done" => csv = rows
=============================================================================
