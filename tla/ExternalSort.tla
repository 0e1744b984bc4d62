---------------------------- MODULE ExternalSort ----------------------------
(***************************************************************************)
(* src/src/table.cpp, cursor.cpp and page.cpp: the SORT command, an        *)
(* external merge sort in place.  Every page is sorted by itself; then     *)
(* groups of BLOCK_COUNT - 1 runs are merged, the merged rows go to Dummy  *)
(* files, and when all groups are merged the Dummy files overwrite the     *)
(* pages.  How many rows a page holds was recorded when the table was      *)
(* loaded (rowsPerBlockCount) and is never written again.                  *)
(***************************************************************************)
EXTENDS Integers, FiniteSets, SequencesExt

CONSTANTS Tables,            \* the tables that may be loaded: sequences of rows
          SortSpecs,         \* bound: the sort keys asked for
          BLOCK_COUNT,       \* pages that fit in memory
          maxRowsPerBlock,   \* rows that fit in a page
          MaxSorts           \* bound: the number of SORT commands

\* A row is the sequence of its column values, all int; a sort key the sequence of the
\* columns to compare, first one first, with the strategy of each.
ASSUME SortAssumption ==
    /\ BLOCK_COUNT \in Nat /\ BLOCK_COUNT > 2
    /\ maxRowsPerBlock \in Nat \ {0}
    /\ MaxSorts \in Nat
    /\ \A t \in Tables : /\ t \in Seq(Seq(Int)) /\ t # <<>>
                        /\ \A i, j \in DOMAIN t : DOMAIN t[i] = DOMAIN t[j]
    /\ \A spec \in SortSpecs :
          /\ spec \in Seq([column : Nat, strategy : {"ASC", "DESC"}]) /\ spec # <<>>
          /\ \A i \in DOMAIN spec, t \in Tables : spec[i].column \in DOMAIN t[1]

VARIABLES loaded,      \* the rows the table was loaded with
          pageFile,    \* the page files: page index -> rows
          sourceFile,  \* the rows of the exported .csv
          sortBy,      \* columnIndexes and sortValues
          pc,
          pageIndex,   \* the page, or the first page of the group, at work
          size,        \* the pages of a run in this iteration
          cursors,     \* the cursors of the group's runs
          pq,          \* the priority queue: cursor -> row
          mergeData,   \* rows that are merged and not yet in a file
          dummy,       \* the Dummy files of this iteration
          merged,      \* history: the rows this group has moved to Dummy files
          overfilled,  \* history: a Dummy file outgrew its page
          sorts        \* history: the number of SORT commands

vars == <<loaded, pageFile, sourceFile, sortBy, pc, pageIndex, size, cursors, pq,
          mergeData, dummy, merged, overfilled, sorts>>

K == BLOCK_COUNT - 1
LowerOf(a, b) == IF a < b THEN a ELSE b
Ceiling(a, b) == (a + b - 1) \div b

blockCount == Ceiling(Len(loaded), maxRowsPerBlock)
Pages == 0 .. blockCount - 1
rowsPerBlockCount(p) == LowerOf(maxRowsPerBlock, Len(loaded) - p * maxRowsPerBlock)

\* blockify: the rows of the file, page by page.
Blockify(rows, p) ==
    SubSeq(rows, p * maxRowsPerBlock + 1, LowerOf((p + 1) * maxRowsPerBlock, Len(rows)))

\* Page::Page: as many rows as the page was loaded with.  A shorter file ends
\* the stream, and the rows that are missing repeat the last number read.
ReadRow(p, i) == IF i <= Len(pageFile[p]) THEN pageFile[p][i]
                 ELSE [c \in DOMAIN loaded[1] |-> Last(Last(pageFile[p]))]
ReadPage(p) == [i \in 1 .. rowsPerBlockCount(p) |-> ReadRow(p, i)]

\* The rows a cursor passes from page p to page q: all pages but the last of
\* the table are full.
RowsFrom(p, q) ==
    [i \in 1 .. LowerOf((q + 1) * maxRowsPerBlock, Len(loaded)) - p * maxRowsPerBlock |->
        ReadRow(p + (i - 1) \div maxRowsPerBlock, ((i - 1) % maxRowsPerBlock) + 1)]
TableRows == RowsFrom(0, blockCount - 1)

\* sortComparator and CompareByFirstElement: row a belongs before row b.
Precedes(a, b) ==
    \E i \in DOMAIN sortBy :
        /\ \A j \in 1 .. i - 1 : a[sortBy[j].column] = b[sortBy[j].column]
        /\ \/ sortBy[i].strategy = "ASC"  /\ a[sortBy[i].column] < b[sortBy[i].column]
           \/ sortBy[i].strategy = "DESC" /\ a[sortBy[i].column] > b[sortBy[i].column]

Sorted(rows) == \A i \in 1 .. Len(rows) - 1 : ~Precedes(rows[i + 1], rows[i])

BagOf(rows) == [row \in ToSet(rows) |-> Cardinality({i \in DOMAIN rows : rows[i] = row})]

\* What std::sort may make of the rows: it is not stable.
SortedOrders(rows) ==
    {order \in [DOMAIN rows -> ToSet(rows)] : Sorted(order) /\ BagOf(order) = BagOf(rows)}

Init ==
    /\ loaded \in Tables
    /\ pageFile = [p \in Pages |-> Blockify(loaded, p)]
    /\ sourceFile = loaded
    /\ sortBy = <<>> /\ pc = "idle" /\ pageIndex = 0 /\ size = 1
    /\ cursors = <<>> /\ pq = <<>> /\ mergeData = <<>> /\ dummy = <<>>
    /\ merged = <<>> /\ overfilled = FALSE /\ sorts = 0

SORT(spec) ==
    /\ pc = "idle" /\ sorts < MaxSorts
    /\ sortBy' = spec
    /\ pc' = "sortPages" /\ pageIndex' = 0
    /\ sorts' = sorts + 1
    /\ UNCHANGED <<loaded, pageFile, sourceFile, size, cursors, pq, mergeData, dummy, merged, overfilled>>

\* Faulty versions: one iteration too few, and runs that never grow.
NextIterationEndsEarly(runSize) ==
    /\ size' = runSize
    /\ pageIndex' = 0
    /\ pc' = IF runSize * K < blockCount THEN "open" ELSE "finish"
NextIterationSameSize(runSize) ==
    /\ size' = 1
    /\ pageIndex' = 0
    /\ pc' = IF size < blockCount THEN "open" ELSE "finish"

\* An iteration runs while a run is shorter than the table: the number of
\* iterations is the logarithm of blockCount to base K, rounded up.
NextIteration(runSize) ==
    /\ size' = runSize
    /\ pageIndex' = 0
    /\ pc' = IF runSize < blockCount THEN "open" ELSE "finish"

\* sortTable: one page is read, sorted and written back.
SortPage ==
    /\ pc = "sortPages"
    /\ \E rows \in SortedOrders(ReadPage(pageIndex)) : pageFile' = [pageFile EXCEPT ![pageIndex] = rows]
    /\ IF pageIndex + 1 < blockCount
       THEN pageIndex' = pageIndex + 1 /\ UNCHANGED <<pc, size>>
       ELSE NextIteration(1)
    /\ UNCHANGED <<loaded, sourceFile, sortBy, cursors, pq, mergeData, dummy, merged, overfilled, sorts>>

\* The last page of the run that starts at page p.
RunEnd(p) == LowerOf(p + size, blockCount) - 1
\* The first page after the group.
GroupEnd == LowerOf(pageIndex + K * size, blockCount)

\* Faulty version: the last run of a group is left out.
OpenGroupDropsRun ==
    /\ pc = "open"
    /\ LET runs == 1 .. (GroupEnd - pageIndex) \div size
           start(r) == pageIndex + (r - 1) * size
       IN  /\ cursors' = [r \in runs |-> [page |-> start(r), row |-> 1, last |-> RunEnd(start(r))]]
           /\ pq' = [r \in runs |-> ReadPage(start(r))[1]]
    /\ merged' = <<>>
    /\ pc' = "merge"
    /\ UNCHANGED <<loaded, pageFile, sourceFile, sortBy, pageIndex, size, mergeData, dummy, overfilled, sorts>>

\* A cursor for every run of the group, and the first row of each in the queue.
OpenGroup ==
    /\ pc = "open"
    /\ LET runs == 1 .. Ceiling(GroupEnd - pageIndex, size)
           start(r) == pageIndex + (r - 1) * size
       IN  /\ cursors' = [r \in runs |-> [page |-> start(r), row |-> 1, last |-> RunEnd(start(r))]]
           /\ pq' = [r \in runs |-> ReadPage(start(r))[1]]
    /\ merged' = <<>>
    /\ pc' = "merge"
    /\ UNCHANGED <<loaded, pageFile, sourceFile, sortBy, pageIndex, size, mergeData, dummy, overfilled, sorts>>

\* The merged rows go to the next Dummy file when they fill a page.
WriteDummy(rows) ==
    IF Len(rows) = maxRowsPerBlock
    THEN dummy' = Append(dummy, rows) /\ merged' = merged \o rows /\ mergeData' = <<>>
    ELSE mergeData' = rows /\ UNCHANGED <<dummy, merged>>

\* Faulty version: the queue is ordered by the first column only, ascending.
TopOfFirstColumn(r) == \A other \in DOMAIN pq : pq[r][1] <= pq[other][1]

\* pq.top(): no row in the queue belongs before it.  Ties are open.
Top(r) == \A other \in DOMAIN pq : ~Precedes(pq[other], pq[r])

\* Cursor::getNextPageRow, and getNext into the next page of the run.
Advanced(c) == IF c.row < rowsPerBlockCount(c.page) THEN [c EXCEPT !.row = @ + 1]
               ELSE [c EXCEPT !.page = @ + 1, !.row = 1]
AtEndOfRun(c) == c.page = c.last /\ c.row = rowsPerBlockCount(c.page)

\* The least row leaves the queue, and the next row of its run enters it.
MergeRow(r) ==
    /\ pc = "merge" /\ r \in DOMAIN pq /\ Top(r) /\ ~AtEndOfRun(cursors[r])
    /\ LET next == Advanced(cursors[r])
       IN  /\ cursors' = [cursors EXCEPT ![r] = next]
           /\ pq' = [pq EXCEPT ![r] = ReadPage(next.page)[next.row]]
    /\ WriteDummy(Append(mergeData, pq[r]))
    /\ UNCHANGED <<loaded, pageFile, sourceFile, sortBy, pc, pageIndex, size, overfilled, sorts>>

\* The same for the last row of a run.  The loop continues before it looks
\* whether the merged rows fill a page.
MergeLastRow(r) ==
    /\ pc = "merge" /\ r \in DOMAIN pq /\ Top(r) /\ AtEndOfRun(cursors[r])
    /\ pq' = [other \in DOMAIN pq \ {r} |-> pq[other]]
    /\ mergeData' = Append(mergeData, pq[r])
    /\ UNCHANGED <<loaded, pageFile, sourceFile, sortBy, pc, pageIndex, size, cursors, dummy, merged, overfilled, sorts>>

\* Faulty version: the rows that were written are merged again in the next group.
EndGroupKeepsRows ==
    /\ pc = "merge" /\ DOMAIN pq = {}
    /\ dummy' = IF mergeData = <<>> THEN dummy ELSE Append(dummy, mergeData)
    /\ merged' = merged \o mergeData
    /\ pageIndex' = GroupEnd
    /\ pc' = IF GroupEnd < blockCount THEN "open" ELSE "copy"
    /\ UNCHANGED <<loaded, pageFile, sourceFile, sortBy, size, cursors, pq, mergeData, overfilled, sorts>>

\* The queue is empty: what is left goes to a Dummy file of its own.
EndGroup ==
    /\ pc = "merge" /\ DOMAIN pq = {}
    /\ dummy' = IF mergeData = <<>> THEN dummy ELSE Append(dummy, mergeData)
    /\ merged' = merged \o mergeData
    /\ mergeData' = <<>>
    /\ pageIndex' = GroupEnd
    /\ pc' = IF GroupEnd < blockCount THEN "open" ELSE "copy"
    /\ UNCHANGED <<loaded, pageFile, sourceFile, sortBy, size, cursors, pq, overfilled, sorts>>

\* The Dummy files overwrite the pages of the same index and are removed.
CopyBack ==
    /\ pc = "copy"
    /\ pageFile' = [p \in Pages \cup 0 .. Len(dummy) - 1 |->
                       IF p < Len(dummy) THEN dummy[p + 1] ELSE pageFile[p]]
    /\ overfilled' = (overfilled \/ \E i \in DOMAIN dummy : Len(dummy[i]) > maxRowsPerBlock)
    /\ dummy' = <<>> /\ merged' = <<>>
    /\ NextIteration(size * K)
    /\ UNCHANGED <<loaded, sourceFile, sortBy, cursors, pq, mergeData, sorts>>

\* The sort key is cleared and makePermanent writes the table to its .csv.
Finish ==
    /\ pc = "finish"
    /\ sourceFile' = TableRows
    /\ sortBy' = <<>> /\ pc' = "idle"
    /\ UNCHANGED <<loaded, pageFile, pageIndex, size, cursors, pq, mergeData, dummy, merged, overfilled, sorts>>

Working ==
    \/ SortPage
    \/ OpenGroup
    \/ \E r \in DOMAIN pq : MergeRow(r)
    \/ \E r \in DOMAIN pq : MergeLastRow(r)
    \/ EndGroup
    \/ CopyBack
    \/ Finish

Next == (\E spec \in SortSpecs : SORT(spec)) \/ Working

\* A SORT that has started runs to its end: the server is one thread.
Spec == Init /\ [][Next]_vars /\ WF_vars(Working)

-----------------------------------------------------------------------------
\* Type invariant.  No page file is ever empty, so reading one always finds a
\* number; the Dummy files never outnumber the pages, also after one of them
\* outgrew its page, so copying them back makes no page that nobody reads; and
\* the merged rows that wait are no more than the table's.
TypeOK ==
    /\ \A p \in DOMAIN pageFile : pageFile[p] # <<>>
    /\ DOMAIN pageFile = Pages /\ Len(dummy) <= blockCount
    /\ sortBy \in SortSpecs \cup {<<>>}
    /\ pc \in {"idle", "sortPages", "open", "merge", "copy", "finish"}
    /\ pageIndex \in 0 .. blockCount /\ size \in Nat \ {0}
    /\ Len(mergeData) <= Len(loaded) /\ overfilled \in BOOLEAN /\ sorts \in 0 .. MaxSorts

\* The rows of run r that its cursor has still to give after the one queued.
Unread(r) ==
    LET c == cursors[r]
    IN  SubSeq(ReadPage(c.page), c.row + 1, rowsPerBlockCount(c.page)) \o RowsFrom(c.page + 1, c.last)

AfterGroup == IF pc = "merge" THEN GroupEnd ELSE pageIndex

\* Merging neither loses nor repeats a row: in every iteration the rows in the
\* Dummy files, in mergeData, in the queue and still to be read are the rows
\* the table had when the iteration began (the loops of externalSort).
MergeKeepsRows ==
    pc \in {"open", "merge", "copy"} =>
        LET queued == {r \in DOMAIN pq : pc = "merge"}
            waiting == FoldSet(LAMBDA r, rows : rows \o <<pq[r]>> \o Unread(r), <<>>, queued)
        IN  BagOf(FlattenSeq(dummy) \o mergeData \o waiting \o RowsFrom(AfterGroup, blockCount - 1))
              = BagOf(TableRows)

\* As long as no Dummy file has outgrown its page, every run of an iteration
\* is in order, across the pages it is spread over (externalSort).
RunsInOrder ==
    pc \in {"open", "merge", "copy"} /\ ~overfilled =>
        \A p \in Pages : p % size = 0 => Sorted(RowsFrom(p, RunEnd(p)))

\* A sort in which no Dummy file outgrew its page ends with the rows of the
\* table in order (sortTable and externalSort as a whole).
SortedUnlessOverfilled ==
    pc = "finish" /\ ~overfilled => Sorted(TableRows) /\ BagOf(TableRows) = BagOf(loaded)

\* Every SORT ends.
SortEnds == pc # "idle" ~> pc = "idle"

\* README.md on SORT: the sorted data is written back to the table and
\* finalised.  The rows after a sort are the rows before it.
SortKeepsRows == pc = "finish" => BagOf(TableRows) = BagOf(loaded)
=============================================================================
