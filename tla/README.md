# Mini-SQL-Engine in TLA+

The repository holds two programs that share no code:

* **the server** (`src/`): an interpreter for a small SQL dialect over integer tables and square
  matrices, with its own page files and a buffer pool;
* **BPTree/**: an interpreter for `INSERT`, `DELETE` and `RANGE` on one set of keys, stored twice:
  in a chain of block files (the *unordered heap*) and in a B+ tree that points into them.

Both are sequential programs: one thread, one command at a time, no network, no locks. What makes
them hard is that nearly all state is in files, which are read, changed and written back one at a
time by walks and recursions that hold pointers to them. A command is therefore modelled as many
steps, one per file (or pair of files, or merged row), and not as one atomic change. The process can
also die between two steps, and the next run meets the files it left under `data/`.

Paths below are the repository's. Modules, configurations and this file are all the project has.

## 1. Inventory

| component | state | operations | what makes it correct |
|---|---|---|---|
| blocks and unordered heap (`BPTree/src/Block.cpp`, `UnorderedHeap.cpp`) | block files (`size`, slots, `next`), `first_block_ptr` | `insert_key`, `delete_key`, `range`: walks along `next` | no block lost, no cycle, size = occupied slots, no walk misses a record, emptied blocks leave the chain |
| B+ tree (`BPTree.cpp`, `TreeNode.cpp`, `InternalNode.cpp`, `LeafNode.cpp`) | node files, `root_ptr` | `insert_key` (split), `delete_key` (redistribute, merge, shrink root), `range` (leaf chain) | search order, balance, occupancy, one file per place in the tree, leaf chain in key order and complete |
| commands of BPTree/ (`Query.cpp`, `RecordPtr.cpp`, `main.cpp`) | none of its own | `INSERT`, `DELETE`, `RANGE` on both stores; `ANALYSE`, `EXPORT`, `SOURCE` | the stores agree; a pointer in the tree leads to its record |
| external sort (`src/table.cpp` 363-616, `cursor.cpp`, `page.cpp`) | page files of a table, Dummy files, per-page row counts, sort keys | `SORT`: sort pages, merge runs, copy back | same rows, in order; files and recorded counts agree |
| matrices (`src/matrix.cpp`, `matrixCatalogue.cpp`, `executors/*matrix*`, `transpose`, `compute`, `checkSymmetry`) | catalogue, page files, csv files | `LOAD`, `TRANSPOSE`, `CHECKSYMMETRY`, `COMPUTE`, `RENAME`, `EXPORT`, `PRINT MATRIX` | blockwise work = work on the whole matrix; catalogue and page files agree |
| buffer pool (`src/bufferManager.cpp`) | FIFO of `BLOCK_COUNT` pages | `getPage`, `getMatrix`, `writePage` | never serves a stale page |
| JOIN and GROUP BY (`src/table.cpp` 644-1071, `executors/join, groupBy`) | two cursors and a copy of one; five accumulators; `pageData` and the result's page files | sorted merge, aggregates per group, pages of the result copied to its csv | every matching pair once; a group has its own rows only; the csv has every row, in order |
| tables (`src/table.cpp`, `tableCatalogue.cpp`, `executors/load, clear, export, print, rename, sort, orderBy, groupBy, join`) | catalogue of `Table*`, page files in `data/temp`, csv files in `data` | commands; assignments that sort copies under fixed names | a catalogued table is alive and on disk; copies are removed; no other table changes |
| command loop and parsing (`src/server.cpp`, `syntacticParser.cpp`, ...) | `parsedQuery` | parse, check, execute; start wipes `data/temp`; `QUIT` | nothing of a failed command leaks into the next one (SORT does not keep to it: section 5) |

How they meet: a command of BPTree/ calls the heap and then the tree, handing a record pointer over.
In the server, executors reach tables and matrices by name through the two catalogues; the sort, the
joins and the assignments work on page files through cursors and the buffer pool; and everything of
one command is passed in the global `parsedQuery`. `Table::load` writes to `data/temp`, which each
start empties, while results and sorted copies are written to `data/`, which nothing empties.

For the buffer pool one line decides: in `BufferManager::getPage` the lookup is commented out, so
table pages are always read from disk; and `insertMatrixIntoPool` stores a matrix page under a name
that `inPool` is never asked for (`<name>_Page<r>_<c>` is applied twice). So in both halves the pool
is filled and never hit. The matrix commands write directly to disk and rely on this without knowing it;
`Matrices` models the pool with its names, and `PoolNameOfFile` (section 3) shows what the natural
"fix" of the name would break.

## 2. Plan

Order of work, most important behaviour first. *(done)* marks what exists.

1. *(done)* `UnorderedHeap` against `RecordStore`, with its proofs in `UnorderedHeapProofs`.
2. *(done)* `BPTree` against `Index`; one instance whose tables go both deep and wide.
3. *(done)* `Query`: the composition of 1 and 2.
4. *(done)* `ExternalSort`.
5. *(done)* `Matrices` against `MatrixStore`.
6. *(done)* `TableSession`: tables across commands, with kills and restarts.
7. *(done)* `JoinRows` and `GroupRows` over `ResultTable`, composed in `Assignments`: the rows of JOIN and
   GROUP BY against their definitions as sets of pairs and as aggregates over groups; with proofs in
   `AssignmentsProofs`.
8. *(done)* `TableSessionProofs`.
9. *(done)* `MatricesProofs`: the page files, and the refinement of `MatrixStore`.
10. *(done)* `KeyOrderProofs`, `BPTreeInvariant` and `BPTreeProofs`: every invariant of `BPTree`, from one inductive invariant.
11. *(done)* The refinement of `Index`, and the scan, also in `BPTreeProofs`.
12. *(done)* `QueryProofs`: every invariant of `Query`, from what the heap and the tree promise.
13. *(done)* `ExternalSortProofs`: every invariant of `ExternalSort`, from one inductive invariant.
14. *(done)* `GroupsAreRight`, in `AssignmentsProofs`, by what the accumulators are at each row.
15. Next: `BPTree` with duplicate inserts, once it is settled what the program owes to one.

Abstract specifications: `RecordStore` (slots that hold keys: put one, take one, list), `Index`
(a function from keys to pointers), `MatrixStore` (whole matrices and csv files by name).

## 3. Modules

| module | models | state and actions |
|---|---|---|
| `RecordStore` | promise of the heap | slots of keys; atomic `Insert`, `DeleteOne`, `DeleteNone`, `Range` |
| `UnorderedHeap` | `Block.cpp`, `UnorderedHeap.cpp` | `disk`, `first_block_ptr`, and the locals `current`, `previous` of the walk; one action per turn of a loop (`InsertHere`, `InsertSkip`, `InsertAppend`, `DeleteHere`, `DeleteSkip`, ... `UnlinkBlock`) |
| `UnorderedHeapProofs` | | the theorems of section 6 |
| `KeyOrder` | iteration over sorted keys | operators on finite sets of integers |
| `KeyOrderProofs` | | lemmas: what the sorted sequence of a finite set is, and its parts; how a map is read off in key order; what a fold over a finite set is, and a sum |
| `Index` | promise of the tree | one function from keys to pointers |
| `BPTree` | `BPTree.cpp`, `TreeNode.cpp`, `InternalNode.cpp`, `LeafNode.cpp` | `node` (files), `root_ptr`, `cur`, and `path`, which is the recursion's stack; one action per node's turn, named as the code's functions |
| `BPTreeInvariant` | | the two inductive invariants `Inv` and `MapInv` of `BPTree`, and the words its proofs use for a tree of node files |
| `BPTreeProofs` | | the theorems of section 6 |
| `Query` | `Query.cpp`, `RecordPtr.cpp` | instances of the two above, the running command and whose turn it is |
| `QueryProofs` | | the theorems of section 6 |
| `ExternalSort` | `sortTable`, `externalSort`, cursors | page files, the queue and cursors of the merge, `mergeData`, Dummy files; one action per page, per merged row, per group and iteration |
| `ExternalSortProofs` | | the theorems of section 6 |
| `MatrixStore` | promise of the matrix commands | matrices and csv by name, atomic commands |
| `Matrices` | matrix commands, catalogue, pool | page files, `pool`, the pair of pages the running command is at |
| `MatricesProofs` | | the theorems of section 6 |
| `ResultTable` | the end that `joinTables` and `groupBy` share | `pageData`, the result's page files and csv, how many were written and copied; `Collect` is used by the two below, `WriteLastPage`, `CopyPage`, `Forget` are actions |
| `JoinRows` | `Table::joinTables` | the cursors `row1`, `row2` and the copied cursor `inner`; one action per comparison (`Match`, `MatchLeft`, `MatchRight`, `Mismatch`, ...) |
| `GroupRows` | `Table::groupBy` | the cursor `row` and the accumulators; `NextRow`, `LastGroup` |
| `Assignments` | `executeJOIN`, `executeGROUPBY` | the two above over one `ResultTable`, assignment after assignment |
| `AssignmentsProofs` | | the theorems of section 6 |
| `TableSession` | tables over a session | where each name exists (catalogue, page files, csv) and with which columns; the sort keys in `parsedQuery`; the steps of an assignment, a `SetKey` and a `SortCopy` for each copy; `Kill`, `Restart` |
| `TableSessionProofs` | | the theorems of section 6 |

Choices that a reader of the code should know:

* **Files.** A file that does not exist reads as what the constructor leaves: an empty block (the first
  block *is* such a file, since `initialize()` wipes `temp/` after the globals created theirs), an empty
  leaf, and for a matrix page an uninitialised number (`Uninitialised`, any of two values, per read).
* **Names.** `gen_random_file_name` appends a counter; heap block names are that counter and so creation
  order. Tree node names are drawn from the unused ones, since nothing depends on their order. Nodes that
  a merge abandons leave `node`.
* **Death of the process** is a state: `pc = "crashed"` in `BPTree`, `status = "crashed"` in `TableSession`.
  Where the code has undefined behaviour the model has a choice: a SORT with more columns than strategies
  writes past a vector and may survive, or die before or after it writes the csv (if it dies in a later command
  of the damaged heap, that is a `Kill`); QUIT unloads freed tables likewise.
* **The keys of a SORT.** A command of `SortCommands` is what stands after the table's name: any number of columns,
  any number of strategies, and whether the list of these ends in one that is not known. `Parsed` appends both to what is
  there, as the parser does, and compares no lengths, as neither it nor the semantic check does.
* **The iteration count** of `externalSort` is a floating-point logarithm in the code and the exact
  logarithm rounded up in the model.
* **Rows in `TableSession`** are only "some" or "none", and column names stand for tables' shapes. What the rows
  are is the subject of `ExternalSort` and `Assignments`. These three meet at one place: JOIN and GROUP BY sort
  copies of their tables, and `Assignments` starts from copies that are ascending, which is what `SortedUnlessOverfilled`
  promises and `sort_keeps_rows` (section 5) shows to fail for some tables that overfill a Dummy file.
* **Rows in `Assignments`** are the columns that count: the join column, or group, value and HAVING value. Pages of a
  result hold `maxRowsPerBlock` rows, which is taken to be positive (a row must not be wider than a block).
  A page file's content is its rows, and `OldRow` is what an earlier result of the same name left there.
* **Faulty versions.** Operators commented as such (`DropFrontBlockToPrevious`, `left_mergeKeepsNext`,
  `PoolNameOfFile`, ...) are plausible mistakes in the definition below them. They are not used by any
  specification; `PROJECT.json` pairs each with the property that notices it.

## 4. Runs

Each run is `tlc -config <cfg> <module>`; the properties are stated in the modelled module. Sizes are
distinct states.

| run | module, cfg | bounds | shows |
|---|---|---|---|
| `heap` (417 k) | `MCUnorderedHeap` | keys 1..3, blocks of 2, 4 block files | refinement of `RecordStore`, chain invariants, every call returns. Deadlock is checked |
| `bptree` (335 k) | `MCBPTree` | FANOUT 3; 8 keys in any order and a ninth to ask for, 9 node files; and 13 keys in increasing order with deletes once 12 are in, 16 node files | shape, balance, order, occupancy, width, leaf chain, stack; refinement of `Index` |
| `query` (1.08 M) | `MCQuery` | 5 keys, blocks of 2, FANOUT 3 | heap and tree agree, pointers resolve |
| `sort` (326 k) | `MCExternalSort` | 3 blocks of memory (two-way merges), 2 rows per page, tables to 9 rows (5 pages), 2 SORTs, ties, ascending and descending | no row lost by the merge, runs in order, sorted unless overfilled |
| `matrices` (223 k) | `MCMatrices` | pages 2x2, matrices 3x3 (4 pages, padded) and 2x2, pool of 2, 7 commands | refinement of `MatrixStore`, no orphan pages |
| `session` (1.13 M) | `MCTableSession` | 2 names, 2 columns, 7 commands, 2 kills; seven SORTs (as many strategies as columns, too many, too few, an unknown one after none and after one, no column), up to 3 columns and 3 strategies left over from failed ones | life of tables and copies; what the copies are sorted by |
| `assignments` (1.18 M) | `MCAssignments` | all pairs of sorted tables of 1 to 3 rows over 3 values, all six operators; all sorted tables of 1 to 3 rows over groups -1, 1, 2, 3 with values of both signs, all aggregates; 2 rows per page | all matching pairs once, right groups, right pages, every assignment ends. Deadlock is checked |

Why the bounds reach the interesting cases. *Heap:* four blocks give a front, a middle and a last block
to unlink and one to append afterwards; three keys over blocks of two give duplicates, holes and full
blocks. *Tree:* eight keys with FANOUT 3 give three levels, every leaf redistribution and merge, on both
sides, splits of internal nodes and of the root, and its shrinking. Internal nodes lend and merge among
several siblings only from a dozen keys on, so the run has a second family of initial choices that loads
keys in one order and explores deletes, inserts and ranges from there. Every state with a legal call is explored, whatever the history. *Sort:* five pages with two-way
merges take three iterations with a short last group; all small tables of up to four rows over three values, and
permutations of up to nine, in both directions; a second SORT starts from pages that the first wrote.
*Matrices:* 3x3 in 2x2 pages has diagonal and mirrored pages with padding. *Session:* seven commands are
enough for a failed SORT, an assignment, CLEAR and the same assignment again with a restart in between, and two kills
for one in the assignment that meets what the other left. Three leftover columns and strategies are more than any of
its SORTs brings, and leave either the longer one.
*Assignments:* three rows on each side with repeated values make both copied cursors run, stop and reach
the ends of their tables; three rows make groups of every size in every position, a first, a middle and a last
one; results of up to nine rows in pages of two fill pages exactly, leave one begun, and are written over the page
files of longer and of shorter results, since assignments follow each other without end.
The bounds `MaxBlockId`, `MaxNodeId`, `MaxSorts`, `MaxCommands` and `MaxKills` are not the code's: they stop
a call or command from *beginning*, never one that runs. That is also why deadlock is not checked in the other runs: a session that has used up its commands
or has ended has nothing left to do, as has a tree whose process died. A run that hangs in the middle of a
call would violate the liveness property of its module instead.

`DuplicateInserts = FALSE` and `Free` in `Matrices` restrict the *callers*: keys are unique (as the code's own
comment in `UnorderedHeap::delete_key` says; `heap` has duplicates) and targets of matrix commands are unused (as
the repository's README.md:297 says; the code does not check it, section 5).

### What the properties say

* `NothingLost`, `ChainInOrder`, `NoEmptyBlock`, `SizeIsOccupancy` (heap): relate the chain to all files
  that exist, in the middle of calls too. `WalkMissesNothing` and `LocalsInChain` say what a walk has
  established by the time it stops.
* `SearchTreeOrder`, `TreeShape`, `BalancedDepth`, `LeafOccupancy` hold at *every step*, not only between
  calls; the exceptions a call needs while it repairs are spelled out in them. `StackIsPath` is about
  parents and siblings read on the way down and used on the way back.
* `NextIsSuccessor` says that a leaf's `next`, where there is one, is right; that one may be missing is
  the finding `RangeComplete`. `ScanMissesNothing` and `AnswersAgree` say how far a RANGE can be trusted.
* `NodeWidth` is the bound that the code really keeps (`2 * MIN_KEYS + 1` children, and TLC reaches it).
  `InternalNode.hpp:10-11` documents FANOUT as the bound; `leftMerge` counts keys where that rule counts children.
* `MergeKeepsRows` accounts for every row in the middle of a merge: written, buffered, queued and unread
  rows together are the table's. It holds even where the table loses rows afterwards.
* `ImplementsMatrixStore` covers the data of all matrix commands; `PageFilesAreCatalogued` the files.
* `NoCopiesAtRest`, `TablesOnDisk`, `OnlyTargetChanges` (session): no copy is left where a command has ended, a
  catalogued table is alive and has its files, and an assignment changes no table but its target. `NoCopiesAtRest`
  speaks of sessions in which no command has died (`died`): what a dead command leaves is not removed by anything.
  `TablesOnDisk` asks that the csv is there, not what it holds.
* `SortsByOwnKey`, a part of `TypeOK` (session): each copy of an assignment is sorted by the column it names, whatever
  failed SORTs have left in the keys.
* `JoinIsComplete` says at every comparison which pairs have been produced, in terms of where the cursors
  are; that the two inner loops and the step after them add up to all pairs, once each, is different for each of the
  five operators. `GroupsAreRight` compares the finished csv with aggregates defined over sets of rows. Which groups meet
  the condition is decided by the six operators that the commands have (`Satisfies`), not by the code's own
  comparison (`Holds`), which has five. Three cases in which the code gives no row are excluded by name: group -1,
  the aggregates of HAVING that are not counted (MIN, MAX, SUM), and the operator `!=` (section 5).
* `PagesHoldRows` (result tables): each page file written so far has its part of the rows, whatever older page
  files are there, the page being filled has the rest, and the csv has what was copied. `csv` is what this assignment has put into the
  file. The real file is appended to where one is there: that is `Appended` of `TableSession` and the finding `unused_name`.
* `ImplementsStore` and `ImplementsIndex` start from the files as the start of the program leaves them: that `temp/`
  is emptied after the globals made their first files is built into `Init`, and not something these properties could notice.
* `ImplementsMatrixStore` says nothing of commands whose target is a name in use; `Free` keeps them out (section 5).

### Fairness

A command is run to its end by the one thread that reads the next command afterwards. So weak fairness is
put on the steps of a running call only (`Work`, `Running`, ...), never on the user's commands. With it every call
ends (`CallReturns` of heap and tree, `SortEnds`, `CommandEnds` of the matrices, `AssignmentEnds`): no walk goes
round in a chain and no merge goes on for ever. In `BPTree` and `Assignments` the end may be the death of the
program. `Query` and `TableSession` state no fairness: their commands are sequences of calls that end, and a
restart or a kill is nobody's duty.

## 5. Where code and documents disagree

Five runs are expected to fail; each checks one sentence of the repository against the model. All five were
also reproduced with the compiled programs.

| run | the documents say | the code does |
|---|---|---|
| `range_complete` | `BPTree/src/Query.cpp:92-96`: RANGE uses "both B+Tree + heap and just the unordered heap" | the right half of a split leaf has no link to the old right neighbour (`LeafNode.cpp:63-94`), so the tree's RANGE ends early |
| `delete_returns` | `BPTree/src/BPTree.cpp:27`: "deletes key from bptree if exists" | an underfull first child is repaired through a left sibling that does not exist (`InternalNode.cpp:182-191`); 1..8 inserted, DELETE 1 dies |
| `sort_keeps_rows` | `README.md:103-109`: sorted data is written back to the table | `continue` skips the flush test (`table.cpp:455-458`): Dummy files outgrow pages and rows are lost |
| `having` | `README.md:138`: "If HAVING condition is met, store result in `groupedTable`" | a group is stored only if HAVING has counted its rows, which it does for COUNT and AVG alone (`table.cpp:964`, 1018, 1022): under HAVING MIN, MAX or SUM the result is empty. Nor is there a case for `!=` in the comparison (`table.cpp:930-934`, 964-968), which the parser accepts (`executors/groupBy.cpp:83`) and `README.md:250` lists: under HAVING COUNT or AVG with `!=` the result is empty as well. The run has both; confined to COUNT, AVG and `!=` it is violated too |
| `unused_name` | `docs/Commands.md:109,153`: CLEAR removes the table; new names "shouldn't already exist" | the csv of an ORDER BY result survives CLEAR and the next ORDER BY into the name aborts |

Met on the way and not made into runs:

* `README.md:297` says of matrices "Overwriting isn't permitted", but LOAD, RENAME and COMPUTE do not check the
  target name (`load.cpp:70`, `renameMatrix.cpp:16-24`, `matrix.cpp:503-510`), so a catalogued matrix may lose its pages;
* RETURN MIN and RETURN MAX start from 0 and not from the group's first value, so the minimum of positive
  values is 0; a group of value -1 is never stored, -1 being the mark for no group (`table.cpp:902`);
* inserting a key twice makes the leaf's `size` drift and a key 0 appear (`LeafNode.cpp:56-61`);
* PRINT of a JOIN or GROUP BY result reads row counts that were never set and dies; QUIT after such an
  assignment unloads freed copies;
* JOIN with `!=` calls a null function pointer (`table.cpp:698`), which leaves `temp_GroupBy1.csv` and
  `temp_GroupBy2.csv` behind for the next JOIN to append to;
* SORT takes any number of columns and of strategies and nobody compares the two (`sort.cpp:21-41`). One that fails
  leaves all of them in `parsedQuery` for the next SORT: after `SORT A BY x IN ASC ASC` with no column `x`,
  one column and two strategies. `SORT A BY a b IN ASC` writes past `columnIndexes`, which has room for one
  (`table.cpp:564-575`); with 18 columns and one strategy the compiled server aborts;
* `R <- SELECT/PROJECT/CROSS/DISTINCT ...` cannot be parsed (`syntacticParser.cpp:66`);
* `executors/groupBy.cpp:65` tests the HAVING aggregate where it means the returned one, so RETURN COUNT is
  accepted only after HAVING COUNT.

`TableSession` models the crashes and leftovers among these, `GroupRows` the odd aggregates, and their properties
hold in spite of them (`died` marks sessions in which a command died and left files).

## 6. Proofs

### The unordered heap

`UnorderedHeapProofs` proves about `UnorderedHeap`, for every set of keys, every `BLOCK_SIZE` and every
`MaxBlockId`:

| theorem | statement |
|---|---|
| `HeapInvariant` | `Spec => []Inv` |
| `HeapTypeOK`, `HeapSizeIsOccupancy`, `HeapChainInOrder`, `HeapNothingLost`, `HeapNoEmptyBlock`, `HeapWalkMissesNothing`, `HeapLocalsInChain` | `Spec => []P` for each invariant of the run `heap` |
| `HeapImplementsStore` | `Spec => ImplementsStore`: the walk of files refines the atomic store |

Assumptions: those named in `UnorderedHeap` (`KeysAssumption`: keys are naturals, so that the delete marker is
none; `BlockSizeAssumption`, `MaxBlockIdAssumption`: both positive).

The argument. `Inv` is the conjunction of the seven invariants and is inductive as a whole while none of
them is alone: that a delete may redirect `previous` without losing a block (`NothingLost`) needs that
`previous` and `current` are neighbours (`LocalsInChain`), which needs the chain to be strictly increasing
in block numbers (`ChainInOrder`); that an append goes to the end needs that the walk has skipped only full
blocks (`WalkMissesNothing`); and that an emptied block may go needs that its size is its occupancy
(`SizeIsOccupancy`). Reachability along the chain is not defined by recursion: a block file is *linked* when it is
the first or some block points to it, and the strict order of numbers excludes cycles, so `Linked` is what
the walk reaches. There is one lemma for each action (`InsertHereInv`, ..., `UnlinkBlockInv`), combined in `NextInv`.
The refinement maps each slot of each block file to a slot of the store; skipping and reclaiming steps
stutter, because emptied blocks hold no keys, and the one step that finds or misses the key is the store's step.

### The B+ tree

About `BPTree`, for every finite set of keys, every FANOUT from 3 on and any number of node files:

| theorem of `BPTreeProofs` | statement |
|---|---|
| `TreeInvariant` | `~DuplicateInserts /\ Spec => []Inv` |
| `Types`, `TreeShapeHolds`, `BalancedDepthHolds`, `SearchTreeOrderHolds`, `LeafOccupancyHolds`, `NodeWidthHolds`, `NextIsSuccessorHolds`, `StackIsPathHolds` | `~DuplicateInserts /\ Spec => []P` for each invariant of the run `bptree` but one |

Assumptions: those named in `BPTree` (`KeysAssumption`, ..., `FanoutAssumption`, `MaxNodeIdAssumption`). The hypothesis
`~DuplicateInserts` is that of the run: an INSERT names a key that is not stored. FANOUT is at least 3 because
`BPTree/src/main.cpp:7` says so.

The argument. `Inv` is a conjunction of nine parts, each of which some step needs for another one:

* `Forest`: there are a height, a parent and a slot for each node, such that a child's are what its parent says, every
  node but the root has a parent and leaves have height 0; and the stack in `path` leads from the root to `cur` by
  them. `TreeShape`, `BalancedDepth` and `StackIsPath` are consequences; their recursive functions (`Levels` over
  depth) are unfolded by an induction over the naturals that is stated for a set (`Induction`), not for an operator.
* `Ordered`: there are bounds for each node that its keys and those of its children keep, from which
  `SearchTreeOrder` follows. Not every key of an internal node is still stored below it; the bounds say what a key is
  good for all the same.
* `Chain` says of `next` only what is so when it is there; `Occupied`, `Widths` count pairs and children, each with
  the one node that a running call may leave short: the leaf to be refilled, the node with a single child.
* `Guided`: on the way down the index taken in each node is the one the key led to. So the leaf that is reached
  is the only one where the key belongs. `Roomy`: an insert that has begun will not run out of node files.
* `Control`: which of the program's locals mean something at which point.

There is one lemma for each kind of change to the tree (a leaf written, two leaves lending, a child attached, two
nodes merged, a root grown or shrunk) over two versions of the files, and one for each action that uses it.
The merge as written moves all children of the right node and counts keys; that the result still fits
(`2 * MIN_KEYS + 1` children) is `NodeWidthHolds`.

The same module on the map that the leaves are:

| theorem of `BPTreeProofs` | statement |
|---|---|
| `MapInvariant` | `~DuplicateInserts /\ Spec => []MapInv` |
| `ScanMissesNothingHolds` | `~DuplicateInserts /\ Spec => []ScanMissesNothing` |
| `BPTreeImplementsIndex` | `~DuplicateInserts /\ Spec => ImplementsIndex`: the node files refine the atomic map |

The argument. `MapInv` adds to `Inv` that no two leaves hold a key (`Unique`) and `ScanInv`: while a range is at a leaf
it has read off exactly the matches that are below the leaf's keys, and the low key, if it is stored, is not in an
earlier leaf. The pairs of the map change in one step of an insert (a leaf written or split) and one of a
delete; for every repair it is shown that the same pairs are there before and after (`SamePairs`), wherever they moved. A range
that ends because a leaf has no `next` answers with an initial segment of the matches; the low key is in the leaf it
starts at, which is why a range of one key is complete.

### The heap and the tree together

About `Query`, for every finite set of keys, block size and FANOUT from 3 on:

| theorem of `QueryProofs` | statement |
|---|---|
| `QueryInvariant` | `~DuplicateInserts /\ Spec => []QueryInv` |
| `StoresAgreeHolds`, `PointersResolveHolds`, `AnswersAgreeHolds` | `~DuplicateInserts /\ Spec => []P` for each invariant of the run `query` |

Assumption: `QueryAssumption`, which is what the heap and the tree assume of their parameters.

The argument is compositional. The proofs of heap and tree are instantiated, and from there on a step of the heap is one of
`RecordStore` or nothing, and a step of the tree one of `Index` or nothing (`HeapWorks`, `TreeWorks`). `Records` says
that the occupied slots of the heap are the pairs of the map, but for the one record that a running command has
put into the heap (`Put`: its pointer is the heap's answer and then the tree's argument) or taken from it (`Taken`).
That DELETE takes the right record is not obvious: the heap deletes the first record with the key, and it is the one the tree
points to because a slot that is occupied is the value of its own key in the map. `Answers` says that each
store's answer is still about the present content when both are compared, since a RANGE changes neither.

### The matrices

About `Matrices`, for matrices, pages and a pool of any size, all names and all files:

| theorem of `MatricesProofs` | statement |
|---|---|
| `MatricesInvariant` | `Spec => []MatricesInv` |
| `PageFilesAreThere` | `Spec => []PageFilesAreCatalogued` |
| `MatricesImplementStore` | `Spec => ImplementsMatrixStore`: the commands, page by page, refine whole-matrix commands |

Assumptions: `MatricesAssumption` (positive sizes of a page, of the pool and of what PRINT shows; a matrix and its result
are named differently) and `FilesAssumption` (a csv file holds a square matrix, or is none).

The argument. `MatricesInv` says for the running command and each page file whether it is there (`Present`) and what
it holds (`Content`), in terms of the pages the command has passed: before its position the file is the finished one,
behind it the old one, and for the two mirrored pages of a TRANSPOSE both at once. The position runs over
pairs of pages, and that it passes each once is arithmetic on `Over` and `OverPair`. `PoolIs` says that the pool holds
pages under names that no later lookup asks for, since the path is put into the name twice; so each read comes
from the disk. When the last page is
done, the contents together are the matrix that `MatrixStore` says.

### The external sort

About `ExternalSort`, for all tables and sort keys, every number of rows in a page and of pages in memory, and any
number of SORTs one after the other:

| theorem of `ExternalSortProofs` | statement |
|---|---|
| `SortInvariant` | `Spec => []SortInv` |
| `SortTypeOK`, `MergeKeepsRowsHolds`, `RunsInOrderHolds`, `SortedUnlessOverfilledHolds` | `Spec => []P` for each invariant of the run `sort` |

Assumption: `SortAssumption` (at least three blocks of memory, room for a row in a page; a table has rows, all of the
same columns, of integers, and a sort key names columns of the table).

The argument. `SortInv` has six parts. `Shape` is type correctness with rows and pages; `Progress` says which
page or group an iteration has come to, and that groups begin at multiples of the pages they merge. `Cursors`
says that the cursor of each queued run is between the run's first page and its last and that the queue has the
row it points to. `Keeps` is `MergeKeepsRows` by places in the table and not by rows: what has been written and what waits
in `mergeData` is a list of the places that are neither left to a cursor nor behind the group, each place once
(`Lists`, a bijection). Equal rows make a statement about bags too weak to go on from; the bags are equal because the
places are the same (`WaitingLists`, `RowsListed`). `Keeps` holds whether or not a Dummy file has outgrown its page. It also
bounds the number of Dummy files by the pages, so that none is copied to a page nobody reads.
`Aligned` says that Dummy files that fit hold the moved rows page by page (`Chunks`): then copying them back
moves no row. Without it nothing can be said of the pages after an iteration, and that is where the proof needs that no file was
overfilled. `Ordered` says, as long as that is so, that the rows moved so far are in runs of the next iteration's
length, that the rows still in the pages are in runs of this one's, and that no queued row precedes one that its
group has already moved. That the top of the queue is least needs that `Precedes` is a strict weak order, which is
proved from its definition for sort keys of any number of columns and both directions. An iteration that ends has runs of `K` times the
length, and the last one a single run.

### The rows of JOIN and GROUP BY

About `Assignments`, for all tables, all conditions, every page size and whatever earlier results left:

| theorem of `AssignmentsProofs` | statement |
|---|---|
| `ResultPagesHoldRows` | `Spec => []PagesHoldRows` |
| `JoinFindsAllPairs` | `Spec => []JoinIsComplete` |
| `GroupedRowsAreRight` | `Spec => []GroupsAreRight` |
| `AssignmentsTypes` | `Spec => []TypeOK` |

Assumptions: `ResultAssumption` (a page has room for a row) and `AssignmentsAssumption` (tables are sequences of
integers, or of rows of integers). That the copies are sorted is a guard of `BeginJoin` and `BeginGroup`.

`GroupedRowsAreRight` holds for the groups and conditions that `GroupsAreRight` does not exclude: HAVING COUNT and AVG
with every operator but `!=`. There the operators and the code's comparison agree (`HoldsOrNot`); for `!=` they do not.

The argument. `PagesInv` adds to `PagesHoldRows` how many rows there are for the pages that have been written
(`PagesAreFull`): while rows are produced the last page is never full, which is what makes the next row fall into it;
behind the last group, which writes no page, it may be; and once the last page is written no row is left over.
Only with these bounds does `Room`, the number of rows that n pages hold, stay what it was for the old pages when
a row is added (`OldPagesHold`). `JoinInv` adds `PairsInv`, what has been produced wherever the cursors are
(`Produced`), and `CursorsInv`: in the inner loops the two rows match, and the copied cursor is behind its row.
The facts about data are four lemmas on sorted tables: where an inner loop stops nothing further matches
(`LeftRunStops`, `RightRunStops`), and the row that is given up after a mismatch matches nothing further
(`LeftRowIsDone`, `RightRowIsDone`), each by the cases of the operator. `PairProduced` says that a row added is a
pair added, so that no pair is there twice.

`GroupInv` bounds the counters by the cursor, and `AnswerInv` says what they are: wherever the cursor is, the accumulators
are the aggregates of the rows of its group behind it (`Behind`), and the rows produced are those of the groups that have
ended (`Ended`), in order. MIN and MAX are said with the 0 they start from among the values, so that there is
something to say before the first row of a group. `RowCounted` adds a row to all of them at once; `GroupEnds` uses that the table is
sorted twice: what is behind the cursor is all of the group, and the group is larger than those before it. The
aggregates that `GroupsAreRight` compares with are folds over sets: that a sum does not depend on the order in which
its elements are taken is `SumTakesAny` of `KeyOrderProofs`. Groups may be any integers, while those of the run
are -1 and above: a group before -1, behind which -1 counts as a group like any other until it ends, is covered by the proof
only.

### The tables of a session

About `TableSession`, for all names of tables and columns, all initial files, and sessions of any length with any
number of kills:

| theorem of `TableSessionProofs` | statement |
|---|---|
| `SessionInvariant` | `Spec => []SessionInv` |
| `SessionTypeOK`, `SessionTablesOnDisk`, `SessionNoCopiesAtRest` | `Spec => []P` for each invariant of the run `session` |
| `SessionOnlyTargetChanges` | `Spec => OnlyTargetChanges` |

Assumptions: `SessionAssumption` (users do not name their tables `temp_GroupBy...`; the values for "no file" and "no
table" are neither), `SortCommandsAssumption` (a SORT has columns, a number of strategies, and a verdict on the last one;
no relation between them) and `InitialFilesAssumption` (`data/` starts without copies of an earlier session).

The argument. None of the properties is inductive, since a copy and a result are made over several steps and each relies on
what the earlier ones found. `JobInv` says what the running assignment knows: its sources stay in the catalogue; its
copies have files from the first step on and entries from `"key"` on; and only ORDER BY has its target for a copy,
and is over before `"combine"`. With it an assignment's steps write to copies and target only (`OnlyTargetChanges`),
and a catalogued table keeps its files (`TablesOnDisk`). `CopiesInv` says that while no command has died every
file or page of a copy is the running assignment's, which is why none is left when it ends (`NoCopiesAtRest`);
a kill between commands leaves none either, and a kill in an assignment sets `died`. `SortingInv` is about the keys: the copy
to be sorted is one of the assignment's, and where it is sorted the keys are its own (`SortsByOwnKey`), for which a GROUP BY
needs that nothing between its first step and its sort touches them. Nothing is said of how many columns and
strategies there are while no copy is sorted, since failed SORTs leave any number of each.

### What is only model-checked

* All liveness (`CallReturns` of heap and tree, `SortEnds`, `CommandEnds`, `AssignmentEnds`): the proof system handles neither
  fairness nor ENABLED.
* The properties of the runs that expect a violation, which are false (section 5).

So every safety property of the passing runs, invariants, action properties and refinements, is a theorem.
Nothing is checked or proved about `BPTree` and `Query` with duplicate inserts (section 2).

## 7. Not modelled

* Formatting, charts and logs (`utils.cpp`, `logger.cpp`, the export functions); ANALYSE, LIST and INDEX, which keep
  no state or only repeat other commands.
* The grammar of commands, and so commands that break it (a SORT without IN). SELECT, PROJECT, CROSS and DISTINCT, which no command can reach.
* Integer overflow in COMPUTE (`matrix.cpp:490`) and in SUM: the model's values are small, and the repository's
  README assumes of SUM that there is none.
* Tables with more columns than a block has room for integers, for which `maxRowsPerBlock` would be 0.
* SOURCE in a file that SOURCE reads: the commands are those of the sessions, one after the other.
* Disk errors: every write succeeds. A kill leaves whole files, never half-written ones.
