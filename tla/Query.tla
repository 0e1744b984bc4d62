------------------------------- MODULE Query -------------------------------
(***************************************************************************)
(* BPTree/src/Query.cpp and RecordPtr.cpp: the two stores of the program   *)
(* and the commands that keep them together.  INSERT puts the key in the   *)
(* heap and then its record pointer in the B+ tree; DELETE takes the key   *)
(* from the heap and then from the tree; RANGE answers from the tree,      *)
(* following record pointers into the heap, and then from the heap alone.  *)
(* Nothing but this order ties the two together.                           *)
(***************************************************************************)
EXTENDS Integers, FiniteSets, SequencesExt

CONSTANTS Keys, BLOCK_SIZE, FANOUT,
          KeyRanges,          \* bound: the ranges that are asked for
          DuplicateInserts,   \* whether a key that is stored may be inserted again
          MaxBlockId,         \* bound: the number of block files ever created
          MaxNodeId           \* bound: the number of node files at a time

\* What the two stores assume of their parameters.
ASSUME QueryAssumption ==
    /\ Keys \subseteq Nat /\ IsFiniteSet(Keys)
    /\ KeyRanges \subseteq Keys \X Keys
    /\ BLOCK_SIZE \in Nat \ {0} /\ FANOUT \in Nat /\ FANOUT >= 3
    /\ DuplicateInserts \in BOOLEAN
    /\ MaxBlockId \in Nat \ {0} /\ MaxNodeId \in Nat \ {0}

VARIABLES disk, first_block_ptr, nextId, heapPc, heapCall, current, previous, heapResult,
          node, root_ptr, treePc, treeCall, cur, path, split, treeResult,
          query,   \* the command that is running
          turn     \* the store that serves it

heapVars == <<disk, first_block_ptr, nextId, heapPc, heapCall, current, previous, heapResult>>
treeVars == <<node, root_ptr, treePc, treeCall, cur, path, split, treeResult>>
vars == <<heapVars, treeVars, query, turn>>

Heap == INSTANCE UnorderedHeap WITH pc <- heapPc, request <- heapCall, result <- heapResult

Tree == INSTANCE BPTree WITH
    pc <- treePc, request <- treeCall, result <- treeResult,
    RecordPtrs <- Heap!RecordPtrs, NullRecord <- <<Heap!NULL_PTR, 0>>, Entries <- {}

Nothing == [op |-> "none"]

\* Both stores are globals, made before main runs.
Init == Heap!Init /\ Tree!Init /\ query = Nothing /\ turn = "none"

Idle == query = Nothing

\* execute_insert: the heap comes first.
Insert(k) ==
    /\ Idle /\ treePc = "idle" /\ Tree!MayInsert(k)
    /\ query' = [op |-> "insert", key |-> k]
    /\ turn' = "heap"
    /\ Heap!Begin("insert", k, k)
    /\ UNCHANGED treeVars

\* Faulty version: the tree always gets the first slot of the front block.
InsertInTreeFrontSlot ==
    /\ query.op = "insert" /\ turn = "heap" /\ heapPc = "idle"
    /\ turn' = "tree"
    /\ Tree!BeginInsert(query.key, <<first_block_ptr, 0>>)
    /\ UNCHANGED <<heapVars, query>>

\* execute_insert: the tree gets the record pointer that the heap returned.
InsertInTree ==
    /\ query.op = "insert" /\ turn = "heap" /\ heapPc = "idle"
    /\ turn' = "tree"
    /\ \E rp \in heapResult : Tree!BeginInsert(query.key, rp)
    /\ UNCHANGED <<heapVars, query>>

\* execute_delete: the heap comes first.
Delete(k) ==
    /\ Idle /\ treePc = "idle"
    /\ query' = [op |-> "delete", key |-> k]
    /\ turn' = "heap"
    /\ Heap!Begin("delete", k, k)
    /\ UNCHANGED treeVars

\* Faulty version: the tree is not told of a delete.
DeleteFromHeapOnly ==
    /\ query.op = "delete" /\ turn = "heap" /\ heapPc = "idle"
    /\ turn' = "tree"
    /\ UNCHANGED <<heapVars, treeVars, query>>

\* execute_delete: then the tree.
DeleteFromTree ==
    /\ query.op = "delete" /\ turn = "heap" /\ heapPc = "idle"
    /\ turn' = "tree"
    /\ Tree!BeginDelete(query.key)
    /\ UNCHANGED <<heapVars, query>>

\* Faulty version: the tree is asked for the keys above low.
RangeOnTreeOpen(low, high) ==
    /\ Idle /\ treePc = "idle"
    /\ query' = [op |-> "range", lo |-> low, hi |-> high]
    /\ turn' = "tree"
    /\ \E above \in {k \in Keys : k > low} : Tree!BeginRange(above, high)
    /\ UNCHANGED heapVars

\* execute_range, which RANGE and each line of ANALYSE call: the tree comes first.
RangeOnTree(low, high) ==
    /\ Idle /\ treePc = "idle"
    /\ query' = [op |-> "range", lo |-> low, hi |-> high]
    /\ turn' = "tree"
    /\ Tree!BeginRange(low, high)
    /\ UNCHANGED heapVars

RangeOnHeap ==
    /\ query.op = "range" /\ turn = "tree" /\ treePc = "idle"
    /\ turn' = "heap"
    /\ Heap!Begin("range", query.lo, query.hi)
    /\ UNCHANGED <<treeVars, query>>

HeapWork == turn = "heap" /\ Heap!Work /\ UNCHANGED <<treeVars, query, turn>>
TreeWork == turn = "tree" /\ Tree!Work /\ UNCHANGED <<heapVars, query, turn>>

\* The store whose answer ends the command.
LastStore == IF query.op = "range" THEN "heap" ELSE "tree"

Finish ==
    /\ ~Idle /\ turn = LastStore /\ heapPc = "idle" /\ treePc = "idle"
    /\ query' = Nothing
    /\ turn' = "none"
    /\ UNCHANGED <<heapVars, treeVars>>

Execute == InsertInTree \/ DeleteFromTree \/ RangeOnHeap \/ HeapWork \/ TreeWork \/ Finish

Next ==
    \/ \E k \in Keys : Insert(k) \/ Delete(k)
    \/ \E range \in KeyRanges : RangeOnTree(range[1], range[2])
    \/ Execute

\* The interpreter runs a command to its end before it reads the next; that
\* each of its two calls returns is CallReturns of the store it calls.
Spec == Init /\ [][Next]_vars
-----------------------------------------------------------------------------
(* Properties *)

\* What RecordPtr::write_data prints for a record pointer.
write_data(rp) == disk[rp[1]].keys[rp[2]]

HeapKeys == {write_data(rp) : rp \in Heap!RecordPtrs} \ {Heap!DELETE_MARKER}

Doing(op) == query.op = op

\* Between commands the two stores hold the same keys.
StoresAgree == Idle => HeapKeys = Tree!StoredKeys

\* Every record pointer in the tree, however often its pair has moved from
\* leaf to leaf and its block's neighbours have come and gone, still leads to
\* the record of its key; except that of the key a running DELETE has already
\* taken from the heap.
PointersResolve ==
    \A k \in Tree!StoredKeys :
        \/ write_data(Tree!Pairs[k]) = k
        \/ Doing("delete") /\ query.key = k

\* The two answers to a RANGE agree as far as the tree's goes: it names only
\* records the heap's walk finds too, no record twice, and a range of one key
\* the same record.
AnswersAgree ==
    Doing("range") /\ turn = "heap" /\ heapPc = "idle" =>
        /\ ToSet(treeResult) \subseteq heapResult
        /\ Len(treeResult) = Cardinality(ToSet(treeResult))
        /\ query.lo = query.hi => ToSet(treeResult) = heapResult
=============================================================================
