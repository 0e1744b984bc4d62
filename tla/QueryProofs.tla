---------------------------- MODULE QueryProofs ----------------------------
(***************************************************************************)
(* Proofs about Query: what its commands say of the heap and the tree      *)
(* together follows from what each promises alone.  The heap is known here *)
(* by the record store that it implements and the tree by its map; no step *)
(* of a walk or of a repair is looked at again.                            *)
(***************************************************************************)
EXTENDS Query, TLAPS, FiniteSetTheorems, SequenceTheorems

HeapP == INSTANCE UnorderedHeapProofs WITH
    pc <- heapPc, request <- heapCall, result <- heapResult

TreeP == INSTANCE BPTreeProofs WITH
    pc <- treePc, request <- treeCall, result <- treeResult,
    RecordPtrs <- Heap!RecordPtrs, NullRecord <- <<Heap!NULL_PTR, 0>>, Entries <- {}

(* The stores of Query are those that the theorems are about *)

LEMMA Parameters ==
    /\ Keys \subseteq Nat /\ BLOCK_SIZE \in Nat \ {0} /\ MaxBlockId \in Nat \ {0} /\ MaxNodeId \in Nat \ {0}
    /\ FANOUT \in Nat /\ FANOUT >= 3 /\ DuplicateInserts \in BOOLEAN /\ KeyRanges \subseteq Keys \X Keys
    /\ {} \subseteq Keys \X Heap!RecordPtrs
    /\ TreeP!IsFiniteSet(Keys)
<1>1. TreeP!IsFiniteSet(Keys)
  <2>1. IsFiniteSet(Keys)
      BY QueryAssumption, SMTT(30)
  <2> QED BY <2>1 DEF TreeP!IsFiniteSet, IsFiniteSet
<1> QED BY <1>1, QueryAssumption

LEMMA SameHeapWork == Heap!Work => HeapP!Work
BY DEF
       Heap!Work, HeapP!Work, Heap!insert_key, HeapP!insert_key, Heap!delete_key, HeapP!delete_key, Heap!range_query,
       HeapP!range_query, Heap!InsertHere, HeapP!InsertHere, Heap!InsertSkip, HeapP!InsertSkip, Heap!InsertAppend,
       HeapP!InsertAppend, Heap!DeleteHere, HeapP!DeleteHere, Heap!DeleteSkip, HeapP!DeleteSkip, Heap!DeleteNothing,
       HeapP!DeleteNothing, Heap!KeepBlock, HeapP!KeepBlock, Heap!ReplaceOnlyBlock, HeapP!ReplaceOnlyBlock,
       Heap!DropFrontBlock, HeapP!DropFrontBlock, Heap!UnlinkBlock, HeapP!UnlinkBlock, Heap!RangeBlock,
       HeapP!RangeBlock, Heap!RangeDone, HeapP!RangeDone, Heap!Walking, HeapP!Walking, Heap!NULL_PTR, HeapP!NULL_PTR,
       Heap!is_full, HeapP!is_full, Heap!BlockInsert, HeapP!BlockInsert, Heap!FirstSlot, HeapP!FirstSlot,
       Heap!DELETE_MARKER, HeapP!DELETE_MARKER, Heap!Return, HeapP!Return, Heap!EmptyBlock, HeapP!EmptyBlock,
       Heap!InsertNextBlock, HeapP!InsertNextBlock, Heap!Holding, HeapP!Holding, Heap!BlockDelete, HeapP!BlockDelete,
       Heap!is_empty, HeapP!is_empty, Heap!BlockRange, HeapP!BlockRange, Heap!Slots, HeapP!Slots

LEMMA SameHeap ==
    /\ Heap!RecordPtrs = HeapP!RecordPtrs /\ Heap!DELETE_MARKER = HeapP!DELETE_MARKER
    /\ Heap!Init => HeapP!Init
    /\ \A op, low, high : Heap!Begin(op, low, high) => HeapP!Begin(op, low, high)
BY DEF
       Heap!Init, HeapP!Init, Heap!BlockIds, HeapP!BlockIds, Heap!EmptyBlock, HeapP!EmptyBlock, Heap!Requests,
       HeapP!Requests, Heap!NULL_PTR, HeapP!NULL_PTR, Heap!Slots, HeapP!Slots, Heap!DELETE_MARKER,
       HeapP!DELETE_MARKER, Heap!Ops, HeapP!Ops, Heap!Begin, HeapP!Begin, Heap!RecordPtrs, HeapP!RecordPtrs

LEMMA SameTreeWork == Tree!Work => TreeP!Work
BY DEF
       Tree!Work, TreeP!Work, Tree!Descend, TreeP!Descend, Tree!insert_key, TreeP!insert_key, Tree!delete_key,
       TreeP!delete_key, Tree!RangeLeaf, TreeP!RangeLeaf, Tree!NULL_PTR, TreeP!NULL_PTR, Tree!NodeIds, TreeP!NodeIds,
       Tree!NoKey, TreeP!NoKey, Tree!Leaf, TreeP!Leaf, Tree!Internal, TreeP!Internal, Tree!IsLeaf, TreeP!IsLeaf,
       Tree!Unused, TreeP!Unused, Tree!Fresh, TreeP!Fresh, Tree!Put, TreeP!Put, Tree!Merge, TreeP!Merge, Tree!LeafAt,
       TreeP!LeafAt, Tree!SubtreeMax, TreeP!SubtreeMax, Tree!ChildIndex, TreeP!ChildIndex, Tree!Created,
       TreeP!Created, Tree!Without, TreeP!Without, Tree!MIN_KEYS, TreeP!MIN_KEYS, Tree!isUnderflow,
       TreeP!isUnderflow, Tree!Frame, TreeP!Frame, Tree!Parent, TreeP!Parent, Tree!Siblings, TreeP!Siblings,
       Tree!HasLeft, TreeP!HasLeft, Tree!HasRight, TreeP!HasRight, Tree!LeftSibling, TreeP!LeftSibling,
       Tree!RightSibling, TreeP!RightSibling, Tree!Return, TreeP!Return, Tree!At, TreeP!At,
       Tree!insertIntoCurrentLeaf, TreeP!insertIntoCurrentLeaf, Tree!HALF, TreeP!HALF, Tree!splitLeafNode,
       TreeP!splitLeafNode, Tree!UpperBound, TreeP!UpperBound, Tree!WithSplit, TreeP!WithSplit,
       Tree!insert_into_existing_node, TreeP!insert_into_existing_node, Tree!split_and_create_new_node,
       TreeP!split_and_create_new_node, Tree!GrowRoot, TreeP!GrowRoot, Tree!EraseFromLeaf, TreeP!EraseFromLeaf,
       Tree!Refilling, TreeP!Refilling, Tree!Data, TreeP!Data, Tree!CanLend, TreeP!CanLend, Tree!LeafWith,
       TreeP!LeafWith, Tree!LeafDone, TreeP!LeafDone, Tree!left_redistribution, TreeP!left_redistribution,
       Tree!left_merge, TreeP!left_merge, Tree!right_redistribution, TreeP!right_redistribution, Tree!right_merge,
       TreeP!right_merge, Tree!TooFewKeys, TreeP!TooFewKeys, Tree!Repairing, TreeP!Repairing, Tree!ReturnToParent,
       TreeP!ReturnToParent, Tree!CanLendChild, TreeP!CanLendChild, Tree!leftRedistribution,
       TreeP!leftRedistribution, Tree!leftMerge, TreeP!leftMerge, Tree!LeftSiblingMissing, TreeP!LeftSiblingMissing,
       Tree!ShrinkRoot, TreeP!ShrinkRoot, Tree!Ascending, TreeP!Ascending, Tree!Below, TreeP!Below, Tree!Cardinality,
       TreeP!Cardinality, Tree!Min, TreeP!Min, Tree!Max, TreeP!Max, Tree!Last, TreeP!Last, Tree!Front, TreeP!Front,
       Tree!Restrict, TreeP!Restrict, Tree!InsertAt, TreeP!InsertAt, Tree!RemoveAt, TreeP!RemoveAt, Tree!ReplaceAt,
       TreeP!ReplaceAt, Tree!Lowest, TreeP!Lowest, Tree!NoRequest, TreeP!NoRequest

LEMMA SameTree ==
    /\ Tree!Init => TreeP!Init
    /\ \A req : Tree!Begin(req) => TreeP!Begin(req)
    /\ \A k : Tree!MayInsert(k) => TreeP!MayInsert(k)
    /\ Tree!StoredKeys = TreeP!StoredKeys /\ Tree!Pairs = TreeP!Pairs
BY DEF
       Tree!Init, TreeP!Init, Tree!Begin, TreeP!Begin, Tree!MayInsert, TreeP!MayInsert, Tree!StoredKeys,
       TreeP!StoredKeys, Tree!Pairs, TreeP!Pairs, Tree!Leaves, TreeP!Leaves, Tree!Internals, TreeP!Internals,
       Tree!IsLeaf, TreeP!IsLeaf, Tree!Unused, TreeP!Unused, Tree!NodeIds, TreeP!NodeIds, Tree!NULL_PTR,
       TreeP!NULL_PTR, Tree!NoRequest, TreeP!NoRequest, Tree!Leaf, TreeP!Leaf, Tree!Cardinality, TreeP!Cardinality

\* A store that is not at work stays as it is, and so does what it stands for.
LEMMA HeapKept ==
    ASSUME HeapP!Inv, UNCHANGED heapVars
    PROVE  HeapP!Inv' /\ HeapP!slots' = HeapP!slots /\ HeapP!asked' = HeapP!asked /\ HeapP!answered' = HeapP!answered
<1>1. UNCHANGED HeapP!vars
    BY DEF heapVars, HeapP!vars
<1>2. HeapP!Inv'
    BY <1>1, Parameters, HeapP!NextInv
<1>3. UNCHANGED <<HeapP!slots, HeapP!asked, HeapP!answered>>
    BY <1>1, Parameters, HeapP!SkipStutters
<1> QED BY <1>2, <1>3

LEMMA TreeKept ==
    ASSUME TreeP!MapInv, UNCHANGED treeVars
    PROVE  TreeP!MapInv' /\ TreeP!Pairs' = TreeP!Pairs /\ TreeP!asked' = TreeP!asked /\ TreeP!answer' = TreeP!answer
<1>1. UNCHANGED TreeP!vars
    BY DEF treeVars, TreeP!vars
<1>2. TreeP!Inv'
    BY <1>1, Parameters, TreeP!StutterStep DEF TreeP!MapInv
<1>3. TreeP!Unique(node)' /\ TreeP!ScanInv' /\ TreeP!Unnoticed
    BY <1>1, Parameters, TreeP!StutterMap
<1> QED BY <1>2, <1>3 DEF TreeP!MapInv, TreeP!Unnoticed

\* A call to a store is a request, and the store's work answers it in one step.
LEMMA HeapAsked ==
    ASSUME HeapP!Inv, NEW op \in {"insert", "delete", "range"}, NEW low \in Keys, NEW high \in Keys, Heap!Begin(op, low, high)
    PROVE  /\ HeapP!Inv' /\ HeapP!slots' = HeapP!slots
           /\ HeapP!asked.op = "none" /\ HeapP!asked' = [op |-> op, lo |-> low, hi |-> high]
<1>1. HeapP!Begin(op, low, high)
    BY SameHeap
<1>2. op \in HeapP!Ops \ {"none"}
    BY DEF HeapP!Ops
<1>3. HeapP!Inv'
    BY <1>1, <1>2, Parameters, HeapP!BeginInv
<1>4. HeapP!Store!Ask(op, low, high)
    BY <1>1, <1>2, Parameters, HeapP!BeginAsks
<1> QED BY <1>3, <1>4 DEF HeapP!Store!Ask

LEMMA HeapWorks ==
    ASSUME HeapP!Inv, Heap!Work
    PROVE  /\ HeapP!Inv'
           /\ \/ HeapP!Store!Insert \/ HeapP!Store!DeleteOne \/ HeapP!Store!DeleteNone \/ HeapP!Store!Range
              \/ UNCHANGED <<HeapP!slots, HeapP!asked, HeapP!answered>>
<1>1. HeapP!Work
    BY SameHeapWork
<1>2. HeapP!Next
    BY <1>1 DEF HeapP!Next
<1>3. HeapP!Inv'
    BY <1>2, Parameters, HeapP!NextInv
<1> QED BY <1>1, <1>3, Parameters, HeapP!WorkStore

LEMMA TreeAsked ==
    ASSUME TreeP!MapInv, NEW req \in TreeP!Requests, Tree!Begin(req), req.op = "insert" => Tree!MayInsert(req.lo), ~DuplicateInserts
    PROVE  /\ TreeP!MapInv' /\ TreeP!Pairs' = TreeP!Pairs
           /\ TreeP!asked = TreeP!NoRequest /\ TreeP!asked' = req
<1>1. TreeP!Begin(req) /\ (req.op = "insert" => TreeP!MayInsert(req.lo)) /\ TreeP!Inv
    BY SameTree DEF TreeP!MapInv
<1>2. TreeP!Inv'
    BY <1>1, Parameters, TreeP!BeginStep
<1>3. TreeP!Unique(node)' /\ TreeP!ScanInv' /\ TreeP!Map!Ask
    BY <1>1, Parameters, TreeP!BeginAsks
<1>4. TreeP!asked' = req
    BY <1>1 DEF TreeP!Begin, TreeP!asked
<1> QED BY <1>2, <1>3, <1>4 DEF TreeP!MapInv, TreeP!Map!Ask, TreeP!Map!NoRequest, TreeP!NoRequest

LEMMA TreeWorks ==
    ASSUME TreeP!MapInv, Tree!Work, ~DuplicateInserts
    PROVE  /\ TreeP!MapInv'
           /\ TreeP!Map!Insert \/ TreeP!Map!Delete \/ TreeP!Map!Search \/ TreeP!Unnoticed
<1>1. TreeP!Work /\ TreeP!Inv
    BY SameTreeWork DEF TreeP!MapInv
<1>2. TreeP!Next
    BY <1>1 DEF TreeP!Next
<1>3. TreeP!Inv'
    BY <1>1, <1>2, Parameters, TreeP!NextStep
<1>4. TreeP!Unique(node)' /\ TreeP!ScanInv' /\ (TreeP!Map!Insert \/ TreeP!Map!Delete \/ TreeP!Map!Search \/ TreeP!Unnoticed)
    BY <1>1, <1>3, Parameters, TreeP!WorkMap
<1> QED BY <1>3, <1>4 DEF TreeP!MapInv

-----------------------------------------------------------------------------
(* The two stores together *)

Ptrs == HeapP!RecordPtrs
Free == HeapP!DELETE_MARKER
HeapDone == HeapP!asked.op = "none"
TreeDone == TreeP!asked = TreeP!NoRequest

Queries == [op : {"insert", "delete"}, key : Keys] \cup [op : {"range"}, lo : Keys, hi : Keys]
AsksFor(req) ==
    /\ req.op = query.op
    /\ query.op # "range" => req.lo = query.key
    /\ query.op = "range" => req.lo = query.lo /\ req.hi = query.hi

\* One store serves the command, and it was asked for what the command says.
Commands ==
    /\ query \in Queries \cup {Nothing}
    /\ turn \in {"none", "heap", "tree"} /\ (turn = "none" <=> query = Nothing)
    /\ turn # "heap" => heapPc = "idle"
    /\ turn # "tree" => treePc = "idle"
    /\ ~HeapDone => turn = "heap" /\ AsksFor(HeapP!asked)
    /\ ~TreeDone => turn = "tree" /\ AsksFor(TreeP!asked)

\* The heap has done its part of an insert or a delete, and the tree has not.
Between == HeapDone /\ (turn = "heap" \/ ~TreeDone)
Put == Doing("insert") /\ Between
Taken == Doing("delete") /\ Between

\* The record that an insert has put into the heap for the tree to point to.
Placed(rp) == HeapP!answered = {rp} /\ HeapP!slots[rp] = query.key

Records ==
    /\ \A k \in DOMAIN TreeP!Pairs : HeapP!slots[TreeP!Pairs[k]] = k \/ (Taken /\ k = query.key)
    /\ \A rp \in Ptrs : HeapP!slots[rp] # Free =>
          \/ HeapP!slots[rp] \in DOMAIN TreeP!Pairs /\ TreeP!Pairs[HeapP!slots[rp]] = rp
          \/ Put /\ Placed(rp)
    /\ Taken => \A rp \in Ptrs : HeapP!slots[rp] # query.key
    /\ Put => \E rp \in Ptrs : Placed(rp) /\ (~TreeDone => TreeP!asked.ptr = rp)
    /\ Doing("insert") /\ (turn = "heap" \/ ~TreeDone) => query.key \notin DOMAIN TreeP!Pairs

\* What the two stores have answered to a range.
Found(low, high) == {rp \in Ptrs : HeapP!slots[rp] # Free /\ low <= HeapP!slots[rp] /\ HeapP!slots[rp] <= high}
Listed(low, high) == TreeP!Map!Matches(low, high)
Answers ==
    Doing("range") =>
        /\ TreeDone => /\ TreeP!answer \in TreeP!Map!Prefixes(Listed(query.lo, query.hi))
                       /\ query.lo = query.hi => TreeP!answer = Listed(query.lo, query.hi)
        /\ turn = "heap" /\ HeapDone => HeapP!answered = Found(query.lo, query.hi)

QueryInv ==
    /\ HeapP!Inv /\ TreeP!MapInv
    /\ Commands
    /\ Records
    /\ Answers

LEMMA Typed ==
    ASSUME HeapP!Inv, TreeP!MapInv
    PROVE  /\ HeapP!slots \in [Ptrs -> Keys \cup {Free}] /\ Free \notin Keys /\ Free = -1 /\ Keys \subseteq Nat
           /\ DOMAIN TreeP!Pairs \subseteq Keys /\ \A k \in DOMAIN TreeP!Pairs : TreeP!Pairs[k] \in Ptrs
<1>1. HeapP!slots \in [Ptrs -> Keys \cup {Free}]
    BY Parameters, HeapP!SlotsType DEF HeapP!Inv, Ptrs, Free
<1>2. Free = -1 /\ Keys \subseteq Nat
    BY Parameters DEF Free, HeapP!DELETE_MARKER
<1>3. TreeP!Inv /\ TreeP!Unique(node)
    BY DEF TreeP!MapInv
<1>4. DOMAIN TreeP!Pairs \subseteq Keys /\ \A k \in DOMAIN TreeP!Pairs : TreeP!Pairs[k] \in Heap!RecordPtrs
    BY <1>3, Parameters, TreeP!PairsAreRecords
<1> QED BY <1>1, <1>2, <1>4, SameHeap DEF Ptrs

LEMMA SameListed ==
    ASSUME TreeP!Pairs' = TreeP!Pairs, NEW low, NEW high
    PROVE  /\ TreeP!Map!Matches(low, high)' = TreeP!Map!Matches(low, high)
           /\ \A k \in DOMAIN TreeP!Pairs' : k \in DOMAIN TreeP!Pairs
BY DEF TreeP!Map!Matches

LEMMA InitQuery == Init => QueryInv
<1> SUFFICES ASSUME Init PROVE QueryInv
    OBVIOUS
<1>1. HeapP!Init /\ TreeP!Init /\ query = Nothing /\ turn = "none"
    BY SameHeap, SameTree DEF Init
<1>2. HeapP!Inv /\ HeapP!Store!Init
    BY <1>1, Parameters, HeapP!InitInv, HeapP!InitStore
<1>3. TreeP!MapInv /\ TreeP!Map!Init
    BY <1>1, Parameters, TreeP!InitMap
<1>4. heapPc = "idle" /\ treePc = "idle"
    BY <1>1 DEF HeapP!Init, TreeP!Init
<1>5. HeapDone /\ TreeDone
    BY <1>2, <1>3 DEF HeapDone, TreeDone, HeapP!Store!Init, TreeP!Map!Init, TreeP!Map!NoRequest, TreeP!NoRequest
<1>6. Commands
    BY <1>1, <1>4, <1>5 DEF Commands
<1>7. Records
  <2>1. DOMAIN TreeP!Pairs = {}
      BY <1>3 DEF TreeP!Map!Init
  <2>2. \A rp \in Ptrs : HeapP!slots[rp] = Free
      BY <1>2 DEF HeapP!Store!Init, Ptrs, Free
  <2>3. ~Put /\ ~Taken /\ ~Doing("insert")
      BY <1>1 DEF Put, Taken, Doing, Nothing
  <2> QED BY <2>1, <2>2, <2>3 DEF Records
<1>8. Answers
    BY <1>1 DEF Answers, Doing, Nothing
<1> QED BY <1>2, <1>3, <1>6, <1>7, <1>8 DEF QueryInv

-----------------------------------------------------------------------------
(* One step of a command *)

LEMMA QueryIs ==
    ASSUME Commands
    PROVE  /\ Nothing.op = "none" /\ (query # Nothing => query \in Queries)
           /\ query = Nothing <=> query.op = "none"
           /\ query.op \in {"insert", "delete", "range", "none"}
           /\ query.op \in {"insert", "delete"} => query.key \in Keys
           /\ query.op = "range" => query.lo \in Keys /\ query.hi \in Keys
<1>1. Nothing.op = "none"
    BY DEF Nothing
<1>2. \A q \in Queries : /\ q.op \in {"insert", "delete", "range"}
                         /\ q.op \in {"insert", "delete"} => q.key \in Keys
                         /\ q.op = "range" => q.lo \in Keys /\ q.hi \in Keys
    BY DEF Queries
<1>3. query \in Queries \cup {Nothing}
    BY DEF Commands
<1> HIDE DEF Queries, Nothing
<1> QED BY <1>1, <1>2, <1>3

LEMMA IdleIsDone == (heapPc = "idle" => HeapDone) /\ (treePc = "idle" => TreeDone)
BY DEF HeapDone, TreeDone, HeapP!asked, TreeP!asked

\* Where neither store is ahead of the other, the records are the pairs.
LEMMA RecordsInStep ==
    ASSUME Records, HeapP!slots' = HeapP!slots, TreeP!Pairs' = TreeP!Pairs,
           ~Put, ~Taken, ~Put', ~Taken',
           Doing("insert")' /\ (turn = "heap" \/ ~TreeDone)' => query'.key \notin DOMAIN TreeP!Pairs
    PROVE  Records'
BY DEF Records

LEMMA InsertStep ==
    ASSUME QueryInv, NEW k \in Keys, Insert(k), ~DuplicateInserts
    PROVE  QueryInv'
<1>1. /\ HeapP!Inv /\ TreeP!MapInv /\ Commands /\ Records
      /\ query = Nothing /\ treePc = "idle" /\ Tree!MayInsert(k) /\ turn' = "heap"
      /\ query' = [op |-> "insert", key |-> k] /\ Heap!Begin("insert", k, k) /\ UNCHANGED treeVars
    BY DEF QueryInv, Insert, Idle
<1>2. /\ HeapP!Inv' /\ HeapP!slots' = HeapP!slots /\ HeapP!asked' = [op |-> "insert", lo |-> k, hi |-> k]
    BY <1>1, HeapAsked
<1>3. TreeP!MapInv' /\ TreeP!Pairs' = TreeP!Pairs /\ TreeP!asked' = TreeP!asked /\ treePc' = "idle"
    BY <1>1, TreeKept DEF treeVars
<1>4. TreeDone /\ TreeDone'
    BY <1>1, <1>3, IdleIsDone DEF TreeDone
<1>5. ~HeapDone'
    BY <1>2 DEF HeapDone
<1>6. query' \in Queries /\ query' # Nothing /\ query'.op = "insert" /\ query'.key = k
    BY <1>1 DEF Queries, Nothing
<1>7. AsksFor(HeapP!asked)'
    BY <1>2, <1>6 DEF AsksFor
<1>8. Commands'
    BY <1>1, <1>3, <1>4, <1>6, <1>7 DEF Commands
<1>9. k \notin DOMAIN TreeP!Pairs
  <2>1. k \notin TreeP!StoredKeys
      BY <1>1, SameTree DEF Tree!MayInsert
  <2> QED BY <2>1 DEF TreeP!Pairs
<1>10. Records'
  <2>1. ~Put /\ ~Taken /\ ~Put' /\ ~Taken'
      BY <1>1, <1>5, QueryIs DEF Put, Taken, Between, Doing
  <2> QED BY <1>1, <1>2, <1>3, <1>6, <1>9, <2>1, RecordsInStep
<1>11. Answers'
    BY <1>6 DEF Answers, Doing
<1> QED BY <1>2, <1>3, <1>8, <1>10, <1>11 DEF QueryInv

LEMMA DeleteStep ==
    ASSUME QueryInv, NEW k \in Keys, Delete(k)
    PROVE  QueryInv'
<1>1. /\ HeapP!Inv /\ TreeP!MapInv /\ Commands /\ Records
      /\ query = Nothing /\ treePc = "idle" /\ turn' = "heap"
      /\ query' = [op |-> "delete", key |-> k] /\ Heap!Begin("delete", k, k) /\ UNCHANGED treeVars
    BY DEF QueryInv, Delete, Idle
<1>2. /\ HeapP!Inv' /\ HeapP!slots' = HeapP!slots /\ HeapP!asked' = [op |-> "delete", lo |-> k, hi |-> k]
    BY <1>1, HeapAsked
<1>3. TreeP!MapInv' /\ TreeP!Pairs' = TreeP!Pairs /\ TreeP!asked' = TreeP!asked /\ treePc' = "idle"
    BY <1>1, TreeKept DEF treeVars
<1>4. TreeDone /\ TreeDone'
    BY <1>1, <1>3, IdleIsDone DEF TreeDone
<1>5. ~HeapDone'
    BY <1>2 DEF HeapDone
<1>6. query' \in Queries /\ query' # Nothing /\ query'.op = "delete" /\ query'.key = k
    BY <1>1 DEF Queries, Nothing
<1>7. AsksFor(HeapP!asked)'
    BY <1>2, <1>6 DEF AsksFor
<1>8. Commands'
    BY <1>1, <1>3, <1>4, <1>6, <1>7 DEF Commands
<1>9. Records'
  <2>1. ~Put /\ ~Taken /\ ~Put' /\ ~Taken' /\ ~Doing("insert")'
      BY <1>1, <1>5, <1>6, QueryIs DEF Put, Taken, Between, Doing
  <2> QED BY <1>1, <1>2, <1>3, <2>1, RecordsInStep
<1>10. Answers'
    BY <1>6 DEF Answers, Doing
<1> QED BY <1>2, <1>3, <1>8, <1>9, <1>10 DEF QueryInv

LEMMA RangeOnTreeStep ==
    ASSUME QueryInv, NEW low \in Keys, NEW high \in Keys, RangeOnTree(low, high), ~DuplicateInserts
    PROVE  QueryInv'
<1> DEFINE req == [op |-> "range", lo |-> low, hi |-> high]
<1>1. /\ HeapP!Inv /\ TreeP!MapInv /\ Commands /\ Records
      /\ query = Nothing /\ treePc = "idle" /\ turn' = "tree"
      /\ query' = [op |-> "range", lo |-> low, hi |-> high] /\ Tree!Begin(req) /\ UNCHANGED heapVars
    BY DEF QueryInv, RangeOnTree, Idle, Tree!BeginRange
<1>2. HeapP!Inv' /\ HeapP!slots' = HeapP!slots /\ HeapP!asked' = HeapP!asked /\ heapPc' = heapPc
    BY <1>1, HeapKept DEF heapVars
<1>3. req \in TreeP!Requests /\ req.op = "range" /\ req.lo = low /\ req.hi = high
    BY DEF TreeP!Requests
<1> HIDE DEF req
<1>4. TreeP!MapInv' /\ TreeP!Pairs' = TreeP!Pairs /\ TreeP!asked' = req
    BY <1>1, <1>3, TreeAsked
<1>5. heapPc = "idle" /\ HeapDone /\ HeapDone'
  <2>1. heapPc = "idle"
      BY <1>1 DEF Commands
  <2> QED BY <1>2, <2>1, IdleIsDone DEF HeapDone
<1>6. ~TreeDone'
    BY <1>3, <1>4 DEF TreeDone, TreeP!NoRequest
<1>7. query' \in Queries /\ query' # Nothing /\ query'.op = "range" /\ query'.lo = low /\ query'.hi = high
    BY <1>1 DEF Queries, Nothing
<1>8. AsksFor(TreeP!asked)'
    BY <1>3, <1>4, <1>7 DEF AsksFor
<1>9. Commands'
    BY <1>1, <1>2, <1>5, <1>7, <1>8 DEF Commands
<1>10. Records'
  <2>1. ~Put /\ ~Taken /\ ~Put' /\ ~Taken' /\ ~Doing("insert")'
      BY <1>1, <1>7, QueryIs DEF Put, Taken, Between, Doing
  <2> QED BY <1>1, <1>2, <1>4, <2>1, RecordsInStep
<1>11. Answers'
    BY <1>1, <1>6 DEF Answers
<1> QED BY <1>2, <1>4, <1>9, <1>10, <1>11 DEF QueryInv

LEMMA RangeOnHeapStep ==
    ASSUME QueryInv, RangeOnHeap
    PROVE  QueryInv'
<1>1. /\ HeapP!Inv /\ TreeP!MapInv /\ Commands /\ Records /\ Answers
      /\ query.op = "range" /\ turn = "tree" /\ treePc = "idle" /\ turn' = "heap" /\ query' = query
      /\ Heap!Begin("range", query.lo, query.hi) /\ UNCHANGED treeVars
    BY DEF QueryInv, RangeOnHeap
<1>2. query.lo \in Keys /\ query.hi \in Keys /\ query \in Queries /\ query # Nothing
    BY <1>1, QueryIs
<1>3. /\ HeapP!Inv' /\ HeapP!slots' = HeapP!slots
      /\ HeapP!asked' = [op |-> "range", lo |-> query.lo, hi |-> query.hi]
    BY <1>1, <1>2, HeapAsked
<1>4. /\ TreeP!MapInv' /\ TreeP!Pairs' = TreeP!Pairs /\ TreeP!asked' = TreeP!asked /\ TreeP!answer' = TreeP!answer
      /\ treePc' = "idle"
    BY <1>1, TreeKept DEF treeVars
<1>5. TreeDone /\ TreeDone'
    BY <1>1, <1>4, IdleIsDone DEF TreeDone
<1>6. ~HeapDone'
    BY <1>3 DEF HeapDone
<1>7. AsksFor(HeapP!asked)'
    BY <1>1, <1>3 DEF AsksFor
<1>8. Commands'
    BY <1>1, <1>2, <1>4, <1>5, <1>7 DEF Commands
<1>9. Records'
  <2>1. ~Put /\ ~Taken /\ ~Put' /\ ~Taken' /\ ~Doing("insert")'
      BY <1>1 DEF Put, Taken, Doing
  <2> QED BY <1>1, <1>3, <1>4, <2>1, RecordsInStep
<1>10. Answers'
  <2>1. Listed(query.lo, query.hi)' = Listed(query.lo, query.hi)
      BY <1>1, <1>4, SameListed DEF Listed, TreeP!Map!Matches
  <2>2. /\ TreeP!answer \in TreeP!Map!Prefixes(Listed(query.lo, query.hi))
        /\ query.lo = query.hi => TreeP!answer = Listed(query.lo, query.hi)
      BY <1>1, <1>5 DEF Answers, Doing
  <2> QED BY <1>1, <1>4, <1>6, <2>1, <2>2 DEF Answers
<1> QED BY <1>3, <1>4, <1>8, <1>9, <1>10 DEF QueryInv

LEMMA FinishStep ==
    ASSUME QueryInv, Finish
    PROVE  QueryInv'
<1>1. /\ HeapP!Inv /\ TreeP!MapInv /\ Commands /\ Records
      /\ query # Nothing /\ turn = LastStore /\ heapPc = "idle" /\ treePc = "idle" /\ query' = Nothing /\ turn' = "none"
      /\ UNCHANGED heapVars /\ UNCHANGED treeVars
    BY DEF QueryInv, Finish, Idle
<1>2. HeapP!Inv' /\ HeapP!slots' = HeapP!slots /\ HeapP!asked' = HeapP!asked /\ heapPc' = "idle"
    BY <1>1, HeapKept DEF heapVars
<1>3. TreeP!MapInv' /\ TreeP!Pairs' = TreeP!Pairs /\ TreeP!asked' = TreeP!asked /\ treePc' = "idle"
    BY <1>1, TreeKept DEF treeVars
<1>4. HeapDone /\ TreeDone /\ HeapDone' /\ TreeDone'
    BY <1>1, <1>2, <1>3, IdleIsDone DEF HeapDone, TreeDone
<1>5. Commands'
    BY <1>1, <1>2, <1>3, <1>4 DEF Commands
<1>6. query'.op = "none"
    BY <1>1, QueryIs
<1>7. Records'
  <2>1. ~Put /\ ~Taken
      BY <1>1, <1>4 DEF Put, Taken, Between, LastStore, Doing
  <2>2. ~Put' /\ ~Taken' /\ ~Doing("insert")'
      BY <1>6 DEF Put, Taken, Doing
  <2> QED BY <1>1, <1>2, <1>3, <2>1, <2>2, RecordsInStep
<1>8. Answers'
    BY <1>6 DEF Answers, Doing
<1> QED BY <1>2, <1>3, <1>5, <1>7, <1>8 DEF QueryInv

\* The tree is handed the record pointer of the record that the heap has put.
LEMMA InsertInTreeStep ==
    ASSUME QueryInv, InsertInTree, ~DuplicateInserts
    PROVE  QueryInv'
<1>1. /\ HeapP!Inv /\ TreeP!MapInv /\ Commands /\ Records
      /\ query.op = "insert" /\ turn = "heap" /\ heapPc = "idle" /\ turn' = "tree" /\ query' = query /\ UNCHANGED heapVars
    BY DEF QueryInv, InsertInTree
<1>2. query.key \in Keys /\ query \in Queries /\ query # Nothing
    BY <1>1, QueryIs
<1>3. HeapDone /\ Put /\ ~Taken
    BY <1>1, IdleIsDone DEF Put, Taken, Between, Doing
<1>4. PICK new \in Ptrs : Placed(new)
    BY <1>1, <1>3 DEF Records
<1>5. heapResult = {new}
    BY <1>1, <1>4 DEF Placed, HeapP!answered
<1>6. PICK req : /\ Tree!Begin(req) /\ Tree!MayInsert(req.lo) /\ req \in TreeP!Requests
                 /\ req.op = "insert" /\ req.lo = query.key /\ req.ptr = new
  <2> DEFINE r == [op |-> "insert", lo |-> query.key, ptr |-> new]
  <2>1. Tree!BeginInsert(query.key, new)
      BY <1>5 DEF InsertInTree
  <2>2. Tree!Begin(r) /\ Tree!MayInsert(query.key)
      BY <2>1 DEF Tree!BeginInsert
  <2>3. new \in Heap!RecordPtrs
      BY SameHeap DEF Ptrs
  <2>4. r \in TreeP!Requests
      BY <1>2, <2>3 DEF TreeP!Requests
  <2> QED BY <2>2, <2>4
<1>7. TreeP!MapInv' /\ TreeP!Pairs' = TreeP!Pairs /\ TreeP!asked' = req
    BY <1>1, <1>6, TreeAsked
<1>8. /\ HeapP!Inv' /\ HeapP!slots' = HeapP!slots /\ HeapP!asked' = HeapP!asked /\ HeapP!answered' = HeapP!answered
      /\ heapPc' = "idle"
    BY <1>1, HeapKept DEF heapVars
<1>9. HeapDone' /\ ~TreeDone'
    BY <1>3, <1>6, <1>7, <1>8 DEF HeapDone, TreeDone, TreeP!NoRequest
<1>10. AsksFor(TreeP!asked)'
    BY <1>1, <1>6, <1>7 DEF AsksFor
<1>11. Commands'
    BY <1>1, <1>2, <1>8, <1>9, <1>10 DEF Commands
<1>12. Put' /\ ~Taken'
    BY <1>1, <1>9 DEF Put, Taken, Between, Doing
<1>13. Placed(new)' /\ \A rp \in Ptrs : Placed(rp) => Placed(rp)'
    BY <1>1, <1>4, <1>8 DEF Placed
<1>14. Records'
  <2>1. query.key \notin DOMAIN TreeP!Pairs
      BY <1>1 DEF Records, Doing
  <2> QED BY <1>1, <1>3, <1>6, <1>7, <1>8, <1>12, <1>13, <2>1 DEF Records, Ptrs
<1>15. Answers'
    BY <1>1 DEF Answers, Doing
<1> QED BY <1>7, <1>8, <1>11, <1>14, <1>15 DEF QueryInv

LEMMA DeleteFromTreeStep ==
    ASSUME QueryInv, DeleteFromTree, ~DuplicateInserts
    PROVE  QueryInv'
<1>1. /\ HeapP!Inv /\ TreeP!MapInv /\ Commands /\ Records
      /\ query.op = "delete" /\ turn = "heap" /\ heapPc = "idle" /\ turn' = "tree" /\ query' = query /\ UNCHANGED heapVars
    BY DEF QueryInv, DeleteFromTree
<1>2. query.key \in Keys /\ query \in Queries /\ query # Nothing
    BY <1>1, QueryIs
<1>3. HeapDone /\ ~Put /\ Taken
    BY <1>1, IdleIsDone DEF Put, Taken, Between, Doing
<1>4. PICK req : /\ Tree!Begin(req) /\ req \in TreeP!Requests /\ req.op = "delete" /\ req.lo = query.key
  <2> DEFINE r == [op |-> "delete", lo |-> query.key]
  <2>1. Tree!Begin(r)
      BY DEF DeleteFromTree, Tree!BeginDelete
  <2>2. r \in TreeP!Requests
      BY <1>2 DEF TreeP!Requests
  <2> QED BY <2>1, <2>2
<1>5. TreeP!MapInv' /\ TreeP!Pairs' = TreeP!Pairs /\ TreeP!asked' = req
    BY <1>1, <1>4, TreeAsked
<1>6. /\ HeapP!Inv' /\ HeapP!slots' = HeapP!slots /\ HeapP!asked' = HeapP!asked /\ heapPc' = "idle"
    BY <1>1, HeapKept DEF heapVars
<1>7. HeapDone' /\ ~TreeDone'
    BY <1>3, <1>4, <1>5, <1>6 DEF HeapDone, TreeDone, TreeP!NoRequest
<1>8. AsksFor(TreeP!asked)'
    BY <1>1, <1>4, <1>5 DEF AsksFor
<1>9. Commands'
    BY <1>1, <1>2, <1>6, <1>7, <1>8 DEF Commands
<1>10. ~Put' /\ Taken' /\ ~Doing("insert")'
    BY <1>1, <1>7 DEF Put, Taken, Between, Doing
<1>11. Records'
    BY <1>1, <1>3, <1>5, <1>6, <1>10 DEF Records, Ptrs
<1>12. Answers'
    BY <1>1 DEF Answers, Doing
<1> QED BY <1>5, <1>6, <1>9, <1>11, <1>12 DEF QueryInv

\* The heap's work.
LEMMA HeapWorkStep ==
    ASSUME QueryInv, HeapWork
    PROVE  QueryInv'
<1>1. /\ HeapP!Inv /\ TreeP!MapInv /\ Commands /\ Records /\ Answers
      /\ turn = "heap" /\ turn' = "heap" /\ query' = query /\ Heap!Work /\ UNCHANGED treeVars
    BY DEF QueryInv, HeapWork
<1>2. query \in Queries /\ query # Nothing /\ treePc = "idle" /\ TreeDone
    BY <1>1, QueryIs, IdleIsDone DEF Commands
<1>3. /\ HeapP!Inv'
      /\ \/ HeapP!Store!Insert \/ HeapP!Store!DeleteOne \/ HeapP!Store!DeleteNone \/ HeapP!Store!Range
         \/ UNCHANGED <<HeapP!slots, HeapP!asked, HeapP!answered>>
    BY <1>1, HeapWorks
<1>4. /\ TreeP!MapInv' /\ TreeP!Pairs' = TreeP!Pairs /\ TreeP!asked' = TreeP!asked /\ TreeP!answer' = TreeP!answer
      /\ treePc' = "idle"
    BY <1>1, <1>2, TreeKept DEF treeVars
<1>5. TreeDone'
    BY <1>2, <1>4 DEF TreeDone
<1>6. /\ HeapP!slots \in [Ptrs -> Keys \cup {Free}] /\ Free \notin Keys
      /\ DOMAIN TreeP!Pairs \subseteq Keys /\ \A k \in DOMAIN TreeP!Pairs : TreeP!Pairs[k] \in Ptrs
    BY <1>1, Typed
<1>7. Ptrs = HeapP!RecordPtrs /\ Free = HeapP!DELETE_MARKER
    BY DEF Ptrs, Free
<1>8. ~HeapDone => AsksFor(HeapP!asked)
    BY <1>1 DEF Commands
<1>9. HeapDone' \/ (UNCHANGED HeapP!asked) => Commands'
    BY <1>1, <1>2, <1>4, <1>5 DEF Commands, HeapDone, AsksFor
<1>10. /\ TreeP!answer \in TreeP!Map!Prefixes(Listed(query.lo, query.hi)) \/ ~Doing("range")
       /\ Doing("range") /\ query.lo = query.hi => TreeP!answer = Listed(query.lo, query.hi)
    BY <1>1, <1>2 DEF Answers
<1>11. Listed(query.lo, query.hi)' = Listed(query.lo, query.hi)
    BY <1>1, <1>4, SameListed DEF Listed, TreeP!Map!Matches
<1>12. Doing("insert") => query.key \notin DOMAIN TreeP!Pairs
    BY <1>1 DEF Records
<1>13. CASE HeapP!Store!Insert
  <2>1. PICK new \in Ptrs : /\ HeapP!slots[new] = Free /\ HeapP!answered' = {new}
                            /\ HeapP!slots' = [HeapP!slots EXCEPT ![new] = HeapP!asked.lo]
      BY <1>7, <1>13 DEF HeapP!Store!Insert
  <2>2. HeapP!asked.op = "insert" /\ HeapP!asked'.op = "none"
      BY <1>13 DEF HeapP!Store!Insert, HeapP!Store!Done
  <2>3. ~HeapDone /\ HeapDone'
      BY <2>2 DEF HeapDone
  <2>4. query.op = "insert" /\ HeapP!asked.lo = query.key
      BY <1>8, <2>2, <2>3 DEF AsksFor
  <2>5. query.key \in Keys
      BY <1>1, <2>4, QueryIs
  <2>6. ~Put /\ ~Taken /\ Put' /\ ~Taken'
      BY <1>1, <2>3, <2>4 DEF Put, Taken, Between, Doing
  <2>7. /\ HeapP!slots'[new] = query.key /\ \A rp \in Ptrs \ {new} : HeapP!slots'[rp] = HeapP!slots[rp]
      BY <1>6, <2>1, <2>4
  <2>8. Placed(new)'
      BY <1>1, <2>1, <2>7 DEF Placed
  <2>9. \A k \in DOMAIN TreeP!Pairs : HeapP!slots[TreeP!Pairs[k]] = k /\ TreeP!Pairs[k] # new
    <3>1. \A k \in DOMAIN TreeP!Pairs : HeapP!slots[TreeP!Pairs[k]] = k
        BY <1>1, <2>6 DEF Records
    <3> QED BY <1>6, <2>1, <3>1
  <2>10. \A rp \in Ptrs : HeapP!slots[rp] # Free => HeapP!slots[rp] \in DOMAIN TreeP!Pairs /\ TreeP!Pairs[HeapP!slots[rp]] = rp
      BY <1>1, <2>6 DEF Records
  <2>11. Records'
    <3>1. \A k \in DOMAIN TreeP!Pairs : HeapP!slots'[TreeP!Pairs[k]] = k
        BY <1>6, <2>7, <2>9
    <3>2. \A rp \in Ptrs : HeapP!slots'[rp] # Free =>
              \/ HeapP!slots'[rp] \in DOMAIN TreeP!Pairs /\ TreeP!Pairs[HeapP!slots'[rp]] = rp
              \/ Placed(rp)'
        BY <2>7, <2>8, <2>10
    <3> QED BY <1>1, <1>4, <1>5, <1>12, <2>4, <2>6, <2>8, <3>1, <3>2 DEF Records, Doing, Ptrs, Free
  <2>12. Answers'
      BY <1>1, <2>4 DEF Answers, Doing
  <2> QED BY <1>3, <1>4, <1>9, <2>3, <2>11, <2>12 DEF QueryInv
<1>14. CASE HeapP!Store!DeleteOne \/ HeapP!Store!DeleteNone
  <2>1. /\ HeapP!asked.op = "delete" /\ HeapP!asked'.op = "none"
        /\ \/ \E rp \in Ptrs : HeapP!slots[rp] = HeapP!asked.lo /\ HeapP!slots' = [HeapP!slots EXCEPT ![rp] = Free]
           \/ (\A rp \in Ptrs : HeapP!slots[rp] # HeapP!asked.lo) /\ HeapP!slots' = HeapP!slots
      BY <1>7, <1>14 DEF HeapP!Store!DeleteOne, HeapP!Store!DeleteNone, HeapP!Store!Done
  <2>2. ~HeapDone /\ HeapDone'
      BY <2>1 DEF HeapDone
  <2>3. query.op = "delete" /\ HeapP!asked.lo = query.key
      BY <1>8, <2>1, <2>2 DEF AsksFor
  <2>4. query.key \in Keys
      BY <1>1, <2>3, QueryIs
  <2>5. ~Put /\ ~Taken /\ ~Put' /\ Taken' /\ ~Doing("insert")'
      BY <1>1, <2>2, <2>3 DEF Put, Taken, Between, Doing
  <2>6. \A k \in DOMAIN TreeP!Pairs : HeapP!slots[TreeP!Pairs[k]] = k
      BY <1>1, <2>5 DEF Records
  <2>7. \A rp \in Ptrs : HeapP!slots[rp] # Free => HeapP!slots[rp] \in DOMAIN TreeP!Pairs /\ TreeP!Pairs[HeapP!slots[rp]] = rp
      BY <1>1, <2>5 DEF Records
  \* No other slot holds the key, or the map would have it twice.
  <2>8. \A rp \in Ptrs : HeapP!slots'[rp] = IF HeapP!slots[rp] = query.key THEN Free ELSE HeapP!slots[rp]
    <3>1. CASE \A rp \in Ptrs : HeapP!slots[rp] # HeapP!asked.lo /\ HeapP!slots' = HeapP!slots
        BY <2>3, <3>1
    <3>2. ASSUME NEW gone \in Ptrs, HeapP!slots[gone] = query.key, HeapP!slots' = [HeapP!slots EXCEPT ![gone] = Free]
          PROVE  \A rp \in Ptrs : HeapP!slots'[rp] = IF HeapP!slots[rp] = query.key THEN Free ELSE HeapP!slots[rp]
      <4>1. \A rp \in Ptrs : HeapP!slots[rp] = query.key => rp = gone
          BY <1>6, <2>4, <2>7, <3>2
      <4> QED BY <1>6, <3>2, <4>1
    <3> QED BY <2>1, <2>3, <3>1, <3>2
  <2>9. Records'
    <3>1. \A k \in DOMAIN TreeP!Pairs : HeapP!slots'[TreeP!Pairs[k]] = k \/ k = query.key
        BY <1>6, <2>6, <2>8
    <3>2. \A rp \in Ptrs : HeapP!slots'[rp] # Free => HeapP!slots'[rp] \in DOMAIN TreeP!Pairs /\ TreeP!Pairs[HeapP!slots'[rp]] = rp
        BY <2>7, <2>8
    <3>3. \A rp \in Ptrs : HeapP!slots'[rp] # query.key
        BY <1>6, <2>4, <2>8
    <3> QED BY <1>1, <1>4, <2>5, <3>1, <3>2, <3>3 DEF Records, Ptrs, Free
  <2>10. Answers'
      BY <1>1, <2>3 DEF Answers, Doing
  <2> QED BY <1>3, <1>4, <1>9, <2>2, <2>9, <2>10 DEF QueryInv
<1>15. CASE HeapP!Store!Range
  <2>1. /\ HeapP!asked.op = "range" /\ HeapP!asked'.op = "none" /\ HeapP!slots' = HeapP!slots
        /\ HeapP!answered' = HeapP!Store!Matching
      BY <1>15 DEF HeapP!Store!Range, HeapP!Store!Done
  <2>2. ~HeapDone /\ HeapDone'
      BY <2>1 DEF HeapDone
  <2>3. query.op = "range" /\ HeapP!asked.lo = query.lo /\ HeapP!asked.hi = query.hi
      BY <1>8, <2>1, <2>2 DEF AsksFor
  <2>4. HeapP!answered' = Found(query.lo, query.hi)'
      BY <1>1, <2>1, <2>3 DEF Found, HeapP!Store!Matching, Ptrs, Free
  <2>5. Records'
    <3>1. ~Put /\ ~Taken /\ ~Put' /\ ~Taken' /\ ~Doing("insert")'
        BY <1>1, <2>3 DEF Put, Taken, Doing
    <3> QED BY <1>1, <1>4, <2>1, <3>1, RecordsInStep
  <2>6. Answers'
      BY <1>1, <1>4, <1>10, <1>11, <2>3, <2>4 DEF Answers, Doing
  <2> QED BY <1>3, <1>4, <1>9, <2>2, <2>5, <2>6 DEF QueryInv
<1>16. CASE UNCHANGED <<HeapP!slots, HeapP!asked, HeapP!answered>>
  <2>1. HeapDone' = HeapDone /\ TreeDone' = TreeDone /\ Put' = Put /\ Taken' = Taken /\ Doing("insert")' = Doing("insert")
      BY <1>1, <1>4, <1>16 DEF HeapDone, TreeDone, Put, Taken, Between, Doing
  <2>2. Records'
      BY <1>1, <1>4, <1>16, <2>1 DEF Records, Placed, Ptrs, Free
  <2>3. Found(query.lo, query.hi)' = Found(query.lo, query.hi)
      BY <1>1, <1>16 DEF Found, Ptrs, Free
  <2>4. Answers'
      BY <1>1, <1>4, <1>10, <1>11, <1>16, <2>1, <2>3 DEF Answers, Doing
  <2> QED BY <1>3, <1>4, <1>9, <1>16, <2>2, <2>4 DEF QueryInv
<1> QED BY <1>3, <1>13, <1>14, <1>15, <1>16

\* The tree's work.
LEMMA TreeWorkStep ==
    ASSUME QueryInv, TreeWork, ~DuplicateInserts
    PROVE  QueryInv'
<1>1. /\ HeapP!Inv /\ TreeP!MapInv /\ Commands /\ Records /\ Answers
      /\ turn = "tree" /\ turn' = "tree" /\ query' = query /\ Tree!Work /\ UNCHANGED heapVars
    BY DEF QueryInv, TreeWork
<1>2. query \in Queries /\ query # Nothing /\ heapPc = "idle" /\ HeapDone
    BY <1>1, QueryIs, IdleIsDone DEF Commands
<1>3. /\ TreeP!MapInv'
      /\ TreeP!Map!Insert \/ TreeP!Map!Delete \/ TreeP!Map!Search \/ TreeP!Unnoticed
    BY <1>1, TreeWorks
<1>4. /\ HeapP!Inv' /\ HeapP!slots' = HeapP!slots /\ HeapP!asked' = HeapP!asked /\ HeapP!answered' = HeapP!answered
      /\ heapPc' = "idle"
    BY <1>1, <1>2, HeapKept DEF heapVars
<1>5. HeapDone'
    BY <1>2, <1>4 DEF HeapDone
<1>6. ~TreeDone => AsksFor(TreeP!asked)
    BY <1>1 DEF Commands
<1>7. TreeDone' \/ (UNCHANGED TreeP!asked) => Commands'
    BY <1>1, <1>2, <1>4, <1>5 DEF Commands, TreeDone, AsksFor
<1>8. TreeP!NoRequest.op = "none" /\ TreeP!Map!NoRequest = TreeP!NoRequest
    BY DEF TreeP!NoRequest, TreeP!Map!NoRequest
<1>9. TreeDone' => ~Put' /\ ~Taken'
    BY <1>1 DEF Put, Taken, Between
<1>10. CASE TreeP!Map!Insert
  <2>1. /\ TreeP!asked.op = "insert" /\ TreeP!asked' = TreeP!NoRequest
        /\ TreeP!Pairs' = [k \in DOMAIN TreeP!Pairs \cup {TreeP!asked.lo} |->
                              IF k \in DOMAIN TreeP!Pairs THEN TreeP!Pairs[k] ELSE TreeP!asked.ptr]
      BY <1>8, <1>10 DEF TreeP!Map!Insert, TreeP!Map!Done
  <2>2. ~TreeDone /\ TreeDone'
      BY <1>8, <2>1 DEF TreeDone
  <2>3. query.op = "insert" /\ TreeP!asked.lo = query.key
      BY <1>6, <2>1, <2>2 DEF AsksFor
  <2>4. Put /\ ~Taken
      BY <1>2, <2>2, <2>3 DEF Put, Taken, Between, Doing
  <2>5. PICK new \in Ptrs : Placed(new) /\ TreeP!asked.ptr = new
      BY <1>1, <2>2, <2>4 DEF Records
  <2>6. query.key \notin DOMAIN TreeP!Pairs
      BY <1>1, <2>2, <2>3 DEF Records, Doing
  <2>7. /\ DOMAIN TreeP!Pairs' = DOMAIN TreeP!Pairs \cup {query.key} /\ TreeP!Pairs'[query.key] = new
        /\ \A k \in DOMAIN TreeP!Pairs : TreeP!Pairs'[k] = TreeP!Pairs[k]
      BY <2>1, <2>3, <2>5, <2>6
  <2>8. Records'
    <3>1. \A k \in DOMAIN TreeP!Pairs' : HeapP!slots[TreeP!Pairs'[k]] = k
        BY <1>1, <2>4, <2>5, <2>7 DEF Records, Placed
    <3>2. ASSUME NEW rp \in Ptrs, HeapP!slots[rp] # Free
          PROVE  HeapP!slots[rp] \in DOMAIN TreeP!Pairs' /\ TreeP!Pairs'[HeapP!slots[rp]] = rp
      <4>1. CASE HeapP!slots[rp] \in DOMAIN TreeP!Pairs /\ TreeP!Pairs[HeapP!slots[rp]] = rp
          BY <2>7, <4>1
      <4>2. CASE Placed(rp)
        <5>1. rp = new
            BY <2>5, <4>2 DEF Placed
        <5> QED BY <2>5, <2>7, <5>1 DEF Placed
      <4> QED BY <1>1, <3>2, <4>1, <4>2 DEF Records
    <3> QED BY <1>1, <1>4, <1>9, <2>2, <3>1, <3>2 DEF Records, Ptrs, Free
  <2>9. Answers'
      BY <1>1, <2>3 DEF Answers, Doing
  <2> QED BY <1>3, <1>4, <1>7, <2>2, <2>8, <2>9 DEF QueryInv
<1>11. CASE TreeP!Map!Delete
  <2>1. /\ TreeP!asked.op = "delete" /\ TreeP!asked' = TreeP!NoRequest
        /\ TreeP!Pairs' = [k \in DOMAIN TreeP!Pairs \ {TreeP!asked.lo} |-> TreeP!Pairs[k]]
      BY <1>8, <1>11 DEF TreeP!Map!Delete, TreeP!Map!Done
  <2>2. ~TreeDone /\ TreeDone'
      BY <1>8, <2>1 DEF TreeDone
  <2>3. query.op = "delete" /\ TreeP!asked.lo = query.key
      BY <1>6, <2>1, <2>2 DEF AsksFor
  <2>4. ~Put /\ Taken
      BY <1>2, <2>2, <2>3 DEF Put, Taken, Between, Doing
  <2>5. /\ DOMAIN TreeP!Pairs' = DOMAIN TreeP!Pairs \ {query.key}
        /\ \A k \in DOMAIN TreeP!Pairs' : TreeP!Pairs'[k] = TreeP!Pairs[k]
      BY <2>1, <2>3
  <2>6. Records'
    <3>1. \A k \in DOMAIN TreeP!Pairs' : HeapP!slots[TreeP!Pairs'[k]] = k
        BY <1>1, <2>5 DEF Records
    <3>2. \A rp \in Ptrs : HeapP!slots[rp] # Free =>
              HeapP!slots[rp] \in DOMAIN TreeP!Pairs' /\ TreeP!Pairs'[HeapP!slots[rp]] = rp
        BY <1>1, <2>4, <2>5 DEF Records
    <3> QED BY <1>1, <1>4, <1>9, <2>2, <3>1, <3>2 DEF Records, Ptrs, Free
  <2>7. Answers'
      BY <1>1, <2>3 DEF Answers, Doing
  <2> QED BY <1>3, <1>4, <1>7, <2>2, <2>6, <2>7 DEF QueryInv
<1>12. CASE TreeP!Map!Search
  <2>1. /\ TreeP!asked.op = "range" /\ TreeP!asked' = TreeP!NoRequest /\ TreeP!Pairs' = TreeP!Pairs
        /\ TreeP!answer' \in TreeP!Map!Prefixes(TreeP!Map!Matches(TreeP!asked.lo, TreeP!asked.hi))
        /\ TreeP!asked.lo = TreeP!asked.hi => TreeP!answer' = TreeP!Map!Matches(TreeP!asked.lo, TreeP!asked.hi)
      BY <1>8, <1>12 DEF TreeP!Map!Search, TreeP!Map!Done
  <2>2. ~TreeDone /\ TreeDone'
      BY <1>8, <2>1 DEF TreeDone
  <2>3. query.op = "range" /\ TreeP!asked.lo = query.lo /\ TreeP!asked.hi = query.hi
      BY <1>6, <2>1, <2>2 DEF AsksFor
  <2>4. Listed(query.lo, query.hi)' = Listed(query.lo, query.hi)
      BY <1>1, <2>1, SameListed DEF Listed, TreeP!Map!Matches
  <2>5. Records'
    <3>1. ~Put /\ ~Taken /\ ~Doing("insert")'
        BY <1>1, <2>3 DEF Put, Taken, Doing
    <3> QED BY <1>1, <1>4, <1>9, <2>1, <2>2, <3>1, RecordsInStep
  <2>6. Answers'
      BY <1>1, <2>1, <2>3, <2>4 DEF Answers, Listed
  <2> QED BY <1>3, <1>4, <1>7, <2>2, <2>5, <2>6 DEF QueryInv
<1>13. CASE TreeP!Unnoticed
  <2>1. TreeP!Pairs' = TreeP!Pairs /\ TreeP!asked' = TreeP!asked /\ TreeP!answer' = TreeP!answer
      BY <1>13 DEF TreeP!Unnoticed
  <2>2. HeapDone' = HeapDone /\ TreeDone' = TreeDone /\ Put' = Put /\ Taken' = Taken /\ Doing("insert")' = Doing("insert")
      BY <1>1, <1>4, <2>1 DEF HeapDone, TreeDone, Put, Taken, Between, Doing
  <2>3. Records'
      BY <1>1, <1>4, <2>1, <2>2 DEF Records, Placed, Ptrs, Free
  <2>4. Listed(query.lo, query.hi)' = Listed(query.lo, query.hi)
      BY <1>1, <2>1, SameListed DEF Listed, TreeP!Map!Matches
  <2>5. Answers'
      BY <1>1, <2>1, <2>2, <2>4 DEF Answers, Doing
  <2> QED BY <1>3, <1>4, <1>7, <2>1, <2>3, <2>5 DEF QueryInv
<1> QED BY <1>3, <1>10, <1>11, <1>12, <1>13

LEMMA NextQuery ==
    ASSUME QueryInv, [Next]_vars, ~DuplicateInserts
    PROVE  QueryInv'
<1>1. CASE \E k \in Keys : Insert(k) \/ Delete(k)
    BY <1>1, InsertStep, DeleteStep
<1>2. CASE \E range \in KeyRanges : RangeOnTree(range[1], range[2])
  <2>1. PICK range \in KeyRanges : RangeOnTree(range[1], range[2])
      BY <1>2
  <2>2. range[1] \in Keys /\ range[2] \in Keys
      BY QueryAssumption
  <2> QED BY <2>1, <2>2, RangeOnTreeStep
<1>3. CASE Execute
    BY <1>3, InsertInTreeStep, DeleteFromTreeStep, RangeOnHeapStep, HeapWorkStep, TreeWorkStep, FinishStep DEF Execute
<1>4. CASE UNCHANGED vars
  <2>1. UNCHANGED heapVars /\ UNCHANGED treeVars /\ query' = query /\ turn' = turn
      BY <1>4 DEF vars
  <2>2. /\ HeapP!Inv' /\ HeapP!slots' = HeapP!slots /\ HeapP!asked' = HeapP!asked /\ HeapP!answered' = HeapP!answered
      BY <2>1, HeapKept DEF QueryInv
  <2>3. TreeP!MapInv' /\ TreeP!Pairs' = TreeP!Pairs /\ TreeP!asked' = TreeP!asked /\ TreeP!answer' = TreeP!answer
      BY <2>1, TreeKept DEF QueryInv
  <2>4. heapPc' = heapPc /\ treePc' = treePc
      BY <2>1 DEF heapVars, treeVars
  <2>5. /\ HeapDone' = HeapDone /\ TreeDone' = TreeDone /\ Put' = Put /\ Taken' = Taken
        /\ Doing("insert")' = Doing("insert") /\ Doing("range")' = Doing("range")
      BY <2>1, <2>2, <2>3 DEF HeapDone, TreeDone, Put, Taken, Between, Doing
  <2>6. Commands'
      BY <2>1, <2>2, <2>3, <2>4, <2>5 DEF QueryInv, Commands, AsksFor
  <2>7. Records'
      BY <2>1, <2>2, <2>3, <2>5 DEF QueryInv, Records, Placed, Ptrs, Free
  <2>8. Listed(query.lo, query.hi)' = Listed(query.lo, query.hi) /\ Found(query.lo, query.hi)' = Found(query.lo, query.hi)
      BY <2>1, <2>2, <2>3, SameListed DEF Listed, Found, TreeP!Map!Matches, Ptrs, Free
  <2>9. Answers'
      BY <2>1, <2>2, <2>3, <2>5, <2>8 DEF QueryInv, Answers
  <2> QED BY <2>2, <2>3, <2>6, <2>7, <2>9 DEF QueryInv
<1> QED BY <1>1, <1>2, <1>3, <1>4 DEF Next

-----------------------------------------------------------------------------
(* The theorems *)

\* The commands keep the record pointers of the tree and the records of the
\* heap in step, whatever the calls in between do to blocks and nodes: one
\* store is ahead of the other only between the two calls of a command
\* (Query.cpp).
THEOREM QueryInvariant == ~DuplicateInserts /\ Spec => []QueryInv
<1> SUFFICES ASSUME ~DuplicateInserts PROVE Spec => []QueryInv
    OBVIOUS
<1>1. Init => QueryInv
    BY InitQuery
<1>2. QueryInv /\ [Next]_vars => QueryInv'
    BY NextQuery
<1> QED BY <1>1, <1>2, PTL DEF Spec

LEMMA SlotIsRecord == \A rp \in Ptrs : write_data(rp) = HeapP!slots[rp]
BY DEF write_data, HeapP!slots, Ptrs

LEMMA InStepWhenIdle ==
    ASSUME QueryInv, Idle
    PROVE  StoresAgree
<1>1. HeapP!Inv /\ TreeP!MapInv /\ Commands /\ Records /\ query.op = "none"
    BY QueryIs DEF QueryInv, Idle
<1>2. ~Put /\ ~Taken
    BY <1>1 DEF Put, Taken, Doing
<1>3. \A k \in DOMAIN TreeP!Pairs : HeapP!slots[TreeP!Pairs[k]] = k
    BY <1>1, <1>2 DEF Records
<1>4. \A rp \in Ptrs : HeapP!slots[rp] # Free => HeapP!slots[rp] \in DOMAIN TreeP!Pairs
    BY <1>1, <1>2 DEF Records
<1>5. /\ Free \notin Keys /\ DOMAIN TreeP!Pairs \subseteq Keys
      /\ \A k \in DOMAIN TreeP!Pairs : TreeP!Pairs[k] \in Ptrs
    BY <1>1, Typed
<1>6. Heap!RecordPtrs = Ptrs /\ Heap!DELETE_MARKER = Free /\ DOMAIN TreeP!Pairs = Tree!StoredKeys
    BY SameHeap, SameTree DEF Ptrs, Free, TreeP!Pairs
<1>7. HeapKeys = {HeapP!slots[rp] : rp \in Ptrs} \ {Free}
    BY <1>6, SlotIsRecord DEF HeapKeys
<1>8. {HeapP!slots[rp] : rp \in Ptrs} \ {Free} = DOMAIN TreeP!Pairs
    BY <1>3, <1>4, <1>5
<1> QED BY <1>6, <1>7, <1>8 DEF StoresAgree

LEMMA InStepResolves ==
    ASSUME QueryInv
    PROVE  PointersResolve
<1>1. HeapP!Inv /\ TreeP!MapInv /\ Records
    BY DEF QueryInv
<1>2. \A k \in DOMAIN TreeP!Pairs : TreeP!Pairs[k] \in Ptrs
    BY <1>1, Typed
<1>3. DOMAIN TreeP!Pairs = Tree!StoredKeys /\ Tree!Pairs = TreeP!Pairs
    BY SameTree DEF TreeP!Pairs
<1>4. \A k \in DOMAIN TreeP!Pairs : HeapP!slots[TreeP!Pairs[k]] = k \/ (Taken /\ k = query.key)
    BY <1>1 DEF Records
<1>5. Taken => Doing("delete")
    BY DEF Taken
<1> QED BY <1>2, <1>3, <1>4, <1>5, SlotIsRecord DEF PointersResolve

\* A sequence without repetition is as long as the set of its elements is large.
LEMMA NoRepetition ==
    ASSUME NEW s, NEW n \in Nat, DOMAIN s = 1 .. n, Len(s) = n, \A i, j \in 1 .. n : s[i] = s[j] => i = j
    PROVE  Len(s) = Cardinality(ToSet(s))
<1> DEFINE S == 1 .. n
           T == {s[i] : i \in S}
           f == [i \in S |-> s[i]]
<1>1. IsFiniteSet(S) /\ Cardinality(S) = n
    BY FS_Interval
<1>2. f \in Bijection(S, T)
    BY DEF Bijection, Injection, Surjection, IsInjective
<1>3. ExistsBijection(S, T)
    BY <1>2 DEF ExistsBijection
<1>4. Cardinality(T) = n
    BY <1>1, <1>3, FS_Bijection
<1> QED BY <1>4 DEF ToSet

LEMMA InStepAnswers ==
    ASSUME QueryInv
    PROVE  AnswersAgree
<1> SUFFICES ASSUME Doing("range"), turn = "heap", heapPc = "idle"
             PROVE  /\ ToSet(treeResult) \subseteq heapResult
                    /\ Len(treeResult) = Cardinality(ToSet(treeResult))
                    /\ query.lo = query.hi => ToSet(treeResult) = heapResult
    BY DEF AnswersAgree
<1> DEFINE low == query.lo
           high == query.hi
<1>1. HeapP!Inv /\ TreeP!MapInv /\ TreeP!Inv /\ TreeP!Unique(node) /\ Commands /\ Records /\ Answers
    BY DEF QueryInv, TreeP!MapInv
<1>2. treePc = "idle" /\ HeapDone /\ TreeDone
    BY <1>1, IdleIsDone DEF Commands
<1>3. TreeP!answer = treeResult /\ HeapP!answered = heapResult
    BY <1>2 DEF TreeP!answer, HeapP!answered
<1>4. heapResult = Found(low, high)
    BY <1>1, <1>2, <1>3 DEF Answers
<1>5. /\ treeResult \in TreeP!Map!Prefixes(TreeP!Map!Matches(low, high))
      /\ low = high => treeResult = TreeP!Map!Matches(low, high)
    BY <1>1, <1>2, <1>3 DEF Answers, Listed
<1>6. PICK order : /\ Len(treeResult) \in Nat /\ order \in [1 .. Len(treeResult) -> TreeP!Wanted(node, low, high)]
                   /\ \A i, j \in 1 .. Len(treeResult) : order[i] = order[j] => i = j
                   /\ treeResult = [i \in 1 .. Len(treeResult) |-> TreeP!Pairs[order[i]]]
                   /\ treeResult = TreeP!Map!Matches(low, high) =>
                         \A k \in TreeP!Wanted(node, low, high) : \E i \in 1 .. Len(treeResult) : order[i] = k
    BY <1>1, <1>5, Parameters, TreeP!AnswerIs
<1>7. /\ HeapP!slots \in [Ptrs -> Keys \cup {Free}] /\ Free \notin Keys
      /\ DOMAIN TreeP!Pairs \subseteq Keys /\ \A k \in DOMAIN TreeP!Pairs : TreeP!Pairs[k] \in Ptrs
    BY <1>1, Typed
<1>8. TreeP!Wanted(node, low, high) = {k \in DOMAIN TreeP!Pairs : low <= k /\ k <= high}
    BY <1>1, Parameters, TreeP!PairsAreRecords DEF TreeP!Wanted
<1> HIDE DEF low, high
<1>9. ~Put /\ ~Taken
    BY DEF Put, Taken, Doing
<1>10. /\ \A k \in DOMAIN TreeP!Pairs : HeapP!slots[TreeP!Pairs[k]] = k
       /\ \A rp \in Ptrs : HeapP!slots[rp] # Free => HeapP!slots[rp] \in DOMAIN TreeP!Pairs /\ TreeP!Pairs[HeapP!slots[rp]] = rp
    BY <1>1, <1>9 DEF Records
<1> DEFINE n == Len(treeResult)
<1> HIDE DEF n
<1>11. n \in Nat /\ DOMAIN treeResult = 1 .. n /\ n = Len(treeResult)
    BY <1>6 DEF n
<1>12. \A i \in 1 .. n : /\ order[i] \in DOMAIN TreeP!Pairs /\ low <= order[i] /\ order[i] <= high
                         /\ treeResult[i] = TreeP!Pairs[order[i]]
    BY <1>6, <1>8, <1>11
<1>13. \A i \in 1 .. n : treeResult[i] \in Found(low, high)
    BY <1>7, <1>10, <1>12 DEF Found
<1>14. ToSet(treeResult) \subseteq heapResult
    BY <1>4, <1>11, <1>13 DEF ToSet
<1>15. \A i, j \in 1 .. n : treeResult[i] = treeResult[j] => i = j
  <2> SUFFICES ASSUME NEW i \in 1 .. n, NEW j \in 1 .. n, treeResult[i] = treeResult[j] PROVE i = j
      OBVIOUS
  <2>1. order[i] = order[j]
      BY <1>10, <1>12
  <2> QED BY <1>6, <1>11, <2>1
<1>16. Len(treeResult) = Cardinality(ToSet(treeResult))
    BY <1>11, <1>15, NoRepetition
<1>17. ASSUME low = high PROVE heapResult \subseteq ToSet(treeResult)
  <2> SUFFICES ASSUME NEW rp \in Found(low, high) PROVE rp \in ToSet(treeResult)
      BY <1>4
  <2>1. rp \in Ptrs /\ HeapP!slots[rp] # Free /\ low <= HeapP!slots[rp] /\ HeapP!slots[rp] <= high
      BY DEF Found
  <2>2. HeapP!slots[rp] \in TreeP!Wanted(node, low, high) /\ TreeP!Pairs[HeapP!slots[rp]] = rp
      BY <1>8, <1>10, <2>1
  <2>3. PICK i \in 1 .. n : order[i] = HeapP!slots[rp]
      BY <1>5, <1>6, <1>11, <1>17, <2>2
  <2>4. treeResult[i] = rp
      BY <1>12, <2>2, <2>3
  <2> QED BY <1>11, <2>3, <2>4 DEF ToSet
<1> QED BY <1>14, <1>16, <1>17 DEF low, high

\* Between commands the heap and the tree hold the same keys, for databases of
\* any size and any block size and fanout (execute_insert and execute_delete).
THEOREM StoresAgreeHolds == ~DuplicateInserts /\ Spec => []StoresAgree
<1>1. QueryInv => StoresAgree
    BY InStepWhenIdle DEF StoresAgree
<1> QED BY <1>1, QueryInvariant, PTL

\* A record pointer that the tree holds leads to the record of its key in every
\* state of every command, but for the key a running DELETE has already taken
\* from the heap (RecordPtr::write_data).
THEOREM PointersResolveHolds == ~DuplicateInserts /\ Spec => []PointersResolve
<1>1. QueryInv => PointersResolve
    BY InStepResolves
<1> QED BY <1>1, QueryInvariant, PTL

\* What the tree answers to a RANGE the heap's walk finds too, no record comes
\* twice, and a range of one key gets the same answer from both
\* (execute_range).
THEOREM AnswersAgreeHolds == ~DuplicateInserts /\ Spec => []AnswersAgree
<1>1. QueryInv => AnswersAgree
    BY InStepAnswers
<1> QED BY <1>1, QueryInvariant, PTL

=============================================================================
