--------------------------- MODULE UnorderedHeap ---------------------------
(***************************************************************************)
(* BPTree/src/Block.cpp and UnorderedHeap.cpp: the storage file of the     *)
(* BPTree/ program, a singly linked chain of block files under temp/.  The *)
(* program holds nothing but first_block_ptr; each call walks the chain,   *)
(* loads one block at a time and writes it back.  A step of this module is *)
(* one turn of such a walk.                                                *)
(*                                                                         *)
(* A file name is the number gen_random_file_name ends it with, so 0 can   *)
(* stand for NULL_PTR.  Reading a file that does not exist leaves Block's  *)
(* constructor with an empty block, which is why disk is total: a deleted  *)
(* file, and the file of the first block that initialize() wipes, read as  *)
(* EmptyBlock.                                                             *)
(***************************************************************************)
EXTENDS Integers, FiniteSets

CONSTANTS Keys,          \* "data is non-negative integers" (main.cpp)
          BLOCK_SIZE,    \* slots of a block
          MaxBlockId     \* bound: the number of block files ever created

ASSUME KeysAssumption == Keys \subseteq Nat
ASSUME BlockSizeAssumption == BLOCK_SIZE \in Nat \ {0}
ASSUME MaxBlockIdAssumption == MaxBlockId \in Nat \ {0}

VARIABLES disk,              \* the block files of temp/
          first_block_ptr,   \* UnorderedHeap::first_block_ptr
          nextId,            \* BLOCK_ID of gen_random_file_name
          pc,                \* where the running call is
          request,           \* the running call and its arguments
          current,           \* current_block_ptr
          previous,          \* previous_block_ptr of a delete, last_block_ptr of an insert
          result             \* the RecordPtrs returned, or printed by a range

vars == <<disk, first_block_ptr, nextId, pc, request, current, previous, result>>

DELETE_MARKER == -1
NULL_PTR == 0
BlockIds == 1..MaxBlockId
Slots == 0..(BLOCK_SIZE - 1)
RecordPtrs == BlockIds \X Slots

Block == [size : Nat, keys : [Slots -> Keys \cup {DELETE_MARKER}], next : BlockIds \cup {NULL_PTR}]
EmptyBlock == [size |-> 0, keys |-> [i \in Slots |-> DELETE_MARKER], next |-> NULL_PTR]

Ops == {"none", "insert", "delete", "range"}
Requests == [op : Ops, lo : Keys, hi : Keys]

TypeOK ==
    /\ disk \in [BlockIds -> Block]
    /\ first_block_ptr \in BlockIds
    /\ nextId \in 1..(MaxBlockId + 1)
    /\ pc \in {"idle", "walk", "reclaim"}
    /\ request \in Requests
    /\ current \in BlockIds \cup {NULL_PTR}
    /\ previous \in BlockIds \cup {NULL_PTR}
    /\ result \subseteq RecordPtrs
-----------------------------------------------------------------------------
(* Block.cpp *)

is_full(b) == b.size >= BLOCK_SIZE
is_empty(b) == b.size = 0

Holding(b, k) == {i \in Slots : b.keys[i] = k}

\* The slot a loop over a block stops at: the first that holds k, or
\* BLOCK_SIZE when the loop runs out.
FirstSlot(b, k) ==
    IF Holding(b, k) = {} THEN BLOCK_SIZE
    ELSE CHOOSE i \in Holding(b, k) : \A j \in Holding(b, k) : i <= j

\* Faulty version: the key always goes to the first slot.
BlockInsertAtFront(b, k) ==
    [size |-> b.size + 1, keys |-> [b.keys EXCEPT ![0] = k], next |-> b.next]

\* Block::insert_key: a block without a free slot is left as it was.
BlockInsert(b, k) ==
    IF Holding(b, DELETE_MARKER) = {} THEN b
    ELSE [size |-> b.size + 1, keys |-> [b.keys EXCEPT ![FirstSlot(b, DELETE_MARKER)] = k],
          next |-> b.next]

\* Block::insert_next_block
InsertNextBlock(b, p) == [size |-> b.size, keys |-> b.keys, next |-> p]

\* Faulty version: the size is not reduced.
BlockDeleteKeepsSize(b, k) ==
    IF Holding(b, k) = {} THEN b
    ELSE [size |-> b.size, keys |-> [b.keys EXCEPT ![FirstSlot(b, k)] = DELETE_MARKER],
          next |-> b.next]

\* Block::delete_key: the first slot that holds the key is cleared.
BlockDelete(b, k) ==
    IF Holding(b, k) = {} THEN b
    ELSE [size |-> b.size - 1, keys |-> [b.keys EXCEPT ![FirstSlot(b, k)] = DELETE_MARKER],
          next |-> b.next]

\* Block::range: the slots printed.
BlockRange(b, low, high) ==
    {i \in Slots : b.keys[i] # DELETE_MARKER /\ low <= b.keys[i] /\ b.keys[i] <= high}
-----------------------------------------------------------------------------
(* UnorderedHeap.cpp *)

\* The constructor creates one empty block.
Init ==
    /\ disk = [b \in BlockIds |-> EmptyBlock]
    /\ first_block_ptr = 1
    /\ nextId = 2
    /\ pc = "idle"
    /\ request \in Requests /\ request.op = "none"
    /\ current = NULL_PTR
    /\ previous = NULL_PTR
    /\ result = {}

\* A call starts at the front of the chain.  A call that may create a block
\* waits for the bound MaxBlockId, which the program does not have.
Begin(op, low, high) ==
    /\ pc = "idle"
    /\ op \in {"insert", "delete"} => low = high /\ nextId <= MaxBlockId
    /\ pc' = "walk"
    /\ request' = [op |-> op, lo |-> low, hi |-> high]
    /\ current' = first_block_ptr
    /\ previous' = NULL_PTR
    /\ result' = {}
    /\ UNCHANGED <<disk, first_block_ptr, nextId>>

Walking(op) == pc = "walk" /\ request.op = op

\* The call returns to the interpreter and its locals are gone.
Return ==
    /\ pc' = "idle"
    /\ request' = [op |-> "none", lo |-> request.lo, hi |-> request.hi]
    /\ current' = NULL_PTR
    /\ previous' = NULL_PTR

\* insert_key: the first block of the chain with room takes the key.
InsertHere ==
    /\ Walking("insert") /\ current # NULL_PTR
    /\ ~is_full(disk[current])
    /\ disk' = [disk EXCEPT ![current] = BlockInsert(@, request.lo)]
    /\ result' = {<<current, FirstSlot(disk[current], DELETE_MARKER)>>}
    /\ Return
    /\ UNCHANGED <<first_block_ptr, nextId>>

\* Faulty version: a block with room may be passed.
InsertSkipAny ==
    /\ Walking("insert") /\ current # NULL_PTR
    /\ previous' = IF disk[current].next = NULL_PTR THEN current ELSE previous
    /\ current' = disk[current].next
    /\ UNCHANGED <<disk, first_block_ptr, nextId, pc, request, result>>

\* Faulty version: the last block is not remembered.
InsertSkipForgets ==
    /\ Walking("insert") /\ current # NULL_PTR
    /\ is_full(disk[current])
    /\ current' = disk[current].next
    /\ UNCHANGED <<disk, first_block_ptr, nextId, pc, request, previous, result>>

\* insert_key: a full block is passed; the last one is remembered.
InsertSkip ==
    /\ Walking("insert") /\ current # NULL_PTR
    /\ is_full(disk[current])
    /\ previous' = IF disk[current].next = NULL_PTR THEN current ELSE previous
    /\ current' = disk[current].next
    /\ UNCHANGED <<disk, first_block_ptr, nextId, pc, request, result>>

\* Faulty version: the new block is linked to the last one, not from it.
InsertAppendBackwards ==
    /\ Walking("insert") /\ current = NULL_PTR
    /\ disk' = [disk EXCEPT ![nextId] =
                    InsertNextBlock(BlockInsert(EmptyBlock, request.lo), previous)]
    /\ nextId' = nextId + 1
    /\ result' = {<<nextId, FirstSlot(EmptyBlock, DELETE_MARKER)>>}
    /\ Return
    /\ UNCHANGED first_block_ptr

\* insert_key: every block is full, so a new block gets the key and the last
\* block of the chain is linked to it.
InsertAppend ==
    /\ Walking("insert") /\ current = NULL_PTR
    /\ disk' = [disk EXCEPT ![nextId] = BlockInsert(EmptyBlock, request.lo),
                            ![previous] = InsertNextBlock(@, nextId)]
    /\ nextId' = nextId + 1
    /\ result' = {<<nextId, FirstSlot(EmptyBlock, DELETE_MARKER)>>}
    /\ Return
    /\ UNCHANGED first_block_ptr

\* delete_key: the first block with the key loses it.
DeleteHere ==
    /\ Walking("delete") /\ current # NULL_PTR
    /\ Holding(disk[current], request.lo) # {}
    /\ disk' = [disk EXCEPT ![current] = BlockDelete(@, request.lo)]
    /\ pc' = "reclaim"
    /\ UNCHANGED <<first_block_ptr, nextId, request, current, previous, result>>

\* delete_key: a block without the key is passed.
DeleteSkip ==
    /\ Walking("delete") /\ current # NULL_PTR
    /\ Holding(disk[current], request.lo) = {}
    /\ previous' = current
    /\ current' = disk[current].next
    /\ UNCHANGED <<disk, first_block_ptr, nextId, pc, request, result>>

\* delete_key: the chain ends without the key.
DeleteNothing ==
    /\ Walking("delete") /\ current = NULL_PTR
    /\ Return
    /\ UNCHANGED <<disk, first_block_ptr, nextId, result>>

\* Faulty version: an empty block may stay.
KeepAnyBlock ==
    /\ pc = "reclaim"
    /\ Return
    /\ UNCHANGED <<disk, first_block_ptr, nextId, result>>

\* delete_key: the block still holds a key and stays.
KeepBlock ==
    /\ pc = "reclaim" /\ ~is_empty(disk[current])
    /\ Return
    /\ UNCHANGED <<disk, first_block_ptr, nextId, result>>

\* delete_key: the only block is empty; a new empty block replaces it.
ReplaceOnlyBlock ==
    /\ pc = "reclaim" /\ is_empty(disk[current])
    /\ previous = NULL_PTR /\ disk[current].next = NULL_PTR
    /\ first_block_ptr' = nextId
    /\ nextId' = nextId + 1
    /\ disk' = [disk EXCEPT ![current] = EmptyBlock]
    /\ Return
    /\ UNCHANGED result

\* Faulty version: the front pointer is set from the previous block.
DropFrontBlockToPrevious ==
    /\ pc = "reclaim" /\ is_empty(disk[current])
    /\ previous = NULL_PTR /\ disk[current].next # NULL_PTR
    /\ first_block_ptr' = previous
    /\ disk' = [disk EXCEPT ![current] = EmptyBlock]
    /\ Return
    /\ UNCHANGED <<nextId, result>>

\* delete_key: the front block is empty and its successor becomes the front.
DropFrontBlock ==
    /\ pc = "reclaim" /\ is_empty(disk[current])
    /\ previous = NULL_PTR /\ disk[current].next # NULL_PTR
    /\ first_block_ptr' = disk[current].next
    /\ disk' = [disk EXCEPT ![current] = EmptyBlock]
    /\ Return
    /\ UNCHANGED <<nextId, result>>

\* Faulty version: the previous block is cut from the rest of the chain.
UnlinkBlockCutsChain ==
    /\ pc = "reclaim" /\ is_empty(disk[current])
    /\ previous # NULL_PTR
    /\ disk' = [disk EXCEPT ![previous] = InsertNextBlock(@, NULL_PTR), ![current] = EmptyBlock]
    /\ Return
    /\ UNCHANGED <<first_block_ptr, nextId, result>>

\* delete_key: an empty block further down is unlinked and its file deleted.
UnlinkBlock ==
    /\ pc = "reclaim" /\ is_empty(disk[current])
    /\ previous # NULL_PTR
    /\ disk' = [disk EXCEPT ![previous] = InsertNextBlock(@, disk[current].next),
                            ![current] = EmptyBlock]
    /\ Return
    /\ UNCHANGED <<first_block_ptr, nextId, result>>

\* Faulty version: the walk stays at its block.
RangeBlockStays ==
    /\ Walking("range") /\ current # NULL_PTR
    /\ result' = result \cup
          ({current} \X BlockRange(disk[current], request.lo, request.hi))
    /\ UNCHANGED <<disk, first_block_ptr, nextId, pc, request, current, previous>>

\* range: every block prints its keys of the range.
RangeBlock ==
    /\ Walking("range") /\ current # NULL_PTR
    /\ result' = result \cup
          ({current} \X BlockRange(disk[current], request.lo, request.hi))
    /\ current' = disk[current].next
    /\ UNCHANGED <<disk, first_block_ptr, nextId, pc, request, previous>>

\* range: the chain has ended.
RangeDone ==
    /\ Walking("range") /\ current = NULL_PTR
    /\ Return
    /\ UNCHANGED <<disk, first_block_ptr, nextId, result>>

insert_key == InsertHere \/ InsertSkip \/ InsertAppend
delete_key ==
    \/ DeleteHere \/ DeleteSkip \/ DeleteNothing
    \/ KeepBlock \/ ReplaceOnlyBlock \/ DropFrontBlock \/ UnlinkBlock
range_query == RangeBlock \/ RangeDone

\* One turn of the loop of the running call.
Work == insert_key \/ delete_key \/ range_query

Next ==
    \/ \E op \in Ops \ {"none"}, low, high \in Keys : Begin(op, low, high)
    \/ Work

Spec == Init /\ [][Next]_vars

\* The interpreter is one thread that runs a call to its end before it reads
\* the next command.
FairSpec == Spec /\ WF_vars(Work)
-----------------------------------------------------------------------------
(* Properties *)

\* The blocks that the front pointer or another block's next names.
Linked(b) == b = first_block_ptr \/ \E c \in BlockIds : disk[c].next = b

Occupied(b) == {i \in Slots : b.keys[i] # DELETE_MARKER}

\* A block's size, which alone decides is_full and is_empty, counts its keys:
\* no insert runs off the end of a block, no delete frees a block with keys.
SizeIsOccupancy == \A b \in BlockIds : disk[b].size = Cardinality(Occupied(disk[b]))

\* The chain is a chain: a block's next is the linked block after it in the
\* order of creation, so a walk meets every linked block exactly once.
ChainInOrder ==
    /\ \A b \in BlockIds : Linked(b) => first_block_ptr <= b /\ b < nextId
    /\ \A b \in BlockIds : disk[b].next # NULL_PTR => b < disk[b].next
    /\ \A b, c \in BlockIds :
          Linked(b) /\ Linked(c) /\ b < c => disk[b].next # NULL_PTR /\ disk[b].next <= c

\* Nothing is stored where no walk can find it: a block outside the chain is
\* a file that was never written or is deleted.
NothingLost == \A b \in BlockIds : ~Linked(b) => disk[b] = EmptyBlock

\* No block of the chain is empty, except the only one, and the one a delete
\* has emptied and is about to take out.
NoEmptyBlock ==
    \A b \in BlockIds :
        Linked(b) /\ is_empty(disk[b]) /\ ~(pc = "reclaim" /\ b = current)
            => b = first_block_ptr /\ disk[b].next = NULL_PTR

\* The blocks a running walk has behind it.
Passed(b) == Linked(b) /\ (current = NULL_PTR \/ b < current)

\* A walk misses nothing: an insert has left no room behind it, a delete has
\* left its key nowhere behind it, and a range has printed the records of its
\* range from every block behind it, each record once.
WalkMissesNothing ==
    /\ Walking("insert") => \A b \in BlockIds : Passed(b) => is_full(disk[b])
    /\ Walking("delete") => \A b \in BlockIds : Passed(b) => Holding(disk[b], request.lo) = {}
    /\ Walking("range") =>
          result = {rp \in RecordPtrs :
                      Passed(rp[1]) /\ rp[2] \in BlockRange(disk[rp[1]], request.lo, request.hi)}

\* The local pointers of the running call name blocks of the chain: current is
\* the block it is at, and previous the one whose next a delete will redirect
\* or, when an insert has found every block full, the one it will extend.
LocalsInChain ==
    /\ pc = "idle" <=> request.op = "none"
    /\ pc = "reclaim" => request.op = "delete" /\ current # NULL_PTR
    /\ request.op \in {"insert", "delete"} =>
          request.lo = request.hi /\ nextId <= MaxBlockId /\ result = {}
    /\ current # NULL_PTR => Linked(current)
    /\ Walking("insert") /\ current = NULL_PTR =>
          previous # NULL_PTR /\ Linked(previous) /\ disk[previous].next = NULL_PTR
    /\ request.op = "delete" =>
          IF previous = NULL_PTR THEN current = first_block_ptr
          ELSE Linked(previous) /\ disk[previous].next = current

\* The heap does what RecordStore promises.  A slot is a position in a block
\* file; a delete has happened once the key is out of its block; a range
\* answers when its walk ends.
slots == [rp \in RecordPtrs |-> disk[rp[1]].keys[rp[2]]]
asked == [op |-> IF pc = "walk" THEN request.op ELSE "none", lo |-> request.lo, hi |-> request.hi]
answered == IF pc = "walk" THEN {} ELSE result

Store == INSTANCE RecordStore WITH
    NoKey <- DELETE_MARKER, slot <- slots, request <- asked, result <- answered

ImplementsStore == Store!Spec

\* Every call returns: no walk goes round a cycle.
CallReturns == pc # "idle" ~> pc = "idle"
=============================================================================
