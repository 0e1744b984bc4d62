------------------------ MODULE UnorderedHeapProofs ------------------------
(***************************************************************************)
(* Proofs about UnorderedHeap, for every set of keys, every block size and *)
(* every number of block files.                                            *)
(***************************************************************************)
EXTENDS UnorderedHeap, TLAPS, FiniteSetTheorems, WellFoundedInduction

(* Blocks *)

\* Every nonempty set of naturals has a least element.
LEMMA LeastNat ==
    ASSUME NEW S \in SUBSET Nat, S # {}
    PROVE  \E i \in S : \A j \in S : i <= j
<1> DEFINE R == {p \in Nat \X Nat : p[1] < p[2]}
<1>1. IsWellFoundedOn(R, Nat)
    BY NatLessThanWellFounded DEF OpToRel
<1>2. PICK i \in S : \A j \in S : ~(<<j, i>> \in R)
    BY <1>1, WFMin
<1>3. ASSUME NEW j \in S PROVE i <= j
  <2>1. i \in Nat /\ j \in Nat /\ <<j, i>> \in Nat \X Nat
      BY <1>2
  <2>2. ~(j < i)
      BY <1>2, <2>1
  <2> QED BY <2>1, <2>2
<1> QED BY <1>3

\* Neither the null pointer nor the delete marker is a name or a key.
LEMMA NullFacts ==
    /\ NULL_PTR = 0
    /\ DELETE_MARKER = -1
    /\ DELETE_MARKER \notin Keys
    /\ Keys \subseteq Int
    /\ NULL_PTR \notin BlockIds
    /\ BlockIds \subseteq Nat \ {0}
BY KeysAssumption, MaxBlockIdAssumption DEF NULL_PTR, DELETE_MARKER, BlockIds

\* FirstSlot names a slot that holds the key, when there is one.
LEMMA FirstSlotHolds ==
    ASSUME NEW b, NEW k, Holding(b, k) # {}
    PROVE  FirstSlot(b, k) \in Holding(b, k)
<1>1. Holding(b, k) \in SUBSET Nat
    BY BlockSizeAssumption DEF Holding, Slots
<1>2. \E i \in Holding(b, k) : \A j \in Holding(b, k) : i <= j
    BY <1>1, LeastNat
<1> QED BY <1>2 DEF FirstSlot

\* A block has BLOCK_SIZE slots.
LEMMA SlotsFinite == IsFiniteSet(Slots) /\ Cardinality(Slots) = BLOCK_SIZE
BY BlockSizeAssumption, FS_Interval DEF Slots

\* The keys of a block can be counted, and there are at most BLOCK_SIZE.
LEMMA OccupiedFinite ==
    ASSUME NEW b
    PROVE  IsFiniteSet(Occupied(b)) /\ Cardinality(Occupied(b)) \in Nat
<1>1. Occupied(b) \in SUBSET Slots
    BY DEF Occupied
<1>2. IsFiniteSet(Occupied(b))
    BY <1>1, SlotsFinite, FS_Subset
<1> QED BY <1>2, FS_CardinalityType

\* A block whose size counts its keys has a free slot unless it is full.
LEMMA RoomUnlessFull ==
    ASSUME NEW b \in Block, b.size = Cardinality(Occupied(b)), ~is_full(b)
    PROVE  Holding(b, DELETE_MARKER) # {}
<1>1. SUFFICES ASSUME Holding(b, DELETE_MARKER) = {} PROVE FALSE
    OBVIOUS
<1>2. Occupied(b) = Slots
    BY <1>1 DEF Occupied, Holding
<1>3. b.size = BLOCK_SIZE
    BY <1>2, SlotsFinite
<1> QED BY <1>3, BlockSizeAssumption DEF is_full

\* It is empty exactly when its size says so.
LEMMA EmptyUnlessOccupied ==
    ASSUME NEW b \in Block, b.size = Cardinality(Occupied(b))
    PROVE  is_empty(b) <=> \A i \in Slots : b.keys[i] = DELETE_MARKER
<1>1. is_empty(b) <=> Occupied(b) = {}
    BY OccupiedFinite, FS_EmptySet DEF is_empty
<1> QED BY <1>1 DEF Occupied

\* The block that reading a missing file gives is a block without keys.
LEMMA EmptyBlockFacts ==
    /\ EmptyBlock \in Block
    /\ EmptyBlock.size = 0
    /\ EmptyBlock.next = NULL_PTR
    /\ \A i \in Slots : EmptyBlock.keys[i] = DELETE_MARKER
    /\ Cardinality(Occupied(EmptyBlock)) = 0
    /\ ~is_full(EmptyBlock)
<1>1. EmptyBlock \in Block
    BY DEF EmptyBlock, Block
<1>2. Occupied(EmptyBlock) = {}
    BY DEF Occupied, EmptyBlock
<1> QED BY <1>1, <1>2, FS_EmptySet, BlockSizeAssumption DEF EmptyBlock, is_full

\* Block::insert_key fills one free slot and touches nothing else.
LEMMA BlockInsertEffect ==
    ASSUME NEW b \in Block, b.size = Cardinality(Occupied(b)), ~is_full(b), NEW k \in Keys
    PROVE  LET c == BlockInsert(b, k)
               s == FirstSlot(b, DELETE_MARKER)
           IN  /\ c \in Block
               /\ s \in Slots /\ b.keys[s] = DELETE_MARKER
               /\ c.keys = [b.keys EXCEPT ![s] = k]
               /\ c.next = b.next
               /\ c.size = b.size + 1
               /\ c.size = Cardinality(Occupied(c))
<1> DEFINE c == BlockInsert(b, k)
           s == FirstSlot(b, DELETE_MARKER)
<1>1. Holding(b, DELETE_MARKER) # {}
    BY RoomUnlessFull
<1>2. s \in Slots /\ b.keys[s] = DELETE_MARKER
    BY <1>1, FirstSlotHolds DEF Holding
<1>3. c = [size |-> b.size + 1, keys |-> [b.keys EXCEPT ![s] = k], next |-> b.next]
    BY <1>1 DEF BlockInsert
<1> HIDE DEF s
<1>4. /\ c.keys = [b.keys EXCEPT ![s] = k]
      /\ c.next = b.next
      /\ c.size = b.size + 1
      /\ c \in Block
    BY <1>2, <1>3 DEF Block
<1> HIDE DEF c
<1>5. Occupied(c) = Occupied(b) \cup {s}
  <2>1. b.keys \in [Slots -> Keys \cup {DELETE_MARKER}]
      BY DEF Block
  <2>2. \A i \in Slots : c.keys[i] = IF i = s THEN k ELSE b.keys[i]
      BY <1>4, <2>1
  <2> QED BY <2>2, <1>2, NullFacts DEF Occupied
<1>6. s \notin Occupied(b)
    BY <1>2 DEF Occupied
<1>7. Cardinality(Occupied(c)) = Cardinality(Occupied(b)) + 1
    BY <1>5, <1>6, OccupiedFinite, FS_AddElement
<1> QED BY <1>2, <1>4, <1>7 DEF c, s

\* Block::delete_key clears one slot that held the key.
LEMMA BlockDeleteEffect ==
    ASSUME NEW b \in Block, b.size = Cardinality(Occupied(b)), NEW k \in Keys,
           Holding(b, k) # {}
    PROVE  LET c == BlockDelete(b, k)
               s == FirstSlot(b, k)
           IN  /\ c \in Block
               /\ s \in Slots /\ b.keys[s] = k
               /\ c.keys = [b.keys EXCEPT ![s] = DELETE_MARKER]
               /\ c.next = b.next
               /\ c.size = Cardinality(Occupied(c))
<1> DEFINE c == BlockDelete(b, k)
           s == FirstSlot(b, k)
<1>1. s \in Slots /\ b.keys[s] = k
    BY FirstSlotHolds DEF Holding
<1>2. c = [size |-> b.size - 1, keys |-> [b.keys EXCEPT ![s] = DELETE_MARKER], next |-> b.next]
    BY DEF BlockDelete
<1>3. s \in Occupied(b)
    BY <1>1, NullFacts DEF Occupied
<1>4. b.size \in Nat /\ b.size # 0
    BY <1>3, OccupiedFinite, FS_EmptySet DEF Block
<1> HIDE DEF s
<1>5. /\ c.keys = [b.keys EXCEPT ![s] = DELETE_MARKER]
      /\ c.next = b.next
      /\ c.size = b.size - 1
      /\ c \in Block
    BY <1>1, <1>2, <1>4 DEF Block
<1> HIDE DEF c
<1>6. Occupied(c) = Occupied(b) \ {s}
  <2>1. b.keys \in [Slots -> Keys \cup {DELETE_MARKER}]
      BY DEF Block
  <2>2. \A i \in Slots : c.keys[i] = IF i = s THEN DELETE_MARKER ELSE b.keys[i]
      BY <1>5, <2>1
  <2> QED BY <2>2, <1>1 DEF Occupied
<1>7. Cardinality(Occupied(c)) = Cardinality(Occupied(b)) - 1
    BY <1>3, <1>6, OccupiedFinite, FS_RemoveElement
<1> QED BY <1>1, <1>5, <1>7 DEF c, s

-----------------------------------------------------------------------------
(* The invariant *)

\* Everything the chain promises between two steps, strong enough that each
\* step preserves it: what is_full and is_empty rely on (SizeIsOccupancy), the
\* shape of the chain, and what a running walk knows of the blocks behind it.
Inv ==
    /\ TypeOK
    /\ SizeIsOccupancy
    /\ ChainInOrder
    /\ NothingLost
    /\ NoEmptyBlock
    /\ WalkMissesNothing
    /\ LocalsInChain

\* The heap that the constructor makes satisfies the invariant.
LEMMA InitInv == Init => Inv
<1> SUFFICES ASSUME Init PROVE Inv
    OBVIOUS
<1> USE NullFacts, EmptyBlockFacts, MaxBlockIdAssumption
<1>1. \A b \in BlockIds : disk[b] = EmptyBlock
    BY DEF Init
<1>2. \A b \in BlockIds : Linked(b) <=> b = 1
    BY <1>1 DEF Init, Linked
<1>3. TypeOK
    BY <1>1 DEF Init, TypeOK, BlockIds
<1>4. SizeIsOccupancy
    BY <1>1 DEF SizeIsOccupancy
<1>5. ChainInOrder
    BY <1>1, <1>2 DEF Init, ChainInOrder, BlockIds
<1>6. NothingLost
    BY <1>1 DEF NothingLost
<1>7. NoEmptyBlock
    BY <1>1, <1>2 DEF Init, NoEmptyBlock
<1>8. WalkMissesNothing
    BY DEF Init, WalkMissesNothing, Walking
<1>9. LocalsInChain
    BY DEF Init, LocalsInChain, Walking
<1> QED BY <1>3, <1>4, <1>5, <1>6, <1>7, <1>8, <1>9 DEF Inv

\* A step that redirects no pointer keeps the chain.
LEMMA LinksKept ==
    ASSUME first_block_ptr' = first_block_ptr,
           \A b \in BlockIds : disk'[b].next = disk[b].next
    PROVE  \A b \in BlockIds : Linked(b)' <=> Linked(b)
BY DEF Linked

\* So a chain whose pointers are what they were is still in order.
LEMMA ChainKept ==
    ASSUME ChainInOrder,
           first_block_ptr' = first_block_ptr, nextId' = nextId,
           \A b \in BlockIds : disk'[b].next = disk[b].next
    PROVE  ChainInOrder'
BY LinksKept DEF ChainInOrder

\* A walk that goes on to the next block has one more block behind it.
LEMMA WalkAdvances ==
    ASSUME TypeOK, ChainInOrder, current \in BlockIds, Linked(current),
           current' = disk[current].next, disk' = disk, first_block_ptr' = first_block_ptr
    PROVE  \A b \in BlockIds : Passed(b)' <=> Passed(b) \/ b = current
<1> USE NullFacts
<1> TAKE b \in BlockIds
<1>1. Linked(b)' <=> Linked(b)
    BY DEF Linked
<1>2. disk[current].next \in BlockIds \cup {NULL_PTR}
    BY DEF TypeOK, Block
<1>3. ASSUME Linked(b)
      PROVE  (current' = NULL_PTR \/ b < current') <=> b <= current
  <2>1. CASE b <= current
    <3>1. current' # NULL_PTR => current < current'
        BY DEF ChainInOrder
    <3>2. b \in Nat /\ current \in Nat /\ (current' # NULL_PTR => current' \in Nat)
        BY <1>2
    <3> QED BY <2>1, <3>1, <3>2
  <2>2. CASE current < b
    <3>1. disk[current].next # NULL_PTR /\ disk[current].next <= b
        BY <1>3, <2>2 DEF ChainInOrder
    <3>2. current' # NULL_PTR /\ current' <= b
        BY <3>1
    <3>3. b \in Nat /\ current \in Nat /\ current' \in Nat
        BY <1>2, <3>1
    <3>4. ~(b < current') /\ ~(b <= current)
        BY <2>2, <3>2, <3>3
    <3> QED BY <3>2, <3>4
  <2> QED BY <2>1, <2>2
<1> QED BY <1>1, <1>3 DEF Passed

\* The start of a call preserves the invariant.
LEMMA BeginInv ==
    ASSUME Inv, NEW op \in Ops \ {"none"}, NEW low \in Keys, NEW high \in Keys,
           Begin(op, low, high)
    PROVE  Inv'
<1> USE NullFacts
<1>1. /\ disk' = disk /\ first_block_ptr' = first_block_ptr /\ nextId' = nextId
      /\ pc = "idle" /\ pc' = "walk" /\ current' = first_block_ptr /\ previous' = NULL_PTR
      /\ request' = [op |-> op, lo |-> low, hi |-> high] /\ result' = {}
      /\ op \in {"insert", "delete"} => low = high /\ nextId <= MaxBlockId
    BY DEF Begin
<1>2. TypeOK'
    BY <1>1 DEF Inv, TypeOK, Requests
<1>3. SizeIsOccupancy' /\ NothingLost' /\ NoEmptyBlock'
    BY <1>1 DEF Inv, SizeIsOccupancy, NothingLost, NoEmptyBlock, Linked
<1>4. ChainInOrder'
    BY <1>1, ChainKept DEF Inv
<1>5. \A b \in BlockIds : ~Passed(b)'
    BY <1>1, <1>4 DEF Passed, ChainInOrder, Inv, TypeOK, BlockIds
<1>6. WalkMissesNothing'
    BY <1>1, <1>5 DEF WalkMissesNothing, Walking, RecordPtrs
<1>7. LocalsInChain'
    BY <1>1 DEF LocalsInChain, Walking, Linked, Inv, TypeOK, Ops
<1> QED BY <1>2, <1>3, <1>4, <1>6, <1>7 DEF Inv

\* An insert into a block with room preserves the invariant.
LEMMA InsertHereInv == ASSUME Inv, InsertHere PROVE Inv'
<1> USE NullFacts
<1> DEFINE c == BlockInsert(disk[current], request.lo)
           s == FirstSlot(disk[current], DELETE_MARKER)
<1>1. /\ current \in BlockIds /\ disk[current] \in Block /\ request.lo \in Keys
      /\ disk[current].size = Cardinality(Occupied(disk[current]))
      /\ ~is_full(disk[current])
    BY DEF Inv, TypeOK, InsertHere, SizeIsOccupancy, Requests
<1>2. /\ c \in Block /\ c.next = disk[current].next /\ c.size = disk[current].size + 1
      /\ c.size = Cardinality(Occupied(c))
      /\ s \in Slots
    BY <1>1, BlockInsertEffect
<1>3. /\ disk' = [disk EXCEPT ![current] = c]
      /\ first_block_ptr' = first_block_ptr /\ nextId' = nextId
      /\ pc' = "idle" /\ request' = [op |-> "none", lo |-> request.lo, hi |-> request.hi]
      /\ current' = NULL_PTR /\ previous' = NULL_PTR
      /\ result' = {<<current, s>>}
    BY DEF InsertHere, Return
<1> HIDE DEF c, s
<1>4. TypeOK'
    BY <1>1, <1>2, <1>3 DEF Inv, TypeOK, Requests, Ops, RecordPtrs
<1>5. \A b \in BlockIds : disk'[b] = IF b = current THEN c ELSE disk[b]
    BY <1>1, <1>3 DEF Inv, TypeOK
<1>6. \A b \in BlockIds : disk'[b].next = disk[b].next
    BY <1>2, <1>5
<1>7. \A b \in BlockIds : Linked(b)' <=> Linked(b)
    BY <1>3, <1>6, LinksKept
<1>8. SizeIsOccupancy'
    BY <1>2, <1>5 DEF Inv, SizeIsOccupancy
<1>9. ChainInOrder'
    BY <1>3, <1>6, ChainKept DEF Inv
<1>10. Linked(current)
    BY <1>1 DEF Inv, LocalsInChain
<1>11. NothingLost'
    BY <1>5, <1>7, <1>10 DEF Inv, NothingLost
<1>12. NoEmptyBlock'
  <2>1. ~is_empty(c)
      BY <1>1, <1>2 DEF is_empty, Block
  <2> QED BY <2>1, <1>3, <1>5, <1>6, <1>7 DEF Inv, NoEmptyBlock, InsertHere, Walking
<1>13. WalkMissesNothing' /\ LocalsInChain'
    BY <1>3 DEF WalkMissesNothing, LocalsInChain, Walking, Inv, TypeOK, Requests
<1> QED BY <1>4, <1>8, <1>9, <1>11, <1>12, <1>13 DEF Inv

\* Passing a full block preserves the invariant.
LEMMA InsertSkipInv == ASSUME Inv, InsertSkip PROVE Inv'
<1> USE NullFacts
<1>1. /\ pc = "walk" /\ request.op = "insert" /\ current \in BlockIds /\ is_full(disk[current])
      /\ disk' = disk /\ first_block_ptr' = first_block_ptr /\ nextId' = nextId
      /\ pc' = pc /\ request' = request /\ result' = result
      /\ current' = disk[current].next
      /\ previous' = IF disk[current].next = NULL_PTR THEN current ELSE previous
      /\ disk[current] \in Block
    BY DEF InsertSkip, Walking, Inv, TypeOK
<1>2. TypeOK'
    BY <1>1 DEF Inv, TypeOK, Block
<1>3. SizeIsOccupancy' /\ NothingLost' /\ NoEmptyBlock'
    BY <1>1 DEF Inv, SizeIsOccupancy, NothingLost, NoEmptyBlock, Linked
<1>4. ChainInOrder'
    BY <1>1, ChainKept DEF Inv
<1>5. Linked(current)
    BY <1>1 DEF Inv, LocalsInChain
<1>6. \A b \in BlockIds : Passed(b)' => Passed(b) \/ b = current
    BY <1>1, <1>5, WalkAdvances DEF Inv
<1>7. WalkMissesNothing'
    BY <1>1, <1>6 DEF Inv, WalkMissesNothing, Walking
<1>8. LocalsInChain'
    BY <1>1, <1>5 DEF Inv, LocalsInChain, Walking, Linked
<1> QED BY <1>2, <1>3, <1>4, <1>7, <1>8 DEF Inv

\* Linking a new block to the end of the chain preserves the invariant.
LEMMA InsertAppendInv == ASSUME Inv, InsertAppend PROVE Inv'
<1> USE NullFacts
<1> DEFINE c == BlockInsert(EmptyBlock, request.lo)
           s == FirstSlot(EmptyBlock, DELETE_MARKER)
           last == InsertNextBlock(disk[previous], nextId)
<1>1. /\ pc = "walk" /\ request.op = "insert" /\ current = NULL_PTR
      /\ nextId \in BlockIds /\ request.lo \in Keys
    BY DEF InsertAppend, Walking, Inv, TypeOK, LocalsInChain, Requests, BlockIds
<1>2. /\ previous \in BlockIds /\ Linked(previous) /\ disk[previous].next = NULL_PTR
      /\ previous < nextId /\ previous # nextId /\ disk[previous] \in Block
  <2>1. previous \in BlockIds /\ Linked(previous) /\ disk[previous].next = NULL_PTR
      BY <1>1 DEF Inv, TypeOK, LocalsInChain, Walking
  <2>2. previous < nextId
      BY <2>1 DEF Inv, ChainInOrder
  <2>3. previous # nextId
      BY <2>1, <2>2
  <2> QED BY <2>1, <2>2, <2>3 DEF Inv, TypeOK
<1>3. /\ c \in Block /\ c.next = NULL_PTR /\ c.size = 1 /\ c.size = Cardinality(Occupied(c))
      /\ s \in Slots
  <2>1. /\ EmptyBlock \in Block /\ EmptyBlock.size = Cardinality(Occupied(EmptyBlock))
        /\ ~is_full(EmptyBlock) /\ EmptyBlock.size + 1 = 1
      BY EmptyBlockFacts
  <2>2. EmptyBlock.next = NULL_PTR
      BY EmptyBlockFacts
  <2> QED BY <1>1, <2>1, <2>2, BlockInsertEffect
<1>4. /\ last \in Block /\ last.next = nextId /\ last.size = disk[previous].size
      /\ last.keys = disk[previous].keys
    BY <1>1, <1>2 DEF InsertNextBlock, Block
<1>5. Occupied(last) = Occupied(disk[previous])
    BY <1>4 DEF Occupied
<1>6. /\ disk' = [disk EXCEPT ![nextId] = c, ![previous] = InsertNextBlock(@, nextId)]
      /\ first_block_ptr' = first_block_ptr /\ nextId' = nextId + 1
      /\ pc' = "idle" /\ request' = [op |-> "none", lo |-> request.lo, hi |-> request.hi]
      /\ current' = NULL_PTR /\ previous' = NULL_PTR
      /\ result' = {<<nextId, s>>}
    BY DEF InsertAppend, Return
<1>7. /\ disk' \in [BlockIds -> Block]
      /\ \A b \in BlockIds : disk'[b] = IF b = nextId THEN c ELSE IF b = previous THEN last ELSE disk[b]
  <2> HIDE DEF c
  <2> QED BY <1>1, <1>2, <1>3, <1>4, <1>6 DEF Inv, TypeOK, BlockIds
<1> HIDE DEF c, s, last
<1>8. TypeOK'
  <2>1. nextId' \in 1..(MaxBlockId + 1) /\ nextId' > nextId
      BY <1>1, <1>6, MaxBlockIdAssumption DEF BlockIds
  <2>2. request' \in Requests /\ result' \subseteq RecordPtrs
      BY <1>1, <1>3, <1>6 DEF Inv, TypeOK, Requests, Ops, RecordPtrs
  <2> QED BY <2>1, <2>2, <1>6, <1>7 DEF Inv, TypeOK
<1>9. SizeIsOccupancy'
    BY <1>2, <1>3, <1>4, <1>5, <1>7 DEF Inv, SizeIsOccupancy
<1>10. ~Linked(nextId)
    BY <1>1 DEF Inv, ChainInOrder, BlockIds
<1>11. disk[nextId].next = NULL_PTR
    BY <1>1, <1>10, EmptyBlockFacts DEF Inv, NothingLost
<1>12. \A b \in BlockIds : Linked(b)' <=> Linked(b) \/ b = nextId
    BY <1>1, <1>2, <1>3, <1>4, <1>6, <1>7, <1>11 DEF Linked, Inv, TypeOK
<1>13. \A b \in BlockIds : Linked(b) => b <= previous
    BY <1>2 DEF Inv, ChainInOrder, BlockIds
<1>14. ChainInOrder'
  <2>1. \A b \in BlockIds : Linked(b)' => first_block_ptr' <= b /\ b < nextId'
    <3>1. \A b \in BlockIds : Linked(b) => first_block_ptr <= b /\ b < nextId
        BY DEF Inv, ChainInOrder
    <3>2. first_block_ptr \in BlockIds /\ Linked(first_block_ptr)
        BY DEF Inv, TypeOK, Linked
    <3>3. first_block_ptr < nextId
        BY <3>1, <3>2
    <3> QED BY <1>1, <1>6, <1>12, <3>1, <3>2, <3>3
  <2>2. \A b \in BlockIds : disk'[b].next # NULL_PTR => b < disk'[b].next
      BY <1>2, <1>3, <1>4, <1>7 DEF Inv, ChainInOrder
  <2>3. ASSUME NEW b \in BlockIds, NEW d \in BlockIds, Linked(b)', Linked(d)', b < d
        PROVE  disk'[b].next # NULL_PTR /\ disk'[b].next <= d
    <3>1. Linked(b) /\ b # nextId
        BY <2>3, <1>1, <1>12 DEF Inv, ChainInOrder, BlockIds
    <3>2. CASE d = nextId
      <4>1. CASE b = previous
        <5>1. disk'[b].next = nextId
            BY <4>1, <1>2, <1>4, <1>7
        <5>2. nextId \in Nat \ {0} /\ nextId = d
            BY <3>2, <1>1
        <5> QED BY <5>1, <5>2
      <4>2. CASE b # previous
        <5>1. b < previous
          <6>1. b \in Nat /\ previous \in Nat
              BY <1>2
          <6>2. b <= previous
              BY <3>1, <1>13
          <6> QED BY <6>1, <6>2, <4>2
        <5>2. disk[b].next # NULL_PTR /\ disk[b].next <= previous
            BY <5>1, <3>1, <1>2 DEF Inv, ChainInOrder
        <5>3. disk[b].next \in BlockIds \cup {NULL_PTR}
            BY DEF Inv, TypeOK, Block
        <5>4. disk'[b].next = disk[b].next
            BY <4>2, <3>1, <1>7
        <5>5. previous \in Nat /\ d \in Nat /\ disk[b].next \in Nat /\ previous < d
            BY <5>2, <5>3, <3>2, <1>2
        <5> QED BY <5>2, <5>4, <5>5
      <4> QED BY <4>1, <4>2
    <3>3. CASE d # nextId
        BY <3>1, <3>3, <2>3, <1>2, <1>7, <1>12, <1>13 DEF Inv, ChainInOrder, BlockIds
    <3> QED BY <3>2, <3>3
  <2> QED BY <2>1, <2>2, <2>3 DEF ChainInOrder
<1>15. NothingLost'
    BY <1>2, <1>7, <1>12 DEF Inv, NothingLost
<1>16. NoEmptyBlock'
  <2>1. \A b \in BlockIds : Linked(b) => is_full(disk[b])
      BY <1>1 DEF Inv, WalkMissesNothing, Walking, Passed
  <2>2. \A b \in BlockIds : Linked(b) => ~is_empty(disk[b])
      BY <2>1, BlockSizeAssumption DEF is_full, is_empty
  <2>3. \A b \in BlockIds : Linked(b)' => ~is_empty(disk'[b])
      BY <2>2, <1>2, <1>3, <1>4, <1>7, <1>12 DEF is_empty
  <2> QED BY <2>3 DEF NoEmptyBlock
<1>17. WalkMissesNothing' /\ LocalsInChain'
    BY <1>6 DEF WalkMissesNothing, LocalsInChain, Walking
<1> QED BY <1>8, <1>9, <1>14, <1>15, <1>16, <1>17 DEF Inv

\* Taking a key out of its block preserves the invariant.
LEMMA DeleteHereInv == ASSUME Inv, DeleteHere PROVE Inv'
<1> USE NullFacts
<1> DEFINE c == BlockDelete(disk[current], request.lo)
<1>1. /\ pc = "walk" /\ request.op = "delete" /\ current \in BlockIds
      /\ disk[current] \in Block /\ request.lo \in Keys
      /\ disk[current].size = Cardinality(Occupied(disk[current]))
      /\ Holding(disk[current], request.lo) # {}
    BY DEF Inv, TypeOK, DeleteHere, SizeIsOccupancy, Requests, Walking
<1>2. c \in Block /\ c.next = disk[current].next /\ c.size = Cardinality(Occupied(c))
    BY <1>1, BlockDeleteEffect
<1>3. /\ disk' = [disk EXCEPT ![current] = c]
      /\ first_block_ptr' = first_block_ptr /\ nextId' = nextId
      /\ pc' = "reclaim" /\ request' = request
      /\ current' = current /\ previous' = previous /\ result' = result
    BY DEF DeleteHere
<1> HIDE DEF c
<1>4. TypeOK'
    BY <1>1, <1>2, <1>3 DEF Inv, TypeOK
<1>5. \A b \in BlockIds : disk'[b] = IF b = current THEN c ELSE disk[b]
    BY <1>1, <1>3 DEF Inv, TypeOK
<1>6. \A b \in BlockIds : disk'[b].next = disk[b].next
    BY <1>2, <1>5
<1>7. \A b \in BlockIds : Linked(b)' <=> Linked(b)
    BY <1>3, <1>6, LinksKept
<1>8. SizeIsOccupancy'
    BY <1>2, <1>5 DEF Inv, SizeIsOccupancy
<1>9. ChainInOrder'
    BY <1>3, <1>6, ChainKept DEF Inv
<1>10. Linked(current)
    BY <1>1 DEF Inv, LocalsInChain
<1>11. NothingLost'
    BY <1>5, <1>7, <1>10 DEF Inv, NothingLost
<1>12. NoEmptyBlock'
    BY <1>1, <1>3, <1>5, <1>6, <1>7 DEF Inv, NoEmptyBlock
<1>13. WalkMissesNothing'
    BY <1>3 DEF WalkMissesNothing, Walking
<1>14. LocalsInChain'
    BY <1>1, <1>3, <1>6, <1>7, <1>10 DEF Inv, LocalsInChain, Walking, TypeOK
<1> QED BY <1>4, <1>8, <1>9, <1>11, <1>12, <1>13, <1>14 DEF Inv

\* Passing a block without the key preserves the invariant.
LEMMA DeleteSkipInv == ASSUME Inv, DeleteSkip PROVE Inv'
<1> USE NullFacts
<1>1. /\ pc = "walk" /\ request.op = "delete" /\ current \in BlockIds
      /\ Holding(disk[current], request.lo) = {}
      /\ disk' = disk /\ first_block_ptr' = first_block_ptr /\ nextId' = nextId
      /\ pc' = pc /\ request' = request /\ result' = result
      /\ current' = disk[current].next /\ previous' = current
      /\ disk[current] \in Block
    BY DEF DeleteSkip, Walking, Inv, TypeOK
<1>2. TypeOK'
    BY <1>1 DEF Inv, TypeOK, Block
<1>3. SizeIsOccupancy' /\ NothingLost' /\ NoEmptyBlock'
    BY <1>1 DEF Inv, SizeIsOccupancy, NothingLost, NoEmptyBlock, Linked
<1>4. ChainInOrder'
    BY <1>1, ChainKept DEF Inv
<1>5. Linked(current)
    BY <1>1 DEF Inv, LocalsInChain
<1>6. \A b \in BlockIds : Passed(b)' => Passed(b) \/ b = current
    BY <1>1, <1>5, WalkAdvances DEF Inv
<1>7. WalkMissesNothing'
    BY <1>1, <1>6 DEF Inv, WalkMissesNothing, Walking
<1>8. LocalsInChain'
    BY <1>1, <1>5 DEF Inv, LocalsInChain, Walking, Linked
<1> QED BY <1>2, <1>3, <1>4, <1>7, <1>8 DEF Inv

\* Printing a block's keys of the range preserves the invariant.
LEMMA RangeBlockInv == ASSUME Inv, RangeBlock PROVE Inv'
<1> USE NullFacts
<1>1. /\ pc = "walk" /\ request.op = "range" /\ current \in BlockIds
      /\ disk' = disk /\ first_block_ptr' = first_block_ptr /\ nextId' = nextId
      /\ pc' = pc /\ request' = request /\ previous' = previous
      /\ result' = result \cup ({current} \X BlockRange(disk[current], request.lo, request.hi))
      /\ current' = disk[current].next
      /\ disk[current] \in Block
    BY DEF RangeBlock, Walking, Inv, TypeOK
<1>2. TypeOK'
    BY <1>1 DEF Inv, TypeOK, Block, RecordPtrs, BlockRange
<1>3. SizeIsOccupancy' /\ NothingLost' /\ NoEmptyBlock'
    BY <1>1 DEF Inv, SizeIsOccupancy, NothingLost, NoEmptyBlock, Linked
<1>4. ChainInOrder'
    BY <1>1, ChainKept DEF Inv
<1>5. Linked(current)
    BY <1>1 DEF Inv, LocalsInChain
<1>6. \A b \in BlockIds : Passed(b)' <=> Passed(b) \/ b = current
    BY <1>1, <1>5, WalkAdvances DEF Inv
<1>7. WalkMissesNothing'
  <2>1. result = {rp \in RecordPtrs :
                    Passed(rp[1]) /\ rp[2] \in BlockRange(disk[rp[1]], request.lo, request.hi)}
      BY <1>1 DEF Inv, WalkMissesNothing, Walking
  <2>2. {current} \X BlockRange(disk[current], request.lo, request.hi) =
          {rp \in RecordPtrs :
              rp[1] = current /\ rp[2] \in BlockRange(disk[rp[1]], request.lo, request.hi)}
      BY <1>1 DEF RecordPtrs, BlockRange
  <2>3. result' = {rp \in RecordPtrs :
                     Passed(rp[1])' /\ rp[2] \in BlockRange(disk[rp[1]], request.lo, request.hi)}
      BY <2>1, <2>2, <1>1, <1>6 DEF RecordPtrs
  <2> QED BY <2>3, <1>1 DEF WalkMissesNothing, Walking
<1>8. LocalsInChain'
    BY <1>1, <1>5 DEF Inv, LocalsInChain, Walking, Linked
<1> QED BY <1>2, <1>3, <1>4, <1>7, <1>8 DEF Inv

\* A call that ends without touching a block.
LEMMA ReturnInv ==
    ASSUME Inv, Return, disk' = disk, first_block_ptr' = first_block_ptr, nextId' = nextId,
           result' = result,
           pc = "reclaim" => ~is_empty(disk[current])
    PROVE  Inv'
<1> USE NullFacts
<1>1. /\ pc' = "idle" /\ request' = [op |-> "none", lo |-> request.lo, hi |-> request.hi]
      /\ current' = NULL_PTR /\ previous' = NULL_PTR
    BY DEF Return
<1>2. TypeOK'
    BY <1>1 DEF Inv, TypeOK, Requests, Ops
<1>3. SizeIsOccupancy' /\ NothingLost' /\ NoEmptyBlock'
    BY <1>1 DEF Inv, SizeIsOccupancy, NothingLost, NoEmptyBlock, Linked
<1>4. ChainInOrder'
    BY ChainKept DEF Inv
<1>5. WalkMissesNothing' /\ LocalsInChain'
    BY <1>1 DEF WalkMissesNothing, LocalsInChain, Walking
<1> QED BY <1>2, <1>3, <1>4, <1>5 DEF Inv

\* While a delete reclaims the block it has emptied, every other block of the
\* chain holds a key.
LEMMA OthersHoldKeys ==
    ASSUME Inv, pc = "reclaim", NEW b \in BlockIds, Linked(b), b # current
    PROVE  ~is_empty(disk[b])
<1> USE NullFacts
<1>1. current \in BlockIds /\ Linked(current)
    BY DEF Inv, TypeOK, LocalsInChain
<1>2. SUFFICES ASSUME is_empty(disk[b]) PROVE FALSE
    OBVIOUS
<1>3. b = first_block_ptr /\ disk[b].next = NULL_PTR
    BY <1>2 DEF Inv, NoEmptyBlock
<1>4. first_block_ptr <= current
    BY <1>1 DEF Inv, ChainInOrder
<1>5. b < current
    BY <1>1, <1>3, <1>4
<1> QED BY <1>1, <1>3, <1>5 DEF Inv, ChainInOrder

\* What every way of taking the emptied block out has in common: it leaves the
\* chain, its file is gone, and no other block's keys change.
LEMMA BlockTakenOut ==
    ASSUME Inv, pc = "reclaim", Return, result' = result,
           disk' \in [BlockIds -> Block],
           disk'[current] = EmptyBlock,
           \A b \in BlockIds : b # current =>
               disk'[b].size = disk[b].size /\ disk'[b].keys = disk[b].keys,
           \A b \in BlockIds : Linked(b)' => Linked(b) /\ b # current,
           \A b \in BlockIds : ~Linked(b)' => disk'[b] = EmptyBlock,
           first_block_ptr' \in BlockIds,
           nextId' = nextId,
           ChainInOrder'
    PROVE  Inv'
<1> USE NullFacts
<1>1. /\ pc' = "idle" /\ request' = [op |-> "none", lo |-> request.lo, hi |-> request.hi]
      /\ current' = NULL_PTR /\ previous' = NULL_PTR
    BY DEF Return
<1>2. TypeOK'
    BY <1>1 DEF Inv, TypeOK, Requests, Ops
<1>3. SizeIsOccupancy'
  <2> SUFFICES ASSUME NEW b \in BlockIds
               PROVE  disk'[b].size = Cardinality(Occupied(disk'[b]))
      BY DEF SizeIsOccupancy
  <2>1. CASE b = current
      BY <2>1, EmptyBlockFacts
  <2>2. CASE b # current
    <3>1. Occupied(disk'[b]) = Occupied(disk[b])
        BY <2>2 DEF Occupied
    <3> QED BY <2>2, <3>1 DEF Inv, SizeIsOccupancy
  <2> QED BY <2>1, <2>2
<1>4. NothingLost'
    BY DEF NothingLost
<1>5. NoEmptyBlock'
  <2>1. \A b \in BlockIds : Linked(b)' => ~is_empty(disk'[b])
      BY OthersHoldKeys DEF is_empty
  <2> QED BY <2>1 DEF NoEmptyBlock
<1>6. WalkMissesNothing' /\ LocalsInChain'
    BY <1>1 DEF WalkMissesNothing, LocalsInChain, Walking
<1> QED BY <1>2, <1>3, <1>4, <1>5, <1>6 DEF Inv

\* Replacing the only block by a new one preserves the invariant.
LEMMA ReplaceOnlyBlockInv == ASSUME Inv, ReplaceOnlyBlock PROVE Inv'
<1> USE NullFacts, EmptyBlockFacts
<1>1. /\ pc = "reclaim" /\ current \in BlockIds /\ current = first_block_ptr
      /\ disk[current].next = NULL_PTR /\ nextId \in BlockIds
      /\ first_block_ptr' = nextId /\ nextId' = nextId + 1 /\ result' = result
      /\ disk' = [disk EXCEPT ![current] = EmptyBlock]
      /\ pc' = "idle" /\ request' = [op |-> "none", lo |-> request.lo, hi |-> request.hi]
      /\ current' = NULL_PTR /\ previous' = NULL_PTR
    BY DEF ReplaceOnlyBlock, Return, Inv, TypeOK, LocalsInChain, BlockIds
<1>2. ASSUME NEW b \in BlockIds, Linked(b), b # current
      PROVE  FALSE
  <2>1. Linked(current) /\ current <= b
      BY <1>1, <1>2 DEF Inv, ChainInOrder, Linked
  <2>2. current < b
      BY <1>1, <1>2, <2>1
  <2> QED BY <1>1, <1>2, <2>1, <2>2 DEF Inv, ChainInOrder
<1>3. \A b \in BlockIds : disk'[b] = EmptyBlock
    BY <1>1, <1>2 DEF Inv, NothingLost, TypeOK
<1>4. \A b \in BlockIds : Linked(b)' <=> b = nextId
    BY <1>1, <1>3 DEF Linked
<1>5. TypeOK'
  <2>1. nextId' \in 1..(MaxBlockId + 1)
      BY <1>1, MaxBlockIdAssumption DEF BlockIds
  <2> QED BY <2>1, <1>1 DEF Inv, TypeOK, Requests, Ops
<1>6. SizeIsOccupancy' /\ NothingLost'
    BY <1>3 DEF SizeIsOccupancy, NothingLost
<1>7. ChainInOrder'
    BY <1>1, <1>3, <1>4 DEF ChainInOrder
<1>8. NoEmptyBlock'
    BY <1>1, <1>3, <1>4 DEF NoEmptyBlock
<1>9. WalkMissesNothing' /\ LocalsInChain'
    BY <1>1 DEF WalkMissesNothing, LocalsInChain, Walking
<1> QED BY <1>5, <1>6, <1>7, <1>8, <1>9 DEF Inv

\* Dropping an empty front block preserves the invariant.
LEMMA DropFrontBlockInv == ASSUME Inv, DropFrontBlock PROVE Inv'
<1> USE NullFacts, EmptyBlockFacts
<1> DEFINE n == disk[current].next
<1>1. /\ pc = "reclaim" /\ current \in BlockIds /\ current = first_block_ptr
      /\ n \in BlockIds
      /\ first_block_ptr' = n /\ nextId' = nextId /\ result' = result
      /\ disk' = [disk EXCEPT ![current] = EmptyBlock]
      /\ Return
    BY DEF DropFrontBlock, Inv, TypeOK, LocalsInChain, Block
<1>2. \A b \in BlockIds : disk'[b] = IF b = current THEN EmptyBlock ELSE disk[b]
    BY <1>1 DEF Inv, TypeOK
<1>3. Linked(current) /\ Linked(n) /\ current < n
    BY <1>1 DEF Inv, ChainInOrder, Linked
<1>4. ASSUME NEW b \in BlockIds
      PROVE  Linked(b)' <=> Linked(b) /\ b # current
  <2>1. ASSUME Linked(b)' PROVE Linked(b) /\ b # current
    <3>1. CASE b = n
        BY <3>1, <1>3, <1>1
    <3>2. CASE b # n
      <4>1. PICK c \in BlockIds : c # current /\ disk[c].next = b
          BY <2>1, <3>2, <1>1, <1>2 DEF Linked
      <4>2. Linked(c)
          BY <4>1 DEF Inv, NothingLost
      <4>3. first_block_ptr <= c /\ c < b
          BY <4>1, <4>2 DEF Inv, ChainInOrder
      <4> QED BY <4>1, <4>3, <1>1 DEF Linked
    <3> QED BY <3>1, <3>2
  <2>2. ASSUME Linked(b), b # current PROVE Linked(b)'
      BY <2>2, <1>1, <1>2 DEF Linked
  <2> QED BY <2>1, <2>2
<1>5. ChainInOrder'
  <2>1. \A b \in BlockIds : Linked(b)' => n <= b /\ b < nextId
      BY <1>1, <1>3, <1>4 DEF Inv, ChainInOrder
  <2>2. \A b \in BlockIds : disk'[b].next # NULL_PTR => b < disk'[b].next
      BY <1>2 DEF Inv, ChainInOrder
  <2>3. \A b, c \in BlockIds :
          Linked(b)' /\ Linked(c)' /\ b < c => disk'[b].next # NULL_PTR /\ disk'[b].next <= c
      BY <1>2, <1>4 DEF Inv, ChainInOrder
  <2> QED BY <2>1, <2>2, <2>3, <1>1 DEF ChainInOrder
<1>6. /\ \A b \in BlockIds : ~Linked(b)' => disk'[b] = EmptyBlock
      /\ disk' \in [BlockIds -> Block]
    BY <1>1, <1>2, <1>4 DEF Inv, NothingLost, TypeOK
<1> QED BY <1>1, <1>2, <1>4, <1>5, <1>6, BlockTakenOut

\* Unlinking an empty block further down preserves the invariant.
LEMMA UnlinkBlockInv == ASSUME Inv, UnlinkBlock PROVE Inv'
<1> USE NullFacts, EmptyBlockFacts
<1> DEFINE n == disk[current].next
           link == InsertNextBlock(disk[previous], n)
<1>1. /\ pc = "reclaim" /\ current \in BlockIds /\ previous \in BlockIds
      /\ Linked(current) /\ Linked(previous) /\ disk[previous].next = current
      /\ n \in BlockIds \cup {NULL_PTR}
    BY DEF UnlinkBlock, Inv, TypeOK, LocalsInChain, Block
<1>0. /\ first_block_ptr' = first_block_ptr /\ nextId' = nextId /\ result' = result
      /\ disk' = [disk EXCEPT ![previous] = InsertNextBlock(@, n), ![current] = EmptyBlock]
      /\ Return
    BY DEF UnlinkBlock
<1>n. current \in Nat /\ previous \in Nat /\ \A b \in BlockIds : b \in Nat
    BY <1>1
<1>2. previous < current /\ previous # current /\ first_block_ptr <= previous
  <2>1. disk[previous].next # NULL_PTR => previous < disk[previous].next
      BY <1>1 DEF Inv, ChainInOrder
  <2>2. previous < current
      BY <2>1, <1>1
  <2>3. first_block_ptr <= previous
      BY <1>1 DEF Inv, ChainInOrder
  <2> QED BY <2>2, <2>3, <1>n
<1>3. /\ link \in Block /\ link.next = n
      /\ link.size = disk[previous].size /\ link.keys = disk[previous].keys
    BY <1>1 DEF Inv, TypeOK, InsertNextBlock, Block
<1>4. /\ disk' \in [BlockIds -> Block]
      /\ \A b \in BlockIds : disk'[b] = IF b = current THEN EmptyBlock
                                        ELSE IF b = previous THEN link ELSE disk[b]
    BY <1>0, <1>1, <1>2, <1>3 DEF Inv, TypeOK
<1> HIDE DEF link
<1>5. current # first_block_ptr
    BY <1>2 DEF Inv, TypeOK
<1>6. ASSUME NEW c \in BlockIds, disk[c].next = current
      PROVE  c = previous
  <2>1. Linked(c) /\ c < current
      BY <1>1, <1>6 DEF Inv, NothingLost, ChainInOrder
  <2>2. CASE c < previous
    <3>1. current <= previous
        BY <1>1, <1>6, <2>1, <2>2 DEF Inv, ChainInOrder
    <3> QED BY <3>1, <1>n, <1>2
  <2>3. CASE previous < c
    <3>1. current <= c
        BY <1>1, <2>1, <2>3 DEF Inv, ChainInOrder
    <3> QED BY <3>1, <1>n, <2>1
  <2> QED BY <2>2, <2>3, <1>n
<1>7. n # NULL_PTR => Linked(n) /\ current < n
    BY <1>1 DEF Inv, ChainInOrder, Linked
<1>8. ASSUME NEW b \in BlockIds
      PROVE  Linked(b)' <=> Linked(b) /\ b # current
  <2>1. ASSUME Linked(b)' PROVE Linked(b) /\ b # current
    <3>1. CASE b = first_block_ptr
        BY <3>1, <1>5 DEF Linked
    <3>2. CASE b # first_block_ptr
      <4>1. PICK c \in BlockIds : disk'[c].next = b
          BY <2>1, <3>2, <1>0 DEF Linked
      <4>2. CASE c = previous
        <5>1. b = n
            BY <4>1, <4>2, <1>1, <1>2, <1>3, <1>4
        <5> QED BY <5>1, <1>7, <1>n
      <4>3. CASE c # previous
          BY <4>1, <4>3, <1>4, <1>6 DEF Linked
      <4> QED BY <4>2, <4>3
    <3> QED BY <3>1, <3>2
  <2>2. ASSUME Linked(b), b # current PROVE Linked(b)'
    <3>1. CASE b = first_block_ptr
        BY <3>1, <1>0 DEF Linked
    <3>2. CASE b # first_block_ptr
      <4>1. PICK c \in BlockIds : disk[c].next = b
          BY <2>2, <3>2 DEF Linked
      <4>2. CASE c = current
          BY <4>1, <4>2, <1>1, <1>2, <1>3, <1>4 DEF Linked
      <4>3. CASE c # current
          BY <4>1, <4>3, <2>2, <1>1, <1>4 DEF Linked
      <4> QED BY <4>2, <4>3
    <3> QED BY <3>1, <3>2
  <2> QED BY <2>1, <2>2
<1>9. ChainInOrder'
  <2>1. \A b \in BlockIds : Linked(b)' => first_block_ptr' <= b /\ b < nextId'
      BY <1>0, <1>8 DEF Inv, ChainInOrder
  <2>2. \A b \in BlockIds : disk'[b].next # NULL_PTR => b < disk'[b].next
    <3> SUFFICES ASSUME NEW b \in BlockIds, disk'[b].next # NULL_PTR
                 PROVE  b < disk'[b].next
        OBVIOUS
    <3>1. CASE b = previous
      <4>1. n \in BlockIds /\ current < n /\ disk'[b].next = n
          BY <3>1, <1>1, <1>2, <1>3, <1>4, <1>7
      <4>2. n \in Nat
          BY <4>1, <1>n
      <4> HIDE DEF n
      <4>3. previous < n
          BY <4>1, <4>2, <1>n, <1>2
      <4> QED BY <4>1, <4>3, <3>1
    <3>2. CASE b # previous
        BY <3>2, <1>4 DEF Inv, ChainInOrder
    <3> QED BY <3>1, <3>2
  <2>3. ASSUME NEW b \in BlockIds, NEW d \in BlockIds, Linked(b)', Linked(d)', b < d
        PROVE  disk'[b].next # NULL_PTR /\ disk'[b].next <= d
    <3>1. Linked(b) /\ b # current /\ Linked(d) /\ d # current
        BY <2>3, <1>8
    <3>2. disk[b].next # NULL_PTR /\ disk[b].next <= d
        BY <3>1, <2>3 DEF Inv, ChainInOrder
    <3>3. CASE b = previous
      <4>1. current < d
        <5>1. current <= d
            BY <3>2, <3>3, <1>1
        <5> QED BY <5>1, <3>1, <1>n
      <4>2. n # NULL_PTR /\ n <= d
          BY <4>1, <3>1, <1>1 DEF Inv, ChainInOrder
      <4> QED BY <4>2, <3>1, <3>3, <1>3, <1>4
    <3>4. CASE b # previous
        BY <3>1, <3>2, <3>4, <1>4
    <3> QED BY <3>3, <3>4
  <2> QED BY <2>1, <2>2, <2>3 DEF ChainInOrder
<1>10. \A b \in BlockIds : ~Linked(b)' => disk'[b] = EmptyBlock
    BY <1>1, <1>4, <1>8 DEF Inv, NothingLost
<1>11. /\ disk'[current] = EmptyBlock
       /\ \A b \in BlockIds : b # current =>
              disk'[b].size = disk[b].size /\ disk'[b].keys = disk[b].keys
       /\ first_block_ptr' \in BlockIds
    BY <1>0, <1>1, <1>3, <1>4 DEF Inv, TypeOK
<1> QED BY <1>0, <1>1, <1>4, <1>8, <1>9, <1>10, <1>11, BlockTakenOut

\* Every step preserves the invariant.
LEMMA NextInv == ASSUME Inv, [Next]_vars PROVE Inv'
<1>1. ASSUME NEW op \in Ops \ {"none"}, NEW low \in Keys, NEW high \in Keys,
             Begin(op, low, high)
      PROVE  Inv'
    BY <1>1, BeginInv
<1>2. CASE insert_key
    BY <1>2, InsertHereInv, InsertSkipInv, InsertAppendInv DEF insert_key
<1>3. CASE DeleteHere \/ DeleteSkip
    BY <1>3, DeleteHereInv, DeleteSkipInv
<1>4. CASE DeleteNothing \/ KeepBlock \/ RangeDone
    BY <1>4, ReturnInv DEF DeleteNothing, KeepBlock, RangeDone, Walking
<1>5. CASE ReplaceOnlyBlock \/ DropFrontBlock \/ UnlinkBlock
    BY <1>5, ReplaceOnlyBlockInv, DropFrontBlockInv, UnlinkBlockInv
<1>6. CASE RangeBlock
    BY <1>6, RangeBlockInv
<1>7. CASE UNCHANGED vars
  <2>1. /\ TypeOK' /\ SizeIsOccupancy' /\ ChainInOrder' /\ NothingLost' /\ NoEmptyBlock'
      BY <1>7 DEF vars, Inv, TypeOK, SizeIsOccupancy, ChainInOrder, NothingLost, NoEmptyBlock,
                  Linked
  <2>2. WalkMissesNothing' /\ LocalsInChain'
      BY <1>7 DEF vars, Inv, WalkMissesNothing, LocalsInChain, Walking, Passed, Linked
  <2> QED BY <2>1, <2>2 DEF Inv
<1> QED BY <1>1, <1>2, <1>3, <1>4, <1>5, <1>6, <1>7 DEF Next, Work, delete_key, range_query

\* The invariant holds in every reachable state of the heap.
THEOREM HeapInvariant == Spec => []Inv
<1>1. Init => Inv
    BY InitInv
<1>2. Inv /\ [Next]_vars => Inv'
    BY NextInv
<1> QED BY <1>1, <1>2, PTL DEF Spec

-----------------------------------------------------------------------------
(* The heap implements the record store *)

\* The types of the heap's files and pointers.
THEOREM HeapTypeOK == Spec => []TypeOK
BY HeapInvariant, PTL DEF Inv

\* Block's size always counts its keys, so is_full and is_empty never lie.
THEOREM HeapSizeIsOccupancy == Spec => []SizeIsOccupancy
BY HeapInvariant, PTL DEF Inv

\* The block files always form one chain, in the order they were created.
THEOREM HeapChainInOrder == Spec => []ChainInOrder
BY HeapInvariant, PTL DEF Inv

\* No key is ever in a block that a walk cannot reach.
THEOREM HeapNothingLost == Spec => []NothingLost
BY HeapInvariant, PTL DEF Inv

\* Empty blocks are always reclaimed.
THEOREM HeapNoEmptyBlock == Spec => []NoEmptyBlock
BY HeapInvariant, PTL DEF Inv

\* A walk of the chain never passes what it is looking for.
THEOREM HeapWalkMissesNothing == Spec => []WalkMissesNothing
BY HeapInvariant, PTL DEF Inv

\* The local pointers a delete or an insert redirects are always in the chain.
THEOREM HeapLocalsInChain == Spec => []LocalsInChain
BY HeapInvariant, PTL DEF Inv

\* The slots of the store hold keys or nothing.
LEMMA SlotsType == ASSUME TypeOK PROVE slots \in [RecordPtrs -> Keys \cup {DELETE_MARKER}]
BY DEF TypeOK, slots, RecordPtrs, Block

\* A new heap is an empty store.
LEMMA InitStore == Init => Store!Init
<1> SUFFICES ASSUME Init PROVE Store!Init
    OBVIOUS
<1> USE NullFacts, EmptyBlockFacts
<1>1. slots = [rp \in RecordPtrs |-> DELETE_MARKER]
    BY DEF Init, slots, RecordPtrs
<1>2. asked \in Requests /\ asked.op = "none"
    BY DEF Init, asked, Requests, Ops
<1>3. answered = {}
    BY DEF Init, answered
<1> QED BY <1>1, <1>2, <1>3 DEF Store!Init, Store!Requests, Store!Ops, Requests, Ops

\* The start of a call is a client's request.
LEMMA BeginAsks ==
    ASSUME Inv, NEW op \in Ops \ {"none"}, NEW low \in Keys, NEW high \in Keys,
           Begin(op, low, high)
    PROVE  Store!Ask(op, low, high)
<1>1. asked.op = "none" /\ asked' = [op |-> op, lo |-> low, hi |-> high]
    BY DEF Begin, asked
<1>2. answered' = {} /\ slots' = slots
    BY DEF Begin, answered, slots
<1> QED BY <1>1, <1>2 DEF Store!Ask

\* An insert into a block with room stores the key in a free slot.
LEMMA InsertHereStores == ASSUME Inv, InsertHere PROVE Store!Insert
<1> DEFINE c == BlockInsert(disk[current], request.lo)
           s == FirstSlot(disk[current], DELETE_MARKER)
           rp == <<current, s>>
<1>1. /\ current \in BlockIds /\ disk[current] \in Block /\ request.lo \in Keys
      /\ disk[current].size = Cardinality(Occupied(disk[current]))
      /\ ~is_full(disk[current])
    BY NullFacts DEF Inv, TypeOK, InsertHere, SizeIsOccupancy, Requests
<1>2. /\ s \in Slots /\ disk[current].keys[s] = DELETE_MARKER
      /\ c.keys = [disk[current].keys EXCEPT ![s] = request.lo]
    BY <1>1, BlockInsertEffect
<1>3. /\ disk' = [disk EXCEPT ![current] = c]
      /\ pc = "walk" /\ pc' = "idle" /\ request.op = "insert"
      /\ request' = [op |-> "none", lo |-> request.lo, hi |-> request.hi]
      /\ result' = {rp}
    BY DEF InsertHere, Return, Walking
<1> HIDE DEF c, s
<1>4. rp \in RecordPtrs /\ slots[rp] = DELETE_MARKER
    BY <1>1, <1>2 DEF RecordPtrs, slots
<1>5. slots' = [slots EXCEPT ![rp] = request.lo]
  <2>1. \A r \in RecordPtrs : disk'[r[1]].keys[r[2]] =
            IF r = rp THEN request.lo ELSE disk[r[1]].keys[r[2]]
      BY <1>1, <1>2, <1>3 DEF RecordPtrs, Inv, TypeOK, Block
  <2> QED BY <2>1 DEF slots
<1>6. /\ asked.op = "insert" /\ asked.lo = request.lo
      /\ asked' = [op |-> "none", lo |-> asked.lo, hi |-> asked.hi]
      /\ answered' = {rp}
    BY <1>3 DEF asked, answered
<1> HIDE DEF rp
<1> QED BY <1>4, <1>5, <1>6 DEF Store!Insert, Store!Done

\* So does one that appends a block.
LEMMA InsertAppendStores == ASSUME Inv, InsertAppend PROVE Store!Insert
<1> DEFINE c == BlockInsert(EmptyBlock, request.lo)
           s == FirstSlot(EmptyBlock, DELETE_MARKER)
           rp == <<nextId, s>>
<1>1. /\ pc = "walk" /\ request.op = "insert" /\ current = NULL_PTR
      /\ nextId \in BlockIds /\ request.lo \in Keys
    BY NullFacts DEF InsertAppend, Walking, Inv, TypeOK, LocalsInChain, Requests, BlockIds
<1>2. previous \in BlockIds /\ previous # nextId
  <2>1. previous \in BlockIds /\ Linked(previous)
      BY <1>1 DEF Inv, TypeOK, LocalsInChain, Walking
  <2>2. previous < nextId
      BY <2>1 DEF Inv, ChainInOrder
  <2> QED BY <2>1, <2>2, <1>1, NullFacts
<1>3. /\ s \in Slots /\ EmptyBlock.keys[s] = DELETE_MARKER
      /\ c.keys = [EmptyBlock.keys EXCEPT ![s] = request.lo]
  <2>1. /\ EmptyBlock \in Block /\ EmptyBlock.size = Cardinality(Occupied(EmptyBlock))
        /\ ~is_full(EmptyBlock)
      BY EmptyBlockFacts
  <2> QED BY <1>1, <2>1, BlockInsertEffect
<1>4. disk[nextId] = EmptyBlock
    BY <1>1, NullFacts DEF Inv, NothingLost, ChainInOrder
<1>5. /\ disk' = [disk EXCEPT ![nextId] = c, ![previous] = InsertNextBlock(@, nextId)]
      /\ pc' = "idle"
      /\ request' = [op |-> "none", lo |-> request.lo, hi |-> request.hi]
      /\ result' = {rp}
    BY DEF InsertAppend, Return
<1>6. \A b \in BlockIds : disk'[b].keys = IF b = nextId THEN c.keys ELSE disk[b].keys
  <2> HIDE DEF c
  <2> QED BY <1>1, <1>2, <1>5 DEF Inv, TypeOK, InsertNextBlock
<1> HIDE DEF c, s
<1>7. rp \in RecordPtrs /\ slots[rp] = DELETE_MARKER
    BY <1>1, <1>3, <1>4 DEF RecordPtrs, slots
<1>8. slots' = [slots EXCEPT ![rp] = request.lo]
  <2>1. \A r \in RecordPtrs : disk'[r[1]].keys[r[2]] =
            IF r = rp THEN request.lo ELSE disk[r[1]].keys[r[2]]
      BY <1>1, <1>3, <1>4, <1>6, EmptyBlockFacts DEF RecordPtrs, Block
  <2> QED BY <2>1 DEF slots
<1>9. /\ asked.op = "insert" /\ asked.lo = request.lo
      /\ asked' = [op |-> "none", lo |-> asked.lo, hi |-> asked.hi]
      /\ answered' = {rp}
    BY <1>1, <1>5 DEF asked, answered
<1> HIDE DEF rp
<1> QED BY <1>7, <1>8, <1>9 DEF Store!Insert, Store!Done

\* A delete that finds the key takes one record out of the store.
LEMMA DeleteHereDeletes == ASSUME Inv, DeleteHere PROVE Store!DeleteOne
<1> DEFINE c == BlockDelete(disk[current], request.lo)
           s == FirstSlot(disk[current], request.lo)
           rp == <<current, s>>
<1>1. /\ pc = "walk" /\ request.op = "delete" /\ current \in BlockIds
      /\ disk[current] \in Block /\ request.lo \in Keys
      /\ disk[current].size = Cardinality(Occupied(disk[current]))
      /\ Holding(disk[current], request.lo) # {}
      /\ result = {}
    BY NullFacts DEF Inv, TypeOK, DeleteHere, SizeIsOccupancy, Requests, Walking, LocalsInChain
<1>2. /\ s \in Slots /\ disk[current].keys[s] = request.lo
      /\ c.keys = [disk[current].keys EXCEPT ![s] = DELETE_MARKER]
    BY <1>1, BlockDeleteEffect
<1>3. /\ disk' = [disk EXCEPT ![current] = c]
      /\ pc' = "reclaim" /\ request' = request /\ result' = result
    BY DEF DeleteHere
<1> HIDE DEF c, s
<1>4. rp \in RecordPtrs /\ slots[rp] = request.lo
    BY <1>1, <1>2 DEF RecordPtrs, slots
<1>5. slots' = [slots EXCEPT ![rp] = DELETE_MARKER]
  <2>1. \A r \in RecordPtrs : disk'[r[1]].keys[r[2]] =
            IF r = rp THEN DELETE_MARKER ELSE disk[r[1]].keys[r[2]]
      BY <1>1, <1>2, <1>3 DEF RecordPtrs, Inv, TypeOK, Block
  <2> QED BY <2>1 DEF slots
<1>6. /\ asked.op = "delete" /\ asked.lo = request.lo
      /\ asked' = [op |-> "none", lo |-> asked.lo, hi |-> asked.hi]
      /\ answered' = answered
    BY <1>1, <1>3 DEF asked, answered
<1> HIDE DEF rp
<1> QED BY <1>4, <1>5, <1>6 DEF Store!DeleteOne, Store!Done

\* A delete whose walk has ended has seen that no slot holds the key.
LEMMA DeleteNothingDeletesNone == ASSUME Inv, DeleteNothing PROVE Store!DeleteNone
<1> USE NullFacts
<1>1. /\ pc = "walk" /\ request.op = "delete" /\ current = NULL_PTR /\ request.lo \in Keys
      /\ disk' = disk /\ pc' = "idle" /\ result' = result /\ result = {}
      /\ request' = [op |-> "none", lo |-> request.lo, hi |-> request.hi]
    BY DEF DeleteNothing, Return, Walking, Inv, TypeOK, Requests, LocalsInChain
<1>2. ASSUME NEW rp \in RecordPtrs
      PROVE  slots[rp] # request.lo
  <2>1. rp[1] \in BlockIds /\ rp[2] \in Slots /\ slots[rp] = disk[rp[1]].keys[rp[2]]
      BY DEF RecordPtrs, slots
  <2>2. CASE Linked(rp[1])
    <3>1. Holding(disk[rp[1]], request.lo) = {}
        BY <2>1, <2>2, <1>1 DEF Inv, WalkMissesNothing, Walking, Passed
    <3> QED BY <3>1, <2>1 DEF Holding
  <2>3. CASE ~Linked(rp[1])
      BY <2>1, <2>3, <1>1, EmptyBlockFacts DEF Inv, NothingLost
  <2> QED BY <2>2, <2>3
<1>3. /\ asked.op = "delete" /\ asked.lo = request.lo
      /\ asked' = [op |-> "none", lo |-> asked.lo, hi |-> asked.hi]
      /\ answered' = answered /\ slots' = slots
    BY <1>1 DEF asked, answered, slots
<1> QED BY <1>2, <1>3 DEF Store!DeleteNone, Store!Done

\* A range whose walk has ended has printed every match and nothing else.
LEMMA RangeDoneAnswers == ASSUME Inv, RangeDone PROVE Store!Range
<1> USE NullFacts
<1>1. /\ pc = "walk" /\ request.op = "range" /\ current = NULL_PTR
      /\ disk' = disk /\ pc' = "idle" /\ result' = result
      /\ request' = [op |-> "none", lo |-> request.lo, hi |-> request.hi]
    BY DEF RangeDone, Return, Walking
<1>2. result = {rp \in RecordPtrs :
                  Passed(rp[1]) /\ rp[2] \in BlockRange(disk[rp[1]], request.lo, request.hi)}
    BY <1>1 DEF Inv, WalkMissesNothing, Walking
<1>3. ASSUME NEW rp \in RecordPtrs
      PROVE  (Passed(rp[1]) /\ rp[2] \in BlockRange(disk[rp[1]], request.lo, request.hi))
             <=> (/\ slots[rp] # DELETE_MARKER
                  /\ request.lo <= slots[rp] /\ slots[rp] <= request.hi)
  <2>1. rp[1] \in BlockIds /\ rp[2] \in Slots /\ slots[rp] = disk[rp[1]].keys[rp[2]]
      BY DEF RecordPtrs, slots
  <2>2. CASE Linked(rp[1])
      BY <2>1, <2>2, <1>1 DEF Passed, BlockRange
  <2>3. CASE ~Linked(rp[1])
    <3>1. slots[rp] = DELETE_MARKER
        BY <2>1, <2>3, EmptyBlockFacts DEF Inv, NothingLost
    <3> QED BY <2>1, <2>3, <3>1 DEF Passed
  <2> QED BY <2>2, <2>3
<1>4. /\ asked.op = "range" /\ asked.lo = request.lo /\ asked.hi = request.hi
      /\ asked' = [op |-> "none", lo |-> asked.lo, hi |-> asked.hi]
      /\ answered' = result /\ slots' = slots
    BY <1>1 DEF asked, answered, slots
<1>5. result = Store!Matching
    BY <1>2, <1>3, <1>4 DEF Store!Matching
<1> QED BY <1>4, <1>5 DEF Store!Range, Store!Done

\* Taking out a block that holds nothing changes no slot.
LEMMA ReclaimStutters ==
    ASSUME Inv, pc = "reclaim", Return, result' = result,
           \A b \in BlockIds : b # current => disk'[b].keys = disk[b].keys,
           \/ disk'[current].keys = disk[current].keys
           \/ is_empty(disk[current]) /\ disk'[current] = EmptyBlock
    PROVE  UNCHANGED <<slots, asked, answered>>
<1>1. /\ pc' = "idle" /\ request' = [op |-> "none", lo |-> request.lo, hi |-> request.hi]
      /\ current \in BlockIds /\ disk[current] \in Block
      /\ disk[current].size = Cardinality(Occupied(disk[current]))
    BY DEF Return, Inv, TypeOK, LocalsInChain, SizeIsOccupancy
<1>2. \A i \in Slots : disk'[current].keys[i] = disk[current].keys[i]
    BY <1>1, EmptyUnlessOccupied, EmptyBlockFacts
<1>3. \A rp \in RecordPtrs : disk'[rp[1]].keys[rp[2]] = disk[rp[1]].keys[rp[2]]
    BY <1>2 DEF RecordPtrs
<1>4. slots' = slots
    BY <1>3 DEF slots
<1>5. asked' = asked /\ answered' = answered
    BY <1>1 DEF asked, answered
<1> QED BY <1>4, <1>5

\* None of the ways a delete ends after that changes the store.
LEMMA ReclaimStepStutters ==
    ASSUME Inv, KeepBlock \/ ReplaceOnlyBlock \/ DropFrontBlock \/ UnlinkBlock
    PROVE  UNCHANGED <<slots, asked, answered>>
<1>1. /\ pc = "reclaim" /\ Return /\ result' = result
      /\ current \in BlockIds /\ disk \in [BlockIds -> Block]
    BY DEF KeepBlock, ReplaceOnlyBlock, DropFrontBlock, UnlinkBlock, Inv, TypeOK, LocalsInChain
<1>2. CASE KeepBlock
    BY <1>1, <1>2, ReclaimStutters DEF KeepBlock
<1>3. CASE ReplaceOnlyBlock \/ DropFrontBlock
  <2>1. is_empty(disk[current]) /\ disk' = [disk EXCEPT ![current] = EmptyBlock]
      BY <1>3 DEF ReplaceOnlyBlock, DropFrontBlock
  <2> QED BY <1>1, <2>1, ReclaimStutters
<1>4. CASE UnlinkBlock
  <2> DEFINE n == disk[current].next
  <2>1. /\ is_empty(disk[current]) /\ previous \in BlockIds
        /\ disk' = [disk EXCEPT ![previous] = InsertNextBlock(@, n), ![current] = EmptyBlock]
      BY <1>4, NullFacts DEF UnlinkBlock, Inv, TypeOK
  <2> HIDE DEF n
  <2>2. /\ \A b \in BlockIds : b # current => disk'[b].keys = disk[b].keys
        /\ disk'[current] = EmptyBlock
      BY <1>1, <2>1 DEF InsertNextBlock
  <2> QED BY <1>1, <2>1, <2>2, ReclaimStutters
<1> QED BY <1>2, <1>3, <1>4

\* A walk that goes on changes nothing the store's clients see.
LEMMA SkipStutters ==
    ASSUME Inv, InsertSkip \/ DeleteSkip \/ RangeBlock \/ UNCHANGED vars
    PROVE  UNCHANGED <<slots, asked, answered>>
<1>1. disk' = disk /\ pc' = pc /\ request' = request
    BY DEF InsertSkip, DeleteSkip, RangeBlock, vars
<1>2. pc = "walk" \/ result' = result
    BY DEF InsertSkip, DeleteSkip, RangeBlock, vars, Walking
<1> QED BY <1>1, <1>2 DEF slots, asked, answered

\* A running call answers its request in one step of the store.
LEMMA WorkStore ==
    ASSUME Inv, Work
    PROVE  Store!Insert \/ Store!DeleteOne \/ Store!DeleteNone \/ Store!Range \/ UNCHANGED <<slots, asked, answered>>
<1>1. CASE InsertHere \/ InsertAppend \/ DeleteHere \/ DeleteNothing \/ RangeDone
    BY <1>1, InsertHereStores, InsertAppendStores, DeleteHereDeletes, DeleteNothingDeletesNone, RangeDoneAnswers
<1>2. CASE \/ InsertSkip \/ DeleteSkip \/ RangeBlock
           \/ KeepBlock \/ ReplaceOnlyBlock \/ DropFrontBlock \/ UnlinkBlock
    BY <1>2, SkipStutters, ReclaimStepStutters
<1> QED BY <1>1, <1>2 DEF Work, insert_key, delete_key, range_query

\* Every step of the heap is a step of the store or changes nothing in it.
LEMMA NextStore == ASSUME Inv, [Next]_vars PROVE [Store!Next]_(Store!vars)
<1>1. ASSUME NEW op \in Ops \ {"none"}, NEW low \in Keys, NEW high \in Keys,
             Begin(op, low, high)
      PROVE  Store!Next
    BY <1>1, BeginAsks DEF Store!Next, Store!Ops, Ops
<1>2. CASE Work
    BY <1>2, WorkStore DEF Store!Next, Store!vars
<1>3. CASE UNCHANGED vars
    BY <1>3, SkipStutters DEF Store!vars
<1> QED BY <1>1, <1>2, <1>3 DEF Next

\* The chain of block files does what RecordStore promises: records stay where
\* they were put, a delete takes one record, a range finds every match.
THEOREM HeapImplementsStore == Spec => ImplementsStore
<1>1. Init => Store!Init
    BY InitStore
<1>2. Inv /\ [Next]_vars => [Store!Next]_(Store!vars)
    BY NextStore
<1> QED BY <1>1, <1>2, HeapInvariant, PTL DEF Spec, ImplementsStore, Store!Spec

=============================================================================
