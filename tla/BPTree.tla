------------------------------- MODULE BPTree -------------------------------
(***************************************************************************)
(* BPTree/src/BPTree.cpp, TreeNode.cpp, InternalNode.cpp and LeafNode.cpp: *)
(* the B+ tree that maps keys to record pointers.  Every node is a file of *)
(* temp/ named by its number; node is the contents of those files that the *)
(* tree can still reach.  The nodes that a merge empties are files nothing *)
(* points to, so they leave node, and a name may be given again.           *)
(*                                                                         *)
(* The code recurses down from the root and repairs nodes on the way back; *)
(* path is that recursion's stack, one frame for each internal node above  *)
(* cur with the child it went to.  A step is one node's turn.              *)
(*                                                                         *)
(* The program dies where InternalNode::delete_key takes the last element  *)
(* of the empty vectors of a sibling that is not there; pc is "crashed".   *)
(***************************************************************************)
EXTENDS KeyOrder, SequencesExt, FiniteSetsExt

CONSTANTS Keys,              \* "data is non-negative integers" (main.cpp)
          RecordPtrs,        \* where the heap may have put a record
          NullRecord,        \* a RecordPtr made by its default constructor
          Entries,           \* bound: the <<key, record>> pairs that are ever inserted
          KeyRanges,         \* bound: the <<min_key, max_key>> pairs that are asked for
          DuplicateInserts,  \* whether a key that is there may be inserted again
          FANOUT,            \* main.cpp: "fanout >= 3"
          MaxNodeId          \* bound: the number of node files at a time

ASSUME KeysAssumption == Keys \subseteq Nat /\ IsFiniteSet(Keys)
ASSUME EntriesAssumption == Entries \subseteq Keys \X RecordPtrs
ASSUME KeyRangesAssumption == KeyRanges \subseteq Keys \X Keys
ASSUME DuplicateInsertsAssumption == DuplicateInserts \in BOOLEAN
ASSUME FanoutAssumption == FANOUT \in Nat /\ FANOUT >= 3
ASSUME MaxNodeIdAssumption == MaxNodeId \in Nat \ {0}

VARIABLES node,       \* the node files
          root_ptr,   \* BPTree::root_ptr
          pc,         \* where the running call is
          request,    \* the running call and its arguments
          cur,        \* the node whose turn it is
          path,       \* the nodes above cur and the child taken in each
          split,      \* the pointer an insert returns: the node split off cur
          result      \* the record pointers a range has followed

vars == <<node, root_ptr, pc, request, cur, path, split, result>>

NULL_PTR == 0
NodeIds == 1..MaxNodeId

\* What a failed read of a key leaves in it.
NoKey == 0

\* The arguments of a call; lo is the key it looks for on its way down.
NoRequest == [op |-> "none"]
Requests ==
    [op : {"insert"}, lo : Keys, ptr : RecordPtrs] \cup [op : {"delete"}, lo : Keys]
        \cup [op : {"range"}, lo : Keys, hi : Keys]

Leaf(size, data, next) == [kind |-> "leaf", size |-> size, data |-> data, next |-> next]
Internal(keys, ptrs) == [kind |-> "internal", keys |-> keys, ptrs |-> ptrs]

Init ==
    /\ node = [n \in {1} |-> Leaf(0, <<>>, NULL_PTR)]
    /\ root_ptr = 1
    /\ pc = "idle"
    /\ request = NoRequest
    /\ cur = NULL_PTR
    /\ path = <<>>
    /\ split = NULL_PTR
    /\ result = <<>>
-----------------------------------------------------------------------------
(* Reading the files *)

IsLeaf(n) == node[n].kind = "leaf"
Unused == NodeIds \ DOMAIN node

\* gen_random_file_name gives a name no node has.
Fresh == Min(Unused)

\* std::map::insert leaves a key that is there alone.
Put(data, k, rp) ==
    [j \in DOMAIN data \cup {k} |-> IF j \in DOMAIN data THEN data[j] ELSE rp]

Merge(low, high) ==
    [j \in DOMAIN low \cup DOMAIN high |-> IF j \in DOMAIN high THEN high[j] ELSE low[j]]

\* LeafNode::read takes size pairs from the file.  When the file holds fewer,
\* the next pointer is read as a key, which fails with key 0 and ends the read.
LeafAt(n) ==
    IF node[n].size <= Cardinality(DOMAIN node[n].data) THEN node[n]
    ELSE Leaf(node[n].size, Put(node[n].data, NoKey, NullRecord), NULL_PTR)

\* max() of the subtree of n.
SubtreeMax ==
    LET max[n \in DOMAIN node] ==
            IF IsLeaf(n) THEN Max(DOMAIN LeafAt(n).data) ELSE max[Last(node[n].ptrs)]
    IN  max

\* Faulty version: a key equal to k sends the search to its right.
ChildIndexAfter(n, k) == Cardinality({i \in DOMAIN node[n].keys : node[n].keys[i] <= k}) + 1

\* The child whose subtree may hold k: the one left of the first key that is
\* not below k (std::lower_bound, and the loops of delete_key and range).
ChildIndex(n, k) == Cardinality({i \in DOMAIN node[n].keys : node[n].keys[i] < k}) + 1

\* A file written for the first time and a file no longer pointed to.
Created(files, new, contents) ==
    [n \in DOMAIN files \cup {new} |-> IF n = new THEN contents ELSE files[n]]
Without(files, n) == Restrict(files, DOMAIN files \ {n})

\* Faulty version: half of FANOUT is rounded down.
HalfRoundedDown == FANOUT \div 2

\* isUnderflow compares with an unsigned number, so -1 does not underflow.
MIN_KEYS == (FANOUT + 1) \div 2
isUnderflow(n) == 0 <= n /\ n < MIN_KEYS

Frame == path[Len(path)]
Parent == Frame.node
Siblings == node[Parent].ptrs
HasLeft == path # <<>> /\ Frame.index > 1
HasRight == path # <<>> /\ Frame.index < Len(Siblings)
LeftSibling == Siblings[Frame.index - 1]
RightSibling == Siblings[Frame.index + 1]

Return ==
    /\ pc' = "idle"
    /\ request' = NoRequest
    /\ cur' = NULL_PTR
    /\ path' = <<>>
    /\ split' = NULL_PTR
-----------------------------------------------------------------------------
(* A call begins at the root and goes down *)

Begin(req) ==
    /\ pc = "idle"
    /\ pc' = "descend"
    /\ request' = req
    /\ cur' = root_ptr
    /\ result' = <<>>
    /\ UNCHANGED <<node, root_ptr, path, split>>

Internals == {n \in DOMAIN node : ~IsLeaf(n)}
StoredKeys == UNION {DOMAIN node[n].data : n \in DOMAIN node \ Internals}

\* An insert makes at most one node of each level and a root: MaxNodeId has to
\* leave room for them.
MayInsert(k) ==
    /\ Cardinality(Unused) >= Cardinality(Internals) + 2
    /\ DuplicateInserts \/ k \notin StoredKeys

BeginInsert(k, rp) ==
    /\ MayInsert(k)
    /\ Begin([op |-> "insert", lo |-> k, ptr |-> rp])

BeginDelete(k) == Begin([op |-> "delete", lo |-> k])
BeginRange(low, high) == Begin([op |-> "range", lo |-> low, hi |-> high])

At(where, op) == pc = where /\ request.op = op

\* insert_key, delete_key and range of InternalNode choose the child alike.
Descend ==
    /\ pc = "descend" /\ ~IsLeaf(cur)
    /\ LET i == ChildIndex(cur, request.lo)
       IN  /\ path' = Append(path, [node |-> cur, index |-> i])
           /\ cur' = node[cur].ptrs[i]
    /\ UNCHANGED <<node, root_ptr, pc, request, split, result>>
-----------------------------------------------------------------------------
(* LeafNode::insert_key and InternalNode::insert_key *)

\* There is room: the pair is added and size counts it, new or not.  The
\* nodes above are written back as they were.
insertIntoCurrentLeaf ==
    /\ At("descend", "insert") /\ IsLeaf(cur)
    /\ LET leaf == LeafAt(cur)
       IN  /\ Cardinality(DOMAIN leaf.data) < FANOUT
           /\ node' = [node EXCEPT ![cur] =
                          Leaf(leaf.size + 1, Put(leaf.data, request.lo, request.ptr), leaf.next)]
    /\ Return
    /\ UNCHANGED <<root_ptr, result>>

HALF == (FANOUT + 1) \div 2   \* ceil(FANOUT / 2)

\* Faulty version: the pair that overflows the leaf is left out of the split.
splitLeafNodeDropsPair ==
    /\ At("descend", "insert") /\ IsLeaf(cur)
    /\ LET all  == LeafAt(cur).data
           low  == Lowest(DOMAIN all, HALF)
           high == DOMAIN all \ low
           new  == Fresh
       IN  /\ Cardinality(DOMAIN LeafAt(cur).data) >= FANOUT
           /\ node' = Created([node EXCEPT ![cur] = Leaf(Cardinality(low), Restrict(all, low), new)],
                              new, Leaf(Cardinality(high), Restrict(all, high), NULL_PTR))
           /\ split' = new
    /\ pc' = "unwind"
    /\ UNCHANGED <<root_ptr, request, cur, path, result>>

\* The leaf is full: the lower half stays, and the rest goes to a new leaf
\* that becomes the next of this one.
splitLeafNode ==
    /\ At("descend", "insert") /\ IsLeaf(cur)
    /\ LET all  == Put(LeafAt(cur).data, request.lo, request.ptr)
           low  == Lowest(DOMAIN all, HALF)
           high == DOMAIN all \ low
           new  == Fresh
       IN  /\ Cardinality(DOMAIN LeafAt(cur).data) >= FANOUT
           /\ node' = Created([node EXCEPT ![cur] = Leaf(Cardinality(low), Restrict(all, low), new)],
                              new, Leaf(Cardinality(high), Restrict(all, high), NULL_PTR))
           /\ split' = new
    /\ pc' = "unwind"
    /\ UNCHANGED <<root_ptr, request, cur, path, result>>

\* The place of a key in a vector of keys (std::upper_bound).
UpperBound(keys, k) == Cardinality({i \in DOMAIN keys : keys[i] <= k}) + 1

WithSplit(n, k) ==
    Internal(InsertAt(node[n].keys, UpperBound(node[n].keys, k), k),
             InsertAt(node[n].ptrs, UpperBound(node[n].keys, k) + 1, split))

\* The child was split and its parent has room for one more.
insert_into_existing_node ==
    /\ At("unwind", "insert") /\ path # <<>>
    /\ Len(node[Parent].keys) < FANOUT - 1
    /\ node' = [node EXCEPT ![Parent] = WithSplit(Parent, SubtreeMax[cur])]
    /\ Return
    /\ UNCHANGED <<root_ptr, result>>

\* The child was split and its parent is full: the parent is split around a
\* middle key, which goes to neither side.
split_and_create_new_node ==
    /\ At("unwind", "insert") /\ path # <<>>
    /\ Len(node[Parent].keys) >= FANOUT - 1
    /\ LET all == WithSplit(Parent, SubtreeMax[cur])
           new == Fresh
       IN  /\ node' = Created(
                  [node EXCEPT ![Parent] = Internal(SubSeq(all.keys, 1, HALF - 1), SubSeq(all.ptrs, 1, HALF))],
                  new, Internal(SubSeq(all.keys, HALF + 1, Len(all.keys)),
                                SubSeq(all.ptrs, HALF + 1, Len(all.ptrs))))
           /\ split' = new
    /\ cur' = Parent
    /\ path' = Front(path)
    /\ UNCHANGED <<root_ptr, pc, request, result>>

\* BPTree::insert_key: the root was split and a new root goes above the two.
GrowRoot ==
    /\ At("unwind", "insert") /\ path = <<>>
    /\ node' = Created(node, Fresh, Internal(<<SubtreeMax[root_ptr]>>, <<root_ptr, split>>))
    /\ root_ptr' = Fresh
    /\ Return
    /\ UNCHANGED result
-----------------------------------------------------------------------------
(* LeafNode::delete_key *)

\* Faulty version: a leaf without a sibling waits to be refilled too.
EraseFromLeafRefillsRoot ==
    /\ At("descend", "delete") /\ IsLeaf(cur)
    /\ LET leaf == LeafAt(cur)
           data == Restrict(leaf.data, DOMAIN leaf.data \ {request.lo})
       IN  IF request.lo \in DOMAIN leaf.data
           THEN /\ node' = [node EXCEPT ![cur] = Leaf(Cardinality(DOMAIN data), data, leaf.next)]
                /\ pc' = IF isUnderflow(Cardinality(DOMAIN data)) THEN "refill" ELSE "unwind"
           ELSE pc' = "unwind" /\ UNCHANGED node
    /\ UNCHANGED <<root_ptr, request, cur, path, split, result>>

\* The leaf loses the key, if it has it.  A leaf left with too few pairs is
\* refilled, unless it has no sibling, as the root.
EraseFromLeaf ==
    /\ At("descend", "delete") /\ IsLeaf(cur)
    /\ LET leaf == LeafAt(cur)
           data == Restrict(leaf.data, DOMAIN leaf.data \ {request.lo})
       IN  IF request.lo \in DOMAIN leaf.data
           THEN /\ node' = [node EXCEPT ![cur] = Leaf(Cardinality(DOMAIN data), data, leaf.next)]
                /\ pc' = IF isUnderflow(Cardinality(DOMAIN data)) /\ (HasLeft \/ HasRight)
                         THEN "refill" ELSE "unwind"
           ELSE pc' = "unwind" /\ UNCHANGED node
    /\ UNCHANGED <<root_ptr, request, cur, path, split, result>>

Refilling == pc = "refill"
Data(n) == LeafAt(n).data
CanLend(n) == ~isUnderflow(Cardinality(DOMAIN Data(n)) - 1)

LeafWith(data, next) == Leaf(Cardinality(DOMAIN data), data, next)

\* Faulty version: the frame of the node that has returned stays on the stack.
LeafDoneKeepsFrame ==
    /\ pc' = "unwind"
    /\ cur' = Parent
    /\ UNCHANGED <<root_ptr, request, path, split, result>>

\* The leaf returns to the node above it, whose turn it is.
LeafDone ==
    /\ pc' = "unwind"
    /\ cur' = Parent
    /\ path' = Front(path)
    /\ UNCHANGED <<root_ptr, request, split, result>>

\* Faulty version: the key between the two leaves is not updated.
left_redistributionKeepsKey ==
    /\ Refilling /\ HasLeft /\ CanLend(LeftSibling)
    /\ LET k    == Max(DOMAIN Data(LeftSibling))
           kept == Restrict(Data(LeftSibling), DOMAIN Data(LeftSibling) \ {k})
       IN  node' = [node EXCEPT
              ![LeftSibling] = LeafWith(kept, LeafAt(LeftSibling).next),
              ![cur] = LeafWith(Put(Data(cur), k, Data(LeftSibling)[k]), node[cur].next)]
    /\ LeafDone

\* The left sibling can spare its last pair; its new last key becomes the key
\* between the two.
left_redistribution ==
    /\ Refilling /\ HasLeft /\ CanLend(LeftSibling)
    /\ LET k    == Max(DOMAIN Data(LeftSibling))
           kept == Restrict(Data(LeftSibling), DOMAIN Data(LeftSibling) \ {k})
       IN  node' = [node EXCEPT
              ![LeftSibling] = LeafWith(kept, LeafAt(LeftSibling).next),
              ![cur] = LeafWith(Put(Data(cur), k, Data(LeftSibling)[k]), node[cur].next),
              ![Parent] = Internal(ReplaceAt(node[Parent].keys, Frame.index - 1, Max(DOMAIN kept)), Siblings)]
    /\ LeafDone

\* Faulty version: the left sibling keeps its next pointer.
left_mergeKeepsNext ==
    /\ Refilling /\ HasLeft /\ ~CanLend(LeftSibling)
    /\ node' = Without([node EXCEPT
              ![LeftSibling] = LeafWith(Merge(Data(LeftSibling), Data(cur)), LeafAt(LeftSibling).next),
              ![Parent] = Internal(RemoveAt(node[Parent].keys, Frame.index - 1),
                                   RemoveAt(Siblings, Frame.index))], cur)
    /\ LeafDone

\* Faulty version: the parent keeps its pointer to the leaf that is gone.
left_mergeKeepsPointer ==
    /\ Refilling /\ HasLeft /\ ~CanLend(LeftSibling)
    /\ node' = Without([node EXCEPT
              ![LeftSibling] = LeafWith(Merge(Data(LeftSibling), Data(cur)), node[cur].next)], cur)
    /\ LeafDone

\* The left sibling takes the pairs and the next pointer of this leaf.
left_merge ==
    /\ Refilling /\ HasLeft /\ ~CanLend(LeftSibling)
    /\ node' = Without([node EXCEPT
              ![LeftSibling] = LeafWith(Merge(Data(LeftSibling), Data(cur)), node[cur].next),
              ![Parent] = Internal(RemoveAt(node[Parent].keys, Frame.index - 1),
                                   RemoveAt(Siblings, Frame.index))], cur)
    /\ LeafDone

\* There is no left sibling and the right one can spare its first pair, whose
\* key becomes the key between the two.
right_redistribution ==
    /\ Refilling /\ ~HasLeft /\ HasRight /\ CanLend(RightSibling)
    /\ LET k    == Min(DOMAIN Data(RightSibling))
           kept == Restrict(Data(RightSibling), DOMAIN Data(RightSibling) \ {k})
       IN  node' = [node EXCEPT
              ![RightSibling] = LeafWith(kept, LeafAt(RightSibling).next),
              ![cur] = LeafWith(Put(Data(cur), k, Data(RightSibling)[k]), node[cur].next),
              ![Parent] = Internal(ReplaceAt(node[Parent].keys, Frame.index, k), Siblings)]
    /\ LeafDone

\* There is no left sibling and this leaf takes the pairs of the right one.
right_merge ==
    /\ Refilling /\ ~HasLeft /\ HasRight /\ ~CanLend(RightSibling)
    /\ node' = Without([node EXCEPT
              ![cur] = LeafWith(Merge(Data(cur), Data(RightSibling)), LeafAt(RightSibling).next),
              ![Parent] = Internal(RemoveAt(node[Parent].keys, Frame.index),
                                   RemoveAt(Siblings, Frame.index + 1))], RightSibling)
    /\ LeafDone
-----------------------------------------------------------------------------
(* InternalNode::delete_key, after the call on the child has returned *)

TooFewKeys == ~IsLeaf(cur) /\ isUnderflow(Len(node[cur].keys))
Repairing == At("unwind", "delete") /\ TooFewKeys

\* A leaf, or a node with enough keys or no sibling, returns to the node above.
ReturnToParent ==
    /\ At("unwind", "delete") /\ path # <<>>
    /\ ~TooFewKeys \/ (~HasLeft /\ ~HasRight)
    /\ cur' = Parent
    /\ path' = Front(path)
    /\ UNCHANGED <<node, root_ptr, pc, request, split, result>>

\* Faulty version: no sibling lends a child.
NeverLends(n) == FALSE

CanLendChild(n) == ~isUnderflow(Len(node[n].keys) - 1)

\* The left sibling's last child moves over, with the key between the two.
leftRedistribution ==
    /\ Repairing /\ HasLeft /\ CanLendChild(LeftSibling)
    /\ LET left == node[LeftSibling]
           sep  == Frame.index - 1
       IN  node' = [node EXCEPT
              ![LeftSibling] = Internal(Front(left.keys), Front(left.ptrs)),
              ![cur] = Internal(<<node[Parent].keys[sep]>> \o node[cur].keys,
                                <<Last(left.ptrs)>> \o node[cur].ptrs),
              ![Parent] = Internal(ReplaceAt(node[Parent].keys, sep, Last(left.keys)), Siblings)]
    /\ cur' = Parent
    /\ path' = Front(path)
    /\ UNCHANGED <<root_ptr, pc, request, split, result>>

\* Faulty version: this node, not its children, goes to the left sibling.
leftMergeNestsNode ==
    /\ Repairing /\ HasLeft /\ ~CanLendChild(LeftSibling)
    /\ LET left == node[LeftSibling]
           sep  == Frame.index - 1
       IN  node' = [node EXCEPT
              ![LeftSibling] = Internal(Append(left.keys, node[Parent].keys[sep]), Append(left.ptrs, cur)),
              ![Parent] = Internal(RemoveAt(node[Parent].keys, sep), RemoveAt(Siblings, Frame.index))]
    /\ cur' = Parent
    /\ path' = Front(path)
    /\ UNCHANGED <<root_ptr, pc, request, split, result>>

\* The left sibling takes the key between the two and all of this node.
leftMerge ==
    /\ Repairing /\ HasLeft /\ ~CanLendChild(LeftSibling)
    /\ LET left == node[LeftSibling]
           sep  == Frame.index - 1
       IN  node' = Without([node EXCEPT
              ![LeftSibling] = Internal(Append(left.keys, node[Parent].keys[sep]) \o node[cur].keys,
                                        left.ptrs \o node[cur].ptrs),
              ![Parent] = Internal(RemoveAt(node[Parent].keys, sep), RemoveAt(Siblings, Frame.index))], cur)
    /\ cur' = Parent
    /\ path' = Front(path)
    /\ UNCHANGED <<root_ptr, pc, request, split, result>>

\* There is no left sibling, yet leftRedistribution is called with the null
\* pointer: it creates a node, finds that -1 keys do not underflow, and takes
\* the last of no keys.
LeftSiblingMissing ==
    /\ Repairing /\ ~HasLeft /\ HasRight
    /\ pc' = "crashed"
    /\ UNCHANGED <<node, root_ptr, request, cur, path, split, result>>

\* Faulty version: an empty leaf is no longer the root of anything.
DropEmptyRoot ==
    /\ At("unwind", "delete") /\ path = <<>>
    /\ root_ptr' = IF IsLeaf(cur) /\ node[cur].size = 0 THEN NULL_PTR
                   ELSE IF ~IsLeaf(cur) /\ Len(node[cur].ptrs) = 1 THEN node[cur].ptrs[1]
                   ELSE root_ptr
    /\ node' = IF root_ptr' \notin {root_ptr, NULL_PTR} THEN Without(node, cur) ELSE node
    /\ Return
    /\ UNCHANGED result

\* BPTree::delete_key: a root with a single child gives way to that child.
ShrinkRoot ==
    /\ At("unwind", "delete") /\ path = <<>>
    /\ IF ~IsLeaf(cur) /\ Len(node[cur].ptrs) = 1
       THEN root_ptr' = node[cur].ptrs[1] /\ node' = Without(node, cur)
       ELSE UNCHANGED <<root_ptr, node>>
    /\ Return
    /\ UNCHANGED result
-----------------------------------------------------------------------------
(* LeafNode::range *)

\* A leaf follows its record pointers of the range in key order, and the scan
\* goes on to the next leaf until a key is above the range.
RangeLeaf ==
    /\ At("descend", "range") /\ IsLeaf(cur)
    /\ LET leaf    == LeafAt(cur)
           matches == Ascending({k \in DOMAIN leaf.data : request.lo <= k /\ k <= request.hi})
           beyond  == \E k \in DOMAIN leaf.data : k > request.hi
       IN  /\ result' = result \o [i \in DOMAIN matches |-> leaf.data[matches[i]]]
           /\ IF beyond \/ leaf.next = NULL_PTR
              THEN Return
              ELSE cur' = leaf.next /\ UNCHANGED <<pc, request, path, split>>
    /\ UNCHANGED <<node, root_ptr>>
-----------------------------------------------------------------------------
insert_key ==
    \/ insertIntoCurrentLeaf \/ splitLeafNode
    \/ insert_into_existing_node \/ split_and_create_new_node \/ GrowRoot
delete_key ==
    \/ EraseFromLeaf
    \/ left_redistribution \/ left_merge \/ right_redistribution \/ right_merge
    \/ ReturnToParent \/ leftRedistribution \/ leftMerge \/ LeftSiblingMissing \/ ShrinkRoot

Work == Descend \/ insert_key \/ delete_key \/ RangeLeaf

Next ==
    \/ \E entry \in Entries : BeginInsert(entry[1], entry[2])
    \/ \E k \in Keys : BeginDelete(k)
    \/ \E range \in KeyRanges : BeginRange(range[1], range[2])
    \/ Work

Spec == Init /\ [][Next]_vars

\* One thread runs a call to its end before the next command is read.
FairSpec == Spec /\ WF_vars(Work)
-----------------------------------------------------------------------------
(* Properties *)

Frames == [node : NodeIds, index : Nat \ {0}]

TypeOK ==
    /\ DOMAIN node \subseteq NodeIds
    /\ \A n \in DOMAIN node :
          \/ /\ node[n].kind = "leaf"
             /\ node[n].size \in Nat
             /\ DOMAIN node[n].data \subseteq Keys
             /\ Range(node[n].data) \subseteq RecordPtrs
             /\ node[n].next \in NodeIds \cup {NULL_PTR}
          \/ /\ node[n].kind = "internal"
             /\ node[n].keys \in Seq(Keys)
             /\ node[n].ptrs \in Seq(NodeIds)
    /\ root_ptr \in NodeIds
    /\ pc \in {"idle", "descend", "unwind", "refill", "crashed"}
    /\ request \in Requests \cup {NoRequest}
    /\ cur \in NodeIds \cup {NULL_PTR}
    /\ path \in Seq(Frames)
    /\ split \in NodeIds \cup {NULL_PTR}
    /\ result \in Seq(RecordPtrs)

Leaves == DOMAIN node \ Internals
Children(n) == IF n \in Internals THEN ToSet(node[n].ptrs) ELSE {}

\* The nodes at each depth below those of tops.
Levels(tops) ==
    LET level[d \in 0..Cardinality(DOMAIN node)] ==
            IF d = 0 THEN tops ELSE UNION {Children(n) : n \in level[d - 1]}
    IN  level

\* The files form one tree: the nodes reached from root_ptr are exactly the
\* files in use, each pointed to from one place, and a node has one key between
\* each two children.  While an insert returns, the node it hands up is reached
\* from split, and no parent knows it.
TreeShape ==
    /\ UNION Range(Levels({root_ptr, split} \ {NULL_PTR})) = DOMAIN node
    /\ \A m, n \in Internals : \A i \in DOMAIN node[m].ptrs, j \in DOMAIN node[n].ptrs :
          node[m].ptrs[i] = node[n].ptrs[j] => m = n /\ i = j
    /\ \A n \in Internals :
          /\ Len(node[n].ptrs) = Len(node[n].keys) + 1
          /\ Children(n) \cap {root_ptr, split} = {}

\* Every leaf is as deep as every other, in the middle of a call too; and the
\* node an insert hands up is as high as the one it was split from.
BalancedDepth ==
    \A tops \in {{root_ptr}} \cup (IF split = NULL_PTR THEN {} ELSE {{cur, split}}) :
        LET levels == Levels(tops)
        IN  \A d \in DOMAIN levels : levels[d] \subseteq Leaves \/ levels[d] \subseteq Internals

\* The keys in the leaves below n.
SubtreeKeys ==
    LET keys[n \in DOMAIN node] ==
            IF IsLeaf(n) THEN DOMAIN node[n].data ELSE UNION {keys[c] : c \in Children(n)}
    IN  keys

\* "Ki-1 < ptri <= Ki" (InternalNode.hpp): what a search relies on, kept by
\* every split, redistribution and merge and by the keys that stay behind
\* when the pair they were copied from is deleted.
SearchTreeOrder ==
    LET below == SubtreeKeys
    IN  \A n \in Internals : \A i \in DOMAIN node[n].ptrs : \A k \in below[node[n].ptrs[i]] :
            /\ i > 1 => node[n].keys[i - 1] < k
            /\ i < Len(node[n].ptrs) => k <= node[n].keys[i]

\* A leaf's size counts its pairs, and "each leaf (except root) have between
\* ceil(FANOUT/2) and FANOUT children" (LeafNode.hpp), except the one a delete
\* has just taken a pair from.
LeafOccupancy ==
    \A n \in Leaves :
        LET pairs == Cardinality(DOMAIN node[n].data)
        IN  /\ node[n].size = pairs
            /\ pairs <= FANOUT
            /\ n = root_ptr \/ HALF <= pairs \/ (pc = "refill" /\ n = cur /\ HALF = pairs + 1)

\* The children of an internal node the code really allows: at least two, but
\* a merge may leave more than FANOUT of them, since leftMerge compares the
\* number of keys with the bound for children.
NodeWidth ==
    pc = "idle" => \A n \in Internals :
        2 <= Len(node[n].ptrs) /\ Len(node[n].ptrs) <= 2 * MIN_KEYS + 1

\* A leaf's next, when it has one, is the leaf with the next larger keys and
\* is part of the tree.
NextIsSuccessor ==
    \A n \in Leaves : node[n].next # NULL_PTR =>
        /\ node[n].next \in Leaves
        /\ Max(DOMAIN node[n].data) < Min(DOMAIN node[node[n].next].data)
        /\ \A k \in StoredKeys :
              k <= Max(DOMAIN node[n].data) \/ k >= Min(DOMAIN node[node[n].next].data)

\* The parent and sibling pointers taken on the way down are still true when
\* they are used on the way back: each frame names the child that was entered,
\* and that is the child the key belongs to.
StackIsPath ==
    request.op \in {"insert", "delete"} /\ pc # "crashed" =>
        LET walk == Append([i \in DOMAIN path |-> path[i].node], cur)
        IN  /\ walk[1] = root_ptr
            /\ \A i \in DOMAIN path :
                  /\ walk[i] \in Internals
                  /\ path[i].index \in DOMAIN node[walk[i]].ptrs
                  /\ node[walk[i]].ptrs[path[i].index] = walk[i + 1]
            /\ At("descend", "insert") =>
                  \A i \in DOMAIN path : path[i].index = ChildIndex(walk[i], request.lo)

Pairs == [k \in StoredKeys |-> node[CHOOSE n \in Leaves : k \in DOMAIN node[n].data].data[k]]

\* What a range from low to high should find.
Matches(low, high) ==
    LET order == Ascending({k \in DOMAIN Pairs : low <= k /\ k <= high})
    IN  [i \in DOMAIN order |-> Pairs[order[i]]]

\* A scan starts at the first leaf that can hold a match and skips nothing: it
\* has followed exactly the matches below the leaf it is at.
ScanMissesNothing ==
    At("descend", "range") /\ IsLeaf(cur) /\ node[cur].data # <<>> =>
        result = Matches(request.lo, Min({request.hi, Min(DOMAIN node[cur].data) - 1}))

\* The tree does what Index promises.  An insert or delete has happened when
\* the leaf has changed, before the tree is back in shape; a range answers
\* when its scan ends.
asked == IF pc = "descend" THEN request ELSE NoRequest
answer == IF pc = "descend" THEN <<>> ELSE result

Map == INSTANCE Index WITH entries <- Pairs, request <- asked

ImplementsIndex == Map!Spec

\* Every call returns, or ends the program.
CallReturns == pc # "idle" ~> pc \in {"idle", "crashed"}

\* "executes range query using both B+Tree + heap and just the unordered heap"
\* (Query.cpp): a range that returns has found every match.
RangeComplete ==
    [][At("descend", "range") /\ pc' = "idle" => result' = Matches(request.lo, request.hi)]_vars

\* "deletes key from bptree if exists" (BPTree.cpp)
DeleteReturns == pc # "crashed"
=============================================================================
