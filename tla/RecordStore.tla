---------------------------- MODULE RecordStore ----------------------------
(***************************************************************************)
(* What the storage file of a BPTree/ database promises to its two         *)
(* clients, the B+ tree and the RANGE query: a set of slots, each named by *)
(* a record pointer and holding one key or nothing.  A record never moves  *)
(* from the slot it was put in, because the B+ tree keeps the pointer      *)
(* (LeafNode::data_pointers) and follows it much later                     *)
(* (RecordPtr::write_data).  One request is served at a time.              *)
(*                                                                         *)
(* UnorderedHeap.tla is the implementation: a chain of block files.        *)
(***************************************************************************)
EXTENDS Integers

CONSTANTS Keys,         \* the keys a client may store
          RecordPtrs,   \* the names of the slots
          NoKey         \* what an empty slot holds

VARIABLES slot,         \* what every slot holds
          request,      \* the request being served: its operation and key range
          result        \* the record pointers the last request returned

vars == <<slot, request, result>>

Ops == {"none", "insert", "delete", "range"}
Requests == [op : Ops, lo : Keys, hi : Keys]

\* The slots that hold a key of the request's range.
Matching == {rp \in RecordPtrs : slot[rp] # NoKey /\ request.lo <= slot[rp] /\ slot[rp] <= request.hi}

Init ==
    /\ slot = [rp \in RecordPtrs |-> NoKey]
    /\ request \in Requests /\ request.op = "none"
    /\ result = {}

\* A client asks for an operation; insert and delete name a single key.
Ask(op, low, high) ==
    /\ request.op = "none"
    /\ request' = [op |-> op, lo |-> low, hi |-> high]
    /\ result' = {}
    /\ UNCHANGED slot

Done == request' = [op |-> "none", lo |-> request.lo, hi |-> request.hi]

\* The key goes to a slot that was free, and that slot's name is the answer.
Insert ==
    /\ request.op = "insert"
    /\ \E rp \in RecordPtrs :
          /\ slot[rp] = NoKey
          /\ slot' = [slot EXCEPT ![rp] = request.lo]
          /\ result' = {rp}
    /\ Done

\* One record with the key goes; the others stay where they are.
DeleteOne ==
    /\ request.op = "delete"
    /\ \E rp \in RecordPtrs :
          /\ slot[rp] = request.lo
          /\ slot' = [slot EXCEPT ![rp] = NoKey]
    /\ Done
    /\ UNCHANGED result

\* Nothing changes only when no slot holds the key.
DeleteNone ==
    /\ request.op = "delete"
    /\ \A rp \in RecordPtrs : slot[rp] # request.lo
    /\ Done
    /\ UNCHANGED <<slot, result>>

\* A range query answers with every record of the range and no other.
Range ==
    /\ request.op = "range"
    /\ result' = Matching
    /\ Done
    /\ UNCHANGED slot

Next ==
    \/ \E op \in Ops \ {"none"}, low, high \in Keys : Ask(op, low, high)
    \/ Insert
    \/ DeleteOne
    \/ DeleteNone
    \/ Range

Spec == Init /\ [][Next]_vars
=============================================================================
