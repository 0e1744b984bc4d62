------------------------------- MODULE Index -------------------------------
(***************************************************************************)
(* What the B+ tree of BPTree/ promises to Query: a map from keys to       *)
(* record pointers.  A key that is already there keeps its pointer, as     *)
(* std::map::insert does.  A range query answers with an initial segment   *)
(* of the matching entries in key order and may stop early; when it asks   *)
(* for one key the answer is complete.                                     *)
(*                                                                         *)
(* BPTree.tla is the implementation.                                       *)
(***************************************************************************)
EXTENDS KeyOrder, SequencesExt

CONSTANTS Keys,        \* the keys a client may store or ask for
          RecordPtrs   \* where a record can lie

VARIABLES entries,     \* the map
          request,     \* the request being served
          answer       \* the record pointers the last range query returned

vars == <<entries, request, answer>>

NoRequest == [op |-> "none"]
Requests ==
    [op : {"insert"}, lo : Keys, ptr : RecordPtrs] \cup [op : {"delete"}, lo : Keys]
        \cup [op : {"range"}, lo : Keys, hi : Keys]

\* The entries a range query asks for, in key order.
Matches(low, high) ==
    LET order == Ascending({k \in DOMAIN entries : low <= k /\ k <= high})
    IN  [i \in 1..Len(order) |-> entries[order[i]]]

Init ==
    /\ entries = <<>>
    /\ request = NoRequest
    /\ answer = <<>>

Ask ==
    /\ request = NoRequest
    /\ request' \in Requests
    /\ answer' = <<>>
    /\ UNCHANGED entries

Done == request' = NoRequest

Insert ==
    /\ request.op = "insert"
    /\ entries' = [k \in DOMAIN entries \cup {request.lo} |->
                      IF k \in DOMAIN entries THEN entries[k] ELSE request.ptr]
    /\ Done
    /\ UNCHANGED answer

\* A key that is not there is deleted without effect.
Delete ==
    /\ request.op = "delete"
    /\ entries' = [k \in DOMAIN entries \ {request.lo} |-> entries[k]]
    /\ Done
    /\ UNCHANGED answer

Search ==
    /\ request.op = "range"
    /\ answer' \in Prefixes(Matches(request.lo, request.hi))
    /\ request.lo = request.hi => answer' = Matches(request.lo, request.hi)
    /\ Done
    /\ UNCHANGED entries

Next ==
    \/ Ask
    \/ Insert
    \/ Delete
    \/ Search

Spec == Init /\ [][Next]_vars
=============================================================================
