-------------------------- MODULE BPTreeInvariant --------------------------
(***************************************************************************)
(* What holds of BPTree's node files in every state, and the words that    *)
(* the proofs about it use: the tree that the files make up, the keys its  *)
(* nodes are bounded by, the order of its leaves, what one step on two or  *)
(* three nodes leaves of all this, and the inductive invariants: Inv, of   *)
(* the tree and the call that walks through it, and MapInv, of the map     *)
(* that its leaves hold.                                                   *)
(***************************************************************************)
EXTENDS BPTree, KeyOrderProofs

(* The tree that files make up *)

Lvs(files) == {n \in DOMAIN files : files[n].kind = "leaf"}
Ins(files) == {n \in DOMAIN files : files[n].kind # "leaf"}

LeafNode(x) ==
    /\ x.size \in Nat /\ x.next \in NodeIds \cup {NULL_PTR}
    /\ x.data \in [DOMAIN x.data -> RecordPtrs] /\ DOMAIN x.data \subseteq Keys
InternalNode(x) ==
    /\ x.kind = "internal" /\ x.keys \in Seq(Keys) /\ x.ptrs \in Seq(NodeIds)
    /\ Len(x.ptrs) = Len(x.keys) + 1

Nodes(files) ==
    /\ DOMAIN files \subseteq NodeIds
    /\ \A n \in Lvs(files) : LeafNode(files[n])
    /\ \A n \in Ins(files) : InternalNode(files[n])

\* The children of n are nodes of their own, each with n as its parent and one
\* level lower; every node but the root, and one that an insert hands up, has a
\* parent; the leaves are on one level.
ChildIs(files, root, extra, h, par, slot, n, i) ==
    LET c == files[n].ptrs[i]
    IN  c \in DOMAIN files \ {root, extra} /\ par[c] = n /\ slot[c] = i /\ h[c] + 1 = h[n]
ChildOf(files, par, slot, c) ==
    /\ par[c] \in Ins(files) /\ slot[c] \in 1 .. Len(files[par[c]].ptrs)
    /\ files[par[c]].ptrs[slot[c]] = c
HeightOf(files, root, h, n) ==
    h[n] \in Nat /\ (h[n] = 0 <=> n \in Lvs(files)) /\ h[n] <= h[root]

Shape(files, root, extra, h, par, slot) ==
    /\ root \in DOMAIN files /\ extra \in DOMAIN files \cup {NULL_PTR} /\ root # extra
    /\ \A n \in Ins(files) : \A i \in 1 .. Len(files[n].ptrs) :
          ChildIs(files, root, extra, h, par, slot, n, i)
    /\ \A c \in DOMAIN files \ {root, extra} : ChildOf(files, par, slot, c)
    /\ \A n \in DOMAIN files : HeightOf(files, root, h, n)

\* The nodes of a path and the one it leads to.
Step(p, c, i) == IF i <= Len(p) THEN p[i].node ELSE c
FrameOf(files, root, p, c, h, i) ==
    /\ p[i].node \in Ins(files) /\ p[i].index \in 1 .. Len(files[p[i].node].ptrs)
    /\ files[p[i].node].ptrs[p[i].index] = Step(p, c, i + 1)
    /\ h[p[i].node] = h[root] - i + 1
Stack(files, root, p, c, h) ==
    /\ c \in DOMAIN files /\ Step(p, c, 1) = root /\ h[c] = h[root] - Len(p)
    /\ \A i \in 1 .. Len(p) : FrameOf(files, root, p, c, h, i)

\* All keys below n are above lo[n] and not above hi[n].
SlotFits(files, lo, hi, n, i, c) ==
    /\ lo[n] <= lo[c] /\ hi[c] <= hi[n]
    /\ i > 1 => files[n].keys[i - 1] <= lo[c]
    /\ i <= Len(files[n].keys) => hi[c] <= files[n].keys[i]
Sorted(keys) == \A i, j \in 1 .. Len(keys) : i < j => keys[i] < keys[j]
Bounded(lo, hi, n) == lo[n] \in Int /\ hi[n] \in Int /\ lo[n] < hi[n]
Contained(files, lo, hi, n) == \A k \in DOMAIN files[n].data : lo[n] < k /\ k <= hi[n]
Bounds(files, lo, hi) ==
    /\ \A n \in DOMAIN files : Bounded(lo, hi, n)
    /\ \A n \in Lvs(files) : Contained(files, lo, hi, n)
    /\ \A n \in Ins(files) : Sorted(files[n].keys)
    /\ \A n \in Ins(files) : \A i \in 1 .. Len(files[n].ptrs) : SlotFits(files, lo, hi, n, i, files[n].ptrs[i])

\* The order of the leaves, and the next of each.
Lt(files, a, b) == \A x \in DOMAIN files[a].data, y \in DOMAIN files[b].data : x < y
Follows(files, n, m) ==
    /\ m \in Lvs(files) \ {n} /\ Lt(files, n, m)
    /\ \A l \in Lvs(files) \ {n, m} : Lt(files, l, n) \/ Lt(files, m, l)
Chain(files) == \A n \in Lvs(files) : files[n].next # NULL_PTR => Follows(files, n, files[n].next)

Pairs1(files, n) == Cardinality(DOMAIN files[n].data)
Occupied(files, free, low) ==
    \A n \in Lvs(files) :
        /\ files[n].size = Pairs1(files, n) /\ Pairs1(files, n) <= FANOUT
        /\ n = free \/ HALF <= Pairs1(files, n) \/ (n = low /\ HALF = Pairs1(files, n) + 1)
Widths(files, w) ==
    \A n \in Ins(files) : Len(files[n].keys) <= 2 * MIN_KEYS /\ (n = w \/ Len(files[n].keys) >= 1)

-----------------------------------------------------------------------------
(* What a step leaves of the tree *)

SameTree(files, files2) ==
    /\ DOMAIN files2 = DOMAIN files /\ Lvs(files2) = Lvs(files) /\ Ins(files2) = Ins(files)
    /\ \A n \in Ins(files) : files2[n].ptrs = files[n].ptrs

\* e, with key m before it, becomes the child right of child i of p.
Attached(files, files2, p, i, m, e) ==
    LET old == files[p]
        new == files2[p]
    IN  /\ DOMAIN files2 = DOMAIN files /\ Lvs(files2) = Lvs(files) /\ Ins(files2) = Ins(files)
        /\ \A n \in DOMAIN files \ {p} : files2[n] = files[n]
        /\ Len(new.ptrs) = Len(old.ptrs) + 1 /\ Len(new.keys) = Len(old.keys) + 1
        /\ \A j \in 1 .. Len(old.ptrs) + 1 :
              new.ptrs[j] = IF j < i + 1 THEN old.ptrs[j] ELSE IF j = i + 1 THEN e ELSE old.ptrs[j - 1]
        /\ \A j \in 1 .. Len(old.keys) + 1 :
              new.keys[j] = IF j < i THEN old.keys[j] ELSE IF j = i THEN m ELSE old.keys[j - 1]

\* n keeps its first k children, and the rest go to a new node.
Halved(files, files2, n, new, k) ==
    LET old  == files[n]
        low  == files2[n]
        high == files2[new]
    IN  /\ new \notin DOMAIN files /\ DOMAIN files2 = DOMAIN files \cup {new}
        /\ Lvs(files2) = Lvs(files) /\ Ins(files2) = Ins(files) \cup {new}
        /\ \A x \in DOMAIN files \ {n} : files2[x] = files[x]
        /\ Len(low.ptrs) = k /\ Len(low.keys) = k - 1
        /\ \A j \in 1 .. k : low.ptrs[j] = old.ptrs[j]
        /\ \A j \in 1 .. k - 1 : low.keys[j] = old.keys[j]
        /\ Len(high.ptrs) = Len(old.ptrs) - k /\ Len(high.keys) = Len(old.keys) - k
        /\ \A j \in 1 .. Len(old.ptrs) - k : high.ptrs[j] = old.ptrs[j + k]
        /\ \A j \in 1 .. Len(old.keys) - k : high.keys[j] = old.keys[j + k]

\* A new leaf beside c, which nothing points to yet.
LeafAdded(files, files2, new) ==
    /\ new \notin DOMAIN files /\ DOMAIN files2 = DOMAIN files \cup {new}
    /\ Lvs(files2) = Lvs(files) \cup {new} /\ Ins(files2) = Ins(files)
    /\ \A n \in Ins(files) : files2[n] = files[n]

\* The new node is as high as n, and the others as high as they were.
Raised(files, files2, root, new, n, h, h2) ==
    /\ \E par2, slot2 : Shape(files2, root, new, h2, par2, slot2)
    /\ h2[new] = h2[n]
    /\ \A x \in DOMAIN files : h2[x] = h[x]

\* A new root above the old one and e, with key m between them.
Grown(files, files2, root, e, new, m) ==
    /\ new \notin DOMAIN files /\ DOMAIN files2 = DOMAIN files \cup {new}
    /\ Lvs(files2) = Lvs(files) /\ Ins(files2) = Ins(files) \cup {new}
    /\ \A x \in DOMAIN files : files2[x] = files[x]
    /\ Len(files2[new].ptrs) = 2 /\ files2[new].ptrs[1] = root /\ files2[new].ptrs[2] = e
    /\ Len(files2[new].keys) = 1 /\ files2[new].keys[1] = m

\* c, child i of p, takes all of d, the child right of it, and d goes.
Merged(files, files2, p, i, c, d) ==
    LET old == files[p]
        new == files2[p]
        all == files2[c]
        lc  == Len(files[c].ptrs)
    IN  /\ DOMAIN files2 = DOMAIN files \ {d} /\ Lvs(files2) = Lvs(files) \ {d} /\ Ins(files2) = Ins(files) \ {d}
        /\ \A x \in DOMAIN files \ {p, c, d} : files2[x] = files[x]
        /\ Len(new.ptrs) = Len(old.ptrs) - 1 /\ Len(new.keys) = Len(old.keys) - 1
        /\ \A j \in 1 .. Len(old.ptrs) - 1 : new.ptrs[j] = IF j < i + 1 THEN old.ptrs[j] ELSE old.ptrs[j + 1]
        /\ \A j \in 1 .. Len(old.keys) - 1 : new.keys[j] = IF j < i THEN old.keys[j] ELSE old.keys[j + 1]
        /\ c \in Ins(files) =>
              /\ Len(all.ptrs) = lc + Len(files[d].ptrs) /\ Len(all.keys) = lc + Len(files[d].keys)
              /\ \A j \in 1 .. lc + Len(files[d].ptrs) :
                    all.ptrs[j] = IF j <= lc THEN files[c].ptrs[j] ELSE files[d].ptrs[j - lc]
              /\ \A j \in 1 .. lc + Len(files[d].keys) :
                    all.keys[j] = IF j < lc THEN files[c].keys[j]
                                  ELSE IF j = lc THEN old.keys[i] ELSE files[d].keys[j - lc]

\* Two neighbours below p.
Neighbours(files, p, i, c, d) ==
    /\ p \in Ins(files) /\ i \in 1 .. Len(files[p].ptrs) - 1
    /\ c = files[p].ptrs[i] /\ d = files[p].ptrs[i + 1]

\* The last child of c becomes the first of d, the child right of it, and the
\* keys turn about the key between the two.
Rotated(files, files2, p, i, c, d) ==
    LET left  == files2[c]
        right == files2[d]
        lc    == Len(files[c].ptrs)
    IN  /\ DOMAIN files2 = DOMAIN files /\ Lvs(files2) = Lvs(files) /\ Ins(files2) = Ins(files)
        /\ \A x \in DOMAIN files \ {p, c, d} : files2[x] = files[x]
        /\ files2[p].ptrs = files[p].ptrs /\ Len(files2[p].keys) = Len(files[p].keys)
        /\ \A j \in 1 .. Len(files[p].keys) :
              files2[p].keys[j] = IF j = i THEN files[c].keys[lc - 1] ELSE files[p].keys[j]
        /\ Len(left.ptrs) = lc - 1 /\ Len(left.keys) = lc - 2
        /\ \A j \in 1 .. lc - 1 : left.ptrs[j] = files[c].ptrs[j]
        /\ \A j \in 1 .. lc - 2 : left.keys[j] = files[c].keys[j]
        /\ Len(right.ptrs) = Len(files[d].ptrs) + 1 /\ Len(right.keys) = Len(files[d].keys) + 1
        /\ \A j \in 1 .. Len(files[d].ptrs) + 1 :
              right.ptrs[j] = IF j = 1 THEN files[c].ptrs[lc] ELSE files[d].ptrs[j - 1]
        /\ \A j \in 1 .. Len(files[d].keys) + 1 :
              right.keys[j] = IF j = 1 THEN files[p].keys[i] ELSE files[d].keys[j - 1]

\* The root goes and leaves its only child.
Shrunk(files, files2, root) ==
    /\ DOMAIN files2 = DOMAIN files \ {root} /\ Lvs(files2) = Lvs(files) /\ Ins(files2) = Ins(files) \ {root}
    /\ \A x \in DOMAIN files \ {root} : files2[x] = files[x]

-----------------------------------------------------------------------------
(* Bounds and keys *)

BoundsFit(files, lo, hi) ==
    \A n \in Ins(files) : \A i \in 1 .. Len(files[n].ptrs) : SlotFits(files, lo, hi, n, i, files[n].ptrs[i])

\* The keys of a path lead to k.
Routed(files, p, k) ==
    \A i \in 1 .. Len(p) :
        LET keys == files[p[i].node].keys
        IN  (p[i].index > 1 => keys[p[i].index - 1] < k) /\ (p[i].index <= Len(keys) => k <= keys[p[i].index])

\* e has keys above those of c, and may stand right of it.
Beside(files, lo, hi, c, e) ==
    /\ hi[c] <= lo[e]
    /\ \A b \in Ins(files) : \A i \in 1 .. Len(files[b].ptrs) :
          files[b].ptrs[i] = c => SlotFits(files, lo, hi, b, i, e)

\* Every child is a node, and not its own.
Kids(files) == \A n \in Ins(files) : \A i \in 1 .. Len(files[n].ptrs) : files[n].ptrs[i] \in DOMAIN files \ {n}

\* The keys of c, with k, are divided between c and the new leaf at m.
Parted(files, files2, c, new, k) ==
    /\ \A n \in Lvs(files) \ {c} : files2[n] = files[n]
    /\ DOMAIN files2[c].data \subseteq DOMAIN files[c].data \cup {k}
    /\ DOMAIN files2[new].data \subseteq DOMAIN files[c].data \cup {k}
Cut(files2, c, new, m) ==
    /\ m \in DOMAIN files2[c].data /\ DOMAIN files2[new].data # {}
    /\ \A x \in DOMAIN files2[c].data : x <= m
    /\ \A x \in DOMAIN files2[new].data : m < x

\* The key between the neighbours c and d becomes m.
Recut(files, files2, p, i, c, d, m) ==
    /\ DOMAIN files2 = DOMAIN files /\ Lvs(files2) = Lvs(files) /\ Ins(files2) = Ins(files)
    /\ \A x \in DOMAIN files \ {p, c, d} : files2[x] = files[x]
    /\ files2[p].ptrs = files[p].ptrs /\ Len(files2[p].keys) = Len(files[p].keys)
    /\ \A j \in 1 .. Len(files[p].keys) : files2[p].keys[j] = IF j = i THEN m ELSE files[p].keys[j]

Moved(files, lo, hi, lo2, hi2, c, d, m) ==
    /\ lo2[d] = m /\ hi2[c] = m
    /\ \A x \in DOMAIN files : (x # d => lo2[x] = lo[x]) /\ (x # c => hi2[x] = hi[x])
Fits(files, lo, hi, n) ==
    /\ n \in Lvs(files) => Contained(files, lo, hi, n)
    /\ n \in Ins(files) => /\ Sorted(files[n].keys)
                           /\ \A j \in 1 .. Len(files[n].ptrs) : SlotFits(files, lo, hi, n, j, files[n].ptrs[j])

-----------------------------------------------------------------------------
(* The leaves in key order *)

Apart(lo, hi, a, b) == hi[a] <= lo[b] \/ hi[b] <= lo[a]

Total(files) == \A a, b \in Lvs(files) : a # b => Lt(files, a, b) \/ Lt(files, b, a)

\* No leaf stands between two neighbours.
Adjacent(files, c, d) ==
    Lt(files, c, d) /\ \A l \in Lvs(files) \ {c, d} : Lt(files, l, c) \/ Lt(files, d, l)

\* Every leaf has a key.
Filled(files) == \A n \in Lvs(files) : DOMAIN files[n].data # {}

Aside(files, lo, hi, c) == \A l \in Lvs(files) \ {c} : Apart(lo, hi, c, l)

\* A function that a node has from its last child.
FromLast(files, b, g) == g = [n \in DOMAIN files |-> IF n \in Lvs(files) THEN b[n] ELSE g[Last(files[n].ptrs)]]

Greatest(files, max) ==
    /\ \A n \in Lvs(files) : max[n] \in DOMAIN files[n].data /\ \A x \in DOMAIN files[n].data : x <= max[n]
    /\ \A n \in Ins(files) : max[n] = max[Last(files[n].ptrs)]

-----------------------------------------------------------------------------
(* The tree in the middle of a call: p leads to c, and extra is what an      *)
(* insert hands up.                                                          *)

Forest(files, root, extra, p, c, below) ==
    \E h, par, slot :
        /\ Shape(files, root, extra, h, par, slot)
        /\ below => Stack(files, root, p, c, h)
        /\ extra # NULL_PTR => h[extra] = h[c]
Ordered(files, extra, c) ==
    \E lo, hi : Bounds(files, lo, hi) /\ (extra # NULL_PTR => Beside(files, lo, hi, c, extra))

\* The last frame of p: the node above the one p leads to, and the child taken.
Above(p) == p[Len(p)].node
Slot(p) == p[Len(p)].index

Placed(files, p, k) == k \in Nat /\ UpperBound(files[Above(p)].keys, k) = Slot(p)

\* The keys of the leaves c and d are divided anew, at m.
Divided(files, files2, c, d, m) ==
    /\ DOMAIN files2[c].data \cup DOMAIN files2[d].data \subseteq DOMAIN files[c].data \cup DOMAIN files[d].data
    /\ \A x \in DOMAIN files2[c].data : x <= m
    /\ \A x \in DOMAIN files2[d].data : m < x
    /\ \E x \in DOMAIN files[c].data : x <= m
    /\ \E x \in DOMAIN files[d].data : m < x
Overlap(files, files2) ==
    \A n \in Lvs(files) : files2[n].next = files[n].next /\ DOMAIN files[n].data \cap DOMAIN files2[n].data # {}

-----------------------------------------------------------------------------
(* The invariant *)

Updating == request.op \in {"insert", "delete"} /\ pc # "crashed"

\* A leaf that is one pair short.
Lacks(files, n) == HALF = Pairs1(files, n) + 1

Control ==
    /\ pc \in {"idle", "descend", "unwind", "refill", "crashed"}
    /\ request \in Requests \cup {NoRequest}
    /\ path \in Seq(Frames)
    /\ result \in Seq(RecordPtrs)
    /\ pc = "idle" => request = NoRequest /\ cur = NULL_PTR /\ path = <<>>
    /\ pc # "idle" => request \in Requests /\ cur \in DOMAIN node
    /\ pc = "refill" => request.op = "delete" /\ cur \in Lvs(node) /\ (HasLeft \/ HasRight) /\ Lacks(node, cur)
    /\ pc = "unwind" => request.op \in {"insert", "delete"}
    /\ pc = "crashed" => request.op = "delete"
    /\ split # NULL_PTR <=> At("unwind", "insert")

\* The children taken on the way down are those that the key led to.
Sought(files, p, k) ==
    \A i \in 1 .. Len(p) :
        p[i].index = Cardinality({j \in DOMAIN files[p[i].node].keys : files[p[i].node].keys[j] < k}) + 1
Guided == pc = "descend" /\ Updating => Sought(node, path, request.lo)

\* The leaf that may be empty, the one that has lost a key and is not refilled
\* yet, and the node that may have a single child.
MayBeEmpty == IF split = NULL_PTR THEN root_ptr ELSE NULL_PTR
MayLack == IF pc = "refill" THEN cur ELSE NULL_PTR
MayBeThin == IF At("unwind", "delete") \/ pc = "crashed" THEN cur ELSE NULL_PTR

Free(files) == NodeIds \ DOMAIN files
Room(files, n) == Cardinality(Free(files)) >= n
Stored(files) == UNION {DOMAIN files[n].data : n \in Lvs(files)}
Roomy ==
    /\ At("descend", "insert") => Room(node, Cardinality(Ins(node)) + 2) /\ request.lo \notin Stored(node)
    /\ At("unwind", "insert") => Room(node, Len(path) + 1)

Inv ==
    /\ Control
    /\ Nodes(node)
    /\ Forest(node, root_ptr, split, path, cur, Updating)
    /\ Ordered(node, split, cur)
    /\ Chain(node)
    /\ Occupied(node, MayBeEmpty, MayLack)
    /\ Widths(node, MayBeThin)
    /\ Guided
    /\ Roomy

-----------------------------------------------------------------------------
(* Files written and files dropped *)

Written2(files, files2, a, x, b, y) ==
    /\ DOMAIN files2 = DOMAIN files \cup {a, b} /\ files2[a] = x /\ files2[b] = y
    /\ \A n \in DOMAIN files \ {a, b} : files2[n] = files[n]
Written3(files, files2, a, x, b, y, c, z) ==
    /\ DOMAIN files2 = DOMAIN files \cup {a, b, c} /\ files2[a] = x /\ files2[b] = y /\ files2[c] = z
    /\ \A n \in DOMAIN files \ {a, b, c} : files2[n] = files[n]
Dropped(files, files2, d) ==
    /\ DOMAIN files2 = DOMAIN files \ {d}
    /\ \A n \in DOMAIN files \ {d} : files2[n] = files[n]

\* What holds of the files when the node above cur is given its turn.
Repaired(files, root, p) ==
    /\ Nodes(files) /\ Chain(files) /\ Above(p) \in DOMAIN files
    /\ Forest(files, root, NULL_PTR, Front(p), Above(p), TRUE) /\ Ordered(files, NULL_PTR, Above(p))
    /\ Occupied(files, root, NULL_PTR) /\ Widths(files, Above(p))

\* A leaf whose data may be written: its size is its number of pairs.
LeafData(data) == data \in [DOMAIN data -> RecordPtrs] /\ DOMAIN data \subseteq Keys /\ IsFiniteSet(DOMAIN data)

Enough(data) == HALF <= Cardinality(DOMAIN data) /\ Cardinality(DOMAIN data) <= FANOUT

Recuts(oldc, oldd, newc, newd, m) ==
    /\ DOMAIN newc \cup DOMAIN newd \subseteq DOMAIN oldc \cup DOMAIN oldd
    /\ \A x \in DOMAIN newc : x <= m
    /\ \A x \in DOMAIN newd : m < x
    /\ \E x \in DOMAIN oldc : x <= m
    /\ \E x \in DOMAIN oldd : m < x
    /\ DOMAIN oldc \cap DOMAIN newc # {} /\ DOMAIN oldd \cap DOMAIN newd # {}

\* Files after a merge: a and b are written, and d is gone.
Pruned(files, files2, a, x, b, y, d) ==
    /\ DOMAIN files2 = DOMAIN files \ {d} /\ files2[a] = x /\ files2[b] = y
    /\ \A n \in DOMAIN files \ {a, b, d} : files2[n] = files[n]

-----------------------------------------------------------------------------
(* The pairs in the leaves *)

Holds(files, k, v) == \E n \in Lvs(files) : k \in DOMAIN files[n].data /\ files[n].data[k] = v
Unique(files) == \A a, b \in Lvs(files) : DOMAIN files[a].data \cap DOMAIN files[b].data # {} => a = b
PairsOf(files) == [k \in Stored(files) |-> files[CHOOSE n \in Lvs(files) : k \in DOMAIN files[n].data].data[k]]
SamePairs(files, files2) == \A k, v : Holds(files2, k, v) <=> Holds(files, k, v)

SameLeaves(files, files2) == Lvs(files2) = Lvs(files) /\ \A n \in Lvs(files) : files2[n] = files[n]

\* The leaf the search for k ends at: leaves left of it have keys below k, and
\* leaves right of it keys above k.
EndsAt(files, c, k) ==
    \A l \in Lvs(files) \ {c} :
        \/ Lt(files, l, c) /\ \A x \in DOMAIN files[l].data : x < k
        \/ Lt(files, c, l) /\ \A x \in DOMAIN files[l].data : k < x

PairAdded(files, files2, k, rp) == \A x, v : Holds(files2, x, v) <=> Holds(files, x, v) \/ (x = k /\ v = rp)
PairRemoved(files, files2, k) == \A x, v : Holds(files2, x, v) <=> Holds(files, x, v) /\ x # k

-----------------------------------------------------------------------------
(* Scans: a map read off in key order, and how far a scan has come *)

\* The keys a range asks for, those of them in a leaf, and those below it.
Wanted(files, low, high) == {k \in Stored(files) : low <= k /\ k <= high}
Here(files, low, high, c) == {k \in DOMAIN files[c].data : low <= k /\ k <= high}
Passed(files, low, high, c) == {k \in Wanted(files, low, high) : \A y \in DOMAIN files[c].data : k < y}
LowFound(files, low, c) ==
    low \in Stored(files) => low \in DOMAIN files[c].data \/ \A y \in DOMAIN files[c].data : low < y

Scanning == At("descend", "range")

ScanInv ==
    /\ pc = "descend" /\ request.op # "range" => result = <<>>
    /\ Scanning /\ cur \in Ins(node) =>
          /\ result = <<>> /\ Sought(node, path, request.lo)
          /\ Forest(node, root_ptr, NULL_PTR, path, cur, TRUE)
    /\ Scanning /\ cur \in Lvs(node) =>
          /\ result = ReadOff(PairsOf(node), Passed(node, request.lo, request.hi, cur))
          /\ LowFound(node, request.lo, cur)

-----------------------------------------------------------------------------
(* The invariant of the map *)

\* The map and the scan agree with the tree.
MapInv == Inv /\ Unique(node) /\ ScanInv

\* A step that the map does not notice.
Unnoticed == Unique(node') /\ Pairs' = Pairs /\ asked' = asked /\ answer' = answer
=============================================================================
