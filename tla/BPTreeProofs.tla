---------------------------- MODULE BPTreeProofs ----------------------------
(***************************************************************************)
(* Proofs about BPTree, for any set of keys, any FANOUT from 3 on and any  *)
(* number of nodes, as long as no key is inserted twice.  First that what  *)
(* the nodes say of each other holds after every step; then that BPTree    *)
(* does what Index promises: what the leaves hold is a map from keys to    *)
(* records, each insert and delete changes it once, the repairs of the     *)
(* tree leave it alone, and a range follows its matches in key order.      *)
(***************************************************************************)
EXTENDS BPTreeInvariant

(* Steps on the tree: what they leave of it *)

LEMMA NodeFacts ==
    ASSUME NEW files, Nodes(files), NEW n \in Ins(files)
    PROVE  /\ n \in DOMAIN files /\ n \in NodeIds
           /\ files[n].ptrs \in Seq(NodeIds) /\ files[n].keys \in Seq(Keys)
           /\ Len(files[n].ptrs) \in Nat /\ Len(files[n].keys) \in Nat
           /\ Len(files[n].ptrs) = Len(files[n].keys) + 1
           /\ \A i \in 1 .. Len(files[n].ptrs) : files[n].ptrs[i] \in NodeIds
           /\ \A i \in 1 .. Len(files[n].keys) : files[n].keys[i] \in Keys /\ files[n].keys[i] \in Nat
<1>1. InternalNode(files[n]) /\ n \in DOMAIN files /\ n \in NodeIds BY DEF Nodes, Ins
<1>2. files[n].ptrs \in Seq(NodeIds) /\ files[n].keys \in Seq(Keys) /\ Len(files[n].ptrs) = Len(files[n].keys) + 1
  BY <1>1 DEF InternalNode
<1>3. Len(files[n].ptrs) \in Nat /\ Len(files[n].keys) \in Nat BY <1>2, LenProperties
<1>4. \A i \in 1 .. Len(files[n].ptrs) : files[n].ptrs[i] \in NodeIds BY <1>2, ElementOfSeq
<1>5. \A i \in 1 .. Len(files[n].keys) : files[n].keys[i] \in Keys BY <1>2, ElementOfSeq
<1> QED BY <1>1, <1>2, <1>3, <1>4, <1>5, KeysAssumption

LEMMA Kinds ==
    ASSUME NEW files
    PROVE  Lvs(files) \cup Ins(files) = DOMAIN files /\ Lvs(files) \cap Ins(files) = {}
BY DEF Lvs, Ins

LEMMA LeafFacts ==
    ASSUME NEW files, Nodes(files), NEW n \in Lvs(files)
    PROVE  /\ n \in DOMAIN files /\ n \in NodeIds /\ n \notin Ins(files)
           /\ LeafNode(files[n])
           /\ DOMAIN files[n].data \subseteq Keys /\ DOMAIN files[n].data \in SUBSET Nat
           /\ DOMAIN files[n].data \subseteq Int
           /\ IsFiniteSet(DOMAIN files[n].data) /\ Cardinality(DOMAIN files[n].data) \in Nat
<1>1. n \in DOMAIN files /\ n \in NodeIds /\ n \notin Ins(files) /\ LeafNode(files[n]) BY DEF Nodes, Lvs, Ins
<1>2. DOMAIN files[n].data \subseteq Keys BY <1>1 DEF LeafNode
<1>3. IsFiniteSet(DOMAIN files[n].data) BY <1>2, KeysAssumption, FS_Subset
<1>4. Cardinality(DOMAIN files[n].data) \in Nat BY <1>3, FS_CardinalityType
<1>5. DOMAIN files[n].data \subseteq Nat BY <1>2, KeysAssumption
<1>6. DOMAIN files[n].data \subseteq Int BY <1>5
<1> QED BY <1>1, <1>2, <1>3, <1>4, <1>5, <1>6

LEMMA NoNull ==
    ASSUME NEW files, Nodes(files)
    PROVE  NULL_PTR \notin DOMAIN files
BY MaxNodeIdAssumption DEF Nodes, NodeIds, NULL_PTR

LEMMA SameShape ==
    ASSUME NEW files, NEW files2, NEW root, NEW extra, NEW h, NEW par, NEW slot,
           Shape(files, root, extra, h, par, slot), SameTree(files, files2)
    PROVE  Shape(files2, root, extra, h, par, slot)
BY DEF Shape, SameTree, ChildIs, ChildOf, HeightOf

LEMMA AttachedShape ==
    ASSUME NEW files, NEW files2, NEW root, NEW e, NEW h, NEW par, NEW slot,
           NEW p \in Ins(files), NEW i \in 1 .. Len(files[p].ptrs), NEW m,
           Nodes(files), Shape(files, root, e, h, par, slot), e # NULL_PTR, h[e] + 1 = h[p],
           Attached(files, files2, p, i, m, e)
    PROVE  \E par2, slot2 : Shape(files2, root, NULL_PTR, h, par2, slot2)
<1> DEFINE par2 == [x \in DOMAIN files |-> IF x = e THEN p ELSE par[x]]
           slot2 == [x \in DOMAIN files |-> IF x = e THEN i + 1
                                            ELSE IF par[x] = p /\ slot[x] > i THEN slot[x] + 1 ELSE slot[x]]
           len == Len(files[p].ptrs)
<1>1. NULL_PTR \notin DOMAIN files /\ e \in DOMAIN files /\ root \in DOMAIN files /\ root # e /\ len \in Nat
  BY NoNull, NodeFacts DEF Shape
<1>2. /\ Len(files2[p].ptrs) = len + 1
      /\ \A j \in 1 .. len + 1 :
            files2[p].ptrs[j] = IF j < i + 1 THEN files[p].ptrs[j] ELSE IF j = i + 1 THEN e ELSE files[p].ptrs[j - 1]
  BY DEF Attached
<1>3. DOMAIN files2 = DOMAIN files /\ Lvs(files2) = Lvs(files) /\ Ins(files2) = Ins(files) BY DEF Attached
<1>4. \A n \in Ins(files) \ {p} : files2[n] = files[n] BY Kinds DEF Attached
<1>5. \A n \in Ins(files) : \A j \in 1 .. Len(files[n].ptrs) : ChildIs(files, root, e, h, par, slot, n, j)
  BY DEF Shape
<1>6. \A n \in Ins(files2) : \A j \in 1 .. Len(files2[n].ptrs) : ChildIs(files2, root, NULL_PTR, h, par2, slot2, n, j)
  <2> SUFFICES ASSUME NEW n \in Ins(files2), NEW j \in 1 .. Len(files2[n].ptrs)
               PROVE  ChildIs(files2, root, NULL_PTR, h, par2, slot2, n, j)
    OBVIOUS
  <2>1. n \in Ins(files) BY <1>3
  <2>2. CASE n # p
    <3>1. files2[n] = files[n] /\ j \in 1 .. Len(files[n].ptrs) BY <2>1, <2>2, <1>4
    <3>2. ChildIs(files, root, e, h, par, slot, n, j) BY <2>1, <3>1, <1>5
    <3> QED BY <3>1, <3>2, <2>2, <1>1, <1>3 DEF ChildIs
  <2>3. CASE n = p /\ j < i + 1
    <3>1. files2[p].ptrs[j] = files[p].ptrs[j] /\ j \in 1 .. len BY <2>3, <1>2, <1>1
    <3>2. ChildIs(files, root, e, h, par, slot, p, j) BY <3>1, <1>5
    <3> QED BY <3>1, <3>2, <2>3, <1>1, <1>3 DEF ChildIs
  <2>4. CASE n = p /\ j = i + 1
    <3>1. files2[p].ptrs[j] = e BY <2>4, <1>2, <1>1
    <3> QED BY <3>1, <2>4, <1>1, <1>3 DEF ChildIs
  <2>5. CASE n = p /\ j > i + 1
    <3>1. files2[p].ptrs[j] = files[p].ptrs[j - 1] /\ j - 1 \in 1 .. len BY <2>5, <1>2, <1>1, SMTT(30)
    <3>2. ChildIs(files, root, e, h, par, slot, p, j - 1) BY <3>1, <1>5
    <3> QED BY <3>1, <3>2, <2>5, <1>1, <1>3, SMTT(30) DEF ChildIs
  <2> QED BY <2>2, <2>3, <2>4, <2>5, <1>1, <1>2
<1>7. ASSUME NEW c \in DOMAIN files2 \ {root, NULL_PTR} PROVE ChildOf(files2, par2, slot2, c)
  <2>1. CASE c = e
    <3>1. i + 1 \in 1 .. len + 1 /\ files2[p].ptrs[i + 1] = e BY <1>1, <1>2
    <3> QED BY <3>1, <2>1, <1>1, <1>2, <1>3 DEF ChildOf
  <2>2. CASE c # e
    <3>1. c \in DOMAIN files /\ ChildOf(files, par, slot, c) BY <1>7, <1>3, <2>2 DEF Shape
    <3>2. par2[c] = par[c] BY <3>1, <2>2
    <3>3. CASE par[c] # p BY <3>1, <3>2, <3>3, <2>2, <1>3, <1>4 DEF ChildOf
    <3>4. CASE par[c] = p
      <4>1. slot[c] \in 1 .. len /\ files[p].ptrs[slot[c]] = c BY <3>1, <3>4 DEF ChildOf
      <4>2. slot2[c] = IF slot[c] > i THEN slot[c] + 1 ELSE slot[c] BY <3>1, <2>2, <3>4
      <4>3. slot2[c] \in 1 .. len + 1 BY <4>1, <4>2, <1>1
      <4>4. files2[p].ptrs[slot2[c]] = c
        <5> HIDE DEF par2, slot2
        <5>1. CASE slot[c] <= i
          <6>1. slot2[c] = slot[c] /\ slot[c] < i + 1 /\ slot[c] \in 1 .. len + 1 BY <4>1, <4>2, <5>1, <1>1
          <6> QED BY <6>1, <4>1, <1>2
        <5>2. CASE slot[c] > i
          <6>1. slot2[c] = slot[c] + 1 /\ ~(slot2[c] < i + 1) /\ slot2[c] # i + 1 /\ slot2[c] - 1 = slot[c]
            BY <4>1, <4>2, <5>2, <1>1
          <6>2. files2[p].ptrs[slot2[c]] = files[p].ptrs[slot2[c] - 1] BY <6>1, <4>3, <1>2
          <6> QED BY <6>1, <6>2, <4>1
        <5> QED BY <5>1, <5>2, <4>1, <1>1
      <4> QED BY <4>3, <4>4, <3>2, <3>4, <1>2, <1>3 DEF ChildOf
    <3> QED BY <3>3, <3>4
  <2> QED BY <2>1, <2>2
<1>8. \A n \in DOMAIN files2 : HeightOf(files2, root, h, n) BY <1>3 DEF Shape, HeightOf
<1> HIDE DEF par2, slot2
<1> QED BY <1>1, <1>3, <1>6, <1>7, <1>8 DEF Shape

LEMMA LeafAddedShape ==
    ASSUME NEW files, NEW files2, NEW root, NEW new \in NodeIds, NEW h, NEW par, NEW slot,
           Nodes(files), Shape(files, root, NULL_PTR, h, par, slot),
           LeafAdded(files, files2, new)
    PROVE  \E h2 : /\ Shape(files2, root, new, h2, par, slot) /\ h2[new] = 0
                   /\ \A n \in DOMAIN files : h2[n] = h[n]
<1> DEFINE h2 == [n \in DOMAIN files2 |-> IF n = new THEN 0 ELSE h[n]]
<1>1. new # NULL_PTR /\ root \in DOMAIN files /\ root # new
  BY MaxNodeIdAssumption DEF NodeIds, NULL_PTR, Shape, LeafAdded
<1>2. h2[new] = 0 /\ \A n \in DOMAIN files : h2[n] = h[n] BY DEF LeafAdded
<1>3. ASSUME NEW n \in Ins(files2), NEW i \in 1 .. Len(files2[n].ptrs)
      PROVE  ChildIs(files2, root, new, h2, par, slot, n, i)
  <2>1. n \in Ins(files) /\ files2[n] = files[n] /\ n \in DOMAIN files BY <1>3, Kinds DEF LeafAdded
  <2>2. ChildIs(files, root, NULL_PTR, h, par, slot, n, i) BY <2>1 DEF Shape
  <2> QED BY <2>1, <2>2, <1>2 DEF ChildIs, LeafAdded
<1>4. ASSUME NEW c \in DOMAIN files2 \ {root, new} PROVE ChildOf(files2, par, slot, c)
  <2>1. ChildOf(files, par, slot, c) BY NoNull DEF Shape, LeafAdded
  <2> QED BY <2>1 DEF ChildOf, LeafAdded
<1>5. ASSUME NEW n \in DOMAIN files2 PROVE HeightOf(files2, root, h2, n)
  <2>1. HeightOf(files, root, h, root) /\ h2[root] = h[root] BY <1>1, <1>2 DEF Shape
  <2>2. CASE n = new BY <2>1, <2>2, <1>2 DEF HeightOf, LeafAdded
  <2>3. CASE n # new
    <3>1. HeightOf(files, root, h, n) /\ h2[n] = h[n] BY <2>3, <1>2, <1>5 DEF Shape, LeafAdded
    <3> QED BY <3>1, <2>1, <2>3 DEF HeightOf, LeafAdded
  <2> QED BY <2>2, <2>3
<1> HIDE DEF h2
<1>6. root \in DOMAIN files2 /\ new \in DOMAIN files2 BY <1>1 DEF LeafAdded
<1>7. Shape(files2, root, new, h2, par, slot) BY <1>1, <1>3, <1>4, <1>5, <1>6 DEF Shape
<1> QED BY <1>7, <1>2

LEMMA HalvedShape ==
    ASSUME NEW files, NEW files2, NEW root, NEW new \in NodeIds, NEW h, NEW par, NEW slot,
           NEW n \in Ins(files), NEW k \in 1 .. Len(files[n].ptrs),
           Nodes(files), Shape(files, root, NULL_PTR, h, par, slot),
           Halved(files, files2, n, new, k)
    PROVE  \E h2 : Raised(files, files2, root, new, n, h, h2)
<1> DEFINE h2 == [x \in DOMAIN files \cup {new} |-> IF x = new THEN h[n] ELSE h[x]]
           par2 == [x \in DOMAIN files |-> IF par[x] = n /\ slot[x] > k THEN new ELSE par[x]]
           slot2 == [x \in DOMAIN files |-> IF par[x] = n /\ slot[x] > k THEN slot[x] - k ELSE slot[x]]
           len == Len(files[n].ptrs)
<1>1. /\ new # NULL_PTR /\ NULL_PTR \notin DOMAIN files /\ root \in DOMAIN files /\ root # new /\ len \in Nat
      /\ n \in DOMAIN files /\ n # new
  BY MaxNodeIdAssumption, NoNull, NodeFacts DEF NodeIds, NULL_PTR, Shape, Halved
<1>2. h2[new] = h[n] /\ \A x \in DOMAIN files : h2[x] = h[x] BY <1>1 DEF Halved
<1>3. /\ new \notin DOMAIN files /\ DOMAIN files2 = DOMAIN files \cup {new}
      /\ Lvs(files2) = Lvs(files) /\ Ins(files2) = Ins(files) \cup {new}
      /\ \A x \in Ins(files) \ {n} : files2[x] = files[x]
  BY Kinds DEF Halved
<1>4. /\ Len(files2[n].ptrs) = k /\ Len(files2[new].ptrs) = len - k
      /\ \A j \in 1 .. k : files2[n].ptrs[j] = files[n].ptrs[j]
      /\ \A j \in 1 .. len - k : files2[new].ptrs[j] = files[n].ptrs[j + k]
  BY DEF Halved
<1>5. \A x \in Ins(files) : \A j \in 1 .. Len(files[x].ptrs) : ChildIs(files, root, NULL_PTR, h, par, slot, x, j)
  BY DEF Shape
<1>6. ASSUME NEW x \in Ins(files2), NEW j \in 1 .. Len(files2[x].ptrs)
      PROVE  ChildIs(files2, root, new, h2, par2, slot2, x, j)
  <2>1. CASE x # n /\ x # new
    <3>1. x \in Ins(files) /\ files2[x] = files[x] /\ x \in DOMAIN files /\ j \in 1 .. Len(files[x].ptrs)
      BY <2>1, <1>3, <1>6, Kinds
    <3>2. ChildIs(files, root, NULL_PTR, h, par, slot, x, j) BY <3>1, <1>5
    <3> QED BY <3>1, <3>2, <2>1, <1>1, <1>2, <1>3 DEF ChildIs
  <2>2. CASE x = n
    <3>1. j \in 1 .. len /\ j <= k /\ files2[n].ptrs[j] = files[n].ptrs[j] BY <2>2, <1>1, <1>4, <1>6
    <3>2. ChildIs(files, root, NULL_PTR, h, par, slot, n, j) BY <3>1, <1>5
    <3> QED BY <3>1, <3>2, <2>2, <1>1, <1>2, <1>3 DEF ChildIs
  <2>3. CASE x = new
    <3>1. j \in 1 .. len - k /\ j + k \in 1 .. len /\ j + k > k /\ files2[new].ptrs[j] = files[n].ptrs[j + k]
      BY <2>3, <1>1, <1>4, <1>6
    <3>2. ChildIs(files, root, NULL_PTR, h, par, slot, n, j + k) BY <3>1, <1>5
    <3>3. (j + k) - k = j BY <3>1
    <3> QED BY <3>1, <3>2, <3>3, <2>3, <1>1, <1>2, <1>3 DEF ChildIs
  <2> QED BY <2>1, <2>2, <2>3
<1>7. ASSUME NEW c \in DOMAIN files2 \ {root, new} PROVE ChildOf(files2, par2, slot2, c)
  <2>1. c \in DOMAIN files /\ ChildOf(files, par, slot, c) BY <1>1, <1>3, <1>7 DEF Shape
  <2>2. CASE par[c] # n
    <3>1. par2[c] = par[c] /\ slot2[c] = slot[c] BY <2>1, <2>2
    <3> HIDE DEF par2, slot2
    <3> QED BY <2>1, <2>2, <3>1, <1>3 DEF ChildOf
  <2>3. CASE par[c] = n /\ slot[c] > k
    <3>1. par2[c] = new /\ slot2[c] = slot[c] - k BY <2>1, <2>3
    <3> HIDE DEF par2, slot2
    <3>2. slot[c] \in 1 .. len /\ files[n].ptrs[slot[c]] = c BY <2>1, <2>3 DEF ChildOf
    <3>3. slot2[c] \in 1 .. len - k /\ slot2[c] + k = slot[c] BY <2>3, <3>1, <3>2, <1>1
    <3>4. files2[new].ptrs[slot2[c]] = files[n].ptrs[slot2[c] + k] BY <3>3, <1>4
    <3> QED BY <3>1, <3>2, <3>3, <3>4, <1>3, <1>4 DEF ChildOf
  <2>4. CASE par[c] = n /\ ~(slot[c] > k)
    <3>1. par2[c] = n /\ slot2[c] = slot[c] BY <2>1, <2>4
    <3> HIDE DEF par2, slot2
    <3>2. slot[c] \in 1 .. len /\ files[n].ptrs[slot[c]] = c BY <2>1, <2>4 DEF ChildOf
    <3>3. slot[c] \in 1 .. k BY <2>4, <3>2, <1>1
    <3> QED BY <3>1, <3>2, <3>3, <1>3, <1>4 DEF ChildOf
  <2> QED BY <2>2, <2>3, <2>4
<1>8. ASSUME NEW x \in DOMAIN files2 PROVE HeightOf(files2, root, h2, x)
  <2> DEFINE y == IF x = new THEN n ELSE x
  <2>1. y \in DOMAIN files /\ h2[x] = h[y] /\ h2[root] = h[root] /\ (x \in Lvs(files2) <=> y \in Lvs(files))
    BY <1>1, <1>2, <1>3, <1>8, Kinds
  <2>2. HeightOf(files, root, h, y) BY <2>1 DEF Shape
  <2> HIDE DEF y, h2
  <2> QED BY <2>1, <2>2 DEF HeightOf
<1> HIDE DEF h2, par2, slot2
<1>9. Shape(files2, root, new, h2, par2, slot2) BY <1>1, <1>3, <1>6, <1>7, <1>8 DEF Shape
<1>10. Raised(files, files2, root, new, n, h, h2) BY <1>9, <1>1, <1>2 DEF Raised
<1> QED BY <1>10

LEMMA GrownShape ==
    ASSUME NEW files, NEW files2, NEW root, NEW e, NEW new \in NodeIds, NEW m, NEW h, NEW par, NEW slot,
           Nodes(files), Shape(files, root, e, h, par, slot), e # NULL_PTR, h[e] = h[root],
           Grown(files, files2, root, e, new, m)
    PROVE  \E h2, par2, slot2 : Shape(files2, new, NULL_PTR, h2, par2, slot2)
<1> DEFINE h2 == [x \in DOMAIN files \cup {new} |-> IF x = new THEN h[root] + 1 ELSE h[x]]
           par2 == [x \in DOMAIN files |-> IF x \in {root, e} THEN new ELSE par[x]]
           slot2 == [x \in DOMAIN files |-> IF x = root THEN 1 ELSE IF x = e THEN 2 ELSE slot[x]]
<1>1. /\ NULL_PTR \notin DOMAIN files /\ root \in DOMAIN files /\ root # new /\ e # new /\ e \in DOMAIN files
      /\ root # e /\ new # NULL_PTR
  BY MaxNodeIdAssumption, NoNull DEF NodeIds, NULL_PTR, Shape, Grown
<1>2. h2[new] = h[root] + 1 /\ \A x \in DOMAIN files : h2[x] = h[x] BY <1>1 DEF Grown
<1>3. /\ new \notin DOMAIN files /\ DOMAIN files2 = DOMAIN files \cup {new}
      /\ Lvs(files2) = Lvs(files) /\ Ins(files2) = Ins(files) \cup {new}
      /\ \A x \in Ins(files) : files2[x] = files[x]
  BY Kinds DEF Grown
<1>4. Len(files2[new].ptrs) = 2 /\ files2[new].ptrs[1] = root /\ files2[new].ptrs[2] = e BY DEF Grown
<1>5. ASSUME NEW x \in Ins(files2), NEW j \in 1 .. Len(files2[x].ptrs)
      PROVE  ChildIs(files2, new, NULL_PTR, h2, par2, slot2, x, j)
  <2>1. CASE x # new
    <3>1. x \in Ins(files) /\ files2[x] = files[x] /\ x \in DOMAIN files /\ j \in 1 .. Len(files[x].ptrs)
      BY <2>1, <1>3, <1>5, Kinds
    <3>2. ChildIs(files, root, e, h, par, slot, x, j) BY <3>1 DEF Shape
    <3> QED BY <3>1, <3>2, <2>1, <1>1, <1>2, <1>3 DEF ChildIs
  <2>2. CASE x = new
    <3>1. j = 1 \/ j = 2 BY <2>2, <1>4, <1>5
    <3> QED BY <3>1, <2>2, <1>1, <1>2, <1>3, <1>4 DEF ChildIs
  <2> QED BY <2>1, <2>2
<1>6. ASSUME NEW c \in DOMAIN files2 \ {new, NULL_PTR} PROVE ChildOf(files2, par2, slot2, c)
  <2>1. CASE c \in {root, e} BY <2>1, <1>1, <1>3, <1>4 DEF ChildOf
  <2>2. CASE c \notin {root, e}
    <3>1. c \in DOMAIN files /\ ChildOf(files, par, slot, c) BY <2>2, <1>3, <1>6 DEF Shape
    <3>2. par2[c] = par[c] /\ slot2[c] = slot[c] BY <3>1, <2>2
    <3> HIDE DEF par2, slot2
    <3> QED BY <3>1, <3>2, <1>3 DEF ChildOf
  <2> QED BY <2>1, <2>2
<1>7. ASSUME NEW x \in DOMAIN files2 PROVE HeightOf(files2, new, h2, x)
  <2>1. h[root] \in Nat BY <1>1 DEF Shape, HeightOf
  <2>2. CASE x = new
    <3>1. new \notin Lvs(files2) BY <1>3, Kinds
    <3> HIDE DEF h2
    <3> QED BY <2>1, <2>2, <3>1, <1>2 DEF HeightOf
  <2>3. CASE x # new
    <3>1. x \in DOMAIN files /\ h2[x] = h[x] /\ HeightOf(files, root, h, x) BY <2>3, <1>2, <1>3, <1>7 DEF Shape
    <3> HIDE DEF h2
    <3> QED BY <2>1, <3>1, <1>2, <1>3 DEF HeightOf
  <2> QED BY <2>2, <2>3
<1> HIDE DEF h2, par2, slot2
<1>8. Shape(files2, new, NULL_PTR, h2, par2, slot2) BY <1>1, <1>3, <1>5, <1>6, <1>7 DEF Shape
<1> QED BY <1>8

LEMMA NeighbourFacts ==
    ASSUME NEW files, NEW root, NEW extra, NEW h, NEW par, NEW slot, NEW p, NEW i, NEW c, NEW d,
           Nodes(files), Shape(files, root, extra, h, par, slot), Neighbours(files, p, i, c, d)
    PROVE  /\ c \in DOMAIN files /\ d \in DOMAIN files /\ c # d /\ c # p /\ d # p
           /\ c \notin {root, extra} /\ d \notin {root, extra} /\ p \in DOMAIN files
           /\ par[c] = p /\ par[d] = p /\ slot[c] = i /\ slot[d] = i + 1
           /\ h[c] \in Nat /\ h[d] = h[c] /\ h[p] = h[c] + 1
           /\ (c \in Ins(files) <=> d \in Ins(files))
           /\ i \in Nat \ {0} /\ i + 1 \in 1 .. Len(files[p].ptrs) /\ i \in 1 .. Len(files[p].ptrs) /\ Len(files[p].ptrs) \in Nat
<1>1. p \in DOMAIN files /\ Len(files[p].ptrs) \in Nat BY NodeFacts DEF Neighbours
<1>2. i \in 1 .. Len(files[p].ptrs) /\ i + 1 \in 1 .. Len(files[p].ptrs) /\ i \in Nat \ {0}
  BY <1>1 DEF Neighbours
<1>3. ChildIs(files, root, extra, h, par, slot, p, i) /\ ChildIs(files, root, extra, h, par, slot, p, i + 1)
  BY <1>2 DEF Neighbours, Shape
<1>4. /\ c \in DOMAIN files /\ d \in DOMAIN files /\ c \notin {root, extra} /\ d \notin {root, extra}
      /\ par[c] = p /\ par[d] = p /\ slot[c] = i /\ slot[d] = i + 1 /\ h[c] + 1 = h[p] /\ h[d] + 1 = h[p]
  BY <1>3 DEF ChildIs, Neighbours
<1>5. HeightOf(files, root, h, c) /\ HeightOf(files, root, h, d) BY <1>4 DEF Shape
<1>6. c # d BY <1>2, <1>4
<1>7. h[c] \in Nat /\ h[d] \in Nat /\ h[d] = h[c] /\ h[p] = h[c] + 1 /\ c # p /\ d # p
  BY <1>4, <1>5 DEF HeightOf
<1>8. c \in Ins(files) <=> d \in Ins(files) BY <1>4, <1>5, <1>7, Kinds DEF HeightOf
<1> QED BY <1>1, <1>2, <1>4, <1>6, <1>7, <1>8

LEMMA MergedShape ==
    ASSUME NEW files, NEW files2, NEW root, NEW h, NEW par, NEW slot, NEW p, NEW i, NEW c, NEW d,
           Nodes(files), Shape(files, root, NULL_PTR, h, par, slot), Neighbours(files, p, i, c, d),
           Merged(files, files2, p, i, c, d)
    PROVE  \E par2, slot2 : Shape(files2, root, NULL_PTR, h, par2, slot2)
<1> DEFINE lc == Len(files[c].ptrs)
           len == Len(files[p].ptrs)
           par2 == [x \in DOMAIN files |-> IF par[x] = d THEN c ELSE par[x]]
           slot2 == [x \in DOMAIN files |-> IF par[x] = d THEN slot[x] + lc
                                            ELSE IF par[x] = p /\ slot[x] > i + 1 THEN slot[x] - 1 ELSE slot[x]]
<1>1. /\ c \in DOMAIN files /\ d \in DOMAIN files /\ c # d /\ c # p /\ d # p
      /\ c \notin {root, NULL_PTR} /\ d \notin {root, NULL_PTR} /\ p \in DOMAIN files
      /\ par[c] = p /\ par[d] = p /\ slot[c] = i /\ slot[d] = i + 1
      /\ h[c] \in Nat /\ h[d] = h[c] /\ h[p] = h[c] + 1
      /\ (c \in Ins(files) <=> d \in Ins(files))
      /\ i \in Nat \ {0} /\ i + 1 \in 1 .. Len(files[p].ptrs) /\ i \in 1 .. Len(files[p].ptrs) /\ Len(files[p].ptrs) \in Nat
  BY NeighbourFacts
<1>2. p \in Ins(files) /\ NULL_PTR \notin DOMAIN files /\ root \in DOMAIN files BY NoNull DEF Neighbours, Shape
<1>3. /\ DOMAIN files2 = DOMAIN files \ {d} /\ Lvs(files2) = Lvs(files) \ {d} /\ Ins(files2) = Ins(files) \ {d}
      /\ \A x \in Ins(files) \ {p, c, d} : files2[x] = files[x]
  BY Kinds DEF Merged
<1>4. /\ Len(files2[p].ptrs) = len - 1
      /\ \A j \in 1 .. len - 1 : files2[p].ptrs[j] = IF j < i + 1 THEN files[p].ptrs[j] ELSE files[p].ptrs[j + 1]
  BY DEF Merged
<1>5. c \in Ins(files) =>
          /\ lc \in Nat /\ Len(files[d].ptrs) \in Nat
          /\ Len(files2[c].ptrs) = lc + Len(files[d].ptrs)
          /\ \A j \in 1 .. lc + Len(files[d].ptrs) :
                files2[c].ptrs[j] = IF j <= lc THEN files[c].ptrs[j] ELSE files[d].ptrs[j - lc]
  BY <1>1, NodeFacts DEF Merged
<1>6. \A x \in Ins(files) : \A j \in 1 .. Len(files[x].ptrs) : ChildIs(files, root, NULL_PTR, h, par, slot, x, j)
  BY DEF Shape
<1>7. ASSUME NEW x \in Ins(files2), NEW j \in 1 .. Len(files2[x].ptrs)
      PROVE  ChildIs(files2, root, NULL_PTR, h, par2, slot2, x, j)
  <2>1. x \in Ins(files) /\ x # d BY <1>3, <1>7
  <2>2. CASE x # p /\ x # c
    <3>1. files2[x] = files[x] /\ j \in 1 .. Len(files[x].ptrs) BY <2>1, <2>2, <1>3, <1>7
    <3>2. ChildIs(files, root, NULL_PTR, h, par, slot, x, j) BY <2>1, <3>1, <1>6
    <3> QED BY <2>1, <3>1, <3>2, <2>2, <1>1, <1>3 DEF ChildIs
  <2>3. CASE x = p /\ j < i + 1
    <3>1. j \in 1 .. len /\ files2[p].ptrs[j] = files[p].ptrs[j] /\ j # i + 1 /\ ~(j > i + 1)
      BY <2>3, <1>1, <1>4, <1>7
    <3>2. ChildIs(files, root, NULL_PTR, h, par, slot, p, j) BY <3>1, <1>2, <1>6
    <3> QED BY <3>1, <3>2, <2>3, <1>1, <1>3 DEF ChildIs
  <2>4. CASE x = p /\ ~(j < i + 1)
    <3>1. j + 1 \in 1 .. len /\ files2[p].ptrs[j] = files[p].ptrs[j + 1] /\ j + 1 # i + 1 /\ j + 1 > i + 1 /\ (j + 1) - 1 = j
      BY <2>4, <1>1, <1>4, <1>7
    <3>2. ChildIs(files, root, NULL_PTR, h, par, slot, p, j + 1) BY <3>1, <1>2, <1>6
    <3> QED BY <3>1, <3>2, <2>4, <1>1, <1>3 DEF ChildIs
  <2>5. CASE x = c /\ j <= lc
    <3>1. j \in 1 .. lc + Len(files[d].ptrs) /\ lc \in Nat BY <2>1, <2>5, <1>5, <1>7
    <3>2. files2[c].ptrs[j] = files[c].ptrs[j] BY <2>1, <2>5, <3>1, <1>5
    <3>3. j \in 1 .. lc
      <4> HIDE DEF lc
      <4> QED BY <2>5, <3>1
    <3>4. ChildIs(files, root, NULL_PTR, h, par, slot, c, j) BY <2>1, <2>5, <3>3, <1>6
    <3> QED BY <3>2, <3>4, <2>5, <1>1, <1>3 DEF ChildIs
  <2>6. CASE x = c /\ ~(j <= lc)
    <3>0. j \in 1 .. lc + Len(files[d].ptrs) /\ lc \in Nat /\ Len(files[d].ptrs) \in Nat
      BY <2>1, <2>6, <1>5, <1>7
    <3>1. j - lc \in 1 .. Len(files[d].ptrs) /\ files2[c].ptrs[j] = files[d].ptrs[j - lc] /\ (j - lc) + lc = j
      <4>1. files2[c].ptrs[j] = files[d].ptrs[j - lc] BY <2>1, <2>6, <3>0, <1>5
      <4> DEFINE ld == Len(files[d].ptrs)
      <4> HIDE DEF lc, ld
      <4>2. j - lc \in 1 .. ld /\ (j - lc) + lc = j
        <5>1. j \in 1 .. lc + ld /\ ld \in Nat /\ lc \in Nat BY <3>0 DEF ld
        <5> QED BY <5>1, <2>6
      <4> QED BY <4>1, <4>2 DEF ld
    <3>2. ChildIs(files, root, NULL_PTR, h, par, slot, d, j - lc) BY <2>1, <2>6, <3>1, <1>1, <1>6
    <3> QED BY <3>1, <3>2, <2>6, <1>1, <1>3 DEF ChildIs
  <2> QED BY <2>2, <2>3, <2>4, <2>5, <2>6
<1>8. ASSUME NEW x \in DOMAIN files2 \ {root, NULL_PTR} PROVE ChildOf(files2, par2, slot2, x)
  <2>1. x \in DOMAIN files /\ x # d /\ ChildOf(files, par, slot, x) BY <1>3, <1>8 DEF Shape
  <2>2. par[x] \in Ins(files) /\ slot[x] \in 1 .. Len(files[par[x]].ptrs) /\ files[par[x]].ptrs[slot[x]] = x
    BY <2>1 DEF ChildOf
  <2>3. CASE par[x] = d
    <3>1. par2[x] = c /\ slot2[x] = slot[x] + lc BY <2>1, <2>3
    <3> HIDE DEF par2, slot2
    <3>2. c \in Ins(files) /\ c \in Ins(files2) BY <2>2, <2>3, <1>1, <1>3
    <3>3. slot2[x] \in 1 .. lc + Len(files[d].ptrs) /\ ~(slot2[x] <= lc) /\ slot2[x] - lc = slot[x]
      <4> DEFINE ld == Len(files[d].ptrs)
      <4>1. lc \in Nat /\ ld \in Nat /\ slot[x] \in 1 .. ld BY <2>2, <2>3, <3>2, <1>5
      <4> HIDE DEF lc, ld
      <4>2. slot2[x] \in 1 .. lc + ld /\ ~(slot2[x] <= lc) /\ slot2[x] - lc = slot[x] BY <4>1, <3>1
      <4> QED BY <4>2 DEF ld
    <3>4. files2[c].ptrs[slot2[x]] = files[d].ptrs[slot2[x] - lc] BY <3>2, <3>3, <1>5
    <3> QED BY <3>1, <3>2, <3>3, <3>4, <2>2, <2>3, <1>5 DEF ChildOf
  <2>4. CASE par[x] = p /\ slot[x] > i + 1
    <3>1. par2[x] = p /\ slot2[x] = slot[x] - 1 BY <2>1, <2>4, <1>1
    <3> HIDE DEF par2, slot2
    <3>2. slot2[x] \in 1 .. len - 1 /\ ~(slot2[x] < i + 1) /\ slot2[x] + 1 = slot[x] BY <2>2, <2>4, <3>1, <1>1
    <3>3. files2[p].ptrs[slot2[x]] = files[p].ptrs[slot2[x] + 1] BY <3>2, <1>4
    <3> QED BY <3>1, <3>2, <3>3, <2>2, <2>4, <1>1, <1>2, <1>3, <1>4 DEF ChildOf
  <2>5. CASE par[x] = p /\ ~(slot[x] > i + 1)
    <3>1. par2[x] = p /\ slot2[x] = slot[x] BY <2>1, <2>5, <1>1
    <3> HIDE DEF par2, slot2
    <3>2. slot[x] # i + 1 BY <2>1, <2>2, <2>5 DEF Neighbours
    <3>3. slot[x] \in 1 .. len - 1 /\ slot[x] < i + 1 BY <2>2, <2>5, <3>2, <1>1
    <3> QED BY <3>1, <3>3, <2>2, <2>5, <1>1, <1>2, <1>3, <1>4 DEF ChildOf
  <2>6. CASE par[x] = c
    <3>1. par2[x] = c /\ slot2[x] = slot[x] BY <2>1, <2>6, <1>1
    <3> HIDE DEF par2, slot2
    <3>2. c \in Ins(files) /\ c \in Ins(files2) /\ slot[x] \in 1 .. lc BY <2>2, <2>6, <1>1, <1>3
    <3>3. slot[x] \in 1 .. lc + Len(files[d].ptrs) /\ slot[x] <= lc
      <4> DEFINE ld == Len(files[d].ptrs)
      <4>1. lc \in Nat /\ ld \in Nat BY <3>2, <1>5
      <4> HIDE DEF lc, ld
      <4>2. slot[x] \in 1 .. lc + ld /\ slot[x] <= lc BY <4>1, <3>2
      <4> QED BY <4>2 DEF ld
    <3> QED BY <3>1, <3>2, <3>3, <2>2, <2>6, <1>5 DEF ChildOf
  <2>7. CASE par[x] \notin {p, c, d}
    <3>1. par2[x] = par[x] /\ slot2[x] = slot[x] BY <2>1, <2>7
    <3> HIDE DEF par2, slot2
    <3> QED BY <3>1, <2>2, <2>7, <1>3 DEF ChildOf
  <2> QED BY <2>3, <2>4, <2>5, <2>6, <2>7
<1>9. ASSUME NEW x \in DOMAIN files2 PROVE HeightOf(files2, root, h, x)
  <2>1. HeightOf(files, root, h, x) /\ x # d BY <1>3, <1>9 DEF Shape
  <2> QED BY <2>1, <1>3 DEF HeightOf
<1> HIDE DEF par2, slot2
<1>10. Shape(files2, root, NULL_PTR, h, par2, slot2) BY <1>1, <1>2, <1>3, <1>7, <1>8, <1>9 DEF Shape
<1> QED BY <1>10

LEMMA RotatedShape ==
    ASSUME NEW files, NEW files2, NEW root, NEW h, NEW par, NEW slot, NEW p, NEW i, NEW c, NEW d,
           Nodes(files), Shape(files, root, NULL_PTR, h, par, slot), Neighbours(files, p, i, c, d),
           c \in Ins(files), Len(files[c].ptrs) >= 2, Rotated(files, files2, p, i, c, d)
    PROVE  \E par2, slot2 : Shape(files2, root, NULL_PTR, h, par2, slot2)
<1> DEFINE lc == Len(files[c].ptrs)
           ld == Len(files[d].ptrs)
           last == files[c].ptrs[lc]
           par2 == [x \in DOMAIN files |-> IF x = last THEN d ELSE par[x]]
           slot2 == [x \in DOMAIN files |-> IF x = last THEN 1 ELSE IF par[x] = d THEN slot[x] + 1 ELSE slot[x]]
<1>1. /\ c \in DOMAIN files /\ d \in DOMAIN files /\ c # d /\ c # p /\ d # p
      /\ h[c] \in Nat /\ h[d] = h[c] /\ h[p] = h[c] + 1 /\ p \in DOMAIN files /\ d \in Ins(files)
  BY NeighbourFacts
<1>2. p \in Ins(files) /\ NULL_PTR \notin DOMAIN files /\ root \in DOMAIN files BY NoNull DEF Neighbours, Shape
<1>3. /\ DOMAIN files2 = DOMAIN files /\ Lvs(files2) = Lvs(files) /\ Ins(files2) = Ins(files)
      /\ \A x \in Ins(files) \ {p, c, d} : files2[x] = files[x]
      /\ files2[p].ptrs = files[p].ptrs
  BY Kinds DEF Rotated
<1>4. /\ lc \in Nat /\ lc >= 2 /\ ld \in Nat
      /\ Len(files2[c].ptrs) = lc - 1 /\ \A j \in 1 .. lc - 1 : files2[c].ptrs[j] = files[c].ptrs[j]
      /\ Len(files2[d].ptrs) = ld + 1
      /\ \A j \in 1 .. ld + 1 : files2[d].ptrs[j] = IF j = 1 THEN last ELSE files[d].ptrs[j - 1]
  BY <1>1, NodeFacts DEF Rotated
<1>5. \A x \in Ins(files) : \A j \in 1 .. Len(files[x].ptrs) : ChildIs(files, root, NULL_PTR, h, par, slot, x, j)
  BY DEF Shape
<1>6. last \in DOMAIN files \ {root, NULL_PTR} /\ par[last] = c /\ slot[last] = lc /\ h[last] + 1 = h[c]
  <2>1. lc \in 1 .. Len(files[c].ptrs) BY <1>4
  <2>2. ChildIs(files, root, NULL_PTR, h, par, slot, c, lc) BY <2>1, <1>5
  <2> QED BY <2>2 DEF ChildIs
<1> HIDE DEF last
<1>7. ASSUME NEW x \in Ins(files2), NEW j \in 1 .. Len(files2[x].ptrs)
      PROVE  ChildIs(files2, root, NULL_PTR, h, par2, slot2, x, j)
  <2>1. x \in Ins(files) BY <1>3, <1>7
  <2>2. CASE x # d /\ x # c
    <3>1. files2[x].ptrs = files[x].ptrs /\ j \in 1 .. Len(files[x].ptrs) BY <2>1, <2>2, <1>3, <1>7
    <3>2. ChildIs(files, root, NULL_PTR, h, par, slot, x, j) BY <2>1, <3>1, <1>5
    <3> QED BY <3>1, <3>2, <2>2, <1>3, <1>6 DEF ChildIs
  <2>3. CASE x = c
    <3>1. j \in 1 .. lc /\ j # lc /\ files2[c].ptrs[j] = files[c].ptrs[j] BY <2>3, <1>4, <1>7
    <3>2. ChildIs(files, root, NULL_PTR, h, par, slot, c, j) BY <3>1, <1>5
    <3> QED BY <3>1, <3>2, <2>3, <1>1, <1>3, <1>6 DEF ChildIs
  <2>4. CASE x = d /\ j = 1
    <3>1. files2[d].ptrs[1] = last BY <2>4, <1>4, <1>7
    <3>2. h[last] + 1 = h[d] BY <1>1, <1>6
    <3> QED BY <3>1, <3>2, <2>4, <1>3, <1>6 DEF ChildIs
  <2>5. CASE x = d /\ j # 1
    <3>1. j - 1 \in 1 .. ld /\ files2[d].ptrs[j] = files[d].ptrs[j - 1] /\ (j - 1) + 1 = j BY <2>5, <1>4, <1>7
    <3>2. ChildIs(files, root, NULL_PTR, h, par, slot, d, j - 1) BY <3>1, <1>1, <1>5
    <3> QED BY <3>1, <3>2, <2>5, <1>1, <1>3, <1>6 DEF ChildIs
  <2> QED BY <2>2, <2>3, <2>4, <2>5
<1>8. ASSUME NEW x \in DOMAIN files2 \ {root, NULL_PTR} PROVE ChildOf(files2, par2, slot2, x)
  <2>1. x \in DOMAIN files /\ ChildOf(files, par, slot, x) BY <1>3, <1>8 DEF Shape
  <2>2. par[x] \in Ins(files) /\ slot[x] \in 1 .. Len(files[par[x]].ptrs) /\ files[par[x]].ptrs[slot[x]] = x
    BY <2>1 DEF ChildOf
  <2>3. CASE x = last
    <3>1. par2[x] = d /\ slot2[x] = 1 BY <2>1, <2>3
    <3> HIDE DEF par2, slot2
    <3>2. 1 \in 1 .. ld + 1 /\ files2[d].ptrs[1] = last BY <1>4
    <3> QED BY <3>1, <3>2, <2>3, <1>1, <1>3, <1>4 DEF ChildOf
  <2>4. CASE x # last /\ par[x] = d
    <3>1. par2[x] = d /\ slot2[x] = slot[x] + 1 BY <2>1, <2>4
    <3> HIDE DEF par2, slot2
    <3>2. slot2[x] \in 1 .. ld + 1 /\ slot2[x] # 1 /\ slot2[x] - 1 = slot[x] BY <3>1, <2>2, <2>4, <1>4
    <3>3. files2[d].ptrs[slot2[x]] = files[d].ptrs[slot2[x] - 1] BY <3>2, <1>4
    <3> QED BY <3>1, <3>2, <3>3, <2>2, <2>4, <1>1, <1>3, <1>4 DEF ChildOf
  <2>5. CASE x # last /\ par[x] = c
    <3>1. par2[x] = c /\ slot2[x] = slot[x] BY <2>1, <2>5, <1>1
    <3> HIDE DEF par2, slot2
    <3>2. slot[x] # lc BY <2>2, <2>5 DEF last
    <3>3. slot[x] \in 1 .. lc - 1 BY <2>2, <2>5, <3>2, <1>4
    <3> QED BY <3>1, <3>3, <2>2, <2>5, <1>3, <1>4 DEF ChildOf
  <2>6. CASE x # last /\ par[x] \notin {c, d}
    <3>1. par2[x] = par[x] /\ slot2[x] = slot[x] BY <2>1, <2>6
    <3> HIDE DEF par2, slot2
    <3>2. files2[par[x]].ptrs = files[par[x]].ptrs BY <2>2, <2>6, <1>3
    <3> QED BY <3>1, <3>2, <2>2, <1>3 DEF ChildOf
  <2> QED BY <2>3, <2>4, <2>5, <2>6
<1>9. \A x \in DOMAIN files2 : HeightOf(files2, root, h, x) BY <1>3 DEF Shape, HeightOf
<1> HIDE DEF par2, slot2
<1>10. Shape(files2, root, NULL_PTR, h, par2, slot2) BY <1>2, <1>3, <1>7, <1>8, <1>9 DEF Shape
<1> QED BY <1>10

LEMMA ShrunkShape ==
    ASSUME NEW files, NEW files2, NEW root \in Ins(files), NEW h, NEW par, NEW slot,
           Nodes(files), Shape(files, root, NULL_PTR, h, par, slot),
           Len(files[root].ptrs) = 1, Shrunk(files, files2, root)
    PROVE  Shape(files2, files[root].ptrs[1], NULL_PTR, h, par, slot)
<1> DEFINE top == files[root].ptrs[1]
<1>1. \A x \in Ins(files) : \A j \in 1 .. Len(files[x].ptrs) : ChildIs(files, root, NULL_PTR, h, par, slot, x, j)
  BY DEF Shape
<1>2. top \in DOMAIN files \ {root, NULL_PTR} /\ par[top] = root /\ h[top] + 1 = h[root]
  <2>1. ChildIs(files, root, NULL_PTR, h, par, slot, root, 1) BY <1>1
  <2> QED BY <2>1 DEF ChildIs
<1> HIDE DEF top
<1>3. /\ DOMAIN files2 = DOMAIN files \ {root} /\ Lvs(files2) = Lvs(files) /\ Ins(files2) = Ins(files) \ {root}
      /\ \A x \in Ins(files) \ {root} : files2[x] = files[x]
  BY Kinds DEF Shrunk
<1>4. ASSUME NEW x \in DOMAIN files \ {root, NULL_PTR}
      PROVE  /\ ChildOf(files, par, slot, x) /\ h[x] + 1 = h[par[x]] /\ h[par[x]] <= h[root]
             /\ (par[x] = root => x = top)
  <2>1. ChildOf(files, par, slot, x) BY <1>4 DEF Shape
  <2>2. ChildIs(files, root, NULL_PTR, h, par, slot, par[x], slot[x]) /\ par[x] \in DOMAIN files
    BY <2>1, <1>1, Kinds DEF ChildOf
  <2>3. h[x] + 1 = h[par[x]] BY <2>1, <2>2 DEF ChildOf, ChildIs
  <2>4. h[par[x]] <= h[root] BY <2>2 DEF Shape, HeightOf
  <2>5. par[x] = root => x = top BY <2>1 DEF ChildOf, top
  <2> QED BY <2>1, <2>3, <2>4, <2>5
<1>5. ASSUME NEW x \in Ins(files2), NEW j \in 1 .. Len(files2[x].ptrs)
      PROVE  ChildIs(files2, top, NULL_PTR, h, par, slot, x, j)
  <2>1. x \in Ins(files) \ {root} /\ files2[x] = files[x] /\ ChildIs(files, root, NULL_PTR, h, par, slot, x, j)
    BY <1>1, <1>3, <1>5
  <2> QED BY <2>1, <1>2, <1>3 DEF ChildIs
<1>6. ASSUME NEW x \in DOMAIN files2 \ {top, NULL_PTR} PROVE ChildOf(files2, par, slot, x)
  <2>1. ChildOf(files, par, slot, x) /\ par[x] # root BY <1>3, <1>4, <1>6
  <2> QED BY <2>1, <1>3 DEF ChildOf
<1>7. ASSUME NEW x \in DOMAIN files2 PROVE HeightOf(files2, top, h, x)
  <2>1. HeightOf(files, root, h, x) /\ HeightOf(files, root, h, root) /\ x \in DOMAIN files \ {root, NULL_PTR}
    BY <1>3, <1>7, NoNull DEF Shape
  <2>2. h[x] <= h[top]
    <3>1. h[x] + 1 = h[par[x]] /\ h[par[x]] <= h[root] BY <1>4, <2>1
    <3>2. HeightOf(files, root, h, top) BY <1>2 DEF Shape
    <3>3. h[x] \in Nat /\ h[top] \in Nat /\ h[root] \in Nat BY <2>1, <3>2 DEF HeightOf
    <3> QED BY <3>1, <3>3, <1>2
  <2> QED BY <2>1, <2>2, <1>3 DEF HeightOf
<1>8. Shape(files2, top, NULL_PTR, h, par, slot) BY <1>2, <1>3, <1>5, <1>6, <1>7 DEF Shape
<1> QED BY <1>8 DEF top

-----------------------------------------------------------------------------
(* The path *)

LEMMA Heights ==
    ASSUME NEW files, NEW root, NEW extra, NEW h, NEW par, NEW slot, Shape(files, root, extra, h, par, slot)
    PROVE  /\ root \in DOMAIN files /\ h[root] \in Nat
           /\ \A n \in DOMAIN files : h[n] \in Nat /\ h[n] <= h[root] /\ (h[n] = 0 <=> n \in Lvs(files))
BY DEF Shape, HeightOf

LEMMA ChildFacts ==
    ASSUME NEW files, NEW root, NEW extra, NEW h, NEW par, NEW slot, Shape(files, root, extra, h, par, slot),
           NEW n \in Ins(files), NEW i \in 1 .. Len(files[n].ptrs)
    PROVE  LET c == files[n].ptrs[i]
           IN  /\ c \in DOMAIN files /\ n \in DOMAIN files /\ c \notin {root, extra} /\ par[c] = n /\ slot[c] = i
               /\ h[c] \in Nat /\ h[n] \in Nat /\ h[n] = h[c] + 1 /\ c # n
<1>1. ChildIs(files, root, extra, h, par, slot, n, i) /\ n \in DOMAIN files BY Kinds DEF Shape
<1> DEFINE c == files[n].ptrs[i]
<1>2. c \in DOMAIN files /\ c \notin {root, extra} /\ par[c] = n /\ slot[c] = i /\ h[c] + 1 = h[n]
  BY <1>1 DEF ChildIs
<1> HIDE DEF c
<1>3. h[c] \in Nat /\ h[n] \in Nat BY <1>1, <1>2, Heights
<1>4. h[n] = h[c] + 1 /\ c # n BY <1>2, <1>3
<1> QED BY <1>1, <1>2, <1>3, <1>4 DEF c

LEMMA LastFrame ==
    ASSUME NEW files, NEW root, NEW extra, NEW h, NEW par, NEW slot, Shape(files, root, extra, h, par, slot),
           NEW p \in Seq(Frames), NEW c, Stack(files, root, p, c, h), p # <<>>
    PROVE  /\ Len(p) \in Nat \ {0} /\ p[Len(p)].node \in Ins(files) /\ p[Len(p)].node \in DOMAIN files
           /\ p[Len(p)].index \in 1 .. Len(files[p[Len(p)].node].ptrs)
           /\ files[p[Len(p)].node].ptrs[p[Len(p)].index] = c
           /\ h[p[Len(p)].node] = h[c] + 1
           /\ c # root
<1>1. Len(p) \in Nat /\ Len(p) # 0 BY LenProperties, EmptySeq
<1>2. FrameOf(files, root, p, c, h, Len(p)) /\ h[c] = h[root] - Len(p) BY <1>1 DEF Stack
<1>3. Step(p, c, Len(p) + 1) = c BY <1>1 DEF Step
<1>4. h[root] \in Nat BY Heights
<1>5. h[p[Len(p)].node] = h[c] + 1
  <2> DEFINE l == Len(p)
             x == h[p[l].node]
  <2>1. x = h[root] - l + 1 /\ l \in Nat /\ h[c] = h[root] - l BY <1>1, <1>2 DEF FrameOf
  <2> HIDE DEF x, l
  <2>2. x = h[c] + 1 BY <2>1, <1>4
  <2> QED BY <2>2 DEF x, l
<1>6. c # root
  <2> DEFINE l == Len(p)
  <2>1. l \in Nat /\ l # 0 /\ h[c] = h[root] - l BY <1>1, <1>2
  <2> HIDE DEF l
  <2> QED BY <2>1, <1>4
<1> QED BY <1>1, <1>2, <1>3, <1>5, <1>6, Kinds DEF FrameOf

LEMMA StackStart ==
    ASSUME NEW files, NEW root, NEW extra, NEW h, NEW par, NEW slot, Shape(files, root, extra, h, par, slot)
    PROVE  Stack(files, root, <<>>, root, h)
<1>1. Len(<<>>) = 0 BY EmptySeq
<1>2. h[root] \in Nat /\ root \in DOMAIN files BY Heights
<1> QED BY <1>1, <1>2 DEF Stack, Step

\* A change that spares the nodes above c.
LEMMA StackSame ==
    ASSUME NEW files, NEW files2, NEW root, NEW extra, NEW h, NEW h2, NEW par, NEW slot,
           Shape(files, root, extra, h, par, slot),
           NEW p \in Seq(Frames), NEW c, Stack(files, root, p, c, h),
           \A x \in Ins(files) : h[x] > h[c] => x \in Ins(files2) /\ files2[x].ptrs = files[x].ptrs,
           \A x \in DOMAIN files : h2[x] = h[x],
           c \in DOMAIN files2
    PROVE  Stack(files2, root, p, c, h2)
<1>1. Len(p) \in Nat /\ h[root] \in Nat /\ root \in DOMAIN files BY LenProperties, Heights
<1>2. c \in DOMAIN files /\ Step(p, c, 1) = root /\ h[c] = h[root] - Len(p) BY DEF Stack
<1>3. ASSUME NEW i \in 1 .. Len(p) PROVE FrameOf(files2, root, p, c, h2, i)
  <2>1. FrameOf(files, root, p, c, h, i) BY DEF Stack
  <2>2. p[i].node \in Ins(files) /\ p[i].node \in DOMAIN files /\ h[p[i].node] = h[root] - i + 1
    BY <2>1, Kinds DEF FrameOf
  <2>3. h[p[i].node] > h[c] BY <2>2, <1>1, <1>2
  <2>4. p[i].node \in Ins(files2) /\ files2[p[i].node].ptrs = files[p[i].node].ptrs BY <2>2, <2>3
  <2> QED BY <2>1, <2>2, <2>4, <1>1 DEF FrameOf
<1> QED BY <1>1, <1>2, <1>3 DEF Stack

LEMMA FrontOfPath ==
    ASSUME NEW p \in Seq(Frames), p # <<>>
    PROVE  /\ Len(p) \in Nat \ {0} /\ Front(p) \in Seq(Frames) /\ Len(Front(p)) = Len(p) - 1
           /\ \A j \in 1 .. Len(p) - 1 : Front(p)[j] = p[j]
BY FrontIs

\* A change that spares the nodes above the parent of c.
LEMMA StackUp ==
    ASSUME NEW files, NEW files2, NEW root, NEW extra, NEW h, NEW h2, NEW par, NEW slot,
           Shape(files, root, extra, h, par, slot),
           NEW p \in Seq(Frames), NEW c, Stack(files, root, p, c, h), p # <<>>,
           \A x \in Ins(files) : h[x] > h[c] + 1 => x \in Ins(files2) /\ files2[x].ptrs = files[x].ptrs,
           \A x \in DOMAIN files : h2[x] = h[x],
           p[Len(p)].node \in DOMAIN files2
    PROVE  Stack(files2, root, Front(p), p[Len(p)].node, h2)
<1> DEFINE q == Front(p)
           l == Len(p)
           b == p[l].node
<1>1. l \in Nat \ {0} /\ q \in Seq(Frames) /\ Len(q) = l - 1 /\ \A j \in 1 .. l - 1 : q[j] = p[j] BY FrontOfPath
<1>2. h[root] \in Nat /\ root \in DOMAIN files /\ b \in DOMAIN files /\ h[b] = h[c] + 1 BY Heights, LastFrame
<1>3. c \in DOMAIN files /\ Step(p, c, 1) = root /\ h[c] = h[root] - l BY DEF Stack
<1> HIDE DEF q, l
<1>4. \A j \in 1 .. l : Step(q, b, j) = Step(p, c, j)
  <2> SUFFICES ASSUME NEW j \in 1 .. l PROVE Step(q, b, j) = Step(p, c, j) OBVIOUS
  <2>1. CASE j = l BY <2>1, <1>1 DEF Step, l
  <2>2. CASE j < l
    <3>1. j \in 1 .. l - 1 /\ j <= Len(q) /\ j <= Len(p) BY <2>2, <1>1 DEF l
    <3> QED BY <3>1, <1>1 DEF Step
  <2> QED BY <2>1, <2>2, <1>1
<1>5. ASSUME NEW i \in 1 .. Len(q) PROVE FrameOf(files2, root, q, b, h2, i)
  <2>1. i \in 1 .. l - 1 /\ i \in 1 .. Len(p) /\ i + 1 \in 1 .. l BY <1>1 DEF l
  <2>2. FrameOf(files, root, p, c, h, i) /\ q[i] = p[i] BY <2>1, <1>1 DEF Stack
  <2>3. p[i].node \in Ins(files) /\ p[i].node \in DOMAIN files /\ h[p[i].node] = h[root] - i + 1
    BY <2>2, Kinds DEF FrameOf
  <2>4. h[p[i].node] > h[c] + 1 BY <2>1, <2>3, <1>1, <1>2, <1>3
  <2>5. p[i].node \in Ins(files2) /\ files2[p[i].node].ptrs = files[p[i].node].ptrs BY <2>3, <2>4
  <2>6. Step(q, b, i + 1) = Step(p, c, i + 1) BY <2>1, <1>4
  <2>7. h2[p[i].node] = h[p[i].node] /\ h2[root] = h[root] BY <2>3, <1>2
  <2> QED BY <2>2, <2>5, <2>6, <2>7 DEF FrameOf
<1>6. b \in DOMAIN files2 BY DEF l
<1>7. Step(q, b, 1) = root BY <1>1, <1>3, <1>4
<1>8. h2[b] = h2[root] - Len(q) BY <1>1, <1>2, <1>3
<1>9. Stack(files2, root, q, b, h2) BY <1>5, <1>6, <1>7, <1>8 DEF Stack
<1> QED BY <1>9 DEF q, l

LEMMA StackDown ==
    ASSUME NEW files, NEW root, NEW extra, NEW h, NEW par, NEW slot, Shape(files, root, extra, h, par, slot),
           NEW p \in Seq(Frames), NEW c \in Ins(files), Stack(files, root, p, c, h),
           NEW i \in 1 .. Len(files[c].ptrs), [node |-> c, index |-> i] \in Frames
    PROVE  Stack(files, root, Append(p, [node |-> c, index |-> i]), files[c].ptrs[i], h)
<1> DEFINE f == [node |-> c, index |-> i]
           q == Append(p, f)
           b == files[c].ptrs[i]
           l == Len(p)
<1>1. l \in Nat /\ q \in Seq(Frames) /\ Len(q) = l + 1 /\ q[l + 1] = f /\ \A j \in 1 .. l : q[j] = p[j]
  BY AppendProperties, LenProperties
<1>2. f.node = c /\ f.index = i OBVIOUS
<1>3. h[root] \in Nat /\ root \in DOMAIN files BY Heights
<1>4. ChildIs(files, root, extra, h, par, slot, c, i) BY DEF Shape
<1>5. b \in DOMAIN files /\ h[b] + 1 = h[c] /\ h[b] \in Nat BY <1>4, Heights DEF ChildIs
<1>6. Step(p, c, 1) = root /\ h[c] = h[root] - l BY DEF Stack
<1> HIDE DEF q, f, b
<1>7. \A j \in 1 .. l + 1 : Step(q, b, j) = Step(p, c, j)
  <2> SUFFICES ASSUME NEW j \in 1 .. l + 1 PROVE Step(q, b, j) = Step(p, c, j) OBVIOUS
  <2>1. CASE j = l + 1 BY <2>1, <1>1, <1>2 DEF Step
  <2>2. CASE j # l + 1
    <3>1. j \in 1 .. l /\ j <= l + 1 /\ j <= l BY <2>2, <1>1
    <3> QED BY <3>1, <1>1 DEF Step
  <2> QED BY <2>1, <2>2
<1>8. ASSUME NEW j \in 1 .. Len(q) PROVE FrameOf(files, root, q, b, h, j)
  <2>1. CASE j = l + 1
    <3>1. q[j] = f /\ Step(q, b, j + 1) = b BY <2>1, <1>1 DEF Step
    <3>2. h[c] = h[root] - j + 1 BY <2>1, <1>1, <1>3, <1>6
    <3> QED BY <3>1, <3>2, <1>2 DEF FrameOf, b
  <2>2. CASE j # l + 1
    <3>1. j \in 1 .. l /\ j + 1 \in 1 .. l + 1 BY <2>2, <1>1
    <3>2. FrameOf(files, root, p, c, h, j) /\ q[j] = p[j] /\ Step(q, b, j + 1) = Step(p, c, j + 1)
      BY <3>1, <1>1, <1>7 DEF Stack
    <3> QED BY <3>2 DEF FrameOf
  <2> QED BY <2>1, <2>2
<1>9. Step(q, b, 1) = root /\ h[b] = h[root] - Len(q) BY <1>1, <1>3, <1>5, <1>6, <1>7
<1>10. Stack(files, root, q, b, h) BY <1>5, <1>8, <1>9 DEF Stack
<1> QED BY <1>10 DEF q, f, b

-----------------------------------------------------------------------------
(* Where a key is *)

\* How many keys of a node pass a test that only small keys pass tells which
\* ones they are.
LEMMA ChildIndexIs ==
    ASSUME NEW keys \in Seq(Nat), Sorted(keys), NEW k \in Nat
    PROVE  LET i == Cardinality({j \in DOMAIN keys : keys[j] < k}) + 1
           IN  /\ i \in 1 .. Len(keys) + 1
               /\ i > 1 => keys[i - 1] < k
               /\ i <= Len(keys) => k <= keys[i]
<1> DEFINE len == Len(keys)
           S == {j \in DOMAIN keys : keys[j] < k}
           n == Cardinality(S)
<1>1. len \in Nat /\ DOMAIN keys = 1 .. len /\ \A j \in 1 .. len : keys[j] \in Nat BY LenProperties
<1>2. S \in SUBSET (1 .. len) BY <1>1
<1>3. \A i \in S : \A j \in 1 .. i : j \in S
  <2> SUFFICES ASSUME NEW i \in S, NEW j \in 1 .. i PROVE j \in S OBVIOUS
  <2>1. i \in 1 .. len /\ j \in 1 .. len /\ keys[i] < k BY <1>1
  <2>2. j = i \/ keys[j] < keys[i] BY <2>1 DEF Sorted
  <2> QED BY <1>1, <2>1, <2>2
<1>4. n \in 0 .. len /\ S = 1 .. n
  <2> HIDE DEF S, len
  <2> QED BY <1>1, <1>2, <1>3, InitialSegment
<1> HIDE DEF n
<1>5. \A j \in 1 .. len : j <= n <=> keys[j] < k BY <1>1, <1>4
<1>6. n > 0 => keys[n] < k BY <1>1, <1>4, <1>5
<1>7. n + 1 <= len => k <= keys[n + 1]
  <2> SUFFICES ASSUME n + 1 <= len PROVE k <= keys[n + 1] OBVIOUS
  <2>1. n + 1 \in 1 .. len /\ ~(n + 1 <= n) BY <1>1, <1>4
  <2>2. ~(keys[n + 1] < k) /\ keys[n + 1] \in Nat BY <2>1, <1>1, <1>5
  <2> QED BY <2>2
<1>8. n + 1 \in 1 .. len + 1 /\ (n + 1) - 1 = n /\ (n + 1 > 1 => n > 0) BY <1>1, <1>4
<1> QED BY <1>6, <1>7, <1>8 DEF n

\* The place of k among the keys, when it is known between which two it is.
LEMMA UpperBoundIs ==
    ASSUME NEW keys \in Seq(Nat), Sorted(keys), NEW k \in Nat, NEW i \in 1 .. Len(keys) + 1,
           i > 1 => keys[i - 1] < k, i <= Len(keys) => k < keys[i]
    PROVE  UpperBound(keys, k) = i
<1> DEFINE len == Len(keys)
           S == {j \in DOMAIN keys : keys[j] <= k}
<1>1. len \in Nat /\ DOMAIN keys = 1 .. len /\ \A j \in 1 .. len : keys[j] \in Nat BY LenProperties
<1>2. \A a, b \in 1 .. len : a < b => keys[a] < keys[b] BY DEF Sorted
<1>3. i \in 1 .. len + 1 /\ i - 1 \in Nat BY <1>1
<1>4. ASSUME NEW j \in 1 .. len, j <= i - 1 PROVE keys[j] <= k
  <2>1. i - 1 \in 1 .. len /\ i > 1 /\ (j = i - 1 \/ j < i - 1) BY <1>1, <1>3, <1>4
  <2>2. keys[i - 1] < k /\ (j = i - 1 \/ keys[j] < keys[i - 1]) BY <2>1, <1>2
  <2> QED BY <2>1, <2>2, <1>1
<1>5. ASSUME NEW j \in 1 .. len, ~(j <= i - 1) PROVE ~(keys[j] <= k)
  <2>1. i \in 1 .. len /\ i <= Len(keys) /\ (j = i \/ i < j) BY <1>1, <1>3, <1>5
  <2>2. k < keys[i] /\ (j = i \/ keys[i] < keys[j]) BY <2>1, <1>2
  <2> QED BY <2>1, <2>2, <1>1
<1>6. S = 1 .. i - 1
  <2>1. \A j \in S : j \in 1 .. i - 1 BY <1>1, <1>3, <1>5
  <2>2. \A j \in 1 .. i - 1 : j \in S BY <1>1, <1>3, <1>4
  <2> QED BY <2>1, <2>2
<1>7. Cardinality(S) = i - 1
  <2> HIDE DEF S
  <2> QED BY <1>3, <1>6, FS_Interval
<1> QED BY <1>1, <1>3, <1>7 DEF UpperBound
-----------------------------------------------------------------------------
(* Bounds *)

\* The bounds of the nodes on the way to k may be widened to hold k.
LEMMA WidenedBounds ==
    ASSUME NEW files, NEW root, NEW extra, NEW h, NEW par, NEW slot, Shape(files, root, extra, h, par, slot),
           Nodes(files), NEW p \in Seq(Frames), NEW c, Stack(files, root, p, c, h),
           NEW lo, NEW hi, Bounds(files, lo, hi), NEW k \in Nat, Routed(files, p, k)
    PROVE  \E lo2, hi2 : Bounds(files, lo2, hi2) /\ lo2[c] < k /\ k <= hi2[c]
<1> DEFINE On == {Step(p, c, j) : j \in 1 .. Len(p) + 1}
           lo2 == [n \in DOMAIN files |-> IF n \in On /\ lo[n] > k - 1 THEN k - 1 ELSE lo[n]]
           hi2 == [n \in DOMAIN files |-> IF n \in On /\ hi[n] < k THEN k ELSE hi[n]]
<1>1. Len(p) \in Nat /\ c \in DOMAIN files /\ Step(p, c, 1) = root BY LenProperties DEF Stack
<1>2. c \in On
  <2>1. Len(p) + 1 \in 1 .. Len(p) + 1 /\ Step(p, c, Len(p) + 1) = c BY <1>1 DEF Step
  <2> QED BY <2>1
<1>3. \A n \in DOMAIN files : lo[n] \in Int /\ hi[n] \in Int /\ lo[n] < hi[n] BY DEF Bounds, Bounded
<1>4. ASSUME NEW n \in Ins(files), NEW i \in 1 .. Len(files[n].ptrs), files[n].ptrs[i] \in On
      PROVE  /\ n \in On
             /\ i > 1 => files[n].keys[i - 1] < k
             /\ i <= Len(files[n].keys) => k <= files[n].keys[i]
  <2> DEFINE x == files[n].ptrs[i]
  <2>1. PICK j \in 1 .. Len(p) + 1 : x = Step(p, c, j) BY <1>4
  <2>2. ChildIs(files, root, extra, h, par, slot, n, i) BY DEF Shape
  <2>3. x # root /\ par[x] = n /\ slot[x] = i BY <2>2 DEF ChildIs
  <2>4. j - 1 \in 1 .. Len(p) /\ (j - 1) + 1 = j BY <2>1, <2>3, <1>1
  <2> DEFINE f == p[j - 1]
  <2>5. FrameOf(files, root, p, c, h, j - 1) BY <2>4 DEF Stack
  <2>6. f.node \in Ins(files) /\ f.index \in 1 .. Len(files[f.node].ptrs) /\ files[f.node].ptrs[f.index] = x
    BY <2>1, <2>4, <2>5 DEF FrameOf
  <2>7. ChildIs(files, root, extra, h, par, slot, f.node, f.index) BY <2>6 DEF Shape
  <2>8. f.node = n /\ f.index = i BY <2>3, <2>6, <2>7 DEF ChildIs
  <2>9. Step(p, c, j - 1) = n /\ j - 1 \in 1 .. Len(p) + 1 BY <2>4, <2>8, <1>1 DEF Step
  <2>10. n \in On BY <2>9
  <2> QED BY <2>4, <2>8, <2>10 DEF Routed
<1> HIDE DEF On
<1>5. ASSUME NEW n \in DOMAIN files
      PROVE  /\ lo2[n] \in Int /\ hi2[n] \in Int /\ lo2[n] < hi2[n] /\ lo2[n] <= lo[n] /\ hi[n] <= hi2[n]
             /\ n \notin On => lo2[n] = lo[n] /\ hi2[n] = hi[n]
             /\ n \in On => lo2[n] < k /\ k <= hi2[n] /\ lo2[n] \in {lo[n], k - 1} /\ hi2[n] \in {hi[n], k}
  <2>1. lo[n] \in Int /\ hi[n] \in Int /\ lo[n] < hi[n] BY <1>3
  <2>2. lo2[n] = IF n \in On /\ lo[n] > k - 1 THEN k - 1 ELSE lo[n] OBVIOUS
  <2>3. hi2[n] = IF n \in On /\ hi[n] < k THEN k ELSE hi[n] OBVIOUS
  <2> HIDE DEF lo2, hi2
  <2> QED BY <2>1, <2>2, <2>3
<1> HIDE DEF lo2, hi2
<1>6. ASSUME NEW n \in Ins(files), NEW i \in 1 .. Len(files[n].ptrs)
      PROVE  SlotFits(files, lo2, hi2, n, i, files[n].ptrs[i])
  <2> DEFINE x == files[n].ptrs[i]
  <2>1. x \in DOMAIN files /\ n \in DOMAIN files BY ChildFacts
  <2>2. /\ lo[n] <= lo[x] /\ hi[x] <= hi[n]
        /\ i > 1 => files[n].keys[i - 1] <= lo[x]
        /\ i <= Len(files[n].keys) => hi[x] <= files[n].keys[i]
    BY DEF Bounds, SlotFits
  <2>3. lo[n] \in Int /\ hi[n] \in Int /\ lo[x] \in Int /\ hi[x] \in Int BY <2>1, <1>3
  <2>4. CASE x \notin On
    <3>1. lo2[x] = lo[x] /\ hi2[x] = hi[x] BY <2>1, <2>4, <1>5
    <3>2. lo2[n] <= lo[n] /\ hi[n] <= hi2[n] /\ lo2[n] \in Int /\ hi2[n] \in Int BY <2>1, <1>5
    <3>3. lo2[n] <= lo2[x] /\ hi2[x] <= hi2[n] BY <3>1, <3>2, <2>2, <2>3
    <3> QED BY <3>1, <3>3, <2>2 DEF SlotFits
  <2>5. CASE x \in On
    <3>1. n \in On /\ (i > 1 => files[n].keys[i - 1] < k) /\ (i <= Len(files[n].keys) => k <= files[n].keys[i])
      BY <2>5, <1>4
    <3>2. lo2[x] \in {lo[x], k - 1} /\ hi2[x] \in {hi[x], k} /\ lo2[n] < k /\ k <= hi2[n]
      BY <2>1, <2>5, <3>1, <1>5
    <3>3. lo2[n] <= lo[n] /\ hi[n] <= hi2[n] /\ lo2[n] \in Int /\ hi2[n] \in Int BY <2>1, <1>5
    <3>4. lo2[n] <= lo2[x]
      <4>1. CASE lo2[x] = lo[x] BY <4>1, <3>3, <2>2, <2>3
      <4>2. CASE lo2[x] = k - 1 BY <4>2, <3>2, <3>3
      <4> QED BY <4>1, <4>2, <3>2
    <3>7. hi2[x] <= hi2[n]
      <4>1. CASE hi2[x] = hi[x] BY <4>1, <3>3, <2>2, <2>3
      <4>2. CASE hi2[x] = k BY <4>2, <3>2
      <4> QED BY <4>1, <4>2, <3>2
    <3>5. i > 1 => files[n].keys[i - 1] <= lo2[x]
      <4> SUFFICES ASSUME i > 1 PROVE files[n].keys[i - 1] <= lo2[x] OBVIOUS
      <4>1. files[n].keys[i - 1] \in Nat
        <5>1. i - 1 \in 1 .. Len(files[n].keys) BY NodeFacts
        <5> QED BY <5>1, NodeFacts
      <4> QED BY <4>1, <2>2, <3>1, <3>2
    <3>6. i <= Len(files[n].keys) => hi2[x] <= files[n].keys[i] BY <2>2, <3>1, <3>2
    <3> QED BY <3>4, <3>5, <3>6, <3>7 DEF SlotFits
  <2> QED BY <2>4, <2>5
<1>7. ASSUME NEW n \in Lvs(files) PROVE Contained(files, lo2, hi2, n)
  <2>1. n \in DOMAIN files /\ Contained(files, lo, hi, n) BY Kinds DEF Bounds
  <2>2. DOMAIN files[n].data \subseteq Nat BY LeafFacts
  <2>3. lo[n] \in Int /\ hi[n] \in Int /\ lo2[n] \in Int /\ hi2[n] \in Int /\ lo2[n] <= lo[n] /\ hi[n] <= hi2[n]
    BY <2>1, <1>3, <1>5
  <2> QED BY <2>1, <2>2, <2>3 DEF Contained
<1>8. \A n \in DOMAIN files : Bounded(lo2, hi2, n) BY <1>5 DEF Bounded
<1>9. \A n \in Ins(files) : Sorted(files[n].keys) BY DEF Bounds
<1>10. Bounds(files, lo2, hi2) BY <1>6, <1>7, <1>8, <1>9 DEF Bounds
<1> QED BY <1>1, <1>2, <1>5, <1>10

\* A change of the leaves within their bounds.
LEMMA SameBounds ==
    ASSUME NEW files, NEW files2, NEW lo, NEW hi, Bounds(files, lo, hi),
           DOMAIN files2 = DOMAIN files, Lvs(files2) = Lvs(files), Ins(files2) = Ins(files),
           \A n \in Ins(files) : files2[n] = files[n],
           \A n \in Lvs(files) : Contained(files2, lo, hi, n)
    PROVE  Bounds(files2, lo, hi)
BY DEF Bounds, SlotFits

LEMMA KidsFact ==
    ASSUME NEW files, NEW root, NEW extra, NEW h, NEW par, NEW slot, Shape(files, root, extra, h, par, slot)
    PROVE  Kids(files)
BY ChildFacts DEF Kids

LEMMA LeafAddedBounds ==
    ASSUME NEW files, NEW files2, NEW lo, NEW hi, NEW c \in Lvs(files), NEW new, NEW k \in Int, NEW m \in Int,
           Nodes(files), Bounds(files, lo, hi), LeafAdded(files, files2, new), lo[c] < k, k <= hi[c],
           Kids(files), Parted(files, files2, c, new, k), Cut(files2, c, new, m)
    PROVE  \E lo2, hi2 : Bounds(files2, lo2, hi2) /\ Beside(files2, lo2, hi2, c, new)
<1>0. /\ \A n \in Ins(files) : \A i \in 1 .. Len(files[n].ptrs) : files[n].ptrs[i] \in DOMAIN files
      /\ \A n \in Lvs(files) \ {c} : files2[n] = files[n]
      /\ DOMAIN files2[c].data \subseteq DOMAIN files[c].data \cup {k}
      /\ DOMAIN files2[new].data \subseteq DOMAIN files[c].data \cup {k}
      /\ m \in DOMAIN files2[c].data /\ DOMAIN files2[new].data # {}
      /\ \A x \in DOMAIN files2[c].data : x <= m
      /\ \A x \in DOMAIN files2[new].data : m < x
  BY DEF Kids, Parted, Cut
<1> USE <1>0
<1> DEFINE lo2 == [n \in DOMAIN files2 |-> IF n = new THEN m ELSE lo[n]]
           hi2 == [n \in DOMAIN files2 |-> IF n = new THEN hi[c] ELSE IF n = c THEN m ELSE hi[n]]
           all == DOMAIN files[c].data \cup {k}
<1>1. /\ new \notin DOMAIN files /\ DOMAIN files2 = DOMAIN files \cup {new}
      /\ Lvs(files2) = Lvs(files) \cup {new} /\ Ins(files2) = Ins(files)
      /\ \A n \in Ins(files) : files2[n] = files[n]
  BY DEF LeafAdded
<1>2. c \in DOMAIN files /\ c # new BY <1>1, LeafFacts
<1>3. /\ lo2[new] = m /\ hi2[new] = hi[c] /\ lo2[c] = lo[c] /\ hi2[c] = m
      /\ \A n \in DOMAIN files \ {c} : lo2[n] = lo[n] /\ hi2[n] = hi[n]
  BY <1>1, <1>2
<1> HIDE DEF lo2, hi2
<1>4. \A n \in DOMAIN files : lo[n] \in Int /\ hi[n] \in Int /\ lo[n] < hi[n] BY DEF Bounds, Bounded
<1>5. all \subseteq Int /\ \A x \in all : lo[c] < x /\ x <= hi[c]
  <2>1. DOMAIN files[c].data \subseteq Int BY LeafFacts
  <2>2. Contained(files, lo, hi, c) BY DEF Bounds
  <2> QED BY <2>1, <2>2 DEF Contained
<1>6. lo[c] < m /\ m < hi[c]
  <2>1. m \in all OBVIOUS
  <2>2. PICK y \in DOMAIN files2[new].data : m < y /\ y \in all OBVIOUS
  <2> QED BY <2>1, <2>2, <1>2, <1>4, <1>5
<1>7. ASSUME NEW n \in DOMAIN files2 PROVE Bounded(lo2, hi2, n)
  BY <1>1, <1>2, <1>3, <1>4, <1>6, <1>7 DEF Bounded
<1>8. ASSUME NEW n \in Lvs(files2) PROVE Contained(files2, lo2, hi2, n)
  <2>1. CASE n = c BY <2>1, <1>3, <1>5 DEF Contained
  <2>2. CASE n = new BY <2>2, <1>3, <1>5 DEF Contained
  <2>3. CASE n \notin {c, new}
    <3>1. n \in Lvs(files) /\ n \in DOMAIN files /\ files2[n] = files[n] BY <2>3, <1>1, <1>8, Kinds
    <3>2. Contained(files, lo, hi, n) BY <3>1 DEF Bounds
    <3> QED BY <3>1, <3>2, <2>3, <1>3 DEF Contained
  <2> QED BY <2>1, <2>2, <2>3
<1>9. ASSUME NEW n \in Ins(files2), NEW i \in 1 .. Len(files2[n].ptrs)
      PROVE  SlotFits(files2, lo2, hi2, n, i, files2[n].ptrs[i]) /\ (files2[n].ptrs[i] = c => SlotFits(files2, lo2, hi2, n, i, new))
  <2> DEFINE x == files[n].ptrs[i]
  <2>1. n \in Ins(files) /\ n \in DOMAIN files /\ n # c /\ files2[n] = files[n] /\ i \in 1 .. Len(files[n].ptrs)
    BY <1>1, <1>9, Kinds
  <2>2. SlotFits(files, lo, hi, n, i, x) /\ x \in DOMAIN files BY <2>1 DEF Bounds
  <2>3. lo2[n] = lo[n] /\ hi2[n] = hi[n] BY <2>1, <1>3
  <2> HIDE DEF x
  <2>4. CASE x # c
    <3>1. lo2[x] = lo[x] /\ hi2[x] = hi[x] BY <2>2, <2>4, <1>3
    <3> QED BY <3>1, <2>1, <2>2, <2>3, <2>4 DEF SlotFits, x
  <2>5. CASE x = c
    <3>1. /\ lo[n] <= lo[c] /\ hi[c] <= hi[n] /\ (i > 1 => files[n].keys[i - 1] <= lo[c])
          /\ (i <= Len(files[n].keys) => hi[c] <= files[n].keys[i])
      BY <2>2, <2>5 DEF SlotFits
    <3>2. lo[n] \in Int /\ hi[n] \in Int /\ lo[c] \in Int /\ hi[c] \in Int BY <2>1, <1>2, <1>4
    <3>3. (i > 1 => files[n].keys[i - 1] \in Int) /\ (i <= Len(files[n].keys) => files[n].keys[i] \in Int)
      <4>1. /\ (i > 1 => i - 1 \in 1 .. Len(files[n].keys)) /\ (i <= Len(files[n].keys) => i \in 1 .. Len(files[n].keys))
            /\ \A j \in 1 .. Len(files[n].keys) : files[n].keys[j] \in Nat
        BY <2>1, NodeFacts
      <4> QED BY <4>1
    <3>4. SlotFits(files2, lo2, hi2, n, i, c) BY <2>1, <2>3, <3>1, <3>2, <3>3, <1>3, <1>6 DEF SlotFits
    <3>5. SlotFits(files2, lo2, hi2, n, i, new) BY <2>1, <2>3, <3>1, <3>2, <3>3, <1>3, <1>6 DEF SlotFits
    <3> QED BY <2>1, <2>5, <3>4, <3>5 DEF x
  <2> QED BY <2>4, <2>5
<1>10. \A n \in Ins(files2) : Sorted(files2[n].keys) BY <1>1 DEF Bounds
<1>11. Bounds(files2, lo2, hi2) BY <1>7, <1>8, <1>9, <1>10 DEF Bounds
<1>12. Beside(files2, lo2, hi2, c, new) BY <1>3, <1>9 DEF Beside
<1> QED BY <1>11, <1>12

LEMMA AttachedBounds ==
    ASSUME NEW files, NEW files2, NEW lo, NEW hi, NEW p \in Ins(files), NEW i \in 1 .. Len(files[p].ptrs),
           NEW m \in Int, NEW e \in DOMAIN files, NEW c,
           Nodes(files), Bounds(files, lo, hi), c = files[p].ptrs[i], c \in DOMAIN files,
           Attached(files, files2, p, i, m, e), Beside(files, lo, hi, c, e), hi[c] <= m, m <= lo[e]
    PROVE  Bounds(files2, lo, hi)
<1> DEFINE ptrs == files[p].ptrs
           keys == files[p].keys
           len == Len(ptrs)
           new == files2[p]
<1>1. p \in DOMAIN files /\ len \in Nat /\ Len(keys) = len - 1 /\ \A j \in 1 .. len - 1 : keys[j] \in Int
  BY NodeFacts
<1>2. \A n \in DOMAIN files : lo[n] \in Int /\ hi[n] \in Int /\ lo[n] < hi[n] BY DEF Bounds, Bounded
<1>3. /\ DOMAIN files2 = DOMAIN files /\ Lvs(files2) = Lvs(files) /\ Ins(files2) = Ins(files)
      /\ \A n \in DOMAIN files \ {p} : files2[n] = files[n]
  BY DEF Attached
<1>4. /\ Len(new.ptrs) = len + 1 /\ Len(new.keys) = len
      /\ \A j \in 1 .. len + 1 : new.ptrs[j] = IF j < i + 1 THEN ptrs[j] ELSE IF j = i + 1 THEN e ELSE ptrs[j - 1]
      /\ \A j \in 1 .. len : new.keys[j] = IF j < i THEN keys[j] ELSE IF j = i THEN m ELSE keys[j - 1]
  BY <1>1 DEF Attached
<1>5. /\ \A a, b \in 1 .. len - 1 : a < b => keys[a] < keys[b]
      /\ \A j \in 1 .. len : SlotFits(files, lo, hi, p, j, ptrs[j])
  BY <1>1 DEF Bounds, Sorted
<1>6. SlotFits(files, lo, hi, p, i, c) /\ SlotFits(files, lo, hi, p, i, e) /\ hi[c] <= lo[e]
  BY DEF Bounds, Beside
<1>7. /\ lo[p] <= lo[c] /\ hi[e] <= hi[p]
      /\ i > 1 => keys[i - 1] <= lo[c]
      /\ i <= len - 1 => hi[e] <= keys[i]
  BY <1>1, <1>6 DEF SlotFits
<1>8. i \in 1 .. len OBVIOUS
<1>9. /\ i > 1 => keys[i - 1] < m
      /\ i <= len - 1 => m < keys[i]
  <2>1. lo[c] < m /\ lo[c] \in Int /\ m < hi[e] /\ hi[e] \in Int BY <1>2, <1>6
  <2>2. i > 1 => keys[i - 1] \in Int BY <1>1, <1>8
  <2>3. i <= len - 1 => keys[i] \in Int BY <1>1, <1>8
  <2> QED BY <2>1, <2>2, <2>3, <1>7
<1> HIDE DEF new, ptrs, keys, len
<1>10. Sorted(new.keys)
  <2> SUFFICES ASSUME NEW a \in 1 .. len, NEW b \in 1 .. len, a < b PROVE new.keys[a] < new.keys[b]
    BY <1>4 DEF Sorted
  <2>1. CASE b < i BY <2>1, <1>1, <1>4, <1>5, <1>8
  <2>2. CASE b = i
    <3>1. a \in 1 .. len - 1 /\ i - 1 \in 1 .. len - 1 /\ i > 1 /\ (a = i - 1 \/ a < i - 1) BY <2>2, <1>1, <1>8
    <3>2. keys[a] <= keys[i - 1] /\ keys[a] \in Int /\ keys[i - 1] \in Int BY <3>1, <1>1, <1>5
    <3>3. new.keys[a] = keys[a] /\ new.keys[b] = m BY <2>2, <3>1, <1>4, <1>8, <1>1
    <3> QED BY <3>1, <3>2, <3>3, <1>9
  <2>3. CASE b > i
    <3>1. b - 1 \in 1 .. len - 1 /\ new.keys[b] = keys[b - 1] BY <2>3, <1>1, <1>4, <1>8
    <3>2. CASE a > i BY <2>3, <3>1, <3>2, <1>1, <1>4, <1>5, <1>8
    <3>3. CASE a <= i
      <4>1. i \in 1 .. len - 1 /\ (i = b - 1 \/ i < b - 1) BY <2>3, <1>1, <1>8
      <4>2. keys[i] <= keys[b - 1] /\ keys[i] \in Int /\ keys[b - 1] \in Int /\ m < keys[i]
        BY <3>1, <4>1, <1>1, <1>5, <1>9
      <4>3. CASE a = i BY <3>1, <4>2, <4>3, <1>4
      <4>4. CASE a # i
        <5>1. a < i /\ a \in 1 .. len - 1 /\ new.keys[a] = keys[a] /\ keys[a] < keys[i]
          BY <3>3, <4>1, <4>4, <1>1, <1>4, <1>5
        <5> QED BY <3>1, <4>2, <5>1, <1>1
      <4> QED BY <4>3, <4>4
    <3> QED BY <3>2, <3>3
  <2> QED BY <2>1, <2>2, <2>3
<1>11. ASSUME NEW j \in 1 .. len + 1 PROVE SlotFits(files2, lo, hi, p, j, new.ptrs[j])
  <2>1. CASE j < i
    <3>1. j \in 1 .. len /\ new.ptrs[j] = ptrs[j] /\ j \in 1 .. len - 1 BY <2>1, <1>1, <1>4, <1>8
    <3>2. SlotFits(files, lo, hi, p, j, ptrs[j]) BY <3>1, <1>5
    <3>3. new.keys[j] = keys[j] /\ (j > 1 => new.keys[j - 1] = keys[j - 1]) BY <2>1, <3>1, <1>1, <1>4, <1>8
    <3> QED BY <3>1, <3>2, <3>3, <1>1, <1>4 DEF SlotFits, new, keys
  <2>2. CASE j = i
    <3>1. new.ptrs[j] = c /\ new.keys[j] = m /\ (j > 1 => new.keys[j - 1] = keys[j - 1])
      BY <2>2, <1>1, <1>4, <1>8, SMTT(30) DEF ptrs
    <3> QED BY <2>2, <3>1, <1>6, <1>4 DEF SlotFits, new, keys
  <2>3. CASE j = i + 1
    <3>0. j - 1 = i /\ j - 1 \in 1 .. len /\ j \in 1 .. len + 1 /\ ~(j < i) /\ ~(j < i + 1) /\ j # i
      BY <2>3, <1>1, <1>8
    <3>1. new.ptrs[j] = e /\ new.keys[j - 1] = m /\ (j <= len => new.keys[j] = keys[i] /\ i <= len - 1)
      <4>1. new.ptrs[j] = e BY <2>3, <3>0, <1>4
      <4>2. new.keys[j - 1] = m BY <3>0, <1>4, <1>8
      <4>3. j <= len => new.keys[j] = keys[j - 1] /\ i <= len - 1 BY <2>3, <3>0, <1>1, <1>4
      <4> QED BY <4>1, <4>2, <4>3, <3>0
    <3>2. lo[p] <= lo[e] /\ hi[e] <= hi[p] /\ (i <= len - 1 => hi[e] <= keys[i]) BY <1>6, <1>7 DEF SlotFits
    <3> QED BY <2>3, <3>1, <3>2, <1>4 DEF SlotFits, new, keys
  <2>4. CASE j > i + 1
    <3>1. j - 1 \in 1 .. len /\ new.ptrs[j] = ptrs[j - 1] /\ j - 1 > 1 BY <2>4, <1>1, <1>4, <1>8
    <3>2. SlotFits(files, lo, hi, p, j - 1, ptrs[j - 1]) BY <3>1, <1>5
    <3>3. new.keys[j - 1] = keys[j - 2] /\ (j <= len => new.keys[j] = keys[j - 1])
      BY <2>4, <3>1, <1>1, <1>4, <1>8
    <3>4. (j - 1) - 1 = j - 2 /\ (j <= len <=> j - 1 <= len - 1) BY <1>1
    <3> QED BY <3>1, <3>2, <3>3, <3>4, <1>1, <1>4 DEF SlotFits, new, keys
  <2> QED BY <2>1, <2>2, <2>3, <2>4, <1>1, <1>8
<1>12. ASSUME NEW n \in Ins(files2) \ {p}
       PROVE  Sorted(files2[n].keys) /\ \A j \in 1 .. Len(files2[n].ptrs) : SlotFits(files2, lo, hi, n, j, files2[n].ptrs[j])
  <2>1. n \in Ins(files) /\ n \in DOMAIN files /\ files2[n] = files[n] BY <1>3, NodeFacts
  <2> QED BY <2>1 DEF Bounds, SlotFits
<1>13. ASSUME NEW n \in Lvs(files2) PROVE Contained(files2, lo, hi, n)
  <2>1. n \in Lvs(files) /\ n \in DOMAIN files /\ n # p /\ files2[n] = files[n] BY <1>3, LeafFacts
  <2> QED BY <2>1 DEF Bounds, Contained
<1>14. \A n \in DOMAIN files2 : Bounded(lo, hi, n) BY <1>3 DEF Bounds
<1>15. ASSUME NEW n \in Ins(files2)
       PROVE  Sorted(files2[n].keys) /\ \A j \in 1 .. Len(files2[n].ptrs) : SlotFits(files2, lo, hi, n, j, files2[n].ptrs[j])
  <2>1. CASE n = p BY <2>1, <1>4, <1>10, <1>11 DEF new
  <2> QED BY <2>1, <1>12
<1> QED BY <1>13, <1>14, <1>15 DEF Bounds

\* What the bounds say of one slot, in numbers.
LEMMA SlotFacts ==
    ASSUME NEW files, NEW lo, NEW hi, Nodes(files), Kids(files), Bounds(files, lo, hi),
           NEW n \in Ins(files), NEW i \in 1 .. Len(files[n].ptrs)
    PROVE  LET c == files[n].ptrs[i]
           IN  /\ c \in DOMAIN files /\ n \in DOMAIN files /\ c # n
               /\ lo[n] \in Int /\ hi[n] \in Int /\ lo[c] \in Int /\ hi[c] \in Int
               /\ lo[n] <= lo[c] /\ lo[c] < hi[c] /\ hi[c] <= hi[n] /\ lo[n] < hi[n]
               /\ i > 1 => files[n].keys[i - 1] \in Int /\ files[n].keys[i - 1] <= lo[c]
               /\ i <= Len(files[n].keys) => files[n].keys[i] \in Int /\ hi[c] <= files[n].keys[i]
<1> DEFINE c == files[n].ptrs[i]
<1>1. c \in DOMAIN files /\ n \in DOMAIN files /\ c # n BY NodeFacts DEF Kids
<1>2. SlotFits(files, lo, hi, n, i, c) /\ Bounded(lo, hi, c) /\ Bounded(lo, hi, n) BY <1>1 DEF Bounds
<1>3. (i > 1 => i - 1 \in 1 .. Len(files[n].keys)) /\ (i <= Len(files[n].keys) => i \in 1 .. Len(files[n].keys))
  BY NodeFacts
<1>4. (i > 1 => files[n].keys[i - 1] \in Int) /\ (i <= Len(files[n].keys) => files[n].keys[i] \in Int)
  BY <1>3, NodeFacts
<1> HIDE DEF c
<1> QED BY <1>1, <1>2, <1>4 DEF SlotFits, Bounded, c

LEMMA HalvedBounds ==
    ASSUME NEW files, NEW files2, NEW lo, NEW hi, NEW n \in Ins(files), NEW new, NEW k \in 1 .. Len(files[n].keys),
           Nodes(files), Kids(files), Bounds(files, lo, hi), Halved(files, files2, n, new, k)
    PROVE  \E lo2, hi2 : Bounds(files2, lo2, hi2) /\ Beside(files2, lo2, hi2, n, new)
<1> DEFINE s == files[n].keys[k]
           ptrs == files[n].ptrs
           keys == files[n].keys
           len == Len(ptrs)
           lo2 == [x \in DOMAIN files \cup {new} |-> IF x = new THEN s ELSE lo[x]]
           hi2 == [x \in DOMAIN files \cup {new} |-> IF x = new THEN hi[n] ELSE IF x = n THEN s ELSE hi[x]]
<1>1. n \in DOMAIN files /\ len \in Nat /\ Len(keys) = len - 1 /\ \A j \in 1 .. len - 1 : keys[j] \in Int
  BY NodeFacts
<1>2. /\ new \notin DOMAIN files /\ DOMAIN files2 = DOMAIN files \cup {new} /\ n # new
      /\ Lvs(files2) = Lvs(files) /\ Ins(files2) = Ins(files) \cup {new}
      /\ \A x \in DOMAIN files \ {n} : files2[x] = files[x]
  BY <1>1 DEF Halved
<1>3. /\ lo2[new] = s /\ hi2[new] = hi[n] /\ lo2[n] = lo[n] /\ hi2[n] = s
      /\ \A x \in DOMAIN files \ {n} : lo2[x] = lo[x] /\ hi2[x] = hi[x]
  BY <1>1, <1>2
<1> HIDE DEF lo2, hi2
<1>4. \A x \in DOMAIN files : lo[x] \in Int /\ hi[x] \in Int /\ lo[x] < hi[x] BY DEF Bounds, Bounded
<1>5. /\ Len(files2[n].ptrs) = k /\ Len(files2[n].keys) = k - 1
      /\ \A j \in 1 .. k : files2[n].ptrs[j] = ptrs[j]
      /\ \A j \in 1 .. k - 1 : files2[n].keys[j] = keys[j]
      /\ Len(files2[new].ptrs) = len - k /\ Len(files2[new].keys) = (len - 1) - k
      /\ \A j \in 1 .. len - k : files2[new].ptrs[j] = ptrs[j + k]
      /\ \A j \in 1 .. (len - 1) - k : files2[new].keys[j] = keys[j + k]
  BY <1>1 DEF Halved
<1>6. \A j \in 1 .. len :
          /\ ptrs[j] \in DOMAIN files \ {n} /\ lo[ptrs[j]] \in Int /\ hi[ptrs[j]] \in Int
          /\ lo[n] <= lo[ptrs[j]] /\ lo[ptrs[j]] < hi[ptrs[j]] /\ hi[ptrs[j]] <= hi[n]
          /\ j > 1 => keys[j - 1] <= lo[ptrs[j]]
          /\ j <= len - 1 => hi[ptrs[j]] <= keys[j]
  BY <1>1, SlotFacts
<1>7. \A a, b \in 1 .. len - 1 : a < b => keys[a] < keys[b] BY <1>1 DEF Bounds, Sorted
<1>8. k \in 1 .. len - 1 /\ s \in Int /\ s = keys[k] BY <1>1
<1> HIDE DEF ptrs, keys, len, s
<1>9. lo[n] < s /\ s < hi[n]
  <2>1. k \in 1 .. len /\ k + 1 \in 1 .. len /\ (k + 1) - 1 = k /\ k + 1 > 1 BY <1>1, <1>8
  <2>2. lo[n] <= lo[ptrs[k]] /\ lo[ptrs[k]] < hi[ptrs[k]] /\ hi[ptrs[k]] <= s /\ lo[ptrs[k]] \in Int /\ hi[ptrs[k]] \in Int
    BY <2>1, <1>6, <1>8
  <2>3. /\ s <= lo[ptrs[k + 1]] /\ lo[ptrs[k + 1]] < hi[ptrs[k + 1]] /\ hi[ptrs[k + 1]] <= hi[n]
        /\ lo[ptrs[k + 1]] \in Int /\ hi[ptrs[k + 1]] \in Int
    BY <2>1, <1>6, <1>8
  <2> QED BY <2>2, <2>3, <1>1, <1>4, <1>8
<1>10. ASSUME NEW x \in DOMAIN files2 PROVE Bounded(lo2, hi2, x)
  BY <1>1, <1>2, <1>3, <1>4, <1>8, <1>9, <1>10 DEF Bounded
<1>11. ASSUME NEW x \in Lvs(files2) PROVE Contained(files2, lo2, hi2, x)
  <2>1. x \in Lvs(files) /\ x \in DOMAIN files /\ x # n /\ files2[x] = files[x] BY <1>2, LeafFacts
  <2> QED BY <2>1, <1>3 DEF Bounds, Contained
<1>12. Sorted(files2[n].keys) /\ Sorted(files2[new].keys)
  <2>1. Sorted(files2[n].keys) BY <1>1, <1>5, <1>7, <1>8 DEF Sorted
  <2>2. ASSUME NEW a \in 1 .. (len - 1) - k, NEW b \in 1 .. (len - 1) - k, a < b
        PROVE  files2[new].keys[a] < files2[new].keys[b]
    <3>1. a + k \in 1 .. len - 1 /\ b + k \in 1 .. len - 1 /\ a + k < b + k BY <1>1, <1>8, <2>2
    <3> QED BY <3>1, <1>5, <1>7
  <2> QED BY <2>1, <2>2, <1>5 DEF Sorted
<1>13. ASSUME NEW j \in 1 .. k PROVE SlotFits(files2, lo2, hi2, n, j, files2[n].ptrs[j])
  <2> DEFINE c == ptrs[j]
  <2>1. j \in 1 .. len /\ j \in 1 .. len - 1 /\ files2[n].ptrs[j] = c BY <1>1, <1>5, <1>8
  <2>2. /\ c \in DOMAIN files \ {n} /\ lo[n] <= lo[c] /\ hi[c] <= keys[j] /\ hi[c] \in Int
        /\ (j > 1 => keys[j - 1] <= lo[c])
    BY <2>1, <1>6
  <2>3. keys[j] <= s /\ keys[j] \in Int
    <3>1. j = k \/ j < k BY <1>8
    <3> QED BY <2>1, <3>1, <1>1, <1>7, <1>8
  <2> HIDE DEF c
  <2>4. hi[c] <= s BY <2>2, <2>3, <1>8
  <2>5. (j > 1 => files2[n].keys[j - 1] = keys[j - 1]) /\ (j <= k - 1 => files2[n].keys[j] = keys[j])
    <3>1. (j > 1 => j - 1 \in 1 .. k - 1) /\ (j <= k - 1 => j \in 1 .. k - 1) BY <1>1, <1>8
    <3> QED BY <3>1, <1>5
  <2> QED BY <2>1, <2>2, <2>4, <2>5, <1>3, <1>5 DEF SlotFits
<1>14. ASSUME NEW j \in 1 .. len - k PROVE SlotFits(files2, lo2, hi2, new, j, files2[new].ptrs[j])
  <2> DEFINE c == ptrs[j + k]
  <2>1. j + k \in 1 .. len /\ (j + k) - 1 \in 1 .. len - 1 /\ files2[new].ptrs[j] = c /\ j + k > 1
    BY <1>1, <1>5, <1>8
  <2>2. /\ c \in DOMAIN files \ {n} /\ hi[c] <= hi[n] /\ keys[(j + k) - 1] <= lo[c] /\ lo[c] \in Int
        /\ (j + k <= len - 1 => hi[c] <= keys[j + k])
    BY <2>1, <1>6
  <2>3. s <= keys[(j + k) - 1] /\ keys[(j + k) - 1] \in Int
    <3>1. (j + k) - 1 = k \/ k < (j + k) - 1 BY <1>8
    <3> QED BY <2>1, <3>1, <1>1, <1>7, <1>8
  <2> HIDE DEF c
  <2>4. s <= lo[c] BY <2>2, <2>3, <1>8
  <2>5. j > 1 => files2[new].keys[j - 1] <= lo[c]
    <3>1. j > 1 => j - 1 \in 1 .. (len - 1) - k /\ (j - 1) + k = (j + k) - 1 BY <1>1, <1>8
    <3> QED BY <3>1, <2>2, <1>5
  <2>6. j <= (len - 1) - k => hi[c] <= files2[new].keys[j]
    <3>1. j <= (len - 1) - k => j \in 1 .. (len - 1) - k /\ j + k <= len - 1 BY <1>1, <1>8
    <3> QED BY <3>1, <2>2, <1>5
  <2> QED BY <2>1, <2>2, <2>4, <2>5, <2>6, <1>3, <1>5 DEF SlotFits
<1>15. ASSUME NEW x \in Ins(files) \ {n}, NEW i \in 1 .. Len(files[x].ptrs)
       PROVE  /\ files2[x] = files[x] /\ SlotFits(files2, lo2, hi2, x, i, files[x].ptrs[i])
              /\ files[x].ptrs[i] = n => SlotFits(files2, lo2, hi2, x, i, new)
  <2> DEFINE c == files[x].ptrs[i]
  <2>1. /\ c \in DOMAIN files /\ x \in DOMAIN files /\ lo[x] \in Int /\ hi[x] \in Int
        /\ lo[x] <= lo[c] /\ lo[c] < hi[c] /\ hi[c] <= hi[x]
        /\ i > 1 => files[x].keys[i - 1] \in Int /\ files[x].keys[i - 1] <= lo[c]
        /\ i <= Len(files[x].keys) => files[x].keys[i] \in Int /\ hi[c] <= files[x].keys[i]
    BY SlotFacts
  <2>2. files2[x] = files[x] /\ lo2[x] = lo[x] /\ hi2[x] = hi[x] BY <2>1, <1>2, <1>3
  <2> HIDE DEF c
  <2>3. CASE c # n
    <3>1. lo2[c] = lo[c] /\ hi2[c] = hi[c] BY <2>1, <2>3, <1>3
    <3> QED BY <2>1, <2>2, <2>3, <3>1 DEF SlotFits, c
  <2>4. CASE c = n
    <3>1. SlotFits(files2, lo2, hi2, x, i, n) BY <2>1, <2>2, <2>4, <1>1, <1>3, <1>4, <1>8, <1>9 DEF SlotFits
    <3>2. SlotFits(files2, lo2, hi2, x, i, new) BY <2>1, <2>2, <2>4, <1>1, <1>3, <1>4, <1>8, <1>9 DEF SlotFits
    <3> QED BY <2>2, <2>4, <3>1, <3>2 DEF c
  <2> QED BY <2>3, <2>4
<1>16. Bounds(files2, lo2, hi2)
  <2>1. ASSUME NEW x \in Ins(files2)
        PROVE  Sorted(files2[x].keys) /\ \A i \in 1 .. Len(files2[x].ptrs) : SlotFits(files2, lo2, hi2, x, i, files2[x].ptrs[i])
    <3>1. CASE x = n BY <3>1, <1>5, <1>12, <1>13
    <3>2. CASE x = new BY <3>2, <1>5, <1>12, <1>14
    <3>3. CASE x \notin {n, new}
      <4>1. x \in Ins(files) \ {n} /\ x \in DOMAIN files /\ files2[x] = files[x] BY <3>3, <1>2, <2>1, NodeFacts
      <4> QED BY <4>1, <1>15 DEF Bounds
    <3> QED BY <3>1, <3>2, <3>3
  <2> QED BY <2>1, <1>10, <1>11 DEF Bounds
<1>17. Beside(files2, lo2, hi2, n, new)
  <2> SUFFICES ASSUME NEW x \in Ins(files2), NEW i \in 1 .. Len(files2[x].ptrs), files2[x].ptrs[i] = n
               PROVE  SlotFits(files2, lo2, hi2, x, i, new)
    BY <1>3, <1>8 DEF Beside
  <2>1. x # n
    <3> SUFFICES ASSUME x = n PROVE FALSE OBVIOUS
    <3>1. i \in 1 .. k /\ i \in 1 .. len BY <1>1, <1>5, <1>8
    <3> QED BY <3>1, <1>5, <1>6
  <2>2. x # new
    <3> SUFFICES ASSUME x = new PROVE FALSE OBVIOUS
    <3>1. i \in 1 .. len - k /\ i + k \in 1 .. len BY <1>1, <1>5, <1>8
    <3> QED BY <3>1, <1>5, <1>6
  <2>3. x \in Ins(files) \ {n} /\ files2[x] = files[x] BY <2>1, <2>2, <1>2, NodeFacts
  <2> QED BY <2>3, <1>15
<1> QED BY <1>16, <1>17

LEMMA GrownBounds ==
    ASSUME NEW files, NEW files2, NEW lo, NEW hi, NEW root \in DOMAIN files, NEW e \in DOMAIN files, NEW new, NEW m \in Int,
           Nodes(files), Kids(files), Bounds(files, lo, hi), Grown(files, files2, root, e, new, m),
           hi[root] <= m, m <= lo[e]
    PROVE  \E lo2, hi2 : Bounds(files2, lo2, hi2)
<1> DEFINE lo2 == [x \in DOMAIN files \cup {new} |-> IF x = new THEN lo[root] ELSE lo[x]]
           hi2 == [x \in DOMAIN files \cup {new} |-> IF x = new THEN hi[e] ELSE hi[x]]
<1>1. /\ new \notin DOMAIN files /\ DOMAIN files2 = DOMAIN files \cup {new}
      /\ Lvs(files2) = Lvs(files) /\ Ins(files2) = Ins(files) \cup {new}
      /\ \A x \in DOMAIN files : files2[x] = files[x]
      /\ Len(files2[new].ptrs) = 2 /\ files2[new].ptrs[1] = root /\ files2[new].ptrs[2] = e
      /\ Len(files2[new].keys) = 1 /\ files2[new].keys[1] = m
  BY DEF Grown
<1>2. lo2[new] = lo[root] /\ hi2[new] = hi[e] /\ \A x \in DOMAIN files : lo2[x] = lo[x] /\ hi2[x] = hi[x]
  BY <1>1
<1> HIDE DEF lo2, hi2
<1>3. \A x \in DOMAIN files : lo[x] \in Int /\ hi[x] \in Int /\ lo[x] < hi[x] BY DEF Bounds, Bounded
<1>4. lo[root] < hi[root] /\ hi[root] <= m /\ m <= lo[e] /\ lo[e] < hi[e] BY <1>3
<1>5. lo[root] \in Int /\ hi[root] \in Int /\ lo[e] \in Int /\ hi[e] \in Int BY <1>3
<1>6. ASSUME NEW x \in DOMAIN files2 PROVE Bounded(lo2, hi2, x)
  BY <1>1, <1>2, <1>3, <1>4, <1>5, <1>6 DEF Bounded
<1>7. ASSUME NEW x \in Lvs(files2) PROVE Contained(files2, lo2, hi2, x)
  <2>1. x \in Lvs(files) /\ x \in DOMAIN files /\ files2[x] = files[x] BY <1>1, LeafFacts
  <2> QED BY <2>1, <1>2 DEF Bounds, Contained
<1>8. ASSUME NEW x \in Ins(files2)
      PROVE  Sorted(files2[x].keys) /\ \A i \in 1 .. Len(files2[x].ptrs) : SlotFits(files2, lo2, hi2, x, i, files2[x].ptrs[i])
  <2>1. CASE x = new
    <3>1. Sorted(files2[x].keys) BY <2>1, <1>1 DEF Sorted
    <3>2. SlotFits(files2, lo2, hi2, new, 1, root) /\ SlotFits(files2, lo2, hi2, new, 2, e)
      BY <1>1, <1>2, <1>4, <1>5 DEF SlotFits
    <3>3. \A i \in 1 .. 2 : i = 1 \/ i = 2 OBVIOUS
    <3> QED BY <2>1, <3>1, <3>2, <3>3, <1>1
  <2>2. CASE x # new
    <3>1. x \in Ins(files) /\ x \in DOMAIN files /\ files2[x] = files[x] BY <2>2, <1>1, <1>8, NodeFacts
    <3>2. Sorted(files2[x].keys) BY <3>1 DEF Bounds
    <3>3. ASSUME NEW i \in 1 .. Len(files2[x].ptrs) PROVE SlotFits(files2, lo2, hi2, x, i, files2[x].ptrs[i])
      <4>1. files[x].ptrs[i] \in DOMAIN files /\ SlotFits(files, lo, hi, x, i, files[x].ptrs[i])
        BY <3>1, <3>3 DEF Bounds, Kids
      <4> QED BY <3>1, <4>1, <1>2 DEF SlotFits
    <3> QED BY <3>2, <3>3
  <2> QED BY <2>1, <2>2
<1> QED BY <1>6, <1>7, <1>8 DEF Bounds

LEMMA ShrunkBounds ==
    ASSUME NEW files, NEW files2, NEW lo, NEW hi, NEW root \in Ins(files),
           Bounds(files, lo, hi), Shrunk(files, files2, root)
    PROVE  Bounds(files2, lo, hi)
<1>1. /\ DOMAIN files2 = DOMAIN files \ {root} /\ Lvs(files2) = Lvs(files) /\ Ins(files2) = Ins(files) \ {root}
      /\ \A x \in DOMAIN files \ {root} : files2[x] = files[x]
  BY DEF Shrunk
<1>2. \A x \in DOMAIN files2 : Bounded(lo, hi, x) BY <1>1 DEF Bounds
<1>3. \A x \in Lvs(files2) : Contained(files2, lo, hi, x)
  <2> SUFFICES ASSUME NEW x \in Lvs(files2) PROVE Contained(files2, lo, hi, x) OBVIOUS
  <2>1. x \in Lvs(files) /\ files2[x] = files[x] BY <1>1 DEF Lvs
  <2> QED BY <2>1 DEF Bounds, Contained
<1>4. ASSUME NEW x \in Ins(files2)
      PROVE  Sorted(files2[x].keys) /\ \A i \in 1 .. Len(files2[x].ptrs) : SlotFits(files2, lo, hi, x, i, files2[x].ptrs[i])
  <2>1. x \in Ins(files) /\ files2[x] = files[x] BY <1>1 DEF Ins
  <2> QED BY <2>1 DEF Bounds, SlotFits
<1> QED BY <1>2, <1>3, <1>4 DEF Bounds

LEMMA MergedBounds ==
    ASSUME NEW files, NEW files2, NEW lo, NEW hi, NEW root, NEW h, NEW par, NEW slot, NEW p, NEW i, NEW c, NEW d,
           Nodes(files), Shape(files, root, NULL_PTR, h, par, slot), Neighbours(files, p, i, c, d),
           Bounds(files, lo, hi), Merged(files, files2, p, i, c, d),
           c \in Lvs(files) => DOMAIN files2[c].data \subseteq DOMAIN files[c].data \cup DOMAIN files[d].data
    PROVE  \E lo2, hi2 : Bounds(files2, lo2, hi2)
<1> DEFINE hi2 == [x \in DOMAIN files |-> IF x = c THEN hi[d] ELSE hi[x]]
           ptrs == files[p].ptrs
           keys == files[p].keys
           len == Len(ptrs)
<1>1. /\ c \in DOMAIN files /\ d \in DOMAIN files /\ c # d /\ c # p /\ d # p /\ p \in DOMAIN files
      /\ par[c] = p /\ par[d] = p /\ slot[c] = i /\ slot[d] = i + 1
      /\ h[c] \in Nat /\ h[d] = h[c] /\ h[p] = h[c] + 1
      /\ (c \in Ins(files) <=> d \in Ins(files))
      /\ i \in Nat \ {0} /\ i + 1 \in 1 .. len /\ i \in 1 .. len /\ len \in Nat
  BY NeighbourFacts
<1>2. p \in Ins(files) /\ Kids(files) /\ c = ptrs[i] /\ d = ptrs[i + 1] BY KidsFact DEF Neighbours
<1>3. hi2[c] = hi[d] /\ \A x \in DOMAIN files \ {c} : hi2[x] = hi[x] BY <1>1
<1> HIDE DEF hi2
<1>4. \A x \in DOMAIN files : lo[x] \in Int /\ hi[x] \in Int /\ lo[x] < hi[x] BY DEF Bounds, Bounded
<1>5. /\ DOMAIN files2 = DOMAIN files \ {d} /\ Lvs(files2) = Lvs(files) \ {d} /\ Ins(files2) = Ins(files) \ {d}
      /\ \A x \in DOMAIN files \ {p, c, d} : files2[x] = files[x]
  BY DEF Merged
<1>6. /\ Len(keys) = len - 1 /\ Len(files2[p].ptrs) = len - 1 /\ Len(files2[p].keys) = len - 2
      /\ \A j \in 1 .. len - 1 : files2[p].ptrs[j] = IF j < i + 1 THEN ptrs[j] ELSE ptrs[j + 1]
      /\ \A j \in 1 .. len - 2 : files2[p].keys[j] = IF j < i THEN keys[j] ELSE keys[j + 1]
  <2>1. Len(keys) = len - 1 /\ (len - 1) - 1 = len - 2 BY <1>2, NodeFacts
  <2> QED BY <2>1 DEF Merged
<1>7. \A j \in 1 .. len :
          /\ ptrs[j] \in DOMAIN files /\ lo[ptrs[j]] \in Int /\ hi[ptrs[j]] \in Int
          /\ lo[p] <= lo[ptrs[j]] /\ lo[ptrs[j]] < hi[ptrs[j]] /\ hi[ptrs[j]] <= hi[p]
          /\ j > 1 => keys[j - 1] \in Int /\ keys[j - 1] <= lo[ptrs[j]]
          /\ j <= len - 1 => keys[j] \in Int /\ hi[ptrs[j]] <= keys[j]
  BY <1>2, <1>6, SlotFacts
<1>8. \A a, b \in 1 .. len - 1 : a < b => keys[a] < keys[b] BY <1>2, <1>6 DEF Bounds, Sorted
<1>9. \A j \in 1 .. len : j # i => ptrs[j] # c
  <2> SUFFICES ASSUME NEW j \in 1 .. len, ptrs[j] = c PROVE j = i OBVIOUS
  <2>1. slot[ptrs[j]] = j BY <1>2, ChildFacts
  <2> QED BY <2>1, <1>1
<1> DEFINE s == keys[i]
<1>10. hi[c] <= s /\ s <= lo[d] /\ s \in Int
  <2>1. i + 1 > 1 /\ (i + 1) - 1 = i /\ i <= len - 1 BY <1>1
  <2> QED BY <2>1, <1>1, <1>2, <1>7
<1>11. lo[c] \in Int /\ hi[c] \in Int /\ lo[d] \in Int /\ hi[d] \in Int /\ lo[c] < hi[c] /\ lo[d] < hi[d] /\ hi[c] <= hi[d] /\ lo[c] <= lo[d]
  BY <1>1, <1>4, <1>10
<1> HIDE DEF ptrs, keys, len, s
<1>12. ASSUME NEW x \in DOMAIN files2 PROVE Bounded(lo, hi2, x)
  BY <1>1, <1>3, <1>4, <1>5, <1>11, <1>12 DEF Bounded
<1>13. ASSUME NEW x \in Lvs(files2) PROVE Contained(files2, lo, hi2, x)
  <2>1. x \in Lvs(files) /\ x \in DOMAIN files /\ x # d /\ x # p /\ DOMAIN files[x].data \subseteq Int
    BY <1>2, <1>5, LeafFacts
  <2>2. CASE x # c BY <2>1, <2>2, <1>3, <1>5 DEF Bounds, Contained
  <2>3. CASE x = c
    <3>1. d \in Lvs(files) BY <2>1, <2>3, <1>1, Kinds
    <3>2. Contained(files, lo, hi, c) /\ Contained(files, lo, hi, d) /\ DOMAIN files[d].data \subseteq Int
      BY <2>1, <2>3, <3>1, LeafFacts DEF Bounds
    <3>3. DOMAIN files2[c].data \subseteq DOMAIN files[c].data \cup DOMAIN files[d].data BY <2>1, <2>3
    <3> QED BY <2>1, <2>3, <3>2, <3>3, <1>3, <1>11 DEF Contained
  <2> QED BY <2>2, <2>3
<1>14. Sorted(files2[p].keys)
  <2>1. ASSUME NEW a \in 1 .. len - 2, NEW b \in 1 .. len - 2, a < b PROVE files2[p].keys[a] < files2[p].keys[b]
    <3> DEFINE up(j) == IF j < i THEN j ELSE j + 1
    <3>1. up(a) \in 1 .. len - 1 /\ up(b) \in 1 .. len - 1 /\ up(a) < up(b) BY <2>1, <1>1
    <3>2. files2[p].keys[a] = keys[up(a)] /\ files2[p].keys[b] = keys[up(b)] BY <1>6
    <3> HIDE DEF up
    <3> QED BY <3>1, <3>2, <1>8
  <2> QED BY <2>1, <1>6 DEF Sorted
<1>15. ASSUME NEW j \in 1 .. len - 1 PROVE SlotFits(files2, lo, hi2, p, j, files2[p].ptrs[j])
  <2>1. CASE j < i
    <3>1. j \in 1 .. len /\ j < i + 1 /\ j # i /\ j <= len - 1 /\ (j > 1 => j - 1 \in 1 .. len - 2 /\ j - 1 < i) /\ j \in 1 .. len - 2
      BY <2>1, <1>1
    <3>2. files2[p].ptrs[j] = ptrs[j] /\ files2[p].keys[j] = keys[j] /\ (j > 1 => files2[p].keys[j - 1] = keys[j - 1])
      BY <2>1, <3>1, <1>6
    <3>3. hi2[ptrs[j]] = hi[ptrs[j]] /\ hi2[p] = hi[p] BY <3>1, <1>1, <1>3, <1>7, <1>9
    <3> QED BY <3>1, <3>2, <3>3, <1>6, <1>7 DEF SlotFits
  <2>2. CASE j = i
    <3>1. j < i + 1 /\ files2[p].ptrs[j] = c /\ hi2[c] = hi[d] /\ hi2[p] = hi[p] BY <2>2, <1>1, <1>2, <1>3, <1>6
    <3>2. lo[p] <= lo[c] /\ (i > 1 => keys[i - 1] <= lo[c]) BY <1>1, <1>2, <1>7
    <3>3. hi[d] <= hi[p] /\ (i + 1 <= len - 1 => hi[d] <= keys[i + 1]) BY <1>1, <1>2, <1>7
    <3>4. (i > 1 => i - 1 \in 1 .. len - 2) /\ (i <= len - 2 => i \in 1 .. len - 2 /\ i + 1 <= len - 1) BY <1>1
    <3>5. (i > 1 => files2[p].keys[i - 1] = keys[i - 1]) /\ (i <= len - 2 => files2[p].keys[i] = keys[i + 1])
      BY <3>4, <1>1, <1>6
    <3> QED BY <2>2, <3>1, <3>2, <3>3, <3>4, <3>5, <1>6 DEF SlotFits
  <2>3. CASE j > i
    <3>1. j + 1 \in 1 .. len /\ ~(j < i + 1) /\ j + 1 # i /\ j > 1 /\ j - 1 \in 1 .. len - 2 /\ ~(j - 1 < i)
          /\ (j - 1) + 1 = j /\ (j <= len - 2 => j \in 1 .. len - 2 /\ ~(j < i) /\ j + 1 <= len - 1) /\ j + 1 > 1 /\ (j + 1) - 1 = j
      BY <2>3, <1>1
    <3>2. files2[p].ptrs[j] = ptrs[j + 1] /\ files2[p].keys[j - 1] = keys[j] /\ (j <= len - 2 => files2[p].keys[j] = keys[j + 1])
      <4>1. files2[p].keys[j - 1] = keys[(j - 1) + 1] BY <3>1, <1>6
      <4> QED BY <4>1, <3>1, <1>6
    <3>3. hi2[ptrs[j + 1]] = hi[ptrs[j + 1]] /\ hi2[p] = hi[p] BY <3>1, <1>1, <1>3, <1>7, <1>9
    <3>4. /\ lo[p] <= lo[ptrs[j + 1]] /\ hi[ptrs[j + 1]] <= hi[p]
          /\ j + 1 > 1 => keys[(j + 1) - 1] <= lo[ptrs[j + 1]]
          /\ j + 1 <= len - 1 => hi[ptrs[j + 1]] <= keys[j + 1]
      BY <3>1, <1>7
    <3> QED BY <3>1, <3>2, <3>3, <3>4, <1>6 DEF SlotFits
  <2> QED BY <2>1, <2>2, <2>3, <1>1

<1>16. ASSUME NEW x \in Ins(files) \ {p, c, d}
       PROVE  /\ files2[x] = files[x] /\ Sorted(files2[x].keys)
              /\ \A j \in 1 .. Len(files2[x].ptrs) : SlotFits(files2, lo, hi2, x, j, files2[x].ptrs[j])
  <2>1. x \in DOMAIN files /\ files2[x] = files[x] /\ Sorted(files[x].keys) BY <1>5, NodeFacts DEF Bounds
  <2>2. ASSUME NEW j \in 1 .. Len(files[x].ptrs) PROVE SlotFits(files2, lo, hi2, x, j, files[x].ptrs[j])
    <3> DEFINE y == files[x].ptrs[j]
    <3>1. par[y] = x /\ y \in DOMAIN files BY ChildFacts
    <3>2. y # c BY <3>1, <1>1
    <3>3. hi2[y] = hi[y] /\ hi2[x] = hi[x] BY <2>1, <3>1, <3>2, <1>3
    <3>4. SlotFits(files, lo, hi, x, j, y) BY DEF Bounds
    <3> HIDE DEF y
    <3>5. SlotFits(files2, lo, hi2, x, j, y) BY <2>1, <3>3, <3>4 DEF SlotFits
    <3> QED BY <3>5 DEF y
  <2> QED BY <2>1, <2>2
<1>17. ASSUME c \in Ins(files)
       PROVE  /\ Sorted(files2[c].keys)
              /\ \A j \in 1 .. Len(files2[c].ptrs) : SlotFits(files2, lo, hi2, c, j, files2[c].ptrs[j])
  <2> DEFINE cp == files[c].ptrs
             dp == files[d].ptrs
             ck == files[c].keys
             dk == files[d].keys
             lc == Len(cp)
             ld == Len(dp)
             all == files2[c]
  <2>1. d \in Ins(files) BY <1>1, <1>17
  <2>2. lc \in Nat /\ ld \in Nat /\ Len(ck) = lc - 1 /\ Len(dk) = ld - 1 /\ lc >= 1 /\ ld >= 1
    <3>1. lc \in Nat /\ Len(ck) \in Nat /\ lc = Len(ck) + 1 BY <1>17, NodeFacts
    <3>2. ld \in Nat /\ Len(dk) \in Nat /\ ld = Len(dk) + 1 BY <2>1, NodeFacts
    <3> HIDE DEF lc, ld, ck, dk
    <3> QED BY <3>1, <3>2
  <2>3. /\ Len(all.ptrs) = lc + ld /\ Len(all.keys) = lc + (ld - 1)
        /\ \A j \in 1 .. lc + ld : all.ptrs[j] = IF j <= lc THEN cp[j] ELSE dp[j - lc]
        /\ \A j \in 1 .. lc + (ld - 1) : all.keys[j] = IF j < lc THEN ck[j] ELSE IF j = lc THEN s ELSE dk[j - lc]
    BY <1>17, <2>2 DEF Merged, s, keys
  <2>4. \A j \in 1 .. lc :
            /\ cp[j] \in DOMAIN files /\ lo[cp[j]] \in Int /\ hi[cp[j]] \in Int
            /\ lo[c] <= lo[cp[j]] /\ lo[cp[j]] < hi[cp[j]] /\ hi[cp[j]] <= hi[c]
            /\ j > 1 => ck[j - 1] \in Int /\ ck[j - 1] <= lo[cp[j]]
            /\ j <= lc - 1 => ck[j] \in Int /\ hi[cp[j]] <= ck[j]
    BY <1>2, <1>17, <2>2, SlotFacts, ZenonT(30)
  <2>5. \A j \in 1 .. ld :
            /\ dp[j] \in DOMAIN files /\ lo[dp[j]] \in Int /\ hi[dp[j]] \in Int
            /\ lo[d] <= lo[dp[j]] /\ lo[dp[j]] < hi[dp[j]] /\ hi[dp[j]] <= hi[d]
            /\ j > 1 => dk[j - 1] \in Int /\ dk[j - 1] <= lo[dp[j]]
            /\ j <= ld - 1 => dk[j] \in Int /\ hi[dp[j]] <= dk[j]
    BY <1>2, <2>1, <2>2, SlotFacts, ZenonT(30)
  <2>6. /\ \A a, b \in 1 .. lc - 1 : a < b => ck[a] < ck[b]
        /\ \A a, b \in 1 .. ld - 1 : a < b => dk[a] < dk[b]
    BY <1>17, <2>1, <2>2 DEF Bounds, Sorted
  <2>7. /\ \A j \in 1 .. lc : cp[j] # c
        /\ \A j \in 1 .. ld : dp[j] # c
    <3>1. \A j \in 1 .. lc : par[cp[j]] = c BY <1>17, ChildFacts
    <3>2. \A j \in 1 .. ld : par[dp[j]] = d BY <2>1, ChildFacts
    <3> QED BY <3>1, <3>2, <1>1
  <2> HIDE DEF cp, dp, ck, dk, lc, ld, all
  <2>8. \A j \in 1 .. lc - 1 : ck[j] \in Int /\ ck[j] < s
    <3> SUFFICES ASSUME NEW j \in 1 .. lc - 1 PROVE ck[j] \in Int /\ ck[j] < s OBVIOUS
    <3>1. j + 1 \in 1 .. lc /\ j + 1 > 1 /\ (j + 1) - 1 = j BY <2>2
    <3>2. ck[j] \in Int /\ ck[j] <= lo[cp[j + 1]] /\ lo[cp[j + 1]] < hi[cp[j + 1]] /\ hi[cp[j + 1]] <= hi[c]
          /\ lo[cp[j + 1]] \in Int /\ hi[cp[j + 1]] \in Int
      BY <3>1, <2>4
    <3> QED BY <3>2, <1>10, <1>11
  <2>9. \A j \in 1 .. ld - 1 : dk[j] \in Int /\ s < dk[j]
    <3> SUFFICES ASSUME NEW j \in 1 .. ld - 1 PROVE dk[j] \in Int /\ s < dk[j] OBVIOUS
    <3>1. j \in 1 .. ld BY <2>2
    <3>2. dk[j] \in Int /\ lo[d] <= lo[dp[j]] /\ lo[dp[j]] < hi[dp[j]] /\ hi[dp[j]] <= dk[j]
          /\ lo[dp[j]] \in Int /\ hi[dp[j]] \in Int
      BY <3>1, <2>5
    <3> QED BY <3>2, <1>10, <1>11
  <2>10. ASSUME NEW a \in 1 .. lc + (ld - 1), NEW b \in 1 .. lc + (ld - 1), a < b
         PROVE  all.keys[a] < all.keys[b]
    <3>1. CASE b < lc BY <3>1, <2>2, <2>3, <2>6, <2>10
    <3>2. CASE b = lc BY <3>2, <2>2, <2>3, <2>8, <2>10, SMTT(30)
    <3>3. CASE b > lc
      <4>1. b - lc \in 1 .. ld - 1 /\ all.keys[b] = dk[b - lc] BY <3>3, <2>2, <2>3
      <4>2. dk[b - lc] \in Int /\ s < dk[b - lc] BY <4>1, <2>9
      <4>3. CASE a < lc
        <5>1. a \in 1 .. lc - 1 /\ all.keys[a] = ck[a] BY <4>3, <2>2, <2>3
        <5> QED BY <4>1, <4>2, <5>1, <2>8, <1>10
      <4>4. CASE a = lc BY <4>1, <4>2, <4>4, <2>3
      <4>5. CASE a > lc
        <5>1. a - lc \in 1 .. ld - 1 /\ all.keys[a] = dk[a - lc] /\ a - lc < b - lc BY <4>5, <2>2, <2>3, <2>10
        <5> QED BY <4>1, <5>1, <2>6
      <4> QED BY <4>3, <4>4, <4>5, <2>2
    <3> QED BY <3>1, <3>2, <3>3, <2>2
  <2>11. ASSUME NEW j \in 1 .. lc + ld PROVE SlotFits(files2, lo, hi2, c, j, all.ptrs[j])
    <3>1. CASE j < lc
      <4>0. /\ j \in 1 .. lc /\ j <= lc - 1 /\ j \in 1 .. lc + (ld - 1) /\ j <= lc
            /\ j > 1 => j - 1 \in 1 .. lc + (ld - 1) /\ j - 1 < lc
        BY <3>1, <2>2
      <4>1. j \in 1 .. lc /\ j <= lc - 1 /\ all.ptrs[j] = cp[j] /\ all.keys[j] = ck[j] /\ (j > 1 => all.keys[j - 1] = ck[j - 1])
        BY <4>0, <3>1, <2>3
      <4>2. hi2[cp[j]] = hi[cp[j]] BY <4>1, <1>3, <2>4, <2>7
      <4>3. lo[c] <= lo[cp[j]] /\ hi[cp[j]] <= hi[d] BY <4>1, <2>4, <1>11
      <4> QED BY <4>1, <4>2, <4>3, <2>4, <1>3 DEF SlotFits, all
    <3>2. CASE j = lc
      <4>0. /\ j \in 1 .. lc /\ j <= lc /\ (j <= lc + (ld - 1) => j \in 1 .. lc + (ld - 1))
            /\ j > 1 => j - 1 \in 1 .. lc + (ld - 1) /\ j - 1 < lc
        BY <3>2, <2>2
      <4>1. j \in 1 .. lc /\ all.ptrs[j] = cp[j] /\ (j <= lc + (ld - 1) => all.keys[j] = s) /\ (j > 1 => all.keys[j - 1] = ck[j - 1])
        BY <4>0, <3>2, <2>2, <2>3
      <4>2. hi2[cp[j]] = hi[cp[j]] BY <4>1, <1>3, <2>4, <2>7
      <4>3. lo[c] <= lo[cp[j]] /\ hi[cp[j]] <= hi[d] /\ hi[cp[j]] <= s BY <4>1, <2>4, <1>10, <1>11
      <4> QED BY <4>1, <4>2, <4>3, <2>3, <2>4, <1>3 DEF SlotFits, all
    <3>3. CASE j > lc
      <4> DEFINE g == j - lc
      <4>1. g \in 1 .. ld /\ all.ptrs[j] = dp[g] /\ j > 1 BY <3>3, <2>2, <2>3
      <4>2. hi2[dp[g]] = hi[dp[g]] BY <4>1, <1>3, <2>5, <2>7
      <4>3. lo[c] <= lo[dp[g]] /\ hi[dp[g]] <= hi[d] /\ s <= lo[dp[g]] BY <4>1, <2>5, <1>10, <1>11
      <4>4. all.keys[j - 1] <= lo[dp[g]]
        <5>1. CASE g = 1
          <6>1. j - 1 = lc /\ j - 1 \in 1 .. lc + (ld - 1) BY <5>1, <4>1, <2>2
          <6> QED BY <6>1, <4>3, <2>3
        <5>2. CASE g # 1
          <6>1. g - 1 = (j - 1) - lc /\ j - 1 \in 1 .. lc + (ld - 1) /\ ~(j - 1 < lc) /\ j - 1 # lc /\ g > 1
            BY <5>2, <4>1, <2>2
          <6>2. all.keys[j - 1] = dk[(j - 1) - lc] BY <6>1, <2>3
          <6> QED BY <6>1, <6>2, <4>1, <2>5
        <5> QED BY <5>1, <5>2
      <4>5. j <= lc + (ld - 1) => hi[dp[g]] <= all.keys[j]
        <5> SUFFICES ASSUME j <= lc + (ld - 1) PROVE hi[dp[g]] <= all.keys[j] OBVIOUS
        <5>1. j \in 1 .. lc + (ld - 1) /\ ~(j < lc) /\ j # lc /\ g <= ld - 1 BY <3>3, <2>2
        <5>2. all.keys[j] = dk[g] BY <5>1, <2>3
        <5> QED BY <5>1, <5>2, <4>1, <2>5
      <4> HIDE DEF g
      <4> QED BY <4>1, <4>2, <4>3, <4>4, <4>5, <2>3, <1>3 DEF SlotFits, all
    <3> QED BY <3>1, <3>2, <3>3, <2>2
  <2>12. Sorted(all.keys) BY <2>10, <2>3 DEF Sorted
  <2>13. \A j \in 1 .. Len(all.ptrs) : SlotFits(files2, lo, hi2, c, j, all.ptrs[j]) BY <2>11, <2>3
  <2> QED BY <2>12, <2>13 DEF all
<1>18. ASSUME NEW x \in Ins(files2)
       PROVE  Sorted(files2[x].keys) /\ \A j \in 1 .. Len(files2[x].ptrs) : SlotFits(files2, lo, hi2, x, j, files2[x].ptrs[j])
  <2>1. x \in Ins(files) \ {d} BY <1>5
  <2>2. CASE x = p BY <2>2, <1>6, <1>14, <1>15
  <2>3. CASE x = c BY <2>1, <2>3, <1>17
  <2>4. CASE x \notin {p, c} BY <2>1, <2>4, <1>16
  <2> QED BY <2>2, <2>3, <2>4
<1>19. Bounds(files2, lo, hi2) BY <1>12, <1>13, <1>18 DEF Bounds
<1> QED BY <1>19

LEMMA RecutBounds ==
    ASSUME NEW files, NEW files2, NEW lo, NEW hi, NEW lo2, NEW hi2, NEW root, NEW h, NEW par, NEW slot,
           NEW p, NEW i, NEW c, NEW d, NEW m \in Int,
           Nodes(files), Shape(files, root, NULL_PTR, h, par, slot), Neighbours(files, p, i, c, d),
           Bounds(files, lo, hi), Recut(files, files2, p, i, c, d, m), lo[c] < m, m < hi[d],
           Moved(files, lo, hi, lo2, hi2, c, d, m), Fits(files2, lo2, hi2, c), Fits(files2, lo2, hi2, d)
    PROVE  Bounds(files2, lo2, hi2)
<1>0. /\ lo2[d] = m /\ hi2[c] = m
      /\ \A x \in DOMAIN files : (x # d => lo2[x] = lo[x]) /\ (x # c => hi2[x] = hi[x])
      /\ \A n \in {c, d} : n \in Lvs(files2) => Contained(files2, lo2, hi2, n)
      /\ \A n \in {c, d} : n \in Ins(files2) =>
              /\ Sorted(files2[n].keys)
              /\ \A j \in 1 .. Len(files2[n].ptrs) : SlotFits(files2, lo2, hi2, n, j, files2[n].ptrs[j])
  BY DEF Moved, Fits
<1> DEFINE ptrs == files[p].ptrs
           keys == files[p].keys
           len == Len(ptrs)
<1>1. /\ c \in DOMAIN files /\ d \in DOMAIN files /\ c # d /\ c # p /\ d # p /\ p \in DOMAIN files
      /\ par[c] = p /\ par[d] = p /\ slot[c] = i /\ slot[d] = i + 1
      /\ i \in Nat \ {0} /\ i + 1 \in 1 .. len /\ i \in 1 .. len /\ len \in Nat
  BY NeighbourFacts
<1>2. p \in Ins(files) /\ Kids(files) /\ c = ptrs[i] /\ d = ptrs[i + 1] BY KidsFact DEF Neighbours
<1>3. \A x \in DOMAIN files : lo[x] \in Int /\ hi[x] \in Int /\ lo[x] < hi[x] BY DEF Bounds, Bounded
<1>4. /\ DOMAIN files2 = DOMAIN files /\ Lvs(files2) = Lvs(files) /\ Ins(files2) = Ins(files)
      /\ \A x \in DOMAIN files \ {p, c, d} : files2[x] = files[x]
  BY DEF Recut
<1>5. /\ Len(keys) = len - 1 /\ files2[p].ptrs = ptrs /\ Len(files2[p].keys) = len - 1
      /\ \A j \in 1 .. len - 1 : files2[p].keys[j] = IF j = i THEN m ELSE keys[j]
  BY <1>2, NodeFacts DEF Recut
<1>6. \A j \in 1 .. len :
          /\ ptrs[j] \in DOMAIN files /\ lo[ptrs[j]] \in Int /\ hi[ptrs[j]] \in Int
          /\ lo[p] <= lo[ptrs[j]] /\ lo[ptrs[j]] < hi[ptrs[j]] /\ hi[ptrs[j]] <= hi[p] /\ lo[p] \in Int /\ hi[p] \in Int
          /\ j > 1 => keys[j - 1] \in Int /\ keys[j - 1] <= lo[ptrs[j]]
          /\ j <= len - 1 => keys[j] \in Int /\ hi[ptrs[j]] <= keys[j]
  BY <1>2, <1>5, SlotFacts
<1>7. \A a, b \in 1 .. len - 1 : a < b => keys[a] < keys[b] BY <1>2, <1>5 DEF Bounds, Sorted
<1>8. \A j \in 1 .. len : (j # i => ptrs[j] # c) /\ (j # i + 1 => ptrs[j] # d)
  <2> SUFFICES ASSUME NEW j \in 1 .. len PROVE (j # i => ptrs[j] # c) /\ (j # i + 1 => ptrs[j] # d) OBVIOUS
  <2>1. slot[ptrs[j]] = j BY <1>2, ChildFacts
  <2> QED BY <2>1, <1>1
<1>9. hi[c] <= keys[i] /\ keys[i] <= lo[d] /\ keys[i] \in Int
  <2>1. i + 1 > 1 /\ (i + 1) - 1 = i /\ i <= len - 1 BY <1>1
  <2> QED BY <2>1, <1>1, <1>2, <1>6
<1>10. lo[c] \in Int /\ hi[c] \in Int /\ lo[d] \in Int /\ hi[d] \in Int BY <1>1, <1>3
<1>11. /\ i > 1 => keys[i - 1] \in Int /\ keys[i - 1] < m
       /\ i + 1 <= len - 1 => keys[i + 1] \in Int /\ m < keys[i + 1]
  <2>1. i > 1 => keys[i - 1] \in Int /\ keys[i - 1] <= lo[c] BY <1>1, <1>2, <1>6
  <2>2. i + 1 <= len - 1 => keys[i + 1] \in Int /\ hi[d] <= keys[i + 1] BY <1>1, <1>2, <1>6
  <2> QED BY <2>1, <2>2, <1>10
<1> HIDE DEF ptrs, keys, len
<1>12. ASSUME NEW x \in DOMAIN files2 PROVE Bounded(lo2, hi2, x)
  BY <1>0, <1>1, <1>3, <1>4, <1>10, <1>12 DEF Bounded
<1>13. ASSUME NEW x \in Lvs(files2) PROVE Contained(files2, lo2, hi2, x)
  <2>1. x \in Lvs(files) /\ x \in DOMAIN files /\ x # p BY <1>2, <1>4, LeafFacts
  <2> QED BY <2>1, <1>0, <1>4, <1>13 DEF Bounds, Contained
<1>14. Sorted(files2[p].keys)
  <2>1. ASSUME NEW a \in 1 .. len - 1, NEW b \in 1 .. len - 1, a < b PROVE files2[p].keys[a] < files2[p].keys[b]
    <3>1. CASE a # i /\ b # i BY <2>1, <3>1, <1>5, <1>7
    <3>2. CASE b = i
      <4>1. i > 1 /\ i - 1 \in 1 .. len - 1 /\ (a = i - 1 \/ a < i - 1) /\ a # i /\ i \in 1 .. len - 1
        BY <2>1, <3>2, <1>1
      <4>2. a = i - 1 \/ keys[a] < keys[i - 1] BY <4>1, <1>7
      <4>3. keys[a] \in Int BY <4>1, <2>1, <1>6, <1>1
      <4> QED BY <4>1, <4>2, <4>3, <3>2, <1>5, <1>11
    <3>3. CASE a = i
      <4>1. i + 1 <= len - 1 /\ i + 1 \in 1 .. len - 1 /\ (b = i + 1 \/ i + 1 < b) /\ b # i /\ b \in 1 .. len
        BY <2>1, <3>3, <1>1
      <4>2. b = i + 1 \/ keys[i + 1] < keys[b] BY <4>1, <1>7
      <4>3. keys[b] \in Int BY <4>1, <2>1, <1>6, <1>1
      <4> QED BY <4>1, <4>2, <4>3, <3>3, <1>5, <1>11
    <3> QED BY <3>1, <3>2, <3>3
  <2> QED BY <2>1, <1>5 DEF Sorted
<1>15. ASSUME NEW j \in 1 .. len PROVE SlotFits(files2, lo2, hi2, p, j, ptrs[j])
  <2>1. lo2[p] = lo[p] /\ hi2[p] = hi[p] BY <1>0, <1>1
  <2>2. (j > 1 => j - 1 \in 1 .. len - 1) /\ (j <= len - 1 => j \in 1 .. len - 1) BY <1>1
  <2>3. CASE j = i
    <3>1. ptrs[j] = c /\ lo2[c] = lo[c] /\ hi2[c] = m /\ (j > 1 => j - 1 # i) BY <2>3, <1>0, <1>1, <1>2
    <3>2. (j > 1 => files2[p].keys[j - 1] = keys[j - 1]) /\ (j <= len - 1 => files2[p].keys[j] = m)
      BY <2>2, <2>3, <3>1, <1>5
    <3>3. lo[p] <= lo[c] /\ hi[d] <= hi[p] /\ lo[p] \in Int /\ hi[p] \in Int /\ (j > 1 => keys[j - 1] <= lo[c])
      BY <2>3, <1>1, <1>2, <1>6
    <3> QED BY <2>1, <3>1, <3>2, <3>3, <1>5, <1>10 DEF SlotFits
  <2>4. CASE j = i + 1
    <3>1. ptrs[j] = d /\ lo2[d] = m /\ hi2[d] = hi[d] /\ j - 1 = i /\ j # i BY <2>4, <1>0, <1>1, <1>2
    <3>2. (j > 1 => files2[p].keys[j - 1] = m) /\ (j <= len - 1 => files2[p].keys[j] = keys[j])
      BY <2>2, <3>1, <1>5
    <3>3. lo[p] <= lo[c] /\ hi[d] <= hi[p] /\ lo[p] \in Int /\ hi[p] \in Int /\ (j <= len - 1 => hi[d] <= keys[j])
      BY <2>4, <1>1, <1>2, <1>6
    <3> QED BY <2>1, <3>1, <3>2, <3>3, <1>5, <1>10 DEF SlotFits
  <2>5. CASE j # i /\ j # i + 1
    <3>1. ptrs[j] \in DOMAIN files /\ lo2[ptrs[j]] = lo[ptrs[j]] /\ hi2[ptrs[j]] = hi[ptrs[j]] /\ (j > 1 => j - 1 # i)
      BY <2>5, <1>0, <1>1, <1>6, <1>8
    <3>2. (j > 1 => files2[p].keys[j - 1] = keys[j - 1]) /\ (j <= len - 1 => files2[p].keys[j] = keys[j])
      BY <2>2, <2>5, <3>1, <1>5
    <3> QED BY <2>1, <3>1, <3>2, <1>5, <1>6 DEF SlotFits
  <2> QED BY <2>3, <2>4, <2>5
<1>16. ASSUME NEW x \in Ins(files) \ {p, c, d}
       PROVE  /\ files2[x] = files[x] /\ Sorted(files2[x].keys)
              /\ \A j \in 1 .. Len(files2[x].ptrs) : SlotFits(files2, lo2, hi2, x, j, files2[x].ptrs[j])
  <2>1. x \in DOMAIN files /\ files2[x] = files[x] /\ Sorted(files[x].keys) BY <1>4, NodeFacts DEF Bounds
  <2>2. ASSUME NEW j \in 1 .. Len(files[x].ptrs) PROVE SlotFits(files2, lo2, hi2, x, j, files[x].ptrs[j])
    <3> DEFINE y == files[x].ptrs[j]
    <3>1. par[y] = x /\ y \in DOMAIN files BY ChildFacts
    <3>2. y # c /\ y # d BY <3>1, <1>1
    <3>3. lo2[y] = lo[y] /\ hi2[y] = hi[y] /\ lo2[x] = lo[x] /\ hi2[x] = hi[x] BY <2>1, <3>1, <3>2, <1>0
    <3>4. SlotFits(files, lo, hi, x, j, y) BY DEF Bounds
    <3> HIDE DEF y
    <3>5. SlotFits(files2, lo2, hi2, x, j, y) BY <2>1, <3>3, <3>4 DEF SlotFits
    <3> QED BY <3>5 DEF y
  <2> QED BY <2>1, <2>2
<1>17. ASSUME NEW x \in Ins(files2)
       PROVE  Sorted(files2[x].keys) /\ \A j \in 1 .. Len(files2[x].ptrs) : SlotFits(files2, lo2, hi2, x, j, files2[x].ptrs[j])
  <2>1. CASE x = p
    <3>1. \A j \in 1 .. Len(files2[p].ptrs) : SlotFits(files2, lo2, hi2, p, j, files2[p].ptrs[j])
      BY <1>5, <1>15 DEF len
    <3> QED BY <2>1, <3>1, <1>14
  <2>2. CASE x \in {c, d} BY <2>2, <1>0, <1>17
  <2>3. CASE x \notin {p, c, d} BY <2>3, <1>4, <1>16, <1>17
  <2> QED BY <2>1, <2>2, <2>3
<1> QED BY <1>12, <1>13, <1>17 DEF Bounds

LEMMA RotatedBounds ==
    ASSUME NEW files, NEW files2, NEW lo, NEW hi, NEW root, NEW h, NEW par, NEW slot, NEW p, NEW i, NEW c, NEW d,
           Nodes(files), Shape(files, root, NULL_PTR, h, par, slot), Neighbours(files, p, i, c, d),
           Bounds(files, lo, hi), c \in Ins(files), Len(files[c].ptrs) >= 2, Rotated(files, files2, p, i, c, d)
    PROVE  \E lo2, hi2 : Bounds(files2, lo2, hi2)
<1> DEFINE cp == files[c].ptrs
           dp == files[d].ptrs
           ck == files[c].keys
           dk == files[d].keys
           lc == Len(cp)
           ld == Len(dp)
           m == ck[lc - 1]
           s == files[p].keys[i]
           left == files2[c]
           right == files2[d]
           lo2 == [x \in DOMAIN files |-> IF x = d THEN m ELSE lo[x]]
           hi2 == [x \in DOMAIN files |-> IF x = c THEN m ELSE hi[x]]
<1>1. /\ c \in DOMAIN files /\ d \in DOMAIN files /\ c # d /\ par[c] = p /\ par[d] = p
      /\ d \in Ins(files) /\ i \in 1 .. Len(files[p].ptrs) /\ i + 1 \in 1 .. Len(files[p].ptrs)
      /\ p \in Ins(files) /\ c = files[p].ptrs[i] /\ d = files[p].ptrs[i + 1] /\ c # p /\ d # p
  <2>1. /\ c \in DOMAIN files /\ d \in DOMAIN files /\ c # d /\ c # p /\ d # p /\ p \in DOMAIN files
        /\ par[c] = p /\ par[d] = p /\ slot[c] = i /\ slot[d] = i + 1
        /\ i \in Nat \ {0} /\ i + 1 \in 1 .. Len(files[p].ptrs) /\ i \in 1 .. Len(files[p].ptrs)
    BY NeighbourFacts
  <2>2. p \in Ins(files) /\ c = files[p].ptrs[i] /\ d = files[p].ptrs[i + 1] BY DEF Neighbours
  <2>3. c \in Ins(files) <=> d \in Ins(files) BY NeighbourFacts
  <2> QED BY <2>1, <2>2, <2>3
<1>2. Kids(files) BY KidsFact
<1>3. lo2[d] = m /\ hi2[c] = m /\ \A x \in DOMAIN files : (x # d => lo2[x] = lo[x]) /\ (x # c => hi2[x] = hi[x])
  BY <1>1
<1> HIDE DEF lo2, hi2
<1>4. lc \in Nat /\ ld \in Nat /\ Len(ck) = lc - 1 /\ Len(dk) = ld - 1 /\ lc >= 2 /\ ld >= 1
  <2>1. lc \in Nat /\ Len(ck) \in Nat /\ lc = Len(ck) + 1 /\ lc >= 2 BY NodeFacts
  <2>2. ld \in Nat /\ Len(dk) \in Nat /\ ld = Len(dk) + 1 BY <1>1, NodeFacts
  <2> HIDE DEF lc, ld, ck, dk
  <2> QED BY <2>1, <2>2
<1>5. /\ Len(left.ptrs) = lc - 1 /\ Len(left.keys) = lc - 2
      /\ \A j \in 1 .. lc - 1 : left.ptrs[j] = cp[j]
      /\ \A j \in 1 .. lc - 2 : left.keys[j] = ck[j]
      /\ Len(right.ptrs) = ld + 1 /\ Len(right.keys) = ld
      /\ \A j \in 1 .. ld + 1 : right.ptrs[j] = IF j = 1 THEN cp[lc] ELSE dp[j - 1]
      /\ \A j \in 1 .. ld : right.keys[j] = IF j = 1 THEN s ELSE dk[j - 1]
  <2>1. Len(files[d].keys) + 1 = ld BY <1>4
  <2> QED BY <2>1 DEF Rotated
<1>6. \A j \in 1 .. lc :
          /\ cp[j] \in DOMAIN files /\ lo[cp[j]] \in Int /\ hi[cp[j]] \in Int
          /\ lo[c] <= lo[cp[j]] /\ lo[cp[j]] < hi[cp[j]] /\ hi[cp[j]] <= hi[c] /\ lo[c] \in Int /\ hi[c] \in Int
          /\ j > 1 => ck[j - 1] \in Int /\ ck[j - 1] <= lo[cp[j]]
          /\ j <= lc - 1 => ck[j] \in Int /\ hi[cp[j]] <= ck[j]
  BY <1>2, <1>4, SlotFacts
<1>7. \A j \in 1 .. ld :
          /\ dp[j] \in DOMAIN files /\ lo[dp[j]] \in Int /\ hi[dp[j]] \in Int
          /\ lo[d] <= lo[dp[j]] /\ lo[dp[j]] < hi[dp[j]] /\ hi[dp[j]] <= hi[d] /\ lo[d] \in Int /\ hi[d] \in Int
          /\ j > 1 => dk[j - 1] \in Int /\ dk[j - 1] <= lo[dp[j]]
          /\ j <= ld - 1 => dk[j] \in Int /\ hi[dp[j]] <= dk[j]
  <2>1. d \in Ins(files) BY <1>1
  <2> QED BY <2>1, <1>2, <1>4, SlotFacts
<1>8. /\ \A a, b \in 1 .. lc - 1 : a < b => ck[a] < ck[b]
      /\ \A a, b \in 1 .. ld - 1 : a < b => dk[a] < dk[b]
  BY <1>1, <1>4 DEF Bounds, Sorted
<1>9. /\ \A j \in 1 .. lc : cp[j] \notin {c, d}
      /\ \A j \in 1 .. ld : dp[j] \notin {c, d}
  <2>1. \A j \in 1 .. lc : par[cp[j]] = c BY ChildFacts
  <2>2. \A j \in 1 .. ld : par[dp[j]] = d BY <1>1, ChildFacts
  <2> QED BY <2>1, <2>2, <1>1
<1>10. hi[c] <= s /\ s <= lo[d] /\ s \in Int
  <2>1. /\ i <= Len(files[p].keys) => files[p].keys[i] \in Int /\ hi[c] <= files[p].keys[i]
        /\ i + 1 > 1 => files[p].keys[(i + 1) - 1] <= lo[d]
    BY <1>1, <1>2, SlotFacts
  <2>2. i <= Len(files[p].keys) /\ i + 1 > 1 /\ (i + 1) - 1 = i
    <3>1. Len(files[p].keys) \in Nat /\ Len(files[p].ptrs) = Len(files[p].keys) + 1 /\ Len(files[p].ptrs) \in Nat
      BY <1>1, NodeFacts
    <3> QED BY <1>1, <3>1
  <2> QED BY <2>1, <2>2
<1>11. Recut(files, files2, p, i, c, d, m) BY DEF Recut, Rotated
<1> HIDE DEF cp, dp, ck, dk, lc, ld, m, s, left, right
<1>12. m = ck[lc - 1] /\ m \in Int /\ lo[c] < m /\ m < hi[d] /\ m < s
  <2>1. lc - 1 \in 1 .. lc /\ lc \in 1 .. lc /\ lc > 1 /\ lc - 1 <= lc - 1 BY <1>4
  <2>2. m = ck[lc - 1] BY DEF m
  <2>3. /\ lo[c] <= lo[cp[lc - 1]] /\ lo[cp[lc - 1]] < hi[cp[lc - 1]] /\ hi[cp[lc - 1]] <= m /\ m \in Int
        /\ lo[c] \in Int /\ lo[cp[lc - 1]] \in Int /\ hi[cp[lc - 1]] \in Int
    BY <2>1, <2>2, <1>6
  <2>4. m <= lo[cp[lc]] /\ lo[cp[lc]] < hi[cp[lc]] /\ hi[cp[lc]] <= hi[c] /\ lo[cp[lc]] \in Int /\ hi[cp[lc]] \in Int /\ hi[c] \in Int
    BY <2>1, <2>2, <1>6
  <2>5. m < s /\ lo[c] < m BY <2>3, <2>4, <1>10
  <2>6. 1 \in 1 .. ld BY <1>4
  <2>7. s <= lo[d] /\ lo[d] <= lo[dp[1]] /\ lo[dp[1]] < hi[dp[1]] /\ hi[dp[1]] <= hi[d] /\ lo[d] \in Int /\ hi[d] \in Int /\ lo[dp[1]] \in Int /\ hi[dp[1]] \in Int
    BY <2>6, <1>7, <1>10
  <2>8. m < hi[d] BY <2>3, <2>5, <2>7, <1>10
  <2> QED BY <2>2, <2>3, <2>5, <2>8
<1>13. \A j \in 1 .. lc : lo2[cp[j]] = lo[cp[j]] /\ hi2[cp[j]] = hi[cp[j]] BY <1>3, <1>6, <1>9
<1>14. \A j \in 1 .. ld : lo2[dp[j]] = lo[dp[j]] /\ hi2[dp[j]] = hi[dp[j]] BY <1>3, <1>7, <1>9
<1>15. lo2[c] = lo[c] /\ hi2[d] = hi[d] BY <1>1, <1>3
<1>16. Sorted(left.keys) /\ \A j \in 1 .. Len(left.ptrs) : SlotFits(files2, lo2, hi2, c, j, left.ptrs[j])
  <2>1. Sorted(left.keys) BY <1>4, <1>5, <1>8 DEF Sorted
  <2>2. ASSUME NEW j \in 1 .. lc - 1 PROVE SlotFits(files2, lo2, hi2, c, j, left.ptrs[j])
    <3>1. /\ j \in 1 .. lc /\ j <= lc - 1 /\ left.ptrs[j] = cp[j] /\ (j = lc - 1 \/ j < lc - 1) /\ lc - 1 \in 1 .. lc - 1
          /\ (j > 1 => j - 1 \in 1 .. lc - 2) /\ (j <= lc - 2 => j \in 1 .. lc - 2)
      BY <1>4, <1>5
    <3>2. (j > 1 => left.keys[j - 1] = ck[j - 1]) /\ (j <= lc - 2 => left.keys[j] = ck[j]) BY <3>1, <1>5
    <3>3. ck[j] <= m /\ ck[j] \in Int BY <3>1, <1>6, <1>8, <1>12
    <3>4. lo[c] <= lo[cp[j]] /\ hi[cp[j]] <= ck[j] /\ hi[cp[j]] \in Int /\ (j > 1 => ck[j - 1] <= lo[cp[j]])
      BY <3>1, <1>6
    <3>5. hi[cp[j]] <= m BY <3>3, <3>4, <1>12
    <3>6. lo2[cp[j]] = lo[cp[j]] /\ hi2[cp[j]] = hi[cp[j]] BY <3>1, <1>13
    <3> QED BY <3>1, <3>2, <3>4, <3>5, <3>6, <1>3, <1>5, <1>15 DEF SlotFits, left
  <2> QED BY <2>1, <2>2, <1>5
<1>17. Sorted(right.keys) /\ \A j \in 1 .. Len(right.ptrs) : SlotFits(files2, lo2, hi2, d, j, right.ptrs[j])
  <2>1. \A j \in 1 .. ld - 1 : dk[j] \in Int /\ s < dk[j]
    <3> SUFFICES ASSUME NEW j \in 1 .. ld - 1 PROVE dk[j] \in Int /\ s < dk[j] OBVIOUS
    <3>1. j \in 1 .. ld /\ j <= ld - 1 BY <1>4
    <3>2. dk[j] \in Int /\ lo[d] <= lo[dp[j]] /\ lo[dp[j]] < hi[dp[j]] /\ hi[dp[j]] <= dk[j]
          /\ lo[dp[j]] \in Int /\ hi[dp[j]] \in Int /\ lo[d] \in Int
      BY <3>1, <1>7
    <3> QED BY <3>2, <1>10
  <2>2. ASSUME NEW a \in 1 .. ld, NEW b \in 1 .. ld, a < b PROVE right.keys[a] < right.keys[b]
    <3>1. b - 1 \in 1 .. ld - 1 /\ right.keys[b] = dk[b - 1]
      <4>1. b # 1 /\ b - 1 \in 1 .. ld - 1 BY <2>2, <1>4
      <4> QED BY <4>1, <1>5
    <3>2. CASE a = 1 BY <3>1, <3>2, <2>1, <1>5
    <3>3. CASE a # 1
      <4>1. a - 1 \in 1 .. ld - 1 /\ a - 1 < b - 1 BY <2>2, <3>3, <1>4
      <4> QED BY <3>1, <3>3, <4>1, <1>5, <1>8
    <3> QED BY <3>2, <3>3
  <2>3. ASSUME NEW j \in 1 .. ld + 1 PROVE SlotFits(files2, lo2, hi2, d, j, right.ptrs[j])
    <3>1. CASE j = 1
      <4>1. right.ptrs[j] = cp[lc] /\ lc \in 1 .. lc /\ lc > 1 /\ 1 \in 1 .. ld /\ right.keys[1] = s
        BY <3>1, <1>4, <1>5, SMTT(30)
      <4>2. m <= lo[cp[lc]] /\ hi[cp[lc]] <= hi[c] /\ hi[cp[lc]] \in Int /\ hi[c] \in Int BY <4>1, <1>6, <1>12
      <4>3. hi[cp[lc]] <= s BY <4>2, <1>10
      <4>4. s <= lo[d] /\ lo[d] <= lo[dp[1]] /\ lo[dp[1]] < hi[dp[1]] /\ hi[dp[1]] <= hi[d]
            /\ lo[d] \in Int /\ hi[d] \in Int /\ lo[dp[1]] \in Int /\ hi[dp[1]] \in Int
        BY <4>1, <1>7, <1>10
      <4>5. hi[cp[lc]] <= hi[d] BY <4>2, <4>3, <4>4, <1>10
      <4>6. lo2[cp[lc]] = lo[cp[lc]] /\ hi2[cp[lc]] = hi[cp[lc]] BY <4>1, <1>13
      <4> QED BY <3>1, <4>1, <4>2, <4>3, <4>5, <4>6, <1>3, <1>5, <1>15 DEF SlotFits, right
    <3>2. CASE j # 1
      <4> DEFINE g == j - 1
      <4>1. g \in 1 .. ld /\ right.ptrs[j] = dp[g] /\ j > 1 /\ (j <= ld => j \in 1 .. ld /\ g <= ld - 1)
        BY <3>2, <1>4, <1>5
      <4>2. lo[d] <= lo[dp[g]] /\ hi[dp[g]] <= hi[d] /\ lo[d] \in Int /\ lo[dp[g]] \in Int /\ (g <= ld - 1 => hi[dp[g]] <= dk[g])
        BY <4>1, <1>7
      <4>3. s <= lo[dp[g]] /\ m <= lo[dp[g]] BY <4>2, <1>10, <1>12
      <4>4. right.keys[g] <= lo[dp[g]]
        <5>1. CASE g = 1 BY <5>1, <4>1, <4>3, <1>5
        <5>2. CASE g # 1
          <6>1. right.keys[g] = dk[g - 1] /\ g > 1 BY <5>2, <4>1, <1>5
          <6> QED BY <6>1, <4>1, <1>7
        <5> QED BY <5>1, <5>2
      <4>5. j <= ld => hi[dp[g]] <= right.keys[j]
        <5>1. j <= ld => right.keys[j] = dk[g] BY <3>2, <4>1, <1>5
        <5> QED BY <4>1, <4>2, <5>1
      <4>6. lo2[dp[g]] = lo[dp[g]] /\ hi2[dp[g]] = hi[dp[g]] BY <4>1, <1>14
      <4> QED BY <4>1, <4>2, <4>3, <4>4, <4>5, <4>6, <1>3, <1>5, <1>15 DEF SlotFits, right
    <3> QED BY <3>1, <3>2
  <2>4. Sorted(right.keys) BY <2>2, <1>5 DEF Sorted
  <2> QED BY <2>3, <2>4, <1>5
<1>18. \A n \in {c, d} : n \in Lvs(files2) => Contained(files2, lo2, hi2, n)
  <2>1. c \notin Lvs(files2) /\ d \notin Lvs(files2) BY <1>1, <1>11, Kinds DEF Recut
  <2> QED BY <2>1
<1>19. \A n \in {c, d} : n \in Ins(files2) =>
              /\ Sorted(files2[n].keys)
              /\ \A j \in 1 .. Len(files2[n].ptrs) : SlotFits(files2, lo2, hi2, n, j, files2[n].ptrs[j])
  BY <1>16, <1>17 DEF left, right
<1>20. Bounds(files2, lo2, hi2)
  <2>1. m \in Int /\ lo[c] < m /\ m < hi[d] BY <1>12
  <2>2. Moved(files, lo, hi, lo2, hi2, c, d, m) BY <1>3 DEF Moved
  <2>3. Fits(files2, lo2, hi2, c) /\ Fits(files2, lo2, hi2, d) BY <1>18, <1>19 DEF Fits
  <2> QED BY <2>1, <2>2, <2>3, <1>11, RecutBounds
<1> QED BY <1>20

-----------------------------------------------------------------------------
(* The nodes of one level, in order *)

\* A node that is not the root hangs below another.
LEMMA ParentFacts ==
    ASSUME NEW files, NEW root, NEW h, NEW par, NEW slot, Nodes(files),
           Shape(files, root, NULL_PTR, h, par, slot), NEW a \in DOMAIN files \ {root}
    PROVE  /\ par[a] \in Ins(files) /\ par[a] \in DOMAIN files
           /\ slot[a] \in 1 .. Len(files[par[a]].ptrs) /\ files[par[a]].ptrs[slot[a]] = a
           /\ h[a] \in Nat /\ h[par[a]] = h[a] + 1
<1>1. ChildOf(files, par, slot, a) BY NoNull DEF Shape
<1>2. par[a] \in Ins(files) /\ slot[a] \in 1 .. Len(files[par[a]].ptrs) /\ files[par[a]].ptrs[slot[a]] = a
  BY <1>1 DEF ChildOf
<1>3. h[par[a]] = h[a] + 1 /\ par[a] \in DOMAIN files /\ h[a] \in Nat BY <1>2, ChildFacts
<1> QED BY <1>2, <1>3

\* The only node as high as the root is the root.
LEMMA TopIsRoot ==
    ASSUME NEW files, NEW root, NEW h, NEW par, NEW slot, Nodes(files),
           Shape(files, root, NULL_PTR, h, par, slot), NEW a \in DOMAIN files, h[a] = h[root]
    PROVE  a = root
<1> SUFFICES ASSUME a # root PROVE FALSE OBVIOUS
<1>1. par[a] \in DOMAIN files /\ h[par[a]] = h[a] + 1 /\ h[a] \in Nat BY ParentFacts
<1>2. h[par[a]] <= h[root] /\ h[root] \in Nat BY <1>1, Heights
<1> QED BY <1>1, <1>2

LEMMA OnlyLeaf ==
    ASSUME NEW files, NEW root, NEW h, NEW par, NEW slot, Nodes(files),
           Shape(files, root, NULL_PTR, h, par, slot), root \in Lvs(files)
    PROVE  DOMAIN files = {root}
<1>1. root \in DOMAIN files /\ h[root] = 0 BY Heights
<1>2. ASSUME NEW a \in DOMAIN files PROVE a = root
  <2>1. h[a] \in Nat /\ h[a] <= h[root] BY Heights
  <2> QED BY <2>1, <1>1, TopIsRoot
<1> QED BY <1>1, <1>2

\* Two children of one node: the left one has the smaller keys.
LEMMA SlotsApart ==
    ASSUME NEW files, NEW lo, NEW hi, Nodes(files), Kids(files), Bounds(files, lo, hi),
           NEW n \in Ins(files), NEW i \in 1 .. Len(files[n].ptrs), NEW j \in 1 .. Len(files[n].ptrs), i < j
    PROVE  hi[files[n].ptrs[i]] <= lo[files[n].ptrs[j]]
<1> DEFINE a == files[n].ptrs[i]
           b == files[n].ptrs[j]
           keys == files[n].keys
           len == Len(keys)
<1>1. len \in Nat /\ i \in 1 .. len /\ j - 1 \in 1 .. len /\ j > 1 /\ i <= len /\ (i = j - 1 \/ i < j - 1)
  BY NodeFacts
<1>2. hi[a] <= keys[i] /\ hi[a] \in Int /\ keys[i] \in Int BY <1>1, SlotFacts
<1>3. keys[j - 1] <= lo[b] /\ lo[b] \in Int /\ keys[j - 1] \in Int BY <1>1, SlotFacts
<1>4. i = j - 1 \/ keys[i] < keys[j - 1] BY <1>1 DEF Bounds, Sorted
<1> HIDE DEF a, b, keys, len
<1>5. hi[a] <= lo[b] BY <1>2, <1>3, <1>4
<1> QED BY <1>5 DEF a, b

LEMMA Disjoint ==
    ASSUME NEW files, NEW root, NEW h, NEW par, NEW slot, NEW lo, NEW hi, Nodes(files),
           Shape(files, root, NULL_PTR, h, par, slot), Bounds(files, lo, hi),
           NEW a \in DOMAIN files, NEW b \in DOMAIN files, a # b, h[a] = h[b]
    PROVE  Apart(lo, hi, a, b)
<1> DEFINE Good(x, y, d) == x # y /\ h[x] = h[y] /\ h[x] + d = h[root] => Apart(lo, hi, x, y)
           S == {d \in Nat : \A x, y \in DOMAIN files : Good(x, y, d)}
<1>1. h[root] \in Nat /\ Kids(files) /\ \A x \in DOMAIN files : h[x] \in Nat /\ h[x] <= h[root]
  BY Heights, KidsFact
<1>2. 0 \in S
  <2>1. ASSUME NEW x \in DOMAIN files, NEW y \in DOMAIN files, x # y, h[x] = h[y], h[x] + 0 = h[root] PROVE FALSE
    <3>1. h[x] = h[root] /\ h[y] = h[root] BY <2>1, <1>1
    <3> QED BY <2>1, <3>1, TopIsRoot
  <2> QED BY <2>1
<1>3. ASSUME NEW d \in S PROVE d + 1 \in S
  <2>1. ASSUME NEW x \in DOMAIN files, NEW y \in DOMAIN files, x # y, h[x] = h[y], h[x] + (d + 1) = h[root]
        PROVE  Apart(lo, hi, x, y)
    <3>1. x # root /\ y # root /\ d \in Nat BY <2>1, <1>1
    <3> DEFINE px == par[x]
               py == par[y]
    <3>2. /\ px \in Ins(files) /\ px \in DOMAIN files /\ slot[x] \in 1 .. Len(files[px].ptrs) /\ files[px].ptrs[slot[x]] = x
          /\ h[x] \in Nat /\ h[px] = h[x] + 1
      BY <3>1, ParentFacts
    <3>3. /\ py \in Ins(files) /\ py \in DOMAIN files /\ slot[y] \in 1 .. Len(files[py].ptrs) /\ files[py].ptrs[slot[y]] = y
          /\ h[y] \in Nat /\ h[py] = h[y] + 1
      BY <3>1, ParentFacts
    <3> HIDE DEF px, py
    <3>4. /\ lo[x] \in Int /\ hi[x] \in Int /\ lo[px] <= lo[x] /\ hi[x] <= hi[px] /\ lo[px] \in Int /\ hi[px] \in Int
      BY <1>1, <3>2, SlotFacts
    <3>5. /\ lo[y] \in Int /\ hi[y] \in Int /\ lo[py] <= lo[y] /\ hi[y] <= hi[py] /\ lo[py] \in Int /\ hi[py] \in Int
      BY <1>1, <3>3, SlotFacts
    <3>6. CASE px = py
      <4>1. slot[x] # slot[y] /\ slot[x] \in Nat /\ slot[y] \in Nat
        <5>1. Len(files[px].ptrs) \in Nat BY <3>2, NodeFacts
        <5> QED BY <5>1, <3>2, <3>3, <3>6, <2>1
      <4>2. CASE slot[x] < slot[y] BY <4>2, <3>2, <3>3, <3>6, <1>1, SlotsApart DEF Apart
      <4>3. CASE slot[y] < slot[x] BY <4>3, <3>2, <3>3, <3>6, <1>1, SlotsApart DEF Apart
      <4> QED BY <4>1, <4>2, <4>3
    <3>7. CASE px # py
      <4>1. h[px] = h[py] /\ h[px] + d = h[root]
        <5>1. h[px] = h[x] + 1 /\ h[py] = h[x] + 1 /\ h[x] \in Nat /\ h[x] + (d + 1) = h[root]
          BY <3>2, <3>3, <2>1
        <5> HIDE DEF S
        <5> QED BY <5>1, <3>1
      <4>2. Good(px, py, d) BY <3>2, <3>3
      <4>3. Apart(lo, hi, px, py) BY <4>1, <4>2, <3>7
      <4> QED BY <4>3, <3>4, <3>5 DEF Apart
    <3> QED BY <3>6, <3>7
  <2> QED BY <2>1
<1>4. S = Nat
  <2> HIDE DEF S
  <2>1. S \in SUBSET Nat BY DEF S
  <2> QED BY <2>1, <1>2, <1>3, Induction
<1>5. h[root] - h[a] \in Nat /\ h[a] + (h[root] - h[a]) = h[root] BY <1>1
<1>6. Good(a, b, h[root] - h[a]) BY <1>4, <1>5
<1> QED BY <1>5, <1>6

LEMMA BoundsLt ==
    ASSUME NEW files, NEW lo, NEW hi, Nodes(files), Bounds(files, lo, hi),
           NEW a \in Lvs(files), NEW b \in Lvs(files), hi[a] <= lo[b]
    PROVE  Lt(files, a, b)
<1>1. DOMAIN files[a].data \subseteq Nat /\ DOMAIN files[b].data \subseteq Nat /\ a \in DOMAIN files /\ b \in DOMAIN files
  BY LeafFacts
<1>2. hi[a] \in Int /\ lo[b] \in Int BY <1>1 DEF Bounds, Bounded
<1>3. \A x \in DOMAIN files[a].data : x <= hi[a] BY DEF Bounds, Contained
<1>4. \A y \in DOMAIN files[b].data : lo[b] < y BY DEF Bounds, Contained
<1> QED BY <1>1, <1>2, <1>3, <1>4 DEF Lt

LEMMA TotalIs ==
    ASSUME NEW files, NEW root, NEW h, NEW par, NEW slot, NEW lo, NEW hi, Nodes(files),
           Shape(files, root, NULL_PTR, h, par, slot), Bounds(files, lo, hi)
    PROVE  Total(files)
<1> SUFFICES ASSUME NEW a \in Lvs(files), NEW b \in Lvs(files), a # b
             PROVE  Lt(files, a, b) \/ Lt(files, b, a)
  BY DEF Total
<1>1. a \in DOMAIN files /\ b \in DOMAIN files BY LeafFacts
<1>2. h[a] = 0 /\ h[b] = 0 BY <1>1, Heights
<1>3. Apart(lo, hi, a, b) BY <1>1, <1>2, Disjoint
<1> QED BY <1>3, BoundsLt DEF Apart

LEMMA AdjacentIs ==
    ASSUME NEW files, NEW root, NEW h, NEW par, NEW slot, NEW lo, NEW hi, NEW p, NEW i, NEW c, NEW d, Nodes(files),
           Shape(files, root, NULL_PTR, h, par, slot), Bounds(files, lo, hi), Neighbours(files, p, i, c, d),
           c \in Lvs(files), d \in Lvs(files)
    PROVE  Adjacent(files, c, d) /\ hi[c] <= lo[d]
<1>1. /\ c \in DOMAIN files /\ d \in DOMAIN files /\ c # d /\ c # root /\ d # root /\ p \in DOMAIN files
      /\ par[c] = p /\ par[d] = p /\ slot[c] = i /\ slot[d] = i + 1
      /\ i \in Nat \ {0} /\ i + 1 \in 1 .. Len(files[p].ptrs) /\ i \in 1 .. Len(files[p].ptrs) /\ Len(files[p].ptrs) \in Nat
  BY NeighbourFacts
<1>2. p \in Ins(files) /\ c = files[p].ptrs[i] /\ d = files[p].ptrs[i + 1] /\ Kids(files)
  BY KidsFact DEF Neighbours
<1>3. hi[c] <= lo[d]
  <2>1. i < i + 1 BY <1>1
  <2> QED BY <1>1, <1>2, <2>1, SlotsApart
<1>4. ASSUME NEW l \in Lvs(files) \ {c, d} PROVE hi[l] <= lo[c] \/ hi[d] <= lo[l]
  <2>1. l \in DOMAIN files /\ h[l] = 0 /\ h[c] = 0 BY <1>1, LeafFacts, Heights
  <2>2. h[root] # 0
    <3>1. c \in DOMAIN files \ {root} BY <1>1
    <3>2. par[c] \in DOMAIN files /\ h[par[c]] = h[c] + 1 BY <3>1, ParentFacts
    <3>3. h[par[c]] <= h[root] /\ h[root] \in Nat BY <3>2, Heights
    <3> QED BY <3>2, <3>3, <2>1
  <2>3. l # root BY <2>1, <2>2
  <2> DEFINE q == par[l]
  <2>4. /\ q \in Ins(files) /\ q \in DOMAIN files /\ slot[l] \in 1 .. Len(files[q].ptrs) /\ files[q].ptrs[slot[l]] = l
        /\ h[q] = h[l] + 1
    BY <2>1, <2>3, ParentFacts
  <2>5. h[p] = h[c] + 1 BY <1>1, ParentFacts
  <2> HIDE DEF q
  <2>6. lo[q] <= lo[l] /\ hi[l] <= hi[q] /\ lo[q] \in Int /\ hi[q] \in Int /\ lo[l] \in Int /\ hi[l] \in Int
    BY <1>2, <2>4, SlotFacts
  <2>7. lo[p] <= lo[c] /\ hi[c] <= hi[p] /\ lo[p] \in Int /\ hi[p] \in Int /\ lo[c] \in Int /\ hi[c] \in Int
    BY <1>1, <1>2, SlotFacts
  <2>8. lo[p] <= lo[d] /\ hi[d] <= hi[p] /\ lo[d] \in Int /\ hi[d] \in Int BY <1>1, <1>2, SlotFacts
  <2>9. CASE q = p
    <3>1. slot[l] \in 1 .. Len(files[p].ptrs) /\ files[p].ptrs[slot[l]] = l BY <2>4, <2>9
    <3>2. slot[l] # i /\ slot[l] # i + 1 BY <3>1, <1>2, <1>4
    <3>3. slot[l] < i \/ i + 1 < slot[l] BY <3>1, <3>2, <1>1
    <3>4. CASE slot[l] < i BY <3>1, <3>4, <1>1, <1>2, SlotsApart
    <3>5. CASE i + 1 < slot[l] BY <3>1, <3>5, <1>1, <1>2, SlotsApart
    <3> QED BY <3>3, <3>4, <3>5
  <2>10. CASE q # p
    <3>1. h[q] = h[p] BY <2>1, <2>4, <2>5
    <3>2. Apart(lo, hi, q, p) BY <1>1, <2>4, <2>10, <3>1, Disjoint
    <3> QED BY <3>2, <2>6, <2>7, <2>8 DEF Apart
  <2> QED BY <2>9, <2>10
<1>5. Lt(files, c, d) /\ \A l \in Lvs(files) \ {c, d} : Lt(files, l, c) \/ Lt(files, d, l)
  BY <1>3, <1>4, BoundsLt
<1> QED BY <1>3, <1>5 DEF Adjacent

\* The leaves keep their order when each keeps one of its keys.
LEMMA SameChain ==
    ASSUME NEW files, NEW files2, Nodes(files), Nodes(files2), Chain(files), Total(files2), Lvs(files2) = Lvs(files),
           \A n \in Lvs(files) : files2[n].next = files[n].next,
           \A n \in Lvs(files) : DOMAIN files[n].data \cap DOMAIN files2[n].data # {}
    PROVE  Chain(files2)
<1>1. ASSUME NEW a \in Lvs(files), NEW b \in Lvs(files), a # b, Lt(files, a, b) PROVE Lt(files2, a, b)
  <2>1. PICK x \in DOMAIN files[a].data : x \in DOMAIN files2[a].data OBVIOUS
  <2>2. PICK y \in DOMAIN files[b].data : y \in DOMAIN files2[b].data OBVIOUS
  <2>3. x < y /\ x \in Int /\ y \in Int BY <1>1, <2>1, <2>2, LeafFacts DEF Lt
  <2>4. Lt(files2, b, a) => y < x BY <2>1, <2>2 DEF Lt
  <2> QED BY <2>3, <2>4, <1>1 DEF Total
<1>2. ASSUME NEW n \in Lvs(files), files[n].next # NULL_PTR PROVE Follows(files2, n, files[n].next)
  <2>1. Follows(files, n, files[n].next) BY <1>2 DEF Chain
  <2> QED BY <2>1, <1>1 DEF Follows
<1> QED BY <1>2 DEF Chain

LEMMA SoleChain ==
    ASSUME NEW files, NEW files2, NEW r, Chain(files), Lvs(files) = {r}, Lvs(files2) = {r}, files2[r].next = files[r].next
    PROVE  Chain(files2)
BY DEF Chain, Follows

\* c keeps its smaller keys and the new leaf, which comes next, gets the others.
LEMMA SplitChain ==
    ASSUME NEW files, NEW files2, NEW lo, NEW hi, NEW c \in Lvs(files), NEW new, NEW k \in Int,
           Nodes(files), Filled(files), Chain(files), Bounds(files, lo, hi), lo[c] < k, k <= hi[c],
           Aside(files, lo, hi, c), new \notin DOMAIN files, Lvs(files2) = Lvs(files) \cup {new},
           files2[c].next = new, files2[new].next = NULL_PTR, Lt(files2, c, new), Parted(files, files2, c, new, k)
    PROVE  Chain(files2)
<1>0. /\ \A n \in Lvs(files) \ {c} : files2[n] = files[n]
      /\ DOMAIN files2[c].data \subseteq DOMAIN files[c].data \cup {k}
      /\ DOMAIN files2[new].data \subseteq DOMAIN files[c].data \cup {k}
      /\ \A l \in Lvs(files) \ {c} : Apart(lo, hi, c, l)
  BY DEF Parted, Aside
<1> USE <1>0
<1>1. /\ c # new /\ \A l \in Lvs(files) : l # new
      /\ \A l \in Lvs(files) : \A x \in DOMAIN files[l].data : x \in Int /\ lo[l] < x /\ x <= hi[l]
      /\ \A l \in Lvs(files) : lo[l] \in Int /\ hi[l] \in Int
  <2>1. \A l \in Lvs(files) : l \in DOMAIN files /\ DOMAIN files[l].data \subseteq Int BY LeafFacts
  <2> QED BY <2>1 DEF Bounds, Bounded, Contained
<1> DEFINE all == DOMAIN files[c].data \cup {k}
<1>2. \A x \in all : x \in Int /\ lo[c] < x /\ x <= hi[c] BY <1>1
<1>3. ASSUME NEW l \in Lvs(files) \ {c}
      PROVE  /\ Lt(files, c, l) => \A x \in all, y \in DOMAIN files[l].data : x < y
             /\ Lt(files, l, c) => \A x \in all, y \in DOMAIN files[l].data : y < x
  <2>1. PICK z \in DOMAIN files[l].data : TRUE BY DEF Filled
  <2>2. PICK w \in DOMAIN files[c].data : TRUE BY DEF Filled
  <2>3. lo[l] \in Int /\ hi[l] \in Int /\ lo[c] \in Int /\ hi[c] \in Int BY <1>1
  <2>4. z \in Int /\ lo[l] < z /\ z <= hi[l] /\ w \in Int /\ lo[c] < w /\ w <= hi[c] BY <1>1
  <2>5. CASE hi[c] <= lo[l]
    <3>1. ~Lt(files, l, c)
      <4>1. w < z BY <2>3, <2>4, <2>5
      <4>2. Lt(files, l, c) => z < w BY DEF Lt
      <4> QED BY <4>1, <4>2, <2>4
    <3>2. \A x \in all, y \in DOMAIN files[l].data : x < y
      <4> HIDE DEF all
      <4> QED BY <1>1, <1>2, <2>3, <2>5
    <3> QED BY <3>1, <3>2
  <2>6. CASE hi[l] <= lo[c]
    <3>1. ~Lt(files, c, l)
      <4>1. z < w BY <2>3, <2>4, <2>6
      <4>2. Lt(files, c, l) => w < z BY DEF Lt
      <4> QED BY <4>1, <4>2, <2>4
    <3>2. \A x \in all, y \in DOMAIN files[l].data : y < x
      <4> HIDE DEF all
      <4> QED BY <1>1, <1>2, <2>3, <2>6
    <3> QED BY <3>1, <3>2
  <2> QED BY <2>5, <2>6 DEF Apart
<1>4. ASSUME NEW l \in Lvs(files) \ {c}
      PROVE  /\ Lt(files, c, l) => Lt(files2, c, l) /\ Lt(files2, new, l)
             /\ Lt(files, l, c) => Lt(files2, l, c) /\ Lt(files2, l, new)
  <2>1. files2[l] = files[l] OBVIOUS
  <2> QED BY <2>1, <1>3 DEF Lt
<1>5. \A a, b \in Lvs(files) \ {c} : Lt(files, a, b) <=> Lt(files2, a, b) BY DEF Lt
<1>6. ASSUME NEW n \in Lvs(files2), files2[n].next # NULL_PTR PROVE Follows(files2, n, files2[n].next)
  <2>1. CASE n = c
    <3>1. ASSUME NEW l \in Lvs(files2) \ {c, new} PROVE Lt(files2, l, c) \/ Lt(files2, new, l)
      <4>1. l \in Lvs(files) \ {c} BY <3>1
      <4>2. \/ \A x \in DOMAIN files[c].data, y \in DOMAIN files[l].data : x < y
            \/ \A x \in DOMAIN files[c].data, y \in DOMAIN files[l].data : y < x
        <5>1. lo[l] \in Int /\ hi[l] \in Int /\ lo[c] \in Int /\ hi[c] \in Int BY <1>1, <4>1
        <5>2. \A x \in DOMAIN files[c].data : x \in Int /\ lo[c] < x /\ x <= hi[c] BY <1>1
        <5>3. \A x \in DOMAIN files[l].data : x \in Int /\ lo[l] < x /\ x <= hi[l] BY <1>1, <4>1
        <5> QED BY <4>1, <5>1, <5>2, <5>3 DEF Apart
      <4>3. Lt(files, c, l) \/ Lt(files, l, c) BY <4>2 DEF Lt
      <4> QED BY <4>1, <4>3, <1>4
    <3>2. new \in Lvs(files2) \ {c} BY <1>1
    <3> QED BY <2>1, <3>1, <3>2 DEF Follows
  <2>2. CASE n = new BY <1>6, <2>2
  <2>3. CASE n \in Lvs(files) \ {c}
    <3> DEFINE m == files[n].next
    <3>1. files2[n].next = m /\ m # NULL_PTR BY <1>6, <2>3
    <3>2. Follows(files, n, m) BY <2>3, <3>1 DEF Chain
    <3> HIDE DEF m
    <3>3. m \in Lvs(files) \ {n} /\ Lt(files, n, m) /\ \A l \in Lvs(files) \ {n, m} : Lt(files, l, n) \/ Lt(files, m, l)
      BY <3>2 DEF Follows
    <3>4. Lt(files2, n, m) BY <2>3, <3>3, <1>4, <1>5
    <3>5. ASSUME NEW l \in Lvs(files2) \ {n, m} PROVE Lt(files2, l, n) \/ Lt(files2, m, l)
      <4>1. CASE l = new
        <5>1. CASE m = c BY <4>1, <5>1
        <5>2. CASE m # c
          <6>1. Lt(files, c, n) \/ Lt(files, m, c) BY <3>3, <5>2, <2>3
          <6> QED BY <6>1, <5>2, <4>1, <3>3, <2>3, <1>4
        <5> QED BY <5>1, <5>2
      <4>2. CASE l \in Lvs(files)
        <5>1. Lt(files, l, n) \/ Lt(files, m, l) BY <3>3, <3>5, <4>2
        <5>2. Lt(files, l, n) => Lt(files2, l, n) BY <2>3, <3>5, <4>2, <1>4, <1>5
        <5>3. Lt(files, m, l) => Lt(files2, m, l) BY <3>3, <3>5, <4>2, <1>4, <1>5
        <5> QED BY <5>1, <5>2, <5>3
      <4> QED BY <3>5, <4>1, <4>2
    <3>6. m \in Lvs(files2) \ {n} BY <3>3
    <3> QED BY <3>1, <3>4, <3>5, <3>6 DEF Follows
  <2> QED BY <1>6, <2>1, <2>2, <2>3
<1> QED BY <1>6 DEF Chain

\* c takes the keys and the next of its neighbour d.
LEMMA MergedChain ==
    ASSUME NEW files, NEW files2, NEW c \in Lvs(files), NEW d \in Lvs(files) \ {c},
           Nodes(files), Filled(files), Chain(files), Adjacent(files, c, d), Lvs(files2) = Lvs(files) \ {d},
           \A n \in Lvs(files) \ {c, d} : files2[n] = files[n],
           files2[c].next = files[d].next,
           DOMAIN files2[c].data = DOMAIN files[c].data \cup DOMAIN files[d].data
    PROVE  Chain(files2)
<1>1. \A n \in Lvs(files) : DOMAIN files[n].data \subseteq Int /\ DOMAIN files[n].data # {}
  BY LeafFacts DEF Filled
<1>2. \A a, b \in Lvs(files) : ~(Lt(files, a, b) /\ Lt(files, b, a))
  <2> SUFFICES ASSUME NEW a \in Lvs(files), NEW b \in Lvs(files), Lt(files, a, b), Lt(files, b, a) PROVE FALSE
    OBVIOUS
  <2>1. PICK x \in DOMAIN files[a].data : x \in Int BY <1>1
  <2>2. PICK y \in DOMAIN files[b].data : y \in Int BY <1>1
  <2>3. x < y /\ y < x BY DEF Lt
  <2> QED BY <2>1, <2>2, <2>3
<1>3. \A a, b, e \in Lvs(files) : Lt(files, a, b) /\ Lt(files, b, e) => Lt(files, a, e)
  <2> SUFFICES ASSUME NEW a \in Lvs(files), NEW b \in Lvs(files), NEW e \in Lvs(files), Lt(files, a, b), Lt(files, b, e)
               PROVE  Lt(files, a, e)
    OBVIOUS
  <2>1. PICK y \in DOMAIN files[b].data : y \in Int BY <1>1
  <2>2. ASSUME NEW x \in DOMAIN files[a].data, NEW z \in DOMAIN files[e].data PROVE x < z
    <3>1. x < y /\ y < z BY DEF Lt
    <3>2. x \in Int /\ z \in Int BY <1>1
    <3> QED BY <2>1, <3>1, <3>2
  <2> QED BY <2>2 DEF Lt
<1>4. Lt(files, c, d) /\ \A l \in Lvs(files) \ {c, d} : Lt(files, l, c) \/ Lt(files, d, l) BY DEF Adjacent
<1>5. ASSUME NEW l \in Lvs(files) \ {c, d}
      PROVE  /\ Lt(files, l, c) => Lt(files2, l, c)
             /\ Lt(files, d, l) => Lt(files2, c, l)
             /\ Lt(files, c, l) => Lt(files2, c, l)
             /\ Lt(files, l, d) => Lt(files2, l, c)
  <2>1. files2[l] = files[l] OBVIOUS
  <2>2. Lt(files, l, c) /\ Lt(files, l, d) => Lt(files2, l, c) BY <2>1 DEF Lt
  <2>3. Lt(files, c, l) /\ Lt(files, d, l) => Lt(files2, c, l) BY <2>1 DEF Lt
  <2>4. /\ Lt(files, l, c) => Lt(files, l, d)
        /\ Lt(files, d, l) => Lt(files, c, l)
    BY <1>3, <1>4
  <2>5. Lt(files, c, l) => Lt(files, d, l) BY <1>2, <1>4
  <2>6. Lt(files, l, d) => Lt(files, l, c) BY <1>2, <1>4
  <2> QED BY <2>2, <2>3, <2>4, <2>5, <2>6
<1>6. \A a, b \in Lvs(files) \ {c, d} : Lt(files, a, b) <=> Lt(files2, a, b) BY DEF Lt
<1>7. ASSUME NEW n \in Lvs(files2), files2[n].next # NULL_PTR PROVE Follows(files2, n, files2[n].next)
  <2> DEFINE m == files2[n].next
  <2>1. CASE n = c
    <3>1. m = files[d].next /\ m # NULL_PTR BY <1>7, <2>1
    <3>2. Follows(files, d, m) BY <3>1 DEF Chain
    <3> HIDE DEF m
    <3>3. m \in Lvs(files) \ {d} /\ Lt(files, d, m) /\ \A l \in Lvs(files) \ {d, m} : Lt(files, l, d) \/ Lt(files, m, l)
      BY <3>2 DEF Follows
    <3>4. m # c BY <3>3, <1>2, <1>4
    <3>5. Lt(files2, c, m) BY <3>3, <3>4, <1>5
    <3>6. ASSUME NEW l \in Lvs(files2) \ {c, m} PROVE Lt(files2, l, c) \/ Lt(files2, m, l)
      <4>1. l \in Lvs(files) \ {c, d} BY <3>6
      <4>2. Lt(files, l, d) \/ Lt(files, m, l) BY <3>3, <3>6, <4>1
      <4> QED BY <4>1, <4>2, <3>3, <3>4, <1>5, <1>6
    <3>7. m \in Lvs(files2) \ {c} BY <3>3, <3>4
    <3> QED BY <2>1, <3>5, <3>6, <3>7 DEF Follows, m
  <2>2. CASE n # c
    <3>1. n \in Lvs(files) \ {c, d} /\ m = files[n].next /\ m # NULL_PTR BY <1>7, <2>2
    <3>2. Follows(files, n, m) BY <3>1 DEF Chain
    <3> HIDE DEF m
    <3>3. m \in Lvs(files) \ {n} /\ Lt(files, n, m) /\ \A l \in Lvs(files) \ {n, m} : Lt(files, l, n) \/ Lt(files, m, l)
      BY <3>2 DEF Follows
    <3>4. m # d
      <4> SUFFICES ASSUME m = d PROVE FALSE OBVIOUS
      <4>1. Lt(files, c, n) \/ Lt(files, d, c) BY <3>1, <3>3
      <4>2. Lt(files, c, n) /\ Lt(files, n, d) BY <4>1, <3>3, <1>2, <1>4
      <4>3. Lt(files, n, c) \/ Lt(files, d, n) BY <3>1, <1>4
      <4> QED BY <4>2, <4>3, <3>1, <1>2
    <3>5. Lt(files2, n, m)
      <4>1. CASE m = c BY <4>1, <3>1, <3>3, <1>5
      <4>2. CASE m # c BY <4>2, <3>1, <3>3, <3>4, <1>6
      <4> QED BY <4>1, <4>2
    <3>6. ASSUME NEW l \in Lvs(files2) \ {n, m} PROVE Lt(files2, l, n) \/ Lt(files2, m, l)
      <4>1. l \in Lvs(files) \ {n, m, d} BY <3>6
      <4>2. Lt(files, l, n) \/ Lt(files, m, l) BY <3>3, <4>1
      <4>3. Lt(files, l, n) => Lt(files2, l, n)
        <5>1. CASE l = c BY <5>1, <3>1, <1>5
        <5>2. CASE l # c BY <5>2, <4>1, <3>1, <1>6
        <5> QED BY <5>1, <5>2
      <4>4. Lt(files, m, l) => Lt(files2, m, l)
        <5>1. CASE l = c BY <5>1, <4>1, <3>3, <3>4, <1>5
        <5>2. CASE m = c BY <5>2, <4>1, <1>5
        <5>3. CASE l # c /\ m # c BY <5>3, <4>1, <3>3, <3>4, <1>6
        <5> QED BY <5>1, <5>2, <5>3
      <4> QED BY <4>2, <4>3, <4>4
    <3>7. m \in Lvs(files2) \ {n} BY <3>3, <3>4
    <3> QED BY <3>5, <3>6, <3>7 DEF Follows, m
  <2> QED BY <2>1, <2>2
<1> QED BY <1>7 DEF Chain

-----------------------------------------------------------------------------
(* The greatest key of a subtree *)

LEMMA FromLastExists ==
    ASSUME NEW files, NEW root, NEW extra, NEW h, NEW par, NEW slot, Nodes(files),
           Shape(files, root, extra, h, par, slot), NEW b
    PROVE  \E g : FromLast(files, b, g)
<1> DEFINE Up(g, n) == g[n] = IF n \in Lvs(files) THEN b[n] ELSE g[Last(files[n].ptrs)]
           S == {d \in Nat : \E g : \A n \in DOMAIN files : h[n] <= d => Up(g, n)}
<1>1. h[root] \in Nat /\ \A n \in DOMAIN files : h[n] \in Nat /\ h[n] <= h[root] /\ (h[n] = 0 <=> n \in Lvs(files))
  BY Heights
<1>2. ASSUME NEW n \in Ins(files)
      PROVE  n \in DOMAIN files /\ n \notin Lvs(files) /\ Last(files[n].ptrs) \in DOMAIN files /\ h[n] = h[Last(files[n].ptrs)] + 1
  <2>1. Len(files[n].ptrs) \in 1 .. Len(files[n].ptrs) /\ n \in DOMAIN files BY NodeFacts
  <2>2. files[n].ptrs[Len(files[n].ptrs)] \in DOMAIN files /\ h[n] = h[files[n].ptrs[Len(files[n].ptrs)]] + 1
    BY <2>1, ChildFacts
  <2> QED BY <2>1, <2>2, Kinds DEF Last
<1>3. 0 \in S
  <2> DEFINE g == [n \in DOMAIN files |-> b[n]]
  <2>1. \A n \in DOMAIN files : h[n] <= 0 => Up(g, n) BY <1>1
  <2> HIDE DEF g
  <2> QED BY <2>1
<1>4. ASSUME NEW d \in S PROVE d + 1 \in S
  <2>1. PICK f : \A n \in DOMAIN files : h[n] <= d => Up(f, n) OBVIOUS
  <2> DEFINE g == [n \in DOMAIN files |->
                     IF h[n] <= d THEN f[n] ELSE IF n \in Lvs(files) THEN b[n] ELSE f[Last(files[n].ptrs)]]
  <2>2. d \in Nat OBVIOUS
  <2>3. ASSUME NEW n \in DOMAIN files, h[n] <= d + 1 PROVE Up(g, n)
    <3>1. CASE n \in Lvs(files)
      <4>1. h[n] = 0 /\ h[n] <= d BY <3>1, <1>1, <2>2
      <4>2. f[n] = b[n] BY <3>1, <4>1, <2>1
      <4> QED BY <3>1, <4>1, <4>2
    <3>2. CASE n \notin Lvs(files)
      <4> DEFINE l == Last(files[n].ptrs)
      <4>1. n \in Ins(files) BY <3>2, Kinds
      <4>2. l \in DOMAIN files /\ h[n] = h[l] + 1 /\ h[l] \in Nat /\ h[n] \in Nat BY <4>1, <1>1, <1>2
      <4>3. h[l] <= d BY <4>2, <2>2, <2>3
      <4>4. g[n] = f[l]
        <5>1. h[n] <= d => f[n] = f[l] BY <3>2, <2>1
        <5> QED BY <5>1, <3>2
      <4>5. g[l] = f[l] BY <4>2, <4>3
      <4> HIDE DEF g
      <4> QED BY <4>4, <4>5, <3>2
    <3> QED BY <3>1, <3>2
  <2> HIDE DEF g
  <2>4. \E x : \A n \in DOMAIN files : h[n] <= d + 1 => Up(x, n) BY <2>3
  <2> QED BY <2>2, <2>4
<1>5. S = Nat
  <2> HIDE DEF S
  <2>1. S \in SUBSET Nat BY DEF S
  <2> QED BY <2>1, <1>3, <1>4, Induction
<1>6. PICK f : \A n \in DOMAIN files : h[n] <= h[root] => Up(f, n) BY <1>1, <1>5
<1> DEFINE g == [n \in DOMAIN files |-> f[n]]
<1>7. g = [n \in DOMAIN files |-> IF n \in Lvs(files) THEN b[n] ELSE g[Last(files[n].ptrs)]]
  <2>1. ASSUME NEW n \in DOMAIN files PROVE f[n] = IF n \in Lvs(files) THEN b[n] ELSE g[Last(files[n].ptrs)]
    <3>1. Up(f, n) BY <1>1, <1>6
    <3>2. CASE n \in Lvs(files) BY <3>1, <3>2
    <3>3. CASE n \notin Lvs(files)
      <4>1. Last(files[n].ptrs) \in DOMAIN files BY <3>3, <1>2, Kinds
      <4> QED BY <3>1, <3>3, <4>1
    <3> QED BY <3>2, <3>3
  <2> QED BY <2>1
<1> HIDE DEF g
<1>8. FromLast(files, b, g) BY <1>7 DEF FromLast
<1> QED BY <1>8

LEMMA SubtreeMaxIs ==
    ASSUME NEW root, NEW extra, NEW h, NEW par, NEW slot, Nodes(node),
           Shape(node, root, extra, h, par, slot)
    PROVE  FromLast(node, [n \in Lvs(node) |-> Max(DOMAIN LeafAt(n).data)], SubtreeMax)
<1> DEFINE b == [n \in Lvs(node) |-> Max(DOMAIN LeafAt(n).data)]
           R(f) == f = [n \in DOMAIN node |-> IF IsLeaf(n) THEN Max(DOMAIN LeafAt(n).data) ELSE f[Last(node[n].ptrs)]]
<1>1. \A f : FromLast(node, b, f) <=> R(f) BY DEF FromLast, Lvs, IsLeaf
<1>2. \E f : R(f)
  <2>1. \E f : FromLast(node, b, f)
    <3> HIDE DEF b
    <3> QED BY FromLastExists
  <2> QED BY <2>1, <1>1
<1>3. SubtreeMax = CHOOSE f : R(f) BY DEF SubtreeMax
<1>4. R(SubtreeMax)
  <2> HIDE DEF R
  <2> QED BY <1>2, <1>3
<1> QED BY <1>1, <1>4

LEMMA GreatestIsBounded ==
    ASSUME NEW files, NEW root, NEW extra, NEW h, NEW par, NEW slot, NEW lo, NEW hi, NEW max,
           Nodes(files), Shape(files, root, extra, h, par, slot), Bounds(files, lo, hi), Greatest(files, max)
    PROVE  \A n \in DOMAIN files : max[n] \in Int /\ lo[n] < max[n] /\ max[n] <= hi[n]
<1> DEFINE Ok(n) == max[n] \in Int /\ lo[n] < max[n] /\ max[n] <= hi[n]
           S == {d \in Nat : \A n \in DOMAIN files : h[n] = d => Ok(n)}
<1>1. /\ h[root] \in Nat /\ Kids(files)
      /\ \A n \in DOMAIN files : h[n] \in Nat /\ h[n] <= h[root] /\ (h[n] = 0 <=> n \in Lvs(files))
  BY Heights, KidsFact
<1>2. \A n \in Lvs(files) : Ok(n) BY LeafFacts DEF Greatest, Bounds, Contained
<1>3. 0 \in S BY <1>1, <1>2
<1>4. ASSUME NEW d \in S PROVE d + 1 \in S
  <2>1. ASSUME NEW n \in DOMAIN files, h[n] = d + 1 PROVE Ok(n)
    <3>1. n \in Ins(files) /\ d \in Nat
      <4>1. d \in Nat OBVIOUS
      <4>2. n \notin Lvs(files)
        <5> HIDE DEF S
        <5> QED BY <4>1, <2>1, <1>1
      <4> QED BY <4>1, <4>2 DEF Lvs, Ins
    <3> DEFINE i == Len(files[n].ptrs)
               l == files[n].ptrs[i]
    <3>2. i \in 1 .. Len(files[n].ptrs) BY <3>1, NodeFacts
    <3>3. l \in DOMAIN files /\ h[l] \in Nat /\ h[n] = h[l] + 1 BY <3>1, <3>2, ChildFacts
    <3>4. /\ lo[n] \in Int /\ hi[n] \in Int /\ lo[l] \in Int /\ hi[l] \in Int
          /\ lo[n] <= lo[l] /\ lo[l] < hi[l] /\ hi[l] <= hi[n] /\ lo[n] < hi[n]
      BY <3>1, <3>2, <1>1, SlotFacts
    <3>5. max[n] = max[l] BY <3>1 DEF Greatest, Last
    <3> HIDE DEF l, i
    <3>6. h[l] = d BY <3>1, <3>3, <2>1
    <3>7. Ok(l) BY <3>3, <3>6
    <3> QED BY <3>4, <3>5, <3>7
  <2>2. d + 1 \in Nat OBVIOUS
  <2> QED BY <2>1, <2>2
<1>5. S = Nat
  <2> HIDE DEF S
  <2>1. S \in SUBSET Nat BY DEF S
  <2> QED BY <2>1, <1>3, <1>4, Induction
<1>6. ASSUME NEW n \in DOMAIN files PROVE Ok(n)
  <2>1. h[n] \in S BY <1>1, <1>5
  <2> QED BY <2>1
<1> QED BY <1>6

\* The upper bounds of c, and of all that is not above it, may be the greatest
\* keys there are.
LEMMA Tightened ==
    ASSUME NEW files, NEW root, NEW extra, NEW h, NEW par, NEW slot, NEW lo, NEW hi, NEW max,
           Nodes(files), Shape(files, root, extra, h, par, slot), Bounds(files, lo, hi), Greatest(files, max),
           NEW c \in DOMAIN files, NEW e \in DOMAIN files, h[e] = h[c], Beside(files, lo, hi, c, e)
    PROVE  \E hi2 : Bounds(files, lo, hi2) /\ Beside(files, lo, hi2, c, e) /\ hi2[c] = max[c]
<1> DEFINE hi2 == [n \in DOMAIN files |-> IF h[n] <= h[c] THEN max[n] ELSE hi[n]]
<1>1. /\ h[root] \in Nat /\ Kids(files)
      /\ \A n \in DOMAIN files : h[n] \in Nat /\ h[n] <= h[root] /\ (h[n] = 0 <=> n \in Lvs(files))
  BY Heights, KidsFact
<1>2. \A n \in DOMAIN files : max[n] \in Int /\ lo[n] < max[n] /\ max[n] <= hi[n] BY GreatestIsBounded
<1>3. \A n \in DOMAIN files : lo[n] \in Int /\ hi[n] \in Int /\ lo[n] < hi[n] BY DEF Bounds, Bounded
<1>4. \A n \in DOMAIN files : hi2[n] \in Int /\ lo[n] < hi2[n] /\ hi2[n] <= hi[n] BY <1>2, <1>3
<1>5. hi2[c] = max[c] BY <1>1
<1>6. \A n \in Lvs(files) : hi2[n] = max[n]
  <2>1. \A n \in Lvs(files) : n \in DOMAIN files /\ h[n] = 0 BY <1>1, LeafFacts
  <2> QED BY <2>1, <1>1
<1>7. ASSUME NEW n \in Ins(files), NEW i \in 1 .. Len(files[n].ptrs)
      PROVE  SlotFits(files, lo, hi2, n, i, files[n].ptrs[i])
  <2> DEFINE x == files[n].ptrs[i]
             len == Len(files[n].ptrs)
             l == files[n].ptrs[len]
  <2>0. n \in DOMAIN files /\ len \in 1 .. len /\ len \in Nat /\ (i = len \/ i < len) BY NodeFacts
  <2>1. x \in DOMAIN files /\ h[x] \in Nat /\ h[n] \in Nat /\ h[n] = h[x] + 1 BY ChildFacts
  <2>2. l \in DOMAIN files /\ h[l] \in Nat /\ h[n] = h[l] + 1 BY <2>0, ChildFacts
  <2>3. SlotFits(files, lo, hi, n, i, x) BY DEF Bounds
  <2>4. i <= Len(files[n].keys) => files[n].keys[i] \in Int
    <3>1. i <= Len(files[n].keys) => i \in 1 .. Len(files[n].keys) BY NodeFacts
    <3> QED BY <3>1, NodeFacts
  <2>5. hi2[x] <= hi2[n]
    <3>1. CASE h[n] <= h[c]
      <4>1. max[n] = max[l] BY DEF Greatest, Last
      <4>2. hi2[n] = max[l] /\ hi2[x] = max[x]
        <5>1. h[x] <= h[c] BY <2>1, <3>1, <1>1
        <5> QED BY <5>1, <4>1, <2>0, <2>1, <3>1
      <4>3. CASE i = len BY <4>2, <4>3, <2>1, <1>2
      <4>4. CASE i < len
        <5>1. hi[x] <= lo[l] BY <4>4, <2>0, <1>1, SlotsApart
        <5>2. max[x] <= hi[x] /\ lo[l] < max[l] /\ max[x] \in Int /\ max[l] \in Int /\ hi[x] \in Int /\ lo[l] \in Int
          BY <2>1, <2>2, <1>2, <1>3
        <5> HIDE DEF x, l, len, hi2
        <5> QED BY <5>1, <5>2, <4>2
      <4> QED BY <4>3, <4>4, <2>0
    <3>2. CASE ~(h[n] <= h[c])
      <4>1. hi2[n] = hi[n] BY <3>2, <2>0
      <4>2. hi2[x] <= hi[x] /\ hi[x] <= hi[n] /\ hi2[x] \in Int /\ hi[x] \in Int /\ hi[n] \in Int
        BY <2>0, <2>1, <2>3, <1>3, <1>4 DEF SlotFits
      <4> HIDE DEF x, l, len, hi2
      <4> QED BY <4>1, <4>2
    <3> QED BY <3>1, <3>2
  <2>6. hi2[x] <= hi[x] /\ hi2[x] \in Int /\ hi[x] \in Int BY <2>1, <1>3, <1>4
  <2> HIDE DEF x, l, len, hi2
  <2>7. SlotFits(files, lo, hi2, n, i, x) BY <2>3, <2>4, <2>5, <2>6 DEF SlotFits
  <2> QED BY <2>7 DEF x
<1>8. ASSUME NEW n \in Lvs(files) PROVE Contained(files, lo, hi2, n)
  <2>1. Contained(files, lo, hi, n) /\ hi2[n] = max[n] BY <1>6 DEF Bounds
  <2> HIDE DEF hi2
  <2> QED BY <2>1 DEF Contained, Greatest
<1>9. Beside(files, lo, hi2, c, e)
  <2>1. hi2[c] <= lo[e]
    <3>1. hi[c] <= lo[e] /\ hi2[c] <= hi[c] /\ hi2[c] \in Int /\ hi[c] \in Int /\ lo[e] \in Int
      BY <1>3, <1>4 DEF Beside
    <3> HIDE DEF hi2
    <3> QED BY <3>1
  <2>2. ASSUME NEW b \in Ins(files), NEW i \in 1 .. Len(files[b].ptrs), files[b].ptrs[i] = c
        PROVE  SlotFits(files, lo, hi2, b, i, e)
    <3>1. SlotFits(files, lo, hi, b, i, e) BY <2>2 DEF Beside
    <3>2. b \in DOMAIN files /\ h[b] = h[c] + 1 /\ h[c] \in Nat BY <2>2, ChildFacts
    <3>3. hi2[b] = hi[b]
      <4>1. ~(h[b] <= h[c]) BY <3>2
      <4> QED BY <3>2, <4>1
    <3>4. hi2[e] <= hi[e] /\ hi2[e] \in Int /\ hi[e] \in Int /\ hi[b] \in Int BY <3>2, <1>3, <1>4
    <3>5. i <= Len(files[b].keys) => files[b].keys[i] \in Int
      <4>1. i <= Len(files[b].keys) => i \in 1 .. Len(files[b].keys) BY NodeFacts
      <4> QED BY <4>1, NodeFacts
    <3> HIDE DEF hi2
    <3> QED BY <3>1, <3>3, <3>4, <3>5 DEF SlotFits
  <2> QED BY <2>1, <2>2 DEF Beside
<1> HIDE DEF hi2
<1>10. Bounds(files, lo, hi2) BY <1>4, <1>7, <1>8 DEF Bounds, Bounded
<1> QED BY <1>5, <1>9, <1>10

-----------------------------------------------------------------------------
(* The tree in the middle of a call: p leads to c, and extra is what an      *)
(* insert hands up.                                                          *)

\* A leaf is written with other keys that belong there.
LEMMA LeafWritten ==
    ASSUME NEW files, NEW files2, NEW root, NEW p \in Seq(Frames), NEW c \in Lvs(files), NEW k \in Nat,
           Nodes(files), Nodes(files2), Forest(files, root, NULL_PTR, p, c, TRUE), Ordered(files, NULL_PTR, c),
           Chain(files), Routed(files, p, k),
           DOMAIN files2 = DOMAIN files, c \in Lvs(files2), \A x \in DOMAIN files \ {c} : files2[x] = files[x],
           files2[c].next = files[c].next, DOMAIN files2[c].data \subseteq DOMAIN files[c].data \cup {k},
           \A n \in Lvs(files) \ {root} : DOMAIN files[n].data \cap DOMAIN files2[n].data # {}
    PROVE  Forest(files2, root, NULL_PTR, p, c, TRUE) /\ Ordered(files2, NULL_PTR, c) /\ Chain(files2)
<1>1. PICK h, par, slot : Shape(files, root, NULL_PTR, h, par, slot) /\ Stack(files, root, p, c, h)
  BY DEF Forest
<1>2. PICK lo, hi : Bounds(files, lo, hi) BY DEF Ordered
<1>3. Lvs(files2) = Lvs(files) /\ Ins(files2) = Ins(files) /\ \A n \in Ins(files) : n # c /\ n \in DOMAIN files /\ files2[n] = files[n]
  BY DEF Lvs, Ins
<1>4. SameTree(files, files2) BY <1>3 DEF SameTree
<1>5. Shape(files2, root, NULL_PTR, h, par, slot) BY <1>1, <1>4, SameShape
<1>6. Stack(files2, root, p, c, h)
  <2>1. \A x \in Ins(files) : h[x] > h[c] => x \in Ins(files2) /\ files2[x].ptrs = files[x].ptrs BY <1>3
  <2>2. c \in DOMAIN files2 /\ \A x \in DOMAIN files : h[x] = h[x] BY LeafFacts
  <2> QED BY <2>1, <2>2, <1>1, StackSame
<1>7. Forest(files2, root, NULL_PTR, p, c, TRUE) BY <1>5, <1>6 DEF Forest
<1>8. PICK lo2, hi2 : Bounds(files, lo2, hi2) /\ lo2[c] < k /\ k <= hi2[c] BY <1>1, <1>2, WidenedBounds
<1>9. ASSUME NEW n \in Lvs(files) PROVE Contained(files2, lo2, hi2, n)
  <2>1. Contained(files, lo2, hi2, n) /\ n \in DOMAIN files BY <1>8, LeafFacts DEF Bounds
  <2>2. CASE n = c BY <2>1, <2>2, <1>8 DEF Contained
  <2>3. CASE n # c BY <2>1, <2>3 DEF Contained
  <2> QED BY <2>2, <2>3
<1>10. Bounds(files2, lo2, hi2)
  <2>1. \A n \in Ins(files) : files2[n] = files[n] BY <1>3
  <2> QED BY <2>1, <1>3, <1>8, <1>9, SameBounds
<1>11. Ordered(files2, NULL_PTR, c) BY <1>10 DEF Ordered
<1>12. Chain(files2)
  <2>1. \A n \in Lvs(files) : files2[n].next = files[n].next
    <3>1. \A n \in Lvs(files) : n \in DOMAIN files BY LeafFacts
    <3> QED BY <3>1
  <2>2. CASE root \in Lvs(files)
    <3>1. DOMAIN files = {root} BY <2>2, <1>1, OnlyLeaf
    <3>2. Lvs(files) = {root} BY <3>1, <2>2 DEF Lvs
    <3> QED BY <3>2, <1>3, <2>1, SoleChain
  <2>3. CASE root \notin Lvs(files)
    <3>1. \A n \in Lvs(files) : DOMAIN files[n].data \cap DOMAIN files2[n].data # {} BY <2>3
    <3>2. Total(files2) BY <1>5, <1>10, TotalIs
    <3> QED BY <3>1, <3>2, <2>1, <1>3, SameChain
  <2> QED BY <2>2, <2>3
<1> QED BY <1>7, <1>11, <1>12

\* A full leaf c is split.
LEMMA LeafSplit ==
    ASSUME NEW files, NEW files2, NEW root, NEW p \in Seq(Frames), NEW c \in Lvs(files), NEW k \in Nat,
           NEW new \in NodeIds, NEW m \in Int,
           Nodes(files), Nodes(files2), Forest(files, root, NULL_PTR, p, c, TRUE), Ordered(files, NULL_PTR, c),
           Chain(files), Filled(files), Routed(files, p, k),
           LeafAdded(files, files2, new), Parted(files, files2, c, new, k), Cut(files2, c, new, m),
           files2[c].next = new, files2[new].next = NULL_PTR
    PROVE  Forest(files2, root, new, p, c, TRUE) /\ Ordered(files2, new, c) /\ Chain(files2)
<1>1. PICK h, par, slot : Shape(files, root, NULL_PTR, h, par, slot) /\ Stack(files, root, p, c, h)
  BY DEF Forest
<1>2. PICK lo, hi : Bounds(files, lo, hi) BY DEF Ordered
<1>3. c \in DOMAIN files /\ h[c] = 0 BY <1>1, LeafFacts, Heights
<1>4. PICK h2 : /\ Shape(files2, root, new, h2, par, slot) /\ h2[new] = 0
                /\ \A n \in DOMAIN files : h2[n] = h[n]
  BY <1>1, LeafAddedShape
<1>5. Stack(files2, root, p, c, h2)
  <2>1. \A x \in Ins(files) : h[x] > h[c] => x \in Ins(files2) /\ files2[x].ptrs = files[x].ptrs
    BY DEF LeafAdded
  <2>2. c \in DOMAIN files2 BY <1>3 DEF LeafAdded
  <2> QED BY <2>1, <2>2, <1>1, <1>4, StackSame
<1>6. h2[new] = h2[c] BY <1>3, <1>4
<1>7. Forest(files2, root, new, p, c, TRUE) BY <1>4, <1>5, <1>6 DEF Forest
<1>8. PICK lo2, hi2 : Bounds(files, lo2, hi2) /\ lo2[c] < k /\ k <= hi2[c] BY <1>1, <1>2, WidenedBounds
<1>9. Kids(files) BY <1>1, KidsFact
<1>10. \E lo3, hi3 : Bounds(files2, lo3, hi3) /\ Beside(files2, lo3, hi3, c, new)
  <2>1. k \in Int OBVIOUS
  <2> QED BY <2>1, <1>8, <1>9, LeafAddedBounds
<1>11. Ordered(files2, new, c) BY <1>10 DEF Ordered
<1>12. Aside(files, lo2, hi2, c)
  <2> SUFFICES ASSUME NEW l \in Lvs(files) \ {c} PROVE Apart(lo2, hi2, c, l) BY DEF Aside
  <2>1. l \in DOMAIN files /\ h[l] = 0 BY <1>1, LeafFacts, Heights
  <2> QED BY <2>1, <1>1, <1>3, <1>8, Disjoint
<1>13. Lt(files2, c, new)
  <2>1. c \in Lvs(files2) /\ new \in Lvs(files2) BY DEF LeafAdded
  <2>2. \A x \in DOMAIN files2[c].data : x \in Int BY <2>1, LeafFacts
  <2>3. \A x \in DOMAIN files2[new].data : x \in Int BY <2>1, LeafFacts
  <2> QED BY <2>2, <2>3 DEF Lt, Cut
<1>14. new \notin DOMAIN files /\ Lvs(files2) = Lvs(files) \cup {new} BY DEF LeafAdded
<1>15. Chain(files2)
  <2>1. k \in Int OBVIOUS
  <2> QED BY <2>1, <1>8, <1>12, <1>13, <1>14, SplitChain
<1> QED BY <1>7, <1>11, <1>15

\* Where the key of a split child goes among the keys of the node above it.
LEMMA PlaceOfSplit ==
    ASSUME NEW files, NEW root, NEW e, NEW p \in Seq(Frames), NEW c, NEW max,
           Nodes(files), Forest(files, root, e, p, c, TRUE), e # NULL_PTR, Ordered(files, e, c), Greatest(files, max),
           p # <<>>
    PROVE  Placed(files, p, max[c])
<1>1. PICK h, par, slot : Shape(files, root, e, h, par, slot) /\ Stack(files, root, p, c, h) /\ h[e] = h[c]
  BY DEF Forest
<1>2. PICK lo, hi : Bounds(files, lo, hi) /\ Beside(files, lo, hi, c, e) BY DEF Ordered
<1> DEFINE q == Above(p)
           i == Slot(p)
           keys == files[q].keys
<1>3. q \in Ins(files) /\ q \in DOMAIN files /\ i \in 1 .. Len(files[q].ptrs) /\ files[q].ptrs[i] = c
  BY <1>1, LastFrame DEF Above, Slot
<1> HIDE DEF q, i
<1>4. c \in DOMAIN files /\ e \in DOMAIN files /\ Kids(files) BY <1>1, KidsFact DEF Stack, Shape
<1>5. max[c] \in Int /\ lo[c] < max[c] /\ max[c] <= hi[c] BY <1>1, <1>2, <1>4, GreatestIsBounded
<1>6. /\ lo[c] \in Int /\ hi[c] \in Int /\ lo[e] \in Int /\ hi[e] \in Int /\ lo[e] < hi[e] /\ hi[c] <= lo[e]
  BY <1>2, <1>4 DEF Bounds, Bounded, Beside
<1>7. SlotFits(files, lo, hi, q, i, e) BY <1>2, <1>3 DEF Beside
<1>8. keys \in Seq(Keys) /\ Len(keys) \in Nat /\ Len(files[q].ptrs) = Len(keys) + 1 BY <1>3, NodeFacts
<1>9. \A j \in 1 .. Len(keys) : keys[j] \in Nat BY <1>3, NodeFacts
<1>10. i > 1 => keys[i - 1] < max[c]
  <2> SUFFICES ASSUME i > 1 PROVE keys[i - 1] < max[c] OBVIOUS
  <2>1. keys[i - 1] \in Int /\ keys[i - 1] <= lo[c] BY <1>2, <1>3, <1>4, SlotFacts
  <2> QED BY <2>1, <1>5, <1>6
<1>11. i <= Len(keys) => max[c] < keys[i]
  <2> SUFFICES ASSUME i <= Len(keys) PROVE max[c] < keys[i] OBVIOUS
  <2>1. i \in 1 .. Len(keys) BY <1>3, <1>8
  <2>2. keys[i] \in Nat /\ hi[e] <= keys[i] BY <2>1, <1>7, <1>9 DEF SlotFits
  <2> QED BY <2>2, <1>5, <1>6
<1>12. max[c] \in Nat
  <2>1. \A n \in DOMAIN files : max[n] \in Nat
    <3> DEFINE S == {d \in Nat : \A n \in DOMAIN files : h[n] = d => max[n] \in Nat}
    <3>1. \A n \in DOMAIN files : h[n] \in Nat /\ (h[n] = 0 <=> n \in Lvs(files)) BY <1>1, Heights
    <3>2. 0 \in S BY <3>1, LeafFacts DEF Greatest
    <3>3. ASSUME NEW d \in S PROVE d + 1 \in S
      <4>1. d \in Nat OBVIOUS
      <4>2. ASSUME NEW n \in DOMAIN files, h[n] = d + 1 PROVE max[n] \in Nat
        <5>1. n \in Ins(files)
          <6>1. n \notin Lvs(files)
            <7> HIDE DEF S
            <7> QED BY <3>1, <4>1, <4>2
          <6> QED BY <6>1 DEF Lvs, Ins
        <5> DEFINE l == files[n].ptrs[Len(files[n].ptrs)]
        <5>2. l \in DOMAIN files /\ h[n] = h[l] + 1 /\ h[l] \in Nat
          <6>1. Len(files[n].ptrs) \in 1 .. Len(files[n].ptrs) BY <5>1, NodeFacts
          <6> QED BY <5>1, <6>1, <1>1, ChildFacts
        <5>3. max[n] = max[l] BY <5>1 DEF Greatest, Last
        <5> HIDE DEF l
        <5>4. h[l] = d BY <4>1, <4>2, <5>2
        <5> QED BY <5>2, <5>3, <5>4
      <4>3. d + 1 \in Nat BY <4>1
      <4> QED BY <4>2, <4>3
    <3>4. S = Nat
      <4> HIDE DEF S
      <4>1. S \in SUBSET Nat BY DEF S
      <4> QED BY <4>1, <3>2, <3>3, Induction
    <3> QED BY <3>1, <3>4
  <2> QED BY <2>1, <1>4
<1>13. UpperBound(keys, max[c]) = i
  <2>1. keys \in Seq(Nat)
    <3>1. Keys \subseteq Nat BY KeysAssumption
    <3>2. keys \in [1 .. Len(keys) -> Keys] BY <1>8, LenProperties
    <3>3. keys \in [1 .. Len(keys) -> Nat]
      <4> HIDE DEF keys
      <4> QED BY <3>1, <3>2
    <3> HIDE DEF keys
    <3> QED BY <1>8, <3>3, IsASeq
  <2>2. Sorted(keys) /\ i \in 1 .. Len(keys) + 1 BY <1>2, <1>3, <1>8 DEF Bounds
  <2> HIDE DEF keys
  <2> QED BY <2>1, <2>2, <1>10, <1>11, <1>12, UpperBoundIs
<1> QED BY <1>12, <1>13 DEF q, i, Placed

\* The node above a split child gets the new node.
LEMMA ChildAttached ==
    ASSUME NEW files, NEW files2, NEW root, NEW e, NEW p \in Seq(Frames), NEW c, NEW max,
           Nodes(files), Forest(files, root, e, p, c, TRUE), e # NULL_PTR, Ordered(files, e, c), Greatest(files, max),
           p # <<>>, Attached(files, files2, Above(p), Slot(p), max[c], e)
    PROVE  Forest(files2, root, NULL_PTR, Front(p), Above(p), TRUE) /\ Ordered(files2, NULL_PTR, Above(p))
<1>1. PICK h, par, slot : Shape(files, root, e, h, par, slot) /\ Stack(files, root, p, c, h) /\ h[e] = h[c]
  BY DEF Forest
<1>2. PICK lo, hi : Bounds(files, lo, hi) /\ Beside(files, lo, hi, c, e) BY DEF Ordered
<1> DEFINE q == Above(p)
           i == Slot(p)
           m == max[c]
<1>3. /\ q \in Ins(files) /\ q \in DOMAIN files /\ i \in 1 .. Len(files[q].ptrs) /\ files[q].ptrs[i] = c
      /\ h[q] = h[c] + 1
  BY <1>1, LastFrame DEF Above, Slot
<1> HIDE DEF q, i
<1>4. c \in DOMAIN files /\ e \in DOMAIN files BY <1>1 DEF Stack, Shape
<1>5. m \in Int BY <1>1, <1>2, <1>4, GreatestIsBounded
<1>6. Attached(files, files2, q, i, m, e) BY DEF q, i
<1> HIDE DEF m
<1>7. PICK par2, slot2 : Shape(files2, root, NULL_PTR, h, par2, slot2)
  <2>1. h[e] + 1 = h[q] BY <1>1, <1>3
  <2> QED BY <2>1, <1>1, <1>3, <1>6, AttachedShape
<1>8. Stack(files2, root, Front(p), q, h)
  <2>1. \A x \in Ins(files) : h[x] > h[c] + 1 => x \in Ins(files2) /\ files2[x].ptrs = files[x].ptrs
    <3> SUFFICES ASSUME NEW x \in Ins(files), h[x] > h[c] + 1 PROVE x \in Ins(files2) /\ files2[x].ptrs = files[x].ptrs
      OBVIOUS
    <3>1. x # q /\ x \in DOMAIN files
      <4>1. h[q] \in Nat /\ x \in DOMAIN files BY <1>1, <1>3, Heights, NodeFacts
      <4>2. ~(h[q] > h[q]) BY <4>1
      <4> QED BY <4>1, <4>2, <1>3
    <3> QED BY <3>1, <1>6 DEF Attached
  <2>2. p[Len(p)].node \in DOMAIN files2 BY <1>3, <1>6 DEF Attached, q, Above
  <2>3. Stack(files2, root, Front(p), p[Len(p)].node, h) BY <2>1, <2>2, <1>1, StackUp
  <2> QED BY <2>3 DEF q, Above
<1>9. Forest(files2, root, NULL_PTR, Front(p), q, TRUE) BY <1>7, <1>8 DEF Forest
<1>10. PICK hi2 : Bounds(files, lo, hi2) /\ Beside(files, lo, hi2, c, e) /\ hi2[c] = m
  BY <1>1, <1>2, <1>4, Tightened DEF m
<1>11. Bounds(files2, lo, hi2)
  <2>1. hi2[c] <= m /\ m <= lo[e] BY <1>5, <1>10 DEF Beside
  <2> QED BY <2>1, <1>3, <1>4, <1>5, <1>6, <1>10, AttachedBounds
<1>12. Ordered(files2, NULL_PTR, q) BY <1>11 DEF Ordered
<1> QED BY <1>9, <1>12 DEF q

\* A node with children is split.
LEMMA NodeSplit ==
    ASSUME NEW files, NEW files2, NEW root, NEW p \in Seq(Frames), NEW c \in Ins(files), NEW new \in NodeIds,
           NEW k \in 1 .. Len(files[c].keys),
           Nodes(files), Forest(files, root, NULL_PTR, p, c, TRUE), Ordered(files, NULL_PTR, c),
           Halved(files, files2, c, new, k)
    PROVE  Forest(files2, root, new, p, c, TRUE) /\ Ordered(files2, new, c)
<1>1. PICK h, par, slot : Shape(files, root, NULL_PTR, h, par, slot) /\ Stack(files, root, p, c, h)
  BY DEF Forest
<1>2. PICK lo, hi : Bounds(files, lo, hi) BY DEF Ordered
<1>3. c \in DOMAIN files /\ k \in 1 .. Len(files[c].ptrs) /\ Kids(files) BY <1>1, NodeFacts, KidsFact
<1>4. PICK h2, par2, slot2 : /\ Shape(files2, root, new, h2, par2, slot2) /\ h2[new] = h2[c]
                             /\ \A x \in DOMAIN files : h2[x] = h[x]
  <2>1. k \in 1 .. Len(files[c].ptrs) /\ Shape(files, root, NULL_PTR, h, par, slot) BY <1>1, <1>3
  <2>2. \E h2 : Raised(files, files2, root, new, c, h, h2) BY <2>1, HalvedShape
  <2> QED BY <2>2 DEF Raised
<1>5. Stack(files2, root, p, c, h2)
  <2>1. \A x \in Ins(files) : h[x] > h[c] => x \in Ins(files2) /\ files2[x].ptrs = files[x].ptrs
    <3> SUFFICES ASSUME NEW x \in Ins(files), h[x] > h[c] PROVE x \in Ins(files2) /\ files2[x].ptrs = files[x].ptrs
      OBVIOUS
    <3>1. x # c /\ x \in DOMAIN files
      <4>1. h[c] \in Nat /\ x \in DOMAIN files BY <1>1, <1>3, Heights, NodeFacts
      <4> QED BY <4>1
    <3> QED BY <3>1 DEF Halved
  <2>2. c \in DOMAIN files2 BY <1>3 DEF Halved
  <2> QED BY <2>1, <2>2, <1>1, <1>4, StackSame
<1>6. Forest(files2, root, new, p, c, TRUE) BY <1>4, <1>5 DEF Forest
<1>7. \E lo2, hi2 : Bounds(files2, lo2, hi2) /\ Beside(files2, lo2, hi2, c, new) BY <1>2, <1>3, HalvedBounds
<1> QED BY <1>6, <1>7 DEF Ordered

\* The root is split and a new one goes above the two halves.
LEMMA RootGrown ==
    ASSUME NEW files, NEW files2, NEW root, NEW e, NEW new \in NodeIds, NEW max, NEW p2, NEW c2,
           Nodes(files), Forest(files, root, e, <<>>, root, TRUE), e # NULL_PTR, Ordered(files, e, root),
           Greatest(files, max), Grown(files, files2, root, e, new, max[root])
    PROVE  Forest(files2, new, NULL_PTR, p2, c2, FALSE) /\ Ordered(files2, NULL_PTR, c2)
<1>1. PICK h, par, slot : Shape(files, root, e, h, par, slot) /\ h[e] = h[root] BY DEF Forest
<1>2. PICK lo, hi : Bounds(files, lo, hi) /\ Beside(files, lo, hi, root, e) BY DEF Ordered
<1> DEFINE m == max[root]
<1>3. root \in DOMAIN files /\ e \in DOMAIN files /\ Kids(files) BY <1>1, KidsFact DEF Shape
<1>4. m \in Int BY <1>1, <1>2, <1>3, GreatestIsBounded
<1>5. PICK hi2 : Bounds(files, lo, hi2) /\ Beside(files, lo, hi2, root, e) /\ hi2[root] = m
  BY <1>1, <1>2, <1>3, Tightened
<1>6. Grown(files, files2, root, e, new, m) OBVIOUS
<1> HIDE DEF m
<1>7. \E h2, par2, slot2 : Shape(files2, new, NULL_PTR, h2, par2, slot2) BY <1>1, <1>6, GrownShape
<1>8. hi2[root] <= m /\ m <= lo[e] BY <1>4, <1>5 DEF Beside
<1>9. \E lo3, hi3 : Bounds(files2, lo3, hi3) BY <1>3, <1>4, <1>5, <1>6, <1>8, GrownBounds
<1> QED BY <1>7, <1>9 DEF Forest, Ordered

\* What the step on two neighbours leaves of the path above them.
LEMMA AboveNeighbours ==
    ASSUME NEW files, NEW files2, NEW root, NEW h, NEW par, NEW slot, NEW p \in Seq(Frames), NEW x, NEW i, NEW c, NEW d,
           Nodes(files), Shape(files, root, NULL_PTR, h, par, slot), Stack(files, root, p, x, h), p # <<>>, x \in {c, d},
           Neighbours(files, Above(p), i, c, d),
           \A y \in Ins(files) \ {Above(p), c, d} : y \in Ins(files2) /\ files2[y] = files[y],
           Above(p) \in DOMAIN files2
    PROVE  Stack(files2, root, Front(p), Above(p), h)
<1>1. /\ h[c] \in Nat /\ h[d] = h[c] /\ h[Above(p)] = h[c] + 1 BY NeighbourFacts
<1>2. h[x] = h[c] BY <1>1
<1>3. ASSUME NEW y \in Ins(files), h[y] > h[x] + 1 PROVE y \in Ins(files2) /\ files2[y].ptrs = files[y].ptrs
  <2>1. y \notin {Above(p), c, d} BY <1>1, <1>2, <1>3
  <2> QED BY <2>1
<1>4. Stack(files2, root, Front(p), p[Len(p)].node, h)
  <2>1. p[Len(p)].node \in DOMAIN files2 BY DEF Above
  <2>2. \A y \in DOMAIN files : h[y] = h[y] OBVIOUS
  <2> QED BY <2>1, <2>2, <1>3, StackUp
<1> QED BY <1>4 DEF Above

\* Two neighbours become one.
LEMMA Merging ==
    ASSUME NEW files, NEW files2, NEW root, NEW p \in Seq(Frames), NEW x, NEW i, NEW c, NEW d,
           Nodes(files), Forest(files, root, NULL_PTR, p, x, TRUE), Ordered(files, NULL_PTR, x), p # <<>>, x \in {c, d},
           Neighbours(files, Above(p), i, c, d), Merged(files, files2, Above(p), i, c, d),
           c \in Lvs(files) => DOMAIN files2[c].data \subseteq DOMAIN files[c].data \cup DOMAIN files[d].data
    PROVE  Forest(files2, root, NULL_PTR, Front(p), Above(p), TRUE) /\ Ordered(files2, NULL_PTR, Above(p))
<1>1. PICK h, par, slot : Shape(files, root, NULL_PTR, h, par, slot) /\ Stack(files, root, p, x, h)
  BY DEF Forest
<1>2. PICK lo, hi : Bounds(files, lo, hi) BY DEF Ordered
<1> DEFINE q == Above(p)
<1>3. q \in DOMAIN files /\ q # d /\ Neighbours(files, q, i, c, d) /\ Merged(files, files2, q, i, c, d)
  <2>1. c \in DOMAIN files /\ d \in DOMAIN files /\ c # d /\ c # q /\ d # q BY <1>1, NeighbourFacts
  <2>2. q \in DOMAIN files BY NodeFacts DEF Neighbours
  <2> QED BY <2>1, <2>2
<1>4. \A y \in Ins(files) \ {q, c, d} : y \in Ins(files2) /\ files2[y] = files[y] BY NodeFacts DEF Merged
<1>5. Stack(files2, root, Front(p), q, h)
  <2>1. q \in DOMAIN files2 BY <1>3 DEF Merged
  <2> QED BY <2>1, <1>1, <1>4, AboveNeighbours
<1> HIDE DEF q
<1>6. \E par2, slot2 : Shape(files2, root, NULL_PTR, h, par2, slot2) BY <1>1, <1>3, MergedShape
<1>7. \E lo2, hi2 : Bounds(files2, lo2, hi2) BY <1>1, <1>2, <1>3, MergedBounds
<1>8. Forest(files2, root, NULL_PTR, Front(p), q, TRUE) BY <1>5, <1>6 DEF Forest
<1>9. Ordered(files2, NULL_PTR, q) BY <1>7 DEF Ordered
<1> QED BY <1>8, <1>9 DEF q

\* The last child of c goes to its neighbour d.
LEMMA Rotating ==
    ASSUME NEW files, NEW files2, NEW root, NEW p \in Seq(Frames), NEW x, NEW i, NEW c, NEW d,
           Nodes(files), Forest(files, root, NULL_PTR, p, x, TRUE), Ordered(files, NULL_PTR, x), p # <<>>, x \in {c, d},
           Neighbours(files, Above(p), i, c, d), c \in Ins(files), Len(files[c].ptrs) >= 2,
           Rotated(files, files2, Above(p), i, c, d)
    PROVE  Forest(files2, root, NULL_PTR, Front(p), Above(p), TRUE) /\ Ordered(files2, NULL_PTR, Above(p))
<1>1. PICK h, par, slot : Shape(files, root, NULL_PTR, h, par, slot) /\ Stack(files, root, p, x, h)
  BY DEF Forest
<1>2. PICK lo, hi : Bounds(files, lo, hi) BY DEF Ordered
<1> DEFINE q == Above(p)
<1>3. q \in DOMAIN files /\ Neighbours(files, q, i, c, d) /\ Rotated(files, files2, q, i, c, d)
  BY NodeFacts DEF Neighbours
<1>4. \A y \in Ins(files) \ {q, c, d} : y \in Ins(files2) /\ files2[y] = files[y] BY NodeFacts DEF Rotated
<1>5. Stack(files2, root, Front(p), q, h)
  <2>1. q \in DOMAIN files2 BY <1>3 DEF Rotated
  <2> QED BY <2>1, <1>1, <1>4, AboveNeighbours
<1> HIDE DEF q
<1>6. \E par2, slot2 : Shape(files2, root, NULL_PTR, h, par2, slot2) BY <1>1, <1>3, RotatedShape
<1>7. \E lo2, hi2 : Bounds(files2, lo2, hi2) BY <1>1, <1>2, <1>3, RotatedBounds
<1>8. Forest(files2, root, NULL_PTR, Front(p), q, TRUE) BY <1>5, <1>6 DEF Forest
<1>9. Ordered(files2, NULL_PTR, q) BY <1>7 DEF Ordered
<1> QED BY <1>8, <1>9 DEF q

LEMMA Recutting ==
    ASSUME NEW files, NEW files2, NEW root, NEW p \in Seq(Frames), NEW x, NEW i, NEW c \in Lvs(files), NEW d \in Lvs(files),
           NEW m \in Int, Nodes(files), Nodes(files2),
           Forest(files, root, NULL_PTR, p, x, TRUE), Ordered(files, NULL_PTR, x), p # <<>>, x \in {c, d},
           Neighbours(files, Above(p), i, c, d), Recut(files, files2, Above(p), i, c, d, m),
           Divided(files, files2, c, d, m), Overlap(files, files2), Chain(files)
    PROVE  /\ Forest(files2, root, NULL_PTR, Front(p), Above(p), TRUE) /\ Ordered(files2, NULL_PTR, Above(p))
           /\ Chain(files2)
<1>1. PICK h, par, slot : Shape(files, root, NULL_PTR, h, par, slot) /\ Stack(files, root, p, x, h)
  BY DEF Forest
<1>2. PICK lo, hi : Bounds(files, lo, hi) BY DEF Ordered
<1> DEFINE q == Above(p)
<1>3. q \in Ins(files) /\ q \in DOMAIN files /\ Neighbours(files, q, i, c, d) /\ Recut(files, files2, q, i, c, d, m)
  BY NodeFacts DEF Neighbours
<1>4. \A y \in Ins(files) \ {q, c, d} : y \in Ins(files2) /\ files2[y] = files[y] BY NodeFacts DEF Recut
<1>5. Stack(files2, root, Front(p), q, h)
  <2>1. q \in DOMAIN files2 BY <1>3 DEF Recut
  <2> QED BY <2>1, <1>1, <1>4, AboveNeighbours
<1> HIDE DEF q
<1>6. Shape(files2, root, NULL_PTR, h, par, slot)
  <2>1. SameTree(files, files2)
    <3>1. ASSUME NEW y \in Ins(files) PROVE files2[y].ptrs = files[y].ptrs
      <4>1. y # c /\ y # d BY LeafFacts
      <4> QED BY <4>1, <1>3, <1>4 DEF Recut
    <3> QED BY <3>1, <1>3 DEF Recut, SameTree
  <2> QED BY <2>1, <1>1, SameShape
<1> DEFINE lo2 == [n \in DOMAIN files |-> IF n = d THEN m ELSE lo[n]]
           hi2 == [n \in DOMAIN files |-> IF n = c THEN m ELSE hi[n]]
<1>7. c \in DOMAIN files /\ d \in DOMAIN files /\ c # d BY <1>1, <1>3, NeighbourFacts
<1>8. lo2[d] = m /\ hi2[c] = m /\ \A n \in DOMAIN files : (n # d => lo2[n] = lo[n]) /\ (n # c => hi2[n] = hi[n])
  BY <1>7
<1> HIDE DEF lo2, hi2
<1>9. lo[c] \in Int /\ hi[c] \in Int /\ lo[d] \in Int /\ hi[d] \in Int /\ lo[c] < hi[c] /\ lo[d] < hi[d]
  BY <1>2, <1>7 DEF Bounds, Bounded
<1>10. hi[c] <= lo[d] BY <1>1, <1>2, <1>3, AdjacentIs
<1>11. /\ \A y \in DOMAIN files[c].data : y \in Int /\ lo[c] < y /\ y <= hi[c]
       /\ \A y \in DOMAIN files[d].data : y \in Int /\ lo[d] < y /\ y <= hi[d]
  <2>1. DOMAIN files[c].data \subseteq Int /\ DOMAIN files[d].data \subseteq Int BY LeafFacts
  <2> QED BY <2>1, <1>2 DEF Bounds, Contained
<1>12. \A y \in DOMAIN files2[c].data \cup DOMAIN files2[d].data : y \in Int /\ lo[c] < y /\ y <= hi[d]
  <2> SUFFICES ASSUME NEW y \in DOMAIN files2[c].data \cup DOMAIN files2[d].data PROVE y \in Int /\ lo[c] < y /\ y <= hi[d]
    OBVIOUS
  <2>1. y \in DOMAIN files[c].data \/ y \in DOMAIN files[d].data BY DEF Divided
  <2> QED BY <2>1, <1>9, <1>10, <1>11
<1>13. lo[c] < m /\ m < hi[d]
  <2>1. PICK y \in DOMAIN files[c].data : y <= m BY DEF Divided
  <2>2. PICK z \in DOMAIN files[d].data : m < z BY DEF Divided
  <2> QED BY <2>1, <2>2, <1>9, <1>11
<1>14. Contained(files2, lo2, hi2, c) /\ Contained(files2, lo2, hi2, d)
  <2>1. lo2[c] = lo[c] /\ hi2[d] = hi[d] BY <1>7, <1>8
  <2>2. \A y \in DOMAIN files2[c].data : y <= m BY DEF Divided
  <2>3. \A y \in DOMAIN files2[d].data : m < y BY DEF Divided
  <2> QED BY <2>1, <2>2, <2>3, <1>8, <1>12 DEF Contained
<1>15. Bounds(files2, lo2, hi2)
  <2>1. c \notin Ins(files2) /\ d \notin Ins(files2) BY <1>3, LeafFacts DEF Recut
  <2>2. Fits(files2, lo2, hi2, c) /\ Fits(files2, lo2, hi2, d) BY <2>1, <1>14 DEF Fits
  <2>3. Moved(files, lo, hi, lo2, hi2, c, d, m) BY <1>8 DEF Moved
  <2> QED BY <2>2, <2>3, <1>1, <1>2, <1>3, <1>13, RecutBounds
<1>16. Forest(files2, root, NULL_PTR, Front(p), q, TRUE) BY <1>5, <1>6 DEF Forest
<1>17. Ordered(files2, NULL_PTR, q) BY <1>15 DEF Ordered
<1>18. Chain(files2)
  <2>1. Total(files2) BY <1>6, <1>15, TotalIs
  <2>2. Lvs(files2) = Lvs(files) BY <1>3 DEF Recut
  <2> QED BY <2>1, <2>2, SameChain DEF Overlap
<1> QED BY <1>16, <1>17, <1>18 DEF q

\* The root gives way to its only child.
LEMMA RootShrunk ==
    ASSUME NEW files, NEW files2, NEW root \in Ins(files), NEW p, NEW c, NEW p2, NEW c2,
           Nodes(files), Forest(files, root, NULL_PTR, p, c, TRUE), Ordered(files, NULL_PTR, c),
           Len(files[root].ptrs) = 1, Shrunk(files, files2, root)
    PROVE  Forest(files2, files[root].ptrs[1], NULL_PTR, p2, c2, FALSE) /\ Ordered(files2, NULL_PTR, c2)
<1>1. PICK h, par, slot : Shape(files, root, NULL_PTR, h, par, slot) BY DEF Forest
<1>2. PICK lo, hi : Bounds(files, lo, hi) BY DEF Ordered
<1>3. Shape(files2, files[root].ptrs[1], NULL_PTR, h, par, slot) BY <1>1, ShrunkShape
<1>4. Bounds(files2, lo, hi) BY <1>2, ShrunkBounds
<1> QED BY <1>3, <1>4 DEF Forest, Ordered

\* A change of the nodes above the leaves.
LEMMA ChainKept ==
    ASSUME NEW files, NEW files2, Chain(files), Lvs(files2) = Lvs(files), \A n \in Lvs(files) : files2[n] = files[n]
    PROVE  Chain(files2)
BY DEF Chain, Follows, Lt

-----------------------------------------------------------------------------
(* The invariant *)

LEMMA Initially == Init => Inv
<1> SUFFICES ASSUME Init PROVE Inv OBVIOUS
<1>1. /\ node = [n \in {1} |-> Leaf(0, <<>>, NULL_PTR)] /\ root_ptr = 1 /\ pc = "idle" /\ request = NoRequest
      /\ cur = NULL_PTR /\ path = <<>> /\ split = NULL_PTR /\ result = <<>>
  BY DEF Init
<1>2. /\ DOMAIN node = {1} /\ node[1].kind = "leaf" /\ node[1].size = 0 /\ node[1].data = <<>> /\ node[1].next = NULL_PTR
  BY <1>1 DEF Leaf
<1>3. Lvs(node) = {1} /\ Ins(node) = {} BY <1>2 DEF Lvs, Ins
<1>4. request.op = "none" /\ request \notin Requests BY <1>1 DEF NoRequest, Requests
<1>5. Control BY <1>1, <1>4 DEF Control, At
<1>6. DOMAIN node[1].data = {} /\ Cardinality(DOMAIN node[1].data) = 0
  <2>1. DOMAIN node[1].data = {} BY <1>2
  <2> QED BY <2>1, FS_EmptySet
<1>7. Nodes(node)
  <2>1. LeafNode(node[1]) BY <1>2, <1>6 DEF LeafNode
  <2>2. 1 \in NodeIds BY MaxNodeIdAssumption DEF NodeIds
  <2> QED BY <2>1, <2>2, <1>2, <1>3 DEF Nodes
<1>8. Forest(node, root_ptr, split, path, cur, Updating)
  <2> DEFINE h == [n \in {1} |-> 0]
  <2>1. Shape(node, 1, NULL_PTR, h, h, h) BY <1>2, <1>3 DEF Shape, HeightOf, NULL_PTR
  <2>2. ~Updating BY <1>4 DEF Updating
  <2> HIDE DEF h
  <2> QED BY <2>1, <2>2, <1>1 DEF Forest
<1>9. Ordered(node, split, cur)
  <2> DEFINE lo == [n \in {1} |-> 0]
             hi == [n \in {1} |-> 1]
  <2>1. Bounds(node, lo, hi) BY <1>2, <1>3, <1>6 DEF Bounds, Bounded, Contained
  <2> HIDE DEF lo, hi
  <2> QED BY <2>1, <1>1 DEF Ordered
<1>10. Chain(node) BY <1>2, <1>3 DEF Chain
<1>11. Occupied(node, MayBeEmpty, MayLack)
  <2>1. MayBeEmpty = 1 BY <1>1 DEF MayBeEmpty
  <2> QED BY <2>1, <1>2, <1>3, <1>6, FanoutAssumption DEF Occupied, Pairs1
<1>12. Widths(node, MayBeThin) BY <1>3 DEF Widths
<1>13. Guided /\ Roomy BY <1>1 DEF Guided, Roomy, At
<1> QED BY <1>5, <1>7, <1>8, <1>9, <1>10, <1>11, <1>12, <1>13 DEF Inv

-----------------------------------------------------------------------------
(* The calls and the way down *)

LEMMA IdleFacts ==
    ASSUME Inv, pc = "idle"
    PROVE  path = <<>> /\ split = NULL_PTR
BY DEF Inv, Control, At

LEMMA LeafOrInternal ==
    /\ \A n \in DOMAIN node : (IsLeaf(n) <=> n \in Lvs(node)) /\ (~IsLeaf(n) <=> n \in Ins(node))
    /\ Internals = Ins(node) /\ StoredKeys = Stored(node) /\ Unused = Free(node) /\ Leaves = Lvs(node)
<1>1. \A n \in DOMAIN node : (IsLeaf(n) <=> n \in Lvs(node)) /\ (~IsLeaf(n) <=> n \in Ins(node))
  BY DEF IsLeaf, Lvs, Ins
<1>2. Internals = Ins(node) BY DEF Internals, Ins, IsLeaf
<1>3. DOMAIN node \ Internals = Lvs(node) BY <1>2 DEF Ins, Lvs
<1> QED BY <1>1, <1>2, <1>3 DEF StoredKeys, Stored, Unused, Free, Leaves

LEMMA BeginStep ==
    ASSUME Inv, NEW req \in Requests, Begin(req), req.op = "insert" => MayInsert(req.lo), ~DuplicateInserts
    PROVE  Inv'
<1>1. /\ pc = "idle" /\ pc' = "descend" /\ request' = req /\ cur' = root_ptr /\ result' = <<>>
      /\ node' = node /\ root_ptr' = root_ptr /\ path' = <<>> /\ split' = NULL_PTR /\ path = <<>> /\ split = NULL_PTR
  BY IdleFacts DEF Begin
<1>2. PICK h, par, slot : Shape(node, root_ptr, NULL_PTR, h, par, slot) BY <1>1 DEF Inv, Forest
<1>3. root_ptr \in DOMAIN node BY <1>2, Heights
<1>4. Control'
  <2>1. result' \in Seq(RecordPtrs) /\ path' \in Seq(Frames) BY <1>1
  <2> QED BY <2>1, <1>1, <1>3 DEF Control, At
<1>5. Nodes(node') /\ Chain(node') BY <1>1 DEF Inv
<1>6. Forest(node', root_ptr', split', path', cur', Updating')
  <2>1. Stack(node, root_ptr, <<>>, root_ptr, h) BY <1>2, StackStart
  <2> QED BY <2>1, <1>1, <1>2 DEF Forest
<1>7. Ordered(node', split', cur') BY <1>1 DEF Inv, Ordered
<1>8. Occupied(node', MayBeEmpty', MayLack') /\ Widths(node', MayBeThin')
  <2>1. MayBeEmpty' = MayBeEmpty /\ MayLack' = MayLack /\ MayBeThin' = MayBeThin
    BY <1>1 DEF MayBeEmpty, MayLack, MayBeThin, At
  <2> QED BY <2>1, <1>1 DEF Inv
<1>9. Guided' BY <1>1 DEF Guided, Sought
<1>10. Roomy'
  <2>1. req.op = "insert" => Room(node, Cardinality(Ins(node)) + 2) /\ req.lo \notin Stored(node)
    BY LeafOrInternal DEF MayInsert, Room
  <2> QED BY <2>1, <1>1 DEF Roomy, At
<1> QED BY <1>4, <1>5, <1>6, <1>7, <1>8, <1>9, <1>10 DEF Inv

\* The way down is continued by the child that the key leads to.
LEMMA WayDown ==
    ASSUME NEW files, NEW root, NEW p \in Seq(Frames), NEW c \in Ins(files), NEW k, NEW h, NEW par, NEW slot,
           Nodes(files), Shape(files, root, NULL_PTR, h, par, slot), Stack(files, root, p, c, h), Sought(files, p, k),
           NEW i \in 1 .. Len(files[c].ptrs), i = Cardinality({j \in DOMAIN files[c].keys : files[c].keys[j] < k}) + 1
    PROVE  LET q == Append(p, [node |-> c, index |-> i])
           IN  q \in Seq(Frames) /\ Stack(files, root, q, files[c].ptrs[i], h) /\ Sought(files, q, k)
<1> DEFINE frame == [node |-> c, index |-> i]
           q == Append(p, frame)
           n == Len(p)
<1>1. frame.node = c /\ frame.index = i OBVIOUS
<1>2. frame \in Frames
  <2>1. c \in NodeIds /\ i \in Nat \ {0} BY NodeFacts
  <2> QED BY <2>1 DEF Frames
<1>3. Stack(files, root, q, files[c].ptrs[i], h) BY <1>2, StackDown
<1>4. q \in Seq(Frames) /\ n \in Nat /\ Len(q) = n + 1 /\ q[n + 1] = frame /\ \A j \in 1 .. n : q[j] = p[j]
  <2> HIDE DEF frame
  <2> QED BY <1>2, AppendProperties
<1> HIDE DEF frame, q, n
<1>5. ASSUME NEW j \in 1 .. n + 1
      PROVE  q[j].index = Cardinality({x \in DOMAIN files[q[j].node].keys : files[q[j].node].keys[x] < k}) + 1
  <2>1. CASE j = n + 1 BY <2>1, <1>1, <1>4
  <2>2. CASE j # n + 1
    <3>1. j \in 1 .. n BY <1>4, <2>2
    <3> QED BY <3>1, <1>4 DEF Sought, n
  <2> QED BY <2>1, <2>2
<1>6. Sought(files, q, k) BY <1>4, <1>5 DEF Sought
<1> QED BY <1>3, <1>4, <1>6 DEF q, frame

LEMMA DescendStep ==
    ASSUME Inv, Descend
    PROVE  Inv'
<1> DEFINE i == ChildIndex(cur, request.lo)
           frame == [node |-> cur, index |-> i]
<1>1. /\ pc = "descend" /\ ~IsLeaf(cur) /\ path' = Append(path, frame) /\ cur' = node[cur].ptrs[i]
      /\ node' = node /\ root_ptr' = root_ptr /\ pc' = pc /\ request' = request /\ split' = split /\ result' = result
  BY DEF Descend
<1>2. request \in Requests /\ cur \in DOMAIN node /\ split = NULL_PTR /\ path \in Seq(Frames)
  BY <1>1 DEF Inv, Control, At
<1>3. cur \in Ins(node) /\ Nodes(node) BY <1>1, <1>2, LeafOrInternal DEF Inv
<1>4. PICK h, par, slot : Shape(node, root_ptr, NULL_PTR, h, par, slot) /\ (Updating => Stack(node, root_ptr, path, cur, h))
  BY <1>2 DEF Inv, Forest
<1>5. PICK lo, hi : Bounds(node, lo, hi) BY DEF Inv, Ordered
<1>6. request.lo \in Nat
  <2>1. request.lo \in Keys BY <1>2 DEF Requests
  <2> QED BY <2>1, KeysAssumption
<1>7. i \in 1 .. Len(node[cur].ptrs)
  <2> DEFINE keys == node[cur].keys
  <2>1. Sorted(keys) /\ keys \in Seq(Keys) /\ Len(node[cur].ptrs) = Len(keys) + 1
    BY <1>3, <1>5, NodeFacts DEF Bounds
  <2>2. keys \in Seq(Nat)
    <3>1. keys \in [1 .. Len(keys) -> Keys] /\ Len(keys) \in Nat BY <2>1, LenProperties
    <3> HIDE DEF keys
    <3>2. keys \in [1 .. Len(keys) -> Nat] BY <3>1, KeysAssumption
    <3> QED BY <3>1, <3>2
  <2>3. i = Cardinality({j \in DOMAIN keys : keys[j] < request.lo}) + 1 BY DEF ChildIndex
  <2> HIDE DEF keys, i
  <2>4. i \in 1 .. Len(keys) + 1 BY <2>1, <2>2, <2>3, <1>6, ChildIndexIs
  <2> QED BY <2>1, <2>4 DEF keys
<1> HIDE DEF i
<1>8. frame \in Frames
  <2>1. cur \in NodeIds /\ i \in Nat \ {0} BY <1>3, <1>7, NodeFacts
  <2> QED BY <2>1 DEF Frames
<1>9. cur' \in DOMAIN node BY <1>1, <1>3, <1>4, <1>7, ChildFacts
<1>10. Control'
  <2>1. path' \in Seq(Frames) BY <1>1, <1>2, <1>8
  <2> QED BY <2>1, <1>1, <1>2, <1>9 DEF Inv, Control, At
<1>11. Nodes(node') /\ Chain(node') BY <1>1 DEF Inv
<1>12. Forest(node', root_ptr', split', path', cur', Updating')
  <2>1. Updating' = Updating BY <1>1 DEF Updating
  <2>2. Updating => Stack(node, root_ptr, Append(path, frame), cur', h)
    BY <1>1, <1>2, <1>3, <1>4, <1>7, <1>8, StackDown
  <2> QED BY <2>1, <2>2, <1>1, <1>2, <1>4 DEF Forest
<1>13. Ordered(node', split', cur') BY <1>1, <1>2, <1>5 DEF Ordered
<1>14. Occupied(node', MayBeEmpty', MayLack') /\ Widths(node', MayBeThin')
  <2>1. MayBeEmpty' = MayBeEmpty /\ MayLack' = MayLack /\ MayBeThin' = MayBeThin
    BY <1>1 DEF MayBeEmpty, MayLack, MayBeThin, At
  <2> QED BY <2>1, <1>1 DEF Inv
<1>15. Guided'
  <2> SUFFICES ASSUME Updating PROVE Sought(node, Append(path, frame), request.lo) BY <1>1 DEF Guided, Updating
  <2>1. Sought(node, path, request.lo) /\ Stack(node, root_ptr, path, cur, h) BY <1>1, <1>4 DEF Inv, Guided
  <2>2. i = Cardinality({j \in DOMAIN node[cur].keys : node[cur].keys[j] < request.lo}) + 1 BY DEF ChildIndex, i
  <2>3. LET q == Append(path, [node |-> cur, index |-> i])
        IN  q \in Seq(Frames) /\ Stack(node, root_ptr, q, node[cur].ptrs[i], h) /\ Sought(node, q, request.lo)
    BY <1>2, <1>3, <1>4, <1>7, <2>1, <2>2, WayDown
  <2> QED BY <2>3
<1>16. Roomy' BY <1>1 DEF Inv, Roomy, At
<1> QED BY <1>10, <1>11, <1>12, <1>13, <1>14, <1>15, <1>16 DEF Inv

-----------------------------------------------------------------------------
(* Files written and files dropped *)

LEMMA Updated2 ==
    ASSUME NEW files, NEW a \in DOMAIN files, NEW b \in DOMAIN files, NEW x, NEW y, a # b
    PROVE  Written2(files, [files EXCEPT ![a] = x, ![b] = y], a, x, b, y)
BY DEF Written2

LEMMA Updated3 ==
    ASSUME NEW files, NEW a \in DOMAIN files, NEW b \in DOMAIN files, NEW c \in DOMAIN files,
           NEW x, NEW y, NEW z, a # b, a # c, b # c
    PROVE  Written3(files, [files EXCEPT ![a] = x, ![b] = y, ![c] = z], a, x, b, y, c, z)
BY DEF Written3

LEMMA Created2 ==
    ASSUME NEW files, NEW a \in DOMAIN files, NEW b, b \notin DOMAIN files, NEW x, NEW y
    PROVE  Written2(files, Created([files EXCEPT ![a] = x], b, y), a, x, b, y)
BY DEF Written2, Created

LEMMA WithoutIs ==
    ASSUME NEW files, NEW d
    PROVE  Dropped(files, Without(files, d), d)
BY DEF Dropped, Without, Restrict

LEMMA Constructors ==
    /\ \A size, data, next : /\ Leaf(size, data, next).kind = "leaf" /\ Leaf(size, data, next).size = size
                             /\ Leaf(size, data, next).data = data /\ Leaf(size, data, next).next = next
    /\ \A keys, ptrs : /\ Internal(keys, ptrs).kind = "internal" /\ Internal(keys, ptrs).kind # "leaf"
                       /\ Internal(keys, ptrs).keys = keys /\ Internal(keys, ptrs).ptrs = ptrs
BY DEF Leaf, Internal

GoodNode(x) == (x.kind = "leaf" /\ LeafNode(x)) \/ (x.kind # "leaf" /\ InternalNode(x))

\* Files stay well formed when what is written is.
LEMMA NodesIf ==
    ASSUME NEW files, NEW files2, Nodes(files), DOMAIN files2 \subseteq NodeIds,
           \A n \in DOMAIN files2 : (n \in DOMAIN files /\ files2[n] = files[n]) \/ GoodNode(files2[n])
    PROVE  Nodes(files2)
BY DEF Nodes, GoodNode, Lvs, Ins

LEMMA LeafIsGood ==
    ASSUME NEW size \in Nat, NEW data, NEW next \in NodeIds \cup {NULL_PTR},
           data \in [DOMAIN data -> RecordPtrs], DOMAIN data \subseteq Keys
    PROVE  GoodNode(Leaf(size, data, next)) /\ Leaf(size, data, next).kind = "leaf"
BY DEF GoodNode, LeafNode, Leaf

LEMMA InternalIsGood ==
    ASSUME NEW keys \in Seq(Keys), NEW ptrs \in Seq(NodeIds), Len(ptrs) = Len(keys) + 1
    PROVE  GoodNode(Internal(keys, ptrs)) /\ Internal(keys, ptrs).kind # "leaf"
BY DEF GoodNode, InternalNode, Internal

\* The kinds of the files after some were written.
LEMMA KindsIf ==
    ASSUME NEW files, NEW files2, DOMAIN files2 = DOMAIN files,
           \A n \in DOMAIN files : files2[n] = files[n] \/ (files2[n].kind = "leaf" <=> files[n].kind = "leaf")
    PROVE  Lvs(files2) = Lvs(files) /\ Ins(files2) = Ins(files)
BY DEF Lvs, Ins

LEMMA HalfIs ==
    /\ HALF \in Nat /\ MIN_KEYS = HALF /\ HALF >= 2 /\ FANOUT \in Nat /\ 2 * HALF >= FANOUT /\ 2 * HALF <= FANOUT + 1
    /\ HALF < FANOUT
BY FanoutAssumption DEF HALF, MIN_KEYS

LEMMA CallFacts ==
    ASSUME Inv, pc # "idle"
    PROVE  /\ request \in Requests /\ cur \in DOMAIN node /\ path \in Seq(Frames) /\ result \in Seq(RecordPtrs)
           /\ request.lo \in Keys /\ request.lo \in Nat
           /\ request.op = "insert" => request.ptr \in RecordPtrs
<1>1. request \in Requests /\ cur \in DOMAIN node /\ path \in Seq(Frames) /\ result \in Seq(RecordPtrs)
  BY DEF Inv, Control
<1>2. request.lo \in Keys /\ (request.op = "insert" => request.ptr \in RecordPtrs) BY <1>1 DEF Requests
<1> QED BY <1>1, <1>2, KeysAssumption

LEMMA LeafIs ==
    ASSUME Inv, NEW n \in Lvs(node)
    PROVE  /\ LeafAt(n) = node[n] /\ Data(n) = node[n].data /\ node[n].kind = "leaf"
           /\ node[n].size = Cardinality(DOMAIN node[n].data)
           /\ Cardinality(DOMAIN node[n].data) \in Nat /\ IsFiniteSet(DOMAIN node[n].data)
           /\ Cardinality(DOMAIN node[n].data) <= FANOUT
<1>1. Nodes(node) /\ Occupied(node, MayBeEmpty, MayLack) BY DEF Inv
<1>2. Cardinality(DOMAIN node[n].data) \in Nat /\ IsFiniteSet(DOMAIN node[n].data) BY <1>1, LeafFacts
<1>3. node[n].size = Cardinality(DOMAIN node[n].data) /\ Cardinality(DOMAIN node[n].data) <= FANOUT
  BY <1>1 DEF Occupied, Pairs1
<1>4. LeafAt(n) = node[n] BY <1>2, <1>3 DEF LeafAt
<1> QED BY <1>2, <1>3, <1>4 DEF Data, Lvs

\* The children taken on the way down are those the key belongs to.
LEMMA SoughtIsRouted ==
    ASSUME NEW files, NEW root, NEW c, NEW p, NEW k \in Nat, NEW h, NEW lo, NEW hi, Nodes(files),
           Stack(files, root, p, c, h), Bounds(files, lo, hi), Sought(files, p, k)
    PROVE  Routed(files, p, k)
<1>1. ASSUME NEW i \in 1 .. Len(p)
      PROVE  LET keys == files[p[i].node].keys
             IN  /\ p[i].index > 1 => keys[p[i].index - 1] < k
                 /\ p[i].index <= Len(keys) => k <= keys[p[i].index]
  <2> DEFINE keys == files[p[i].node].keys
             at == p[i].index
  <2>1. p[i].node \in Ins(files) BY DEF Stack, FrameOf
  <2>2. keys \in Seq(Keys) /\ Sorted(keys) BY <2>1, NodeFacts DEF Bounds
  <2>3. at = Cardinality({j \in DOMAIN keys : keys[j] < k}) + 1 BY DEF Sought
  <2> HIDE DEF keys, at
  <2>4. keys \in Seq(Nat)
    <3>1. keys \in [1 .. Len(keys) -> Keys] /\ Len(keys) \in Nat BY <2>2, LenProperties
    <3>2. keys \in [1 .. Len(keys) -> Nat] BY <3>1, KeysAssumption
    <3> QED BY <3>1, <3>2
  <2>5. (at > 1 => keys[at - 1] < k) /\ (at <= Len(keys) => k <= keys[at]) BY <2>2, <2>3, <2>4, ChildIndexIs
  <2> QED BY <2>5 DEF keys, at
<1> QED BY <1>1 DEF Routed

LEMMA RoutedIs ==
    ASSUME Inv, pc = "descend", Updating
    PROVE  Routed(node, path, request.lo)
<1>1. request.lo \in Nat /\ Nodes(node) /\ Sought(node, path, request.lo) BY CallFacts DEF Inv, Guided
<1>2. PICK h, par, slot : Shape(node, root_ptr, split, h, par, slot) /\ Stack(node, root_ptr, path, cur, h)
  BY DEF Inv, Forest
<1>3. PICK lo, hi : Bounds(node, lo, hi) BY DEF Inv, Ordered
<1> QED BY <1>1, <1>2, <1>3, SoughtIsRouted

\* Only a leaf that is the root can be empty.
LEMMA FilledIs ==
    ASSUME Inv, root_ptr \in Ins(node) \/ split # NULL_PTR
    PROVE  Filled(node)
<1>1. \A n \in Lvs(node) : n # MayBeEmpty
  <2>1. NULL_PTR \notin DOMAIN node BY NoNull DEF Inv
  <2> QED BY <2>1 DEF MayBeEmpty, Lvs, Ins
<1> SUFFICES ASSUME NEW n \in Lvs(node) PROVE DOMAIN node[n].data # {} BY DEF Filled
<1>2. HALF <= Pairs1(node, n) \/ HALF = Pairs1(node, n) + 1 BY <1>1 DEF Inv, Occupied
<1>3. Pairs1(node, n) >= 1 BY <1>2, HalfIs, LeafIs DEF Pairs1
<1> QED BY <1>3, FS_EmptySet DEF Pairs1

\* What is above cur while an insert or delete runs.
LEMMA AboveIs ==
    ASSUME Inv, Updating, path # <<>>
    PROVE  /\ Len(path) \in Nat \ {0} /\ Parent = Above(path) /\ Frame.index = Slot(path)
           /\ Parent \in Ins(node) /\ Parent \in DOMAIN node /\ Parent # cur /\ cur # root_ptr
           /\ Slot(path) \in 1 .. Len(Siblings) /\ Len(Siblings) \in Nat /\ Siblings[Slot(path)] = cur
           /\ root_ptr \in Ins(node)
<1>1. path \in Seq(Frames) /\ Nodes(node) BY DEF Inv, Control
<1>2. PICK h, par, slot : Shape(node, root_ptr, split, h, par, slot) /\ Stack(node, root_ptr, path, cur, h)
  BY DEF Inv, Forest
<1>3. /\ Len(path) \in Nat \ {0} /\ path[Len(path)].node \in Ins(node) /\ path[Len(path)].node \in DOMAIN node
      /\ path[Len(path)].index \in 1 .. Len(node[path[Len(path)].node].ptrs)
      /\ node[path[Len(path)].node].ptrs[path[Len(path)].index] = cur
      /\ h[path[Len(path)].node] = h[cur] + 1 /\ cur # root_ptr
  BY <1>1, <1>2, LastFrame
<1>4. h[cur] \in Nat BY <1>2, Heights DEF Stack
<1>5. Len(node[path[Len(path)].node].ptrs) \in Nat BY <1>1, <1>3, NodeFacts
<1>6. path[1].node \in Ins(node) /\ path[1].node = root_ptr
  <2>1. 1 \in 1 .. Len(path) BY <1>3
  <2> QED BY <2>1, <1>2 DEF Stack, FrameOf, Step
<1> QED BY <1>3, <1>4, <1>5, <1>6 DEF Parent, Frame, Above, Slot, Siblings

LEMMA insertIntoCurrentLeafStep ==
    ASSUME Inv, insertIntoCurrentLeaf
    PROVE  Inv'
<1> DEFINE k == request.lo
           data == Put(node[cur].data, k, request.ptr)
<1>1. /\ pc = "descend" /\ request.op = "insert" /\ cur \in Lvs(node) /\ Updating
      /\ pc' = "idle" /\ request' = NoRequest /\ cur' = NULL_PTR /\ path' = <<>> /\ split' = NULL_PTR
      /\ root_ptr' = root_ptr /\ result' = result /\ split = NULL_PTR
  <2>1. cur \in Lvs(node) BY LeafOrInternal, CallFacts DEF insertIntoCurrentLeaf, At
  <2> QED BY <2>1 DEF insertIntoCurrentLeaf, At, Return, Updating, Inv, Control
<1>2. /\ k \in Keys /\ k \in Nat /\ request.ptr \in RecordPtrs /\ path \in Seq(Frames) /\ result \in Seq(RecordPtrs)
      /\ Nodes(node) /\ cur \in DOMAIN node
  BY <1>1, CallFacts DEF Inv
<1>3. /\ node' = [node EXCEPT ![cur] = Leaf(node[cur].size + 1, data, node[cur].next)]
      /\ Cardinality(DOMAIN node[cur].data) < FANOUT
  BY <1>1, LeafIs DEF insertIntoCurrentLeaf
<1>4. /\ node[cur].size = Cardinality(DOMAIN node[cur].data) /\ node[cur].size \in Nat
      /\ IsFiniteSet(DOMAIN node[cur].data) /\ LeafNode(node[cur])
  BY <1>1, <1>2, LeafIs, LeafFacts
<1>5. k \notin DOMAIN node[cur].data BY <1>1 DEF Inv, Roomy, At, Stored
<1>6. /\ DOMAIN data = DOMAIN node[cur].data \cup {k} /\ data \in [DOMAIN data -> RecordPtrs]
      /\ DOMAIN data \subseteq Keys
  BY <1>2, <1>4 DEF Put, LeafNode
<1>7. Cardinality(DOMAIN data) = node[cur].size + 1 BY <1>4, <1>5, <1>6, FS_AddElement
<1> HIDE DEF data
<1>8. /\ DOMAIN node' = DOMAIN node /\ \A x \in DOMAIN node \ {cur} : node'[x] = node[x]
      /\ node'[cur].kind = "leaf" /\ node'[cur].size = node[cur].size + 1 /\ node'[cur].data = data
      /\ node'[cur].next = node[cur].next /\ node'[cur] = Leaf(node[cur].size + 1, data, node[cur].next)
  BY <1>2, <1>3, Constructors
<1>9. Lvs(node') = Lvs(node) /\ Ins(node') = Ins(node)
  <2>1. \A n \in DOMAIN node : node'[n] = node[n] \/ (node'[n].kind = "leaf" <=> node[n].kind = "leaf")
    BY <1>1, <1>8 DEF Lvs
  <2> QED BY <2>1, <1>8, KindsIf
<1>10. Nodes(node')
  <2>1. node[cur].size + 1 \in Nat /\ node[cur].next \in NodeIds \cup {NULL_PTR} BY <1>4 DEF LeafNode
  <2>2. GoodNode(Leaf(node[cur].size + 1, data, node[cur].next)) BY <2>1, <1>6, LeafIsGood
  <2>3. GoodNode(node'[cur]) BY <1>8, <2>2
  <2> QED BY <2>3, <1>2, <1>8, NodesIf DEF Nodes
<1>11. /\ Forest(node, root_ptr, NULL_PTR, path, cur, TRUE) /\ Ordered(node, NULL_PTR, cur) /\ Chain(node)
       /\ Routed(node, path, k)
  BY <1>1, RoutedIs DEF Inv, Forest
<1>12. \A n \in Lvs(node) \ {root_ptr} : DOMAIN node[n].data \cap DOMAIN node'[n].data # {}
  <2> SUFFICES ASSUME NEW n \in Lvs(node) \ {root_ptr} PROVE DOMAIN node[n].data \cap DOMAIN node'[n].data # {}
    OBVIOUS
  <2>1. DOMAIN node[n].data \subseteq DOMAIN node'[n].data BY <1>6, <1>8 DEF Lvs
  <2>2. n # MayBeEmpty /\ n # MayLack /\ n \in DOMAIN node BY <1>1, <1>2, NoNull DEF MayBeEmpty, MayLack, Lvs
  <2>3. HALF <= Cardinality(DOMAIN node[n].data) BY <2>2 DEF Inv, Occupied, Pairs1
  <2>4. DOMAIN node[n].data # {} BY <2>3, HalfIs, FS_EmptySet
  <2> QED BY <2>1, <2>4
<1>13. Forest(node', root_ptr, NULL_PTR, path, cur, TRUE) /\ Ordered(node', NULL_PTR, cur) /\ Chain(node')
  <2>1. cur \in Lvs(node') /\ DOMAIN node'[cur].data \subseteq DOMAIN node[cur].data \cup {k}
    BY <1>1, <1>6, <1>8, <1>9
  <2> HIDE DEF k
  <2> QED BY <2>1, <1>1, <1>2, <1>8, <1>10, <1>11, <1>12, LeafWritten
<1>14. Forest(node', root_ptr', split', path', cur', Updating') /\ Ordered(node', split', cur')
  <2>1. ~Updating' BY <1>1 DEF Updating, NoRequest
  <2> QED BY <2>1, <1>1, <1>13 DEF Forest, Ordered
<1>15. Control' BY <1>1, <1>2 DEF Control, At
<1>16. Occupied(node', MayBeEmpty', MayLack')
  <2>1. MayBeEmpty' = MayBeEmpty /\ MayLack' = MayLack BY <1>1 DEF MayBeEmpty, MayLack
  <2>2. Occupied(node, MayBeEmpty, MayLack) BY DEF Inv
  <2>3. /\ node'[cur].size = Pairs1(node', cur) /\ Pairs1(node', cur) <= FANOUT
        /\ cur = MayBeEmpty \/ HALF <= Pairs1(node', cur)
    <3>1. cur # MayLack BY <1>1, <1>2, NoNull DEF MayLack
    <3>2. cur = MayBeEmpty \/ HALF <= Pairs1(node, cur) BY <1>1, <2>2, <3>1 DEF Occupied
    <3>3. Pairs1(node', cur) = Pairs1(node, cur) + 1 /\ Pairs1(node, cur) \in Nat BY <1>4, <1>7, <1>8 DEF Pairs1
    <3> QED BY <1>3, <1>4, <1>7, <1>8, <3>2, <3>3, HalfIs DEF Pairs1
  <2>4. ASSUME NEW n \in Lvs(node) \ {cur}
        PROVE  node'[n] = node[n] /\ Pairs1(node', n) = Pairs1(node, n)
    BY <1>8 DEF Pairs1, Lvs
  <2> QED BY <2>1, <2>2, <2>3, <2>4, <1>9 DEF Occupied
<1>17. Widths(node', MayBeThin')
  <2>1. MayBeThin' = MayBeThin BY <1>1 DEF MayBeThin, At
  <2>2. \A n \in Ins(node) : node'[n] = node[n] BY <1>1, <1>8 DEF Ins, Lvs
  <2> QED BY <2>1, <2>2, <1>9 DEF Inv, Widths
<1>18. Guided' /\ Roomy' BY <1>1 DEF Guided, Roomy, At
<1> QED BY <1>10, <1>13, <1>14, <1>15, <1>16, <1>17, <1>18 DEF Inv

LEMMA IdsAreFinite == IsFiniteSet(NodeIds) /\ NodeIds \in SUBSET Nat
<1>1. MaxNodeId \in Nat BY MaxNodeIdAssumption
<1> QED BY <1>1, FS_Interval DEF NodeIds

\* A file that is created takes one of the names there is room for.
LEMMA FreshIs ==
    ASSUME Nodes(node), NEW m \in Nat, Room(node, m + 1)
    PROVE  /\ Fresh \in NodeIds /\ Fresh \notin DOMAIN node /\ Fresh # NULL_PTR
           /\ \A files : DOMAIN files = DOMAIN node \cup {Fresh} => Room(files, m)
<1>1. /\ IsFiniteSet(Free(node)) /\ Free(node) \in SUBSET Nat BY IdsAreFinite, FS_Subset DEF Free
<1>2. Cardinality(Free(node)) \in Nat /\ Cardinality(Free(node)) >= m + 1 BY <1>1, FS_CardinalityType DEF Room
<1>3. Free(node) # {} BY <1>2, FS_EmptySet
<1>4. Fresh \in Free(node) BY <1>1, <1>3, MinIs DEF Fresh, Unused, Free
<1>5. Cardinality(Free(node) \ {Fresh}) = Cardinality(Free(node)) - 1 BY <1>1, <1>4, FS_RemoveElement
<1>6. ASSUME NEW files, DOMAIN files = DOMAIN node \cup {Fresh}
      PROVE  Room(files, m)
  <2>1. Free(files) = Free(node) \ {Fresh} BY <1>6 DEF Free
  <2> QED BY <2>1, <1>2, <1>5 DEF Room
<1>7. Fresh \in NodeIds /\ Fresh \notin DOMAIN node BY <1>4 DEF Free
<1>8. Fresh # NULL_PTR BY <1>7, MaxNodeIdAssumption DEF NodeIds, NULL_PTR
<1> QED BY <1>6, <1>7, <1>8

\* The stack holds different nodes, one of each height above cur.
LEMMA PathIsShort ==
    ASSUME Inv, Updating
    PROVE  Len(path) <= Cardinality(Ins(node)) /\ Cardinality(Ins(node)) \in Nat /\ Len(path) \in Nat
<1>1. path \in Seq(Frames) /\ Nodes(node) BY DEF Inv, Control
<1>2. PICK h, par, slot : Shape(node, root_ptr, split, h, par, slot) /\ Stack(node, root_ptr, path, cur, h)
  BY DEF Inv, Forest
<1>3. IsFiniteSet(Ins(node)) /\ Cardinality(Ins(node)) \in Nat
  <2>1. Ins(node) \subseteq NodeIds BY <1>1 DEF Nodes, Ins
  <2> QED BY <2>1, IdsAreFinite, FS_Subset, FS_CardinalityType
<1>4. Len(path) \in Nat /\ IsFiniteSet(1 .. Len(path)) /\ Cardinality(1 .. Len(path)) = Len(path)
  <2>1. Len(path) \in Nat BY <1>1
  <2>2. /\ IsFiniteSet(1 .. Len(path))
        /\ Cardinality(1 .. Len(path)) = IF 1 > Len(path) THEN 0 ELSE Len(path) - 1 + 1
    BY <2>1, FS_Interval
  <2> QED BY <2>1, <2>2
<1> DEFINE f == [i \in 1 .. Len(path) |-> path[i].node]
<1>5. \A i \in 1 .. Len(path) : path[i].node \in Ins(node) /\ h[path[i].node] = h[root_ptr] - i + 1
  BY <1>2 DEF Stack, FrameOf
<1>6. h[root_ptr] \in Nat BY <1>2, Heights
<1>7. \A i, j \in 1 .. Len(path) : path[i].node = path[j].node => i = j BY <1>4, <1>5, <1>6
<1>8. f \in Injection(1 .. Len(path), Ins(node)) BY <1>5, <1>7 DEF Injection, IsInjective
<1>9. Cardinality(1 .. Len(path)) <= Cardinality(Ins(node)) BY <1>3, <1>8, FS_Injection
<1> QED BY <1>3, <1>4, <1>9

LEMMA RootAlone ==
    ASSUME Inv, root_ptr \in Lvs(node), split = NULL_PTR
    PROVE  DOMAIN node = {root_ptr}
<1>1. PICK h, par, slot : Shape(node, root_ptr, NULL_PTR, h, par, slot) BY DEF Inv, Forest
<1> QED BY <1>1, OnlyLeaf DEF Inv

LEMMA splitLeafNodeStep ==
    ASSUME Inv, splitLeafNode
    PROVE  Inv'
<1> DEFINE k == request.lo
           all == Put(node[cur].data, k, request.ptr)
           low == Lowest(DOMAIN all, HALF)
           high == DOMAIN all \ low
           new == Fresh
           lower == Leaf(Cardinality(low), Restrict(all, low), new)
           upper == Leaf(Cardinality(high), Restrict(all, high), NULL_PTR)
<1>1. /\ pc = "descend" /\ request.op = "insert" /\ cur \in Lvs(node) /\ Updating
      /\ pc' = "unwind" /\ request' = request /\ cur' = cur /\ path' = path
      /\ root_ptr' = root_ptr /\ result' = result /\ split = NULL_PTR
  <2>1. cur \in Lvs(node) BY LeafOrInternal, CallFacts DEF splitLeafNode, At
  <2> QED BY <2>1 DEF splitLeafNode, At, Updating, Inv, Control
<1>2. /\ k \in Keys /\ k \in Nat /\ request.ptr \in RecordPtrs /\ path \in Seq(Frames) /\ result \in Seq(RecordPtrs)
      /\ Nodes(node) /\ cur \in DOMAIN node /\ request \in Requests
  BY <1>1, CallFacts DEF Inv
<1>3. /\ node' = Created([node EXCEPT ![cur] = lower], new, upper) /\ split' = new
      /\ Cardinality(DOMAIN node[cur].data) = FANOUT
  <2>1. LeafAt(cur) = node[cur] BY <1>1, LeafIs
  <2>2. Cardinality(DOMAIN node[cur].data) \in Nat /\ Cardinality(DOMAIN node[cur].data) <= FANOUT
    BY <1>1, LeafIs
  <2>3. /\ node' = Created([node EXCEPT ![cur] = lower], new, upper) /\ split' = new
        /\ Cardinality(DOMAIN node[cur].data) >= FANOUT
    BY <2>1 DEF splitLeafNode
  <2> QED BY <2>2, <2>3, HalfIs
<1>4. IsFiniteSet(DOMAIN node[cur].data) /\ LeafNode(node[cur]) BY <1>1, <1>2, LeafFacts
<1>5. k \notin DOMAIN node[cur].data /\ Room(node, Cardinality(Ins(node)) + 2)
  BY <1>1 DEF Inv, Roomy, At, Stored
<1>6. /\ DOMAIN all = DOMAIN node[cur].data \cup {k} /\ all \in [DOMAIN all -> RecordPtrs]
      /\ DOMAIN all \subseteq Keys
  BY <1>2, <1>4 DEF Put, LeafNode
<1>7. /\ Cardinality(DOMAIN all) = FANOUT + 1 /\ IsFiniteSet(DOMAIN all) /\ DOMAIN all \in SUBSET Nat
  BY <1>3, <1>4, <1>5, <1>6, FS_AddElement, KeysAssumption
<1> HIDE DEF all
<1>8. /\ low \subseteq DOMAIN all /\ IsFiniteSet(low) /\ IsFiniteSet(high)
      /\ Cardinality(low) = HALF /\ Cardinality(high) = FANOUT + 1 - HALF
      /\ \A x \in low, y \in high : x < y
  <2>1. HALF \in 0 .. Cardinality(DOMAIN all) BY <1>7, HalfIs
  <2>2. LET lows == Lowest(DOMAIN all, HALF)
            rest == DOMAIN all \ lows
        IN  /\ lows \subseteq DOMAIN all /\ IsFiniteSet(lows) /\ IsFiniteSet(rest)
            /\ Cardinality(lows) = HALF /\ Cardinality(rest) = Cardinality(DOMAIN all) - HALF
            /\ \A x \in lows, y \in rest : x < y
    BY <1>7, <2>1, LowestIs
  <2>3. Cardinality(DOMAIN all) = FANOUT + 1 BY <1>7
  <2>4. Cardinality(high) = FANOUT + 1 - HALF
    <3>1. Cardinality(high) = Cardinality(DOMAIN all) - HALF BY <2>2
    <3> HIDE DEF high
    <3> QED BY <3>1, <2>3, HalfIs
  <2> QED BY <2>2, <2>4
<1>9. /\ Restrict(all, low) \in [low -> RecordPtrs] /\ DOMAIN Restrict(all, low) = low
      /\ Restrict(all, high) \in [high -> RecordPtrs] /\ DOMAIN Restrict(all, high) = high
      /\ low \cup high = DOMAIN all
  BY <1>6, <1>8 DEF Restrict
<1>10. /\ Cardinality(low) \in Nat /\ Cardinality(high) \in Nat
       /\ Cardinality(low) <= FANOUT /\ Cardinality(high) <= FANOUT
       /\ HALF <= Cardinality(low) /\ HALF <= Cardinality(high)
  BY <1>8, HalfIs
<1> HIDE DEF low, high
<1>11. /\ new \in NodeIds /\ new \notin DOMAIN node /\ new # NULL_PTR
       /\ \A files : DOMAIN files = DOMAIN node \cup {new} => Room(files, Len(path) + 1)
  <2>1. Len(path) <= Cardinality(Ins(node)) /\ Cardinality(Ins(node)) \in Nat /\ Len(path) \in Nat
    BY <1>1, PathIsShort
  <2>2. Room(node, (Len(path) + 1) + 1)
    <3>1. Cardinality(Free(node)) \in Nat BY IdsAreFinite, FS_Subset, FS_CardinalityType DEF Free
    <3> QED BY <1>5, <2>1, <3>1 DEF Room
  <2>3. Len(path) + 1 \in Nat BY <2>1
  <2> QED BY <1>2, <2>2, <2>3, FreshIs
<1> HIDE DEF new
<1>12. /\ lower.kind = "leaf" /\ lower.size = Cardinality(low) /\ DOMAIN lower.data = low /\ lower.next = new
       /\ upper.kind = "leaf" /\ upper.size = Cardinality(high) /\ DOMAIN upper.data = high /\ upper.next = NULL_PTR
       /\ GoodNode(lower) /\ GoodNode(upper)
  <2>1. GoodNode(lower) BY <1>6, <1>9, <1>10, <1>11, LeafIsGood
  <2>2. GoodNode(upper) BY <1>6, <1>9, <1>10, LeafIsGood
  <2> QED BY <2>1, <2>2, <1>9, Constructors
<1> HIDE DEF lower, upper
<1>13. Written2(node, node', cur, lower, new, upper) BY <1>2, <1>3, <1>11, Created2
<1>14. /\ DOMAIN node' = DOMAIN node \cup {new} /\ node'[cur] = lower /\ node'[new] = upper
       /\ \A n \in DOMAIN node \ {cur} : node'[n] = node[n]
  BY <1>2, <1>11, <1>13 DEF Written2
<1>15. LeafAdded(node, node', new) BY <1>1, <1>2, <1>11, <1>12, <1>14 DEF LeafAdded, Lvs, Ins
<1>16. Nodes(node')
  <2>1. DOMAIN node' \subseteq NodeIds BY <1>2, <1>11, <1>14 DEF Nodes
  <2> QED BY <2>1, <1>2, <1>12, <1>14, NodesIf
<1>17. Parted(node, node', cur, new, k) BY <1>6, <1>9, <1>12, <1>14 DEF Parted, Lvs
<1> DEFINE m == Max(low)
<1>18. m \in low /\ \A x \in low : x <= m
  <2>1. low # {} BY <1>10, HalfIs, FS_EmptySet
  <2> QED BY <2>1, <1>7, <1>8, MaxIs
<1> HIDE DEF m
<1>19. m \in Int /\ Cut(node', cur, new, m)
  <2>1. high # {} BY <1>10, HalfIs, FS_EmptySet
  <2>2. m \in Int BY <1>7, <1>8, <1>18
  <2> QED BY <2>1, <2>2, <1>8, <1>12, <1>14, <1>18 DEF Cut
<1>20. /\ Forest(node, root_ptr, NULL_PTR, path, cur, TRUE) /\ Ordered(node, NULL_PTR, cur) /\ Chain(node)
       /\ Routed(node, path, k)
  BY <1>1, RoutedIs DEF Inv, Forest
<1>21. Filled(node)
  <2>1. CASE root_ptr \in Ins(node) BY <2>1, FilledIs
  <2>2. CASE root_ptr \notin Ins(node)
    <3>1. root_ptr \in Lvs(node) BY <2>2, <1>20, Kinds DEF Forest, Shape
    <3>2. Lvs(node) = {cur} BY <3>1, <1>1, RootAlone DEF Lvs
    <3>3. DOMAIN node[cur].data # {} BY <1>3, HalfIs, FS_EmptySet
    <3> QED BY <3>2, <3>3 DEF Filled
  <2> QED BY <2>1, <2>2
<1>22. Forest(node', root_ptr, new, path, cur, TRUE) /\ Ordered(node', new, cur) /\ Chain(node')
  <2>1. node'[cur].next = new /\ node'[new].next = NULL_PTR BY <1>12, <1>14
  <2> HIDE DEF k
  <2> QED BY <2>1, <1>1, <1>2, <1>11, <1>15, <1>16, <1>17, <1>19, <1>20, <1>21, LeafSplit
<1>23. Forest(node', root_ptr', split', path', cur', Updating') /\ Ordered(node', split', cur')
  BY <1>1, <1>3, <1>22 DEF Forest, Ordered
<1>24. Control' BY <1>1, <1>2, <1>3, <1>11, <1>14 DEF Control, At
<1>25. Occupied(node', MayBeEmpty', MayLack')
  <2>1. MayBeEmpty' = NULL_PTR /\ MayLack' = NULL_PTR BY <1>1, <1>3, <1>11 DEF MayBeEmpty, MayLack
  <2>2. Occupied(node, MayBeEmpty, MayLack) BY DEF Inv
  <2>3. ASSUME NEW n \in Lvs(node) \ {cur}
        PROVE  node'[n] = node[n] /\ Pairs1(node', n) = Pairs1(node, n) /\ n # MayBeEmpty /\ n # MayLack
    <3>1. n # root_ptr BY <1>1, RootAlone DEF Lvs
    <3>2. n # NULL_PTR BY <1>2, NoNull DEF Lvs
    <3> QED BY <1>1, <1>14, <3>1, <3>2 DEF Pairs1, Lvs, MayBeEmpty, MayLack
  <2>4. \A n \in {cur, new} : node'[n].size = Pairs1(node', n) /\ Pairs1(node', n) <= FANOUT /\ HALF <= Pairs1(node', n)
    BY <1>10, <1>12, <1>14 DEF Pairs1
  <2> QED BY <2>1, <2>2, <2>3, <2>4, <1>1, <1>15 DEF Occupied, LeafAdded
<1>26. Widths(node', MayBeThin')
  <2>1. MayBeThin' = MayBeThin BY <1>1 DEF MayBeThin, At
  <2> QED BY <2>1, <1>15 DEF Inv, Widths, LeafAdded
<1>27. Guided' /\ Roomy'
  <2>1. Room(node', Len(path) + 1) BY <1>11, <1>14
  <2> QED BY <1>1, <2>1 DEF Guided, Roomy, At
<1> QED BY <1>16, <1>22, <1>23, <1>24, <1>25, <1>26, <1>27 DEF Inv

LEMMA GreatestIsKey ==
    ASSUME NEW files, NEW root, NEW extra, NEW h, NEW par, NEW slot, NEW max,
           Nodes(files), Shape(files, root, extra, h, par, slot), Greatest(files, max)
    PROVE  \A n \in DOMAIN files : max[n] \in Keys
<1> DEFINE S == {d \in Nat : \A n \in DOMAIN files : h[n] = d => max[n] \in Keys}
<1>1. /\ h[root] \in Nat
      /\ \A n \in DOMAIN files : h[n] \in Nat /\ h[n] <= h[root] /\ (h[n] = 0 <=> n \in Lvs(files))
  BY Heights
<1>2. 0 \in S BY <1>1, LeafFacts DEF Greatest
<1>3. ASSUME NEW d \in S PROVE d + 1 \in S
  <2>1. ASSUME NEW n \in DOMAIN files, h[n] = d + 1 PROVE max[n] \in Keys
    <3>1. d \in Nat OBVIOUS
    <3>2. n \in Ins(files)
      <4>1. n \notin Lvs(files)
        <5> HIDE DEF S
        <5> QED BY <3>1, <2>1, <1>1
      <4> QED BY <4>1 DEF Lvs, Ins
    <3> DEFINE l == files[n].ptrs[Len(files[n].ptrs)]
    <3>3. l \in DOMAIN files /\ h[l] \in Nat /\ h[n] = h[l] + 1
      <4>1. Len(files[n].ptrs) \in 1 .. Len(files[n].ptrs) BY <3>2, NodeFacts
      <4> QED BY <3>2, <4>1, ChildFacts
    <3>4. max[n] = max[l] BY <3>2 DEF Greatest, Last
    <3> HIDE DEF l
    <3>5. h[l] = d BY <3>1, <3>3, <2>1
    <3> QED BY <3>3, <3>4, <3>5
  <2>2. d + 1 \in Nat OBVIOUS
  <2> QED BY <2>1, <2>2
<1>4. S = Nat
  <2> HIDE DEF S
  <2>1. S \in SUBSET Nat BY DEF S
  <2> QED BY <2>1, <1>2, <1>3, Induction
<1>5. ASSUME NEW n \in DOMAIN files PROVE max[n] \in Keys
  <2>1. h[n] \in S BY <1>1, <1>4
  <2> QED BY <2>1
<1> QED BY <1>5

LEMMA GreatestIs ==
    ASSUME Inv, Filled(node)
    PROVE  /\ Greatest(node, SubtreeMax)
           /\ \A n \in DOMAIN node : SubtreeMax[n] \in Keys /\ SubtreeMax[n] \in Nat
<1>1. Nodes(node) BY DEF Inv
<1>2. PICK h, par, slot : Shape(node, root_ptr, split, h, par, slot) BY DEF Inv, Forest
<1> DEFINE b == [n \in Lvs(node) |-> Max(DOMAIN LeafAt(n).data)]
           g == SubtreeMax
<1>3. FromLast(node, b, g) BY <1>1, <1>2, SubtreeMaxIs
<1>4. ASSUME NEW n \in Lvs(node)
      PROVE  b[n] \in DOMAIN node[n].data /\ \A x \in DOMAIN node[n].data : x <= b[n]
  <2>1. b[n] = Max(DOMAIN node[n].data) BY LeafIs
  <2>2. DOMAIN node[n].data # {} /\ DOMAIN node[n].data \in SUBSET Nat /\ IsFiniteSet(DOMAIN node[n].data)
    BY <1>1, LeafFacts DEF Filled
  <2> HIDE DEF b
  <2> QED BY <2>1, <2>2, MaxIs
<1> HIDE DEF b, g
<1>5. \A n \in DOMAIN node : g[n] = IF n \in Lvs(node) THEN b[n] ELSE g[Last(node[n].ptrs)] BY <1>3 DEF FromLast
<1>6. Greatest(node, g) BY <1>4, <1>5 DEF Greatest, Lvs, Ins
<1>7. \A n \in DOMAIN node : g[n] \in Keys BY <1>1, <1>2, <1>6, GreatestIsKey
<1> QED BY <1>6, <1>7, KeysAssumption DEF g

\* The files after the node above a split child has been given the new one.
LEMMA AttachIs ==
    ASSUME Inv, At("unwind", "insert"), path # <<>>, NEW files, DOMAIN files = DOMAIN node,
           \A n \in DOMAIN node \ {Parent} : files[n] = node[n],
           files[Parent] = WithSplit(Parent, SubtreeMax[cur])
    PROVE  /\ Nodes(files) /\ Lvs(files) = Lvs(node) /\ Ins(files) = Ins(node) /\ Chain(files)
           /\ Forest(files, root_ptr, NULL_PTR, Front(path), Parent, TRUE) /\ Ordered(files, NULL_PTR, Parent)
           /\ Len(files[Parent].keys) = Len(node[Parent].keys) + 1
<1>1. /\ Updating /\ split # NULL_PTR /\ path \in Seq(Frames) /\ Nodes(node) /\ Chain(node) /\ cur \in DOMAIN node
      /\ Forest(node, root_ptr, split, path, cur, TRUE) /\ Ordered(node, split, cur)
  BY DEF Inv, Control, At, Updating
<1>2. /\ Parent \in Ins(node) /\ Parent \in DOMAIN node /\ Parent = Above(path) /\ Slot(path) \in 1 .. Len(node[Parent].ptrs)
      /\ Len(path) \in Nat \ {0}
  BY <1>1, AboveIs DEF Siblings
<1> DEFINE old == node[Parent]
           m == SubtreeMax[cur]
           i == Slot(path)
<1>3. Greatest(node, SubtreeMax) /\ m \in Keys BY <1>1, FilledIs, GreatestIs
<1>4. UpperBound(old.keys, m) = i
  <2>1. Placed(node, path, m) BY <1>1, <1>3, PlaceOfSplit
  <2> QED BY <1>2, <2>1 DEF Placed
<1>5. split \in NodeIds BY <1>1 DEF Forest, Shape, Nodes
<1>6. /\ old.ptrs \in Seq(NodeIds) /\ old.keys \in Seq(Keys) /\ Len(old.ptrs) = Len(old.keys) + 1 /\ Len(old.keys) \in Nat
  BY <1>1, <1>2, NodeFacts
<1> DEFINE keys == InsertAt(old.keys, i, m)
           ptrs == InsertAt(old.ptrs, i + 1, split)
<1>7. files[Parent] = Internal(keys, ptrs) BY <1>4 DEF WithSplit
<1> HIDE DEF i, m, old
<1>8. /\ keys \in Seq(Keys) /\ Len(keys) = Len(old.keys) + 1
      /\ \A j \in 1 .. Len(old.keys) + 1 : keys[j] = IF j < i THEN old.keys[j] ELSE IF j = i THEN m ELSE old.keys[j - 1]
  <2> DEFINE s == old.keys
  <2>1. i \in 1 .. Len(s) + 1 BY <1>2, <1>6 DEF old, i
  <2>2. m \in Keys BY <1>3 DEF m
  <2>3. s \in Seq(Keys) BY <1>6
  <2> SUFFICES /\ InsertAt(s, i, m) \in Seq(Keys) /\ Len(InsertAt(s, i, m)) = Len(s) + 1
               /\ \A j \in 1 .. Len(s) + 1 :
                     InsertAt(s, i, m)[j] = IF j < i THEN s[j] ELSE IF j = i THEN m ELSE s[j - 1]
    OBVIOUS
  <2> HIDE DEF s
  <2> QED BY <2>1, <2>2, <2>3, InsertAtIs
<1>9. /\ ptrs \in Seq(NodeIds) /\ Len(ptrs) = Len(old.ptrs) + 1
      /\ \A j \in 1 .. Len(old.ptrs) + 1 :
            ptrs[j] = IF j < i + 1 THEN old.ptrs[j] ELSE IF j = i + 1 THEN split ELSE old.ptrs[j - 1]
  <2> DEFINE s == old.ptrs
             at == i + 1
  <2>1. at \in 1 .. Len(s) + 1 BY <1>2, <1>6 DEF old, i
  <2>2. s \in Seq(NodeIds) BY <1>6
  <2> SUFFICES /\ InsertAt(s, at, split) \in Seq(NodeIds) /\ Len(InsertAt(s, at, split)) = Len(s) + 1
               /\ \A j \in 1 .. Len(s) + 1 :
                     InsertAt(s, at, split)[j] = IF j < at THEN s[j] ELSE IF j = at THEN split ELSE s[j - 1]
    OBVIOUS
  <2> HIDE DEF s, at
  <2> QED BY <2>1, <2>2, <1>5, InsertAtIs
<1> HIDE DEF keys, ptrs
<1>10. GoodNode(files[Parent]) /\ files[Parent].kind # "leaf" /\ files[Parent].keys = keys /\ files[Parent].ptrs = ptrs
  <2>1. Len(ptrs) = Len(keys) + 1 BY <1>6, <1>8, <1>9
  <2> QED BY <2>1, <1>7, <1>8, <1>9, InternalIsGood, Constructors
<1>11. Nodes(files) BY <1>1, <1>10, NodesIf DEF Nodes
<1>12. Lvs(files) = Lvs(node) /\ Ins(files) = Ins(node) BY <1>2, <1>10, KindsIf DEF Ins
<1>13. Attached(node, files, Parent, i, m, split) BY <1>8, <1>9, <1>10, <1>12 DEF Attached, old
<1>14. Forest(files, root_ptr, NULL_PTR, Front(path), Parent, TRUE) /\ Ordered(files, NULL_PTR, Parent)
  <2>1. Attached(node, files, Above(path), Slot(path), SubtreeMax[cur], split) BY <1>2, <1>13 DEF i, m
  <2>2. Forest(files, root_ptr, NULL_PTR, Front(path), Above(path), TRUE) /\ Ordered(files, NULL_PTR, Above(path))
    BY <1>1, <1>3, <2>1, ChildAttached
  <2> QED BY <1>2, <2>2
<1>15. Chain(files)
  <2>1. \A n \in Lvs(node) : files[n] = node[n] BY <1>2 DEF Lvs, Ins
  <2> QED BY <2>1, <1>1, <1>12, ChainKept
<1>16. Len(files[Parent].keys) = Len(node[Parent].keys) + 1 BY <1>8, <1>10 DEF old
<1> QED BY <1>11, <1>12, <1>14, <1>15, <1>16

LEMMA insert_into_existing_nodeStep ==
    ASSUME Inv, insert_into_existing_node
    PROVE  Inv'
<1>1. /\ At("unwind", "insert") /\ path # <<>> /\ Updating /\ split # NULL_PTR /\ pc = "unwind" /\ request.op = "insert"
      /\ pc' = "idle" /\ request' = NoRequest /\ cur' = NULL_PTR /\ path' = <<>> /\ split' = NULL_PTR
      /\ root_ptr' = root_ptr /\ result' = result /\ Nodes(node) /\ result \in Seq(RecordPtrs)
      /\ Len(node[Parent].keys) < FANOUT - 1
      /\ node' = [node EXCEPT ![Parent] = WithSplit(Parent, SubtreeMax[cur])]
  BY DEF insert_into_existing_node, At, Updating, Inv, Control, Return
<1>2. Parent \in Ins(node) /\ Parent \in DOMAIN node BY <1>1, AboveIs
<1>3. /\ DOMAIN node' = DOMAIN node /\ \A n \in DOMAIN node \ {Parent} : node'[n] = node[n]
      /\ node'[Parent] = WithSplit(Parent, SubtreeMax[cur])
  BY <1>1, <1>2
<1>4. /\ Nodes(node') /\ Lvs(node') = Lvs(node) /\ Ins(node') = Ins(node) /\ Chain(node')
      /\ Forest(node', root_ptr, NULL_PTR, Front(path), Parent, TRUE) /\ Ordered(node', NULL_PTR, Parent)
      /\ Len(node'[Parent].keys) = Len(node[Parent].keys) + 1
  BY <1>1, <1>3, AttachIs
<1>5. Forest(node', root_ptr', split', path', cur', Updating') /\ Ordered(node', split', cur')
  <2>1. ~Updating' BY <1>1 DEF Updating, NoRequest
  <2> QED BY <2>1, <1>1, <1>4 DEF Forest, Ordered
<1>6. Control' BY <1>1 DEF Control, At
<1>7. Occupied(node', MayBeEmpty', MayLack')
  <2>1. MayBeEmpty = NULL_PTR /\ MayLack' = MayLack BY <1>1 DEF MayBeEmpty, MayLack
  <2>2. \A n \in Lvs(node) : node'[n] = node[n] /\ Pairs1(node', n) = Pairs1(node, n) /\ n # NULL_PTR
    BY <1>1, <1>2, <1>3, NoNull DEF Pairs1, Lvs, Ins
  <2> QED BY <2>1, <2>2, <1>4 DEF Inv, Occupied
<1>8. Widths(node', MayBeThin')
  <2>1. MayBeThin' = MayBeThin BY <1>1 DEF MayBeThin, At
  <2>2. Len(node[Parent].keys) \in Nat BY <1>1, <1>2, NodeFacts
  <2>3. Len(node'[Parent].keys) <= 2 * MIN_KEYS /\ Len(node'[Parent].keys) >= 1 BY <1>1, <1>4, <2>2, HalfIs
  <2>4. \A n \in Ins(node) \ {Parent} : node'[n] = node[n] BY <1>3 DEF Ins
  <2> QED BY <2>1, <2>3, <2>4, <1>4 DEF Inv, Widths
<1>9. Guided' /\ Roomy' BY <1>1 DEF Guided, Roomy, At
<1> QED BY <1>4, <1>5, <1>6, <1>7, <1>8, <1>9 DEF Inv

\* Two nodes made of the halves of a list of children.
LEMMA HalvesAre ==
    ASSUME NEW keys \in Seq(Keys), NEW ptrs \in Seq(NodeIds), Len(ptrs) = Len(keys) + 1, NEW k \in 2 .. Len(keys) - 1
    PROVE  LET low  == Internal(SubSeq(keys, 1, k - 1), SubSeq(ptrs, 1, k))
               high == Internal(SubSeq(keys, k + 1, Len(keys)), SubSeq(ptrs, k + 1, Len(ptrs)))
           IN  /\ GoodNode(low) /\ GoodNode(high) /\ low.kind # "leaf" /\ high.kind # "leaf"
               /\ Len(low.ptrs) = k /\ Len(low.keys) = k - 1
               /\ \A j \in 1 .. k : low.ptrs[j] = ptrs[j]
               /\ \A j \in 1 .. k - 1 : low.keys[j] = keys[j]
               /\ Len(high.ptrs) = Len(ptrs) - k /\ Len(high.keys) = Len(keys) - k
               /\ \A j \in 1 .. Len(ptrs) - k : high.ptrs[j] = ptrs[j + k]
               /\ \A j \in 1 .. Len(keys) - k : high.keys[j] = keys[j + k]
<1> DEFINE n == Len(keys)
           lk == SubSeq(keys, 1, k - 1)
           lp == SubSeq(ptrs, 1, k)
           hk == SubSeq(keys, k + 1, n)
           hp == SubSeq(ptrs, k + 1, Len(ptrs))
<1>1. n \in Nat /\ Len(ptrs) = n + 1 /\ k \in Nat /\ 2 <= k /\ k <= n - 1 OBVIOUS
<1> HIDE DEF n
<1>2. lk \in Seq(Keys) /\ Len(lk) = k - 1 /\ \A j \in 1 .. k - 1 : lk[j] = keys[j]
  <2>1. 1 \in 1 .. Len(keys) + 1 /\ k - 1 \in 1 - 1 .. Len(keys) BY <1>1 DEF n
  <2>2. /\ lk \in Seq(Keys) /\ Len(lk) = (k - 1) - 1 + 1
        /\ \A j \in 1 .. (k - 1) - 1 + 1 : lk[j] = keys[1 + j - 1]
    BY <2>1, SubSeqIs
  <2> HIDE DEF lk
  <2> QED BY <2>2, <1>1
<1>3. lp \in Seq(NodeIds) /\ Len(lp) = k /\ \A j \in 1 .. k : lp[j] = ptrs[j]
  <2>1. 1 \in 1 .. Len(ptrs) + 1 /\ k \in 1 - 1 .. Len(ptrs) BY <1>1
  <2>2. /\ lp \in Seq(NodeIds) /\ Len(lp) = k - 1 + 1
        /\ \A j \in 1 .. k - 1 + 1 : lp[j] = ptrs[1 + j - 1]
    BY <2>1, SubSeqIs
  <2> HIDE DEF lp
  <2> QED BY <2>2, <1>1
<1>4. hk \in Seq(Keys) /\ Len(hk) = n - k /\ \A j \in 1 .. n - k : hk[j] = keys[j + k]
  <2> DEFINE m == k + 1
  <2>1. m \in 1 .. Len(keys) + 1 /\ n \in m - 1 .. Len(keys) BY <1>1 DEF n
  <2>2. /\ hk \in Seq(Keys) /\ Len(hk) = n - m + 1
        /\ \A j \in 1 .. n - m + 1 : hk[j] = keys[m + j - 1]
    BY <2>1, SubSeqIs
  <2> HIDE DEF hk
  <2> QED BY <2>2, <1>1
<1>5. hp \in Seq(NodeIds) /\ Len(hp) = Len(ptrs) - k /\ \A j \in 1 .. Len(ptrs) - k : hp[j] = ptrs[j + k]
  <2> DEFINE m == k + 1
             l == Len(ptrs)
  <2>1. m \in 1 .. Len(ptrs) + 1 /\ l \in m - 1 .. Len(ptrs) BY <1>1
  <2>2. /\ hp \in Seq(NodeIds) /\ Len(hp) = l - m + 1
        /\ \A j \in 1 .. l - m + 1 : hp[j] = ptrs[m + j - 1]
    BY <2>1, SubSeqIs
  <2> HIDE DEF hp
  <2> QED BY <2>2, <1>1
<1> HIDE DEF lk, lp, hk, hp
<1>6. GoodNode(Internal(lk, lp)) /\ Internal(lk, lp).kind # "leaf" /\ Internal(lk, lp).keys = lk /\ Internal(lk, lp).ptrs = lp
  <2>1. Len(lp) = Len(lk) + 1 BY <1>1, <1>2, <1>3
  <2> QED BY <2>1, <1>2, <1>3, InternalIsGood, Constructors
<1>7. GoodNode(Internal(hk, hp)) /\ Internal(hk, hp).kind # "leaf" /\ Internal(hk, hp).keys = hk /\ Internal(hk, hp).ptrs = hp
  <2>1. Len(hp) = Len(hk) + 1 BY <1>1, <1>4, <1>5
  <2> QED BY <2>1, <1>4, <1>5, InternalIsGood, Constructors
<1> QED BY <1>2, <1>3, <1>4, <1>5, <1>6, <1>7 DEF lk, lp, hk, hp, n

LEMMA split_and_create_new_nodeStep ==
    ASSUME Inv, split_and_create_new_node
    PROVE  Inv'
<1> DEFINE all == WithSplit(Parent, SubtreeMax[cur])
           new == Fresh
           low == Internal(SubSeq(all.keys, 1, HALF - 1), SubSeq(all.ptrs, 1, HALF))
           high == Internal(SubSeq(all.keys, HALF + 1, Len(all.keys)), SubSeq(all.ptrs, HALF + 1, Len(all.ptrs)))
           mid == [node EXCEPT ![Parent] = all]
<1>1. /\ At("unwind", "insert") /\ path # <<>> /\ Updating /\ split # NULL_PTR /\ pc = "unwind" /\ request.op = "insert"
      /\ pc' = "unwind" /\ request' = request /\ cur' = Parent /\ path' = Front(path) /\ split' = new
      /\ root_ptr' = root_ptr /\ result' = result /\ Nodes(node) /\ result \in Seq(RecordPtrs) /\ request \in Requests
      /\ Len(node[Parent].keys) >= FANOUT - 1 /\ path \in Seq(Frames)
      /\ node' = Created([node EXCEPT ![Parent] = low], new, high)
  BY DEF split_and_create_new_node, At, Updating, Inv, Control
<1>2. /\ Parent \in Ins(node) /\ Parent \in DOMAIN node /\ Len(path) \in Nat \ {0} /\ Len(node[Parent].keys) \in Nat
      /\ Len(node[Parent].keys) <= 2 * HALF
  <2>1. Parent \in Ins(node) /\ Parent \in DOMAIN node /\ Len(path) \in Nat \ {0} BY <1>1, AboveIs
  <2> QED BY <2>1, <1>1, NodeFacts, HalfIs DEF Inv, Widths
<1> HIDE DEF all
<1>3. DOMAIN mid = DOMAIN node /\ mid[Parent] = all /\ \A n \in DOMAIN node \ {Parent} : mid[n] = node[n]
  BY <1>2
<1> HIDE DEF mid
<1>4. /\ Nodes(mid) /\ Lvs(mid) = Lvs(node) /\ Ins(mid) = Ins(node) /\ Chain(mid)
      /\ Forest(mid, root_ptr, NULL_PTR, Front(path), Parent, TRUE) /\ Ordered(mid, NULL_PTR, Parent)
      /\ Len(mid[Parent].keys) = Len(node[Parent].keys) + 1
  BY <1>1, <1>3, AttachIs DEF all
<1>5. /\ all.keys \in Seq(Keys) /\ all.ptrs \in Seq(NodeIds) /\ Len(all.ptrs) = Len(all.keys) + 1
      /\ Len(all.keys) \in Nat /\ FANOUT <= Len(all.keys) /\ Len(all.keys) <= 2 * HALF + 1
  <2>1. mid[Parent].keys \in Seq(Keys) /\ mid[Parent].ptrs \in Seq(NodeIds) /\ Len(mid[Parent].ptrs) = Len(mid[Parent].keys) + 1
    BY <1>2, <1>4, NodeFacts
  <2>2. FANOUT <= Len(mid[Parent].keys) /\ Len(mid[Parent].keys) <= 2 * HALF + 1 BY <1>1, <1>2, <1>4, HalfIs
  <2> QED BY <2>1, <2>2, <1>3, LenProperties
<1>6. HALF \in 2 .. Len(all.keys) - 1 /\ HALF \in 1 .. Len(all.keys) BY <1>5, HalfIs
<1>7. /\ GoodNode(low) /\ GoodNode(high) /\ low.kind # "leaf" /\ high.kind # "leaf"
      /\ Len(low.ptrs) = HALF /\ Len(low.keys) = HALF - 1
      /\ \A j \in 1 .. HALF : low.ptrs[j] = all.ptrs[j]
      /\ \A j \in 1 .. HALF - 1 : low.keys[j] = all.keys[j]
      /\ Len(high.ptrs) = Len(all.ptrs) - HALF /\ Len(high.keys) = Len(all.keys) - HALF
      /\ \A j \in 1 .. Len(all.ptrs) - HALF : high.ptrs[j] = all.ptrs[j + HALF]
      /\ \A j \in 1 .. Len(all.keys) - HALF : high.keys[j] = all.keys[j + HALF]
  BY <1>5, <1>6, HalvesAre
<1> HIDE DEF low, high
<1>8. /\ new \in NodeIds /\ new \notin DOMAIN node /\ new # NULL_PTR
      /\ \A files : DOMAIN files = DOMAIN node \cup {new} => Room(files, Len(path))
  <2>1. Room(node, Len(path) + 1) BY <1>1 DEF Inv, Roomy
  <2> QED BY <1>1, <1>2, <2>1, FreshIs
<1> HIDE DEF new
<1>9. Written2(node, node', Parent, low, new, high) BY <1>1, <1>2, <1>8, Created2
<1>10. /\ DOMAIN node' = DOMAIN node \cup {new} /\ node'[Parent] = low /\ node'[new] = high
       /\ \A n \in DOMAIN node \ {Parent} : node'[n] = node[n]
  BY <1>2, <1>8, <1>9 DEF Written2
<1>11. Lvs(node') = Lvs(node) /\ Ins(node') = Ins(node) \cup {new}
  <2>1. low.kind # "leaf" /\ high.kind # "leaf" BY <1>7
  <2>2. new \notin DOMAIN node BY <1>8
  <2>3. Parent \in Ins(node) /\ Parent \in DOMAIN node BY <1>2
  <2> QED BY <2>1, <2>2, <2>3, <1>10 DEF Lvs, Ins
<1>12. Nodes(node')
  <2>1. DOMAIN node' \subseteq NodeIds BY <1>1, <1>8, <1>10 DEF Nodes
  <2>2. GoodNode(low) /\ GoodNode(high) /\ Nodes(node) BY <1>1, <1>7
  <2> QED BY <2>1, <2>2, <1>10, NodesIf
<1>13. Halved(mid, node', Parent, new, HALF) BY <1>2, <1>3, <1>4, <1>7, <1>8, <1>10, <1>11 DEF Halved
<1>14. Forest(node', root_ptr, new, Front(path), Parent, TRUE) /\ Ordered(node', new, Parent)
  <2>1. Front(path) \in Seq(Frames) BY <1>1, FrontOfPath
  <2>2. HALF \in 1 .. Len(mid[Parent].keys) /\ Parent \in Ins(mid) BY <1>2, <1>3, <1>4, <1>6
  <2> QED BY <2>1, <2>2, <1>4, <1>8, <1>13, NodeSplit
<1>15. Chain(node')
  <2>1. \A n \in Lvs(mid) : node'[n] = mid[n] BY <1>2, <1>3, <1>4, <1>10 DEF Lvs, Ins
  <2> QED BY <2>1, <1>4, <1>11, ChainKept
<1>16. Forest(node', root_ptr', split', path', cur', Updating') /\ Ordered(node', split', cur')
  BY <1>1, <1>14 DEF Forest, Ordered, Updating
<1>17. Control'
  <2>1. Front(path) \in Seq(Frames) BY <1>1, FrontOfPath
  <2> QED BY <2>1, <1>1, <1>2, <1>8, <1>10 DEF Control, At
<1>18. Occupied(node', MayBeEmpty', MayLack')
  <2>1. MayBeEmpty = NULL_PTR /\ MayBeEmpty' = NULL_PTR /\ MayLack' = MayLack
    BY <1>1, <1>8 DEF MayBeEmpty, MayLack
  <2>2. \A n \in Lvs(node) : node'[n] = node[n] /\ Pairs1(node', n) = Pairs1(node, n)
    BY <1>2, <1>10 DEF Pairs1, Lvs, Ins
  <2> QED BY <2>1, <2>2, <1>11 DEF Inv, Occupied
<1>19. Widths(node', MayBeThin')
  <2>1. MayBeThin' = MayBeThin BY <1>1 DEF MayBeThin, At
  <2>2. /\ Len(node'[Parent].keys) <= 2 * MIN_KEYS /\ Len(node'[Parent].keys) >= 1
        /\ Len(node'[new].keys) <= 2 * MIN_KEYS /\ Len(node'[new].keys) >= 1
    BY <1>5, <1>7, <1>10, HalfIs
  <2>3. \A n \in Ins(node) \ {Parent} : node'[n] = node[n] BY <1>10 DEF Ins
  <2> QED BY <2>1, <2>2, <2>3, <1>11 DEF Inv, Widths
<1>20. Guided' /\ Roomy'
  <2>1. Len(Front(path)) + 1 = Len(path) BY <1>1, <1>2, FrontOfPath
  <2>2. Room(node', Len(Front(path)) + 1) BY <1>8, <1>10, <2>1
  <2> QED BY <1>1, <2>2 DEF Guided, Roomy, At
<1> QED BY <1>12, <1>15, <1>16, <1>17, <1>18, <1>19, <1>20 DEF Inv

LEMMA AtTheRoot ==
    ASSUME Inv, Updating, path = <<>>
    PROVE  cur = root_ptr
<1>1. PICK h : Stack(node, root_ptr, <<>>, cur, h) BY DEF Inv, Forest
<1>2. ~(1 <= Len(<<>>)) OBVIOUS
<1> QED BY <1>1, <1>2 DEF Stack, Step

LEMMA GrowRootStep ==
    ASSUME Inv, GrowRoot
    PROVE  Inv'
<1> DEFINE new == Fresh
           m == SubtreeMax[root_ptr]
           top == Internal(<<m>>, <<root_ptr, split>>)
<1>1. /\ At("unwind", "insert") /\ path = <<>> /\ Updating /\ split # NULL_PTR /\ pc = "unwind" /\ request.op = "insert"
      /\ pc' = "idle" /\ request' = NoRequest /\ cur' = NULL_PTR /\ path' = <<>> /\ split' = NULL_PTR
      /\ root_ptr' = new /\ result' = result /\ Nodes(node) /\ result \in Seq(RecordPtrs) /\ Chain(node)
      /\ node' = Created(node, new, top)
  BY DEF GrowRoot, At, Updating, Inv, Control, Return
<1>2. /\ cur = root_ptr /\ Forest(node, root_ptr, split, <<>>, root_ptr, TRUE) /\ Ordered(node, split, root_ptr)
  BY <1>1, AtTheRoot DEF Inv
<1>3. /\ root_ptr \in DOMAIN node /\ root_ptr \in NodeIds /\ split \in NodeIds
  BY <1>1, <1>2 DEF Forest, Shape, Nodes
<1>4. Greatest(node, SubtreeMax) /\ m \in Keys BY <1>1, <1>3, FilledIs, GreatestIs
<1>5. /\ new \in NodeIds /\ new \notin DOMAIN node
  <2>1. Len(path) = 0 BY <1>1
  <2>2. Room(node, 0 + 1) BY <1>1, <2>1 DEF Inv, Roomy
  <2> QED BY <1>1, <2>2, FreshIs
<1>6. /\ GoodNode(top) /\ top.kind # "leaf" /\ top.keys = <<m>> /\ top.ptrs = <<root_ptr, split>>
  <2> DEFINE ks == <<m>>
             ps == <<root_ptr, split>>
  <2>1. ks \in Seq(Keys) /\ ps \in Seq(NodeIds) /\ Len(ps) = Len(ks) + 1 BY <1>3, <1>4
  <2> HIDE DEF ks, ps
  <2>2. /\ GoodNode(Internal(ks, ps)) /\ Internal(ks, ps).kind # "leaf" /\ Internal(ks, ps).keys = ks
        /\ Internal(ks, ps).ptrs = ps
    BY <2>1, InternalIsGood, Constructors
  <2> QED BY <2>2 DEF ks, ps
<1>7. /\ Len(top.ptrs) = 2 /\ top.ptrs[1] = root_ptr /\ top.ptrs[2] = split /\ Len(top.keys) = 1 /\ top.keys[1] = m
  BY <1>6
<1> HIDE DEF new, top
<1>8. /\ DOMAIN node' = DOMAIN node \cup {new} /\ node'[new] = top /\ \A n \in DOMAIN node : node'[n] = node[n]
  BY <1>1, <1>5 DEF Created
<1>9. Lvs(node') = Lvs(node) /\ Ins(node') = Ins(node) \cup {new} BY <1>5, <1>6, <1>8 DEF Lvs, Ins
<1>10. Nodes(node')
  <2>1. DOMAIN node' \subseteq NodeIds BY <1>1, <1>5, <1>8 DEF Nodes
  <2> QED BY <2>1, <1>1, <1>6, <1>8, NodesIf
<1>11. Grown(node, node', root_ptr, split, new, SubtreeMax[root_ptr]) BY <1>5, <1>7, <1>8, <1>9 DEF Grown
<1>12. Forest(node', new, NULL_PTR, path', cur', FALSE) /\ Ordered(node', NULL_PTR, cur')
  BY <1>1, <1>2, <1>4, <1>5, <1>11, RootGrown
<1>13. Forest(node', root_ptr', split', path', cur', Updating') /\ Ordered(node', split', cur')
  <2>1. ~Updating' BY <1>1 DEF Updating, NoRequest
  <2> QED BY <2>1, <1>1, <1>12 DEF Forest, Ordered
<1>14. Chain(node')
  <2>1. \A n \in Lvs(node) : node'[n] = node[n] BY <1>8 DEF Lvs
  <2> QED BY <2>1, <1>1, <1>9, ChainKept
<1>15. Control' BY <1>1 DEF Control, At
<1>16. Occupied(node', MayBeEmpty', MayLack')
  <2>1. MayBeEmpty = NULL_PTR /\ MayLack' = MayLack BY <1>1 DEF MayBeEmpty, MayLack
  <2>2. \A n \in Lvs(node) : node'[n] = node[n] /\ Pairs1(node', n) = Pairs1(node, n) /\ n # NULL_PTR
    BY <1>1, <1>8, NoNull DEF Pairs1, Lvs
  <2> QED BY <2>1, <2>2, <1>9 DEF Inv, Occupied
<1>17. Widths(node', MayBeThin')
  <2>1. MayBeThin' = MayBeThin BY <1>1 DEF MayBeThin, At
  <2>2. Len(node'[new].keys) <= 2 * MIN_KEYS /\ Len(node'[new].keys) >= 1 BY <1>7, <1>8, HalfIs
  <2>3. \A n \in Ins(node) : node'[n] = node[n] BY <1>8 DEF Ins
  <2> QED BY <2>1, <2>2, <2>3, <1>9 DEF Inv, Widths
<1>18. Guided' /\ Roomy' BY <1>1 DEF Guided, Roomy, At
<1> QED BY <1>10, <1>13, <1>14, <1>15, <1>16, <1>17, <1>18 DEF Inv

LEMMA ReturnToParentStep ==
    ASSUME Inv, ReturnToParent
    PROVE  Inv'
<1>1. /\ At("unwind", "delete") /\ path # <<>> /\ Updating /\ split = NULL_PTR /\ pc = "unwind" /\ request.op = "delete"
      /\ cur' = Parent /\ path' = Front(path) /\ node' = node /\ root_ptr' = root_ptr /\ pc' = pc
      /\ request' = request /\ split' = split /\ result' = result
      /\ path \in Seq(Frames) /\ result \in Seq(RecordPtrs) /\ request \in Requests
      /\ Nodes(node) /\ Chain(node) /\ Forest(node, root_ptr, NULL_PTR, path, cur, TRUE) /\ Ordered(node, NULL_PTR, cur)
  BY DEF ReturnToParent, At, Updating, Inv, Control, Forest
<1>2. /\ Parent \in Ins(node) /\ Parent \in DOMAIN node /\ Parent # cur /\ Parent = Above(path)
      /\ Len(Siblings) \in Nat /\ Slot(path) \in 1 .. Len(Siblings) /\ Frame.index = Slot(path)
  BY <1>1, AboveIs
<1>3. Front(path) \in Seq(Frames) BY <1>1, FrontOfPath
<1>4. Forest(node, root_ptr, NULL_PTR, Front(path), Parent, TRUE)
  <2>1. PICK h, par, slot : Shape(node, root_ptr, NULL_PTR, h, par, slot) /\ Stack(node, root_ptr, path, cur, h)
    BY <1>1 DEF Forest
  <2>2. Stack(node, root_ptr, Front(path), path[Len(path)].node, h)
    <3>1. path[Len(path)].node \in DOMAIN node BY <1>2 DEF Above
    <3> QED BY <3>1, <1>1, <2>1, StackUp
  <2> QED BY <2>1, <2>2, <1>2 DEF Forest, Above
<1>5. Forest(node', root_ptr', split', path', cur', Updating') /\ Ordered(node', split', cur')
  BY <1>1, <1>4 DEF Forest, Ordered, Updating
<1>6. Control' BY <1>1, <1>2, <1>3 DEF Control, At
<1>7. Occupied(node', MayBeEmpty', MayLack') BY <1>1 DEF Inv, MayBeEmpty, MayLack
<1>8. Widths(node', MayBeThin')
  <2>1. MayBeThin = cur /\ MayBeThin' = Parent BY <1>1 DEF MayBeThin, At
  <2>2. cur \in Ins(node) => Len(node[cur].keys) >= 1
    <3> SUFFICES ASSUME cur \in Ins(node) PROVE Len(node[cur].keys) >= 1 OBVIOUS
    <3>1. Len(node[cur].keys) \in Nat /\ Len(node[Parent].keys) \in Nat /\ Len(Siblings) = Len(node[Parent].keys) + 1
      BY <1>1, <1>2, NodeFacts DEF Siblings
    <3>2. Len(node[Parent].keys) >= 1 BY <1>2, <2>1 DEF Inv, Widths
    <3>3. HasLeft \/ HasRight BY <1>1, <1>2, <3>1, <3>2 DEF HasLeft, HasRight
    <3>4. ~TooFewKeys BY <3>3 DEF ReturnToParent
    <3>5. ~IsLeaf(cur) BY DEF Ins, IsLeaf
    <3>6. ~isUnderflow(Len(node[cur].keys)) BY <3>4, <3>5 DEF TooFewKeys
    <3> QED BY <3>1, <3>6, HalfIs DEF isUnderflow
  <2> QED BY <1>1, <2>1, <2>2 DEF Inv, Widths
<1>9. Guided' /\ Roomy' BY <1>1 DEF Guided, Roomy, At
<1> QED BY <1>1, <1>5, <1>6, <1>7, <1>8, <1>9 DEF Inv

LEMMA LeftSiblingMissingStep ==
    ASSUME Inv, LeftSiblingMissing
    PROVE  Inv'
<1>1. /\ At("unwind", "delete") /\ split = NULL_PTR /\ pc = "unwind" /\ request.op = "delete"
      /\ pc' = "crashed" /\ node' = node /\ root_ptr' = root_ptr /\ request' = request /\ cur' = cur /\ path' = path
      /\ split' = split /\ result' = result
  BY DEF LeftSiblingMissing, Repairing, At, Inv, Control
<1>2. Control' BY <1>1 DEF Inv, Control, At
<1>3. Nodes(node') /\ Chain(node') /\ Ordered(node', split', cur') BY <1>1 DEF Inv
<1>4. Forest(node', root_ptr', split', path', cur', Updating') BY <1>1 DEF Inv, Forest, Updating
<1>5. Occupied(node', MayBeEmpty', MayLack') BY <1>1 DEF Inv, MayBeEmpty, MayLack
<1>6. Widths(node', MayBeThin') BY <1>1 DEF Inv, MayBeThin, At
<1>7. Guided' /\ Roomy' BY <1>1 DEF Guided, Roomy, At
<1> QED BY <1>2, <1>3, <1>4, <1>5, <1>6, <1>7 DEF Inv

LEMMA ShrinkRootStep ==
    ASSUME Inv, ShrinkRoot
    PROVE  Inv'
<1>1. /\ At("unwind", "delete") /\ path = <<>> /\ Updating /\ split = NULL_PTR /\ pc = "unwind" /\ request.op = "delete"
      /\ pc' = "idle" /\ request' = NoRequest /\ cur' = NULL_PTR /\ path' = <<>> /\ split' = NULL_PTR
      /\ result' = result /\ result \in Seq(RecordPtrs) /\ Nodes(node) /\ Chain(node) /\ cur \in DOMAIN node
      /\ Forest(node, root_ptr, NULL_PTR, path, cur, TRUE) /\ Ordered(node, NULL_PTR, cur)
  BY DEF ShrinkRoot, At, Updating, Inv, Control, Forest, Return
<1>2. cur = root_ptr /\ MayBeEmpty = cur /\ MayLack = NULL_PTR /\ MayLack' = NULL_PTR /\ MayBeThin = cur /\ MayBeThin' = NULL_PTR
  BY <1>1, AtTheRoot DEF MayBeEmpty, MayLack, MayBeThin, At
<1>3. Occupied(node, cur, NULL_PTR) /\ Widths(node, cur) BY <1>2 DEF Inv
<1>4. Control' /\ Guided' /\ Roomy' /\ ~Updating' BY <1>1 DEF Control, At, Guided, Roomy, Updating, NoRequest
<1>5. CASE ~IsLeaf(cur) /\ Len(node[cur].ptrs) = 1
  <2> DEFINE top == node[cur].ptrs[1]
  <2>1. root_ptr' = top /\ node' = Without(node, cur) /\ cur \in Ins(node)
    BY <1>1, <1>5 DEF ShrinkRoot, Ins, IsLeaf
  <2>2. DOMAIN node' = DOMAIN node \ {cur} /\ \A n \in DOMAIN node \ {cur} : node'[n] = node[n]
    BY <2>1, WithoutIs DEF Dropped
  <2>3. Lvs(node') = Lvs(node) /\ Ins(node') = Ins(node) \ {cur} BY <2>1, <2>2 DEF Lvs, Ins
  <2>4. Shrunk(node, node', root_ptr) BY <1>2, <2>2, <2>3 DEF Shrunk
  <2>5. Forest(node', top, NULL_PTR, path', cur', FALSE) /\ Ordered(node', NULL_PTR, cur')
    BY <1>1, <1>2, <1>5, <2>1, <2>4, RootShrunk
  <2>6. Forest(node', root_ptr', split', path', cur', Updating') /\ Ordered(node', split', cur')
    BY <1>1, <1>4, <2>1, <2>5 DEF Forest, Ordered
  <2>7. Nodes(node') BY <1>1, <2>2, NodesIf DEF Nodes
  <2>8. \A n \in Lvs(node) : node'[n] = node[n] /\ n # cur BY <2>1, <2>2 DEF Lvs, Ins
  <2>9. Chain(node') BY <1>1, <2>3, <2>8, ChainKept
  <2>10. Occupied(node', MayBeEmpty', MayLack') BY <1>2, <1>3, <2>3, <2>8 DEF Occupied, Pairs1
  <2>11. Widths(node', MayBeThin') BY <1>3, <2>2, <2>3 DEF Widths, Ins
  <2> QED BY <1>4, <2>6, <2>7, <2>9, <2>10, <2>11 DEF Inv
<1>6. CASE ~(~IsLeaf(cur) /\ Len(node[cur].ptrs) = 1)
  <2>1. root_ptr' = root_ptr /\ node' = node BY <1>6 DEF ShrinkRoot
  <2>2. Forest(node', root_ptr', split', path', cur', Updating') /\ Ordered(node', split', cur')
    BY <1>1, <1>4, <2>1 DEF Forest, Ordered
  <2>3. Occupied(node', MayBeEmpty', MayLack') BY <1>1, <1>2, <1>3, <2>1 DEF MayBeEmpty
  <2>4. Widths(node', MayBeThin')
    <3>1. cur \in Ins(node) => Len(node[cur].keys) >= 1
      <4> SUFFICES ASSUME cur \in Ins(node) PROVE Len(node[cur].keys) >= 1 OBVIOUS
      <4>1. ~IsLeaf(cur) BY DEF Ins, IsLeaf
      <4>2. Len(node[cur].keys) \in Nat /\ Len(node[cur].ptrs) = Len(node[cur].keys) + 1 BY <1>1, NodeFacts
      <4> QED BY <1>6, <4>1, <4>2
    <3> QED BY <1>2, <1>3, <2>1, <3>1 DEF Widths
  <2> QED BY <1>1, <1>4, <2>1, <2>2, <2>3, <2>4 DEF Inv
<1> QED BY <1>5, <1>6

LEMMA RangeLeafStep ==
    ASSUME Inv, RangeLeaf
    PROVE  Inv'
<1>1. /\ pc = "descend" /\ request.op = "range" /\ cur \in Lvs(node) /\ ~Updating /\ split = NULL_PTR
      /\ node' = node /\ root_ptr' = root_ptr /\ request \in Requests /\ Nodes(node)
  <2>1. cur \in Lvs(node) BY LeafOrInternal, CallFacts DEF RangeLeaf, At
  <2> QED BY <2>1, CallFacts DEF RangeLeaf, At, Updating, Inv, Control
<1> DEFINE S == {k \in DOMAIN node[cur].data : request.lo <= k /\ k <= request.hi}
           matches == Ascending(S)
           found == [i \in DOMAIN matches |-> node[cur].data[matches[i]]]
           beyond == \E k \in DOMAIN node[cur].data : k > request.hi
<1>2. LeafAt(cur) = node[cur] BY <1>1, LeafIs
<1>3. /\ result' = result \o found
      /\ IF beyond \/ node[cur].next = NULL_PTR
         THEN Return
         ELSE cur' = node[cur].next /\ pc' = pc /\ request' = request /\ path' = path /\ split' = split
  BY <1>2 DEF RangeLeaf
<1>4. result' \in Seq(RecordPtrs)
  <2>1. LeafNode(node[cur]) /\ DOMAIN node[cur].data \in SUBSET Nat /\ IsFiniteSet(DOMAIN node[cur].data)
    BY <1>1, LeafFacts
  <2>2. S \in SUBSET Nat /\ IsFiniteSet(S) /\ S \subseteq DOMAIN node[cur].data
    <3>1. S \in SUBSET DOMAIN node[cur].data OBVIOUS
    <3> QED BY <2>1, <3>1, FS_Subset
  <2> HIDE DEF S
  <2>3. matches \in [1 .. Cardinality(S) -> S] /\ Cardinality(S) \in Nat
    BY <2>2, AscendingIs, FS_CardinalityType
  <2> HIDE DEF matches
  <2>4. found \in [1 .. Cardinality(S) -> RecordPtrs] BY <2>1, <2>2, <2>3 DEF LeafNode
  <2>5. found \in Seq(RecordPtrs) BY <2>3, <2>4
  <2> HIDE DEF found
  <2> QED BY <1>1, <1>3, <2>5, CallFacts
<1> HIDE DEF S, matches, found
<1>5. ~Updating' BY <1>1, <1>3 DEF Updating, Return, NoRequest
<1>6. split' = NULL_PTR /\ MayBeEmpty' = MayBeEmpty /\ MayLack' = MayLack /\ MayBeThin' = MayBeThin
  BY <1>1, <1>3 DEF Return, MayBeEmpty, MayLack, MayBeThin, At, NoRequest
<1>7. Control'
  <2>1. node[cur].next # NULL_PTR => node[cur].next \in DOMAIN node BY <1>1 DEF Inv, Chain, Follows, Lvs
  <2>2. Control /\ path \in Seq(Frames) /\ cur \in DOMAIN node BY <1>1, CallFacts DEF Inv
  <2>3. CASE beyond \/ node[cur].next = NULL_PTR
    <3>1. pc' = "idle" /\ request' = NoRequest /\ cur' = NULL_PTR /\ path' = <<>> BY <1>3, <2>3 DEF Return
    <3> QED BY <3>1, <1>4, <1>6 DEF Control, At, NoRequest
  <2>4. CASE ~(beyond \/ node[cur].next = NULL_PTR)
    <3>1. cur' = node[cur].next /\ pc' = pc /\ request' = request /\ path' = path BY <1>3, <2>4
    <3>2. cur' \in DOMAIN node' BY <1>1, <2>1, <2>4, <3>1
    <3> QED BY <3>1, <3>2, <1>1, <1>4, <1>6, <2>2 DEF Control, At
  <2> QED BY <2>3, <2>4
<1>8. Forest(node', root_ptr', split', path', cur', Updating') /\ Ordered(node', split', cur')
  BY <1>1, <1>5, <1>6 DEF Inv, Forest, Ordered
<1>9. Nodes(node') /\ Chain(node') /\ Occupied(node', MayBeEmpty', MayLack') /\ Widths(node', MayBeThin')
  BY <1>1, <1>6 DEF Inv
<1>10. Guided' /\ Roomy' BY <1>1, <1>3, <1>5 DEF Guided, Roomy, At, Return, NoRequest
<1> QED BY <1>7, <1>8, <1>9, <1>10 DEF Inv

LEMMA HasSibling ==
    ASSUME Inv, Updating, path # <<>>, Parent # MayBeThin
    PROVE  HasLeft \/ HasRight
<1>1. /\ Parent \in Ins(node) /\ Len(Siblings) \in Nat /\ Slot(path) \in 1 .. Len(Siblings) /\ Frame.index = Slot(path)
  BY AboveIs
<1>2. Len(node[Parent].keys) \in Nat /\ Len(Siblings) = Len(node[Parent].keys) + 1
  BY <1>1, NodeFacts DEF Siblings, Inv
<1>3. Len(node[Parent].keys) >= 1 BY <1>1 DEF Inv, Widths
<1> QED BY <1>1, <1>2, <1>3 DEF HasLeft, HasRight

LEMMA EraseFromLeafStep ==
    ASSUME Inv, EraseFromLeaf
    PROVE  Inv'
<1> DEFINE k == request.lo
           old == node[cur].data
           data == Restrict(old, DOMAIN old \ {k})
           small == isUnderflow(Cardinality(DOMAIN data)) /\ (HasLeft \/ HasRight)
<1>1. /\ pc = "descend" /\ request.op = "delete" /\ cur \in Lvs(node) /\ Updating /\ split = NULL_PTR
      /\ request' = request /\ cur' = cur /\ path' = path /\ root_ptr' = root_ptr /\ split' = split /\ result' = result
  <2>1. cur \in Lvs(node) BY LeafOrInternal, CallFacts DEF EraseFromLeaf, At
  <2> QED BY <2>1 DEF EraseFromLeaf, At, Updating, Inv, Control
<1>2. /\ k \in Keys /\ k \in Nat /\ path \in Seq(Frames) /\ result \in Seq(RecordPtrs) /\ request \in Requests
      /\ Nodes(node) /\ cur \in DOMAIN node /\ NULL_PTR \notin DOMAIN node
  BY <1>1, CallFacts, NoNull DEF Inv
<1>3. LeafAt(cur) = node[cur] BY <1>1, LeafIs
<1>4. /\ Forest(node, root_ptr, NULL_PTR, path, cur, TRUE) /\ Ordered(node, NULL_PTR, cur) /\ Chain(node)
      /\ Routed(node, path, k) /\ Occupied(node, root_ptr, NULL_PTR) /\ Widths(node, NULL_PTR)
      /\ MayBeEmpty' = root_ptr
  BY <1>1, RoutedIs DEF Inv, Forest, MayBeEmpty, MayLack, MayBeThin, At
<1>5. CASE k \notin DOMAIN old
  <2>1. pc' = "unwind" /\ node' = node BY <1>3, <1>5 DEF EraseFromLeaf
  <2>2. Control' BY <1>1, <1>2, <2>1 DEF Control, At
  <2>3. Forest(node', root_ptr', split', path', cur', Updating') /\ Ordered(node', split', cur')
    BY <1>1, <1>4, <2>1 DEF Forest, Ordered, Updating
  <2>4. Occupied(node', MayBeEmpty', MayLack') BY <1>4, <2>1 DEF MayLack
  <2>5. Widths(node', MayBeThin')
    <3>1. \A n \in Ins(node) : n # NULL_PTR BY <1>2 DEF Ins
    <3> QED BY <1>4, <2>1, <3>1 DEF Widths
  <2>6. Guided' /\ Roomy' BY <1>1, <2>1 DEF Guided, Roomy, At
  <2> QED BY <1>2, <1>4, <2>1, <2>2, <2>3, <2>4, <2>5, <2>6 DEF Inv
<1>6. CASE k \in DOMAIN old
  <2>1. /\ node' = [node EXCEPT ![cur] = Leaf(Cardinality(DOMAIN data), data, node[cur].next)]
        /\ pc' = IF small THEN "refill" ELSE "unwind"
    BY <1>3, <1>6 DEF EraseFromLeaf
  <2>2. /\ IsFiniteSet(DOMAIN old) /\ LeafNode(node[cur]) /\ Cardinality(DOMAIN old) \in Nat /\ Cardinality(DOMAIN old) <= FANOUT
    BY <1>1, <1>2, LeafFacts, LeafIs
  <2>3. /\ DOMAIN data = DOMAIN old \ {k} /\ data \in [DOMAIN data -> RecordPtrs] /\ DOMAIN data \subseteq Keys
    BY <2>2 DEF LeafNode, Restrict
  <2>4. Cardinality(DOMAIN data) = Cardinality(DOMAIN old) - 1 /\ Cardinality(DOMAIN data) \in Nat
    BY <1>6, <2>2, <2>3, FS_RemoveElement, FS_CardinalityType
  <2> HIDE DEF data
  <2>5. /\ DOMAIN node' = DOMAIN node /\ \A x \in DOMAIN node \ {cur} : node'[x] = node[x]
        /\ node'[cur].kind = "leaf" /\ node'[cur].size = Cardinality(DOMAIN data) /\ node'[cur].data = data
        /\ node'[cur].next = node[cur].next /\ node'[cur] = Leaf(Cardinality(DOMAIN data), data, node[cur].next)
    BY <1>2, <2>1, Constructors
  <2>6. Lvs(node') = Lvs(node) /\ Ins(node') = Ins(node)
    <3>1. \A n \in DOMAIN node : node'[n] = node[n] \/ (node'[n].kind = "leaf" <=> node[n].kind = "leaf")
      BY <1>1, <2>5 DEF Lvs
    <3> QED BY <3>1, <2>5, KindsIf
  <2>7. Nodes(node')
    <3>1. node[cur].next \in NodeIds \cup {NULL_PTR} BY <2>2 DEF LeafNode
    <3>2. GoodNode(Leaf(Cardinality(DOMAIN data), data, node[cur].next)) BY <3>1, <2>3, <2>4, LeafIsGood
    <3> QED BY <3>2, <1>2, <2>5, NodesIf DEF Nodes
  <2>8. ASSUME NEW n \in Lvs(node), n # cur
        PROVE  node'[n] = node[n] /\ Pairs1(node', n) = Pairs1(node, n)
    BY <2>5, <2>8 DEF Pairs1, Lvs
  <2>9. cur = root_ptr \/ (HALF <= Pairs1(node, cur) /\ Cardinality(DOMAIN old) >= 2)
    <3>1. cur # NULL_PTR BY <1>2
    <3> QED BY <1>1, <1>4, <2>2, <3>1, HalfIs DEF Occupied, Pairs1
  <2>10. \A n \in Lvs(node) \ {root_ptr} : DOMAIN node[n].data \cap DOMAIN node'[n].data # {}
    <3> SUFFICES ASSUME NEW n \in Lvs(node) \ {root_ptr} PROVE DOMAIN node[n].data \cap DOMAIN node'[n].data # {}
      OBVIOUS
    <3>1. CASE n = cur
      <4>1. Cardinality(DOMAIN data) >= 1 BY <2>2, <2>4, <2>9, <3>1
      <4>2. DOMAIN data # {} BY <4>1, FS_EmptySet
      <4> QED BY <4>2, <2>3, <2>5, <3>1
    <3>2. CASE n # cur
      <4>1. n # NULL_PTR BY <1>2 DEF Lvs
      <4>2. HALF <= Cardinality(DOMAIN node[n].data) BY <1>4, <4>1 DEF Occupied, Pairs1
      <4>3. DOMAIN node[n].data # {} BY <4>2, HalfIs, FS_EmptySet
      <4> QED BY <4>3, <2>8, <3>2
    <3> QED BY <3>1, <3>2
  <2>11. Forest(node', root_ptr, NULL_PTR, path, cur, TRUE) /\ Ordered(node', NULL_PTR, cur) /\ Chain(node')
    <3>1. cur \in Lvs(node') /\ DOMAIN node'[cur].data \subseteq DOMAIN node[cur].data \cup {k}
      BY <1>1, <2>3, <2>5, <2>6
    <3> HIDE DEF k, old
    <3> QED BY <3>1, <1>1, <1>2, <1>4, <2>5, <2>7, <2>10, LeafWritten
  <2>12. pc' \in {"refill", "unwind"} /\ (pc' = "refill" <=> small) BY <2>1
  <2>13. Forest(node', root_ptr', split', path', cur', Updating') /\ Ordered(node', split', cur')
    BY <1>1, <2>11, <2>12 DEF Forest, Ordered, Updating
  <2>14. Control'
    <3>1. pc' = "refill" => (HasLeft \/ HasRight)'
      <4> SUFFICES ASSUME pc' = "refill" PROVE (HasLeft \/ HasRight)' OBVIOUS
      <4>1. (HasLeft \/ HasRight) /\ path # <<>> BY <2>12 DEF HasLeft, HasRight
      <4>2. Parent \in Ins(node) /\ Parent \in DOMAIN node /\ Parent # cur BY <1>1, <4>1, AboveIs
      <4>3. Frame' = Frame /\ Parent' = Parent /\ Siblings' = Siblings
        BY <1>1, <2>5, <4>2 DEF Frame, Parent, Siblings
      <4> QED BY <1>1, <4>1, <4>3 DEF HasLeft, HasRight
    <3>2. pc' = "refill" => Lacks(node', cur)
      <4> SUFFICES ASSUME pc' = "refill" PROVE HALF = Cardinality(DOMAIN data) + 1 BY <2>5 DEF Lacks, Pairs1
      <4>1. Cardinality(DOMAIN data) < HALF /\ path # <<>>
        BY <2>4, <2>12, HalfIs DEF isUnderflow, HasLeft, HasRight
      <4>2. cur # root_ptr BY <1>1, <4>1, AboveIs
      <4> QED BY <2>2, <2>4, <2>9, <4>1, <4>2, HalfIs DEF Pairs1
    <3> QED BY <3>1, <3>2, <1>1, <1>2, <2>5, <2>6, <2>12 DEF Control, At
  <2>15. Occupied(node', MayBeEmpty', MayLack')
    <3>1. cur = root_ptr \/ HALF <= Pairs1(node', cur) \/ (pc' = "refill" /\ HALF = Pairs1(node', cur) + 1)
      <4> SUFFICES ASSUME cur # root_ptr, ~(HALF <= Cardinality(DOMAIN data))
                   PROVE  pc' = "refill" /\ HALF = Cardinality(DOMAIN data) + 1
        BY <2>5 DEF Pairs1
      <4>1. path # <<>> BY <1>1, AtTheRoot
      <4>2. Parent # MayBeThin
        <5>1. Parent \in DOMAIN node BY <1>1, <4>1, AboveIs
        <5> QED BY <1>1, <1>2, <5>1 DEF MayBeThin, At
      <4>3. HasLeft \/ HasRight BY <1>1, <4>1, <4>2, HasSibling
      <4>4. isUnderflow(Cardinality(DOMAIN data)) BY <2>4, HalfIs DEF isUnderflow
      <4>5. HALF = Cardinality(DOMAIN data) + 1 BY <2>2, <2>4, <2>9, HalfIs DEF Pairs1
      <4> QED BY <2>12, <4>3, <4>4, <4>5
    <3>2. node'[cur].size = Pairs1(node', cur) /\ Pairs1(node', cur) <= FANOUT
      BY <2>2, <2>4, <2>5, HalfIs DEF Pairs1
    <3>3. MayLack' = IF pc' = "refill" THEN cur ELSE NULL_PTR BY <1>1 DEF MayLack
    <3>4. \A n \in Lvs(node) : n # NULL_PTR BY <1>2 DEF Lvs
    <3>5. ASSUME NEW n \in Lvs(node)
          PROVE  /\ node'[n].size = Pairs1(node', n) /\ Pairs1(node', n) <= FANOUT
                 /\ n = root_ptr \/ HALF <= Pairs1(node', n) \/ (n = MayLack' /\ HALF = Pairs1(node', n) + 1)
      <4>1. CASE n = cur BY <3>1, <3>2, <3>3, <4>1
      <4>2. CASE n # cur BY <1>4, <2>8, <3>4, <4>2 DEF Occupied
      <4> QED BY <4>1, <4>2
    <3> QED BY <1>4, <2>6, <3>5 DEF Occupied
  <2>16. Widths(node', MayBeThin')
    <3>1. \A n \in Ins(node) : node'[n] = node[n] /\ n # NULL_PTR BY <1>1, <1>2, <2>5 DEF Ins, Lvs
    <3> QED BY <1>4, <2>6, <3>1 DEF Widths
  <2>17. Guided' /\ Roomy' BY <1>1, <2>12 DEF Guided, Roomy, At
  <2> QED BY <2>7, <2>11, <2>13, <2>14, <2>15, <2>16, <2>17 DEF Inv
<1> QED BY <1>5, <1>6

-----------------------------------------------------------------------------
(* Redistributions and merges *)

LEMMA RepairedStep ==
    ASSUME Inv, pc \in {"refill", "unwind"}, request.op = "delete", path # <<>>, Repaired(node', root_ptr, path),
           pc' = "unwind", cur' = Parent, path' = Front(path),
           UNCHANGED <<root_ptr, request, split, result>>
    PROVE  Inv'
<1>1. /\ split = NULL_PTR /\ split' = NULL_PTR /\ path \in Seq(Frames) /\ result \in Seq(RecordPtrs) /\ request \in Requests
      /\ request' = request /\ root_ptr' = root_ptr /\ result' = result /\ cur' = Above(path)
  BY DEF Inv, Control, At, Above, Parent, Frame
<1>2. Front(path) \in Seq(Frames) BY <1>1, FrontOfPath
<1>3. Control' BY <1>1, <1>2 DEF Control, At, Repaired
<1>4. Forest(node', root_ptr', split', path', cur', Updating') /\ Ordered(node', split', cur')
  BY <1>1 DEF Repaired, Forest, Ordered
<1>5. MayBeEmpty' = root_ptr /\ MayLack' = NULL_PTR /\ MayBeThin' = Above(path)
  BY <1>1 DEF MayBeEmpty, MayLack, MayBeThin, At
<1>6. Occupied(node', MayBeEmpty', MayLack') /\ Widths(node', MayBeThin') /\ Nodes(node') /\ Chain(node')
  BY <1>5 DEF Repaired
<1>7. Guided' /\ Roomy' BY <1>1 DEF Guided, Roomy, At
<1> QED BY <1>3, <1>4, <1>6, <1>7 DEF Inv

LEMMA SiblingIs ==
    ASSUME Inv, Updating, path # <<>>
    PROVE  /\ HasLeft => Neighbours(node, Above(path), Frame.index - 1, LeftSibling, cur)
           /\ HasRight => Neighbours(node, Above(path), Frame.index, cur, RightSibling)
<1>1. /\ Above(path) \in Ins(node) /\ Len(Siblings) \in Nat /\ Slot(path) \in 1 .. Len(Siblings) /\ Frame.index = Slot(path)
      /\ Siblings[Slot(path)] = cur /\ Siblings = node[Above(path)].ptrs
  BY AboveIs DEF Siblings
<1>2. ASSUME HasLeft PROVE Neighbours(node, Above(path), Frame.index - 1, LeftSibling, cur)
  <2>1. Frame.index - 1 \in 1 .. Len(Siblings) - 1 /\ (Frame.index - 1) + 1 = Slot(path)
    BY <1>1, <1>2 DEF HasLeft
  <2> QED BY <1>1, <2>1 DEF Neighbours, LeftSibling
<1>3. ASSUME HasRight PROVE Neighbours(node, Above(path), Frame.index, cur, RightSibling)
  <2>1. Frame.index \in 1 .. Len(Siblings) - 1 BY <1>1, <1>3 DEF HasRight
  <2> QED BY <1>1, <2>1 DEF Neighbours, RightSibling
<1> QED BY <1>2, <1>3

LEMMA RefillIs ==
    ASSUME Inv, pc = "refill"
    PROVE  /\ request.op = "delete" /\ Updating /\ split = NULL_PTR /\ path # <<>> /\ path \in Seq(Frames)
           /\ cur \in Lvs(node) /\ Nodes(node) /\ Chain(node)
           /\ Forest(node, root_ptr, NULL_PTR, path, cur, TRUE) /\ Ordered(node, NULL_PTR, cur)
           /\ Occupied(node, root_ptr, cur) /\ Widths(node, NULL_PTR) /\ Filled(node) /\ root_ptr \in Ins(node)
           /\ HALF = Cardinality(DOMAIN node[cur].data) + 1
           /\ \A n \in Lvs(node) \ {cur} : HALF <= Cardinality(DOMAIN node[n].data)
<1>1. /\ request.op = "delete" /\ Updating /\ split = NULL_PTR /\ path # <<>> /\ path \in Seq(Frames)
      /\ cur \in Lvs(node) /\ Nodes(node) /\ Chain(node) /\ HALF = Cardinality(DOMAIN node[cur].data) + 1
  BY DEF Inv, Control, At, Updating, HasLeft, HasRight, Lacks, Pairs1
<1>2. root_ptr \in Ins(node) BY <1>1, AboveIs
<1>3. Filled(node) BY <1>2, FilledIs
<1>4. Occupied(node, root_ptr, cur) /\ Widths(node, NULL_PTR)
  BY <1>1 DEF Inv, MayBeEmpty, MayLack, MayBeThin, At
<1>5. \A n \in Lvs(node) \ {cur} : HALF <= Cardinality(DOMAIN node[n].data)
  BY <1>2, <1>4 DEF Occupied, Pairs1, Lvs, Ins
<1>6. Forest(node, root_ptr, NULL_PTR, path, cur, TRUE) /\ Ordered(node, NULL_PTR, cur) BY <1>1 DEF Inv, Forest
<1> QED BY <1>1, <1>2, <1>3, <1>4, <1>5, <1>6

LEMMA LeafWithIsGood ==
    ASSUME NEW data, LeafData(data), NEW next \in NodeIds \cup {NULL_PTR}
    PROVE  LET leaf == LeafWith(data, next)
           IN  /\ GoodNode(leaf) /\ leaf.kind = "leaf" /\ leaf.size = Cardinality(DOMAIN data)
               /\ leaf.data = data /\ leaf.next = next
<1>1. Cardinality(DOMAIN data) \in Nat BY FS_CardinalityType DEF LeafData
<1>2. GoodNode(Leaf(Cardinality(DOMAIN data), data, next)) BY <1>1, LeafIsGood DEF LeafData
<1> QED BY <1>2, Constructors DEF LeafWith

\* Two neighbouring leaves that share their pairs out anew.
LEMMA LeavesRecut ==
    ASSUME Inv, pc = "refill", NEW files, NEW i, NEW c, NEW d, cur \in {c, d}, Neighbours(node, Above(path), i, c, d),
           NEW m \in Keys, NEW dc, NEW dd, LeafData(dc), LeafData(dd), Enough(dc), Enough(dd),
           Recuts(node[c].data, node[d].data, dc, dd, m),
           Written3(node, files, c, LeafWith(dc, node[c].next), d, LeafWith(dd, node[d].next),
                    Parent, Internal(ReplaceAt(node[Parent].keys, i, m), Siblings))
    PROVE  Repaired(files, root_ptr, path)
<1> DEFINE p == Above(path)
           keys == ReplaceAt(node[p].keys, i, m)
           ptrs == node[p].ptrs
           top == Internal(keys, ptrs)
           left == LeafWith(dc, node[c].next)
           right == LeafWith(dd, node[d].next)
<1>1. /\ Updating /\ path # <<>> /\ path \in Seq(Frames) /\ cur \in Lvs(node) /\ Nodes(node) /\ Chain(node)
      /\ Forest(node, root_ptr, NULL_PTR, path, cur, TRUE) /\ Ordered(node, NULL_PTR, cur)
      /\ Occupied(node, root_ptr, cur) /\ Widths(node, NULL_PTR)
  BY RefillIs
<1>2. PICK h, par, slot : Shape(node, root_ptr, NULL_PTR, h, par, slot) BY <1>1 DEF Forest
<1>3. /\ c \in DOMAIN node /\ d \in DOMAIN node /\ c # d /\ c # p /\ d # p /\ p \in DOMAIN node
      /\ (c \in Ins(node) <=> d \in Ins(node)) /\ i + 1 \in 1 .. Len(ptrs) /\ i \in 1 .. Len(ptrs) /\ Len(ptrs) \in Nat
      /\ p \in Ins(node)
  <2>1. p \in Ins(node) BY DEF Neighbours
  <2>2. /\ c \in DOMAIN node /\ d \in DOMAIN node /\ c # d /\ c # p /\ d # p /\ p \in DOMAIN node
        /\ (c \in Ins(node) <=> d \in Ins(node)) /\ i + 1 \in 1 .. Len(ptrs) /\ i \in 1 .. Len(ptrs) /\ Len(ptrs) \in Nat
    BY <1>1, <1>2, NeighbourFacts
  <2> QED BY <2>1, <2>2
<1>4. c \in Lvs(node) /\ d \in Lvs(node) BY <1>1, <1>3 DEF Lvs, Ins
<1>5. node[p].keys \in Seq(Keys) /\ ptrs \in Seq(NodeIds) /\ Len(ptrs) = Len(node[p].keys) + 1 /\ Len(node[p].keys) \in Nat
  BY <1>1, <1>3, NodeFacts
<1>6. /\ keys \in Seq(Keys) /\ Len(keys) = Len(node[p].keys)
      /\ \A j \in 1 .. Len(node[p].keys) : keys[j] = IF j = i THEN m ELSE node[p].keys[j]
  <2> DEFINE s == node[p].keys
  <2>1. i \in 1 .. Len(s) /\ s \in Seq(Keys) BY <1>3, <1>5
  <2> SUFFICES /\ ReplaceAt(s, i, m) \in Seq(Keys) /\ Len(ReplaceAt(s, i, m)) = Len(s)
               /\ \A j \in 1 .. Len(s) : ReplaceAt(s, i, m)[j] = IF j = i THEN m ELSE s[j]
    OBVIOUS
  <2> HIDE DEF s
  <2> QED BY <2>1, ReplaceAtIs
<1> HIDE DEF keys
<1>7. GoodNode(top) /\ top.kind # "leaf" /\ top.keys = keys /\ top.ptrs = ptrs
  <2>1. Len(ptrs) = Len(keys) + 1 BY <1>5, <1>6
  <2> QED BY <1>5, <1>6, <2>1, InternalIsGood, Constructors
<1>8. /\ GoodNode(left) /\ left.kind = "leaf" /\ left.size = Cardinality(DOMAIN dc) /\ left.data = dc
      /\ left.next = node[c].next
  <2>1. node[c].next \in NodeIds \cup {NULL_PTR} BY <1>1, <1>4, LeafFacts DEF LeafNode
  <2> QED BY <2>1, LeafWithIsGood
<1>9. /\ GoodNode(right) /\ right.kind = "leaf" /\ right.size = Cardinality(DOMAIN dd) /\ right.data = dd
      /\ right.next = node[d].next
  <2>1. node[d].next \in NodeIds \cup {NULL_PTR} BY <1>1, <1>4, LeafFacts DEF LeafNode
  <2> QED BY <2>1, LeafWithIsGood
<1>10. Written3(node, files, c, left, d, right, p, top) BY DEF keys, Above, Parent, Frame, Siblings
<1> HIDE DEF left, right, top
<1>11. /\ DOMAIN files = DOMAIN node /\ files[c] = left /\ files[d] = right /\ files[p] = top
       /\ \A n \in DOMAIN node \ {p, c, d} : files[n] = node[n]
  BY <1>3, <1>10 DEF Written3
<1>12. Lvs(files) = Lvs(node) /\ Ins(files) = Ins(node)
  <2>1. left.kind = "leaf" /\ right.kind = "leaf" /\ top.kind # "leaf" BY <1>7, <1>8, <1>9
  <2>2. \A n \in DOMAIN node : files[n] = node[n] \/ (files[n].kind = "leaf" <=> node[n].kind = "leaf")
    BY <2>1, <1>3, <1>4, <1>11 DEF Lvs, Ins
  <2> QED BY <2>2, <1>11, KindsIf
<1>13. Nodes(files)
  <2>1. GoodNode(left) /\ GoodNode(right) /\ GoodNode(top) /\ DOMAIN files \subseteq NodeIds
    BY <1>1, <1>7, <1>8, <1>9, <1>11 DEF Nodes
  <2> QED BY <2>1, <1>1, <1>11, NodesIf
<1>14. Recut(node, files, p, i, c, d, m)
  <2>1. top.keys = keys /\ top.ptrs = ptrs BY <1>7
  <2> QED BY <2>1, <1>6, <1>11, <1>12 DEF Recut
<1>15. files[c].data = dc /\ files[d].data = dd /\ files[c].next = node[c].next /\ files[d].next = node[d].next
  BY <1>8, <1>9, <1>11
<1>16. Divided(node, files, c, d, m) BY <1>15 DEF Divided, Recuts
<1>17. Overlap(node, files)
  <2> SUFFICES ASSUME NEW n \in Lvs(node)
               PROVE  files[n].next = node[n].next /\ DOMAIN node[n].data \cap DOMAIN files[n].data # {}
    BY DEF Overlap
  <2>1. CASE n \in {c, d} BY <1>15, <2>1 DEF Recuts
  <2>2. CASE n \notin {c, d}
    <3>1. files[n] = node[n] BY <1>3, <1>11, <2>2 DEF Lvs, Ins
    <3>2. DOMAIN node[n].data # {} BY RefillIs DEF Filled
    <3> QED BY <3>1, <3>2
  <2> QED BY <2>1, <2>2
<1>18. m \in Int BY KeysAssumption
<1>19. /\ Forest(files, root_ptr, NULL_PTR, Front(path), p, TRUE) /\ Ordered(files, NULL_PTR, p)
       /\ Chain(files)
  <2> HIDE DEF p
  <2>1. Neighbours(node, Above(path), i, c, d) /\ Recut(node, files, Above(path), i, c, d, m) BY <1>14 DEF p
  <2>2. Forest(files, root_ptr, NULL_PTR, Front(path), Above(path), TRUE) /\ Ordered(files, NULL_PTR, Above(path))
         /\ Chain(files)
    BY <2>1, <1>1, <1>4, <1>13, <1>16, <1>17, <1>18, Recutting
  <2> QED BY <2>2 DEF p
<1>20. Occupied(files, root_ptr, NULL_PTR)
  <2>1. ASSUME NEW n \in Lvs(node)
        PROVE  /\ files[n].size = Pairs1(files, n) /\ Pairs1(files, n) <= FANOUT
               /\ HALF <= Pairs1(files, n) \/ n = root_ptr
    <3>1. CASE n \in {c, d} BY <1>8, <1>9, <1>11, <3>1 DEF Pairs1, Enough
    <3>2. CASE n \notin {c, d}
      <4>1. files[n] = node[n] BY <1>3, <1>11, <3>2 DEF Lvs, Ins
      <4> QED BY <4>1, <1>1, <3>2 DEF Occupied, Pairs1
    <3> QED BY <3>1, <3>2
  <2> QED BY <2>1, <1>12 DEF Occupied
<1>21. Widths(files, p)
  <2>1. \A n \in Ins(node) \ {p} : files[n] = node[n] /\ n # NULL_PTR BY <1>1, <1>4, <1>11, NoNull DEF Lvs, Ins
  <2>2. Len(files[p].keys) = Len(node[p].keys) BY <1>14 DEF Recut
  <2> QED BY <2>1, <2>2, <1>1, <1>3, <1>12 DEF Widths
<1> QED BY <1>3, <1>11, <1>13, <1>19, <1>20, <1>21 DEF Repaired

\* A pair that moves from one leaf's data to another's.
LEMMA LendIs ==
    ASSUME NEW from, NEW to, LeafData(from), LeafData(to), NEW k \in DOMAIN from, k \notin DOMAIN to
    PROVE  /\ LeafData(Restrict(from, DOMAIN from \ {k})) /\ DOMAIN Restrict(from, DOMAIN from \ {k}) = DOMAIN from \ {k}
           /\ Cardinality(DOMAIN from \ {k}) = Cardinality(DOMAIN from) - 1
           /\ LeafData(Put(to, k, from[k])) /\ DOMAIN Put(to, k, from[k]) = DOMAIN to \cup {k}
           /\ Cardinality(DOMAIN to \cup {k}) = Cardinality(DOMAIN to) + 1
           /\ Cardinality(DOMAIN from) \in Nat /\ Cardinality(DOMAIN to) \in Nat
<1>1. IsFiniteSet(DOMAIN from) /\ IsFiniteSet(DOMAIN to) BY DEF LeafData
<1>2. /\ Cardinality(DOMAIN from \ {k}) = Cardinality(DOMAIN from) - 1 /\ IsFiniteSet(DOMAIN from \ {k})
      /\ Cardinality(DOMAIN from) \in Nat
  BY <1>1, FS_RemoveElement, FS_CardinalityType
<1>3. /\ Cardinality(DOMAIN to \cup {k}) = Cardinality(DOMAIN to) + 1 /\ IsFiniteSet(DOMAIN to \cup {k})
      /\ Cardinality(DOMAIN to) \in Nat
  BY <1>1, FS_AddElement, FS_CardinalityType
<1>4. /\ LeafData(Restrict(from, DOMAIN from \ {k})) /\ DOMAIN Restrict(from, DOMAIN from \ {k}) = DOMAIN from \ {k}
  BY <1>2 DEF LeafData, Restrict
<1>5. LeafData(Put(to, k, from[k])) /\ DOMAIN Put(to, k, from[k]) = DOMAIN to \cup {k} BY <1>3 DEF LeafData, Put
<1> QED BY <1>2, <1>3, <1>4, <1>5

LEMMA DataIs ==
    ASSUME Inv, NEW n \in Lvs(node)
    PROVE  LeafData(node[n].data) /\ DOMAIN node[n].data \in SUBSET Nat
<1>1. Nodes(node) BY DEF Inv
<1> QED BY <1>1, LeafFacts DEF LeafData, LeafNode

\* Two leaves that are neighbours, and the one below them both.
LEMMA PairIs ==
    ASSUME Inv, pc = "refill", NEW i, NEW c, NEW d, cur \in {c, d}, Neighbours(node, Above(path), i, c, d)
    PROVE  /\ c \in Lvs(node) /\ d \in Lvs(node) /\ c # d /\ c # Parent /\ d # Parent /\ Parent \in Ins(node)
           /\ c \in DOMAIN node /\ d \in DOMAIN node /\ Parent \in DOMAIN node /\ c # root_ptr /\ d # root_ptr
           /\ Adjacent(node, c, d) /\ Parent = Above(path)
           /\ i \in 1 .. Len(node[Parent].keys) /\ i + 1 \in 1 .. Len(Siblings) /\ Len(Siblings) = Len(node[Parent].keys) + 1
           /\ Len(node[Parent].keys) \in Nat /\ node[Parent].keys \in Seq(Keys) /\ Siblings \in Seq(NodeIds)
<1>1. /\ Updating /\ path # <<>> /\ cur \in Lvs(node) /\ Nodes(node)
      /\ Forest(node, root_ptr, NULL_PTR, path, cur, TRUE) /\ Ordered(node, NULL_PTR, cur)
  BY RefillIs
<1>2. PICK h, par, slot : Shape(node, root_ptr, NULL_PTR, h, par, slot) BY <1>1 DEF Forest
<1>3. PICK lo, hi : Bounds(node, lo, hi) BY <1>1 DEF Ordered
<1>4. Parent = Above(path) /\ Parent \in Ins(node) /\ Parent \in DOMAIN node BY <1>1, AboveIs
<1>5. /\ c \in DOMAIN node /\ d \in DOMAIN node /\ c # d /\ c # Parent /\ d # Parent /\ c # root_ptr /\ d # root_ptr
      /\ (c \in Ins(node) <=> d \in Ins(node)) /\ i + 1 \in 1 .. Len(Siblings) /\ Len(Siblings) \in Nat
      /\ i \in 1 .. Len(Siblings)
  BY <1>1, <1>2, <1>4, NeighbourFacts DEF Siblings
<1>6. c \in Lvs(node) /\ d \in Lvs(node) BY <1>1, <1>5 DEF Lvs, Ins
<1>7. Adjacent(node, c, d) BY <1>1, <1>2, <1>3, <1>6, AdjacentIs
<1>8. /\ node[Parent].keys \in Seq(Keys) /\ Siblings \in Seq(NodeIds) /\ Len(Siblings) = Len(node[Parent].keys) + 1
      /\ Len(node[Parent].keys) \in Nat
  BY <1>1, <1>4, NodeFacts DEF Siblings
<1>9. i \in 1 .. Len(node[Parent].keys) BY <1>5, <1>8
<1> QED BY <1>4, <1>5, <1>6, <1>7, <1>8, <1>9

LEMMA left_redistributionStep ==
    ASSUME Inv, left_redistribution
    PROVE  Inv'
<1> DEFINE c == LeftSibling
           i == Frame.index - 1
           from == node[c].data
           to == node[cur].data
           k == Max(DOMAIN from)
           kept == Restrict(from, DOMAIN from \ {k})
           dd == Put(to, k, from[k])
           m == Max(DOMAIN kept)
<1>1. pc = "refill" /\ HasLeft /\ CanLend(c) BY DEF left_redistribution, Refilling
<1>2. /\ request.op = "delete" /\ Updating /\ split = NULL_PTR /\ path # <<>> /\ cur \in Lvs(node) /\ Filled(node)
      /\ HALF = Cardinality(DOMAIN to) + 1
  BY <1>1, RefillIs
<1>3. Neighbours(node, Above(path), i, c, cur) BY <1>1, <1>2, SiblingIs
<1>4. /\ c \in Lvs(node) /\ c # cur /\ c # Parent /\ cur # Parent
      /\ c \in DOMAIN node /\ cur \in DOMAIN node /\ Parent \in DOMAIN node /\ Adjacent(node, c, cur)
  BY <1>1, <1>3, PairIs
<1>5. LeafData(from) /\ LeafData(to) /\ DOMAIN from \in SUBSET Nat /\ DOMAIN to \in SUBSET Nat
  BY <1>2, <1>4, DataIs
<1>6. DOMAIN from # {} /\ DOMAIN to # {} /\ \A x \in DOMAIN from, y \in DOMAIN to : x < y
  BY <1>2, <1>4 DEF Filled, Adjacent, Lt
<1>7. k \in DOMAIN from /\ \A x \in DOMAIN from : x <= k BY <1>5, <1>6, MaxIs DEF LeafData
<1>8. k \notin DOMAIN to /\ k \in Nat BY <1>5, <1>6, <1>7
<1>9. /\ LeafData(kept) /\ DOMAIN kept = DOMAIN from \ {k} /\ Cardinality(DOMAIN from \ {k}) = Cardinality(DOMAIN from) - 1
      /\ LeafData(dd) /\ DOMAIN dd = DOMAIN to \cup {k} /\ Cardinality(DOMAIN to \cup {k}) = Cardinality(DOMAIN to) + 1
      /\ Cardinality(DOMAIN from) \in Nat /\ Cardinality(DOMAIN to) \in Nat
  <2> HIDE DEF from, to, k
  <2> QED BY <1>5, <1>7, <1>8, LendIs
<1>10. /\ Data(c) = from /\ Data(cur) = to /\ LeafAt(c) = node[c] /\ Cardinality(DOMAIN from) <= FANOUT
  BY <1>2, <1>4, LeafIs
<1>11. Cardinality(DOMAIN from) - 1 >= HALF /\ Cardinality(DOMAIN from) >= 1
  <2>1. ~isUnderflow(Cardinality(DOMAIN from) - 1) BY <1>1, <1>10 DEF CanLend
  <2>2. Cardinality(DOMAIN from) # 0 BY <1>5, <1>6, FS_EmptySet DEF LeafData
  <2> HIDE DEF from
  <2> QED BY <2>1, <2>2, <1>9, HalfIs DEF isUnderflow
<1>12. Enough(kept) /\ Enough(dd)
  <2> HIDE DEF from, to, kept, dd, k
  <2> QED BY <1>2, <1>9, <1>10, <1>11, HalfIs DEF Enough
<1>13. m \in DOMAIN kept /\ (\A x \in DOMAIN kept : x <= m) /\ m \in Keys /\ m \in Nat /\ m < k
  <2>1. DOMAIN kept # {}
    <3>1. Cardinality(DOMAIN kept) # 0 BY <1>12, HalfIs DEF Enough
    <3> QED BY <3>1, FS_EmptySet
  <2>2. DOMAIN kept \in SUBSET Nat /\ IsFiniteSet(DOMAIN kept) /\ DOMAIN kept \subseteq Keys
    BY <1>5, <1>9 DEF LeafData
  <2> HIDE DEF kept
  <2>3. m \in DOMAIN kept /\ \A x \in DOMAIN kept : x <= m BY <2>1, <2>2, MaxIs
  <2> HIDE DEF m
  <2>4. m \in DOMAIN from /\ m # k /\ m <= k BY <2>3, <1>7, <1>9
  <2> QED BY <2>2, <2>3, <2>4, <1>8
<1>14. Recuts(from, to, kept, dd, m)
  <2> HIDE DEF from, to, kept, dd, m, k
  <2>1. DOMAIN kept \cup DOMAIN dd \subseteq DOMAIN from \cup DOMAIN to BY <1>7, <1>9
  <2>2. m \in DOMAIN from \cap DOMAIN kept BY <1>9, <1>13
  <2>3. \A x \in DOMAIN dd : m < x BY <1>6, <1>9, <1>13, <2>2
  <2>4. DOMAIN to \cap DOMAIN dd # {} BY <1>6, <1>9
  <2>5. \E x \in DOMAIN to : m < x BY <1>6, <2>2
  <2>6. m <= m BY <1>13
  <2> QED BY <1>13, <2>1, <2>2, <2>3, <2>4, <2>5, <2>6 DEF Recuts
<1>15. Written3(node, node', c, LeafWith(kept, node[c].next), cur, LeafWith(dd, node[cur].next),
                Parent, Internal(ReplaceAt(node[Parent].keys, i, m), Siblings))
  <2>1. node' = [node EXCEPT ![c] = LeafWith(kept, node[c].next), ![cur] = LeafWith(dd, node[cur].next),
                             ![Parent] = Internal(ReplaceAt(node[Parent].keys, i, m), Siblings)]
    BY <1>10 DEF left_redistribution
  <2> HIDE DEF c, i, from, to, k, kept, dd, m
  <2> QED BY <2>1, <1>4, Updated3
<1>16. Repaired(node', root_ptr, path)
  <2> HIDE DEF c, i, kept, dd, m, k
  <2> QED BY <1>1, <1>3, <1>9, <1>12, <1>13, <1>14, <1>15, LeavesRecut
<1>17. pc' = "unwind" /\ cur' = Parent /\ path' = Front(path) /\ UNCHANGED <<root_ptr, request, split, result>>
  BY DEF left_redistribution, LeafDone
<1> QED BY <1>1, <1>2, <1>16, <1>17, RepairedStep

LEMMA right_redistributionStep ==
    ASSUME Inv, right_redistribution
    PROVE  Inv'
<1> DEFINE d == RightSibling
           i == Frame.index
           from == node[d].data
           to == node[cur].data
           k == Min(DOMAIN from)
           kept == Restrict(from, DOMAIN from \ {k})
           dc == Put(to, k, from[k])
<1>1. pc = "refill" /\ HasRight /\ CanLend(d) BY DEF right_redistribution, Refilling
<1>2. /\ request.op = "delete" /\ Updating /\ split = NULL_PTR /\ path # <<>> /\ cur \in Lvs(node) /\ Filled(node)
      /\ HALF = Cardinality(DOMAIN to) + 1
  BY <1>1, RefillIs
<1>3. Neighbours(node, Above(path), i, cur, d) BY <1>1, <1>2, SiblingIs
<1>4. /\ d \in Lvs(node) /\ d # cur /\ d # Parent /\ cur # Parent
      /\ d \in DOMAIN node /\ cur \in DOMAIN node /\ Parent \in DOMAIN node /\ Adjacent(node, cur, d)
  BY <1>1, <1>3, PairIs
<1>5. LeafData(from) /\ LeafData(to) /\ DOMAIN from \in SUBSET Nat /\ DOMAIN to \in SUBSET Nat
  BY <1>2, <1>4, DataIs
<1>6. DOMAIN from # {} /\ DOMAIN to # {} /\ \A x \in DOMAIN to, y \in DOMAIN from : x < y
  BY <1>2, <1>4 DEF Filled, Adjacent, Lt
<1>7. k \in DOMAIN from /\ \A x \in DOMAIN from : k <= x BY <1>5, <1>6, MinIs DEF LeafData
<1>8. k \notin DOMAIN to /\ k \in Nat /\ k \in Keys BY <1>5, <1>6, <1>7 DEF LeafData
<1>9. /\ LeafData(kept) /\ DOMAIN kept = DOMAIN from \ {k} /\ Cardinality(DOMAIN from \ {k}) = Cardinality(DOMAIN from) - 1
      /\ LeafData(dc) /\ DOMAIN dc = DOMAIN to \cup {k} /\ Cardinality(DOMAIN to \cup {k}) = Cardinality(DOMAIN to) + 1
      /\ Cardinality(DOMAIN from) \in Nat /\ Cardinality(DOMAIN to) \in Nat
  <2> HIDE DEF from, to, k
  <2>1. k \in DOMAIN from /\ k \notin DOMAIN to BY <1>7, <1>8
  <2> QED BY <1>5, <2>1, LendIs, SMTT(30)
<1>10. /\ Data(d) = from /\ Data(cur) = to /\ LeafAt(d) = node[d] /\ Cardinality(DOMAIN from) <= FANOUT
  BY <1>2, <1>4, LeafIs
<1>11. Cardinality(DOMAIN from) - 1 >= HALF /\ Cardinality(DOMAIN from) >= 1
  <2>1. ~isUnderflow(Cardinality(DOMAIN from) - 1) BY <1>1, <1>10 DEF CanLend
  <2>2. Cardinality(DOMAIN from) # 0 BY <1>5, <1>6, FS_EmptySet DEF LeafData
  <2> HIDE DEF from
  <2> QED BY <2>1, <2>2, <1>9, HalfIs DEF isUnderflow
<1>12. Enough(kept) /\ Enough(dc)
  <2> HIDE DEF from, to, kept, dc, k
  <2> QED BY <1>2, <1>9, <1>10, <1>11, HalfIs DEF Enough
<1>13. PICK z \in DOMAIN kept : z \in DOMAIN from /\ k < z
  <2>1. DOMAIN kept # {}
    <3>1. Cardinality(DOMAIN kept) # 0 BY <1>12, HalfIs DEF Enough
    <3> QED BY <3>1, FS_EmptySet
  <2>2. PICK z \in DOMAIN kept : z \in DOMAIN from /\ z # k BY <2>1, <1>9
  <2>3. k < z BY <2>2, <1>5, <1>7, <1>8
  <2> QED BY <2>2, <2>3
<1>14. Recuts(to, from, dc, kept, k)
  <2>1. \A x \in DOMAIN kept : k < x BY <1>5, <1>7, <1>8, <1>9
  <2> HIDE DEF from, to, kept, dc, k
  <2>2. DOMAIN dc \cup DOMAIN kept \subseteq DOMAIN to \cup DOMAIN from BY <1>7, <1>9
  <2>3. \A x \in DOMAIN dc : x <= k BY <1>5, <1>6, <1>7, <1>8, <1>9
  <2>4. DOMAIN to \cap DOMAIN dc # {} BY <1>6, <1>9
  <2>5. \E x \in DOMAIN to : x <= k BY <1>5, <1>6, <1>7, <1>8
  <2>6. DOMAIN from \cap DOMAIN kept # {} BY <1>13
  <2>7. \E x \in DOMAIN from : k < x BY <1>13
  <2> QED BY <2>1, <2>2, <2>3, <2>4, <2>5, <2>6, <2>7 DEF Recuts
<1>15. Written3(node, node', cur, LeafWith(dc, node[cur].next), d, LeafWith(kept, node[d].next),
                Parent, Internal(ReplaceAt(node[Parent].keys, i, k), Siblings))
  <2>1. node' = [node EXCEPT ![d] = LeafWith(kept, node[d].next), ![cur] = LeafWith(dc, node[cur].next),
                             ![Parent] = Internal(ReplaceAt(node[Parent].keys, i, k), Siblings)]
    BY <1>10 DEF right_redistribution
  <2> HIDE DEF d, i, from, to, k, kept, dc
  <2>2. Written3(node, node', d, LeafWith(kept, node[d].next), cur, LeafWith(dc, node[cur].next),
                 Parent, Internal(ReplaceAt(node[Parent].keys, i, k), Siblings))
    BY <2>1, <1>4, Updated3
  <2> QED BY <2>2 DEF Written3
<1>16. Repaired(node', root_ptr, path)
  <2> HIDE DEF d, i, kept, dc, k
  <2> QED BY <1>1, <1>3, <1>8, <1>9, <1>12, <1>14, <1>15, LeavesRecut
<1>17. pc' = "unwind" /\ cur' = Parent /\ path' = Front(path) /\ UNCHANGED <<root_ptr, request, split, result>>
  BY DEF right_redistribution, LeafDone
<1> QED BY <1>1, <1>2, <1>16, <1>17, RepairedStep

LEMMA PrunedIs ==
    ASSUME NEW files, NEW a \in DOMAIN files, NEW b \in DOMAIN files, NEW d, NEW x, NEW y, a # b, a # d, b # d
    PROVE  Pruned(files, Without([files EXCEPT ![a] = x, ![b] = y], d), a, x, b, y, d)
<1> DEFINE mid == [files EXCEPT ![a] = x, ![b] = y]
           end == Without(mid, d)
<1>1. Written2(files, mid, a, x, b, y) BY Updated2
<1> HIDE DEF mid
<1>2. Dropped(mid, end, d) BY WithoutIs
<1> HIDE DEF end
<1>3. Pruned(files, end, a, x, b, y, d) BY <1>1, <1>2 DEF Written2, Dropped, Pruned
<1> QED BY <1>3 DEF end, mid

\* What is left of the keys and children of the node above.
LEMMA SiblingsLess ==
    ASSUME NEW keys \in Seq(Keys), NEW ptrs \in Seq(NodeIds), Len(ptrs) = Len(keys) + 1, NEW i \in 1 .. Len(keys)
    PROVE  LET x == Internal(RemoveAt(keys, i), RemoveAt(ptrs, i + 1))
           IN  /\ GoodNode(x) /\ x.kind # "leaf" /\ Len(x.ptrs) = Len(ptrs) - 1 /\ Len(x.keys) = Len(keys) - 1
               /\ \A j \in 1 .. Len(ptrs) - 1 : x.ptrs[j] = IF j < i + 1 THEN ptrs[j] ELSE ptrs[j + 1]
               /\ \A j \in 1 .. Len(keys) - 1 : x.keys[j] = IF j < i THEN keys[j] ELSE keys[j + 1]
<1> DEFINE ks == RemoveAt(keys, i)
           ps == RemoveAt(ptrs, i + 1)
<1>1. /\ ks \in Seq(Keys) /\ Len(ks) = Len(keys) - 1
      /\ \A j \in 1 .. Len(keys) - 1 : ks[j] = IF j < i THEN keys[j] ELSE keys[j + 1]
  BY RemoveAtIs
<1>2. i + 1 \in 1 .. Len(ptrs) /\ Len(keys) \in Nat BY LenProperties
<1>3. /\ ps \in Seq(NodeIds) /\ Len(ps) = Len(ptrs) - 1
      /\ \A j \in 1 .. Len(ptrs) - 1 : ps[j] = IF j < i + 1 THEN ptrs[j] ELSE ptrs[j + 1]
  <2> DEFINE e == i + 1
  <2>1. e \in 1 .. Len(ptrs) BY <1>2
  <2> SUFFICES /\ RemoveAt(ptrs, e) \in Seq(NodeIds) /\ Len(RemoveAt(ptrs, e)) = Len(ptrs) - 1
               /\ \A j \in 1 .. Len(ptrs) - 1 : RemoveAt(ptrs, e)[j] = IF j < e THEN ptrs[j] ELSE ptrs[j + 1]
    OBVIOUS
  <2> HIDE DEF e
  <2> QED BY <2>1, RemoveAtIs
<1> HIDE DEF ks, ps
<1>4. Len(ps) = Len(ks) + 1 BY <1>1, <1>2, <1>3
<1>5. GoodNode(Internal(ks, ps)) /\ Internal(ks, ps).kind # "leaf" BY <1>1, <1>3, <1>4, InternalIsGood
<1>6. Internal(ks, ps).keys = ks /\ Internal(ks, ps).ptrs = ps BY Constructors
<1>7. LET x == Internal(ks, ps)
      IN  /\ GoodNode(x) /\ x.kind # "leaf" /\ Len(x.ptrs) = Len(ptrs) - 1 /\ Len(x.keys) = Len(keys) - 1
          /\ \A j \in 1 .. Len(ptrs) - 1 : x.ptrs[j] = IF j < i + 1 THEN ptrs[j] ELSE ptrs[j + 1]
          /\ \A j \in 1 .. Len(keys) - 1 : x.keys[j] = IF j < i THEN keys[j] ELSE keys[j + 1]
  BY <1>1, <1>3, <1>5, <1>6
<1> QED BY <1>7 DEF ks, ps

\* What the one leaf that two become may hold.
Fit(c, d, data) ==
    /\ LeafData(data) /\ Enough(data) /\ DOMAIN data = DOMAIN node[c].data \cup DOMAIN node[d].data
    /\ Data(c) = node[c].data /\ Data(d) = node[d].data /\ LeafAt(c) = node[c] /\ LeafAt(d) = node[d]

\* Two neighbouring leaves become one.
LEMMA LeavesMerged ==
    ASSUME Inv, pc = "refill", NEW files, NEW i, NEW c, NEW d, cur \in {c, d}, Neighbours(node, Above(path), i, c, d),
           NEW data, Fit(c, d, data),
           Pruned(node, files, c, LeafWith(data, node[d].next),
                  Parent, Internal(RemoveAt(node[Parent].keys, i), RemoveAt(Siblings, i + 1)), d)
    PROVE  Repaired(files, root_ptr, path)
<1> DEFINE p == Above(path)
           top == Internal(RemoveAt(node[p].keys, i), RemoveAt(node[p].ptrs, i + 1))
           left == LeafWith(data, node[d].next)
<1>1. /\ Updating /\ path # <<>> /\ path \in Seq(Frames) /\ cur \in Lvs(node) /\ Nodes(node) /\ Chain(node) /\ Filled(node)
      /\ Forest(node, root_ptr, NULL_PTR, path, cur, TRUE) /\ Ordered(node, NULL_PTR, cur)
      /\ Occupied(node, root_ptr, cur) /\ Widths(node, NULL_PTR)
      /\ LeafData(data) /\ Enough(data) /\ DOMAIN data = DOMAIN node[c].data \cup DOMAIN node[d].data
  BY RefillIs DEF Fit
<1>2. /\ c \in Lvs(node) /\ d \in Lvs(node) /\ c # d /\ c # p /\ d # p /\ p \in Ins(node)
      /\ c \in DOMAIN node /\ d \in DOMAIN node /\ p \in DOMAIN node /\ Adjacent(node, c, d) /\ Parent = p
      /\ i \in 1 .. Len(node[p].keys) /\ Len(node[p].ptrs) = Len(node[p].keys) + 1
      /\ Len(node[p].keys) \in Nat /\ node[p].keys \in Seq(Keys) /\ node[p].ptrs \in Seq(NodeIds)
  BY PairIs DEF Siblings
<1>3. /\ GoodNode(top) /\ top.kind # "leaf"
      /\ Len(top.ptrs) = Len(node[p].ptrs) - 1 /\ Len(top.keys) = Len(node[p].keys) - 1
      /\ \A j \in 1 .. Len(node[p].ptrs) - 1 : top.ptrs[j] = IF j < i + 1 THEN node[p].ptrs[j] ELSE node[p].ptrs[j + 1]
      /\ \A j \in 1 .. Len(node[p].keys) - 1 : top.keys[j] = IF j < i THEN node[p].keys[j] ELSE node[p].keys[j + 1]
  <2> DEFINE ks == node[p].keys
             ps == node[p].ptrs
  <2>1. ks \in Seq(Keys) /\ ps \in Seq(NodeIds) /\ Len(ps) = Len(ks) + 1 /\ i \in 1 .. Len(ks) BY <1>2
  <2> SUFFICES LET x == Internal(RemoveAt(ks, i), RemoveAt(ps, i + 1))
               IN  /\ GoodNode(x) /\ x.kind # "leaf" /\ Len(x.ptrs) = Len(ps) - 1 /\ Len(x.keys) = Len(ks) - 1
                   /\ \A j \in 1 .. Len(ps) - 1 : x.ptrs[j] = IF j < i + 1 THEN ps[j] ELSE ps[j + 1]
                   /\ \A j \in 1 .. Len(ks) - 1 : x.keys[j] = IF j < i THEN ks[j] ELSE ks[j + 1]
    OBVIOUS
  <2> HIDE DEF ks, ps
  <2> QED BY <2>1, SiblingsLess
<1>4. GoodNode(left) /\ left.kind = "leaf" /\ left.size = Cardinality(DOMAIN data) /\ left.data = data /\ left.next = node[d].next
  <2>1. node[d].next \in NodeIds \cup {NULL_PTR} BY <1>1, <1>2, LeafFacts DEF LeafNode
  <2> QED BY <2>1, <1>1, LeafWithIsGood
<1>5. Pruned(node, files, c, left, p, top, d) BY <1>2 DEF Siblings
<1> HIDE DEF left, top
<1>6. /\ DOMAIN files = DOMAIN node \ {d} /\ files[c] = left /\ files[p] = top
      /\ \A n \in DOMAIN node \ {p, c, d} : files[n] = node[n]
  BY <1>5 DEF Pruned
<1>7. Lvs(files) = Lvs(node) \ {d} /\ Ins(files) = Ins(node) \ {d} /\ Ins(files) = Ins(node)
  <2>1. files[c].kind = "leaf" /\ node[c].kind = "leaf" /\ files[p].kind # "leaf" /\ node[p].kind # "leaf"
    BY <1>2, <1>3, <1>4, <1>6 DEF Lvs, Ins
  <2>2. \A n \in DOMAIN files : files[n].kind = "leaf" <=> node[n].kind = "leaf" BY <2>1, <1>6
  <2>3. d \notin Ins(node) BY <1>2 DEF Lvs, Ins
  <2> QED BY <2>2, <2>3, <1>6 DEF Lvs, Ins
<1>8. Nodes(files)
  <2>1. GoodNode(left) /\ GoodNode(top) /\ DOMAIN files \subseteq NodeIds BY <1>1, <1>3, <1>4, <1>6 DEF Nodes
  <2> QED BY <2>1, <1>1, <1>6, NodesIf
<1>9. Merged(node, files, p, i, c, d)
  <2>1. c \notin Ins(node) BY <1>2 DEF Lvs, Ins
  <2> QED BY <2>1, <1>3, <1>6, <1>7 DEF Merged
<1>10. files[c].data = data /\ files[c].next = node[d].next BY <1>4, <1>6
<1>11. Chain(files)
  <2>1. \A n \in Lvs(node) \ {c, d} : files[n] = node[n] BY <1>2, <1>6 DEF Lvs, Ins
  <2> QED BY <2>1, <1>1, <1>2, <1>7, <1>10, MergedChain
<1>12. Forest(files, root_ptr, NULL_PTR, Front(path), p, TRUE) /\ Ordered(files, NULL_PTR, p)
  <2> HIDE DEF p
  <2>1. Neighbours(node, Above(path), i, c, d) /\ Merged(node, files, Above(path), i, c, d) BY <1>9 DEF p
  <2>2. c \in Lvs(node) => DOMAIN files[c].data \subseteq DOMAIN node[c].data \cup DOMAIN node[d].data
    BY <1>1, <1>10
  <2>3. Forest(files, root_ptr, NULL_PTR, Front(path), Above(path), TRUE) /\ Ordered(files, NULL_PTR, Above(path))
    BY <2>1, <2>2, <1>1, Merging
  <2> QED BY <2>3 DEF p
<1>13. Occupied(files, root_ptr, NULL_PTR)
  <2>1. ASSUME NEW n \in Lvs(files)
        PROVE  /\ files[n].size = Pairs1(files, n) /\ Pairs1(files, n) <= FANOUT
               /\ HALF <= Pairs1(files, n) \/ n = root_ptr
    <3>1. CASE n = c BY <1>1, <1>4, <1>6, <3>1 DEF Pairs1, Enough
    <3>2. CASE n # c
      <4>1. n \in Lvs(node) /\ files[n] = node[n] /\ n # cur BY <1>2, <1>6, <1>7, <3>2 DEF Lvs, Ins
      <4> QED BY <4>1, <1>1 DEF Occupied, Pairs1
    <3> QED BY <3>1, <3>2
  <2> QED BY <2>1 DEF Occupied
<1>14. Widths(files, p)
  <2>1. \A n \in Ins(node) \ {p} : files[n] = node[n] /\ n # NULL_PTR BY <1>1, <1>2, <1>6, NoNull DEF Lvs, Ins
  <2>2. Len(files[p].keys) = Len(node[p].keys) - 1 BY <1>3, <1>6
  <2>3. Len(node[p].keys) <= 2 * MIN_KEYS /\ MIN_KEYS \in Nat BY <1>1, <1>2, HalfIs DEF Widths
  <2>4. Len(files[p].keys) <= 2 * MIN_KEYS BY <2>2, <2>3, <1>2
  <2> QED BY <2>1, <2>4, <1>1, <1>7 DEF Widths
<1> QED BY <1>2, <1>6, <1>8, <1>11, <1>12, <1>13, <1>14 DEF Repaired

LEMMA MergeIs ==
    ASSUME NEW low, NEW high, LeafData(low), LeafData(high), DOMAIN low \cap DOMAIN high = {}
    PROVE  /\ LeafData(Merge(low, high)) /\ DOMAIN Merge(low, high) = DOMAIN low \cup DOMAIN high
           /\ Cardinality(DOMAIN low \cup DOMAIN high) = Cardinality(DOMAIN low) + Cardinality(DOMAIN high)
           /\ Cardinality(DOMAIN low) \in Nat /\ Cardinality(DOMAIN high) \in Nat
<1>1. IsFiniteSet(DOMAIN low) /\ IsFiniteSet(DOMAIN high) BY DEF LeafData
<1>2. /\ Cardinality(DOMAIN low) \in Nat /\ Cardinality(DOMAIN high) \in Nat /\ IsFiniteSet(DOMAIN low \cup DOMAIN high)
      /\ Cardinality(DOMAIN low \cup DOMAIN high)
            = Cardinality(DOMAIN low) + Cardinality(DOMAIN high) - Cardinality(DOMAIN low \cap DOMAIN high)
  BY <1>1, FS_Union, FS_CardinalityType
<1>3. Cardinality(DOMAIN low \cap DOMAIN high) = 0 BY FS_EmptySet
<1>4. LeafData(Merge(low, high)) /\ DOMAIN Merge(low, high) = DOMAIN low \cup DOMAIN high
  BY <1>2 DEF LeafData, Merge
<1> QED BY <1>2, <1>3, <1>4

\* The pairs of a leaf that is to be refilled fit with those of a sibling that
\* cannot lend any.
LEMMA MergeFits ==
    ASSUME Inv, pc = "refill", NEW i, NEW c, NEW d, cur \in {c, d}, Neighbours(node, Above(path), i, c, d),
           NEW s \in {c, d} \ {cur}, ~CanLend(s)
    PROVE  Fit(c, d, Merge(node[c].data, node[d].data))
<1> DEFINE data == Merge(node[c].data, node[d].data)
           size(n) == Cardinality(DOMAIN node[n].data)
<1>1. c \in Lvs(node) /\ d \in Lvs(node) /\ c # d /\ Adjacent(node, c, d) BY PairIs
<1>2. Filled(node) /\ HALF = size(cur) + 1 BY RefillIs
<1>3. Data(c) = node[c].data /\ Data(d) = node[d].data /\ LeafAt(c) = node[c] /\ LeafAt(d) = node[d]
  BY <1>1, LeafIs
<1>4. LeafData(node[c].data) /\ LeafData(node[d].data) /\ DOMAIN node[c].data \in SUBSET Nat BY <1>1, DataIs
<1>5. DOMAIN node[c].data \cap DOMAIN node[d].data = {}
  <2> SUFFICES ASSUME NEW x \in DOMAIN node[c].data, x \in DOMAIN node[d].data PROVE FALSE OBVIOUS
  <2>1. x < x BY <1>1 DEF Adjacent, Lt
  <2> QED BY <2>1, <1>4
<1>6. /\ LeafData(data) /\ DOMAIN data = DOMAIN node[c].data \cup DOMAIN node[d].data
      /\ Cardinality(DOMAIN data) = size(c) + size(d) /\ size(c) \in Nat /\ size(d) \in Nat
  <2> DEFINE lc == node[c].data
             ld == node[d].data
  <2>1. LeafData(lc) /\ LeafData(ld) /\ DOMAIN lc \cap DOMAIN ld = {} BY <1>4, <1>5
  <2> SUFFICES /\ LeafData(Merge(lc, ld)) /\ DOMAIN Merge(lc, ld) = DOMAIN lc \cup DOMAIN ld
               /\ Cardinality(DOMAIN Merge(lc, ld)) = Cardinality(DOMAIN lc) + Cardinality(DOMAIN ld)
               /\ Cardinality(DOMAIN lc) \in Nat /\ Cardinality(DOMAIN ld) \in Nat
    OBVIOUS
  <2> HIDE DEF lc, ld
  <2>2. /\ LeafData(Merge(lc, ld)) /\ DOMAIN Merge(lc, ld) = DOMAIN lc \cup DOMAIN ld
        /\ Cardinality(DOMAIN lc \cup DOMAIN ld) = Cardinality(DOMAIN lc) + Cardinality(DOMAIN ld)
        /\ Cardinality(DOMAIN lc) \in Nat /\ Cardinality(DOMAIN ld) \in Nat
    BY <2>1, MergeIs
  <2> QED BY <2>2
<1>7. size(s) - 1 < HALF /\ size(s) >= 1 /\ size(s) \in Nat
  <2>1. isUnderflow(size(s) - 1) BY <1>3 DEF CanLend
  <2>2. size(s) \in Nat BY <1>6
  <2> HIDE DEF size
  <2> QED BY <2>1, <2>2, HalfIs DEF isUnderflow
<1>8. Cardinality(DOMAIN data) = size(s) + size(cur) /\ size(cur) \in Nat
  <2> HIDE DEF size, data
  <2> QED BY <1>6
<1>9. Enough(data)
  <2> HIDE DEF size, data
  <2>1. HALF <= size(s) + size(cur) /\ size(s) + size(cur) <= FANOUT BY <1>2, <1>7, <1>8, HalfIs
  <2> QED BY <2>1, <1>8 DEF Enough
<1> QED BY <1>3, <1>6, <1>9 DEF Fit

LEMMA left_mergeStep ==
    ASSUME Inv, left_merge
    PROVE  Inv'
<1> DEFINE c == LeftSibling
           i == Frame.index - 1
           data == Merge(node[c].data, node[cur].data)
           left == LeafWith(data, node[cur].next)
           top == Internal(RemoveAt(node[Parent].keys, i), RemoveAt(Siblings, i + 1))
<1>1. pc = "refill" /\ HasLeft /\ ~CanLend(c) BY DEF left_merge, Refilling
<1>2. request.op = "delete" /\ Updating /\ path # <<>> BY <1>1, RefillIs
<1>3. Neighbours(node, Above(path), i, c, cur) BY <1>1, <1>2, SiblingIs
<1>4. /\ c # cur /\ c # Parent /\ cur # Parent /\ c \in DOMAIN node /\ cur \in DOMAIN node /\ Parent \in DOMAIN node
  BY <1>1, <1>3, PairIs
<1>5. Fit(c, cur, data)
  <2> HIDE DEF c, i
  <2>1. c \in {c, cur} \ {cur} /\ cur \in {c, cur} BY <1>4
  <2>2. Fit(c, cur, Merge(node[c].data, node[cur].data)) BY <2>1, <1>1, <1>3, MergeFits
  <2> QED BY <2>2
<1>6. i + 1 = Frame.index
  <2>1. Frame.index \in Nat BY <1>2, AboveIs
  <2> QED BY <2>1
<1>7. Pruned(node, node', c, left, Parent, top, cur)
  <2>1. node' = Without([node EXCEPT ![c] = left, ![Parent] = top], cur) BY <1>5, <1>6 DEF left_merge, Fit
  <2> HIDE DEF left, top, c
  <2> QED BY <2>1, <1>4, PrunedIs
<1>8. Repaired(node', root_ptr, path)
  <2> HIDE DEF c, i, data
  <2>1. Pruned(node, node', c, LeafWith(data, node[cur].next),
               Parent, Internal(RemoveAt(node[Parent].keys, i), RemoveAt(Siblings, i + 1)), cur)
    BY <1>7
  <2>2. cur \in {c, cur} OBVIOUS
  <2> HIDE DEF left, top
  <2> QED BY <1>1, <1>3, <1>5, <2>1, <2>2, LeavesMerged
<1>9. pc' = "unwind" /\ cur' = Parent /\ path' = Front(path) /\ UNCHANGED <<root_ptr, request, split, result>>
  BY DEF left_merge, LeafDone
<1> QED BY <1>1, <1>2, <1>8, <1>9, RepairedStep

LEMMA right_mergeStep ==
    ASSUME Inv, right_merge
    PROVE  Inv'
<1> DEFINE d == RightSibling
           i == Frame.index
           data == Merge(node[cur].data, node[d].data)
           left == LeafWith(data, node[d].next)
           top == Internal(RemoveAt(node[Parent].keys, i), RemoveAt(Siblings, i + 1))
<1>1. pc = "refill" /\ HasRight /\ ~CanLend(d) BY DEF right_merge, Refilling
<1>2. request.op = "delete" /\ Updating /\ path # <<>> BY <1>1, RefillIs
<1>3. Neighbours(node, Above(path), i, cur, d) BY <1>1, <1>2, SiblingIs
<1>4. /\ d # cur /\ d # Parent /\ cur # Parent /\ d \in DOMAIN node /\ cur \in DOMAIN node /\ Parent \in DOMAIN node
  BY <1>1, <1>3, PairIs
<1>5. Fit(cur, d, data)
  <2> HIDE DEF d, i
  <2>1. d \in {cur, d} \ {cur} /\ cur \in {cur, d} BY <1>4
  <2>2. Fit(cur, d, Merge(node[cur].data, node[d].data)) BY <2>1, <1>1, <1>3, MergeFits
  <2> QED BY <2>2
<1>6. Pruned(node, node', cur, left, Parent, top, d)
  <2>1. node' = Without([node EXCEPT ![cur] = left, ![Parent] = top], d) BY <1>5 DEF right_merge, Fit
  <2> HIDE DEF left, top, d
  <2> QED BY <2>1, <1>4, PrunedIs
<1>7. Repaired(node', root_ptr, path)
  <2> HIDE DEF d, i, data
  <2>1. Pruned(node, node', cur, LeafWith(data, node[d].next),
               Parent, Internal(RemoveAt(node[Parent].keys, i), RemoveAt(Siblings, i + 1)), d)
    BY <1>6
  <2>2. cur \in {cur, d} OBVIOUS
  <2> HIDE DEF left, top
  <2> QED BY <1>1, <1>3, <1>5, <2>1, <2>2, LeavesMerged
<1>8. pc' = "unwind" /\ cur' = Parent /\ path' = Front(path) /\ UNCHANGED <<root_ptr, request, split, result>>
  BY DEF right_merge, LeafDone
<1> QED BY <1>1, <1>2, <1>7, <1>8, RepairedStep

LEMMA UnwindIs ==
    ASSUME Inv, Repairing, HasLeft
    PROVE  /\ pc = "unwind" /\ request.op = "delete" /\ Updating /\ split = NULL_PTR /\ path # <<>> /\ path \in Seq(Frames)
           /\ cur \in Ins(node) /\ Nodes(node) /\ Chain(node)
           /\ Forest(node, root_ptr, NULL_PTR, path, cur, TRUE) /\ Ordered(node, NULL_PTR, cur)
           /\ Occupied(node, root_ptr, NULL_PTR) /\ Widths(node, cur)
           /\ Len(node[cur].keys) < HALF /\ Len(node[cur].keys) \in Nat
<1>1. At("unwind", "delete") /\ ~IsLeaf(cur) /\ isUnderflow(Len(node[cur].keys)) /\ path # <<>>
  BY DEF Repairing, TooFewKeys, HasLeft
<1>2. /\ pc = "unwind" /\ request.op = "delete" /\ Updating /\ split = NULL_PTR /\ path \in Seq(Frames)
      /\ cur \in DOMAIN node /\ Nodes(node) /\ Chain(node)
  BY <1>1 DEF Inv, Control, At, Updating
<1>3. cur \in Ins(node) BY <1>1, <1>2, LeafOrInternal
<1>4. Len(node[cur].keys) < HALF /\ Len(node[cur].keys) \in Nat
  BY <1>1, <1>2, <1>3, NodeFacts, HalfIs DEF isUnderflow
<1>5. Occupied(node, root_ptr, NULL_PTR) /\ Widths(node, cur)
  BY <1>2 DEF Inv, MayBeEmpty, MayLack, MayBeThin, At
<1>6. Forest(node, root_ptr, NULL_PTR, path, cur, TRUE) /\ Ordered(node, NULL_PTR, cur) BY <1>2 DEF Inv, Forest
<1> QED BY <1>1, <1>2, <1>3, <1>4, <1>5, <1>6

\* Two internal nodes that are neighbours, and the one below them both.
InternalPair(i, c, d) ==
    /\ c \in Ins(node) /\ d \in Ins(node) /\ c # d /\ c # Parent /\ d # Parent /\ Parent \in Ins(node)
    /\ c \in DOMAIN node /\ d \in DOMAIN node /\ Parent \in DOMAIN node
    /\ Parent = Above(path)
    /\ i \in 1 .. Len(node[Parent].keys) /\ i + 1 \in 1 .. Len(Siblings) /\ Len(Siblings) = Len(node[Parent].keys) + 1
    /\ Len(node[Parent].keys) \in Nat /\ node[Parent].keys \in Seq(Keys) /\ Siblings \in Seq(NodeIds)

LEMMA InternalPairIs ==
    ASSUME Inv, Repairing, HasLeft
    PROVE  /\ InternalPair(Frame.index - 1, LeftSibling, cur) /\ (Frame.index - 1) + 1 = Frame.index
           /\ Neighbours(node, Above(path), Frame.index - 1, LeftSibling, cur)
<1> DEFINE i == Frame.index - 1
           c == LeftSibling
           d == cur
<1>1. Neighbours(node, Above(path), i, c, d) BY UnwindIs, SiblingIs
<1>2. (Frame.index - 1) + 1 = Frame.index
  <2>1. Frame.index \in Nat BY UnwindIs, AboveIs
  <2> QED BY <2>1
<1>3. cur \in Ins(node) /\ Nodes(node) /\ Updating /\ path # <<>> /\ Forest(node, root_ptr, NULL_PTR, path, cur, TRUE)
  BY UnwindIs
<1>4. PICK h, par, slot : Shape(node, root_ptr, NULL_PTR, h, par, slot) BY <1>3 DEF Forest
<1>5. Parent = Above(path) /\ Parent \in Ins(node) /\ Parent \in DOMAIN node BY <1>3, AboveIs
<1> HIDE DEF i, c
<1>6. /\ c \in DOMAIN node /\ d \in DOMAIN node /\ c # d /\ c # Parent /\ d # Parent
      /\ (c \in Ins(node) <=> d \in Ins(node)) /\ i + 1 \in 1 .. Len(Siblings) /\ Len(Siblings) \in Nat
      /\ i \in 1 .. Len(Siblings)
  BY <1>1, <1>3, <1>4, <1>5, NeighbourFacts DEF Siblings
<1>7. /\ node[Parent].keys \in Seq(Keys) /\ Siblings \in Seq(NodeIds) /\ Len(Siblings) = Len(node[Parent].keys) + 1
      /\ Len(node[Parent].keys) \in Nat
  BY <1>3, <1>5, NodeFacts DEF Siblings
<1>8. i \in 1 .. Len(node[Parent].keys) BY <1>6, <1>7
<1>9. InternalPair(i, c, d) BY <1>3, <1>5, <1>6, <1>7, <1>8 DEF InternalPair
<1> QED BY <1>1, <1>2, <1>9 DEF i, c

OneReplaced(new, keys, i, m) ==
    /\ new \in Seq(Keys) /\ Len(new) = Len(keys) /\ \A j \in 1 .. Len(keys) : new[j] = IF j = i THEN m ELSE keys[j]

LEMMA KeyReplaced ==
    ASSUME NEW keys \in Seq(Keys), NEW i \in 1 .. Len(keys), NEW m \in Keys
    PROVE  OneReplaced(ReplaceAt(keys, i, m), keys, i, m)
<1>1. ReplaceAt(keys, i, m) \in Seq(Keys) /\ Len(ReplaceAt(keys, i, m)) = Len(keys) BY ExceptSeq DEF ReplaceAt
<1>2. \A j \in 1 .. Len(keys) : ReplaceAt(keys, i, m)[j] = IF j = i THEN m ELSE keys[j] BY ExceptSeq DEF ReplaceAt
<1> QED BY <1>1, <1>2 DEF OneReplaced

Joined(new, low, m, high) ==
    /\ new \in Seq(Keys) /\ Len(new) = Len(low) + 1 + Len(high)
    /\ \A j \in 1 .. Len(low) + 1 + Len(high) :
          new[j] = IF j < Len(low) + 1 THEN low[j] ELSE IF j = Len(low) + 1 THEN m ELSE high[j - (Len(low) + 1)]

LEMMA KeysJoined ==
    ASSUME NEW low \in Seq(Keys), NEW high \in Seq(Keys), NEW m \in Keys
    PROVE  Joined(Append(low, m) \o high, low, m, high)
BY JoinIs DEF Joined

\* Every child's keys and children written to two neighbours and the node
\* above them, and their leaves as they were.
LEMMA InternalsRotated ==
    ASSUME Inv, Repairing, HasLeft, NEW files,
           NEW c, c = LeftSibling, NEW i, i = Frame.index - 1,
           NEW kc, kc = node[c].keys, NEW qc, qc = node[c].ptrs, NEW kd, kd = node[cur].keys, NEW qd, qd = node[cur].ptrs,
           NEW kp, kp = node[Parent].keys, Len(kc) >= 2,
           Written3(node, files, c, Internal(Front(kc), Front(qc)), cur, Internal(<<kp[i]>> \o kd, <<Last(qc)>> \o qd),
                    Parent, Internal(ReplaceAt(kp, i, Last(kc)), Siblings))
    PROVE  Repaired(files, root_ptr, path)
<1> DEFINE p == Parent
           left == Internal(Front(kc), Front(qc))
           right == Internal(<<kp[i]>> \o kd, <<Last(qc)>> \o qd)
           top == Internal(ReplaceAt(kp, i, Last(kc)), Siblings)
<1>1. /\ path \in Seq(Frames) /\ path # <<>> /\ cur \in Ins(node) /\ Nodes(node) /\ Chain(node)
      /\ Forest(node, root_ptr, NULL_PTR, path, cur, TRUE) /\ Ordered(node, NULL_PTR, cur)
      /\ Occupied(node, root_ptr, NULL_PTR) /\ Widths(node, cur)
      /\ Len(kd) < HALF /\ Len(kd) \in Nat
  BY UnwindIs
<1>2. Neighbours(node, Above(path), i, c, cur) /\ InternalPair(i, c, cur) BY InternalPairIs
<1>3. /\ c \in Ins(node) /\ c # cur /\ c # p /\ cur # p /\ p \in Ins(node) /\ p = Above(path)
      /\ c \in DOMAIN node /\ cur \in DOMAIN node /\ p \in DOMAIN node
      /\ i \in 1 .. Len(kp) /\ Len(Siblings) = Len(kp) + 1 /\ Len(kp) \in Nat /\ kp \in Seq(Keys) /\ Siblings \in Seq(NodeIds)
  BY <1>2 DEF InternalPair
<1>4. /\ kc \in Seq(Keys) /\ qc \in Seq(NodeIds) /\ Len(qc) = Len(kc) + 1 /\ Len(kc) \in Nat
      /\ kd \in Seq(Keys) /\ qd \in Seq(NodeIds) /\ Len(qd) = Len(kd) + 1
  BY <1>1, <1>3, NodeFacts
<1>5. kc # <<>> /\ qc # <<>> /\ Len(qc) \in Nat /\ Len(qd) \in Nat BY <1>4
<1>6. kp[i] \in Keys /\ Last(qc) = qc[Len(qc)] /\ Last(qc) \in NodeIds /\ Last(kc) = kc[Len(qc) - 1] /\ Last(kc) \in Keys
  <2>1. Len(qc) \in 1 .. Len(qc) /\ Len(kc) \in 1 .. Len(kc) /\ Len(kc) = Len(qc) - 1 BY <1>4
  <2>2. kp[i] \in Keys /\ qc[Len(qc)] \in NodeIds /\ kc[Len(kc)] \in Keys BY <1>3, <1>4, <2>1, ElementOfSeq
  <2> QED BY <2>1, <2>2 DEF Last
<1>7. /\ Front(kc) \in Seq(Keys) /\ Len(Front(kc)) = Len(kc) - 1 /\ \A j \in 1 .. Len(kc) - 1 : Front(kc)[j] = kc[j]
      /\ Front(qc) \in Seq(NodeIds) /\ Len(Front(qc)) = Len(qc) - 1 /\ \A j \in 1 .. Len(qc) - 1 : Front(qc)[j] = qc[j]
  BY <1>4, <1>5, FrontIs
<1>8. /\ GoodNode(left) /\ left.kind # "leaf" /\ left.keys = Front(kc) /\ left.ptrs = Front(qc)
  <2>1. Len(Front(qc)) = Len(Front(kc)) + 1 BY <1>4, <1>7
  <2> QED BY <1>7, <2>1, InternalIsGood, Constructors
<1> DEFINE rk == <<kp[i]>> \o kd
           rq == <<Last(qc)>> \o qd
           tk == ReplaceAt(kp, i, Last(kc))
<1>9. /\ rk \in Seq(Keys) /\ Len(rk) = Len(kd) + 1
      /\ \A j \in 1 .. Len(kd) + 1 : rk[j] = IF j = 1 THEN kp[i] ELSE kd[j - 1]
  <2> DEFINE e == kp[i]
  <2>1. e \in Keys BY <1>6
  <2> HIDE DEF e
  <2>2. /\ <<e>> \o kd \in Seq(Keys) /\ Len(<<e>> \o kd) = Len(kd) + 1
        /\ \A j \in 1 .. Len(kd) + 1 : (<<e>> \o kd)[j] = IF j = 1 THEN e ELSE kd[j - 1]
    BY <2>1, <1>4, PrependIs
  <2> QED BY <2>2 DEF e
<1>10. /\ rq \in Seq(NodeIds) /\ Len(rq) = Len(qd) + 1
       /\ \A j \in 1 .. Len(qd) + 1 : rq[j] = IF j = 1 THEN Last(qc) ELSE qd[j - 1]
  <2> DEFINE e == Last(qc)
  <2>1. e \in NodeIds BY <1>6
  <2> HIDE DEF e
  <2>2. /\ <<e>> \o qd \in Seq(NodeIds) /\ Len(<<e>> \o qd) = Len(qd) + 1
        /\ \A j \in 1 .. Len(qd) + 1 : (<<e>> \o qd)[j] = IF j = 1 THEN e ELSE qd[j - 1]
    BY <2>1, <1>4, PrependIs
  <2> QED BY <2>2 DEF e
<1>11. /\ tk \in Seq(Keys) /\ Len(tk) = Len(kp) /\ \A j \in 1 .. Len(kp) : tk[j] = IF j = i THEN Last(kc) ELSE kp[j]
  <2>1. Last(kc) \in Keys BY <1>6
  <2>2. OneReplaced(tk, kp, i, Last(kc)) BY <2>1, <1>3, KeyReplaced
  <2> QED BY <2>2 DEF OneReplaced
<1> HIDE DEF rk, rq, tk
<1>12. GoodNode(Internal(rk, rq)) /\ Internal(rk, rq).kind # "leaf" /\ Internal(rk, rq).keys = rk /\ Internal(rk, rq).ptrs = rq
  <2>1. Len(rq) = Len(rk) + 1 BY <1>4, <1>9, <1>10
  <2> QED BY <1>9, <1>10, <2>1, InternalIsGood, Constructors
<1>13. /\ GoodNode(Internal(tk, Siblings)) /\ Internal(tk, Siblings).kind # "leaf"
       /\ Internal(tk, Siblings).keys = tk /\ Internal(tk, Siblings).ptrs = Siblings
  <2>1. Len(Siblings) = Len(tk) + 1 BY <1>3, <1>11
  <2> QED BY <1>3, <1>11, <2>1, InternalIsGood, Constructors
<1>14. right = Internal(rk, rq) /\ top = Internal(tk, Siblings) BY DEF rk, rq, tk
<1>15. Written3(node, files, c, left, cur, right, p, top) OBVIOUS
<1> HIDE DEF left, right, top, p
<1>16. /\ DOMAIN files = DOMAIN node /\ files[c] = left /\ files[cur] = right /\ files[p] = top
       /\ \A n \in DOMAIN node \ {p, c, cur} : files[n] = node[n]
  BY <1>3, <1>15 DEF Written3
<1>17. Lvs(files) = Lvs(node) /\ Ins(files) = Ins(node)
  <2>1. files[c].kind # "leaf" /\ files[cur].kind # "leaf" /\ files[p].kind # "leaf"
    BY <1>8, <1>12, <1>13, <1>14, <1>16
  <2>2. node[c].kind # "leaf" /\ node[cur].kind # "leaf" /\ node[p].kind # "leaf" BY <1>1, <1>3 DEF Ins
  <2>3. \A n \in DOMAIN node : files[n] = node[n] \/ (files[n].kind = "leaf" <=> node[n].kind = "leaf")
    BY <2>1, <2>2, <1>16
  <2> QED BY <2>3, <1>16, KindsIf
<1>18. Nodes(files)
  <2>1. GoodNode(left) /\ GoodNode(right) /\ GoodNode(top) /\ DOMAIN files \subseteq NodeIds
    BY <1>1, <1>8, <1>12, <1>13, <1>14, <1>16 DEF Nodes
  <2> QED BY <2>1, <1>1, <1>16, NodesIf
<1>19. Rotated(node, files, p, i, c, cur)
  <2>1. /\ files[c].keys = Front(kc) /\ files[c].ptrs = Front(qc) /\ files[cur].keys = rk /\ files[cur].ptrs = rq
        /\ files[p].keys = tk /\ files[p].ptrs = node[p].ptrs
    BY <1>8, <1>12, <1>13, <1>14, <1>16 DEF Siblings, p
  <2>2. node[p].keys = kp BY DEF p
  <2>3. Len(kc) - 1 = Len(qc) - 2 BY <1>4, <1>5
  <2> QED BY <2>1, <2>2, <2>3, <1>6, <1>7, <1>9, <1>10, <1>11, <1>16, <1>17 DEF Rotated
<1>20. Forest(files, root_ptr, NULL_PTR, Front(path), p, TRUE) /\ Ordered(files, NULL_PTR, p)
  <2>1. Len(node[c].ptrs) >= 2 BY <1>4
  <2>2. Neighbours(node, Above(path), i, c, cur) /\ Rotated(node, files, Above(path), i, c, cur) /\ cur \in {c, cur}
    BY <1>2, <1>3, <1>19
  <2>3. Forest(files, root_ptr, NULL_PTR, Front(path), Above(path), TRUE) /\ Ordered(files, NULL_PTR, Above(path))
    BY <2>1, <2>2, <1>1, <1>3, Rotating
  <2> QED BY <2>3, <1>3
<1>21. \A n \in Lvs(node) : files[n] = node[n] BY <1>1, <1>3, <1>16 DEF Lvs, Ins
<1>22. Chain(files) BY <1>1, <1>17, <1>21, ChainKept
<1>23. Occupied(files, root_ptr, NULL_PTR) BY <1>1, <1>17, <1>21 DEF Occupied, Pairs1
<1>24. Widths(files, p)
  <2>1. Len(kc) <= 2 * MIN_KEYS /\ Len(kp) <= 2 * MIN_KEYS BY <1>1, <1>3 DEF Widths, p
  <2>2. files[c].keys = Front(kc) /\ files[cur].keys = rk /\ files[p].keys = tk
    BY <1>8, <1>12, <1>13, <1>14, <1>16
  <2>3. Len(files[c].keys) <= 2 * MIN_KEYS /\ Len(files[c].keys) >= 1 BY <2>1, <2>2, <1>4, <1>7, HalfIs
  <2>4. Len(files[cur].keys) <= 2 * MIN_KEYS /\ Len(files[cur].keys) >= 1 BY <2>2, <1>1, <1>9, HalfIs
  <2>5. Len(files[p].keys) <= 2 * MIN_KEYS BY <2>1, <2>2, <1>11
  <2>6. \A n \in Ins(node) \ {p, c, cur} : files[n] = node[n] BY <1>16 DEF Ins
  <2> QED BY <2>3, <2>4, <2>5, <2>6, <1>1, <1>17 DEF Widths
<1>25. p \in DOMAIN files BY <1>3, <1>16
<1> QED BY <1>3, <1>18, <1>20, <1>22, <1>23, <1>24, <1>25 DEF Repaired

LEMMA leftRedistributionStep ==
    ASSUME Inv, leftRedistribution
    PROVE  Inv'
<1> DEFINE c == LeftSibling
           i == Frame.index - 1
           kc == node[c].keys
           qc == node[c].ptrs
           kd == node[cur].keys
           qd == node[cur].ptrs
           kp == node[Parent].keys
<1>1. Repairing /\ HasLeft /\ CanLendChild(c) BY DEF leftRedistribution
<1>2. pc = "unwind" /\ request.op = "delete" /\ path # <<>> /\ Nodes(node) /\ Widths(node, cur)
  BY <1>1, UnwindIs
<1>3. /\ c \in Ins(node) /\ c # cur /\ c # Parent /\ cur # Parent
      /\ c \in DOMAIN node /\ cur \in DOMAIN node /\ Parent \in DOMAIN node
  BY <1>1, InternalPairIs DEF InternalPair
<1>4. Len(kc) >= 2
  <2>1. Len(kc) >= 1 /\ Len(kc) \in Nat BY <1>2, <1>3, NodeFacts DEF Widths
  <2>2. ~isUnderflow(Len(kc) - 1) BY <1>1 DEF CanLendChild
  <2> HIDE DEF kc
  <2> QED BY <2>1, <2>2, HalfIs DEF isUnderflow
<1>5. Written3(node, node', c, Internal(Front(kc), Front(qc)), cur, Internal(<<kp[i]>> \o kd, <<Last(qc)>> \o qd),
               Parent, Internal(ReplaceAt(kp, i, Last(kc)), Siblings))
  <2> DEFINE x == Internal(Front(kc), Front(qc))
             y == Internal(<<kp[i]>> \o kd, <<Last(qc)>> \o qd)
             z == Internal(ReplaceAt(kp, i, Last(kc)), Siblings)
  <2>1. node' = [node EXCEPT ![c] = x, ![cur] = y, ![Parent] = z] BY DEF leftRedistribution
  <2> SUFFICES Written3(node, node', c, x, cur, y, Parent, z) OBVIOUS
  <2> HIDE DEF c, x, y, z
  <2> QED BY <2>1, <1>3, Updated3
<1>6. Repaired(node', root_ptr, path)
  <2>1. c = LeftSibling /\ i = Frame.index - 1 OBVIOUS
  <2>2. kc = node[c].keys /\ qc = node[c].ptrs /\ kd = node[cur].keys /\ qd = node[cur].ptrs /\ kp = node[Parent].keys
    OBVIOUS
  <2> HIDE DEF c, i, kc, qc, kd, qd, kp
  <2> QED BY <2>1, <2>2, <1>1, <1>4, <1>5, InternalsRotated
<1>7. pc' = "unwind" /\ cur' = Parent /\ path' = Front(path) /\ UNCHANGED <<root_ptr, request, split, result>>
  BY <1>2 DEF leftRedistribution
<1> QED BY <1>2, <1>6, <1>7, RepairedStep

LEMMA InternalsMerged ==
    ASSUME Inv, Repairing, HasLeft, NEW files,
           NEW c, c = LeftSibling, NEW i, i = Frame.index - 1,
           NEW kc, kc = node[c].keys, NEW qc, qc = node[c].ptrs, NEW kd, kd = node[cur].keys, NEW qd, qd = node[cur].ptrs,
           NEW kp, kp = node[Parent].keys, Len(kc) <= MIN_KEYS,
           Pruned(node, files, c, Internal(Append(kc, kp[i]) \o kd, qc \o qd),
                  Parent, Internal(RemoveAt(kp, i), RemoveAt(Siblings, i + 1)), cur)
    PROVE  Repaired(files, root_ptr, path)
<1> DEFINE p == Parent
           lk == Append(kc, kp[i]) \o kd
           lq == qc \o qd
           left == Internal(lk, lq)
           top == Internal(RemoveAt(kp, i), RemoveAt(Siblings, i + 1))
<1>1. /\ path \in Seq(Frames) /\ path # <<>> /\ cur \in Ins(node) /\ Nodes(node) /\ Chain(node)
      /\ Forest(node, root_ptr, NULL_PTR, path, cur, TRUE) /\ Ordered(node, NULL_PTR, cur)
      /\ Occupied(node, root_ptr, NULL_PTR) /\ Widths(node, cur)
      /\ Len(kd) < HALF /\ Len(kd) \in Nat
  BY UnwindIs
<1>2. Neighbours(node, Above(path), i, c, cur) /\ InternalPair(i, c, cur) BY InternalPairIs
<1>3. /\ c \in Ins(node) /\ c # cur /\ c # p /\ cur # p /\ p \in Ins(node) /\ p = Above(path)
      /\ c \in DOMAIN node /\ cur \in DOMAIN node /\ p \in DOMAIN node
      /\ i \in 1 .. Len(kp) /\ Len(Siblings) = Len(kp) + 1 /\ Len(kp) \in Nat /\ kp \in Seq(Keys) /\ Siblings \in Seq(NodeIds)
  BY <1>2 DEF InternalPair
<1>4. /\ kc \in Seq(Keys) /\ qc \in Seq(NodeIds) /\ Len(qc) = Len(kc) + 1 /\ Len(kc) \in Nat
      /\ kd \in Seq(Keys) /\ qd \in Seq(NodeIds) /\ Len(qd) = Len(kd) + 1
  BY <1>1, <1>3, NodeFacts
<1>5. kp[i] \in Keys BY <1>3, ElementOfSeq
<1>6. /\ lk \in Seq(Keys) /\ Len(lk) = Len(kc) + 1 + Len(kd)
      /\ \A j \in 1 .. Len(kc) + 1 + Len(kd) :
            lk[j] = IF j < Len(kc) + 1 THEN kc[j] ELSE IF j = Len(kc) + 1 THEN kp[i] ELSE kd[j - (Len(kc) + 1)]
  <2>1. Joined(lk, kc, kp[i], kd) BY <1>4, <1>5, KeysJoined
  <2> QED BY <2>1 DEF Joined
<1>7. /\ lq \in Seq(NodeIds) /\ Len(lq) = Len(qc) + Len(qd)
      /\ \A j \in 1 .. Len(qc) + Len(qd) : lq[j] = IF j <= Len(qc) THEN qc[j] ELSE qd[j - Len(qc)]
  <2>1. qc \in Seq(NodeIds) /\ qd \in Seq(NodeIds) BY <1>4
  <2>2. /\ qc \o qd \in Seq(NodeIds) /\ Len(qc \o qd) = Len(qc) + Len(qd)
        /\ \A j \in 1 .. Len(qc) + Len(qd) : (qc \o qd)[j] = IF j <= Len(qc) THEN qc[j] ELSE qd[j - Len(qc)]
    BY <2>1, ConcatIs, ZenonT(40)
  <2> QED BY <2>2
<1> HIDE DEF lk, lq, p
<1>8. GoodNode(left) /\ left.kind # "leaf" /\ left.keys = lk /\ left.ptrs = lq
  <2>1. Len(lk) = Len(kc) + 1 + Len(kd) /\ Len(lq) = Len(qc) + Len(qd) /\ lk \in Seq(Keys) /\ lq \in Seq(NodeIds)
    BY <1>6, <1>7
  <2>2. Len(qc) = Len(kc) + 1 /\ Len(qd) = Len(kd) + 1 /\ Len(kc) \in Nat /\ Len(kd) \in Nat BY <1>1, <1>4
  <2>3. Len(lq) = Len(lk) + 1
    <3> DEFINE a == Len(kc)
               b == Len(kd)
               m == Len(qc)
               n == Len(qd)
               x == Len(lk)
               y == Len(lq)
    <3>1. x = a + 1 + b /\ y = m + n /\ m = a + 1 /\ n = b + 1 /\ a \in Nat /\ b \in Nat BY <2>1, <2>2
    <3> SUFFICES y = x + 1 OBVIOUS
    <3> HIDE DEF a, b, m, n, x, y
    <3> QED BY <3>1
  <2>4. GoodNode(Internal(lk, lq)) /\ Internal(lk, lq).kind # "leaf" BY <2>1, <2>3, InternalIsGood
  <2> QED BY <2>4, Constructors
<1>9. /\ GoodNode(top) /\ top.kind # "leaf" /\ Len(top.ptrs) = Len(Siblings) - 1 /\ Len(top.keys) = Len(kp) - 1
      /\ \A j \in 1 .. Len(Siblings) - 1 : top.ptrs[j] = IF j < i + 1 THEN Siblings[j] ELSE Siblings[j + 1]
      /\ \A j \in 1 .. Len(kp) - 1 : top.keys[j] = IF j < i THEN kp[j] ELSE kp[j + 1]
  BY <1>3, SiblingsLess
<1>10. Pruned(node, files, c, left, p, top, cur) BY DEF lk, lq, p
<1> HIDE DEF left, top
<1>11. /\ DOMAIN files = DOMAIN node \ {cur} /\ files[c] = left /\ files[p] = top
       /\ \A n \in DOMAIN node \ {p, c, cur} : files[n] = node[n]
  BY <1>10 DEF Pruned
<1>12. Lvs(files) = Lvs(node) \ {cur} /\ Ins(files) = Ins(node) \ {cur} /\ Lvs(files) = Lvs(node)
  <2>1. files[c].kind # "leaf" /\ node[c].kind # "leaf" /\ files[p].kind # "leaf" /\ node[p].kind # "leaf"
    BY <1>3, <1>8, <1>9, <1>11 DEF Ins
  <2>2. \A n \in DOMAIN files : files[n].kind = "leaf" <=> node[n].kind = "leaf" BY <2>1, <1>11
  <2>3. cur \notin Lvs(node) BY <1>1 DEF Lvs, Ins
  <2> QED BY <2>2, <2>3, <1>11 DEF Lvs, Ins
<1>13. Nodes(files)
  <2>1. GoodNode(left) /\ GoodNode(top) /\ DOMAIN files \subseteq NodeIds BY <1>1, <1>8, <1>9, <1>11 DEF Nodes
  <2> QED BY <2>1, <1>1, <1>11, NodesIf
<1>14. Merged(node, files, p, i, c, cur)
  <2>1. files[c].keys = lk /\ files[c].ptrs = lq /\ node[p].keys = kp /\ node[p].ptrs = Siblings
    BY <1>8, <1>11 DEF Siblings, p
  <2>2. /\ Len(files[p].ptrs) = Len(node[p].ptrs) - 1 /\ Len(files[p].keys) = Len(node[p].keys) - 1
        /\ \A j \in 1 .. Len(node[p].ptrs) - 1 : files[p].ptrs[j] = IF j < i + 1 THEN node[p].ptrs[j] ELSE node[p].ptrs[j + 1]
        /\ \A j \in 1 .. Len(node[p].keys) - 1 : files[p].keys[j] = IF j < i THEN node[p].keys[j] ELSE node[p].keys[j + 1]
    BY <2>1, <1>9, <1>11
  <2>3. /\ Len(lk) = Len(qc) + Len(kd)
        /\ \A j \in 1 .. Len(qc) + Len(kd) :
              lk[j] = IF j < Len(qc) THEN kc[j] ELSE IF j = Len(qc) THEN kp[i] ELSE kd[j - Len(qc)]
    BY <1>4, <1>6, ZenonT(30)
  <2> QED BY <2>1, <2>2, <2>3, <1>7, <1>11, <1>12, ZenonT(40) DEF Merged
<1>15. Forest(files, root_ptr, NULL_PTR, Front(path), p, TRUE) /\ Ordered(files, NULL_PTR, p)
  <2>1. c \notin Lvs(node) BY <1>3 DEF Lvs, Ins
  <2>2. Neighbours(node, Above(path), i, c, cur) /\ Merged(node, files, Above(path), i, c, cur) /\ cur \in {c, cur}
    BY <1>2, <1>3, <1>14
  <2>3. Forest(files, root_ptr, NULL_PTR, Front(path), Above(path), TRUE) /\ Ordered(files, NULL_PTR, Above(path))
    BY <2>1, <2>2, <1>1, Merging
  <2> QED BY <2>3, <1>3
<1>16. \A n \in Lvs(node) : files[n] = node[n] BY <1>1, <1>3, <1>11 DEF Lvs, Ins
<1>17. Chain(files) BY <1>1, <1>12, <1>16, ChainKept
<1>18. Occupied(files, root_ptr, NULL_PTR) BY <1>1, <1>12, <1>16 DEF Occupied, Pairs1
<1>19. Widths(files, p)
  <2>1. Len(kp) <= 2 * MIN_KEYS BY <1>1, <1>3 DEF Widths, p
  <2>2. files[c].keys = lk BY <1>8, <1>11
  <2>3. Len(files[c].keys) <= 2 * MIN_KEYS /\ Len(files[c].keys) >= 1
    <3>1. Len(lk) = Len(kc) + 1 + Len(kd) /\ Len(kc) \in Nat /\ Len(kd) \in Nat /\ Len(kc) <= MIN_KEYS /\ Len(kd) < HALF
      BY <1>1, <1>4, <1>6
    <3>2. Len(lk) <= 2 * MIN_KEYS /\ Len(lk) >= 1
      <4> DEFINE a == Len(kc)
                 b == Len(kd)
                 x == Len(lk)
      <4>1. x = a + 1 + b /\ a \in Nat /\ b \in Nat /\ a <= MIN_KEYS /\ b < HALF BY <3>1
      <4> SUFFICES x <= 2 * MIN_KEYS /\ x >= 1 OBVIOUS
      <4> HIDE DEF a, b, x
      <4> QED BY <4>1, HalfIs
    <3> QED BY <2>2, <3>2
  <2>4. Len(files[p].keys) <= 2 * MIN_KEYS BY <2>1, <1>3, <1>9, <1>11, HalfIs
  <2>5. \A n \in Ins(node) \ {p, c, cur} : files[n] = node[n] BY <1>11 DEF Ins
  <2> QED BY <2>3, <2>4, <2>5, <1>1, <1>12 DEF Widths
<1>20. p \in DOMAIN files BY <1>3, <1>11
<1> QED BY <1>3, <1>13, <1>15, <1>17, <1>18, <1>19, <1>20 DEF Repaired

LEMMA leftMergeStep ==
    ASSUME Inv, leftMerge
    PROVE  Inv'
<1> DEFINE c == LeftSibling
           i == Frame.index - 1
           kc == node[c].keys
           qc == node[c].ptrs
           kd == node[cur].keys
           qd == node[cur].ptrs
           kp == node[Parent].keys
<1>1. Repairing /\ HasLeft /\ ~CanLendChild(c) BY DEF leftMerge
<1>2. pc = "unwind" /\ request.op = "delete" /\ path # <<>> /\ Nodes(node) BY <1>1, UnwindIs
<1>3. /\ c \in Ins(node) /\ c # cur /\ c # Parent /\ cur # Parent /\ i + 1 = Frame.index
      /\ c \in DOMAIN node /\ cur \in DOMAIN node /\ Parent \in DOMAIN node
  BY <1>1, InternalPairIs DEF InternalPair
<1>4. Len(kc) <= MIN_KEYS
  <2>1. Len(kc) \in Nat BY <1>2, <1>3, NodeFacts
  <2>2. isUnderflow(Len(kc) - 1) BY <1>1 DEF CanLendChild
  <2> HIDE DEF kc
  <2> QED BY <2>1, <2>2, HalfIs DEF isUnderflow
<1>5. Pruned(node, node', c, Internal(Append(kc, kp[i]) \o kd, qc \o qd),
             Parent, Internal(RemoveAt(kp, i), RemoveAt(Siblings, i + 1)), cur)
  <2> DEFINE x == Internal(Append(kc, kp[i]) \o kd, qc \o qd)
             y == Internal(RemoveAt(kp, i), RemoveAt(Siblings, i + 1))
  <2>1. node' = Without([node EXCEPT ![c] = x, ![Parent] = y], cur) BY <1>3 DEF leftMerge
  <2> SUFFICES Pruned(node, node', c, x, Parent, y, cur) OBVIOUS
  <2> HIDE DEF c, x, y
  <2> QED BY <2>1, <1>3, PrunedIs
<1>6. Repaired(node', root_ptr, path)
  <2>1. c = LeftSibling /\ i = Frame.index - 1 OBVIOUS
  <2>2. kc = node[c].keys /\ qc = node[c].ptrs /\ kd = node[cur].keys /\ qd = node[cur].ptrs /\ kp = node[Parent].keys
    OBVIOUS
  <2> HIDE DEF c, i, kc, qc, kd, qd, kp
  <2> QED BY <2>1, <2>2, <1>1, <1>4, <1>5, InternalsMerged
<1>7. pc' = "unwind" /\ cur' = Parent /\ path' = Front(path) /\ UNCHANGED <<root_ptr, request, split, result>>
  BY <1>2 DEF leftMerge
<1> QED BY <1>2, <1>6, <1>7, RepairedStep

-----------------------------------------------------------------------------
(* Every step *)

LEMMA StutterStep ==
    ASSUME Inv, UNCHANGED vars
    PROVE  Inv'
<1>1. /\ node' = node /\ root_ptr' = root_ptr /\ pc' = pc /\ request' = request /\ cur' = cur /\ path' = path
      /\ split' = split /\ result' = result
  BY DEF vars
<1>2. Control'
  <2>1. Lacks(node', cur') = Lacks(node, cur) /\ Lvs(node') = Lvs(node) BY <1>1
  <2>2. HasLeft' = HasLeft /\ HasRight' = HasRight BY <1>1 DEF HasLeft, HasRight, Siblings, Parent, Frame
  <2>3. Control BY DEF Inv
  <2> QED BY <1>1, <2>1, <2>2, <2>3 DEF Control, At
<1>3. Updating' = Updating /\ MayBeEmpty' = MayBeEmpty /\ MayLack' = MayLack /\ MayBeThin' = MayBeThin
  BY <1>1 DEF Updating, MayBeEmpty, MayLack, MayBeThin, At
<1>4. Guided' /\ Roomy'
  <2>1. Guided /\ Roomy BY DEF Inv
  <2> QED BY <1>1, <1>3, <2>1 DEF Guided, Roomy, At
<1> QED BY <1>1, <1>2, <1>3, <1>4 DEF Inv

LEMMA RequestsAre ==
    /\ \A k \in Keys, rp \in RecordPtrs : [op |-> "insert", lo |-> k, ptr |-> rp] \in Requests
    /\ \A k \in Keys : [op |-> "delete", lo |-> k] \in Requests
    /\ \A k, l \in Keys : [op |-> "range", lo |-> k, hi |-> l] \in Requests
BY DEF Requests

LEMMA NextStep ==
    ASSUME Inv, Next, ~DuplicateInserts
    PROVE  Inv'
<1>1. ASSUME NEW entry \in Entries, BeginInsert(entry[1], entry[2]) PROVE Inv'
  <2> DEFINE req == [op |-> "insert", lo |-> entry[1], ptr |-> entry[2]]
  <2>1. entry[1] \in Keys /\ entry[2] \in RecordPtrs BY <1>1, EntriesAssumption
  <2>2. req \in Requests BY <2>1, RequestsAre
  <2>3. Begin(req) /\ MayInsert(req.lo) BY <1>1 DEF BeginInsert
  <2> HIDE DEF req
  <2> QED BY <2>2, <2>3, BeginStep
<1>2. ASSUME NEW k \in Keys, BeginDelete(k) PROVE Inv'
  <2> DEFINE req == [op |-> "delete", lo |-> k]
  <2>1. req \in Requests /\ Begin(req) /\ req.op # "insert" BY <1>2, RequestsAre DEF BeginDelete
  <2> HIDE DEF req
  <2> QED BY <2>1, BeginStep
<1>3. ASSUME NEW range \in KeyRanges, BeginRange(range[1], range[2]) PROVE Inv'
  <2> DEFINE req == [op |-> "range", lo |-> range[1], hi |-> range[2]]
  <2>1. range[1] \in Keys /\ range[2] \in Keys BY <1>3, KeyRangesAssumption
  <2>2. req \in Requests /\ Begin(req) /\ req.op # "insert" BY <1>3, <2>1, RequestsAre DEF BeginRange
  <2> HIDE DEF req
  <2> QED BY <2>2, BeginStep
<1>4. ASSUME insert_key PROVE Inv'
  BY <1>4, insertIntoCurrentLeafStep, splitLeafNodeStep, insert_into_existing_nodeStep, split_and_create_new_nodeStep,
     GrowRootStep DEF insert_key
<1>5. ASSUME delete_key PROVE Inv'
  BY <1>5, EraseFromLeafStep, left_redistributionStep, left_mergeStep, right_redistributionStep, right_mergeStep,
     ReturnToParentStep, leftRedistributionStep, leftMergeStep, LeftSiblingMissingStep, ShrinkRootStep DEF delete_key
<1>6. ASSUME Work PROVE Inv' BY <1>4, <1>5, <1>6, DescendStep, RangeLeafStep DEF Work
<1> QED BY <1>1, <1>2, <1>3, <1>6 DEF Next

\* The invariant of the tree, and of the call that walks through it, holds in
\* every state, as long as no key is inserted twice.
THEOREM TreeInvariant == ~DuplicateInserts /\ Spec => []Inv
<1> SUFFICES ASSUME ~DuplicateInserts PROVE Spec => []Inv OBVIOUS
<1>1. Init => Inv BY Initially
<1>2. Inv /\ [Next]_vars => Inv' BY NextStep, StutterStep
<1> QED BY <1>1, <1>2, PTL DEF Spec

-----------------------------------------------------------------------------
(* What the invariant implies *)

LEMMA RootAndSplit ==
    ASSUME Inv
    PROVE  root_ptr \in DOMAIN node /\ root_ptr \in NodeIds /\ split \in DOMAIN node \cup {NULL_PTR}
           /\ DOMAIN node \subseteq NodeIds /\ Nodes(node)
<1>1. Nodes(node) /\ DOMAIN node \subseteq NodeIds BY DEF Inv, Nodes
<1>2. root_ptr \in DOMAIN node /\ split \in DOMAIN node \cup {NULL_PTR} BY DEF Inv, Forest, Shape
<1> QED BY <1>1, <1>2

LEMMA TypeOKIs == Inv => TypeOK
<1> SUFFICES ASSUME Inv PROVE TypeOK OBVIOUS
<1>1. /\ Nodes(node) /\ DOMAIN node \subseteq NodeIds /\ root_ptr \in NodeIds /\ split \in NodeIds \cup {NULL_PTR}
  BY RootAndSplit
<1>2. ASSUME NEW n \in DOMAIN node, n \in Lvs(node)
      PROVE  /\ node[n].kind = "leaf" /\ node[n].size \in Nat /\ DOMAIN node[n].data \subseteq Keys
             /\ Range(node[n].data) \subseteq RecordPtrs /\ node[n].next \in NodeIds \cup {NULL_PTR}
  <2>1. node[n].kind = "leaf" BY <1>2 DEF Lvs
  <2>2. /\ node[n].size \in Nat /\ DOMAIN node[n].data \subseteq Keys /\ node[n].next \in NodeIds \cup {NULL_PTR}
        /\ node[n].data \in [DOMAIN node[n].data -> RecordPtrs]
    BY <1>1, <1>2, LeafFacts DEF LeafNode
  <2>3. Range(node[n].data) \subseteq RecordPtrs BY <2>2 DEF Range
  <2> QED BY <2>1, <2>2, <2>3
<1>3. ASSUME NEW n \in DOMAIN node, n \in Ins(node)
      PROVE  node[n].kind = "internal" /\ node[n].keys \in Seq(Keys) /\ node[n].ptrs \in Seq(NodeIds)
  BY <1>1, <1>3 DEF Nodes, InternalNode
<1>4. Control BY DEF Inv
<1>5. cur \in NodeIds \cup {NULL_PTR} BY <1>1, <1>4 DEF Control
<1>6. \A n \in DOMAIN node : n \in Lvs(node) \/ n \in Ins(node) BY Kinds
<1> QED BY <1>1, <1>2, <1>3, <1>4, <1>5, <1>6 DEF TypeOK, Control

LEMMA StackIsPathIs == Inv => StackIsPath
<1> SUFFICES ASSUME Inv, request.op \in {"insert", "delete"}, pc # "crashed" PROVE StackIsPath
  BY DEF StackIsPath
<1> DEFINE walk == Append([i \in DOMAIN path |-> path[i].node], cur)
<1>1. Updating /\ path \in Seq(Frames) /\ Nodes(node) BY DEF Updating, Inv, Control
<1>2. PICK h, par, slot : Shape(node, root_ptr, split, h, par, slot) /\ Stack(node, root_ptr, path, cur, h)
  BY <1>1 DEF Inv, Forest
<1>3. DOMAIN path = 1 .. Len(path) /\ Len(path) \in Nat /\ path \in [1 .. Len(path) -> Frames]
  BY <1>1, LenProperties
<1>4. \A i \in 1 .. Len(path) + 1 : walk[i] = Step(path, cur, i)
  <2> DEFINE nodes == [i \in DOMAIN path |-> path[i].node]
  <2>1. nodes = [i \in 1 .. Len(path) |-> path[i].node] /\ \A i \in 1 .. Len(path) : path[i].node \in NodeIds
    BY <1>3 DEF Frames
  <2>2. nodes \in Seq(NodeIds) /\ Len(nodes) = Len(path) /\ \A i \in 1 .. Len(path) : nodes[i] = path[i].node
    BY <1>3, <2>1
  <2> HIDE DEF nodes
  <2>3. ASSUME NEW i \in 1 .. Len(path) + 1
        PROVE  Append(nodes, cur)[i] = IF i <= Len(path) THEN path[i].node ELSE cur
    <3>1. i \in 1 .. Len(nodes) + 1 /\ Len(nodes) \in Nat BY <2>2, <1>3
    <3>2. Append(nodes, cur)[i] = IF i = Len(nodes) + 1 THEN cur ELSE nodes[i] BY <3>1, <2>2
    <3> QED BY <3>1, <3>2, <2>2, <1>3
  <2> QED BY <2>3 DEF nodes, Step
<1> HIDE DEF walk
<1>5. walk[1] = root_ptr
  <2>1. 1 \in 1 .. Len(path) + 1 BY <1>3
  <2> QED BY <2>1, <1>2, <1>4 DEF Stack
<1>6. ASSUME NEW i \in DOMAIN path
      PROVE  /\ walk[i] \in Internals
             /\ path[i].index \in DOMAIN node[walk[i]].ptrs
             /\ node[walk[i]].ptrs[path[i].index] = walk[i + 1]
             /\ walk[i] = path[i].node
  <2>1. i \in 1 .. Len(path) /\ i \in 1 .. Len(path) + 1 /\ i + 1 \in 1 .. Len(path) + 1 BY <1>3
  <2>2. walk[i] = path[i].node /\ walk[i + 1] = Step(path, cur, i + 1) BY <2>1, <1>4 DEF Step
  <2>3. /\ path[i].node \in Ins(node) /\ path[i].index \in 1 .. Len(node[path[i].node].ptrs)
        /\ node[path[i].node].ptrs[path[i].index] = Step(path, cur, i + 1)
    BY <2>1, <1>2 DEF Stack, FrameOf
  <2>4. DOMAIN node[path[i].node].ptrs = 1 .. Len(node[path[i].node].ptrs)
    BY <2>3, <1>1, NodeFacts, LenProperties
  <2> QED BY <2>2, <2>3, <2>4, LeafOrInternal
<1>7. At("descend", "insert") => \A i \in DOMAIN path : path[i].index = ChildIndex(walk[i], request.lo)
  <2> SUFFICES ASSUME At("descend", "insert"), NEW i \in DOMAIN path
               PROVE  path[i].index = ChildIndex(walk[i], request.lo)
    OBVIOUS
  <2>1. Sought(node, path, request.lo) BY <1>1 DEF Inv, Guided, At
  <2> QED BY <2>1, <1>3, <1>6 DEF Sought, ChildIndex
<1>8. /\ walk[1] = root_ptr
      /\ \A i \in DOMAIN path :
            /\ walk[i] \in Internals
            /\ path[i].index \in DOMAIN node[walk[i]].ptrs
            /\ node[walk[i]].ptrs[path[i].index] = walk[i + 1]
      /\ At("descend", "insert") => \A i \in DOMAIN path : path[i].index = ChildIndex(walk[i], request.lo)
  BY <1>5, <1>6, <1>7
<1> QED BY <1>8 DEF StackIsPath, walk

LEMMA LeafOccupancyIs == Inv => LeafOccupancy
<1> SUFFICES ASSUME Inv PROVE LeafOccupancy OBVIOUS
<1> SUFFICES ASSUME NEW n \in Leaves
             PROVE  /\ node[n].size = Cardinality(DOMAIN node[n].data) /\ Cardinality(DOMAIN node[n].data) <= FANOUT
                    /\ \/ n = root_ptr
                       \/ HALF <= Cardinality(DOMAIN node[n].data)
                       \/ pc = "refill" /\ n = cur /\ HALF = Cardinality(DOMAIN node[n].data) + 1
  BY DEF LeafOccupancy
<1>1. n \in Lvs(node) /\ n # NULL_PTR BY LeafOrInternal, NoNull DEF Inv, Lvs
<1>2. /\ node[n].size = Pairs1(node, n) /\ Pairs1(node, n) <= FANOUT
      /\ n = MayBeEmpty \/ HALF <= Pairs1(node, n) \/ (n = MayLack /\ HALF = Pairs1(node, n) + 1)
  BY <1>1 DEF Inv, Occupied
<1> QED BY <1>1, <1>2 DEF Pairs1, MayBeEmpty, MayLack

LEMMA NodeWidthIs == Inv => NodeWidth
<1> SUFFICES ASSUME Inv, pc = "idle", NEW n \in Internals
             PROVE  2 <= Len(node[n].ptrs) /\ Len(node[n].ptrs) <= 2 * MIN_KEYS + 1
  BY DEF NodeWidth
<1>1. n \in Ins(node) /\ n # NULL_PTR /\ Nodes(node) BY LeafOrInternal, NoNull DEF Inv, Ins
<1>2. MayBeThin = NULL_PTR BY DEF MayBeThin, At
<1>3. Len(node[n].keys) <= 2 * MIN_KEYS /\ Len(node[n].keys) >= 1 BY <1>1, <1>2 DEF Inv, Widths
<1>4. Len(node[n].ptrs) = Len(node[n].keys) + 1 /\ Len(node[n].keys) \in Nat BY <1>1, NodeFacts
<1> QED BY <1>3, <1>4, HalfIs

LEMMA NextIsSuccessorIs == Inv => NextIsSuccessor
<1> SUFFICES ASSUME Inv, NEW n \in Leaves, node[n].next # NULL_PTR
             PROVE  /\ node[n].next \in Leaves
                    /\ Max(DOMAIN node[n].data) < Min(DOMAIN node[node[n].next].data)
                    /\ \A k \in StoredKeys :
                          k <= Max(DOMAIN node[n].data) \/ k >= Min(DOMAIN node[node[n].next].data)
  BY DEF NextIsSuccessor
<1> DEFINE m == node[n].next
<1>1. n \in Lvs(node) /\ Follows(node, n, m) /\ Nodes(node) BY LeafOrInternal DEF Inv, Chain
<1>2. m \in Lvs(node) \ {n} /\ Lt(node, n, m) /\ \A l \in Lvs(node) \ {n, m} : Lt(node, l, n) \/ Lt(node, m, l)
  BY <1>1 DEF Follows
<1>3. Filled(node)
  <2>1. CASE root_ptr \in Ins(node) \/ split # NULL_PTR BY <2>1, FilledIs
  <2>2. CASE ~(root_ptr \in Ins(node) \/ split # NULL_PTR)
    <3>1. root_ptr \in Lvs(node) /\ split = NULL_PTR BY <2>2, RootAndSplit, Kinds
    <3>2. PICK h, par, slot : Shape(node, root_ptr, NULL_PTR, h, par, slot) BY <3>1 DEF Inv, Forest
    <3>3. DOMAIN node = {root_ptr} BY <3>1, <3>2, <1>1, OnlyLeaf
    <3> QED BY <3>3, <1>1, <1>2 DEF Lvs
  <2> QED BY <2>1, <2>2
<1>4. /\ DOMAIN node[n].data \in SUBSET Nat /\ IsFiniteSet(DOMAIN node[n].data) /\ DOMAIN node[n].data # {}
      /\ DOMAIN node[m].data \in SUBSET Nat /\ IsFiniteSet(DOMAIN node[m].data) /\ DOMAIN node[m].data # {}
  BY <1>1, <1>2, <1>3, LeafFacts DEF Filled
<1> HIDE DEF m
<1> DEFINE top == Max(DOMAIN node[n].data)
           low == Min(DOMAIN node[m].data)
<1>5. top \in DOMAIN node[n].data /\ \A x \in DOMAIN node[n].data : x <= top BY <1>4, MaxIs
<1>6. low \in DOMAIN node[m].data /\ \A x \in DOMAIN node[m].data : low <= x BY <1>4, MinIs
<1> HIDE DEF top, low
<1>7. top < low BY <1>2, <1>5, <1>6 DEF Lt
<1>8. ASSUME NEW k \in StoredKeys PROVE k <= top \/ k >= low
  <2>1. PICK l \in Lvs(node) : k \in DOMAIN node[l].data BY LeafOrInternal DEF Stored
  <2>2. k \in Nat /\ top \in Nat /\ low \in Nat BY <1>1, <1>4, <1>5, <1>6, <2>1, LeafFacts
  <2>3. CASE l = n BY <2>1, <2>3, <1>5
  <2>4. CASE l = m BY <2>1, <2>2, <2>4, <1>6
  <2>5. CASE l \notin {n, m}
    <3>1. k < top \/ low < k BY <2>1, <2>5, <1>2, <1>5, <1>6 DEF Lt
    <3> QED BY <3>1, <2>2
  <2> QED BY <2>3, <2>4, <2>5
<1>9. m \in Leaves BY <1>2, LeafOrInternal
<1>10. m \in Leaves /\ top < low /\ \A k \in StoredKeys : k <= top \/ k >= low BY <1>7, <1>8, <1>9
<1> QED BY <1>10 DEF m, top, low

-----------------------------------------------------------------------------
(* The nodes at each depth *)

Offspring(S) == UNION {Children(n) : n \in S}

\* The levels below tops, down to depth k.
LevelsTo(f, tops, k) == \A d \in 0 .. k : f[d] = IF d = 0 THEN tops ELSE Offspring(f[d - 1])

LevelsOf(f, tops, k) == f = [d \in 0 .. k |-> IF d = 0 THEN tops ELSE UNION {Children(n) : n \in f[d - 1]}]

LEMMA LevelsExist ==
    ASSUME NEW tops, NEW k \in Nat
    PROVE  \E f : LevelsOf(f, tops, k)
<1> DEFINE S == {m \in Nat : \E f : LevelsTo(f, tops, m)}
<1>1. 0 \in S
  <2> DEFINE f == [d \in 0 .. 0 |-> tops]
  <2>1. LevelsTo(f, tops, 0) BY DEF LevelsTo
  <2> HIDE DEF f
  <2> QED BY <2>1
<1>2. ASSUME NEW m \in S PROVE m + 1 \in S
  <2>1. PICK f : LevelsTo(f, tops, m) OBVIOUS
  <2>2. m \in Nat OBVIOUS
  <2> DEFINE g == [d \in 0 .. m + 1 |-> IF d <= m THEN f[d] ELSE Offspring(f[m])]
  <2>3. ASSUME NEW d \in 0 .. m + 1 PROVE g[d] = IF d = 0 THEN tops ELSE Offspring(g[d - 1])
    <3>1. CASE d = 0
      <4>1. g[0] = f[0] /\ f[0] = tops BY <2>1, <2>2 DEF LevelsTo
      <4> QED BY <3>1, <4>1
    <3>2. CASE d # 0 /\ d <= m
      <4>1. g[d] = f[d] /\ g[d - 1] = f[d - 1] /\ d \in 0 .. m BY <2>2, <3>2
      <4>2. f[d] = Offspring(f[d - 1]) BY <2>1, <3>2, <4>1 DEF LevelsTo
      <4> QED BY <3>2, <4>1, <4>2
    <3>3. CASE d = m + 1
      <4>1. d # 0 /\ d - 1 = m /\ g[d] = Offspring(f[m]) /\ g[m] = f[m] BY <2>2, <3>3
      <4> HIDE DEF g
      <4> QED BY <4>1
    <3> QED BY <2>2, <3>1, <3>2, <3>3
  <2> HIDE DEF g
  <2>4. LevelsTo(g, tops, m + 1) BY <2>3 DEF LevelsTo
  <2> QED BY <2>2, <2>4
<1>3. S = Nat
  <2> HIDE DEF S
  <2>1. S \in SUBSET Nat BY DEF S
  <2> QED BY <2>1, <1>1, <1>2, Induction
<1>4. PICK f : LevelsTo(f, tops, k) BY <1>3
<1> DEFINE g == [d \in 0 .. k |-> f[d]]
<1>5. g = [d \in 0 .. k |-> IF d = 0 THEN tops ELSE UNION {Children(n) : n \in g[d - 1]}]
  <2>1. ASSUME NEW d \in 0 .. k PROVE f[d] = IF d = 0 THEN tops ELSE UNION {Children(n) : n \in g[d - 1]}
    <3>1. CASE d = 0 BY <3>1, <1>4 DEF LevelsTo
    <3>2. CASE d # 0
      <4>1. d - 1 \in 0 .. k BY <3>2
      <4> QED BY <3>2, <4>1, <1>4 DEF LevelsTo, Offspring
    <3> QED BY <3>1, <3>2
  <2> QED BY <2>1
<1> HIDE DEF g
<1> QED BY <1>5 DEF LevelsOf

Depth == Cardinality(DOMAIN node)

LEMMA LevelsAre ==
    ASSUME NEW tops, Depth \in Nat
    PROVE  /\ DOMAIN Levels(tops) = 0 .. Depth /\ Levels(tops)[0] = tops
           /\ \A d \in 1 .. Depth : Levels(tops)[d] = Offspring(Levels(tops)[d - 1])
<1> DEFINE R(f) == LevelsOf(f, tops, Depth)
<1>1. \E f : R(f) BY LevelsExist
<1>2. Levels(tops) = CHOOSE f : R(f) BY DEF Levels, Depth, LevelsOf
<1>3. R(Levels(tops))
  <2> HIDE DEF R
  <2> QED BY <1>1, <1>2
<1> DEFINE L == Levels(tops)
<1>4. L = [d \in 0 .. Depth |-> IF d = 0 THEN tops ELSE UNION {Children(n) : n \in L[d - 1]}]
  BY <1>3 DEF LevelsOf
<1> HIDE DEF L
<1>5. DOMAIN L = 0 .. Depth /\ L[0] = tops /\ \A d \in 1 .. Depth : L[d] = Offspring(L[d - 1])
  <2>1. DOMAIN L = 0 .. Depth BY <1>4
  <2>2. L[0] = tops BY <1>4
  <2>3. ASSUME NEW d \in 1 .. Depth PROVE L[d] = Offspring(L[d - 1])
    <3>1. d \in 0 .. Depth /\ d # 0 OBVIOUS
    <3> QED BY <3>1, <1>4 DEF Offspring
  <2> QED BY <2>1, <2>2, <2>3
<1> QED BY <1>5 DEF L

LEMMA ChildrenAre ==
    ASSUME NEW h, NEW par, NEW slot, Nodes(node), Shape(node, root_ptr, split, h, par, slot), NEW n \in DOMAIN node
    PROVE  /\ \A c \in Children(n) : c \in DOMAIN node /\ c \notin {root_ptr, split} /\ h[n] = h[c] + 1 /\ par[c] = n
           /\ n \in Ins(node) => \A i \in 1 .. Len(node[n].ptrs) : node[n].ptrs[i] \in Children(n)
<1>1. CASE n \in Ins(node)
  <2>1. Children(n) = {node[n].ptrs[i] : i \in 1 .. Len(node[n].ptrs)}
    <3>1. DOMAIN node[n].ptrs = 1 .. Len(node[n].ptrs) BY <1>1, NodeFacts, LenProperties
    <3>2. n \in Internals BY <1>1, LeafOrInternal
    <3> QED BY <3>1, <3>2 DEF Children, ToSet
  <2>2. \A i \in 1 .. Len(node[n].ptrs) :
           /\ node[n].ptrs[i] \in DOMAIN node /\ node[n].ptrs[i] \notin {root_ptr, split}
           /\ h[n] = h[node[n].ptrs[i]] + 1 /\ par[node[n].ptrs[i]] = n
    BY <1>1, ChildFacts
  <2> QED BY <2>1, <2>2
<1>2. CASE n \notin Ins(node) BY <1>2, LeafOrInternal DEF Children
<1> QED BY <1>1, <1>2

\* From the root down there is a node of every height, so the tree is no
\* higher than it has nodes.
LEMMA HeightIsBounded ==
    ASSUME NEW h, NEW par, NEW slot, Nodes(node), Shape(node, root_ptr, split, h, par, slot)
    PROVE  Depth \in Nat /\ h[root_ptr] \in Nat /\ h[root_ptr] <= Depth
<1> DEFINE H == h[root_ptr]
           S == {j \in Nat : j <= H => \E n \in DOMAIN node : h[n] = H - j}
<1>1. H \in Nat /\ root_ptr \in DOMAIN node /\ \A n \in DOMAIN node : h[n] \in Nat /\ (h[n] = 0 <=> n \in Lvs(node))
  BY Heights
<1>2. IsFiniteSet(DOMAIN node) /\ Depth \in Nat
  <2>1. DOMAIN node \subseteq NodeIds BY DEF Nodes
  <2> QED BY <2>1, IdsAreFinite, FS_Subset, FS_CardinalityType DEF Depth
<1>3. 0 \in S BY <1>1
<1>4. ASSUME NEW j \in S PROVE j + 1 \in S
  <2> SUFFICES ASSUME j + 1 <= H PROVE \E n \in DOMAIN node : h[n] = H - (j + 1) OBVIOUS
  <2>1. PICK n \in DOMAIN node : h[n] = H - j BY <1>1
  <2>2. n \in Ins(node)
    <3>1. h[n] # 0 BY <2>1, <1>1
    <3> QED BY <3>1, <1>1, Kinds
  <2>3. 1 \in 1 .. Len(node[n].ptrs) BY <2>2, NodeFacts
  <2>4. node[n].ptrs[1] \in DOMAIN node /\ h[n] = h[node[n].ptrs[1]] + 1 /\ h[node[n].ptrs[1]] \in Nat
    BY <2>2, <2>3, ChildFacts
  <2>5. h[node[n].ptrs[1]] = H - (j + 1) BY <2>1, <2>4, <1>1
  <2> QED BY <2>4, <2>5
<1>5. S = Nat
  <2> HIDE DEF S
  <2>1. S \in SUBSET Nat BY DEF S
  <2> QED BY <2>1, <1>3, <1>4, Induction
<1>6. \A j \in 0 .. H : \E n \in DOMAIN node : h[n] = H - j BY <1>1, <1>5
<1> HIDE DEF H, S
<1> DEFINE f == [j \in 0 .. H |-> CHOOSE n \in DOMAIN node : h[n] = H - j]
<1>7. \A j \in 0 .. H : f[j] \in DOMAIN node /\ h[f[j]] = H - j BY <1>6
<1>8. f \in Injection(0 .. H, DOMAIN node)
  <2>1. f \in [0 .. H -> DOMAIN node] BY <1>7
  <2>2. \A i, j \in 0 .. H : f[i] = f[j] => i = j
    <3> HIDE DEF f
    <3> QED BY <1>7, <1>1
  <2> HIDE DEF f
  <2> QED BY <2>1, <2>2 DEF Injection, IsInjective
<1>9. IsFiniteSet(0 .. H) /\ Cardinality(0 .. H) = H + 1 BY <1>1, FS_Interval
<1>10. Cardinality(0 .. H) <= Cardinality(DOMAIN node)
  <2> HIDE DEF f
  <2> QED BY <1>2, <1>8, FS_Injection
<1> QED BY <1>1, <1>2, <1>9, <1>10 DEF Depth, H

\* Below nodes of one height, each level is one lower.
LEMMA LevelHeights ==
    ASSUME NEW h, NEW par, NEW slot, Nodes(node), Shape(node, root_ptr, split, h, par, slot),
           NEW tops, tops \subseteq DOMAIN node
    PROVE  /\ \A d \in 0 .. Depth : Levels(tops)[d] \subseteq DOMAIN node
           /\ \A H \in Nat : (\A t \in tops : h[t] = H) =>
                 \A d \in 0 .. Depth : \A n \in Levels(tops)[d] : h[n] = H - d
<1> DEFINE L == Levels(tops)
           S == {d \in Nat : d <= Depth => L[d] \subseteq DOMAIN node}
<1>1. Depth \in Nat /\ \A n \in DOMAIN node : h[n] \in Nat BY HeightIsBounded, Heights
<1>2. L[0] = tops /\ \A d \in 1 .. Depth : L[d] = Offspring(L[d - 1]) BY <1>1, LevelsAre
<1> HIDE DEF L
<1>3. \A d \in 0 .. Depth : L[d] \subseteq DOMAIN node
  <2>1. 0 \in S BY <1>2
  <2>2. ASSUME NEW d \in S PROVE d + 1 \in S
    <3> SUFFICES ASSUME d + 1 <= Depth PROVE L[d + 1] \subseteq DOMAIN node OBVIOUS
    <3>1. d + 1 \in 1 .. Depth /\ (d + 1) - 1 = d /\ L[d] \subseteq DOMAIN node BY <1>1
    <3>2. L[d + 1] = Offspring(L[d]) BY <3>1, <1>2
    <3> QED BY <3>1, <3>2, ChildrenAre DEF Offspring
  <2>3. S = Nat
    <3> HIDE DEF S
    <3>1. S \in SUBSET Nat BY DEF S
    <3> QED BY <3>1, <2>1, <2>2, Induction
  <2> QED BY <2>3
<1>4. ASSUME NEW H \in Nat, \A t \in tops : h[t] = H
      PROVE  \A d \in 0 .. Depth : \A n \in L[d] : h[n] = H - d
  <2> DEFINE T == {d \in Nat : d <= Depth => \A n \in L[d] : h[n] = H - d}
  <2>1. 0 \in T BY <1>2, <1>4
  <2>2. ASSUME NEW d \in T PROVE d + 1 \in T
    <3> SUFFICES ASSUME d + 1 <= Depth, NEW c \in L[d + 1] PROVE h[c] = H - (d + 1) OBVIOUS
    <3>1. d + 1 \in 1 .. Depth /\ (d + 1) - 1 = d /\ d \in 0 .. Depth /\ \A n \in L[d] : h[n] = H - d BY <1>1
    <3>2. L[d + 1] = Offspring(L[d]) BY <3>1, <1>2
    <3>3. PICK n \in L[d] : c \in Children(n) BY <3>2 DEF Offspring
    <3>4. n \in DOMAIN node BY <3>1, <1>3
    <3>5. c \in DOMAIN node /\ h[n] = h[c] + 1 BY <3>3, <3>4, ChildrenAre
    <3>6. h[c] \in Nat /\ h[n] = H - d BY <3>1, <3>5, <1>1
    <3> QED BY <3>5, <3>6
  <2>3. T = Nat
    <3> HIDE DEF T
    <3>1. T \in SUBSET Nat BY DEF T
    <3> QED BY <3>1, <2>1, <2>2, Induction
  <2> QED BY <2>3
<1> QED BY <1>3, <1>4 DEF L

\* Every node is on some level below the root or the node handed up.
LEMMA EveryNodeIsReached ==
    ASSUME NEW h, NEW par, NEW slot, Nodes(node), Shape(node, root_ptr, split, h, par, slot),
           NEW tops, tops = {root_ptr, split} \ {NULL_PTR}
    PROVE  \A n \in DOMAIN node : \E d \in 0 .. Depth : n \in Levels(tops)[d]
<1> DEFINE L == Levels(tops)
           H == h[root_ptr]
           S == {j \in Nat : j <= H => \A n \in DOMAIN node : H - h[n] <= j => \E d \in 0 .. j : n \in L[d]}
<1>1. Depth \in Nat /\ H \in Nat /\ H <= Depth /\ \A n \in DOMAIN node : h[n] \in Nat /\ h[n] <= H
  BY HeightIsBounded, Heights
<1>2. L[0] = tops /\ \A d \in 1 .. Depth : L[d] = Offspring(L[d - 1]) BY <1>1, LevelsAre
<1>3. ASSUME NEW n \in DOMAIN node \ {root_ptr, split}
      PROVE  par[n] \in DOMAIN node /\ n \in Children(par[n]) /\ h[par[n]] = h[n] + 1
  <2>1. ChildOf(node, par, slot, n) BY <1>3 DEF Shape
  <2>2. /\ par[n] \in Ins(node) /\ slot[n] \in 1 .. Len(node[par[n]].ptrs) /\ node[par[n]].ptrs[slot[n]] = n
        /\ par[n] \in DOMAIN node
    BY <2>1 DEF ChildOf, Ins
  <2>3. n \in Children(par[n]) BY <2>2, ChildrenAre
  <2> QED BY <2>2, <2>3, ChildrenAre
<1>4. NULL_PTR \notin DOMAIN node BY NoNull
<1> HIDE DEF L, H
<1>5. 0 \in S
  <2> SUFFICES ASSUME NEW n \in DOMAIN node, H - h[n] <= 0 PROVE n \in L[0] OBVIOUS
  <2>1. n \in {root_ptr, split}
    <3> SUFFICES ASSUME n \notin {root_ptr, split} PROVE FALSE OBVIOUS
    <3>1. par[n] \in DOMAIN node /\ h[par[n]] = h[n] + 1 BY <1>3
    <3>2. h[par[n]] <= H /\ h[n] \in Nat BY <3>1, <1>1
    <3> QED BY <3>1, <3>2, <1>1
  <2> QED BY <2>1, <1>2, <1>4
<1>6. ASSUME NEW j \in S PROVE j + 1 \in S
  <2> SUFFICES ASSUME j + 1 <= H, NEW n \in DOMAIN node, H - h[n] <= j + 1 PROVE \E d \in 0 .. j + 1 : n \in L[d]
    OBVIOUS
  <2>1. j \in Nat /\ \A m \in DOMAIN node : H - h[m] <= j => \E d \in 0 .. j : m \in L[d] BY <1>1
  <2>2. CASE n \in {root_ptr, split}
    <3>1. n \in L[0] /\ 0 \in 0 .. j + 1 BY <2>1, <2>2, <1>2, <1>4
    <3> QED BY <3>1
  <2>3. CASE n \notin {root_ptr, split}
    <3>1. par[n] \in DOMAIN node /\ n \in Children(par[n]) /\ h[par[n]] = h[n] + 1 BY <2>3, <1>3
    <3>2. H - h[par[n]] <= j
      <4>1. h[n] \in Nat BY <1>1
      <4> QED BY <4>1, <3>1, <2>1, <1>1
    <3>3. PICK d \in 0 .. j : par[n] \in L[d] BY <3>1, <3>2, <2>1
    <3>4. d + 1 \in 1 .. Depth /\ (d + 1) - 1 = d /\ d + 1 \in 0 .. j + 1 BY <2>1, <1>1
    <3>5. L[d + 1] = Offspring(L[d]) BY <3>4, <1>2
    <3>6. n \in L[d + 1] BY <3>1, <3>3, <3>5 DEF Offspring
    <3> QED BY <3>4, <3>6
  <2> QED BY <2>2, <2>3
<1>7. S = Nat
  <2> HIDE DEF S
  <2>1. S \in SUBSET Nat BY DEF S
  <2> QED BY <2>1, <1>5, <1>6, Induction
<1>8. ASSUME NEW n \in DOMAIN node PROVE \E d \in 0 .. Depth : n \in L[d]
  <2>1. H - h[n] <= H BY <1>1
  <2>2. \E d \in 0 .. H : n \in L[d] BY <2>1, <1>1, <1>7
  <2> QED BY <2>2, <1>1
<1> QED BY <1>8 DEF L

LEMMA TreeShapeIs == Inv => TreeShape
<1> SUFFICES ASSUME Inv PROVE TreeShape OBVIOUS
<1>1. PICK h, par, slot : Shape(node, root_ptr, split, h, par, slot) BY DEF Inv, Forest
<1>2. Nodes(node) BY DEF Inv
<1> DEFINE tops == {root_ptr, split} \ {NULL_PTR}
<1>3. UNION Range(Levels(tops)) = DOMAIN node
  <2>1. tops \subseteq DOMAIN node BY RootAndSplit
  <2>2. DOMAIN Levels(tops) = 0 .. Depth BY <1>1, <1>2, HeightIsBounded, LevelsAre
  <2> DEFINE t == tops
  <2>3. t = {root_ptr, split} \ {NULL_PTR} OBVIOUS
  <2> HIDE DEF t
  <2>4. \A d \in 0 .. Depth : Levels(t)[d] \subseteq DOMAIN node BY <2>1, <2>3, <1>1, <1>2, LevelHeights
  <2>5. \A n \in DOMAIN node : \E d \in 0 .. Depth : n \in Levels(t)[d] BY <2>3, <1>1, <1>2, EveryNodeIsReached
  <2>6. DOMAIN Levels(t) = 0 .. Depth BY <2>2, <2>3
  <2>7. UNION Range(Levels(t)) = DOMAIN node BY <2>4, <2>5, <2>6 DEF Range
  <2> QED BY <2>7, <2>3
<1>4. ASSUME NEW n \in Internals
      PROVE  /\ n \in Ins(node) /\ DOMAIN node[n].ptrs = 1 .. Len(node[n].ptrs)
             /\ Len(node[n].ptrs) = Len(node[n].keys) + 1 /\ Children(n) \cap {root_ptr, split} = {}
  <2>1. n \in Ins(node) /\ n \in DOMAIN node BY <1>4, LeafOrInternal DEF Internals
  <2>2. DOMAIN node[n].ptrs = 1 .. Len(node[n].ptrs) /\ Len(node[n].ptrs) = Len(node[n].keys) + 1
    BY <2>1, <1>2, NodeFacts, LenProperties
  <2>3. \A c \in Children(n) : c \notin {root_ptr, split} BY <2>1, <1>1, <1>2, ChildrenAre
  <2> QED BY <2>1, <2>2, <2>3
<1>5. ASSUME NEW m \in Internals, NEW n \in Internals, NEW i \in DOMAIN node[m].ptrs, NEW j \in DOMAIN node[n].ptrs,
             node[m].ptrs[i] = node[n].ptrs[j]
      PROVE  m = n /\ i = j
  <2>1. m \in Ins(node) /\ n \in Ins(node) /\ i \in 1 .. Len(node[m].ptrs) /\ j \in 1 .. Len(node[n].ptrs)
    BY <1>4
  <2>2. par[node[m].ptrs[i]] = m /\ slot[node[m].ptrs[i]] = i /\ par[node[n].ptrs[j]] = n /\ slot[node[n].ptrs[j]] = j
    BY <2>1, <1>1, ChildFacts
  <2> QED BY <2>2, <1>5
<1> QED BY <1>3, <1>4, <1>5 DEF TreeShape

LEMMA BalancedDepthIs == Inv => BalancedDepth
<1> SUFFICES ASSUME Inv PROVE BalancedDepth OBVIOUS
<1>1. PICK h, par, slot :
         Shape(node, root_ptr, split, h, par, slot) /\ (split # NULL_PTR => h[split] = h[cur] /\ cur \in DOMAIN node)
  <2>1. PICK h, par, slot : /\ Shape(node, root_ptr, split, h, par, slot) /\ (split # NULL_PTR => h[split] = h[cur])
                            /\ (Updating => Stack(node, root_ptr, path, cur, h))
    BY DEF Inv, Forest
  <2>2. split # NULL_PTR => cur \in DOMAIN node BY DEF Inv, Control, At
  <2> QED BY <2>1, <2>2
<1>2. Nodes(node) /\ root_ptr \in DOMAIN node /\ split \in DOMAIN node \cup {NULL_PTR} BY RootAndSplit
<1> SUFFICES ASSUME NEW tops \in {{root_ptr}} \cup (IF split = NULL_PTR THEN {} ELSE {{cur, split}}),
                    NEW d \in DOMAIN Levels(tops)
             PROVE  Levels(tops)[d] \subseteq Leaves \/ Levels(tops)[d] \subseteq Internals
  BY DEF BalancedDepth
<1>3. Depth \in Nat /\ DOMAIN Levels(tops) = 0 .. Depth BY <1>1, <1>2, HeightIsBounded, LevelsAre
<1>4. tops \subseteq DOMAIN node /\ \E H \in Nat : \A t \in tops : h[t] = H
  <2>1. \A n \in DOMAIN node : h[n] \in Nat BY <1>1, Heights
  <2>2. CASE tops = {root_ptr} BY <2>1, <2>2, <1>2
  <2>3. CASE split # NULL_PTR /\ tops = {cur, split}
    <3>1. cur \in DOMAIN node /\ split \in DOMAIN node /\ h[split] = h[cur] BY <2>3, <1>1, <1>2
    <3> QED BY <3>1, <2>1, <2>3
  <2> QED BY <2>2, <2>3
<1>5. PICK H \in Nat : \A t \in tops : h[t] = H BY <1>4
<1>6. Levels(tops)[d] \subseteq DOMAIN node /\ \A n \in Levels(tops)[d] : h[n] = H - d
  <2>1. /\ \A e \in 0 .. Depth : Levels(tops)[e] \subseteq DOMAIN node
        /\ \A G \in Nat : (\A t \in tops : h[t] = G) => \A e \in 0 .. Depth : \A n \in Levels(tops)[e] : h[n] = G - e
    BY <1>1, <1>2, <1>4, LevelHeights
  <2> QED BY <2>1, <1>3, <1>5
<1>7. \A n \in DOMAIN node : (h[n] = 0 <=> n \in Lvs(node)) /\ (n \in Lvs(node) \/ n \in Ins(node))
  <2> HIDE DEF Inv
  <2>1. Shape(node, root_ptr, split, h, par, slot) BY <1>1
  <2>2. \A n \in DOMAIN node : h[n] \in Nat /\ h[n] <= h[root_ptr] /\ (h[n] = 0 <=> n \in Lvs(node))
    BY <2>1, Heights
  <2>3. \A n \in DOMAIN node : n \in Lvs(node) \/ n \in Ins(node) BY DEF Lvs, Ins
  <2> QED BY <2>2, <2>3
<1>8. CASE H - d = 0 BY <1>6, <1>7, <1>8, LeafOrInternal
<1>9. CASE H - d # 0 BY <1>6, <1>7, <1>9, LeafOrInternal
<1> QED BY <1>8, <1>9

-----------------------------------------------------------------------------
(* The keys below a node *)

KeysOf(f) == f = [n \in DOMAIN node |-> IF IsLeaf(n) THEN DOMAIN node[n].data ELSE UNION {f[c] : c \in Children(n)}]

LEMMA SubtreeKeysExist ==
    ASSUME NEW h, NEW par, NEW slot, Nodes(node), Shape(node, root_ptr, split, h, par, slot)
    PROVE  \E f : KeysOf(f)
<1> DEFINE Up(f, n) == f[n] = IF IsLeaf(n) THEN DOMAIN node[n].data ELSE UNION {f[c] : c \in Children(n)}
           UpTo(f, d) == \A n \in DOMAIN node : h[n] <= d => Up(f, n)
           S == {d \in Nat : \E f : UpTo(f, d)}
<1>1. /\ h[root_ptr] \in Nat
      /\ \A n \in DOMAIN node : h[n] \in Nat /\ h[n] <= h[root_ptr] /\ (h[n] = 0 <=> IsLeaf(n))
  BY Heights, LeafOrInternal
<1>2. \A n \in DOMAIN node : \A c \in Children(n) : c \in DOMAIN node /\ h[n] = h[c] + 1 BY ChildrenAre
<1>3. 0 \in S
  <2> DEFINE f == [n \in DOMAIN node |-> DOMAIN node[n].data]
  <2>1. \A n \in DOMAIN node : h[n] <= 0 => Up(f, n) BY <1>1
  <2> HIDE DEF f
  <2> QED BY <2>1
<1>4. ASSUME NEW d \in S PROVE d + 1 \in S
  <2>1. PICK f : \A n \in DOMAIN node : h[n] <= d => Up(f, n) OBVIOUS
  <2>2. d \in Nat OBVIOUS
  <2> DEFINE g == [n \in DOMAIN node |->
                     IF h[n] <= d THEN f[n] ELSE IF IsLeaf(n) THEN DOMAIN node[n].data ELSE UNION {f[c] : c \in Children(n)}]
  <2>3. \A n \in DOMAIN node : g[n] = IF IsLeaf(n) THEN DOMAIN node[n].data ELSE UNION {f[c] : c \in Children(n)}
    BY <2>1
  <2>4. \A n \in DOMAIN node : h[n] <= d => g[n] = f[n] OBVIOUS
  <2> HIDE DEF g
  <2>5. ASSUME NEW n \in DOMAIN node, h[n] <= d + 1, ~IsLeaf(n) PROVE g[n] = UNION {g[c] : c \in Children(n)}
    <3>1. \A c \in Children(n) : g[c] = f[c]
      <4> SUFFICES ASSUME NEW c \in Children(n) PROVE g[c] = f[c] OBVIOUS
      <4>1. c \in DOMAIN node /\ h[n] = h[c] + 1 BY <1>2
      <4>2. h[c] <= d BY <4>1, <1>1, <2>2, <2>5
      <4> QED BY <4>1, <4>2, <2>4
    <3>2. {g[c] : c \in Children(n)} = {f[c] : c \in Children(n)} BY <3>1
    <3> QED BY <3>2, <2>3, <2>5
  <2>6. UpTo(g, d + 1) BY <2>3, <2>5
  <2> HIDE DEF UpTo
  <2> QED BY <2>2, <2>6
<1>5. S = Nat
  <2> HIDE DEF S
  <2>1. S \in SUBSET Nat BY DEF S
  <2> QED BY <2>1, <1>3, <1>4, Induction
<1>6. PICK f : \A n \in DOMAIN node : h[n] <= h[root_ptr] => Up(f, n) BY <1>1, <1>5
<1> DEFINE g == [n \in DOMAIN node |-> f[n]]
<1>7. \A n \in DOMAIN node : f[n] = IF IsLeaf(n) THEN DOMAIN node[n].data ELSE UNION {g[c] : c \in Children(n)}
  <2> SUFFICES ASSUME NEW n \in DOMAIN node, ~IsLeaf(n) PROVE f[n] = UNION {g[c] : c \in Children(n)}
    BY <1>1, <1>6
  <2>1. {g[c] : c \in Children(n)} = {f[c] : c \in Children(n)} BY <1>2
  <2> QED BY <2>1, <1>1, <1>6
<1>8. g = [n \in DOMAIN node |-> IF IsLeaf(n) THEN DOMAIN node[n].data ELSE UNION {g[c] : c \in Children(n)}]
  BY <1>7
<1> HIDE DEF g
<1> QED BY <1>8 DEF KeysOf

LEMMA SubtreeKeysAre ==
    ASSUME NEW h, NEW par, NEW slot, Nodes(node), Shape(node, root_ptr, split, h, par, slot)
    PROVE  \A n \in DOMAIN node :
              SubtreeKeys[n] = IF IsLeaf(n) THEN DOMAIN node[n].data ELSE UNION {SubtreeKeys[c] : c \in Children(n)}
<1>1. \E f : KeysOf(f) BY SubtreeKeysExist
<1>2. SubtreeKeys = CHOOSE f : KeysOf(f) BY DEF SubtreeKeys, KeysOf
<1>3. KeysOf(SubtreeKeys) BY <1>1, <1>2
<1> DEFINE f == SubtreeKeys
<1>4. f = [n \in DOMAIN node |-> IF IsLeaf(n) THEN DOMAIN node[n].data ELSE UNION {f[c] : c \in Children(n)}]
  BY <1>3 DEF KeysOf
<1> HIDE DEF f
<1>5. \A n \in DOMAIN node : f[n] = IF IsLeaf(n) THEN DOMAIN node[n].data ELSE UNION {f[c] : c \in Children(n)}
  BY <1>4
<1> QED BY <1>5 DEF f

\* The keys below a node lie within its bounds.
LEMMA SubtreeKeysFit ==
    ASSUME NEW h, NEW par, NEW slot, NEW lo, NEW hi, Nodes(node),
           Shape(node, root_ptr, split, h, par, slot), Bounds(node, lo, hi)
    PROVE  \A n \in DOMAIN node : \A k \in SubtreeKeys[n] : k \in Nat /\ lo[n] < k /\ k <= hi[n]
<1> DEFINE Within(n) == \A k \in SubtreeKeys[n] : k \in Nat /\ lo[n] < k /\ k <= hi[n]
           S == {d \in Nat : \A n \in DOMAIN node : h[n] <= d => Within(n)}
<1>1. /\ h[root_ptr] \in Nat
      /\ \A n \in DOMAIN node : h[n] \in Nat /\ h[n] <= h[root_ptr] /\ (h[n] = 0 <=> IsLeaf(n))
  BY Heights, LeafOrInternal
<1>2. \A n \in DOMAIN node :
         SubtreeKeys[n] = IF IsLeaf(n) THEN DOMAIN node[n].data ELSE UNION {SubtreeKeys[c] : c \in Children(n)}
  BY SubtreeKeysAre
<1>3. ASSUME NEW n \in DOMAIN node, IsLeaf(n) PROVE Within(n)
  <2>1. n \in Lvs(node) BY <1>3, LeafOrInternal
  <2>2. DOMAIN node[n].data \subseteq Nat /\ \A k \in DOMAIN node[n].data : lo[n] < k /\ k <= hi[n]
    BY <2>1, LeafFacts DEF Bounds, Contained
  <2> QED BY <2>2, <1>2, <1>3
<1>4. ASSUME NEW n \in DOMAIN node, NEW c \in Children(n)
      PROVE  /\ c \in DOMAIN node /\ h[n] = h[c] + 1 /\ lo[n] <= lo[c] /\ hi[c] <= hi[n]
             /\ lo[n] \in Int /\ lo[c] \in Int /\ hi[n] \in Int /\ hi[c] \in Int
  <2>1. c \in DOMAIN node /\ h[n] = h[c] + 1 BY ChildrenAre
  <2>2. n \in Ins(node) /\ c \in ToSet(node[n].ptrs) BY LeafOrInternal DEF Children
  <2>3. PICK i \in 1 .. Len(node[n].ptrs) : c = node[n].ptrs[i] BY <2>2, NodeFacts, LenProperties DEF ToSet
  <2>4. lo[n] <= lo[c] /\ hi[c] <= hi[n] BY <2>2, <2>3 DEF Bounds, SlotFits
  <2> QED BY <2>1, <2>4 DEF Bounds, Bounded
<1> HIDE DEF Within
<1>5. 0 \in S BY <1>1, <1>3
<1>6. ASSUME NEW d \in S PROVE d + 1 \in S
  <2> SUFFICES ASSUME NEW n \in DOMAIN node, h[n] <= d + 1 PROVE Within(n) OBVIOUS
  <2>1. d \in Nat /\ \A m \in DOMAIN node : h[m] <= d => Within(m) OBVIOUS
  <2>2. CASE IsLeaf(n) BY <2>2, <1>3
  <2>3. CASE ~IsLeaf(n)
    <3> SUFFICES ASSUME NEW k \in SubtreeKeys[n] PROVE k \in Nat /\ lo[n] < k /\ k <= hi[n] BY DEF Within
    <3>1. PICK c \in Children(n) : k \in SubtreeKeys[c]
      <4>1. SubtreeKeys[n] = UNION {SubtreeKeys[c] : c \in Children(n)} BY <2>3, <1>2
      <4> QED BY <4>1
    <3>2. c \in DOMAIN node /\ h[c] <= d
      <4>1. c \in DOMAIN node /\ h[n] = h[c] + 1 BY <1>4
      <4> QED BY <4>1, <2>1, <1>1
    <3>3. k \in Nat /\ lo[c] < k /\ k <= hi[c] BY <3>1, <3>2, <2>1 DEF Within
    <3> QED BY <3>3, <1>4
  <2> QED BY <2>2, <2>3
<1>7. S = Nat
  <2> HIDE DEF S
  <2>1. S \in SUBSET Nat BY DEF S
  <2> QED BY <2>1, <1>5, <1>6, Induction
<1>8. \A n \in DOMAIN node : Within(n) BY <1>1, <1>7
<1> QED BY <1>8 DEF Within

LEMMA SearchTreeOrderIs == Inv => SearchTreeOrder
<1> SUFFICES ASSUME Inv, NEW n \in Internals, NEW i \in DOMAIN node[n].ptrs, NEW k \in SubtreeKeys[node[n].ptrs[i]]
             PROVE  /\ i > 1 => node[n].keys[i - 1] < k
                    /\ i < Len(node[n].ptrs) => k <= node[n].keys[i]
  BY DEF SearchTreeOrder
<1>1. PICK h, par, slot : Shape(node, root_ptr, split, h, par, slot) BY DEF Inv, Forest
<1>2. PICK lo, hi : Bounds(node, lo, hi) BY DEF Inv, Ordered
<1>3. n \in Ins(node) /\ Nodes(node) BY LeafOrInternal DEF Inv
<1>4. /\ i \in 1 .. Len(node[n].ptrs) /\ Len(node[n].ptrs) = Len(node[n].keys) + 1 /\ Len(node[n].keys) \in Nat
      /\ \A j \in 1 .. Len(node[n].keys) : node[n].keys[j] \in Nat
  BY <1>3, NodeFacts, LenProperties
<1> DEFINE c == node[n].ptrs[i]
<1>5. c \in DOMAIN node BY <1>1, <1>3, <1>4, ChildFacts
<1>6. k \in Nat /\ lo[c] < k /\ k <= hi[c] /\ lo[c] \in Int /\ hi[c] \in Int
  <2>1. k \in Nat /\ lo[c] < k /\ k <= hi[c] BY <1>1, <1>2, <1>3, <1>5, SubtreeKeysFit
  <2> QED BY <2>1, <1>2, <1>5 DEF Bounds, Bounded
<1>7. (i > 1 => node[n].keys[i - 1] <= lo[c]) /\ (i <= Len(node[n].keys) => hi[c] <= node[n].keys[i])
  BY <1>2, <1>3, <1>4 DEF Bounds, SlotFits
<1> HIDE DEF c
<1>8. ASSUME i > 1 PROVE node[n].keys[i - 1] < k
  <2>1. i - 1 \in 1 .. Len(node[n].keys) BY <1>4, <1>8
  <2>2. node[n].keys[i - 1] \in Nat /\ node[n].keys[i - 1] <= lo[c] BY <2>1, <1>4, <1>7, <1>8
  <2> QED BY <2>2, <1>6
<1>9. ASSUME i < Len(node[n].ptrs) PROVE k <= node[n].keys[i]
  <2>1. i \in 1 .. Len(node[n].keys) /\ i <= Len(node[n].keys) BY <1>4, <1>9
  <2>2. node[n].keys[i] \in Nat /\ hi[c] <= node[n].keys[i] BY <2>1, <1>4, <1>7
  <2> QED BY <2>2, <1>6
<1> QED BY <1>8, <1>9

-----------------------------------------------------------------------------
(* The invariants the runs check *)

\* Every node file holds a leaf or an internal node over the keys and records
\* of the calls, and BPTree's own pointers are node numbers.
THEOREM Types == ~DuplicateInserts /\ Spec => []TypeOK
<1>1. Inv => TypeOK BY TypeOKIs
<1> QED BY <1>1, TreeInvariant, PTL

\* Splits, redistributions and merges lose no node file and never point to one
\* from two places.
THEOREM TreeShapeHolds == ~DuplicateInserts /\ Spec => []TreeShape
<1>1. Inv => TreeShape BY TreeShapeIs
<1> QED BY <1>1, TreeInvariant, PTL

\* No call leaves one leaf deeper than another, whatever FANOUT is: only the
\* root grows or shrinks the tree.
THEOREM BalancedDepthHolds == ~DuplicateInserts /\ Spec => []BalancedDepth
<1>1. Inv => BalancedDepth BY BalancedDepthIs
<1> QED BY <1>1, TreeInvariant, PTL

\* "Ki-1 < ptri <= Ki" (InternalNode.hpp) in every node, during every call.
THEOREM SearchTreeOrderHolds == ~DuplicateInserts /\ Spec => []SearchTreeOrder
<1>1. Inv => SearchTreeOrder BY SearchTreeOrderIs
<1> QED BY <1>1, TreeInvariant, PTL

\* A leaf's size is what it holds, and no leaf but the root, or the one that is
\* about to be refilled, has too few pairs.
THEOREM LeafOccupancyHolds == ~DuplicateInserts /\ Spec => []LeafOccupancy
<1>1. Inv => LeafOccupancy BY LeafOccupancyIs
<1> QED BY <1>1, TreeInvariant, PTL

\* Between calls an internal node has two children or more, and at most twice
\* MIN_KEYS and one.
THEOREM NodeWidthHolds == ~DuplicateInserts /\ Spec => []NodeWidth
<1>1. Inv => NodeWidth BY NodeWidthIs
<1> QED BY <1>1, TreeInvariant, PTL

\* The next pointers link the leaves in key order, past no key.
THEOREM NextIsSuccessorHolds == ~DuplicateInserts /\ Spec => []NextIsSuccessor
<1>1. Inv => NextIsSuccessor BY NextIsSuccessorIs
<1> QED BY <1>1, TreeInvariant, PTL

\* The parents and places an insert or a delete found on its way down are the
\* true ones when it repairs the nodes on its way back.
THEOREM StackIsPathHolds == ~DuplicateInserts /\ Spec => []StackIsPath
<1>1. Inv => StackIsPath BY StackIsPathIs
<1> QED BY <1>1, TreeInvariant, PTL

-----------------------------------------------------------------------------
(* The pairs in the leaves *)

LEMMA PairsAre == Pairs = PairsOf(node)
BY LeafOrInternal DEF Pairs, PairsOf

LEMMA PairsWillBe == Pairs' = PairsOf(node')
<1>1. Leaves' = Lvs(node') BY DEF Leaves, Internals, IsLeaf, Lvs
<1>2. StoredKeys' = Stored(node')
  <2>1. (DOMAIN node \ Internals)' = Lvs(node') BY DEF Internals, IsLeaf, Lvs
  <2> QED BY <2>1 DEF StoredKeys, Stored
<1> QED BY <1>1, <1>2 DEF Pairs, PairsOf

LEMMA HeldPairs ==
    ASSUME NEW files, Unique(files)
    PROVE  /\ DOMAIN PairsOf(files) = Stored(files)
           /\ \A k \in Stored(files) : Holds(files, k, PairsOf(files)[k])
           /\ \A k, v : Holds(files, k, v) => k \in Stored(files) /\ PairsOf(files)[k] = v
<1>1. DOMAIN PairsOf(files) = Stored(files) BY DEF PairsOf
<1>2. ASSUME NEW k \in Stored(files)
      PROVE  \E n \in Lvs(files) : k \in DOMAIN files[n].data /\ PairsOf(files)[k] = files[n].data[k]
  <2> DEFINE n == CHOOSE n \in Lvs(files) : k \in DOMAIN files[n].data
  <2>1. n \in Lvs(files) /\ k \in DOMAIN files[n].data BY DEF Stored
  <2>2. PairsOf(files)[k] = files[n].data[k] BY DEF PairsOf
  <2> HIDE DEF n
  <2> QED BY <2>1, <2>2
<1>3. \A k \in Stored(files) : Holds(files, k, PairsOf(files)[k]) BY <1>2 DEF Holds
<1>4. ASSUME NEW k, NEW v, Holds(files, k, v) PROVE k \in Stored(files) /\ PairsOf(files)[k] = v
  <2>1. PICK n \in Lvs(files) : k \in DOMAIN files[n].data /\ files[n].data[k] = v BY <1>4 DEF Holds
  <2>2. k \in Stored(files) BY <2>1 DEF Stored
  <2>3. PICK m \in Lvs(files) : k \in DOMAIN files[m].data /\ PairsOf(files)[k] = files[m].data[k] BY <2>2, <1>2
  <2>4. m = n BY <2>1, <2>3 DEF Unique
  <2> QED BY <2>1, <2>2, <2>3, <2>4
<1> QED BY <1>1, <1>3, <1>4

LEMMA StoredIs ==
    ASSUME NEW files
    PROVE  \A k : k \in Stored(files) <=> \E v : Holds(files, k, v)
BY DEF Stored, Holds

\* A function with the pairs in the leaves is the map.
LEMMA MapIs ==
    ASSUME NEW files, Unique(files), NEW f, f = [k \in DOMAIN f |-> f[k]],
           \A k, v : Holds(files, k, v) <=> k \in DOMAIN f /\ v = f[k]
    PROVE  PairsOf(files) = f
<1>1. \A k : k \in Stored(files) <=> k \in DOMAIN f BY StoredIs
<1>2. Stored(files) = DOMAIN f BY <1>1
<1>3. \A k \in DOMAIN f : PairsOf(files)[k] = f[k] BY HeldPairs
<1> QED BY <1>2, <1>3 DEF PairsOf

LEMMA SameMap ==
    ASSUME NEW files, NEW files2, Unique(files), Unique(files2), SamePairs(files, files2)
    PROVE  PairsOf(files2) = PairsOf(files)
<1>1. Stored(files2) = Stored(files)
  <2>1. \A k : k \in Stored(files2) <=> k \in Stored(files) BY StoredIs DEF SamePairs
  <2> QED BY <2>1
<1>2. \A k \in Stored(files) : PairsOf(files2)[k] = PairsOf(files)[k] BY HeldPairs DEF SamePairs
<1> QED BY <1>1, <1>2 DEF PairsOf

\* In a tree without a node that is handed up, the leaves are in order, and so
\* share no key.
LEMMA UniqueIs ==
    ASSUME NEW files, NEW root, NEW p, NEW c, NEW b, Nodes(files),
           Forest(files, root, NULL_PTR, p, c, b), Ordered(files, NULL_PTR, c)
    PROVE  Unique(files) /\ Total(files)
<1>2. PICK h, par, slot : Shape(files, root, NULL_PTR, h, par, slot) BY DEF Forest
<1>3. PICK lo, hi : Bounds(files, lo, hi) BY DEF Ordered
<1>4. Total(files) BY <1>2, <1>3, TotalIs
<1> SUFFICES ASSUME NEW x \in Lvs(files), NEW y \in Lvs(files), x # y, NEW k \in DOMAIN files[x].data, k \in DOMAIN files[y].data
             PROVE  FALSE
  BY <1>4 DEF Unique
<1>5. k < k BY <1>4 DEF Total, Lt
<1>6. k \in Nat BY LeafFacts
<1> QED BY <1>5, <1>6

LEMMA UniqueNow ==
    ASSUME Inv, split = NULL_PTR
    PROVE  Unique(node) /\ Total(node)
BY UniqueIs DEF Inv

LEMMA UniqueNext ==
    ASSUME Inv', split' = NULL_PTR
    PROVE  Unique(node')
BY UniqueIs DEF Inv

-----------------------------------------------------------------------------
(* What a change of the files does to the pairs *)

LEMMA SameLeavesSamePairs ==
    ASSUME NEW files, NEW files2, SameLeaves(files, files2)
    PROVE  SamePairs(files, files2) /\ (Unique(files) => Unique(files2))
BY DEF SameLeaves, SamePairs, Holds, Unique

\* A pair in one of two leaves.
InEither(a, b, k, v) == (k \in DOMAIN a /\ a[k] = v) \/ (k \in DOMAIN b /\ b[k] = v)

\* Two leaves share their pairs out anew.
LEMMA PairsShared ==
    ASSUME NEW files, NEW files2, NEW c \in Lvs(files), NEW d \in Lvs(files), c \in Lvs(files2), d \in Lvs(files2),
           Lvs(files2) = Lvs(files), \A n \in Lvs(files) \ {c, d} : files2[n] = files[n],
           \A k, v : InEither(files2[c].data, files2[d].data, k, v) <=> InEither(files[c].data, files[d].data, k, v)
    PROVE  SamePairs(files, files2)
<1>1. ASSUME NEW k, NEW v, NEW f \in {files, files2}
      PROVE  Holds(f, k, v) <=> \/ InEither(f[c].data, f[d].data, k, v)
                                \/ \E n \in Lvs(files) \ {c, d} : k \in DOMAIN files[n].data /\ files[n].data[k] = v
  BY DEF Holds, InEither
<1> QED BY <1>1 DEF SamePairs

\* One leaf takes the pairs of another.
LEMMA PairsMerged ==
    ASSUME NEW files, NEW files2, NEW c \in Lvs(files), NEW d \in Lvs(files), c # d, c \in Lvs(files2),
           Lvs(files2) = Lvs(files) \ {d}, \A n \in Lvs(files) \ {c, d} : files2[n] = files[n],
           \A k, v : k \in DOMAIN files2[c].data /\ files2[c].data[k] = v <=> InEither(files[c].data, files[d].data, k, v)
    PROVE  SamePairs(files, files2)
<1>1. ASSUME NEW k, NEW v
      PROVE  Holds(files, k, v) <=> \/ InEither(files[c].data, files[d].data, k, v)
                                    \/ \E n \in Lvs(files) \ {c, d} : k \in DOMAIN files[n].data /\ files[n].data[k] = v
  BY DEF Holds, InEither
<1>2. ASSUME NEW k, NEW v
      PROVE  Holds(files2, k, v) <=> \/ k \in DOMAIN files2[c].data /\ files2[c].data[k] = v
                                     \/ \E n \in Lvs(files) \ {c, d} : k \in DOMAIN files[n].data /\ files[n].data[k] = v
  BY DEF Holds
<1> QED BY <1>1, <1>2 DEF SamePairs

LEMMA LentPairs ==
    ASSUME NEW from, NEW to, NEW k \in DOMAIN from, k \notin DOMAIN to
    PROVE  \A x, v : InEither(Restrict(from, DOMAIN from \ {k}), Put(to, k, from[k]), x, v) <=> InEither(from, to, x, v)
BY DEF InEither, Restrict, Put

LEMMA MergedPairs ==
    ASSUME NEW low, NEW high, DOMAIN low \cap DOMAIN high = {}
    PROVE  \A k, v : k \in DOMAIN Merge(low, high) /\ Merge(low, high)[k] = v <=> InEither(low, high, k, v)
BY DEF InEither, Merge

-----------------------------------------------------------------------------
(* The steps that leave the leaves alone *)

\* Only internal nodes are written, created or dropped.
LEMMA SameLeavesIf ==
    ASSUME NEW files, NEW files2,
           \A n \in DOMAIN files2 : \/ n \in DOMAIN files /\ files2[n] = files[n]
                                    \/ files2[n].kind # "leaf" /\ n \notin Lvs(files),
           \A n \in Lvs(files) : n \in DOMAIN files2
    PROVE  SameLeaves(files, files2)
BY DEF SameLeaves, Lvs

LEMMA ReadingLeaves ==
    ASSUME node' = node
    PROVE  SameLeaves(node, node')
BY DEF SameLeaves

LEMMA UnwindingInsert ==
    ASSUME Inv, At("unwind", "insert")
    PROVE  /\ Nodes(node) /\ Updating /\ path \in Seq(Frames) /\ Len(path) \in Nat /\ cur \in DOMAIN node
           /\ Fresh \in NodeIds /\ Fresh \notin DOMAIN node
<1>1. Nodes(node) /\ Updating /\ path \in Seq(Frames) /\ cur \in DOMAIN node BY DEF Inv, Control, At, Updating
<1>2. Len(path) \in Nat /\ Room(node, Len(path) + 1) BY <1>1, LenProperties DEF Inv, Roomy
<1> QED BY <1>1, <1>2, FreshIs

LEMMA insert_into_existing_nodeLeaves ==
    ASSUME Inv, insert_into_existing_node
    PROVE  SameLeaves(node, node')
<1>1. At("unwind", "insert") /\ path # <<>> BY DEF insert_into_existing_node
<1>2. Parent \in Ins(node) BY <1>1, UnwindingInsert, AboveIs
<1> DEFINE new == WithSplit(Parent, SubtreeMax[cur])
<1>3. new.kind # "leaf" BY Constructors DEF WithSplit
<1>4. node' = [node EXCEPT ![Parent] = new] BY DEF insert_into_existing_node
<1> HIDE DEF new
<1>5. \A n \in DOMAIN node' : (n \in DOMAIN node /\ node'[n] = node[n]) \/ (node'[n].kind # "leaf" /\ n \notin Lvs(node))
  BY <1>2, <1>3, <1>4 DEF Ins, Lvs
<1>6. \A n \in Lvs(node) : n \in DOMAIN node' BY <1>4 DEF Lvs
<1> QED BY <1>5, <1>6, SameLeavesIf

LEMMA split_and_create_new_nodeLeaves ==
    ASSUME Inv, split_and_create_new_node
    PROVE  SameLeaves(node, node')
<1>1. At("unwind", "insert") /\ path # <<>> BY DEF split_and_create_new_node
<1>2. Parent \in Ins(node) /\ Fresh \notin DOMAIN node BY <1>1, UnwindingInsert, AboveIs
<1> DEFINE all == WithSplit(Parent, SubtreeMax[cur])
           low == Internal(SubSeq(all.keys, 1, HALF - 1), SubSeq(all.ptrs, 1, HALF))
           high == Internal(SubSeq(all.keys, HALF + 1, Len(all.keys)), SubSeq(all.ptrs, HALF + 1, Len(all.ptrs)))
<1>3. low.kind # "leaf" /\ high.kind # "leaf" BY Constructors
<1>4. node' = Created([node EXCEPT ![Parent] = low], Fresh, high) BY DEF split_and_create_new_node
<1> HIDE DEF low, high
<1>5. Written2(node, node', Parent, low, Fresh, high) BY <1>2, <1>4, Created2 DEF Ins
<1>6. \A n \in DOMAIN node' : (n \in DOMAIN node /\ node'[n] = node[n]) \/ (node'[n].kind # "leaf" /\ n \notin Lvs(node))
  BY <1>2, <1>3, <1>5 DEF Written2, Ins, Lvs
<1>7. \A n \in Lvs(node) : n \in DOMAIN node' BY <1>5 DEF Written2, Lvs
<1> QED BY <1>6, <1>7, SameLeavesIf

LEMMA GrowRootLeaves ==
    ASSUME Inv, GrowRoot
    PROVE  SameLeaves(node, node')
<1>1. Fresh \notin DOMAIN node BY UnwindingInsert DEF GrowRoot
<1> DEFINE new == Internal(<<SubtreeMax[root_ptr]>>, <<root_ptr, split>>)
<1>2. new.kind # "leaf" BY Constructors
<1>3. node' = Created(node, Fresh, new) BY DEF GrowRoot
<1> HIDE DEF new
<1>4. \A n \in DOMAIN node' : (n \in DOMAIN node /\ node'[n] = node[n]) \/ (node'[n].kind # "leaf" /\ n \notin Lvs(node))
  BY <1>1, <1>2, <1>3 DEF Created, Lvs
<1>5. \A n \in Lvs(node) : n \in DOMAIN node' BY <1>3 DEF Created, Lvs
<1> QED BY <1>4, <1>5, SameLeavesIf

LEMMA leftRedistributionLeaves ==
    ASSUME Inv, leftRedistribution
    PROVE  SameLeaves(node, node')
<1> DEFINE c == LeftSibling
           left == Internal(Front(node[c].keys), Front(node[c].ptrs))
           right == Internal(<<node[Parent].keys[Frame.index - 1]>> \o node[cur].keys,
                             <<Last(node[c].ptrs)>> \o node[cur].ptrs)
           top == Internal(ReplaceAt(node[Parent].keys, Frame.index - 1, Last(node[c].keys)), Siblings)
<1>1. c \in Ins(node) /\ cur \in Ins(node) /\ Parent \in Ins(node)
  BY InternalPairIs DEF leftRedistribution, InternalPair
<1>2. left.kind # "leaf" /\ right.kind # "leaf" /\ top.kind # "leaf" BY Constructors
<1>3. node' = [node EXCEPT ![c] = left, ![cur] = right, ![Parent] = top] BY DEF leftRedistribution
<1> HIDE DEF c, left, right, top
<1>4. \A n \in DOMAIN node' : (n \in DOMAIN node /\ node'[n] = node[n]) \/ (node'[n].kind # "leaf" /\ n \notin Lvs(node))
  BY <1>1, <1>2, <1>3 DEF Ins, Lvs
<1>5. \A n \in Lvs(node) : n \in DOMAIN node' BY <1>3 DEF Lvs
<1> QED BY <1>4, <1>5, SameLeavesIf

LEMMA leftMergeLeaves ==
    ASSUME Inv, leftMerge
    PROVE  SameLeaves(node, node')
<1> DEFINE c == LeftSibling
           left == Internal(Append(node[c].keys, node[Parent].keys[Frame.index - 1]) \o node[cur].keys,
                            node[c].ptrs \o node[cur].ptrs)
           top == Internal(RemoveAt(node[Parent].keys, Frame.index - 1), RemoveAt(Siblings, Frame.index))
           files == [node EXCEPT ![c] = left, ![Parent] = top]
<1>1. c \in Ins(node) /\ cur \in Ins(node) /\ Parent \in Ins(node) BY InternalPairIs DEF leftMerge, InternalPair
<1>2. left.kind # "leaf" /\ top.kind # "leaf" BY Constructors
<1>3. node' = Without(files, cur) BY DEF leftMerge
<1> HIDE DEF c, left, top
<1>4. DOMAIN files = DOMAIN node OBVIOUS
<1>5. \A n \in DOMAIN node : files[n] = node[n] \/ (files[n].kind # "leaf" /\ n \notin Lvs(node))
  BY <1>1, <1>2 DEF Ins, Lvs
<1> HIDE DEF files
<1>6. Dropped(files, node', cur) BY <1>3, WithoutIs
<1>7. \A n \in DOMAIN node' : (n \in DOMAIN node /\ node'[n] = node[n]) \/ (node'[n].kind # "leaf" /\ n \notin Lvs(node))
  BY <1>4, <1>5, <1>6 DEF Dropped
<1>8. \A n \in Lvs(node) : n \in DOMAIN node' BY <1>1, <1>4, <1>6 DEF Dropped, Lvs, Ins
<1> QED BY <1>7, <1>8, SameLeavesIf

LEMMA ShrinkRootLeaves ==
    ASSUME Inv, ShrinkRoot
    PROVE  SameLeaves(node, node')
<1>1. CASE node' = node BY <1>1, ReadingLeaves
<1>2. CASE node' # node
  <2>1. ~IsLeaf(cur) /\ node' = Without(node, cur) BY <1>2 DEF ShrinkRoot
  <2>2. cur \in DOMAIN node BY DEF ShrinkRoot, At, Inv, Control
  <2>3. cur \notin Lvs(node) BY <2>1, <2>2, LeafOrInternal
  <2>4. Dropped(node, node', cur) BY <2>1, WithoutIs
  <2>5. \A n \in DOMAIN node' : n \in DOMAIN node /\ node'[n] = node[n] BY <2>4 DEF Dropped
  <2>6. \A n \in Lvs(node) : n \in DOMAIN node' BY <2>3, <2>4 DEF Dropped, Lvs
  <2> QED BY <2>5, <2>6, SameLeavesIf
<1> QED BY <1>1, <1>2

-----------------------------------------------------------------------------
(* The way down *)

LEMMA LeafFound ==
    ASSUME NEW files, NEW root, NEW p \in Seq(Frames), NEW c \in Lvs(files), NEW k \in Nat, Nodes(files),
           Forest(files, root, NULL_PTR, p, c, TRUE), Ordered(files, NULL_PTR, c), Sought(files, p, k)
    PROVE  EndsAt(files, c, k)
<1>1. PICK h, par, slot : Shape(files, root, NULL_PTR, h, par, slot) /\ Stack(files, root, p, c, h)
  BY DEF Forest
<1>2. PICK lo, hi : Bounds(files, lo, hi) BY DEF Ordered
<1>3. Routed(files, p, k) BY <1>1, <1>2, SoughtIsRouted
<1>4. PICK lo2, hi2 : Bounds(files, lo2, hi2) /\ lo2[c] < k /\ k <= hi2[c] BY <1>1, <1>2, <1>3, WidenedBounds
<1> SUFFICES ASSUME NEW l \in Lvs(files) \ {c}
             PROVE  \/ Lt(files, l, c) /\ \A x \in DOMAIN files[l].data : x < k
                    \/ Lt(files, c, l) /\ \A x \in DOMAIN files[l].data : k < x
  BY DEF EndsAt
<1>5. l \in DOMAIN files /\ c \in DOMAIN files /\ DOMAIN files[l].data \subseteq Nat BY LeafFacts
<1>6. h[l] = 0 /\ h[c] = 0 BY <1>1, <1>5, Heights
<1>7. Apart(lo2, hi2, l, c) BY <1>1, <1>4, <1>5, <1>6, Disjoint
<1>8. lo2[l] \in Int /\ hi2[l] \in Int /\ lo2[c] \in Int /\ hi2[c] \in Int BY <1>4, <1>5 DEF Bounds, Bounded
<1>9. \A x \in DOMAIN files[l].data : lo2[l] < x /\ x <= hi2[l] BY <1>4 DEF Bounds, Contained
<1>10. CASE hi2[l] <= lo2[c]
  <2>1. \A x \in DOMAIN files[l].data : x < k BY <1>4, <1>5, <1>8, <1>9, <1>10
  <2> QED BY <1>4, <1>10, <2>1, BoundsLt
<1>11. CASE hi2[c] <= lo2[l]
  <2>1. \A x \in DOMAIN files[l].data : k < x BY <1>4, <1>5, <1>8, <1>9, <1>11
  <2> QED BY <1>4, <1>11, <2>1, BoundsLt
<1> QED BY <1>7, <1>10, <1>11 DEF Apart

-----------------------------------------------------------------------------
(* Inserting and erasing *)

LEMMA insertIntoCurrentLeafPairs ==
    ASSUME Inv, insertIntoCurrentLeaf
    PROVE  /\ PairAdded(node, node', request.lo, request.ptr) /\ split' = NULL_PTR
           /\ request.lo \notin Stored(node) /\ request.op = "insert"
<1> DEFINE k == request.lo
           data == Put(node[cur].data, k, request.ptr)
           new == Leaf(node[cur].size + 1, data, node[cur].next)
<1>1. request.op = "insert" /\ cur \in Lvs(node) /\ split' = NULL_PTR /\ k \notin Stored(node)
  <2>1. cur \in DOMAIN node /\ k \notin Stored(node) BY DEF insertIntoCurrentLeaf, Inv, Control, Roomy, At
  <2> QED BY <2>1, LeafOrInternal DEF insertIntoCurrentLeaf, At, Return
<1>2. node' = [node EXCEPT ![cur] = new] BY <1>1, LeafIs DEF insertIntoCurrentLeaf
<1>3. new.kind = "leaf" /\ new.data = data BY Constructors
<1> HIDE DEF new
<1>4. Lvs(node') = Lvs(node) /\ node'[cur].data = data /\ \A n \in Lvs(node) \ {cur} : node'[n] = node[n]
  BY <1>1, <1>2, <1>3 DEF Lvs
<1>5. k \notin DOMAIN node[cur].data BY <1>1 DEF Stored
<1>6. \A x, v : x \in DOMAIN data /\ data[x] = v <=> (x \in DOMAIN node[cur].data /\ node[cur].data[x] = v) \/ (x = k /\ v = request.ptr)
  BY <1>5 DEF Put
<1> HIDE DEF data, k
<1>7. PairAdded(node, node', k, request.ptr)
  <2> SUFFICES ASSUME NEW x, NEW v PROVE Holds(node', x, v) <=> Holds(node, x, v) \/ (x = k /\ v = request.ptr)
    BY DEF PairAdded
  <2>1. Holds(node', x, v) <=> \/ x \in DOMAIN data /\ data[x] = v
                               \/ \E n \in Lvs(node) \ {cur} : x \in DOMAIN node[n].data /\ node[n].data[x] = v
    BY <1>1, <1>4 DEF Holds
  <2>2. Holds(node, x, v) <=> \/ x \in DOMAIN node[cur].data /\ node[cur].data[x] = v
                              \/ \E n \in Lvs(node) \ {cur} : x \in DOMAIN node[n].data /\ node[n].data[x] = v
    BY <1>1 DEF Holds
  <2> QED BY <2>1, <2>2, <1>6
<1> QED BY <1>1, <1>7 DEF k

LEMMA splitLeafNodePairs ==
    ASSUME Inv, splitLeafNode
    PROVE  /\ PairAdded(node, node', request.lo, request.ptr) /\ Unique(node')
           /\ request.lo \notin Stored(node) /\ request.op = "insert"
<1> DEFINE k == request.lo
           all == Put(node[cur].data, k, request.ptr)
           low == Lowest(DOMAIN all, HALF)
           high == DOMAIN all \ low
           new == Fresh
           lower == Leaf(Cardinality(low), Restrict(all, low), new)
           upper == Leaf(Cardinality(high), Restrict(all, high), NULL_PTR)
<1>1. request.op = "insert" /\ cur \in Lvs(node) /\ split = NULL_PTR /\ k \notin Stored(node) /\ cur \in DOMAIN node
  <2>1. cur \in DOMAIN node /\ k \notin Stored(node) /\ split = NULL_PTR
    BY DEF splitLeafNode, Inv, Control, Roomy, At
  <2> QED BY <2>1, LeafOrInternal DEF splitLeafNode, At
<1>2. node' = Created([node EXCEPT ![cur] = lower], new, upper) BY <1>1, LeafIs DEF splitLeafNode
<1>3. low \subseteq DOMAIN all BY DEF Lowest
<1> HIDE DEF low
<1>4. /\ lower.kind = "leaf" /\ lower.data = Restrict(all, low)
      /\ upper.kind = "leaf" /\ upper.data = Restrict(all, high)
  BY Constructors
<1> HIDE DEF lower, upper
<1>5. new \notin DOMAIN node
  <2>1. Room(node, Cardinality(Ins(node)) + 2) /\ Nodes(node) /\ Updating
    BY DEF Inv, Roomy, splitLeafNode, At, Updating
  <2>2. Cardinality(Ins(node)) \in Nat BY <2>1, PathIsShort
  <2>3. Cardinality(Free(node)) \in Nat BY IdsAreFinite, FS_Subset, FS_CardinalityType DEF Free
  <2>4. Room(node, (Cardinality(Ins(node)) + 1) + 1) /\ Cardinality(Ins(node)) + 1 \in Nat
    BY <2>1, <2>2, <2>3 DEF Room
  <2> QED BY <2>1, <2>4, FreshIs
<1> HIDE DEF new
<1>6. Written2(node, node', cur, lower, new, upper) BY <1>1, <1>2, <1>5, Created2
<1>7. /\ Lvs(node') = Lvs(node) \cup {new} /\ new \notin Lvs(node)
      /\ node'[cur].data = Restrict(all, low) /\ node'[new].data = Restrict(all, high)
      /\ \A n \in Lvs(node) \ {cur} : node'[n] = node[n]
  BY <1>1, <1>4, <1>5, <1>6 DEF Written2, Lvs
<1>8. k \notin DOMAIN node[cur].data BY <1>1 DEF Stored
<1>9. \A x, v : x \in DOMAIN all /\ all[x] = v <=> (x \in DOMAIN node[cur].data /\ node[cur].data[x] = v) \/ (x = k /\ v = request.ptr)
  BY <1>8 DEF Put
<1>10. DOMAIN all = DOMAIN node[cur].data \cup {k} BY DEF Put
<1> HIDE DEF all, k
<1>11. \A x, v : InEither(Restrict(all, low), Restrict(all, high), x, v) <=> x \in DOMAIN all /\ all[x] = v
  BY <1>3 DEF InEither, Restrict
<1>12. DOMAIN node'[cur].data = low /\ DOMAIN node'[new].data = DOMAIN all \ low BY <1>3, <1>7 DEF Restrict
<1> HIDE DEF high
<1>13. PairAdded(node, node', k, request.ptr)
  <2> SUFFICES ASSUME NEW x, NEW v PROVE Holds(node', x, v) <=> Holds(node, x, v) \/ (x = k /\ v = request.ptr)
    BY DEF PairAdded
  <2>1. Holds(node', x, v) <=> \/ InEither(Restrict(all, low), Restrict(all, high), x, v)
                               \/ \E n \in Lvs(node) \ {cur} : x \in DOMAIN node[n].data /\ node[n].data[x] = v
    BY <1>1, <1>7 DEF Holds, InEither
  <2>2. Holds(node, x, v) <=> \/ x \in DOMAIN node[cur].data /\ node[cur].data[x] = v
                              \/ \E n \in Lvs(node) \ {cur} : x \in DOMAIN node[n].data /\ node[n].data[x] = v
    BY <1>1 DEF Holds
  <2> QED BY <2>1, <2>2, <1>9, <1>11
<1>14. Unique(node')
  <2>1. Unique(node) BY <1>1, UniqueNow
  <2> SUFFICES ASSUME NEW a \in Lvs(node'), NEW b \in Lvs(node'), NEW x \in DOMAIN node'[a].data, x \in DOMAIN node'[b].data
               PROVE  a = b
    BY DEF Unique
  <2>2. ASSUME NEW n \in {cur, new}, NEW l \in Lvs(node) \ {cur}, x \in DOMAIN node'[n].data, x \in DOMAIN node'[l].data
        PROVE  FALSE
    <3>1. x \in DOMAIN node[cur].data \/ x = k BY <1>3, <1>10, <1>12, <2>2
    <3>2. x \in DOMAIN node[l].data BY <1>7, <2>2
    <3>3. x # k BY <1>1, <3>2 DEF Stored, k
    <3> QED BY <1>1, <2>1, <3>1, <3>2, <3>3 DEF Unique
  <2>3. CASE a \in {cur, new} /\ b \in {cur, new} BY <1>12, <2>3
  <2>4. CASE a \notin {cur, new} /\ b \notin {cur, new} BY <1>7, <2>1, <2>4 DEF Unique
  <2> QED BY <1>7, <2>2, <2>3, <2>4
<1> QED BY <1>1, <1>13, <1>14 DEF k

LEMMA EraseFromLeafPairs ==
    ASSUME Inv, EraseFromLeaf
    PROVE  PairRemoved(node, node', request.lo) /\ split' = NULL_PTR /\ split = NULL_PTR /\ request.op = "delete"
<1> DEFINE k == request.lo
           old == node[cur].data
           data == Restrict(old, DOMAIN old \ {k})
           new == Leaf(Cardinality(DOMAIN data), data, node[cur].next)
<1>1. request.op = "delete" /\ cur \in Lvs(node) /\ split = NULL_PTR /\ split' = NULL_PTR
  <2>1. cur \in DOMAIN node /\ split = NULL_PTR BY DEF EraseFromLeaf, Inv, Control, At
  <2> QED BY <2>1, LeafOrInternal DEF EraseFromLeaf, At
<1>2. LeafAt(cur) = node[cur] BY <1>1, LeafIs
<1>3. Unique(node) BY <1>1, UniqueNow
<1>4. CASE k \in DOMAIN old
  <2>1. node' = [node EXCEPT ![cur] = new] BY <1>2, <1>4 DEF EraseFromLeaf
  <2>2. new.kind = "leaf" /\ new.data = data BY Constructors
  <2> HIDE DEF new
  <2>3. Lvs(node') = Lvs(node) /\ node'[cur].data = data /\ \A n \in Lvs(node) \ {cur} : node'[n] = node[n]
    BY <1>1, <2>1, <2>2 DEF Lvs
  <2>4. \A x, v : x \in DOMAIN data /\ data[x] = v <=> x \in DOMAIN old /\ old[x] = v /\ x # k BY DEF Restrict
  <2>5. \A n \in Lvs(node) \ {cur} : k \notin DOMAIN node[n].data BY <1>1, <1>3, <1>4 DEF Unique
  <2> HIDE DEF data, k
  <2>6. ASSUME NEW x, NEW v PROVE Holds(node', x, v) <=> Holds(node, x, v) /\ x # k
    <3>1. Holds(node', x, v) <=> \/ x \in DOMAIN data /\ data[x] = v
                                 \/ \E n \in Lvs(node) \ {cur} : x \in DOMAIN node[n].data /\ node[n].data[x] = v
      BY <1>1, <2>3 DEF Holds
    <3>2. Holds(node, x, v) <=> \/ x \in DOMAIN old /\ old[x] = v
                                \/ \E n \in Lvs(node) \ {cur} : x \in DOMAIN node[n].data /\ node[n].data[x] = v
      BY <1>1 DEF Holds
    <3> QED BY <3>1, <3>2, <2>4, <2>5
  <2> QED BY <2>6, <1>1 DEF PairRemoved, k
<1>5. CASE k \notin DOMAIN old
  <2>1. node' = node BY <1>2, <1>5 DEF EraseFromLeaf
  <2>2. /\ Nodes(node) /\ Sought(node, path, k) /\ k \in Nat /\ path \in Seq(Frames)
        /\ Forest(node, root_ptr, NULL_PTR, path, cur, TRUE) /\ Ordered(node, NULL_PTR, cur)
    <3>1. pc = "descend" /\ Updating BY DEF EraseFromLeaf, At, Updating
    <3> QED BY <1>1, <3>1, CallFacts DEF Inv, Guided, Forest
  <2> HIDE DEF k
  <2>3. EndsAt(node, cur, k) BY <1>1, <2>2, LeafFound
  <2>4. \A n \in Lvs(node) : k \notin DOMAIN node[n].data
    <3>1. \A n \in Lvs(node) \ {cur} : \A x \in DOMAIN node[n].data : x < k \/ k < x BY <2>3 DEF EndsAt
    <3> QED BY <1>5, <2>2, <3>1
  <2> QED BY <2>1, <2>4, <1>1 DEF PairRemoved, Holds, k
<1> QED BY <1>4, <1>5

-----------------------------------------------------------------------------
(* Repairs of leaves *)

\* A leaf lends a pair to another.
LEMMA LeafLends ==
    ASSUME NEW files, NEW files2, NEW s \in Lvs(files), NEW c \in Lvs(files), NEW p \in Ins(files), s # c,
           NEW k \in DOMAIN files[s].data, k \notin DOMAIN files[c].data, NEW next, NEW next2, NEW top, top.kind # "leaf",
           Written3(files, files2, s, LeafWith(Restrict(files[s].data, DOMAIN files[s].data \ {k}), next),
                    c, LeafWith(Put(files[c].data, k, files[s].data[k]), next2), p, top)
    PROVE  SamePairs(files, files2)
<1> DEFINE from == files[s].data
           to == files[c].data
           kept == Restrict(from, DOMAIN from \ {k})
           data == Put(to, k, from[k])
           less == LeafWith(kept, next)
           more == LeafWith(data, next2)
<1>1. less.kind = "leaf" /\ less.data = kept /\ more.kind = "leaf" /\ more.data = data
  BY Constructors DEF LeafWith
<1>2. Written3(files, files2, s, less, c, more, p, top) OBVIOUS
<1>3. \A x, v : InEither(kept, data, x, v) <=> InEither(from, to, x, v) BY LentPairs
<1> HIDE DEF less, more, kept, data
<1>4. DOMAIN files2 = DOMAIN files BY <1>2 DEF Written3, Lvs, Ins
<1>5. /\ files2[s].kind = "leaf" /\ files2[c].kind = "leaf" /\ files2[p].kind # "leaf"
      /\ files2[s].data = kept /\ files2[c].data = data
      /\ \A n \in DOMAIN files \ {s, c, p} : files2[n] = files[n]
  BY <1>1, <1>2 DEF Written3
<1>6. Lvs(files2) = Lvs(files) BY <1>4, <1>5 DEF Lvs, Ins
<1>7. \A n \in Lvs(files) \ {s, c} : files2[n] = files[n] BY <1>5 DEF Lvs, Ins
<1>8. \A x, v : InEither(files2[s].data, files2[c].data, x, v) <=> InEither(files[s].data, files[c].data, x, v)
  BY <1>3, <1>5
<1> QED BY <1>6, <1>7, <1>8, PairsShared

\* A leaf takes over all pairs of another.
LEMMA LeafTakesOver ==
    ASSUME NEW files, NEW files2, NEW c \in Lvs(files), NEW d \in Lvs(files), NEW p \in Ins(files), c # d,
           NEW data, \A k, v : k \in DOMAIN data /\ data[k] = v <=> InEither(files[c].data, files[d].data, k, v),
           NEW next, NEW top, top.kind # "leaf", Pruned(files, files2, c, LeafWith(data, next), p, top, d)
    PROVE  SamePairs(files, files2)
<1> DEFINE left == LeafWith(data, next)
<1>1. left.kind = "leaf" /\ left.data = data BY Constructors DEF LeafWith
<1>2. Pruned(files, files2, c, left, p, top, d) OBVIOUS
<1> HIDE DEF left
<1>3. Lvs(files2) = Lvs(files) \ {d} /\ c \in Lvs(files2) BY <1>1, <1>2 DEF Pruned, Lvs, Ins
<1>4. \A n \in Lvs(files) \ {c, d} : files2[n] = files[n] BY <1>2 DEF Pruned, Lvs, Ins
<1>5. \A k, v : k \in DOMAIN files2[c].data /\ files2[c].data[k] = v <=> InEither(files[c].data, files[d].data, k, v)
  BY <1>1, <1>2 DEF Pruned
<1> QED BY <1>3, <1>4, <1>5, PairsMerged

LEMMA left_redistributionPairs ==
    ASSUME Inv, left_redistribution
    PROVE  SamePairs(node, node')
<1> DEFINE c == LeftSibling
           i == Frame.index - 1
           from == node[c].data
           to == node[cur].data
           k == Max(DOMAIN from)
           kept == Restrict(from, DOMAIN from \ {k})
           dd == Put(to, k, from[k])
           top == Internal(ReplaceAt(node[Parent].keys, i, Max(DOMAIN kept)), Siblings)
<1>1. pc = "refill" /\ HasLeft BY DEF left_redistribution, Refilling
<1>2. Updating /\ path # <<>> /\ cur \in Lvs(node) /\ Filled(node) BY <1>1, RefillIs
<1>3. Neighbours(node, Above(path), i, c, cur) BY <1>1, <1>2, SiblingIs
<1>4. /\ c \in Lvs(node) /\ c # cur /\ c # Parent /\ cur # Parent /\ Parent \in Ins(node)
      /\ c \in DOMAIN node /\ cur \in DOMAIN node /\ Parent \in DOMAIN node /\ Adjacent(node, c, cur)
  BY <1>1, <1>3, PairIs
<1>5. LeafData(from) /\ DOMAIN from \in SUBSET Nat /\ DOMAIN from # {} /\ \A x \in DOMAIN from, y \in DOMAIN to : x < y
  BY <1>2, <1>4, DataIs DEF Filled, Adjacent, Lt
<1>6. k \in DOMAIN from BY <1>5, MaxIs DEF LeafData
<1>7. k \notin DOMAIN to BY <1>5, <1>6
<1>8. Data(c) = from /\ Data(cur) = to /\ LeafAt(c) = node[c] BY <1>2, <1>4, LeafIs
<1>9. node' = [node EXCEPT ![c] = LeafWith(kept, node[c].next), ![cur] = LeafWith(dd, node[cur].next), ![Parent] = top]
  BY <1>8 DEF left_redistribution
<1>10. top.kind # "leaf" BY Constructors
<1> HIDE DEF top
<1>11. Written3(node, node', c, LeafWith(kept, node[c].next), cur, LeafWith(dd, node[cur].next), Parent, top)
  <2> HIDE DEF c, i, from, to, k, kept, dd
  <2> QED BY <1>9, <1>4, Updated3
<1> HIDE DEF c, k
<1> QED BY <1>2, <1>4, <1>6, <1>7, <1>10, <1>11, LeafLends

LEMMA right_redistributionPairs ==
    ASSUME Inv, right_redistribution
    PROVE  SamePairs(node, node')
<1> DEFINE d == RightSibling
           i == Frame.index
           from == node[d].data
           to == node[cur].data
           k == Min(DOMAIN from)
           kept == Restrict(from, DOMAIN from \ {k})
           dc == Put(to, k, from[k])
           top == Internal(ReplaceAt(node[Parent].keys, i, k), Siblings)
<1>1. pc = "refill" /\ HasRight BY DEF right_redistribution, Refilling
<1>2. Updating /\ path # <<>> /\ cur \in Lvs(node) /\ Filled(node) BY <1>1, RefillIs
<1>3. Neighbours(node, Above(path), i, cur, d) BY <1>1, <1>2, SiblingIs
<1>4. /\ d \in Lvs(node) /\ d # cur /\ d # Parent /\ cur # Parent /\ Parent \in Ins(node)
      /\ d \in DOMAIN node /\ cur \in DOMAIN node /\ Parent \in DOMAIN node /\ Adjacent(node, cur, d)
  BY <1>1, <1>3, PairIs
<1>5. DOMAIN from \in SUBSET Nat /\ DOMAIN from # {} /\ \A x \in DOMAIN to, y \in DOMAIN from : x < y
  BY <1>2, <1>4, DataIs DEF Filled, Adjacent, Lt
<1>6. k \in DOMAIN from BY <1>5, MinIs
<1>7. k \notin DOMAIN to BY <1>5, <1>6
<1>8. Data(d) = from /\ Data(cur) = to /\ LeafAt(d) = node[d] BY <1>2, <1>4, LeafIs
<1>9. node' = [node EXCEPT ![d] = LeafWith(kept, node[d].next), ![cur] = LeafWith(dc, node[cur].next), ![Parent] = top]
  BY <1>8 DEF right_redistribution
<1>10. top.kind # "leaf" BY Constructors
<1> HIDE DEF top
<1>11. Written3(node, node', d, LeafWith(kept, node[d].next), cur, LeafWith(dc, node[cur].next), Parent, top)
  <2> HIDE DEF d, i, from, to, k, kept, dc
  <2> QED BY <1>9, <1>4, Updated3
<1> HIDE DEF d, k
<1> QED BY <1>2, <1>4, <1>6, <1>7, <1>10, <1>11, LeafLends

\* Two neighbouring leaves share no key.
LEMMA NeighboursDisjoint ==
    ASSUME Inv, NEW c \in Lvs(node), NEW d \in Lvs(node), Lt(node, c, d)
    PROVE  DOMAIN node[c].data \cap DOMAIN node[d].data = {}
<1> SUFFICES ASSUME NEW x \in DOMAIN node[c].data, x \in DOMAIN node[d].data PROVE FALSE OBVIOUS
<1>1. x < x BY DEF Lt
<1>2. DOMAIN node[c].data \in SUBSET Nat BY DataIs
<1> QED BY <1>1, <1>2

LEMMA left_mergePairs ==
    ASSUME Inv, left_merge
    PROVE  SamePairs(node, node')
<1> DEFINE c == LeftSibling
           i == Frame.index - 1
           data == Merge(node[c].data, node[cur].data)
           left == LeafWith(data, node[cur].next)
           top == Internal(RemoveAt(node[Parent].keys, i), RemoveAt(Siblings, Frame.index))
<1>1. pc = "refill" /\ HasLeft BY DEF left_merge, Refilling
<1>2. Updating /\ path # <<>> /\ cur \in Lvs(node) BY <1>1, RefillIs
<1>3. Neighbours(node, Above(path), i, c, cur) BY <1>1, <1>2, SiblingIs
<1>4. /\ c \in Lvs(node) /\ c # cur /\ c # Parent /\ cur # Parent /\ Parent \in Ins(node)
      /\ c \in DOMAIN node /\ cur \in DOMAIN node /\ Parent \in DOMAIN node /\ Lt(node, c, cur)
  BY <1>1, <1>3, PairIs DEF Adjacent
<1>5. Data(c) = node[c].data /\ Data(cur) = node[cur].data BY <1>2, <1>4, LeafIs
<1>6. node' = Without([node EXCEPT ![c] = left, ![Parent] = top], cur) BY <1>5 DEF left_merge
<1>7. top.kind # "leaf" BY Constructors
<1> HIDE DEF top, c
<1>8. Pruned(node, node', c, left, Parent, top, cur)
  <2> HIDE DEF left
  <2> QED BY <1>6, <1>4, PrunedIs
<1>9. \A k, v : k \in DOMAIN data /\ data[k] = v <=> InEither(node[c].data, node[cur].data, k, v)
  BY <1>2, <1>4, NeighboursDisjoint, MergedPairs
<1> HIDE DEF data
<1> QED BY <1>2, <1>4, <1>7, <1>8, <1>9, LeafTakesOver

LEMMA right_mergePairs ==
    ASSUME Inv, right_merge
    PROVE  SamePairs(node, node')
<1> DEFINE d == RightSibling
           i == Frame.index
           data == Merge(node[cur].data, node[d].data)
           left == LeafWith(data, node[d].next)
           top == Internal(RemoveAt(node[Parent].keys, i), RemoveAt(Siblings, i + 1))
<1>1. pc = "refill" /\ HasRight BY DEF right_merge, Refilling
<1>2. Updating /\ path # <<>> /\ cur \in Lvs(node) BY <1>1, RefillIs
<1>3. Neighbours(node, Above(path), i, cur, d) BY <1>1, <1>2, SiblingIs
<1>4. /\ d \in Lvs(node) /\ d # cur /\ d # Parent /\ cur # Parent /\ Parent \in Ins(node)
      /\ d \in DOMAIN node /\ cur \in DOMAIN node /\ Parent \in DOMAIN node /\ Lt(node, cur, d)
  BY <1>1, <1>3, PairIs DEF Adjacent
<1>5. Data(d) = node[d].data /\ Data(cur) = node[cur].data /\ LeafAt(d) = node[d] BY <1>2, <1>4, LeafIs
<1>6. node' = Without([node EXCEPT ![cur] = left, ![Parent] = top], d) BY <1>5 DEF right_merge
<1>7. top.kind # "leaf" BY Constructors
<1> HIDE DEF top, d
<1>8. Pruned(node, node', cur, left, Parent, top, d)
  <2> HIDE DEF left
  <2> QED BY <1>6, <1>4, PrunedIs
<1>9. \A k, v : k \in DOMAIN data /\ data[k] = v <=> InEither(node[cur].data, node[d].data, k, v)
  BY <1>2, <1>4, NeighboursDisjoint, MergedPairs
<1> HIDE DEF data
<1> QED BY <1>2, <1>4, <1>7, <1>8, <1>9, LeafTakesOver

-----------------------------------------------------------------------------
(* Scanning the leaves *)

LEMMA WantedIs ==
    ASSUME NEW files, Nodes(files), NEW low, NEW high, NEW c \in Lvs(files)
    PROVE  /\ Stored(files) \in SUBSET Nat /\ IsFiniteSet(Stored(files))
           /\ Wanted(files, low, high) \in SUBSET Nat /\ IsFiniteSet(Wanted(files, low, high))
           /\ Here(files, low, high, c) \in SUBSET Nat /\ IsFiniteSet(Here(files, low, high, c))
           /\ Passed(files, low, high, c) \in SUBSET Nat /\ IsFiniteSet(Passed(files, low, high, c))
           /\ Here(files, low, high, c) \subseteq Wanted(files, low, high)
           /\ Passed(files, low, high, c) \subseteq Wanted(files, low, high)
           /\ \A x \in Passed(files, low, high, c), y \in Here(files, low, high, c) : x < y
<1>1. Stored(files) \subseteq Keys BY LeafFacts DEF Stored
<1>2. Stored(files) \in SUBSET Nat /\ IsFiniteSet(Stored(files)) BY <1>1, KeysAssumption, FS_Subset
<1>3. Wanted(files, low, high) \subseteq Stored(files) BY DEF Wanted
<1>4. Passed(files, low, high, c) \subseteq Wanted(files, low, high) BY DEF Passed
<1>5. Here(files, low, high, c) \subseteq Wanted(files, low, high) BY DEF Here, Wanted, Stored
<1>6. \A x \in Passed(files, low, high, c), y \in Here(files, low, high, c) : x < y BY DEF Passed, Here
<1> QED BY <1>2, <1>3, <1>4, <1>5, <1>6, FS_Subset

LEMMA EmptyLeafIsAlone ==
    ASSUME Inv, split = NULL_PTR, pc # "refill", NEW c \in Lvs(node), DOMAIN node[c].data = {}
    PROVE  Lvs(node) = {c}
<1>1. Occupied(node, root_ptr, NULL_PTR) /\ c # NULL_PTR BY NoNull DEF Inv, MayBeEmpty, MayLack, Lvs
<1>2. Cardinality(DOMAIN node[c].data) = 0 BY FS_EmptySet
<1>3. c = root_ptr
  <2>1. c = root_ptr \/ HALF <= Cardinality(DOMAIN node[c].data) BY <1>1 DEF Occupied, Pairs1
  <2>2. ~(HALF <= Cardinality(DOMAIN node[c].data)) BY <1>2, HalfIs
  <2> QED BY <2>1, <2>2
<1>4. DOMAIN node = {c} BY <1>3, RootAlone
<1> QED BY <1>4 DEF Lvs

\* The leaf that the search for low ends at is the first that can hold a match.
LEMMA FirstLeaf ==
    ASSUME Inv, split = NULL_PTR, pc # "refill", NEW c \in Lvs(node), NEW low \in Nat, NEW high, EndsAt(node, c, low)
    PROVE  Passed(node, low, high, c) = {} /\ LowFound(node, low, c)
<1>1. Nodes(node) BY DEF Inv
<1>2. ASSUME NEW k \in Passed(node, low, high, c) PROVE FALSE
  <2>1. k \in Stored(node) /\ low <= k /\ k \in Nat /\ \A y \in DOMAIN node[c].data : k < y
    BY <1>1, WantedIs DEF Passed, Wanted
  <2>2. PICK l \in Lvs(node) : k \in DOMAIN node[l].data BY <2>1 DEF Stored
  <2>3. l # c BY <2>1, <2>2
  <2>4. ~(k < low) BY <2>1
  <2>5. Lt(node, c, l) BY <2>2, <2>3, <2>4 DEF EndsAt
  <2>6. PICK y \in DOMAIN node[c].data : TRUE BY <2>3, EmptyLeafIsAlone
  <2>7. y < k /\ k < y /\ y \in Nat BY <1>1, <2>1, <2>2, <2>5, <2>6, LeafFacts DEF Lt
  <2> QED BY <2>1, <2>7
<1>3. LowFound(node, low, c)
  <2>1. ASSUME NEW l \in Lvs(node), low \in DOMAIN node[l].data PROVE l = c BY <2>1 DEF EndsAt
  <2> QED BY <2>1 DEF LowFound, Stored
<1> QED BY <1>2, <1>3

\* On the way to the next leaf the matches of this one are passed.
LEMMA NextLeaf ==
    ASSUME Inv, split = NULL_PTR, pc # "refill", NEW c \in Lvs(node), NEW low \in Nat, NEW high \in Nat,
           node[c].next # NULL_PTR, \A k \in DOMAIN node[c].data : ~(k > high)
    PROVE  LET n == node[c].next
           IN  /\ n \in Lvs(node)
               /\ Passed(node, low, high, n) = Passed(node, low, high, c) \cup Here(node, low, high, c)
               /\ LowFound(node, low, c) => LowFound(node, low, n)
<1> DEFINE n == node[c].next
<1>1. Nodes(node) /\ Follows(node, c, n) BY DEF Inv, Chain
<1>2. n \in Lvs(node) /\ n # c /\ Lt(node, c, n) /\ \A l \in Lvs(node) \ {c, n} : Lt(node, l, c) \/ Lt(node, n, l)
  BY <1>1 DEF Follows
<1> HIDE DEF n
<1>3. PICK y \in DOMAIN node[c].data : TRUE BY <1>2, EmptyLeafIsAlone
<1>4. PICK z \in DOMAIN node[n].data : TRUE BY <1>2, EmptyLeafIsAlone
<1>5. DOMAIN node[c].data \subseteq Nat /\ DOMAIN node[n].data \subseteq Nat /\ Stored(node) \subseteq Nat
  BY <1>1, <1>2, LeafFacts, WantedIs
<1>6. ASSUME NEW k PROVE k \in Passed(node, low, high, n) <=> k \in Passed(node, low, high, c) \cup Here(node, low, high, c)
  <2>1. ASSUME k \in Passed(node, low, high, n), k \notin Here(node, low, high, c)
        PROVE  k \in Passed(node, low, high, c)
    <3>1. k \in Wanted(node, low, high) /\ k \in Stored(node) /\ k \in Nat /\ k < z
      BY <2>1, <1>4, <1>5 DEF Passed, Wanted
    <3>2. PICK l \in Lvs(node) : k \in DOMAIN node[l].data BY <3>1 DEF Stored
    <3>3. l # c BY <2>1, <3>1, <3>2 DEF Here, Wanted
    <3>4. l # n BY <2>1, <3>1, <3>2 DEF Passed
    <3>5. ~Lt(node, n, l)
      <4> SUFFICES ASSUME Lt(node, n, l) PROVE FALSE OBVIOUS
      <4>1. z < k BY <1>4, <3>2 DEF Lt
      <4> QED BY <4>1, <3>1, <1>4, <1>5
    <3>6. Lt(node, l, c) BY <1>2, <3>2, <3>3, <3>4, <3>5
    <3> QED BY <3>1, <3>2, <3>6 DEF Passed, Lt
  <2>2. ASSUME k \in Passed(node, low, high, c) PROVE k \in Passed(node, low, high, n)
    <3>1. k \in Wanted(node, low, high) /\ k \in Nat /\ k < y BY <2>2, <1>3, <1>5 DEF Passed, Wanted
    <3>2. ASSUME NEW x \in DOMAIN node[n].data PROVE k < x
      <4>1. y < x /\ x \in Nat /\ y \in Nat BY <1>2, <1>3, <1>5 DEF Lt
      <4> QED BY <3>1, <4>1
    <3> QED BY <3>1, <3>2 DEF Passed
  <2>3. ASSUME k \in Here(node, low, high, c) PROVE k \in Passed(node, low, high, n)
    <3>1. k \in Wanted(node, low, high) /\ k \in DOMAIN node[c].data BY <2>3, <1>1, WantedIs DEF Here
    <3> QED BY <3>1, <1>2 DEF Passed, Lt
  <2> QED BY <2>1, <2>2, <2>3
<1>7. Passed(node, low, high, n) = Passed(node, low, high, c) \cup Here(node, low, high, c) BY <1>6
<1>8. LowFound(node, low, c) => LowFound(node, low, n)
  <2> SUFFICES ASSUME LowFound(node, low, c), low \in Stored(node), NEW x \in DOMAIN node[n].data PROVE low < x
    BY DEF LowFound
  <2>1. CASE low \in DOMAIN node[c].data BY <2>1, <1>2 DEF Lt
  <2>2. CASE \A v \in DOMAIN node[c].data : low < v
    <3>1. low < y /\ y < x /\ x \in Nat /\ y \in Nat BY <2>2, <1>2, <1>3, <1>5 DEF Lt
    <3> QED BY <3>1
  <2> QED BY <2>1, <2>2 DEF LowFound
<1> QED BY <1>2, <1>7, <1>8 DEF n

\* What a scan has followed when it is done with a leaf comes before all that
\* it has not, and is everything when it looks for a single key.
LEMMA ScanSoFar ==
    ASSUME Inv, split = NULL_PTR, pc # "refill", NEW c \in Lvs(node), NEW low \in Nat, NEW high \in Nat
    PROVE  LET done == Passed(node, low, high, c) \cup Here(node, low, high, c)
               rest == Wanted(node, low, high) \ done
           IN  /\ \A x \in done, y \in rest : x < y
               /\ low = high /\ LowFound(node, low, c) => rest = {}
<1> DEFINE done == Passed(node, low, high, c) \cup Here(node, low, high, c)
           rest == Wanted(node, low, high) \ done
<1>1. Nodes(node) /\ Total(node) BY UniqueNow DEF Inv
<1>2. DOMAIN node[c].data \subseteq Nat /\ Stored(node) \subseteq Nat BY <1>1, LeafFacts, WantedIs
<1>3. ASSUME NEW x \in done, NEW y \in rest PROVE x < y
  <2>1. y \in Wanted(node, low, high) /\ y \notin Passed(node, low, high, c) /\ y \notin Here(node, low, high, c) /\ y \in Nat
    BY <1>2 DEF Wanted
  <2>2. PICK l \in Lvs(node) : y \in DOMAIN node[l].data BY <2>1 DEF Wanted, Stored
  <2>3. l # c BY <2>1, <2>2 DEF Here, Wanted
  <2>4. ~Lt(node, l, c) BY <2>1, <2>2 DEF Passed, Lt
  <2>5. Lt(node, c, l) BY <1>1, <2>2, <2>3, <2>4 DEF Total
  <2>6. CASE x \in Here(node, low, high, c) BY <2>2, <2>5, <2>6 DEF Here, Lt
  <2>7. CASE x \in Passed(node, low, high, c)
    <3>1. PICK z \in DOMAIN node[c].data : TRUE BY <2>2, <2>3, EmptyLeafIsAlone
    <3>2. x < z /\ x \in Nat BY <2>7, <3>1, <1>2 DEF Passed, Wanted
    <3>3. z < y /\ z \in Nat BY <2>2, <2>5, <3>1, <1>2 DEF Lt
    <3> QED BY <2>1, <3>2, <3>3
  <2> QED BY <2>6, <2>7
<1>4. ASSUME low = high, LowFound(node, low, c), NEW y \in rest PROVE FALSE
  <2>1. y \in Stored(node) /\ y = low BY <1>2, <1>4 DEF Wanted
  <2>2. CASE low \in DOMAIN node[c].data BY <2>1, <2>2, <1>4 DEF Here
  <2>3. CASE \A v \in DOMAIN node[c].data : low < v BY <2>1, <2>3, <1>4 DEF Passed
  <2> QED BY <2>1, <2>2, <2>3, <1>4 DEF LowFound
<1> HIDE DEF done, rest
<1>5. low = high /\ LowFound(node, low, c) => rest = {} BY <1>4
<1> QED BY <1>3, <1>5 DEF done, rest

-----------------------------------------------------------------------------
(* The invariant of a scan *)

LEMMA ScanFacts ==
    ASSUME Inv, Scanning
    PROVE  /\ split = NULL_PTR /\ pc = "descend" /\ pc # "refill" /\ request.op = "range" /\ request \in Requests
           /\ request.lo \in Nat /\ request.hi \in Nat /\ request.lo \in Keys /\ request.hi \in Keys
           /\ cur \in DOMAIN node /\ path \in Seq(Frames) /\ Nodes(node)
<1>1. /\ split = NULL_PTR /\ pc = "descend" /\ request.op = "range" /\ request \in Requests
      /\ cur \in DOMAIN node /\ path \in Seq(Frames) /\ Nodes(node)
  BY DEF Inv, Control, At, Scanning
<1>2. request.lo \in Keys /\ request.hi \in Keys BY <1>1 DEF Requests
<1> QED BY <1>1, <1>2, KeysAssumption

\* Where the search for the low end of the range leads.
LEMMA ArrivedInv ==
    ASSUME Inv, split = NULL_PTR, pc # "refill", node' = node, root_ptr' = root_ptr, result' = <<>>,
           request'.op = "range", request'.lo \in Nat, path' \in Seq(Frames),
           Sought(node, path', request'.lo), Forest(node, root_ptr, NULL_PTR, path', cur', TRUE)
    PROVE  ScanInv'
<1>1. ASSUME cur' \in Lvs(node)
      PROVE  /\ result' = ReadOff(PairsOf(node), Passed(node, request'.lo, request'.hi, cur'))
             /\ LowFound(node, request'.lo, cur')
  <2>1. Nodes(node) /\ Ordered(node, NULL_PTR, cur') BY DEF Inv, Ordered
  <2>2. EndsAt(node, cur', request'.lo) BY <1>1, <2>1, LeafFound
  <2>3. Passed(node, request'.lo, request'.hi, cur') = {} /\ LowFound(node, request'.lo, cur')
    BY <1>1, <2>2, FirstLeaf
  <2> QED BY <2>3, ReadOffEmpty
<1> QED BY <1>1 DEF ScanInv, Scanning, At

LEMMA BeginScan ==
    ASSUME Inv, NEW req \in Requests, Begin(req)
    PROVE  ScanInv'
<1>1. /\ pc = "idle" /\ pc' = "descend" /\ request' = req /\ cur' = root_ptr /\ result' = <<>>
      /\ node' = node /\ root_ptr' = root_ptr /\ path' = <<>> /\ split = NULL_PTR
  BY IdleFacts DEF Begin
<1>2. CASE req.op # "range" BY <1>1, <1>2 DEF ScanInv, Scanning, At
<1>3. CASE req.op = "range"
  <2>1. PICK h, par, slot : Shape(node, root_ptr, NULL_PTR, h, par, slot) BY <1>1 DEF Inv, Forest
  <2>2. Forest(node, root_ptr, NULL_PTR, <<>>, root_ptr, TRUE) BY <2>1, StackStart DEF Forest
  <2>3. Sought(node, <<>>, req.lo) /\ <<>> \in Seq(Frames) BY DEF Sought
  <2>4. req.lo \in Nat
    <3>1. req.lo \in Keys BY DEF Requests
    <3> QED BY <3>1, KeysAssumption
  <2> QED BY <1>1, <1>3, <2>2, <2>3, <2>4, ArrivedInv
<1> QED BY <1>2, <1>3

LEMMA DescendScan ==
    ASSUME Inv, ScanInv, Descend
    PROVE  ScanInv'
<1> DEFINE i == ChildIndex(cur, request.lo)
           q == Append(path, [node |-> cur, index |-> i])
<1>1. /\ pc = "descend" /\ ~IsLeaf(cur) /\ path' = q /\ cur' = node[cur].ptrs[i]
      /\ node' = node /\ root_ptr' = root_ptr /\ pc' = pc /\ request' = request /\ result' = result
  BY DEF Descend
<1>2. CASE request.op # "range" BY <1>1, <1>2 DEF ScanInv, Scanning, At
<1>3. CASE request.op = "range"
  <2>1. Scanning BY <1>1, <1>3 DEF Scanning, At
  <2>2. /\ split = NULL_PTR /\ pc # "refill" /\ request.lo \in Nat /\ cur \in DOMAIN node /\ path \in Seq(Frames) /\ Nodes(node)
    BY <2>1, ScanFacts
  <2>3. cur \in Ins(node) BY <1>1, <2>2, LeafOrInternal
  <2>4. result = <<>> /\ Sought(node, path, request.lo) /\ Forest(node, root_ptr, NULL_PTR, path, cur, TRUE)
    BY <2>1, <2>3 DEF ScanInv
  <2>5. PICK h, par, slot : Shape(node, root_ptr, NULL_PTR, h, par, slot) /\ Stack(node, root_ptr, path, cur, h)
    BY <2>4 DEF Forest
  <2>6. i \in 1 .. Len(node[cur].ptrs)
    <3> DEFINE keys == node[cur].keys
    <3>1. PICK lo, hi : Bounds(node, lo, hi) BY DEF Inv, Ordered
    <3>2. Sorted(keys) /\ keys \in Seq(Keys) /\ Len(node[cur].ptrs) = Len(keys) + 1
      BY <2>2, <2>3, <3>1, NodeFacts DEF Bounds
    <3>3. i = Cardinality({j \in DOMAIN keys : keys[j] < request.lo}) + 1 BY DEF ChildIndex
    <3> HIDE DEF keys, i
    <3>4. keys \in Seq(Nat)
      <4>1. keys \in [1 .. Len(keys) -> Keys] /\ Len(keys) \in Nat BY <3>2, LenProperties
      <4>2. keys \in [1 .. Len(keys) -> Nat] BY <4>1, KeysAssumption
      <4> QED BY <4>1, <4>2
    <3>5. i \in 1 .. Len(keys) + 1 BY <2>2, <3>2, <3>3, <3>4, ChildIndexIs
    <3> QED BY <3>2, <3>5 DEF keys
  <2>7. i = Cardinality({j \in DOMAIN node[cur].keys : node[cur].keys[j] < request.lo}) + 1 BY DEF ChildIndex
  <2> HIDE DEF i
  <2>8. q \in Seq(Frames) /\ Stack(node, root_ptr, q, node[cur].ptrs[i], h) /\ Sought(node, q, request.lo)
    BY <2>2, <2>3, <2>4, <2>5, <2>6, <2>7, WayDown
  <2> HIDE DEF q
  <2>9. Forest(node, root_ptr, NULL_PTR, q, node[cur].ptrs[i], TRUE) BY <2>5, <2>8 DEF Forest
  <2> QED BY <1>1, <1>3, <2>2, <2>4, <2>8, <2>9, ArrivedInv
<1> QED BY <1>2, <1>3

LEMMA RangeLeafIs ==
    ASSUME Inv, ScanInv, RangeLeaf
    PROVE  /\ Scanning /\ cur \in Lvs(node) /\ node' = node /\ root_ptr' = root_ptr /\ LowFound(node, request.lo, cur)
           /\ result' = ReadOff(PairsOf(node), Passed(node, request.lo, request.hi, cur) \cup Here(node, request.lo, request.hi, cur))
           /\ \/ Return
              \/ /\ node[cur].next # NULL_PTR /\ \A k \in DOMAIN node[cur].data : ~(k > request.hi)
                 /\ cur' = node[cur].next /\ UNCHANGED <<pc, request, path, split>>
<1> DEFINE S == Passed(node, request.lo, request.hi, cur)
           T == Here(node, request.lo, request.hi, cur)
           matches == Ascending(T)
           found == [i \in DOMAIN matches |-> node[cur].data[matches[i]]]
           beyond == \E k \in DOMAIN node[cur].data : k > request.hi
<1>1. Scanning /\ IsLeaf(cur) BY DEF RangeLeaf, Scanning
<1>2. split = NULL_PTR /\ pc # "refill" /\ cur \in DOMAIN node /\ Nodes(node) /\ request.lo \in Nat /\ request.hi \in Nat
  BY <1>1, ScanFacts
<1>3. cur \in Lvs(node) BY <1>1, <1>2, LeafOrInternal
<1>4. result = ReadOff(PairsOf(node), S) /\ LowFound(node, request.lo, cur) BY <1>1, <1>3 DEF ScanInv
<1>5. LeafAt(cur) = node[cur] BY <1>3, LeafIs
<1>6. /\ result' = result \o found
      /\ IF beyond \/ node[cur].next = NULL_PTR THEN Return
         ELSE cur' = node[cur].next /\ UNCHANGED <<pc, request, path, split>>
      /\ node' = node /\ root_ptr' = root_ptr
  BY <1>5 DEF RangeLeaf, Here
<1>7. found = ReadOff(PairsOf(node), T)
  <2>1. Unique(node) BY <1>2, UniqueNow
  <2>2. \A k \in DOMAIN node[cur].data : PairsOf(node)[k] = node[cur].data[k] BY <1>3, <2>1, HeldPairs DEF Holds
  <2>3. T \subseteq DOMAIN node[cur].data BY DEF Here
  <2> HIDE DEF T
  <2>4. T \in SUBSET Nat /\ IsFiniteSet(T) BY <1>2, <1>3, WantedIs DEF T
  <2>5. \A i \in DOMAIN matches : matches[i] \in T BY <2>4, AscendingIs, ZenonT(40)
  <2> QED BY <2>2, <2>3, <2>5 DEF ReadOff
<1>8. ReadOff(PairsOf(node), S \cup T) = ReadOff(PairsOf(node), S) \o ReadOff(PairsOf(node), T)
  <2>1. /\ S \in SUBSET Nat /\ IsFiniteSet(S) /\ T \in SUBSET Nat /\ IsFiniteSet(T) /\ \A x \in S, y \in T : x < y
    BY <1>2, <1>3, WantedIs
  <2> HIDE DEF S, T
  <2> QED BY <2>1, ReadOffUnion
<1> HIDE DEF S, T, found, matches
<1>9. result' = ReadOff(PairsOf(node), S \cup T) BY <1>4, <1>6, <1>7, <1>8
<1> QED BY <1>1, <1>3, <1>4, <1>6, <1>9 DEF S, T

LEMMA RangeLeafScan ==
    ASSUME Inv, ScanInv, RangeLeaf
    PROVE  ScanInv'
<1>1. /\ Scanning /\ cur \in Lvs(node) /\ node' = node /\ root_ptr' = root_ptr /\ LowFound(node, request.lo, cur)
      /\ result' = ReadOff(PairsOf(node), Passed(node, request.lo, request.hi, cur) \cup Here(node, request.lo, request.hi, cur))
      /\ \/ Return
         \/ /\ node[cur].next # NULL_PTR /\ \A k \in DOMAIN node[cur].data : ~(k > request.hi)
            /\ cur' = node[cur].next /\ UNCHANGED <<pc, request, path, split>>
  BY RangeLeafIs
<1>2. CASE Return BY <1>2 DEF Return, ScanInv, Scanning, At
<1>3. CASE ~Return
  <2>1. /\ node[cur].next # NULL_PTR /\ \A k \in DOMAIN node[cur].data : ~(k > request.hi)
        /\ cur' = node[cur].next /\ request' = request /\ pc' = pc
    BY <1>1, <1>3
  <2>2. split = NULL_PTR /\ pc # "refill" /\ request.lo \in Nat /\ request.hi \in Nat /\ request.op = "range"
    BY <1>1, ScanFacts
  <2>3. LET n == node[cur].next
        IN  /\ n \in Lvs(node)
            /\ Passed(node, request.lo, request.hi, n)
                  = Passed(node, request.lo, request.hi, cur) \cup Here(node, request.lo, request.hi, cur)
            /\ LowFound(node, request.lo, cur) => LowFound(node, request.lo, n)
    BY <1>1, <2>1, <2>2, NextLeaf
  <2>4. cur' \in Lvs(node) /\ cur' \notin Ins(node) BY <2>1, <2>3 DEF Lvs, Ins
  <2> QED BY <1>1, <2>1, <2>2, <2>3, <2>4 DEF ScanInv, Scanning, At
<1> QED BY <1>2, <1>3

-----------------------------------------------------------------------------
(* Each step does to the map what Index allows *)

LEMMA UnnoticedPairs ==
    ASSUME Unique(node), Unique(node'), SamePairs(node, node')
    PROVE  Pairs' = Pairs
<1>1. PairsOf(node') = PairsOf(node) BY SameMap
<1> QED BY <1>1, PairsAre, PairsWillBe

\* Outside the way down the call has been answered as far as the map goes.
LEMMA UnnoticedRepair ==
    ASSUME Unique(node), Unique(node'), SamePairs(node, node'), pc # "descend", pc' # "descend", result' = result
    PROVE  Unnoticed /\ ScanInv'
<1>1. Pairs' = Pairs BY UnnoticedPairs
<1>2. asked' = asked /\ answer' = answer BY DEF asked, answer
<1>3. ScanInv' BY DEF ScanInv, Scanning, At
<1> QED BY <1>1, <1>2, <1>3 DEF Unnoticed

LEMMA RepairsUnnoticed ==
    ASSUME MapInv, Inv',
           \/ insert_into_existing_node \/ split_and_create_new_node \/ GrowRoot
           \/ left_redistribution \/ left_merge \/ right_redistribution \/ right_merge
           \/ ReturnToParent \/ leftRedistribution \/ leftMerge \/ LeftSiblingMissing \/ ShrinkRoot
    PROVE  Unnoticed /\ ScanInv'
<1>1. Inv /\ Unique(node) BY DEF MapInv
<1>2. CASE insert_into_existing_node \/ split_and_create_new_node \/ GrowRoot
  <2>1. pc # "descend" /\ pc' # "descend" /\ result' = result
    BY <1>2 DEF insert_into_existing_node, split_and_create_new_node, GrowRoot, At, Return
  <2>2. SameLeaves(node, node')
    BY <1>1, <1>2, insert_into_existing_nodeLeaves, split_and_create_new_nodeLeaves, GrowRootLeaves
  <2>3. SamePairs(node, node') /\ Unique(node') BY <1>1, <2>2, SameLeavesSamePairs
  <2> QED BY <1>1, <2>1, <2>3, UnnoticedRepair
<1>3. CASE ReturnToParent \/ leftRedistribution \/ leftMerge \/ LeftSiblingMissing \/ ShrinkRoot
  <2>1. pc # "descend" /\ pc' # "descend" /\ result' = result
    BY <1>3 DEF ReturnToParent, leftRedistribution, leftMerge, LeftSiblingMissing, ShrinkRoot, Repairing, At, Return
  <2>2. ReturnToParent \/ LeftSiblingMissing => node' = node BY DEF ReturnToParent, LeftSiblingMissing
  <2>3. SameLeaves(node, node')
    BY <1>1, <1>3, <2>2, ReadingLeaves, leftRedistributionLeaves, leftMergeLeaves, ShrinkRootLeaves
  <2>4. SamePairs(node, node') /\ Unique(node') BY <1>1, <2>3, SameLeavesSamePairs
  <2> QED BY <1>1, <2>1, <2>4, UnnoticedRepair
<1>4. CASE left_redistribution \/ left_merge \/ right_redistribution \/ right_merge
  <2>1. pc = "refill" /\ pc' = "unwind" /\ result' = result /\ split' = split
    BY <1>4 DEF left_redistribution, left_merge, right_redistribution, right_merge, Refilling, LeafDone
  <2>2. SamePairs(node, node')
    BY <1>1, <1>4, left_redistributionPairs, left_mergePairs, right_redistributionPairs, right_mergePairs
  <2>3. split' = NULL_PTR BY <1>1, <2>1 DEF Inv, Control, At
  <2>4. Unique(node') BY <2>3, UniqueNext
  <2> QED BY <1>1, <2>1, <2>2, <2>4, UnnoticedRepair
<1> QED BY <1>2, <1>3, <1>4

LEMMA DescendUnnoticed ==
    ASSUME MapInv, Descend
    PROVE  Unnoticed /\ ScanInv'
<1>1. node' = node /\ pc' = pc /\ request' = request /\ result' = result BY DEF Descend
<1>2. Pairs' = Pairs BY <1>1, PairsAre, PairsWillBe
<1>3. asked' = asked /\ answer' = answer BY <1>1 DEF asked, answer
<1> QED BY <1>1, <1>2, <1>3, DescendScan DEF Unnoticed, MapInv

LEMMA BeginAsks ==
    ASSUME MapInv, NEW req \in Requests, Begin(req)
    PROVE  Unique(node') /\ ScanInv' /\ Map!Ask
<1>1. pc = "idle" /\ pc' = "descend" /\ request' = req /\ node' = node BY DEF Begin
<1>2. Unique(node') /\ ScanInv' BY <1>1, BeginScan DEF MapInv
<1>3. Pairs' = Pairs BY <1>1, PairsAre, PairsWillBe
<1>4. asked = NoRequest /\ asked' = req /\ answer' = <<>> BY <1>1 DEF asked, answer
<1>5. req \in Map!Requests BY DEF Requests, Map!Requests
<1> QED BY <1>2, <1>3, <1>4, <1>5 DEF Map!Ask, Map!NoRequest, NoRequest

LEMMA InsertsOnce ==
    ASSUME MapInv, Inv', insertIntoCurrentLeaf \/ splitLeafNode
    PROVE  Unique(node') /\ ScanInv' /\ Map!Insert
<1> DEFINE k == request.lo
           rp == request.ptr
           f == PairsOf(node)
           g == [x \in Stored(node) \cup {k} |-> IF x \in Stored(node) THEN f[x] ELSE rp]
<1>1. Inv /\ Unique(node) /\ ScanInv BY DEF MapInv
<1>2. PairAdded(node, node', k, rp) /\ Unique(node') /\ k \notin Stored(node) /\ request.op = "insert"
  BY <1>1, insertIntoCurrentLeafPairs, splitLeafNodePairs, UniqueNext
<1>3. pc = "descend" /\ pc' # "descend" /\ result' = result
  BY DEF insertIntoCurrentLeaf, splitLeafNode, At, Return
<1>4. ScanInv' BY <1>3 DEF ScanInv, Scanning, At
<1>5. asked = request /\ asked' = NoRequest /\ answer = <<>> /\ answer' = <<>>
  BY <1>1, <1>2, <1>3 DEF asked, answer, ScanInv
<1>6. PairsOf(node') = g
  <2>1. DOMAIN g = Stored(node) \cup {k} /\ g = [x \in DOMAIN g |-> g[x]] OBVIOUS
  <2>2. ASSUME NEW x, NEW v PROVE Holds(node', x, v) <=> x \in DOMAIN g /\ v = g[x]
    <3>1. Holds(node', x, v) <=> Holds(node, x, v) \/ (x = k /\ v = rp) BY <1>2 DEF PairAdded
    <3>2. Holds(node, x, v) <=> x \in Stored(node) /\ f[x] = v BY <1>1, HeldPairs
    <3> QED BY <1>2, <3>1, <3>2
  <2> HIDE DEF g
  <2> QED BY <1>2, <2>1, <2>2, MapIs
<1>7. DOMAIN f = Stored(node) BY DEF PairsOf
<1>8. Pairs = f /\ Pairs' = g BY <1>6, PairsAre, PairsWillBe
<1> HIDE DEF f
<1>9. Pairs' = [x \in DOMAIN Pairs \cup {asked.lo} |-> IF x \in DOMAIN Pairs THEN Pairs[x] ELSE asked.ptr]
  BY <1>5, <1>7, <1>8
<1> QED BY <1>2, <1>4, <1>5, <1>9 DEF Map!Insert, Map!Done, Map!NoRequest, NoRequest

LEMMA DeletesOnce ==
    ASSUME MapInv, Inv', EraseFromLeaf
    PROVE  Unique(node') /\ ScanInv' /\ Map!Delete
<1> DEFINE k == request.lo
           f == PairsOf(node)
           g == [x \in Stored(node) \ {k} |-> f[x]]
<1>1. Inv /\ Unique(node) /\ ScanInv BY DEF MapInv
<1>2. PairRemoved(node, node', k) /\ Unique(node') /\ request.op = "delete"
  BY <1>1, EraseFromLeafPairs, UniqueNext
<1>3. pc = "descend" /\ pc' # "descend" /\ result' = result BY DEF EraseFromLeaf, At
<1>4. ScanInv' BY <1>3 DEF ScanInv, Scanning, At
<1>5. asked = request /\ asked' = NoRequest /\ answer = <<>> /\ answer' = <<>>
  BY <1>1, <1>2, <1>3 DEF asked, answer, ScanInv
<1>6. PairsOf(node') = g
  <2>1. DOMAIN g = Stored(node) \ {k} /\ g = [x \in DOMAIN g |-> g[x]] OBVIOUS
  <2>2. ASSUME NEW x, NEW v PROVE Holds(node', x, v) <=> x \in DOMAIN g /\ v = g[x]
    <3>1. Holds(node', x, v) <=> Holds(node, x, v) /\ x # k BY <1>2 DEF PairRemoved
    <3>2. Holds(node, x, v) <=> x \in Stored(node) /\ f[x] = v BY <1>1, HeldPairs
    <3> QED BY <3>1, <3>2
  <2> HIDE DEF g
  <2> QED BY <1>2, <2>1, <2>2, MapIs
<1>7. DOMAIN f = Stored(node) BY DEF PairsOf
<1>8. Pairs = f /\ Pairs' = g BY <1>6, PairsAre, PairsWillBe
<1> HIDE DEF f
<1>9. Pairs' = [x \in DOMAIN Pairs \ {asked.lo} |-> Pairs[x]] BY <1>5, <1>7, <1>8
<1> QED BY <1>2, <1>4, <1>5, <1>9 DEF Map!Delete, Map!Done, Map!NoRequest, NoRequest

\* What Index and ScanMissesNothing call the matches are the wanted keys read off.
LEMMA MatchesAre ==
    ASSUME Nodes(node), NEW low, NEW high
    PROVE  /\ Map!Matches(low, high) = ReadOff(PairsOf(node), Wanted(node, low, high))
           /\ Matches(low, high) = ReadOff(PairsOf(node), Wanted(node, low, high))
<1> DEFINE S == {k \in DOMAIN Pairs : low <= k /\ k <= high}
<1>1. DOMAIN Pairs = Stored(node) BY PairsAre DEF PairsOf
<1>2. S = Wanted(node, low, high) BY <1>1 DEF Wanted
<1>3. S \in SUBSET Nat /\ IsFiniteSet(S)
  <2>1. Stored(node) \subseteq Keys BY LeafFacts DEF Stored
  <2> QED BY <1>1, <2>1, KeysAssumption, FS_Subset
<1> HIDE DEF S
<1>4. Ascending(S) \in [1 .. Cardinality(S) -> S] /\ Cardinality(S) \in Nat
  BY <1>3, AscendingIs, FS_CardinalityType
<1>5. Len(Ascending(S)) = Cardinality(S) /\ DOMAIN Ascending(S) = 1 .. Len(Ascending(S))
  <2> DEFINE s == Ascending(S)
             n == Cardinality(S)
  <2> HIDE DEF s, n
  <2>1. s \in [1 .. n -> S] /\ n \in Nat BY <1>4 DEF s, n
  <2>2. Len(s) = n /\ DOMAIN s = 1 .. n BY <2>1
  <2> QED BY <2>2 DEF s, n
<1>6. Map!Matches(low, high) = [i \in 1 .. Len(Ascending(S)) |-> Pairs[Ascending(S)[i]]]
  <2>1. Map!Ascending(S) = Ascending(S)
    BY DEF Map!Ascending, Ascending, Map!Below, Below, Map!Cardinality, Cardinality
  <2>2. Map!Matches(low, high) = [i \in 1 .. Len(Map!Ascending(S)) |-> Pairs[Map!Ascending(S)[i]]]
    BY DEF Map!Matches, S
  <2> QED BY <2>1, <2>2
<1>7. Matches(low, high) = [i \in DOMAIN Ascending(S) |-> Pairs[Ascending(S)[i]]] BY DEF Matches, S
<1> QED BY <1>2, <1>5, <1>6, <1>7, PairsAre DEF ReadOff

LEMMA RangeLeafAnswers ==
    ASSUME MapInv, RangeLeaf
    PROVE  Unique(node') /\ ScanInv' /\ (Map!Search \/ Unnoticed)
<1> DEFINE done == Passed(node, request.lo, request.hi, cur) \cup Here(node, request.lo, request.hi, cur)
           rest == Wanted(node, request.lo, request.hi) \ done
           f == PairsOf(node)
<1>1. Inv /\ Unique(node) /\ ScanInv BY DEF MapInv
<1>2. /\ Scanning /\ cur \in Lvs(node) /\ node' = node /\ LowFound(node, request.lo, cur)
      /\ result' = ReadOff(f, done)
      /\ Return \/ UNCHANGED <<pc, request, path, split>>
  BY <1>1, RangeLeafIs
<1>3. /\ split = NULL_PTR /\ pc = "descend" /\ pc # "refill" /\ request.op = "range"
      /\ request.lo \in Nat /\ request.hi \in Nat /\ Nodes(node)
  BY <1>1, <1>2, ScanFacts
<1>4. Unique(node') /\ ScanInv' BY <1>1, <1>2, RangeLeafScan
<1>5. Pairs' = Pairs BY <1>2, PairsAre, PairsWillBe
<1>6. CASE Return
  <2>1. asked = request /\ asked' = NoRequest /\ answer' = result' BY <1>3, <1>6 DEF asked, answer, Return
  <2>2. /\ done \in SUBSET Nat /\ IsFiniteSet(done) /\ rest \in SUBSET Nat /\ IsFiniteSet(rest)
        /\ done \cup rest = Wanted(node, request.lo, request.hi)
    <3>1. /\ Wanted(node, request.lo, request.hi) \in SUBSET Nat /\ IsFiniteSet(Wanted(node, request.lo, request.hi))
          /\ Here(node, request.lo, request.hi, cur) \subseteq Wanted(node, request.lo, request.hi)
          /\ Passed(node, request.lo, request.hi, cur) \subseteq Wanted(node, request.lo, request.hi)
      BY <1>2, <1>3, WantedIs
    <3> QED BY <3>1, FS_Subset
  <2>3. (\A x \in done, y \in rest : x < y) /\ (request.lo = request.hi => rest = {})
    BY <1>1, <1>2, <1>3, ScanSoFar
  <2>4. Map!Matches(request.lo, request.hi) = ReadOff(f, done \cup rest) BY <1>3, <2>2, MatchesAre
  <2> HIDE DEF done, rest, f
  <2>5. ReadOff(f, done) \in Prefixes(ReadOff(f, done \cup rest)) BY <2>2, <2>3, ReadOffPrefix
  <2>6. request.lo = request.hi => ReadOff(f, done) = ReadOff(f, done \cup rest)
    <3>1. rest = {} => done \cup rest = done OBVIOUS
    <3> QED BY <2>3, <3>1
  <2>7. answer' \in Map!Prefixes(Map!Matches(request.lo, request.hi))
    BY <1>2, <2>1, <2>4, <2>5 DEF Map!Prefixes, Prefixes
  <2> QED BY <1>2, <1>3, <1>4, <1>5, <2>1, <2>4, <2>6, <2>7 DEF Map!Search, Map!Done, Map!NoRequest, NoRequest
<1>7. CASE ~Return
  <2>1. asked' = asked /\ answer' = answer BY <1>2, <1>3, <1>7 DEF asked, answer
  <2> QED BY <1>4, <1>5, <2>1 DEF Unnoticed
<1> QED BY <1>6, <1>7

LEMMA UnnoticedIsStutter ==
    ASSUME Unnoticed
    PROVE  UNCHANGED Map!vars
BY DEF Unnoticed, Map!vars

LEMMA InitMap == Init => MapInv /\ Map!Init
<1> SUFFICES ASSUME Init PROVE MapInv /\ Map!Init OBVIOUS
<1>1. Inv BY Initially
<1>2. /\ node = [n \in {1} |-> Leaf(0, <<>>, NULL_PTR)] /\ pc = "idle" /\ result = <<>> BY DEF Init
<1>3. DOMAIN node = {1} /\ node[1].data = <<>> /\ DOMAIN node[1].data = {} BY <1>2 DEF Leaf
<1>4. Lvs(node) \subseteq {1} /\ Stored(node) = {} BY <1>3 DEF Lvs, Stored
<1>5. Unique(node) BY <1>4 DEF Unique
<1>6. ScanInv BY <1>2 DEF ScanInv, Scanning, At
<1>7. Pairs = <<>>
  <2>1. DOMAIN Pairs = {} BY <1>4, PairsAre DEF PairsOf
  <2>2. Pairs = [k \in DOMAIN Pairs |-> Pairs[k]] BY DEF Pairs
  <2> QED BY <2>1, <2>2
<1>8. asked = NoRequest /\ answer = <<>> BY <1>2 DEF asked, answer
<1> QED BY <1>1, <1>5, <1>6, <1>7, <1>8 DEF MapInv, Map!Init, Map!NoRequest, NoRequest

LEMMA StutterMap ==
    ASSUME MapInv, UNCHANGED vars
    PROVE  Unique(node') /\ ScanInv' /\ Unnoticed
<1>1. node' = node /\ root_ptr' = root_ptr /\ pc' = pc /\ request' = request /\ cur' = cur /\ path' = path /\ result' = result
  BY DEF vars
<1>2. Unique(node') /\ ScanInv' BY <1>1 DEF MapInv, ScanInv, Scanning, At
<1>3. Pairs' = Pairs BY <1>1, PairsAre, PairsWillBe
<1>4. asked' = asked /\ answer' = answer BY <1>1 DEF asked, answer
<1> QED BY <1>2, <1>3, <1>4 DEF Unnoticed

\* A running call answers its request in one step of Index.
LEMMA WorkMap ==
    ASSUME MapInv, Inv', Work
    PROVE  Unique(node') /\ ScanInv' /\ (Map!Insert \/ Map!Delete \/ Map!Search \/ Unnoticed)
<1>1. CASE insert_key
  <2>1. CASE insertIntoCurrentLeaf \/ splitLeafNode BY <2>1, InsertsOnce
  <2>2. CASE insert_into_existing_node \/ split_and_create_new_node \/ GrowRoot
    BY <2>2, RepairsUnnoticed DEF Unnoticed
  <2> QED BY <1>1, <2>1, <2>2 DEF insert_key
<1>2. CASE delete_key
  <2>1. CASE EraseFromLeaf BY <2>1, DeletesOnce
  <2>2. CASE ~EraseFromLeaf BY <1>2, <2>2, RepairsUnnoticed DEF delete_key, Unnoticed
  <2> QED BY <2>1, <2>2
<1>3. CASE Descend BY <1>3, DescendUnnoticed DEF Unnoticed
<1>4. CASE RangeLeaf BY <1>4, RangeLeafAnswers
<1> QED BY <1>1, <1>2, <1>3, <1>4 DEF Work

\* Each step is a step of Index, or one that it does not notice.
LEMMA NextMap ==
    ASSUME MapInv, Inv', [Next]_vars
    PROVE  Unique(node') /\ ScanInv' /\ (Map!Next \/ Unnoticed)
<1>1. ASSUME NEW entry \in Entries, BeginInsert(entry[1], entry[2]) PROVE Unique(node') /\ ScanInv' /\ Map!Ask
  <2> DEFINE req == [op |-> "insert", lo |-> entry[1], ptr |-> entry[2]]
  <2>1. entry[1] \in Keys /\ entry[2] \in RecordPtrs BY <1>1, EntriesAssumption
  <2>2. req \in Requests BY <2>1, RequestsAre
  <2>3. Begin(req) BY <1>1 DEF BeginInsert
  <2> HIDE DEF req
  <2> QED BY <2>2, <2>3, BeginAsks
<1>2. ASSUME NEW k \in Keys, BeginDelete(k) PROVE Unique(node') /\ ScanInv' /\ Map!Ask
  <2> DEFINE req == [op |-> "delete", lo |-> k]
  <2>1. req \in Requests /\ Begin(req) BY <1>2, RequestsAre DEF BeginDelete
  <2> HIDE DEF req
  <2> QED BY <2>1, BeginAsks
<1>3. ASSUME NEW range \in KeyRanges, BeginRange(range[1], range[2]) PROVE Unique(node') /\ ScanInv' /\ Map!Ask
  <2> DEFINE req == [op |-> "range", lo |-> range[1], hi |-> range[2]]
  <2>1. range[1] \in Keys /\ range[2] \in Keys BY <1>3, KeyRangesAssumption
  <2>2. req \in Requests /\ Begin(req) BY <1>3, <2>1, RequestsAre DEF BeginRange
  <2> HIDE DEF req
  <2> QED BY <2>2, BeginAsks
<1>4. ASSUME Work PROVE Unique(node') /\ ScanInv' /\ (Map!Insert \/ Map!Delete \/ Map!Search \/ Unnoticed)
  BY <1>4, WorkMap
<1>5. CASE UNCHANGED vars BY <1>5, StutterMap
<1>6. CASE Next BY <1>1, <1>2, <1>3, <1>4, <1>6 DEF Next, Map!Next
<1> QED BY <1>5, <1>6

\* The map's keys and record pointers.
LEMMA PairsAreRecords ==
    ASSUME Inv, Unique(node)
    PROVE  DOMAIN Pairs = Stored(node) /\ DOMAIN Pairs \subseteq Keys /\ \A k \in DOMAIN Pairs : Pairs[k] \in RecordPtrs
<1>1. Nodes(node) /\ Pairs = PairsOf(node) BY PairsAre DEF Inv
<1>2. DOMAIN Pairs = Stored(node) /\ \A k \in Stored(node) : Holds(node, k, Pairs[k]) BY <1>1, HeldPairs
<1>3. \A n \in Lvs(node) : DOMAIN node[n].data \subseteq Keys /\ node[n].data \in [DOMAIN node[n].data -> RecordPtrs]
  BY <1>1, LeafFacts DEF LeafNode
<1>4. Stored(node) \subseteq Keys BY <1>3 DEF Stored
<1>5. ASSUME NEW k \in Stored(node) PROVE Pairs[k] \in RecordPtrs
  <2>1. PICK n \in Lvs(node) : k \in DOMAIN node[n].data /\ node[n].data[k] = Pairs[k] BY <1>2 DEF Holds
  <2> QED BY <2>1, <1>3
<1> QED BY <1>2, <1>4, <1>5

\* An answer lists record pointers of different keys of the range, and all of
\* them when it is complete.
LEMMA AnswerIs ==
    ASSUME Inv, NEW low, NEW high, NEW s \in Map!Prefixes(Map!Matches(low, high))
    PROVE  \E order : /\ Len(s) \in Nat /\ order \in [1 .. Len(s) -> Wanted(node, low, high)]
                      /\ \A i, j \in 1 .. Len(s) : order[i] = order[j] => i = j
                      /\ s = [i \in 1 .. Len(s) |-> Pairs[order[i]]]
                      /\ s = Map!Matches(low, high) => \A k \in Wanted(node, low, high) : \E i \in 1 .. Len(s) : order[i] = k
<1> DEFINE S == Wanted(node, low, high)
           n == Cardinality(S)
           all == Ascending(S)
           m == Map!Matches(low, high)
           V == {Pairs[k] : k \in S}
<1>1. S \in SUBSET Nat /\ IsFiniteSet(S)
  <2>1. Stored(node) \subseteq Keys BY LeafFacts DEF Stored, Inv
  <2> QED BY <2>1, KeysAssumption, FS_Subset DEF Wanted
<1>2. n \in Nat /\ all \in [1 .. n -> S] /\ \A x \in S : all[Cardinality(Below(S, x)) + 1] = x
  <2> HIDE DEF S
  <2> QED BY <1>1, AscendingIs, FS_CardinalityType
<1>3. \A i, j \in 1 .. n : all[i] = all[j] => i = j
  <2> HIDE DEF S
  <2>1. \A i \in 1 .. n : Cardinality(Below(S, all[i])) = i - 1 BY <1>1, AscendingIs
  <2> HIDE DEF all, n
  <2> QED BY <1>2, <2>1
<1>4. \A x \in S : \E i \in 1 .. n : all[i] = x
  <2> HIDE DEF S
  <2>1. ASSUME NEW x \in S PROVE Cardinality(Below(S, x)) + 1 \in 1 .. n BY <1>1, Ranks
  <2> QED BY <1>2, <2>1
<1>5. m = ReadOff(Pairs, S) BY MatchesAre, PairsAre DEF Inv
<1> HIDE DEF S
<1>6. m = [i \in 1 .. n |-> Pairs[all[i]]] BY <1>2, <1>5 DEF ReadOff
<1> HIDE DEF n, all, m
<1>7. m \in Seq(V) /\ Len(m) = n
  <2>1. m \in [1 .. n -> V] BY <1>2, <1>6
  <2> QED BY <1>2, <2>1
<1> HIDE DEF V
<1>8. PICK l \in 0 .. n : s = SubSeq(m, 1, l) BY <1>7 DEF Map!Prefixes, m
<1>9. Len(s) = l /\ \A i \in 1 .. l : s[i] = m[i] BY <1>2, <1>7, <1>8, SubSeqIs
<1>10. s = [i \in 1 .. l |-> Pairs[all[i]]]
  <2>1. s \in Seq(V) BY <1>2, <1>7, <1>8, SubSeqIs
  <2>2. s = [i \in 1 .. l |-> s[i]] BY <2>1, <1>9
  <2>3. ASSUME NEW i \in 1 .. l PROVE s[i] = Pairs[all[i]]
    <3>1. i \in 1 .. n /\ s[i] = m[i] BY <1>2, <1>9
    <3>2. m[i] = Pairs[all[i]] BY <1>6, <3>1
    <3> QED BY <3>1, <3>2
  <2> QED BY <2>2, <2>3
<1> DEFINE order == [i \in 1 .. l |-> all[i]]
<1>11. l \in Nat /\ order \in [1 .. l -> S] /\ (\A i, j \in 1 .. l : order[i] = order[j] => i = j)
       /\ s = [i \in 1 .. l |-> Pairs[order[i]]]
  BY <1>2, <1>3, <1>10
<1>12. s = m => l = n BY <1>7, <1>9
<1>13. s = m => \A k \in S : \E i \in 1 .. l : order[i] = k BY <1>4, <1>12
<1> HIDE DEF order
<1> QED BY <1>9, <1>11, <1>13 DEF m, S

\* What the leaves hold is a map, and a range has followed exactly the matches
\* below the leaf it is at, in every state (BPTree.cpp, LeafNode.cpp).
THEOREM MapInvariant == ~DuplicateInserts /\ Spec => []MapInv
<1> SUFFICES ASSUME ~DuplicateInserts PROVE Spec => []MapInv OBVIOUS
<1>1. Init => MapInv BY InitMap
<1>2. MapInv /\ [Next]_vars => MapInv'
  <2> SUFFICES ASSUME MapInv, [Next]_vars PROVE MapInv' OBVIOUS
  <2>1. Inv' BY NextStep, StutterStep DEF MapInv
  <2> QED BY <2>1, NextMap DEF MapInv
<1> QED BY <1>1, <1>2, PTL DEF Spec

\* The keys below a leaf are those below its least key.
LEMMA ScanMissesNothingIs == MapInv => ScanMissesNothing
<1> SUFFICES ASSUME MapInv, Scanning, IsLeaf(cur), node[cur].data # <<>>
             PROVE  result = Matches(request.lo, Min({request.hi, Min(DOMAIN node[cur].data) - 1}))
  BY DEF ScanMissesNothing, Scanning
<1> DEFINE S == DOMAIN node[cur].data
           least == Min(S)
           high == Min({request.hi, least - 1})
<1>1. Inv /\ ScanInv BY DEF MapInv
<1>2. /\ request.lo \in Nat /\ request.hi \in Nat /\ Nodes(node) /\ cur \in Lvs(node)
  BY <1>1, ScanFacts, LeafOrInternal
<1>3. S \subseteq Nat /\ S # {} /\ IsFiniteSet(S)
  <2>1. S \subseteq Keys /\ node[cur].data \in [S -> RecordPtrs] BY <1>2, LeafFacts DEF LeafNode
  <2>2. S # {}
    <3> SUFFICES ASSUME S = {} PROVE FALSE OBVIOUS
    <3>1. node[cur].data = <<>> BY <2>1
    <3> QED BY <3>1
  <2> QED BY <2>1, <2>2, KeysAssumption, FS_Subset
<1>4. least \in S /\ least \in Nat /\ \A x \in S : least <= x BY <1>3, MinIs
<1> HIDE DEF least, S
<1>5. high \in {request.hi, least - 1} /\ high <= request.hi /\ high <= least - 1
  <2> DEFINE m == IF request.hi <= least - 1 THEN request.hi ELSE least - 1
  <2>1. m \in {request.hi, least - 1} /\ \A y \in {request.hi, least - 1} : m <= y BY <1>2, <1>4
  <2> HIDE DEF m
  <2>2. high \in {request.hi, least - 1} /\ \A y \in {request.hi, least - 1} : high <= y BY <2>1 DEF Min
  <2> QED BY <2>2
<1> HIDE DEF high
<1>6. ASSUME NEW k \in Nat PROVE k <= high <=> k <= request.hi /\ \A y \in S : k < y
  <2>1. k <= high <=> k <= request.hi /\ k < least BY <1>2, <1>4, <1>5
  <2>2. k < least <=> \A y \in S : k < y
    <3>1. ASSUME k < least, NEW y \in S PROVE k < y
      <4>1. y \in Nat /\ least <= y BY <1>3, <1>4
      <4> QED BY <1>4, <3>1, <4>1
    <3> QED BY <1>4, <3>1
  <2> QED BY <2>1, <2>2
<1>7. Stored(node) \subseteq Nat BY <1>2, WantedIs
<1>8. Wanted(node, request.lo, high) = Passed(node, request.lo, request.hi, cur)
  <2>1. ASSUME NEW k
        PROVE  k \in Wanted(node, request.lo, high) <=> k \in Passed(node, request.lo, request.hi, cur)
    BY <1>6, <1>7 DEF Wanted, Passed, S
  <2> QED BY <2>1
<1>9. result = ReadOff(PairsOf(node), Passed(node, request.lo, request.hi, cur)) BY <1>1, <1>2 DEF ScanInv
<1>10. result = Matches(request.lo, high) BY <1>2, <1>8, <1>9, MatchesAre
<1> QED BY <1>10 DEF high, least, S

\* A range finds the first leaf that can hold a match and skips nothing on its
\* way along the leaves (LeafNode::range).
THEOREM ScanMissesNothingHolds == ~DuplicateInserts /\ Spec => []ScanMissesNothing
<1> SUFFICES ASSUME ~DuplicateInserts PROVE Spec => []ScanMissesNothing OBVIOUS
<1>1. MapInv => ScanMissesNothing BY ScanMissesNothingIs
<1> QED BY <1>1, MapInvariant, PTL

\* The tree is the index Query asks for: an insert adds its pair once, a delete
\* takes it away once, the repairs in between change nothing that a search can
\* see, and a range answers with an initial segment of the matches in order,
\* with all of them when it asks for one key (BPTree.cpp).
THEOREM BPTreeImplementsIndex == ~DuplicateInserts /\ Spec => ImplementsIndex
<1> SUFFICES ASSUME ~DuplicateInserts PROVE Spec => ImplementsIndex OBVIOUS
<1>1. Init => Map!Init BY InitMap
<1>2. MapInv /\ MapInv' /\ [Next]_vars => [Map!Next]_(Map!vars)
  <2> SUFFICES ASSUME MapInv, MapInv', [Next]_vars PROVE [Map!Next]_(Map!vars) OBVIOUS
  <2>1. Inv' BY DEF MapInv
  <2> QED BY <2>1, NextMap, UnnoticedIsStutter
<1> QED BY <1>1, <1>2, MapInvariant, PTL DEF Spec, ImplementsIndex, Map!Spec

=============================================================================
