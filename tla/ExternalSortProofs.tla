------------------------- MODULE ExternalSortProofs -------------------------
(***************************************************************************)
(* Proofs about ExternalSort: for all tables, sort keys, page sizes and    *)
(* numbers of pages in memory, merging neither loses nor repeats a row,    *)
(* and as long as no Dummy file outgrows its page every run is in order    *)
(* and SORT ends with the table's rows in order.                           *)
(***************************************************************************)
EXTENDS ExternalSort, KeyOrderProofs

(* The places of the rows in the table *)

\* The rows before page p, and the last row of page p.
Start(p) == p * maxRowsPerBlock
EndOf(p) == LowerOf(Start(p + 1), Len(loaded))

\* What a row is.
Row == [DOMAIN loaded[1] -> Int]

\* s lists the rows of table t at the places of P, each place once.
Lists(t, s, P) == \E f \in Bijection(1 .. Len(s), P) : \A i \in 1 .. Len(s) : s[i] = t[f[i]]

\* Runs of n pages, up to row e, are in order.
Boundary(i, n) == \E k \in Nat : i = Start(k * n)
InRuns(rows, n, e) == \A i \in 1 .. e - 1 : Boundary(i, n) \/ ~Precedes(rows[i + 1], rows[i])

(* The inductive invariant *)

Shape ==
    /\ loaded \in Tables
    /\ pageFile \in [Pages -> Seq(Row)] /\ \A p \in Pages : pageFile[p] # <<>>
    /\ sortBy \in SortSpecs \cup {<<>>} /\ (pc # "idle" => sortBy \in SortSpecs)
    /\ pc \in {"idle", "sortPages", "open", "merge", "copy", "finish"}
    /\ pageIndex \in 0 .. blockCount /\ size \in Nat \ {0}
    /\ overfilled \in BOOLEAN /\ sorts \in 0 .. MaxSorts
    /\ mergeData \in Seq(Row)
    /\ dummy \in Seq(Seq(Row)) /\ \A d \in DOMAIN dummy : dummy[d] # <<>>

\* Where the iteration is.
Progress ==
    /\ pc \in {"sortPages", "open", "merge"} => pageIndex < blockCount
    /\ pc \in {"open", "merge"} => \E k \in Nat : pageIndex = k * (K * size)
    /\ pc = "copy" => pageIndex = blockCount
    /\ pc = "finish" => size >= blockCount
    /\ pc # "merge" => mergeData = <<>>
    /\ pc \notin {"open", "merge", "copy"} => dummy = <<>>

\* The cursors of the runs, each between its run's first page and its last.
Runs == 1 .. Ceiling(GroupEnd - pageIndex, size)
RunStart(r) == pageIndex + (r - 1) * size
Place(c) == Start(c.page) + c.row
LeftOf(c) == Place(c) .. EndOf(c.last)

InRun(c, r) ==
    /\ c \in [page : Nat, row : Nat, last : Nat]
    /\ c.last = RunEnd(RunStart(r)) /\ c.page \in RunStart(r) .. c.last
    /\ c.row \in 1 .. rowsPerBlockCount(c.page)

Cursors == pc = "merge" =>
    /\ DOMAIN pq \subseteq Runs /\ DOMAIN pq \subseteq DOMAIN cursors
    /\ \A r \in DOMAIN pq : InRun(cursors[r], r) /\ pq[r] = TableRows[Place(cursors[r])]

\* The rows that the iteration has moved, and those it has not.
Queued == {r \in DOMAIN pq : pc = "merge"}
Pending == (UNION {LeftOf(cursors[r]) : r \in Queued}) \cup (Start(AfterGroup) + 1 .. Len(loaded))
Written == FlattenSeq(dummy)
Moved == Written \o mergeData

Keeps ==
    pc \in {"open", "merge", "copy"} =>
        /\ Lists(TableRows, Moved, 1 .. Len(loaded) \ Pending)
        /\ IF pc = "merge" THEN Start(Len(dummy)) + Len(mergeData) <= Len(Moved)
                           ELSE Len(dummy) <= pageIndex

\* Dummy files that do not outgrow their pages hold the rows that were moved, page by page.
Fits == \A d \in DOMAIN dummy : Len(dummy[d]) <= maxRowsPerBlock
Chunks(files, rows) ==
    /\ Start(Len(files)) < Len(rows) + maxRowsPerBlock /\ Len(rows) <= Start(Len(files))
    /\ \A d \in DOMAIN files :
          /\ Len(files[d]) = LowerOf(maxRowsPerBlock, Len(rows) - Start(d - 1))
          /\ \A j \in DOMAIN files[d] : files[d][j] = rows[Start(d - 1) + j]
Aligned ==
    pc \in {"open", "merge", "copy"} /\ Fits =>
        Chunks(dummy, Written) /\ (pc = "merge" => Len(Written) = Start(Len(dummy)))

Ordered ==
    ~overfilled =>
        /\ BagOf(TableRows) = BagOf(loaded)
        /\ pc = "sortPages" => InRuns(TableRows, 1, Start(pageIndex))
        /\ pc \in {"open", "merge", "copy", "finish"} => InRuns(TableRows, size, Len(loaded))
        /\ pc \in {"open", "merge", "copy"} => InRuns(Moved, size * K, Len(Moved))
        /\ pc = "merge" => \A i \in Start(pageIndex) + 1 .. Len(Moved), r \in DOMAIN pq :
                               ~Precedes(pq[r], Moved[i])

SortInv == Shape /\ Progress /\ Cursors /\ Keeps /\ Aligned /\ Ordered

-----------------------------------------------------------------------------
(* Arithmetic of pages *)

LEMMA Product ==
    ASSUME NEW a \in Int, NEW b \in Int, NEW d \in Nat \ {0}
    PROVE  a * d \in Int /\ (a < b <=> a * d < b * d) /\ (a + 1) * d = a * d + d
OBVIOUS

\* Division with a remainder.
LEMMA DivMod ==
    ASSUME NEW x \in Nat, NEW d \in Nat \ {0}
    PROVE  /\ x \div d \in Nat /\ x % d \in 0 .. d - 1
           /\ x = (x \div d) * d + (x % d)
OBVIOUS

LEMMA Constants ==
    /\ maxRowsPerBlock \in Nat \ {0} /\ BLOCK_COUNT \in Nat /\ BLOCK_COUNT > 2
    /\ K \in Nat \ {0} /\ K >= 2 /\ MaxSorts \in Nat
BY SortAssumption DEF K

\* Only one quotient and remainder fit.
LEMMA DivModIs ==
    ASSUME NEW q \in Nat, NEW d \in Nat \ {0}, NEW r \in 0 .. d - 1
    PROVE  /\ (q * d + r) \div d = q /\ (q * d + r) % d = r /\ q * d + r \in Nat
<1> DEFINE x == q * d + r
           y == x \div d
           z == x % d
<1>1. q * d \in Nat
    OBVIOUS
<1>2. x \in Nat
    BY <1>1
<1>3. y \in Nat /\ z \in 0 .. d - 1 /\ q * d + r = y * d + z
  <2>1. x = q * d + r
      OBVIOUS
  <2> HIDE DEF x
  <2> QED BY <1>2, <2>1, DivMod
<1>4. (q + 1) * d = q * d + d /\ (y + 1) * d = y * d + d
  <2> HIDE DEF y, z, x
  <2> QED BY <1>3, Product
<1> HIDE DEF x, y, z
<1>5. q * d < (y + 1) * d /\ y * d < (q + 1) * d
  <2>1. y * d \in Int
      BY <1>3
  <2> QED BY <1>1, <1>3, <1>4, <2>1
<1>6. q < y + 1 /\ y < q + 1
    BY <1>3, <1>5, Product
<1>7. q = y
    BY <1>3, <1>6
<1>8. r = z
    BY <1>1, <1>3, <1>7
<1> QED BY <1>2, <1>7, <1>8 DEF x, y, z

LEMMA StartIs ==
    /\ Start(0) = 0
    /\ \A p \in Nat : Start(p) \in Nat /\ Start(p + 1) = Start(p) + maxRowsPerBlock
    /\ \A p, q \in Nat : p <= q => Start(p) <= Start(q)
    /\ \A p, q \in Nat : p < q => Start(p) + maxRowsPerBlock <= Start(q)
<1>1. Start(0) = 0 /\ \A p \in Nat : Start(p) \in Nat /\ Start(p + 1) = Start(p) + maxRowsPerBlock
    BY Constants, Product DEF Start
<1>2. ASSUME NEW p \in Nat, NEW q \in Nat, p <= q PROVE Start(p) <= Start(q)
  <2>1. p = q \/ p * maxRowsPerBlock < q * maxRowsPerBlock
      BY <1>2, Constants, Product
  <2> QED BY <1>1, <2>1 DEF Start
<1>3. ASSUME NEW p \in Nat, NEW q \in Nat, p < q PROVE Start(p) + maxRowsPerBlock <= Start(q)
  <2>1. p + 1 \in Nat /\ p + 1 <= q
      BY <1>3
  <2> QED BY <1>1, <1>2, <2>1
<1> QED BY <1>1, <1>2, <1>3

LEMMA LowerIs ==
    ASSUME NEW a \in Int, NEW b \in Int
    PROVE  LowerOf(a, b) \in {a, b} /\ LowerOf(a, b) <= a /\ LowerOf(a, b) <= b
BY DEF LowerOf

\* Rounding up.
LEMMA CeilingIs ==
    ASSUME NEW a \in Nat \ {0}, NEW b \in Nat \ {0}
    PROVE  /\ Ceiling(a, b) \in Nat \ {0}
           /\ a <= Ceiling(a, b) * b /\ (Ceiling(a, b) - 1) * b < a
<1> DEFINE q == Ceiling(a, b)
<1>1. a + b - 1 \in Nat
    OBVIOUS
<1>2. /\ q \in Nat /\ (a + b - 1) % b \in 0 .. b - 1
      /\ a + b - 1 = q * b + ((a + b - 1) % b)
    BY <1>1, DivMod DEF Ceiling
<1> HIDE DEF q
<1>3. q * b \in Nat
    BY <1>2
<1>4. a <= q * b /\ q * b < a + b
    BY <1>2, <1>3
<1>5. q # 0
    BY <1>4
<1>6. (q - 1 + 1) * b = (q - 1) * b + b /\ q - 1 + 1 = q
  <2>1. q - 1 \in Int /\ q - 1 + 1 = q
      BY <1>2
  <2> QED BY <2>1, Product
<1>7. (q - 1) * b < a
    BY <1>2, <1>3, <1>4, <1>5, <1>6
<1> QED BY <1>2, <1>4, <1>5, <1>7 DEF q

\* The table has rows, and its pages hold them all.
LEMMA TableIs ==
    ASSUME loaded \in Tables
    PROVE  /\ Len(loaded) \in Nat \ {0} /\ loaded \in Seq(Row)
           /\ blockCount \in Nat \ {0} /\ Len(loaded) <= Start(blockCount)
           /\ Start(blockCount - 1) < Len(loaded)
<1>1. loaded \in Seq(Seq(Int)) /\ loaded # <<>> /\ \A i, j \in DOMAIN loaded : DOMAIN loaded[i] = DOMAIN loaded[j]
    BY SortAssumption
<1>2. Len(loaded) \in Nat \ {0} /\ DOMAIN loaded = 1 .. Len(loaded)
    BY <1>1, EmptySeq, LenProperties
<1>3. ASSUME NEW i \in 1 .. Len(loaded) PROVE loaded[i] \in Row
  <2>1. loaded \in [1 .. Len(loaded) -> Seq(Int)]
      BY <1>1, LenProperties
  <2>2. loaded[i] \in Seq(Int)
      BY <2>1
  <2>3. DOMAIN loaded[i] = DOMAIN loaded[1]
    <3>1. 1 \in DOMAIN loaded /\ i \in DOMAIN loaded
        BY <1>2
    <3> QED BY <1>1, <3>1
  <2>4. loaded[i] \in [DOMAIN loaded[i] -> Int]
    <3>1. \A s \in Seq(Int) : s \in [DOMAIN s -> Int]
        OBVIOUS
    <3> QED BY <2>2, <3>1
  <2> QED BY <2>3, <2>4 DEF Row
<1>4. loaded \in Seq(Row)
  <2> HIDE DEF Row
  <2>1. loaded \in [1 .. Len(loaded) -> Row]
      BY <1>1, <1>2, <1>3, LenProperties
  <2> QED BY <1>2, <2>1, IsASeq
<1>5. /\ blockCount \in Nat \ {0} /\ Len(loaded) <= blockCount * maxRowsPerBlock
      /\ (blockCount - 1) * maxRowsPerBlock < Len(loaded)
    BY <1>2, Constants, CeilingIs DEF blockCount
<1> QED BY <1>2, <1>4, <1>5 DEF Start

LEMMA PageIs ==
    ASSUME loaded \in Tables, NEW p \in Pages
    PROVE  /\ p \in Nat /\ p < blockCount /\ Start(p) \in Nat /\ Start(p) < Len(loaded)
           /\ rowsPerBlockCount(p) \in 1 .. maxRowsPerBlock
           /\ EndOf(p) = Start(p) + rowsPerBlockCount(p) /\ EndOf(p) \in 1 .. Len(loaded)
           /\ p + 1 < blockCount => EndOf(p) = Start(p + 1) /\ rowsPerBlockCount(p) = maxRowsPerBlock
           /\ p + 1 = blockCount => EndOf(p) = Len(loaded)
<1>1. p \in Nat /\ blockCount \in Nat \ {0} /\ p < blockCount /\ Len(loaded) \in Nat \ {0}
    BY TableIs DEF Pages
<1>2. /\ Start(p) \in Nat /\ Start(p + 1) = Start(p) + maxRowsPerBlock /\ Start(p + 1) \in Nat
      /\ Start(p) <= Start(blockCount - 1) /\ Start(blockCount - 1) \in Nat
      /\ p + 1 < blockCount => Start(p + 1) <= Start(blockCount - 1)
      /\ maxRowsPerBlock \in Nat \ {0}
  <2>1. p + 1 \in Nat /\ blockCount - 1 \in Nat /\ p <= blockCount - 1 /\ (p + 1 < blockCount => p + 1 <= blockCount - 1)
      BY <1>1
  <2> QED BY <1>1, <2>1, StartIs, Constants
<1>3. Start(blockCount - 1) < Len(loaded) /\ Len(loaded) <= Start(blockCount)
    BY TableIs
<1>4. rowsPerBlockCount(p) = LowerOf(maxRowsPerBlock, Len(loaded) - Start(p))
    BY DEF rowsPerBlockCount, Start
<1>5. EndOf(p) = LowerOf(Start(p) + maxRowsPerBlock, Len(loaded))
    BY <1>2 DEF EndOf
<1> HIDE DEF Start, EndOf, rowsPerBlockCount, blockCount
<1>6. Start(p) < Len(loaded)
    BY <1>1, <1>2, <1>3
<1>7. rowsPerBlockCount(p) \in 1 .. maxRowsPerBlock
    BY <1>1, <1>2, <1>4, <1>6 DEF LowerOf
<1>8. EndOf(p) = Start(p) + rowsPerBlockCount(p) /\ EndOf(p) \in 1 .. Len(loaded)
    BY <1>1, <1>2, <1>4, <1>5, <1>6 DEF LowerOf
<1>9. p + 1 < blockCount => EndOf(p) = Start(p + 1) /\ rowsPerBlockCount(p) = maxRowsPerBlock
    BY <1>1, <1>2, <1>3, <1>4, <1>5 DEF LowerOf
<1>10. p + 1 = blockCount => EndOf(p) = Len(loaded)
    BY <1>1, <1>2, <1>3, <1>5 DEF LowerOf
<1> QED BY <1>1, <1>2, <1>6, <1>7, <1>8, <1>9, <1>10

\* The rows of a page have their places in the table, and every place is a row of one page.
LEMMA PlaceIs ==
    ASSUME loaded \in Tables, NEW p \in Pages, NEW j \in 1 .. rowsPerBlockCount(p)
    PROVE  /\ Start(p) + j \in 1 .. Len(loaded)
           /\ ((Start(p) + j) - 1) \div maxRowsPerBlock = p
           /\ (((Start(p) + j) - 1) % maxRowsPerBlock) + 1 = j
<1>1. /\ p \in Nat /\ Start(p) \in Nat /\ rowsPerBlockCount(p) \in 1 .. maxRowsPerBlock
      /\ Start(p) + rowsPerBlockCount(p) <= Len(loaded) /\ Len(loaded) \in Nat /\ maxRowsPerBlock \in Nat \ {0}
  <2>1. EndOf(p) = Start(p) + rowsPerBlockCount(p) /\ EndOf(p) \in 1 .. Len(loaded)
      BY PageIs
  <2> QED BY <2>1, PageIs, TableIs, Constants
<1>2. j - 1 \in 0 .. maxRowsPerBlock - 1 /\ j \in Nat
    BY <1>1
<1>3. /\ (p * maxRowsPerBlock + (j - 1)) \div maxRowsPerBlock = p
      /\ (p * maxRowsPerBlock + (j - 1)) % maxRowsPerBlock = j - 1
    BY <1>1, <1>2, DivModIs
<1>4. Start(p) = p * maxRowsPerBlock
    BY DEF Start
<1> HIDE DEF Start, rowsPerBlockCount
<1>5. (Start(p) + j) - 1 = Start(p) + (j - 1) /\ Start(p) + j \in 1 .. Len(loaded)
    BY <1>1, <1>2
<1> QED BY <1>2, <1>3, <1>4, <1>5

LEMMA EveryPlace ==
    ASSUME loaded \in Tables, NEW i \in 1 .. Len(loaded)
    PROVE  \E p \in Pages : \E j \in 1 .. rowsPerBlockCount(p) : i = Start(p) + j
<1> DEFINE p == (i - 1) \div maxRowsPerBlock
           z == (i - 1) % maxRowsPerBlock
<1>1. i - 1 \in Nat /\ i \in Nat /\ Len(loaded) \in Nat /\ blockCount \in Nat \ {0}
    BY TableIs
<1>2. p \in Nat /\ z \in 0 .. maxRowsPerBlock - 1 /\ i - 1 = Start(p) + z
    BY <1>1, Constants, DivMod DEF Start
<1> HIDE DEF p, z
<1>3. p < blockCount
  <2>1. SUFFICES ASSUME blockCount <= p PROVE FALSE
      BY <1>1, <1>2
  <2>2. Start(blockCount) <= Start(p) /\ Len(loaded) <= Start(blockCount) /\ Start(blockCount) \in Nat /\ Start(p) \in Nat
      BY <1>1, <1>2, <2>1, StartIs, TableIs
  <2> HIDE DEF Start, blockCount
  <2> QED BY <1>1, <1>2, <2>2, Constants
<1>4. p \in Pages
    BY <1>1, <1>2, <1>3 DEF Pages
<1>5. /\ Start(p) \in Nat /\ rowsPerBlockCount(p) = LowerOf(maxRowsPerBlock, Len(loaded) - Start(p))
    BY <1>4, PageIs DEF rowsPerBlockCount, Start
<1> HIDE DEF Start, rowsPerBlockCount
<1>6. z + 1 \in 1 .. rowsPerBlockCount(p) /\ i = Start(p) + (z + 1)
    BY <1>1, <1>2, <1>5, Constants DEF LowerOf
<1> QED BY <1>4, <1>6

\* What Page::Page makes of the row at place i of page p in the page files.
RowIn(files, p, i) ==
    IF i <= Len(files[p]) THEN files[p][i] ELSE [c \in DOMAIN loaded[1] |-> Last(Last(files[p]))]

LEMMA ReadRowIs == \A p, i : ReadRow(p, i) = RowIn(pageFile, p, i)
BY DEF ReadRow, RowIn

-----------------------------------------------------------------------------
(* Lists of rows that differ in their order only *)

At(s, x) == {i \in 1 .. Len(s) : s[i] = x}

LEMMA BagIs ==
    ASSUME NEW S, NEW s \in Seq(S)
    PROVE  /\ DOMAIN BagOf(s) = ToSet(s)
           /\ ToSet(s) = {s[i] : i \in 1 .. Len(s)}
           /\ \A x \in ToSet(s) : BagOf(s)[x] = Cardinality(At(s, x))
           /\ \A x : IsFiniteSet(At(s, x))
<1>1. DOMAIN s = 1 .. Len(s) /\ Len(s) \in Nat
    BY LenProperties
<1>2. ASSUME NEW x PROVE IsFiniteSet(At(s, x))
  <2>1. At(s, x) \in SUBSET (1 .. Len(s)) /\ IsFiniteSet(1 .. Len(s))
      BY <1>1, FS_Interval DEF At
  <2> QED BY <2>1, FS_Subset
<1> QED BY <1>1, <1>2 DEF BagOf, ToSet, At

LEMMA MatchingBags ==
    ASSUME NEW S, NEW s \in Seq(S), NEW t \in Seq(S),
           NEW f \in Bijection(1 .. Len(s), 1 .. Len(t)),
           \A i \in 1 .. Len(s) : s[i] = t[f[i]]
    PROVE  BagOf(s) = BagOf(t)
<1>1. /\ f \in [1 .. Len(s) -> 1 .. Len(t)]
      /\ \A i, j \in 1 .. Len(s) : f[i] = f[j] => i = j
      /\ \A j \in 1 .. Len(t) : \E i \in 1 .. Len(s) : f[i] = j
    BY DEF Bijection, Injection, Surjection, IsInjective
<1>2. ToSet(s) = ToSet(t)
  <2>1. ToSet(s) = {s[i] : i \in 1 .. Len(s)} /\ ToSet(t) = {t[i] : i \in 1 .. Len(t)}
      BY BagIs
  <2>2. \A x \in ToSet(s) : x \in ToSet(t)
      BY <1>1, <2>1
  <2>3. \A x \in ToSet(t) : x \in ToSet(s)
      BY <1>1, <2>1
  <2> QED BY <2>2, <2>3
<1>3. ASSUME NEW x PROVE Cardinality(At(s, x)) = Cardinality(At(t, x))
  <2> DEFINE g == [i \in At(s, x) |-> f[i]]
  <2>1. g \in [At(s, x) -> At(t, x)]
      BY <1>1 DEF At
  <2>2. \A i, j \in At(s, x) : g[i] = g[j] => i = j
      BY <1>1 DEF At
  <2>3. \A j \in At(t, x) : \E i \in At(s, x) : g[i] = j
      BY <1>1 DEF At
  <2> HIDE DEF g
  <2>4. g \in Bijection(At(s, x), At(t, x))
      BY <2>1, <2>2, <2>3 DEF Bijection, Injection, Surjection, IsInjective
  <2>5. ExistsBijection(At(s, x), At(t, x)) /\ IsFiniteSet(At(s, x))
      BY <2>4, BagIs DEF ExistsBijection
  <2> QED BY <2>5, FS_Bijection
<1>4. DOMAIN s = 1 .. Len(s) /\ DOMAIN t = 1 .. Len(t)
    BY LenProperties
<1>5. /\ BagOf(s) = [x \in ToSet(s) |-> Cardinality(At(s, x))]
      /\ BagOf(t) = [x \in ToSet(t) |-> Cardinality(At(t, x))]
    BY <1>4 DEF BagOf, At
<1> QED BY <1>2, <1>3, <1>5

LEMMA MatchOfBags ==
    ASSUME NEW S, NEW s \in Seq(S), NEW t \in Seq(S), BagOf(s) = BagOf(t)
    PROVE  \E f \in Bijection(1 .. Len(s), 1 .. Len(t)) : \A i \in 1 .. Len(s) : s[i] = t[f[i]]
<1>1. /\ ToSet(s) = {s[i] : i \in 1 .. Len(s)} /\ ToSet(t) = {t[i] : i \in 1 .. Len(t)}
      /\ ToSet(s) = ToSet(t)
  <2>1. DOMAIN BagOf(s) = ToSet(s) /\ DOMAIN BagOf(t) = ToSet(t)
      BY BagIs
  <2> QED BY <2>1, BagIs
<1>2. ASSUME NEW x \in ToSet(s) PROVE \E h : h \in Bijection(At(s, x), At(t, x))
  <2>1. BagOf(s)[x] = Cardinality(At(s, x)) /\ BagOf(t)[x] = Cardinality(At(t, x))
      BY <1>1, BagIs
  <2>2. IsFiniteSet(At(s, x)) /\ IsFiniteSet(At(t, x)) /\ Cardinality(At(s, x)) = Cardinality(At(t, x))
      BY <2>1, BagIs
  <2>3. ExistsBijection(At(s, x), At(t, x))
      BY <2>2, FS_SameCardinalityBij
  <2> QED BY <2>3 DEF ExistsBijection
<1> DEFINE G(x) == CHOOSE h : h \in Bijection(At(s, x), At(t, x))
           f == [i \in 1 .. Len(s) |-> G(s[i])[i]]
<1>3. ASSUME NEW x \in ToSet(s)
      PROVE  /\ G(x) \in [At(s, x) -> At(t, x)]
             /\ \A i, j \in At(s, x) : G(x)[i] = G(x)[j] => i = j
             /\ \A j \in At(t, x) : \E i \in At(s, x) : G(x)[i] = j
  <2>1. G(x) \in Bijection(At(s, x), At(t, x))
      BY <1>2
  <2> HIDE DEF G
  <2> QED BY <2>1 DEF Bijection, Injection, Surjection, IsInjective
<1> HIDE DEF G
<1>4. \A i \in 1 .. Len(s) : s[i] \in ToSet(s) /\ i \in At(s, s[i])
    BY <1>1 DEF At
<1>5. \A i \in 1 .. Len(s) : f[i] \in At(t, s[i])
    BY <1>3, <1>4
<1>6. f \in [1 .. Len(s) -> 1 .. Len(t)] /\ \A i \in 1 .. Len(s) : s[i] = t[f[i]]
    BY <1>5 DEF At
<1>7. ASSUME NEW i \in 1 .. Len(s), NEW j \in 1 .. Len(s), f[i] = f[j] PROVE i = j
  <2>1. s[i] = s[j]
      BY <1>6, <1>7
  <2>2. G(s[i])[i] = G(s[i])[j]
      BY <1>7, <2>1
  <2>3. s[i] \in ToSet(s) /\ i \in At(s, s[i]) /\ j \in At(s, s[i])
      BY <1>4, <2>1
  <2> QED BY <1>3, <2>2, <2>3
<1>8. ASSUME NEW j \in 1 .. Len(t) PROVE \E i \in 1 .. Len(s) : f[i] = j
  <2>1. t[j] \in ToSet(s) /\ j \in At(t, t[j])
      BY <1>1 DEF At
  <2>2. PICK i \in At(s, t[j]) : G(t[j])[i] = j
      BY <1>3, <2>1
  <2>3. i \in 1 .. Len(s) /\ s[i] = t[j]
      BY <2>2 DEF At
  <2> QED BY <2>2, <2>3
<1> HIDE DEF f
<1>9. f \in Bijection(1 .. Len(s), 1 .. Len(t))
    BY <1>6, <1>7, <1>8 DEF Bijection, Injection, Surjection, IsInjective
<1> QED BY <1>6, <1>9

\* A list of all the rows of a table is the table, but for the order.
LEMMA ListsAll ==
    ASSUME NEW S, NEW s \in Seq(S), NEW t \in Seq(S), Lists(t, s, 1 .. Len(t))
    PROVE  BagOf(s) = BagOf(t)
BY MatchingBags DEF Lists

LEMMA ListsLength ==
    ASSUME NEW S, NEW s \in Seq(S), NEW t, NEW P, Lists(t, s, P)
    PROVE  IsFiniteSet(P) /\ Cardinality(P) = Len(s) /\ Len(s) \in Nat
<1>1. ExistsBijection(1 .. Len(s), P)
    BY DEF Lists, ExistsBijection
<1>2. Len(s) \in Nat
    BY LenProperties
<1>3. IsFiniteSet(1 .. Len(s)) /\ Cardinality(1 .. Len(s)) = Len(s)
    BY <1>2, FS_Interval
<1> QED BY <1>1, <1>2, <1>3, FS_Bijection

LEMMA ListsNothing ==
    ASSUME NEW t
    PROVE  Lists(t, <<>>, {})
<1> DEFINE f == [i \in {} |-> i]
<1>1. f \in Bijection({}, {})
    BY DEF Bijection, Injection, Surjection, IsInjective
<1>2. Len(<<>>) = 0 /\ 1 .. 0 = {}
    BY EmptySeq
<1> QED BY <1>1, <1>2 DEF Lists

\* A stretch of the table.
LEMMA ListsStretch ==
    ASSUME NEW t, NEW s, NEW a \in Int, NEW n \in Nat, Len(s) = n,
           \A i \in 1 .. n : s[i] = t[a + i]
    PROVE  Lists(t, s, a + 1 .. a + n)
<1> DEFINE f == [i \in 1 .. n |-> a + i]
<1>1. f \in [1 .. n -> a + 1 .. a + n] /\ \A i, j \in 1 .. n : f[i] = f[j] => i = j
    OBVIOUS
<1>2. \A j \in a + 1 .. a + n : j - a \in 1 .. n /\ f[j - a] = j
    OBVIOUS
<1>3. \A i \in 1 .. n : s[i] = t[f[i]]
    OBVIOUS
<1> HIDE DEF f
<1>4. f \in Bijection(1 .. n, a + 1 .. a + n)
    BY <1>1, <1>2 DEF Bijection, Injection, Surjection, IsInjective
<1> QED BY <1>3, <1>4 DEF Lists

\* Two lists one after the other.
LEMMA ListsConcat ==
    ASSUME NEW S, NEW s \in Seq(S), NEW u \in Seq(S), NEW t, NEW P, NEW Q, P \cap Q = {},
           Lists(t, s, P), Lists(t, u, Q)
    PROVE  Lists(t, s \o u, P \cup Q)
<1>1. PICK f \in Bijection(1 .. Len(s), P) : \A i \in 1 .. Len(s) : s[i] = t[f[i]]
    BY DEF Lists
<1>2. PICK g \in Bijection(1 .. Len(u), Q) : \A i \in 1 .. Len(u) : u[i] = t[g[i]]
    BY DEF Lists
<1>3. /\ f \in [1 .. Len(s) -> P]
      /\ \A i, j \in 1 .. Len(s) : f[i] = f[j] => i = j
      /\ \A j \in P : \E i \in 1 .. Len(s) : f[i] = j
    BY <1>1 DEF Bijection, Injection, Surjection, IsInjective
<1>4. /\ g \in [1 .. Len(u) -> Q]
      /\ \A i, j \in 1 .. Len(u) : g[i] = g[j] => i = j
      /\ \A j \in Q : \E i \in 1 .. Len(u) : g[i] = j
    BY <1>2 DEF Bijection, Injection, Surjection, IsInjective
<1> DEFINE a == Len(s)
           b == Len(u)
           w == s \o u
           h == [i \in 1 .. a + b |-> IF i <= a THEN f[i] ELSE g[i - a]]
<1>5. a \in Nat /\ b \in Nat
    BY LenProperties
<1>6. Len(w) = a + b /\ \A i \in 1 .. a + b : w[i] = IF i <= a THEN s[i] ELSE u[i - a]
    BY ConcatProperties
<1>7. \A i \in 1 .. a + b : IF i <= a THEN i \in 1 .. a ELSE i - a \in 1 .. b
    BY <1>5
<1> HIDE DEF a, b, w
<1>8. \A i \in 1 .. a + b : w[i] = t[h[i]]
  <2> TAKE i \in 1 .. a + b
  <2>1. CASE i <= a
      BY <1>1, <1>6, <1>7, <2>1 DEF a
  <2>2. CASE ~(i <= a)
      BY <1>2, <1>6, <1>7, <2>2 DEF b
  <2> QED BY <2>1, <2>2
<1>9. \A i \in 1 .. a + b : h[i] = (IF i <= a THEN f[i] ELSE g[i - a]) /\ h[i] \in (IF i <= a THEN P ELSE Q)
    BY <1>3, <1>4, <1>7 DEF a, b
<1>10. h \in [1 .. a + b -> P \cup Q]
    BY <1>9
<1> HIDE DEF h
<1>11. ASSUME NEW i \in 1 .. a + b, NEW j \in 1 .. a + b, h[i] = h[j] PROVE i = j
  <2>1. CASE i <= a /\ j <= a
      BY <1>3, <1>7, <1>9, <1>11, <2>1 DEF a
  <2>2. CASE ~(i <= a) /\ ~(j <= a)
    <3>1. i - a = j - a
        BY <1>4, <1>7, <1>9, <1>11, <2>2 DEF b
    <3> QED BY <1>5, <3>1
  <2>3. (i <= a) <=> (j <= a)
      BY <1>9, <1>11
  <2> QED BY <2>1, <2>2, <2>3
<1>12. ASSUME NEW j \in P \cup Q PROVE \E i \in 1 .. a + b : h[i] = j
  <2>1. CASE j \in P
    <3>1. PICK i \in 1 .. a : f[i] = j
        BY <1>3, <2>1 DEF a
    <3>2. i \in 1 .. a + b /\ i <= a
        BY <1>5
    <3> QED BY <1>9, <3>1, <3>2
  <2>2. CASE j \in Q
    <3>1. PICK i \in 1 .. b : g[i] = j
        BY <1>4, <2>2 DEF b
    <3> DEFINE k == i + a
    <3>2. k \in 1 .. a + b /\ ~(k <= a) /\ k - a = i
        BY <1>5
    <3> HIDE DEF k
    <3>3. h[k] = j
        BY <1>9, <3>1, <3>2
    <3> QED BY <3>2, <3>3
  <2> QED BY <2>1, <2>2
<1>13. h \in Bijection(1 .. a + b, P \cup Q)
    BY <1>10, <1>11, <1>12 DEF Bijection, Injection, Surjection, IsInjective
<1>14. Lists(t, w, P \cup Q)
    BY <1>6, <1>8, <1>13 DEF Lists
<1> QED BY <1>14 DEF w

-----------------------------------------------------------------------------
(* The rows of the Dummy files, one file after the other *)

\* f[i] is the first i sequences of d put together.
Flat(d, f, n) == \A i \in 1 .. n : f[i] = IF i = 1 THEN d[i] ELSE f[i - 1] \o d[i]

LEMMA FlatExists ==
    ASSUME NEW S, NEW d \in Seq(Seq(S)), NEW n \in 0 .. Len(d)
    PROVE  \E f \in [1 .. n -> Seq(S)] : Flat(d, f, n)
<1> DEFINE Good == {k \in Nat : k <= Len(d) => \E f \in [1 .. k -> Seq(S)] : Flat(d, f, k)}
<1>1. Len(d) \in Nat /\ \A i \in 1 .. Len(d) : d[i] \in Seq(S)
    BY LenProperties
<1>2. 0 \in Good
  <2> DEFINE f == [i \in 1 .. 0 |-> d]
  <2>1. f \in [1 .. 0 -> Seq(S)] /\ Flat(d, f, 0)
      BY DEF Flat
  <2> QED BY <2>1
<1>3. ASSUME NEW k \in Good PROVE k + 1 \in Good
  <2>1. k \in Nat
      OBVIOUS
  <2>2. ASSUME k + 1 <= Len(d) PROVE \E f \in [1 .. k + 1 -> Seq(S)] : Flat(d, f, k + 1)
    <3>1. k <= Len(d) /\ d[k + 1] \in Seq(S)
        BY <1>1, <2>1, <2>2
    <3>2. PICK f \in [1 .. k -> Seq(S)] : Flat(d, f, k)
        BY <3>1
    <3> DEFINE last == IF k = 0 THEN d[k + 1] ELSE f[k] \o d[k + 1]
               g == [i \in 1 .. k + 1 |-> IF i = k + 1 THEN last ELSE f[i]]
    <3>3. last \in Seq(S)
      <4>1. CASE k = 0
          BY <3>1, <4>1
      <4>2. CASE k # 0
        <5>1. f[k] \in Seq(S)
            BY <2>1, <4>2
        <5> QED BY <3>1, <4>2, <5>1, ConcatProperties
      <4> QED BY <4>1, <4>2
    <3>4. g \in [1 .. k + 1 -> Seq(S)]
      <4> HIDE DEF last
      <4> QED BY <2>1, <3>3
    <3>5. ASSUME NEW i \in 1 .. k + 1 PROVE g[i] = IF i = 1 THEN d[i] ELSE g[i - 1] \o d[i]
      <4>1. CASE i = k + 1
        <5>1. CASE k = 0
            BY <4>1, <5>1
        <5>2. CASE k # 0
          <6>1. i - 1 = k /\ k \in 1 .. k + 1 /\ k # k + 1 /\ i # 1
              BY <2>1, <4>1, <5>2
          <6>2. g[k] = f[k] /\ g[i] = f[k] \o d[k + 1]
              BY <4>1, <5>2, <6>1
          <6> HIDE DEF g
          <6> QED BY <4>1, <6>1, <6>2
        <5> QED BY <5>1, <5>2
      <4>2. CASE i # k + 1
        <5>1. i \in 1 .. k /\ g[i] = f[i]
            BY <2>1, <4>2
        <5>2. i # 1 => i - 1 \in 1 .. k + 1 /\ i - 1 # k + 1
            BY <2>1, <5>1
        <5>3. i # 1 => g[i - 1] = f[i - 1]
            BY <5>2
        <5> HIDE DEF g
        <5> QED BY <3>2, <5>1, <5>3 DEF Flat
      <4> QED BY <4>1, <4>2
    <3> HIDE DEF g
    <3> QED BY <3>4, <3>5 DEF Flat
  <2> QED BY <2>1, <2>2
<1> HIDE DEF Good
<1>4. Good = Nat
  <2>1. Good \in SUBSET Nat
      BY DEF Good
  <2> QED BY <1>2, <1>3, <2>1, Induction
<1>5. n \in Good /\ n <= Len(d)
    BY <1>1, <1>4
<1> QED BY <1>5 DEF Good

LEMMA FlatUnique ==
    ASSUME NEW d, NEW f, NEW g, NEW n \in Nat, Flat(d, f, n), Flat(d, g, n)
    PROVE  \A i \in 1 .. n : f[i] = g[i]
<1> DEFINE Good == {k \in Nat : k \in 1 .. n => f[k] = g[k]}
<1>1. 0 \in Good
    OBVIOUS
<1>2. ASSUME NEW k \in Good PROVE k + 1 \in Good
  <2>1. k \in Nat
      OBVIOUS
  <2>2. ASSUME k + 1 \in 1 .. n PROVE f[k + 1] = g[k + 1]
    <3>1. CASE k = 0
      <4>1. 1 \in 1 .. n /\ k + 1 = 1
          BY <2>2, <3>1
      <4> QED BY <4>1 DEF Flat
    <3>2. CASE k # 0
      <4>1. k \in 1 .. n /\ k + 1 # 1 /\ (k + 1) - 1 = k
          BY <2>1, <2>2, <3>2
      <4>2. f[k] = g[k]
          BY <4>1
      <4>3. f[k + 1] = f[k] \o d[k + 1] /\ g[k + 1] = g[k] \o d[k + 1]
        <5> DEFINE i == k + 1
        <5>1. i \in 1 .. n /\ i # 1 /\ i - 1 = k
            BY <2>2, <4>1
        <5> HIDE DEF i
        <5>2. f[i] = f[k] \o d[i] /\ g[i] = g[k] \o d[i]
            BY <5>1 DEF Flat
        <5> QED BY <5>2 DEF i
      <4> QED BY <2>2, <4>2, <4>3
    <3> QED BY <3>1, <3>2
  <2> QED BY <2>1, <2>2
<1> HIDE DEF Good
<1>3. Good = Nat
  <2>1. Good \in SUBSET Nat
      BY DEF Good
  <2> QED BY <1>1, <1>2, <2>1, Induction
<1> QED BY <1>3 DEF Good

LEMMA FlattenIs ==
    ASSUME NEW S, NEW d \in Seq(Seq(S)), Len(d) # 0
    PROVE  \E f \in [1 .. Len(d) -> Seq(S)] : Flat(d, f, Len(d)) /\ FlattenSeq(d) = f[Len(d)]
<1> DEFINE n == Len(d)
           Is(f) == f = [i \in 1 .. n |-> IF i = 1 THEN d[i] ELSE f[i - 1] \o d[i]]
<1>1. n \in Nat \ {0} /\ n \in 0 .. Len(d)
    BY LenProperties
<1>2. FlattenSeq(d) = (CHOOSE f : Is(f))[n]
    BY <1>1 DEF FlattenSeq
<1> HIDE DEF n
<1>3. PICK f \in [1 .. n -> Seq(S)] : Flat(d, f, n)
    BY <1>1, FlatExists
<1>4. Is(f)
  <2>1. \A i \in 1 .. n : f[i] = IF i = 1 THEN d[i] ELSE f[i - 1] \o d[i]
      BY <1>3 DEF Flat
  <2> QED BY <2>1
<1> DEFINE g == CHOOSE h : Is(h)
<1>5. Is(g)
  <2> HIDE DEF Is
  <2> QED BY <1>4
<1> HIDE DEF g
<1>6. Flat(d, g, n)
    BY <1>5 DEF Flat
<1>7. \A i \in 1 .. n : f[i] = g[i]
    BY <1>1, <1>3, <1>6, FlatUnique
<1>8. FlattenSeq(d) = f[n]
  <2>1. FlattenSeq(d) = g[n]
      BY <1>2 DEF g
  <2> QED BY <1>1, <1>7, <2>1
<1> QED BY <1>3, <1>8 DEF n

LEMMA FlattenNothing == FlattenSeq(<<>>) = <<>>
BY DEF FlattenSeq

LEMMA FlattenType ==
    ASSUME NEW S, NEW d \in Seq(Seq(S))
    PROVE  FlattenSeq(d) \in Seq(S)
<1>1. CASE Len(d) = 0
  <2>1. d = <<>>
      BY <1>1, EmptySeq
  <2> QED BY <2>1, FlattenNothing, EmptySeq
<1>2. CASE Len(d) # 0
  <2>1. Len(d) \in 1 .. Len(d)
      BY <1>2, LenProperties
  <2> QED BY <1>2, <2>1, FlattenIs, SMTT(30)
<1> QED BY <1>1, <1>2

\* One more file.
LEMMA FlattenAppend ==
    ASSUME NEW S, NEW d \in Seq(Seq(S)), NEW x \in Seq(S)
    PROVE  FlattenSeq(Append(d, x)) = FlattenSeq(d) \o x
<1> DEFINE e == Append(d, x)
           n == Len(d)
<1>1. n \in Nat /\ e \in Seq(Seq(S)) /\ Len(e) = n + 1 /\ (\A i \in 1 .. n : e[i] = d[i]) /\ e[n + 1] = x
    BY AppendProperties, LenProperties
<1> HIDE DEF e, n
<1>2. PICK g \in [1 .. n + 1 -> Seq(S)] : Flat(e, g, n + 1) /\ FlattenSeq(e) = g[n + 1]
  <2>1. Len(e) # 0
      BY <1>1
  <2> QED BY <1>1, <2>1, FlattenIs
<1>3. CASE n = 0
  <2>1. d = <<>>
      BY <1>3, EmptySeq DEF n
  <2>2. FlattenSeq(e) = x
    <3>1. n + 1 = 1 /\ 1 \in 1 .. n + 1
        BY <1>3
    <3> QED BY <1>1, <1>2, <3>1 DEF Flat
  <2>3. <<>> \o x = x
      BY ConcatEmptySeq
  <2> QED BY <2>1, <2>2, <2>3, FlattenNothing DEF e
<1>4. CASE n # 0
  <2>1. PICK f \in [1 .. n -> Seq(S)] : Flat(d, f, n) /\ FlattenSeq(d) = f[n]
      BY <1>4, FlattenIs DEF n
  <2>2. Flat(d, g, n)
    <3>1. \A i \in 1 .. n : i \in 1 .. n + 1
        BY <1>1
    <3> QED BY <1>1, <1>2, <3>1 DEF Flat
  <2>3. \A i \in 1 .. n : f[i] = g[i]
    <3>1. n \in Nat
        BY <1>1
    <3>2. Flat(d, f, n)
        BY <2>1
    <3>3. \A a, b : Flat(d, a, n) /\ Flat(d, b, n) => \A i \in 1 .. n : a[i] = b[i]
        BY <3>1, FlatUnique
    <3> QED BY <2>2, <3>2, <3>3
  <2> DEFINE i == n + 1
  <2>4. i \in 1 .. n + 1 /\ i # 1 /\ i - 1 = n /\ n \in 1 .. n
      BY <1>1, <1>4
  <2> HIDE DEF i
  <2>5. g[i] = g[n] \o e[i]
      BY <1>2, <2>4 DEF Flat
  <2>6. g[n + 1] = f[n] \o x
      BY <1>1, <2>3, <2>4, <2>5 DEF i
  <2> QED BY <1>2, <2>1, <2>6 DEF e
<1> QED BY <1>3, <1>4

-----------------------------------------------------------------------------
(* The order that a sort key puts rows in *)

\* The i-th column of the key tells that a row comes before another.
Before(i, a, b) ==
    \/ sortBy[i].strategy = "ASC"  /\ a[sortBy[i].column] < b[sortBy[i].column]
    \/ sortBy[i].strategy = "DESC" /\ a[sortBy[i].column] > b[sortBy[i].column]

LEMMA KeyIs ==
    ASSUME loaded \in Tables, sortBy \in SortSpecs
    PROVE  /\ loaded[1] # <<>>
           /\ Len(sortBy) \in Nat /\ DOMAIN sortBy = 1 .. Len(sortBy)
           /\ \A i \in 1 .. Len(sortBy), a \in Row :
                 a[sortBy[i].column] \in Int /\ sortBy[i].strategy \in {"ASC", "DESC"}
<1>1. /\ sortBy \in Seq([column : Nat, strategy : {"ASC", "DESC"}]) /\ sortBy # <<>>
      /\ \A i \in DOMAIN sortBy : sortBy[i].column \in DOMAIN loaded[1]
    BY SortAssumption
<1>2. Len(sortBy) \in Nat \ {0} /\ DOMAIN sortBy = 1 .. Len(sortBy)
    BY <1>1, LenProperties, EmptySeq
<1>3. \A i \in 1 .. Len(sortBy) : sortBy[i] \in [column : Nat, strategy : {"ASC", "DESC"}]
  <2>1. sortBy \in [1 .. Len(sortBy) -> [column : Nat, strategy : {"ASC", "DESC"}]]
      BY <1>1, LenProperties
  <2> QED BY <2>1
<1>4. loaded[1] # <<>>
  <2>1. sortBy[1].column \in DOMAIN loaded[1]
      BY <1>1, <1>2
  <2>2. DOMAIN <<>> = {}
      OBVIOUS
  <2> QED BY <2>1, <2>2
<1>5. \A i \in 1 .. Len(sortBy), a \in Row : a[sortBy[i].column] \in Int
    BY <1>1, <1>2 DEF Row
<1>6. \A i \in 1 .. Len(sortBy) : sortBy[i].strategy \in {"ASC", "DESC"}
    BY <1>3
<1> QED BY <1>2, <1>4, <1>5, <1>6

\* A row that comes before another comes before any third row, or that comes before the other.
LEMMA BetweenRows ==
    ASSUME loaded \in Tables, sortBy \in SortSpecs, NEW a \in Row, NEW b \in Row, NEW c \in Row,
           Precedes(c, a)
    PROVE  Precedes(c, b) \/ Precedes(b, a)
<1> DEFINE n == Len(sortBy)
           V(x, i) == x[sortBy[i].column]
<1>1. /\ n \in Nat /\ DOMAIN sortBy = 1 .. n
      /\ \A i \in 1 .. n : V(a, i) \in Int /\ V(b, i) \in Int /\ V(c, i) \in Int
      /\ \A i \in 1 .. n : sortBy[i].strategy \in {"ASC", "DESC"}
    BY KeyIs
<1>2. \A x, y : Precedes(x, y) <=> \E i \in 1 .. n : (\A j \in 1 .. i - 1 : V(x, j) = V(y, j)) /\ Before(i, x, y)
    BY <1>1 DEF Precedes, Before
<1>3. \A i, x, y : Before(i, x, y) <=> \/ sortBy[i].strategy = "ASC"  /\ V(x, i) < V(y, i)
                                       \/ sortBy[i].strategy = "DESC" /\ V(x, i) > V(y, i)
    BY DEF Before
<1> HIDE DEF V, n
<1>4. PICK i \in 1 .. n : (\A j \in 1 .. i - 1 : V(c, j) = V(a, j)) /\ Before(i, c, a)
    BY <1>2
<1> DEFINE D == {j \in 1 .. i : V(b, j) # V(c, j) \/ V(b, j) # V(a, j)}
<1>5. i \in D
  <2>1. V(c, i) # V(a, i)
      BY <1>1, <1>3, <1>4
  <2> QED BY <1>1, <2>1
<1>6. PICK j \in D : \A k \in D : j <= k
  <2>1. D \in SUBSET Nat /\ D # {}
      BY <1>5
  <2> HIDE DEF D
  <2> QED BY <2>1, Least
<1>7. j \in 1 .. i /\ j \in 1 .. n /\ (V(b, j) # V(c, j) \/ V(b, j) # V(a, j))
    BY <1>1, <1>6
<1>8. \A k \in 1 .. j - 1 : V(b, k) = V(c, k) /\ V(b, k) = V(a, k)
  <2> SUFFICES ASSUME NEW k \in 1 .. j - 1, k \in D PROVE FALSE
      BY <1>7
  <2>1. j <= k
      BY <1>6
  <2> HIDE DEF D
  <2> QED BY <1>7, <2>1
<1> HIDE DEF D
<1>9. Before(j, c, b) \/ Before(j, b, a)
  <2>1. CASE j = i
      BY <1>1, <1>3, <1>4, <1>7, <2>1
  <2>2. CASE j # i
    <3>1. V(c, j) = V(a, j)
        BY <1>4, <1>7, <2>2
    <3> QED BY <1>1, <1>3, <1>7, <3>1
  <2> QED BY <2>1, <2>2
<1>10. (\A k \in 1 .. j - 1 : V(c, k) = V(b, k)) /\ (\A k \in 1 .. j - 1 : V(b, k) = V(a, k))
    BY <1>8
<1> QED BY <1>2, <1>7, <1>9, <1>10

-----------------------------------------------------------------------------
(* The runs of a group *)

LEMMA RunsAre ==
    ASSUME loaded \in Tables, size \in Nat \ {0}, pageIndex \in Nat, pageIndex < blockCount
    PROVE  /\ GroupEnd \in Nat /\ pageIndex < GroupEnd /\ GroupEnd <= blockCount
           /\ K * size \in Nat \ {0} /\ (GroupEnd < blockCount => GroupEnd = pageIndex + K * size)
           /\ \A r \in Runs : /\ RunStart(r) \in Pages /\ pageIndex <= RunStart(r)
                              /\ RunEnd(RunStart(r)) \in Pages /\ RunStart(r) <= RunEnd(RunStart(r))
                              /\ RunEnd(RunStart(r)) < GroupEnd /\ RunEnd(RunStart(r)) < RunStart(r) + size
           /\ \A r, q \in Runs : r < q => RunEnd(RunStart(r)) < RunStart(q)
           /\ \A p \in pageIndex .. GroupEnd - 1 :
                 \E r \in Runs : RunStart(r) <= p /\ p <= RunEnd(RunStart(r))
<1> DEFINE B == blockCount
           n == K * size
           G == GroupEnd
           c == Ceiling(G - pageIndex, size)
<1>1. B \in Nat \ {0} /\ n \in Nat \ {0} /\ K \in Nat \ {0} /\ size \in Nat \ {0} /\ pageIndex \in Nat /\ pageIndex < B
  <2>1. K * size \in Nat /\ 0 * size < K * size /\ 0 * size = 0
    <3>1. 0 * size < K * size
        BY Constants, Product
    <3> QED BY <3>1, Constants
  <2> QED BY <2>1, TableIs, Constants
<1>2. /\ G = LowerOf(pageIndex + n, B) /\ \A p : RunEnd(p) = LowerOf(p + size, B) - 1
      /\ Pages = 0 .. B - 1 /\ Runs = 1 .. c
    BY DEF GroupEnd, RunEnd, Pages, Runs
<1> HIDE DEF B
<1>3. n = K * size
    OBVIOUS
<1> HIDE DEF n, G
<1>4. G \in Nat /\ pageIndex < G /\ G <= B /\ (G < B => G = pageIndex + n) /\ G - pageIndex <= n
    BY <1>1, <1>2 DEF LowerOf
<1>5. c \in Nat \ {0} /\ G - pageIndex <= c * size /\ (c - 1) * size < G - pageIndex /\ c * size \in Nat /\ (c - 1) * size \in Int
  <2>1. G - pageIndex \in Nat \ {0}
      BY <1>1, <1>4
  <2>2. c \in Nat \ {0} /\ G - pageIndex <= c * size /\ (c - 1) * size < G - pageIndex
      BY <1>1, <2>1, CeilingIs
  <2> HIDE DEF c
  <2> QED BY <1>1, <2>2
<1> HIDE DEF c
<1>6. c <= K
  <2>1. (c - 1) * size < K * size
      BY <1>1, <1>3, <1>4, <1>5
  <2>2. c - 1 \in Int
      BY <1>5
  <2>3. c - 1 < K
      BY <1>1, <2>1, <2>2, Product
  <2> QED BY <1>1, <1>5, <2>3
<1> DEFINE X(r) == (r - 1) * size
<1>7. ASSUME NEW r \in 1 .. c
      PROVE  /\ RunStart(r) = pageIndex + X(r) /\ X(r) \in Nat /\ X(r) + size <= n /\ X(r) < G - pageIndex
  <2>1. r \in Nat \ {0} /\ r - 1 \in Nat
      BY <1>5
  <2>2. (r - 1) * size \in Nat /\ (r - 1 + 1) * size = (r - 1) * size + size /\ r - 1 + 1 = r
    <3> DEFINE k == r - 1
    <3>1. k \in Nat
        BY <2>1
    <3>2. k + 1 = r
        BY <2>1
    <3> HIDE DEF k
    <3>3. k * size \in Nat /\ (k + 1) * size = k * size + size
        BY <1>1, <3>1, Product
    <3> QED BY <3>2, <3>3 DEF k
  <2>3. r * size = X(r) + size /\ r * size \in Nat
      BY <1>1, <2>1, <2>2
  <2>4. r * size <= K * size
    <3>1. r = K \/ r < K
        BY <1>1, <1>5, <1>6
    <3> QED BY <1>1, <2>1, <2>3, <3>1, Product
  <2>5. X(r) <= (c - 1) * size
    <3>1. r - 1 = c - 1 \/ r - 1 < c - 1
        BY <1>5
    <3>2. r - 1 \in Int /\ c - 1 \in Int
        BY <1>5, <2>1
    <3>3. r - 1 < c - 1 => (r - 1) * size < (c - 1) * size
        BY <1>1, <3>2, Product
    <3> QED BY <1>5, <2>2, <3>1, <3>3
  <2> QED BY <1>3, <1>4, <1>5, <2>2, <2>3, <2>4, <2>5 DEF RunStart
<1>8. ASSUME NEW r \in 1 .. c, NEW q \in 1 .. c, r < q PROVE X(r) + size <= X(q)
  <2> DEFINE k == r - 1
             l == q - 1
  <2>1. k \in Nat /\ l \in Nat /\ k + 1 <= l
      BY <1>5, <1>8
  <2> HIDE DEF k, l
  <2>2. (k + 1) * size = k * size + size /\ k * size \in Int /\ l * size \in Int
      BY <1>1, <2>1, Product
  <2>3. k + 1 = l \/ (k + 1) * size < l * size
    <3>1. k + 1 \in Int /\ (k + 1 = l \/ k + 1 < l)
        BY <2>1
    <3> QED BY <1>1, <2>1, <3>1, Product
  <2>4. k * size + size <= l * size
      BY <1>1, <2>2, <2>3
  <2> QED BY <2>4 DEF k, l
<1>9. ASSUME NEW p \in pageIndex .. G - 1 PROVE \E r \in 1 .. c : X(r) <= p - pageIndex /\ p - pageIndex < X(r) + size
  <2> DEFINE y == (p - pageIndex) \div size
             z == (p - pageIndex) % size
  <2>1. p - pageIndex \in Nat
      BY <1>1, <1>4
  <2>2. y \in Nat /\ z \in 0 .. size - 1 /\ p - pageIndex = y * size + z
      BY <1>1, <2>1, DivMod
  <2> HIDE DEF y, z
  <2>3. y * size \in Int /\ y * size < c * size
      BY <1>1, <1>4, <1>5, <2>2
  <2>4. y < c
      BY <1>1, <1>5, <2>2, <2>3, Product
  <2>5. y + 1 \in 1 .. c /\ (y + 1) - 1 = y
      BY <1>5, <2>2, <2>4
  <2>6. X(y + 1) = y * size
      BY <2>5
  <2>7. X(y + 1) <= p - pageIndex /\ p - pageIndex < X(y + 1) + size
    <3> HIDE DEF X
    <3> QED BY <1>1, <2>2, <2>3, <2>6
  <2> QED BY <2>5, <2>7
<1> HIDE DEF X
<1>10. ASSUME NEW r \in Runs
       PROVE  /\ RunStart(r) \in Pages /\ pageIndex <= RunStart(r)
              /\ RunEnd(RunStart(r)) \in Pages /\ RunStart(r) <= RunEnd(RunStart(r))
              /\ RunEnd(RunStart(r)) < G /\ RunEnd(RunStart(r)) < RunStart(r) + size
  <2>1. r \in 1 .. c
      BY <1>2
  <2> DEFINE s == RunStart(r)
             e == RunEnd(s)
  <2>2. s = pageIndex + X(r) /\ X(r) \in Nat /\ X(r) + size <= n /\ X(r) < G - pageIndex
      BY <1>7, <2>1
  <2>3. e = LowerOf(s + size, B) - 1
      BY <1>2
  <2> HIDE DEF s, e
  <2>4. s \in 0 .. B - 1 /\ pageIndex <= s /\ s < G
      BY <1>1, <1>4, <2>2
  <2>5. e \in 0 .. B - 1 /\ s <= e /\ e < s + size
      BY <1>1, <2>3, <2>4 DEF LowerOf
  <2>6. e < G
      BY <1>1, <1>2, <2>2, <2>3, <2>4 DEF LowerOf
  <2> QED BY <1>2, <2>4, <2>5, <2>6 DEF s, e
<1>11. ASSUME NEW r \in Runs, NEW q \in Runs, r < q PROVE RunEnd(RunStart(r)) < RunStart(q)
  <2>1. X(r) + size <= X(q) /\ RunStart(r) = pageIndex + X(r) /\ RunStart(q) = pageIndex + X(q) /\ X(r) \in Nat /\ X(q) \in Nat
      BY <1>2, <1>7, <1>8, <1>11
  <2>2. RunEnd(RunStart(r)) < RunStart(r) + size /\ RunEnd(RunStart(r)) \in Nat
      BY <1>1, <1>2, <1>10
  <2> HIDE DEF RunStart, RunEnd
  <2> QED BY <1>1, <2>1, <2>2
<1>12. ASSUME NEW p \in pageIndex .. G - 1
       PROVE  \E r \in Runs : RunStart(r) <= p /\ p <= RunEnd(RunStart(r))
  <2>1. PICK r \in 1 .. c : X(r) <= p - pageIndex /\ p - pageIndex < X(r) + size
      BY <1>9
  <2>2. RunStart(r) = pageIndex + X(r) /\ X(r) \in Nat /\ RunEnd(RunStart(r)) = LowerOf(RunStart(r) + size, B) - 1
      BY <1>2, <1>7
  <2> DEFINE s == RunStart(r)
             e == RunEnd(s)
  <2>3. s = pageIndex + X(r) /\ e = LowerOf(s + size, B) - 1
      BY <2>2
  <2> HIDE DEF s, e
  <2>4. s <= p /\ p <= e
      BY <1>1, <1>4, <2>1, <2>2, <2>3 DEF LowerOf
  <2> QED BY <1>2, <2>4 DEF s, e
<1> QED BY <1>1, <1>2, <1>3, <1>4, <1>10, <1>11, <1>12 DEF G, B, n

\* The places of a run's rows.
Region(r) == Start(RunStart(r)) + 1 .. EndOf(RunEnd(RunStart(r)))

LEMMA RegionsAre ==
    ASSUME loaded \in Tables, size \in Nat \ {0}, pageIndex \in Nat, pageIndex < blockCount
    PROVE  /\ \A r \in Runs : /\ Region(r) \subseteq Start(pageIndex) + 1 .. Len(loaded)
                              /\ \A i \in Region(r) : i <= Start(GroupEnd)
                              /\ \A i \in Region(r) : i <= Start(RunStart(r) + size)
           /\ \A r, q \in Runs : r # q => Region(r) \cap Region(q) = {}
           /\ \A i \in Start(pageIndex) + 1 .. Len(loaded) :
                 i <= Start(GroupEnd) => \E r \in Runs : i \in Region(r)
<1> DEFINE s(r) == RunStart(r)
           e(r) == RunEnd(RunStart(r))
<1>1. /\ GroupEnd \in Nat /\ pageIndex < GroupEnd /\ GroupEnd <= blockCount
      /\ \A r \in Runs : /\ s(r) \in Pages /\ pageIndex <= s(r) /\ e(r) \in Pages /\ s(r) <= e(r)
                         /\ e(r) < GroupEnd /\ e(r) < s(r) + size
      /\ \A r, q \in Runs : r < q => e(r) < s(q)
      /\ \A p \in pageIndex .. GroupEnd - 1 : \E r \in Runs : s(r) <= p /\ p <= e(r)
    BY RunsAre
<1>2. /\ \A p \in Pages : /\ p \in Nat /\ Start(p) \in Nat /\ rowsPerBlockCount(p) \in 1 .. maxRowsPerBlock
                          /\ EndOf(p) = Start(p) + rowsPerBlockCount(p) /\ EndOf(p) \in 1 .. Len(loaded)
      /\ Len(loaded) \in Nat /\ blockCount \in Nat /\ maxRowsPerBlock \in Nat
    BY PageIs, TableIs, Constants
<1>3. /\ \A p, q \in Nat : p <= q => Start(p) <= Start(q)
      /\ \A p, q \in Nat : p < q => Start(p) + maxRowsPerBlock <= Start(q)
      /\ \A p \in Nat : Start(p) \in Nat
    BY StartIs
<1>4. \A r \in Runs : Region(r) = Start(s(r)) + 1 .. EndOf(e(r))
    BY DEF Region
<1>6. \A r, q \in Runs : r < q \/ q < r \/ r = q
    BY DEF Runs
<1>7. \A i \in 1 .. Len(loaded) : \E p \in Pages : \E j \in 1 .. rowsPerBlockCount(p) : i = Start(p) + j
    BY EveryPlace
<1> HIDE DEF s, e, Start, EndOf, rowsPerBlockCount, blockCount, Runs, GroupEnd, Pages, Region
<1>5. ASSUME NEW r \in Runs
      PROVE  /\ s(r) \in Nat /\ e(r) \in Nat /\ s(r) + size \in Nat
             /\ Start(s(r)) \in Nat /\ Start(e(r)) \in Nat /\ Start(s(r) + size) \in Nat
             /\ EndOf(e(r)) \in 1 .. Len(loaded) /\ Start(e(r)) < EndOf(e(r)) /\ EndOf(e(r)) \in Nat
  <2>1. s(r) \in Pages /\ e(r) \in Pages
      BY <1>1
  <2>2. s(r) \in Nat /\ e(r) \in Nat /\ Start(s(r)) \in Nat /\ Start(e(r)) \in Nat /\ EndOf(e(r)) \in 1 .. Len(loaded)
      BY <1>2, <2>1
  <2>3. EndOf(e(r)) = Start(e(r)) + rowsPerBlockCount(e(r)) /\ rowsPerBlockCount(e(r)) \in 1 .. maxRowsPerBlock
      BY <1>2, <2>1
  <2>4. s(r) + size \in Nat
      BY <2>2
  <2>5. Start(s(r) + size) \in Nat
      BY <1>3, <2>4
  <2>6. Len(loaded) \in Nat /\ maxRowsPerBlock \in Nat
      BY <1>2
  <2>7. Start(e(r)) < EndOf(e(r)) /\ EndOf(e(r)) \in Nat
      BY <2>2, <2>3, <2>6
  <2> QED BY <2>2, <2>4, <2>5, <2>7
<1>0. Start(pageIndex) \in Nat /\ Start(GroupEnd) \in Nat
    BY <1>1, <1>3
<1>8. ASSUME NEW p \in Pages, NEW q \in Nat, p < q PROVE EndOf(p) <= Start(q)
  <2>1. Start(p) + maxRowsPerBlock <= Start(q)
      BY <1>2, <1>3, <1>8
  <2> QED BY <1>2, <1>3, <2>1
<1>9. ASSUME NEW r \in Runs
      PROVE  /\ Region(r) \subseteq Start(pageIndex) + 1 .. Len(loaded)
             /\ \A i \in Region(r) : i <= Start(GroupEnd)
             /\ \A i \in Region(r) : i <= Start(s(r) + size)
  <2>1. /\ EndOf(e(r)) <= Start(GroupEnd) /\ EndOf(e(r)) <= Start(s(r) + size)
        /\ EndOf(e(r)) \in 1 .. Len(loaded) /\ Start(pageIndex) <= Start(s(r))
      BY <1>1, <1>2, <1>3, <1>5, <1>8
  <2>2. Start(pageIndex) \in Nat /\ Start(s(r)) \in Nat /\ Start(GroupEnd) \in Nat /\ Start(s(r) + size) \in Nat
      BY <1>1, <1>2, <1>3, <1>5
  <2>3. Region(r) = Start(s(r)) + 1 .. EndOf(e(r))
      BY <1>4
  <2> QED BY <1>2, <2>1, <2>2, <2>3
<1>10. ASSUME NEW r \in Runs, NEW q \in Runs, r < q PROVE Region(r) \cap Region(q) = {}
  <2>1. EndOf(e(r)) <= Start(s(q)) /\ EndOf(e(r)) \in Nat /\ Start(s(q)) \in Nat
    <3>1. e(r) \in Pages /\ e(r) < s(q) /\ s(q) \in Nat
        BY <1>1, <1>5, <1>10
    <3> QED BY <1>5, <1>8, <3>1
  <2>2. Region(r) = Start(s(r)) + 1 .. EndOf(e(r)) /\ Start(s(r)) \in Nat
      BY <1>4, <1>5
  <2>3. Region(q) = Start(s(q)) + 1 .. EndOf(e(q)) /\ EndOf(e(q)) \in Nat
      BY <1>4, <1>5
  <2> QED BY <2>1, <2>2, <2>3
<1>11. ASSUME NEW i \in Start(pageIndex) + 1 .. Len(loaded), i <= Start(GroupEnd)
       PROVE  \E r \in Runs : i \in Region(r)
  <2>1. i \in 1 .. Len(loaded) /\ i \in Nat /\ i > Start(pageIndex)
      BY <1>0, <1>2
  <2>2. PICK p \in Pages : \E j \in 1 .. rowsPerBlockCount(p) : i = Start(p) + j
      BY <1>7, <2>1
  <2>3. i > Start(p) /\ i <= EndOf(p) /\ p \in Nat /\ Start(p) \in Nat /\ EndOf(p) \in Nat
      BY <1>2, <2>2
  <2>4. p < GroupEnd
    <3>1. SUFFICES ASSUME GroupEnd <= p PROVE FALSE
        BY <1>1, <2>3
    <3>2. Start(GroupEnd) <= Start(p) /\ Start(GroupEnd) \in Nat
        BY <1>1, <1>3, <2>3, <3>1
    <3> QED BY <1>11, <2>1, <2>3, <3>2
  <2>5. pageIndex <= p
    <3>1. SUFFICES ASSUME p < pageIndex PROVE FALSE
        BY <2>3
    <3>2. EndOf(p) <= Start(pageIndex) /\ Start(pageIndex) \in Nat
        BY <1>3, <1>8, <3>1
    <3> QED BY <2>1, <2>3, <3>2
  <2>6. p \in pageIndex .. GroupEnd - 1
      BY <1>1, <2>3, <2>4, <2>5
  <2>7. PICK r \in Runs : s(r) <= p /\ p <= e(r)
      BY <1>1, <2>6
  <2>8. Start(s(r)) <= Start(p) /\ Start(s(r)) \in Nat /\ s(r) \in Nat /\ e(r) \in Nat /\ EndOf(e(r)) \in Nat
      BY <1>3, <1>5, <2>3, <2>7
  <2>9. EndOf(p) <= EndOf(e(r))
    <3>1. p = e(r) \/ p < e(r)
        BY <2>3, <2>7, <2>8
    <3>2. p < e(r) => EndOf(p) <= Start(e(r)) /\ Start(e(r)) < EndOf(e(r)) /\ Start(e(r)) \in Nat
        BY <1>5, <1>8, <2>8
    <3> QED BY <2>3, <2>8, <3>1, <3>2
  <2>10. i \in Start(s(r)) + 1 .. EndOf(e(r))
      BY <2>1, <2>3, <2>8, <2>9
  <2> QED BY <1>4, <2>10
<1> QED BY <1>6, <1>9, <1>10, <1>11 DEF s, e

\* A cursor's place is in its run, and advancing it takes it to the next place of the run.
LEMMA CursorIs ==
    ASSUME loaded \in Tables, size \in Nat \ {0}, pageIndex \in Nat, pageIndex < blockCount,
           NEW r \in Runs, NEW c, InRun(c, r)
    PROVE  /\ c.page \in Pages /\ c.last \in Pages /\ c.page <= c.last
           /\ Place(c) \in 1 .. Len(loaded) /\ Place(c) \in LeftOf(c)
           /\ LeftOf(c) \subseteq Region(r)
           /\ AtEndOfRun(c) => LeftOf(c) = {Place(c)}
           /\ ~AtEndOfRun(c) => /\ InRun(Advanced(c), r) /\ Advanced(c).last = c.last
                                /\ Place(Advanced(c)) = Place(c) + 1 /\ Place(c) + 1 \in LeftOf(c)
<1> DEFINE s == RunStart(r)
           e == RunEnd(RunStart(r))
<1>1. s \in Pages /\ e \in Pages /\ s <= e
    BY RunsAre
<1>2. /\ c \in [page : Nat, row : Nat, last : Nat] /\ c.last = e /\ c.page \in s .. e
      /\ c.row \in 1 .. rowsPerBlockCount(c.page)
    BY DEF InRun
<1>3. \A p \in Pages : /\ p \in Nat /\ p < blockCount /\ Start(p) \in Nat /\ rowsPerBlockCount(p) \in 1 .. maxRowsPerBlock
                       /\ EndOf(p) = Start(p) + rowsPerBlockCount(p) /\ EndOf(p) \in 1 .. Len(loaded)
                       /\ p + 1 < blockCount => EndOf(p) = Start(p + 1)
    BY PageIs
<1>4. /\ Len(loaded) \in Nat /\ blockCount \in Nat /\ maxRowsPerBlock \in Nat \ {0}
      /\ \A p, q \in Nat : p <= q => Start(p) <= Start(q)
      /\ \A p, q \in Nat : p < q => Start(p) + maxRowsPerBlock <= Start(q)
    BY TableIs, Constants, StartIs
<1>5. Pages = 0 .. blockCount - 1
    BY DEF Pages
<1>6. Region(r) = Start(s) + 1 .. EndOf(e)
    BY DEF Region
<1>7. Place(c) = Start(c.page) + c.row /\ LeftOf(c) = Place(c) .. EndOf(c.last)
    BY DEF Place, LeftOf
<1>8. AtEndOfRun(c) <=> c.page = c.last /\ c.row = rowsPerBlockCount(c.page)
    BY DEF AtEndOfRun
<1>9. Advanced(c) = IF c.row < rowsPerBlockCount(c.page) THEN [c EXCEPT !.row = @ + 1]
                    ELSE [c EXCEPT !.page = @ + 1, !.row = 1]
    BY DEF Advanced
<1> DEFINE p == c.page
           n == Advanced(c)
<1>10. /\ p \in Pages /\ p \in Nat /\ s \in Nat /\ e \in Nat /\ s <= p /\ p <= e
  <2>1. s \in Nat /\ e \in Nat /\ e < blockCount
      BY <1>1, <1>3
  <2>2. p \in Nat /\ s <= p /\ p <= e
      BY <1>2, <2>1
  <2>3. p \in 0 .. blockCount - 1
      BY <1>4, <2>1, <2>2
  <2> HIDE DEF p, s, e
  <2> QED BY <1>5, <2>1, <2>2, <2>3
<1> HIDE DEF s, e, n, Start, EndOf, rowsPerBlockCount, blockCount, Runs, Pages, Region, Place, LeftOf, AtEndOfRun
<1>11. /\ Start(p) \in Nat /\ Start(s) \in Nat /\ Start(s) <= Start(p) /\ EndOf(p) \in Nat /\ EndOf(e) \in 1 .. Len(loaded)
       /\ EndOf(p) <= EndOf(e) /\ EndOf(p) = Start(p) + rowsPerBlockCount(p) /\ rowsPerBlockCount(p) \in Nat
       /\ (p # e => EndOf(p) < EndOf(e) /\ EndOf(p) = Start(p + 1))
  <2>1. /\ Start(p) \in Nat /\ rowsPerBlockCount(p) \in 1 .. maxRowsPerBlock /\ EndOf(p) = Start(p) + rowsPerBlockCount(p)
        /\ EndOf(p) \in 1 .. Len(loaded) /\ (p + 1 < blockCount => EndOf(p) = Start(p + 1))
      BY <1>3, <1>10
  <2>2. /\ Start(e) \in Nat /\ rowsPerBlockCount(e) \in 1 .. maxRowsPerBlock /\ EndOf(e) = Start(e) + rowsPerBlockCount(e)
        /\ EndOf(e) \in 1 .. Len(loaded) /\ e < blockCount
      BY <1>1, <1>3
  <2>3. Start(s) \in Nat /\ Start(s) <= Start(p)
      BY <1>1, <1>3, <1>4, <1>10
  <2>4. p # e => Start(p) + maxRowsPerBlock <= Start(e) /\ p + 1 < blockCount
    <3>1. p # e => p < e
        BY <1>10
    <3>2. p < e => p + 1 < blockCount
        BY <1>4, <1>10, <2>2
    <3> QED BY <1>4, <1>10, <3>1, <3>2
  <2>5. p # e => EndOf(p) < EndOf(e)
      BY <1>4, <2>1, <2>2, <2>4
  <2>6. EndOf(p) <= EndOf(e) /\ EndOf(p) \in Nat
      BY <1>4, <2>1, <2>2, <2>5
  <2> QED BY <1>4, <2>1, <2>2, <2>3, <2>4, <2>5, <2>6
<1>12. c.row \in Nat /\ 1 <= c.row /\ c.row <= rowsPerBlockCount(p)
    BY <1>2, <1>11
<1>13. /\ Place(c) \in 1 .. Len(loaded) /\ Place(c) \in LeftOf(c) /\ LeftOf(c) \subseteq Region(r)
  <2>1. Place(c) \in Nat /\ Start(s) < Place(c) /\ Place(c) <= EndOf(e) /\ LeftOf(c) = Place(c) .. EndOf(e)
      BY <1>2, <1>7, <1>11, <1>12
  <2> QED BY <1>4, <1>6, <1>11, <2>1
<1>14. ASSUME AtEndOfRun(c) PROVE LeftOf(c) = {Place(c)}
  <2>1. Place(c) = EndOf(e) /\ LeftOf(c) = Place(c) .. EndOf(e) /\ EndOf(e) \in Nat
      BY <1>2, <1>4, <1>7, <1>8, <1>11, <1>14
  <2> QED BY <2>1
<1>15. ASSUME ~AtEndOfRun(c)
       PROVE  /\ InRun(n, r) /\ n.last = c.last
              /\ Place(n) = Place(c) + 1 /\ Place(c) + 1 \in LeftOf(c)
  <2>1. CASE c.row < rowsPerBlockCount(p)
    <3>1. n = [c EXCEPT !.row = @ + 1]
        BY <1>9, <2>1 DEF n
    <3>2. n \in [page : Nat, row : Nat, last : Nat] /\ n.page = p /\ n.last = c.last /\ n.row = c.row + 1
        BY <1>2, <3>1
    <3>3. Place(n) = Start(p) + (c.row + 1)
        BY <3>2 DEF Place
    <3>4. Place(n) = Place(c) + 1
        BY <1>7, <1>11, <1>12, <3>3
    <3>5. n.row \in 1 .. rowsPerBlockCount(n.page)
        BY <1>11, <1>12, <2>1, <3>2
    <3>6. InRun(n, r)
        BY <1>2, <3>2, <3>5 DEF InRun, s, e
    <3>7. Place(c) + 1 \in LeftOf(c)
        BY <1>2, <1>4, <1>7, <1>11, <1>12, <2>1
    <3> QED BY <3>2, <3>4, <3>6, <3>7
  <2>2. CASE ~(c.row < rowsPerBlockCount(p))
    <3>1. c.row = rowsPerBlockCount(p) /\ p # e
        BY <1>2, <1>8, <1>11, <1>12, <1>15, <2>2
    <3>2. n = [c EXCEPT !.page = @ + 1, !.row = 1]
        BY <1>9, <2>2 DEF n
    <3>3. n \in [page : Nat, row : Nat, last : Nat] /\ n.page = p + 1 /\ n.last = c.last /\ n.row = 1
      <4> DEFINE x == [c EXCEPT !.page = @ + 1]
      <4>1. x \in [page : Nat, row : Nat, last : Nat] /\ x.page = p + 1 /\ x.last = c.last
          BY <1>2
      <4>2. n = [x EXCEPT !.row = 1]
          BY <3>2
      <4> HIDE DEF x
      <4> QED BY <4>1, <4>2
    <3>4. p + 1 \in s .. e
        BY <1>10, <3>1
    <3>5. p + 1 \in Pages
      <4>1. e < blockCount
          BY <1>1, <1>3
      <4>2. p + 1 \in 0 .. blockCount - 1
          BY <1>4, <1>10, <3>4, <4>1
      <4> QED BY <1>5, <4>2
    <3>6. 1 \in 1 .. rowsPerBlockCount(p + 1)
        BY <1>3, <1>4, <3>5
    <3>7. Place(n) = Start(p + 1) + 1
        BY <3>3 DEF Place
    <3>8. Place(n) = Place(c) + 1
        BY <1>7, <1>11, <3>1, <3>7
    <3>9. InRun(n, r)
        BY <1>2, <3>3, <3>4, <3>6 DEF InRun, s, e
    <3>10. Place(c) + 1 \in LeftOf(c)
        BY <1>2, <1>4, <1>7, <1>11, <1>12, <3>1
    <3> QED BY <3>3, <3>8, <3>9, <3>10
  <2> QED BY <2>1, <2>2
<1> QED BY <1>1, <1>2, <1>10, <1>13, <1>14, <1>15 DEF n

-----------------------------------------------------------------------------
(* The rows that page files make up *)

TableOf(files) ==
    [i \in 1 .. Len(loaded) |-> RowIn(files, (i - 1) \div maxRowsPerBlock, ((i - 1) % maxRowsPerBlock) + 1)]

LEMMA TableOfIs ==
    ASSUME loaded \in Tables
    PROVE  /\ TableRows = TableOf(pageFile)
           /\ loaded' = loaded => TableRows' = TableOf(pageFile')
<1> DEFINE n == LowerOf((blockCount - 1 + 1) * maxRowsPerBlock, Len(loaded)) - 0 * maxRowsPerBlock
<1>1. n = Len(loaded) /\ 0 + 0 = 0
  <2>1. Len(loaded) \in Nat /\ blockCount - 1 + 1 = blockCount /\ Len(loaded) <= Start(blockCount) /\ Start(blockCount) \in Nat
    <3>1. blockCount \in Nat \ {0}
        BY TableIs
    <3> QED BY <3>1, TableIs, StartIs
  <2>2. LowerOf(Start(blockCount), Len(loaded)) = Len(loaded)
    <3> HIDE DEF Start, blockCount
    <3> QED BY <2>1 DEF LowerOf
  <2>3. 0 * maxRowsPerBlock = 0
      BY Constants
  <2>4. n = LowerOf(Start(blockCount), Len(loaded)) - 0
    <3> HIDE DEF blockCount, LowerOf
    <3> QED BY <2>1, <2>3 DEF Start
  <2> HIDE DEF n
  <2> QED BY <2>1, <2>2, <2>4
<1>2. \A i \in 1 .. n : (i - 1) \div maxRowsPerBlock \in Nat
  <2> TAKE i \in 1 .. n
  <2>1. i - 1 \in Nat
    <3> HIDE DEF n
    <3> QED BY <1>1, TableIs
  <2> QED BY <2>1, DivMod, Constants
<1>3. \A i \in 1 .. n : 0 + (i - 1) \div maxRowsPerBlock = (i - 1) \div maxRowsPerBlock
  <2> TAKE i \in 1 .. n
  <2> DEFINE q == (i - 1) \div maxRowsPerBlock
  <2>1. q \in Nat
      BY <1>2
  <2> HIDE DEF q
  <2>2. 0 + q = q
      BY <2>1
  <2> QED BY <2>2 DEF q
<1> DEFINE P(i) == (i - 1) \div maxRowsPerBlock
           J(i) == ((i - 1) % maxRowsPerBlock) + 1
<1>4. TableRows = [i \in 1 .. n |-> RowIn(pageFile, 0 + P(i), J(i))]
    BY DEF TableRows, RowsFrom, RowIn, ReadRow
<1>5. ASSUME loaded' = loaded PROVE TableRows' = [i \in 1 .. n |-> RowIn(pageFile', 0 + P(i), J(i))]
    BY <1>5 DEF TableRows, RowsFrom, RowIn, ReadRow, blockCount
<1>6. \A files : [i \in 1 .. n |-> RowIn(files, 0 + P(i), J(i))] = TableOf(files)
  <2> HIDE DEF n
  <2> QED BY <1>1, <1>3 DEF TableOf
<1> HIDE DEF n, P, J
<1> QED BY <1>4, <1>5, <1>6

LEMMA TableOfAre ==
    ASSUME loaded \in Tables, NEW files
    PROVE  /\ DOMAIN TableOf(files) = 1 .. Len(loaded)
           /\ \A p \in Pages : \A j \in 1 .. rowsPerBlockCount(p) : TableOf(files)[Start(p) + j] = RowIn(files, p, j)
<1>1. ASSUME NEW p \in Pages, NEW j \in 1 .. rowsPerBlockCount(p)
      PROVE  TableOf(files)[Start(p) + j] = RowIn(files, p, j)
  <2> DEFINE i == Start(p) + j
  <2>1. i \in 1 .. Len(loaded)
      BY PlaceIs
  <2>2. (i - 1) \div maxRowsPerBlock = p /\ ((i - 1) % maxRowsPerBlock) + 1 = j
      BY PlaceIs
  <2> HIDE DEF i
  <2>3. TableOf(files)[i] = RowIn(files, p, j)
      BY <2>1, <2>2 DEF TableOf
  <2> QED BY <2>3 DEF i
<1> QED BY <1>1 DEF TableOf

LEMMA TableRowsAre ==
    ASSUME loaded \in Tables
    PROVE  /\ DOMAIN TableRows = 1 .. Len(loaded)
           /\ \A p \in Pages : \A j \in 1 .. rowsPerBlockCount(p) :
                 TableRows[Start(p) + j] = ReadRow(p, j) /\ ReadPage(p)[j] = ReadRow(p, j)
<1>1. \A p \in Pages : \A j \in 1 .. rowsPerBlockCount(p) : ReadPage(p)[j] = ReadRow(p, j)
    BY DEF ReadPage
<1> QED BY <1>1, TableOfIs, TableOfAre, ReadRowIs

LEMMA Single ==
    ASSUME NEW S, NEW x \in S
    PROVE  <<x>> \in Seq(S) /\ Len(<<x>>) = 1 /\ <<x>>[1] = x
OBVIOUS

LEMMA IsSeq ==
    ASSUME NEW S, NEW n \in Nat, NEW f \in [1 .. n -> S]
    PROVE  f \in Seq(S) /\ Len(f) = n
OBVIOUS

\* Page files with rows in them make up a table.
LEMMA TableOfType ==
    ASSUME loaded \in Tables, loaded[1] # <<>>, NEW files \in [Pages -> Seq(Row)],
           \A p \in Pages : files[p] # <<>>
    PROVE  /\ \A p \in Pages, i \in Nat \ {0} : RowIn(files, p, i) \in Row
           /\ TableOf(files) \in Seq(Row) /\ Len(TableOf(files)) = Len(loaded)
<1>1. Len(loaded) \in Nat \ {0} /\ loaded \in Seq(Seq(Int))
    BY TableIs, SortAssumption
<1> DEFINE k == Len(loaded[1])
<1>2. k \in Nat \ {0} /\ DOMAIN loaded[1] = 1 .. k
  <2>1. loaded[1] \in Seq(Int)
    <3>1. loaded \in [1 .. Len(loaded) -> Seq(Int)]
        BY <1>1, LenProperties
    <3> QED BY <1>1, <3>1
  <2> QED BY <2>1, EmptySeq, LenProperties
<1> HIDE DEF k
<1>3. ASSUME NEW row \in Row PROVE Last(row) \in Int
  <2>1. row \in [1 .. k -> Int]
      BY <1>2 DEF Row
  <2>2. Len(row) = k /\ row[k] \in Int
      BY <1>2, <2>1
  <2> QED BY <2>2 DEF Last
<1>4. ASSUME NEW p \in Pages, NEW i \in Nat \ {0} PROVE RowIn(files, p, i) \in Row
  <2>1. files[p] \in Seq(Row) /\ files[p] # <<>>
      OBVIOUS
  <2>2. Len(files[p]) \in Nat \ {0} /\ \A j \in 1 .. Len(files[p]) : files[p][j] \in Row
    <3> HIDE DEF Row
    <3> QED BY <2>1, EmptySeq, LenProperties
  <2>3. CASE i <= Len(files[p])
    <3> HIDE DEF Row
    <3> QED BY <2>2, <2>3 DEF RowIn
  <2>4. CASE ~(i <= Len(files[p]))
    <3>1. Last(files[p]) \in Row
      <4> HIDE DEF Row
      <4> QED BY <2>2 DEF Last
    <3>2. Last(Last(files[p])) \in Int
        BY <1>3, <3>1
    <3> QED BY <2>4, <3>2 DEF RowIn, Row
  <2> QED BY <2>3, <2>4
<1>5. ASSUME NEW i \in 1 .. Len(loaded) PROVE TableOf(files)[i] \in Row
  <2>1. PICK p \in Pages : \E j \in 1 .. rowsPerBlockCount(p) : i = Start(p) + j
      BY EveryPlace
  <2>2. PICK j \in 1 .. rowsPerBlockCount(p) : i = Start(p) + j
      BY <2>1
  <2>3. rowsPerBlockCount(p) \in Nat
      BY PageIs, Constants
  <2>4. TableOf(files)[i] = RowIn(files, p, j) /\ j \in Nat \ {0}
      BY <2>2, <2>3, TableOfAre
  <2> QED BY <1>4, <2>4
<1>6. DOMAIN TableOf(files) = 1 .. Len(loaded) /\ TableOf(files) = [i \in 1 .. Len(loaded) |-> TableOf(files)[i]]
    BY DEF TableOf
<1> DEFINE t == TableOf(files)
<1> HIDE DEF t, Row
<1>7. t \in [1 .. Len(loaded) -> Row]
    BY <1>5, <1>6 DEF t
<1>8. t \in Seq(Row) /\ Len(t) = Len(loaded)
    BY <1>1, <1>7, IsSeq
<1> QED BY <1>4, <1>8 DEF t

\* The rows from page p to page q are those of the table from the first place of p on.
LEMMA RowsFromIs ==
    ASSUME loaded \in Tables, NEW p \in Pages, NEW q \in Pages, p <= q
    PROVE  /\ EndOf(q) - Start(p) \in Nat \ {0}
           /\ RowsFrom(p, q) = [i \in 1 .. EndOf(q) - Start(p) |-> TableRows[Start(p) + i]]
<1>1. /\ p \in Nat /\ q \in Nat /\ Start(p) \in Nat /\ EndOf(q) \in 1 .. Len(loaded) /\ Len(loaded) \in Nat \ {0}
      /\ Start(p) <= Start(q) /\ EndOf(q) = Start(q) + rowsPerBlockCount(q) /\ rowsPerBlockCount(q) \in 1 .. maxRowsPerBlock
      /\ Start(q) \in Nat /\ maxRowsPerBlock \in Nat \ {0}
  <2>1. p \in Nat /\ q \in Nat
      BY PageIs
  <2> QED BY <2>1, PageIs, TableIs, StartIs, Constants
<1> DEFINE n == EndOf(q) - Start(p)
<1>2. n \in Nat \ {0}
  <2> HIDE DEF Start, EndOf, rowsPerBlockCount
  <2> QED BY <1>1
<1>3. RowsFrom(p, q) = [i \in 1 .. n |-> ReadRow(p + (i - 1) \div maxRowsPerBlock, ((i - 1) % maxRowsPerBlock) + 1)]
    BY DEF RowsFrom, EndOf, Start
<1>4. ASSUME NEW i \in 1 .. n
      PROVE  ReadRow(p + (i - 1) \div maxRowsPerBlock, ((i - 1) % maxRowsPerBlock) + 1) = TableRows[Start(p) + i]
  <2>1. Start(p) + i \in 1 .. Len(loaded) /\ i - 1 \in Nat /\ i \in Nat
    <3> HIDE DEF Start, EndOf, rowsPerBlockCount
    <3> QED BY <1>1, <1>2
  <2>2. PICK u \in Pages : \E v \in 1 .. rowsPerBlockCount(u) : Start(p) + i = Start(u) + v
      BY <2>1, EveryPlace
  <2>3. PICK v \in 1 .. rowsPerBlockCount(u) : Start(p) + i = Start(u) + v
      BY <2>2
  <2>4. u \in Nat /\ Start(u) \in Nat /\ rowsPerBlockCount(u) \in 1 .. maxRowsPerBlock
      BY PageIs
  <2>5. v \in Nat /\ v - 1 \in 0 .. maxRowsPerBlock - 1
    <3> HIDE DEF rowsPerBlockCount
    <3> QED BY <2>4, <1>1
  <2>6. p <= u
    <3>1. SUFFICES ASSUME u < p PROVE FALSE
        BY <1>1, <2>4
    <3>2. Start(u) + maxRowsPerBlock <= Start(p)
        BY <1>1, <2>4, <3>1, StartIs
    <3> HIDE DEF Start, rowsPerBlockCount
    <3> QED BY <1>1, <2>1, <2>3, <2>4, <2>5, <3>2
  <2>7. u - p \in Nat /\ Start(u) = Start(p) + (u - p) * maxRowsPerBlock
    <3>1. u - p \in Nat
        BY <1>1, <2>4, <2>6
    <3> QED BY <1>1, <2>4, <3>1 DEF Start
  <2>8. (u - p) * maxRowsPerBlock \in Nat
      BY <2>7, <1>1
  <2>9. i - 1 = (u - p) * maxRowsPerBlock + (v - 1)
    <3> DEFINE x == (u - p) * maxRowsPerBlock
    <3>1. x \in Nat /\ Start(u) = Start(p) + x
        BY <2>7, <2>8
    <3> HIDE DEF x, Start
    <3>2. i - 1 = x + (v - 1)
        BY <1>1, <2>1, <2>3, <2>5, <3>1
    <3> QED BY <3>2 DEF x
  <2>10. (i - 1) \div maxRowsPerBlock = u - p /\ (i - 1) % maxRowsPerBlock = v - 1
    <3> DEFINE a == u - p
               b == v - 1
    <3>1. a \in Nat /\ b \in 0 .. maxRowsPerBlock - 1 /\ i - 1 = a * maxRowsPerBlock + b
        BY <2>5, <2>7, <2>9
    <3> HIDE DEF a, b
    <3>2. (a * maxRowsPerBlock + b) \div maxRowsPerBlock = a /\ (a * maxRowsPerBlock + b) % maxRowsPerBlock = b
        BY <1>1, <3>1, DivModIs
    <3> QED BY <3>1, <3>2 DEF a, b
  <2>11. p + (i - 1) \div maxRowsPerBlock = u /\ ((i - 1) % maxRowsPerBlock) + 1 = v
      BY <1>1, <2>4, <2>5, <2>10
  <2>12. TableRows[Start(u) + v] = ReadRow(u, v)
      BY TableRowsAre
  <2> QED BY <2>3, <2>11, <2>12
<1> HIDE DEF n
<1>5. RowsFrom(p, q) = [i \in 1 .. n |-> TableRows[Start(p) + i]]
    BY <1>3, <1>4
<1> QED BY <1>2, <1>5 DEF n

-----------------------------------------------------------------------------
(* The rows that wait in the queue and in the runs *)

LEMMA WaitingLists ==
    ASSUME NEW S, NEW t, NEW Q, IsFiniteSet(Q),
           \A r \in Q : /\ pq[r] \in S /\ Unread(r) \in Seq(S)
                        /\ Lists(t, <<pq[r]>> \o Unread(r), LeftOf(cursors[r])),
           \A q, r \in Q : q # r => LeftOf(cursors[q]) \cap LeftOf(cursors[r]) = {}
    PROVE  LET waiting == FoldSet(LAMBDA r, rows : rows \o <<pq[r]>> \o Unread(r), <<>>, Q)
           IN  waiting \in Seq(S) /\ Lists(t, waiting, UNION {LeftOf(cursors[r]) : r \in Q})
<1> DEFINE V == Seq(S)
           Step(r, rows) == rows \o <<pq[r]>> \o Unread(r)
           H == [p \in Q \X V |-> Step(p[1], p[2])]
           Is(f) == f = [s \in SUBSET Q |->
                            IF s = {} THEN <<>> ELSE Step(Chosen(s), f[s \ {Chosen(s)}])]
           Places(s) == UNION {LeftOf(cursors[r]) : r \in s}
<1>1. ASSUME NEW r \in Q, NEW rows \in V
      PROVE  /\ Step(r, rows) \in V /\ Step(r, rows) = rows \o (<<pq[r]>> \o Unread(r))
             /\ <<pq[r]>> \o Unread(r) \in V
  <2>1. <<pq[r]>> \in V /\ Unread(r) \in V
    <3>1. pq[r] \in S /\ Unread(r) \in V
        OBVIOUS
    <3> QED BY <3>1, Single
  <2>2. rows \o <<pq[r]>> \in V /\ Step(r, rows) \in V /\ <<pq[r]>> \o Unread(r) \in V
    <3>1. rows \o <<pq[r]>> \in V /\ <<pq[r]>> \o Unread(r) \in V
        BY <2>1, ConcatProperties
    <3> QED BY <2>1, <3>1, ConcatProperties
  <2> QED BY <2>1, <2>2, ConcatAssociative
<1>2. H \in [Q \X V -> V]
  <2> HIDE DEF Step, V
  <2> QED BY <1>1
<1>3. PICK f \in [SUBSET Q -> V] : \A s \in SUBSET Q :
          f[s] = IF s = {} THEN <<>> ELSE H[<<Chosen(s), f[s \ {Chosen(s)}]>>]
  <2> DEFINE base == <<>>
  <2>1. base \in V
      BY EmptySeq
  <2> HIDE DEF V, H, base
  <2>2. \E f \in [SUBSET Q -> V] : IsFold(f, Q, base, H)
      BY <1>2, <2>1, FoldExists
  <2> QED BY <2>2 DEF base, IsFold
<1>4. \A s \in SUBSET Q : s # {} => Chosen(s) \in s
    BY DEF Chosen
<1>5. Is(f)
  <2>1. ASSUME NEW s \in SUBSET Q, s # {}
        PROVE  H[<<Chosen(s), f[s \ {Chosen(s)}]>>] = Step(Chosen(s), f[s \ {Chosen(s)}])
    <3>1. Chosen(s) \in Q /\ f[s \ {Chosen(s)}] \in V
        BY <1>4, <2>1
    <3> HIDE DEF Step, V
    <3> QED BY <3>1
  <2> HIDE DEF Step, H, V
  <2>2. \A s \in SUBSET Q : f[s] = IF s = {} THEN <<>> ELSE Step(Chosen(s), f[s \ {Chosen(s)}])
      BY <1>3, <2>1
  <2> QED BY <2>2
<1> DEFINE g == CHOOSE h : Is(h)
           waiting == FoldSet(LAMBDA r, rows : rows \o <<pq[r]>> \o Unread(r), <<>>, Q)
<1>6. Is(g)
  <2> HIDE DEF Is
  <2> QED BY <1>5
<1>7. waiting = g[Q]
    BY Zenon DEF FoldSet, MapThenFoldSet, Chosen
<1> HIDE DEF g, waiting
<1> DEFINE Good == {s \in SUBSET Q : g[s] \in V /\ Lists(t, g[s], Places(s))}
<1>8. {} \in Good
  <2>1. g[{}] = <<>>
      BY <1>6
  <2>2. <<>> \in V /\ Places({}) = {}
      BY EmptySeq
  <2> HIDE DEF Places, V
  <2> QED BY <2>1, <2>2, ListsNothing
<1>9. ASSUME NEW s \in SUBSET Q, s # {}, s \ {Chosen(s)} \in Good PROVE s \in Good
  <2> DEFINE r == Chosen(s)
             rest == s \ {r}
             x == <<pq[r]>> \o Unread(r)
  <2>1. r \in s /\ r \in Q
      BY <1>4, <1>9
  <2>2. g[rest] \in V /\ Lists(t, g[rest], Places(rest))
      BY <1>9
  <2>3. g[s] = Step(r, g[rest])
    <3> HIDE DEF Step
    <3> QED BY <1>6, <1>9
  <2>4. g[s] \in V /\ g[s] = g[rest] \o x /\ x \in V
    <3> HIDE DEF Step, rest, r, V
    <3> QED BY <1>1, <2>1, <2>2, <2>3 DEF x
  <2>5. Lists(t, x, LeftOf(cursors[r]))
      BY <2>1
  <2>6. Places(rest) \cap LeftOf(cursors[r]) = {}
      BY <2>1
  <2>7. Places(s) = Places(rest) \cup LeftOf(cursors[r])
      BY <2>1
  <2> HIDE DEF Places, x, rest, r
  <2> DEFINE L == LeftOf(cursors[r])
             rows == g[rest]
             P == Places(rest)
  <2>8. rows \in Seq(S) /\ x \in Seq(S) /\ P \cap L = {} /\ Lists(t, rows, P) /\ Lists(t, x, L)
      BY <2>2, <2>4, <2>5, <2>6 DEF V
  <2> HIDE DEF L, rows, P
  <2>9. Lists(t, rows \o x, P \cup L)
      BY <2>8, ListsConcat
  <2>10. Lists(t, g[s], Places(s))
      BY <2>4, <2>7, <2>9 DEF L, rows, P
  <2> QED BY <2>4, <2>10
<1> HIDE DEF Is, Step, H
<1>10. Good = SUBSET Q
  <2>1. Good \in SUBSET SUBSET Q
      OBVIOUS
  <2>2. ASSUME NEW s \in SUBSET Q, s # {}, \A x \in s : s \ {x} \in Good PROVE s \in Good
    <3> HIDE DEF Good
    <3> QED BY <1>4, <1>9, <2>2
  <2> HIDE DEF Good
  <2> QED BY <1>8, <2>1, <2>2, SubsetInduction
<1>11. Q \in Good
    BY <1>10
<1> QED BY <1>7, <1>11 DEF waiting

-----------------------------------------------------------------------------
(* What a step leaves alone *)

LEMMA SameTable ==
    ASSUME loaded' = loaded
    PROVE  /\ blockCount' = blockCount /\ Pages' = Pages /\ Row' = Row
           /\ \A p : EndOf(p)' = EndOf(p) /\ rowsPerBlockCount(p)' = rowsPerBlockCount(p)
           /\ \A c : LeftOf(c)' = LeftOf(c)
           /\ \A c : Advanced(c)' = Advanced(c)
           /\ \A files, p, i : RowIn(files, p, i)' = RowIn(files, p, i)
           /\ \A files : TableOf(files)' = TableOf(files)
BY DEF blockCount, Pages, Row, EndOf, rowsPerBlockCount, LeftOf, Advanced, RowIn, TableOf

LEMMA SameRows ==
    ASSUME loaded \in Tables, loaded' = loaded, pageFile' = pageFile
    PROVE  TableRows' = TableRows
BY TableOfIs

LEMMA SameGroup ==
    ASSUME loaded' = loaded, size' = size, pageIndex' = pageIndex
    PROVE  /\ GroupEnd' = GroupEnd /\ Runs' = Runs
           /\ \A r : RunStart(r)' = RunStart(r) /\ Region(r)' = Region(r)
           /\ \A p : RunEnd(p)' = RunEnd(p)
           /\ \A c, r : InRun(c, r)' = InRun(c, r)
BY DEF GroupEnd, Runs, RunStart, Region, RunEnd, InRun, blockCount, rowsPerBlockCount, EndOf

LEMMA SameOrder ==
    ASSUME sortBy' = sortBy
    PROVE  /\ \A a, b : Precedes(a, b)' = Precedes(a, b)
           /\ \A rows, n, e : InRuns(rows, n, e)' = InRuns(rows, n, e)
BY DEF Precedes, InRuns

\* In a sort, the rows of the table and the rows moved are rows with the key's columns.
LEMMA ShapeIs ==
    ASSUME Shape
    PROVE  /\ loaded \in Tables /\ Len(loaded) \in Nat \ {0} /\ blockCount \in Nat \ {0}
           /\ size \in Nat \ {0} /\ pageIndex \in Nat
           /\ Len(dummy) \in Nat /\ Len(mergeData) \in Nat
           /\ Written \in Seq(Row) /\ Moved \in Seq(Row) /\ Len(Moved) = Len(Written) + Len(mergeData)
           /\ Len(Written) \in Nat
           /\ pc # "idle" => /\ loaded[1] # <<>> /\ sortBy \in SortSpecs
                             /\ TableRows \in Seq(Row) /\ Len(TableRows) = Len(loaded)
                             /\ \A i \in 1 .. Len(loaded) : TableRows[i] \in Row
                             /\ \A p \in Pages : ReadPage(p) \in Seq(Row) /\ Len(ReadPage(p)) = rowsPerBlockCount(p)
<1>1. loaded \in Tables /\ size \in Nat \ {0} /\ pageIndex \in 0 .. blockCount
    BY DEF Shape
<1>2. blockCount \in Nat \ {0} /\ Len(loaded) \in Nat \ {0}
    BY <1>1, TableIs
<1>3. pageIndex \in Nat
  <2> HIDE DEF blockCount
  <2> QED BY <1>1, <1>2
<1>4. mergeData \in Seq(Row) /\ dummy \in Seq(Seq(Row))
    BY DEF Shape
<1> HIDE DEF Row
<1>5. /\ Len(dummy) \in Nat /\ Len(mergeData) \in Nat
      /\ Written \in Seq(Row) /\ Moved \in Seq(Row) /\ Len(Moved) = Len(Written) + Len(mergeData)
      /\ Len(Written) \in Nat
  <2>1. Written \in Seq(Row)
      BY <1>4, FlattenType DEF Written
  <2> HIDE DEF Written
  <2> QED BY <1>4, <2>1, ConcatProperties, LenProperties DEF Moved
<1>6. ASSUME pc # "idle"
      PROVE  /\ loaded[1] # <<>> /\ sortBy \in SortSpecs
             /\ TableRows \in Seq(Row) /\ Len(TableRows) = Len(loaded)
             /\ \A i \in 1 .. Len(loaded) : TableRows[i] \in Row
             /\ \A p \in Pages : ReadPage(p) \in Seq(Row) /\ Len(ReadPage(p)) = rowsPerBlockCount(p)
  <2>1. sortBy \in SortSpecs
      BY <1>6 DEF Shape
  <2>2. loaded[1] # <<>>
      BY <1>1, <2>1, KeyIs
  <2>3. pageFile \in [Pages -> Seq(Row)] /\ \A p \in Pages : pageFile[p] # <<>>
      BY DEF Shape
  <2> HIDE DEF Row, Shape
  <2>4. \A files \in [Pages -> Seq(Row)] : (\A p \in Pages : files[p] # <<>>) =>
            /\ \A p \in Pages, i \in Nat \ {0} : RowIn(files, p, i) \in Row
            /\ TableOf(files) \in Seq(Row) /\ Len(TableOf(files)) = Len(loaded)
      BY <1>1, <2>2, TableOfType
  <2>5. /\ TableRows \in Seq(Row) /\ Len(TableRows) = Len(loaded)
        /\ \A p \in Pages, i \in Nat \ {0} : RowIn(pageFile, p, i) \in Row
    <3>1. TableRows = TableOf(pageFile)
        BY <1>1, TableOfIs
    <3> QED BY <2>3, <2>4, <3>1
  <2>6. \A i \in 1 .. Len(loaded) : TableRows[i] \in Row
      BY <2>5, LenProperties
  <2>7. ASSUME NEW p \in Pages PROVE ReadPage(p) \in Seq(Row) /\ Len(ReadPage(p)) = rowsPerBlockCount(p)
    <3> DEFINE n == rowsPerBlockCount(p)
               s == ReadPage(p)
    <3>1. n \in Nat
        BY <1>1, PageIs, Constants
    <3>2. s = [i \in 1 .. n |-> RowIn(pageFile, p, i)]
        BY ReadRowIs DEF ReadPage
    <3> HIDE DEF n, s
    <3>3. s \in [1 .. n -> Row]
        BY <2>5, <3>1, <3>2
    <3>4. s \in Seq(Row) /\ Len(s) = n
        BY <3>1, <3>3, IsSeq
    <3> QED BY <3>4 DEF n, s
  <2> QED BY <2>1, <2>2, <2>5, <2>6, <2>7
<1> QED BY <1>1, <1>2, <1>3, <1>5, <1>6

-----------------------------------------------------------------------------
(* The places of the rows that are still to be moved *)

LEMMA PendingIs ==
    ASSUME Shape, Progress, Cursors
    PROVE  /\ Pending \subseteq Start(pageIndex) + 1 .. Len(loaded)
           /\ pc # "merge" => Pending = Start(pageIndex) + 1 .. Len(loaded)
           /\ pc = "merge" =>
                 /\ \A r \in DOMAIN pq :
                       /\ r \in Runs /\ InRun(cursors[r], r)
                       /\ LeftOf(cursors[r]) \subseteq Region(r)
                       /\ Place(cursors[r]) \in 1 .. Len(loaded) /\ Place(cursors[r]) \in LeftOf(cursors[r])
                       /\ LeftOf(cursors[r]) \cap (Start(GroupEnd) + 1 .. Len(loaded)) = {}
                 /\ \A q, r \in DOMAIN pq : q # r => LeftOf(cursors[q]) \cap LeftOf(cursors[r]) = {}
                 /\ Pending = (UNION {LeftOf(cursors[r]) : r \in DOMAIN pq}) \cup (Start(GroupEnd) + 1 .. Len(loaded))
                 /\ Start(pageIndex) <= Start(GroupEnd)
<1>1. loaded \in Tables /\ size \in Nat \ {0} /\ pageIndex \in Nat /\ Len(loaded) \in Nat
    BY ShapeIs
<1>2. CASE pc # "merge"
  <2>1. Queued = {} /\ AfterGroup = pageIndex
      BY <1>2 DEF Queued, AfterGroup
  <2>2. Pending = Start(pageIndex) + 1 .. Len(loaded)
      BY <2>1 DEF Pending
  <2> QED BY <1>2, <2>2
<1>3. CASE pc = "merge"
  <2>1. pageIndex < blockCount
      BY <1>3 DEF Progress
  <2>2. /\ \A r \in Runs : /\ Region(r) \subseteq Start(pageIndex) + 1 .. Len(loaded)
                           /\ \A i \in Region(r) : i <= Start(GroupEnd)
        /\ \A r, q \in Runs : r # q => Region(r) \cap Region(q) = {}
      BY <1>1, <2>1, RegionsAre
  <2>3. GroupEnd \in Nat /\ pageIndex < GroupEnd /\ Start(GroupEnd) \in Nat /\ Start(pageIndex) \in Nat
        /\ Start(pageIndex) <= Start(GroupEnd)
    <3>1. GroupEnd \in Nat /\ pageIndex < GroupEnd
        BY <1>1, <2>1, RunsAre
    <3> HIDE DEF Start, GroupEnd
    <3>2. pageIndex <= GroupEnd
        BY <1>1, <3>1
    <3> QED BY <1>1, <3>1, <3>2, StartIs
  <2>4. \A r \in DOMAIN pq : r \in Runs /\ InRun(cursors[r], r)
      BY <1>3 DEF Cursors
  <2>5. \A r \in Runs : \A c : InRun(c, r) =>
            /\ Place(c) \in 1 .. Len(loaded) /\ Place(c) \in LeftOf(c) /\ LeftOf(c) \subseteq Region(r)
      BY <1>1, <2>1, CursorIs
  <2>6. Queued = DOMAIN pq /\ AfterGroup = GroupEnd
      BY <1>3 DEF Queued, AfterGroup
  <2>7. Pending = (UNION {LeftOf(cursors[r]) : r \in DOMAIN pq}) \cup (Start(GroupEnd) + 1 .. Len(loaded))
      BY <2>6 DEF Pending
  <2> HIDE DEF LeftOf, Region, Start, Place, InRun, Runs, GroupEnd
  <2>8. \A r \in DOMAIN pq :
            /\ r \in Runs /\ InRun(cursors[r], r) /\ LeftOf(cursors[r]) \subseteq Region(r)
            /\ Place(cursors[r]) \in 1 .. Len(loaded) /\ Place(cursors[r]) \in LeftOf(cursors[r])
      BY <2>4, <2>5
  <2>9. \A q, r \in DOMAIN pq : q # r => LeftOf(cursors[q]) \cap LeftOf(cursors[r]) = {}
      BY <2>2, <2>8
  <2>10. \A r \in DOMAIN pq : LeftOf(cursors[r]) \subseteq Start(pageIndex) + 1 .. Len(loaded)
      BY <2>2, <2>8
  <2>11. Start(GroupEnd) + 1 .. Len(loaded) \subseteq Start(pageIndex) + 1 .. Len(loaded)
      BY <1>1, <2>3
  <2>12. \A r \in DOMAIN pq : LeftOf(cursors[r]) \cap (Start(GroupEnd) + 1 .. Len(loaded)) = {}
    <3> SUFFICES ASSUME NEW r \in DOMAIN pq, NEW i \in LeftOf(cursors[r]), i \in Start(GroupEnd) + 1 .. Len(loaded)
                 PROVE  FALSE
        OBVIOUS
    <3>1. i <= Start(GroupEnd)
        BY <2>2, <2>8
    <3> QED BY <1>1, <2>3, <3>1
  <2>13. Pending \subseteq Start(pageIndex) + 1 .. Len(loaded)
      BY <2>7, <2>10, <2>11
  <2> QED BY <1>3, <2>3, <2>7, <2>8, <2>9, <2>12, <2>13
<1> QED BY <1>2, <1>3

\* How many rows have been moved.
LEMMA MovedIs ==
    ASSUME Shape, Progress, Cursors, Keeps, pc \in {"open", "merge", "copy"}
    PROVE  /\ Start(pageIndex) \in Nat /\ Len(Moved) \in Nat /\ Len(Moved) <= Len(loaded)
           /\ pc = "open" => Len(Moved) = Start(pageIndex)
           /\ pc = "copy" => Len(Moved) = Len(loaded) /\ Pending = {}
           /\ pc = "merge" => Start(pageIndex) <= Len(Moved)
           /\ pc = "merge" /\ DOMAIN pq = {} => Len(Moved) <= Start(GroupEnd)
<1> DEFINE N == Len(loaded)
           P == 1 .. N \ Pending
           a == Start(pageIndex)
<1>1. loaded \in Tables /\ size \in Nat \ {0} /\ pageIndex \in Nat /\ N \in Nat /\ a \in Nat
  <2>1. loaded \in Tables /\ size \in Nat \ {0} /\ pageIndex \in Nat /\ N \in Nat
      BY ShapeIs
  <2> QED BY <2>1, StartIs
<1>2. IsFiniteSet(P) /\ Cardinality(P) = Len(Moved) /\ Len(Moved) \in Nat
  <2>1. Moved \in Seq(Row) /\ Lists(TableRows, Moved, P)
      BY ShapeIs DEF Keeps
  <2> HIDE DEF P, Row
  <2> QED BY <2>1, ListsLength
<1>3. Pending \subseteq a + 1 .. N
    BY PendingIs
<1>4. \A n \in Nat : IsFiniteSet(1 .. n) /\ Cardinality(1 .. n) = n
  <2> TAKE n \in Nat
  <2>1. IsFiniteSet(1 .. n) /\ Cardinality(1 .. n) = IF 1 > n THEN 0 ELSE n - 1 + 1
      BY FS_Interval
  <2> QED BY <2>1
<1>5. \A S, T : IsFiniteSet(T) /\ S \subseteq T => Cardinality(S) <= Cardinality(T)
    BY FS_Subset
<1> HIDE DEF a, N
<1>6. Len(Moved) <= N
  <2>1. P \subseteq 1 .. N
      OBVIOUS
  <2> HIDE DEF P
  <2>2. IsFiniteSet(1 .. N) /\ Cardinality(1 .. N) = N
      BY <1>1, <1>4
  <2>3. Cardinality(P) <= Cardinality(1 .. N)
      BY <1>5, <2>1, <2>2
  <2> QED BY <1>2, <2>2, <2>3
<1>7. CASE pc = "open"
  <2>1. Pending = a + 1 .. N
      BY <1>7, PendingIs DEF a, N
  <2>2. a <= N
    <3>1. pageIndex \in Pages
      <4>1. pageIndex < blockCount /\ blockCount \in Nat
          BY <1>7, ShapeIs DEF Progress
      <4> QED BY <1>1, <4>1 DEF Pages
    <3>2. Start(pageIndex) < Len(loaded)
        BY <1>1, <3>1, PageIs
    <3> QED BY <1>1, <3>2 DEF a, N
  <2>3. P = 1 .. a
      BY <1>1, <2>1, <2>2
  <2>4. Len(Moved) = a
      BY <1>1, <1>2, <1>4, <2>3
  <2> QED BY <1>1, <1>2, <1>6, <1>7, <2>4 DEF a, N
<1>8. CASE pc = "copy"
  <2>1. Pending = a + 1 .. N
      BY <1>8, PendingIs DEF a, N
  <2>2. N <= a
    <3>1. pageIndex = blockCount
        BY <1>8 DEF Progress
    <3> QED BY <1>1, <3>1, TableIs DEF a, N
  <2>3. P = 1 .. N /\ Pending = {}
      BY <1>1, <2>1, <2>2
  <2>4. Len(Moved) = N
      BY <1>1, <1>2, <1>4, <2>3
  <2> QED BY <1>1, <1>2, <1>6, <1>8, <2>3, <2>4 DEF a, N
<1>9. CASE pc = "merge"
  <2>1. a <= N
    <3>1. pageIndex \in Pages
      <4>1. pageIndex < blockCount /\ blockCount \in Nat
          BY <1>9, ShapeIs DEF Progress
      <4> QED BY <1>1, <4>1 DEF Pages
    <3>2. Start(pageIndex) < Len(loaded)
        BY <1>1, <3>1, PageIs
    <3> QED BY <1>1, <3>2 DEF a, N
  <2>2. 1 .. a \subseteq P
      BY <1>1, <1>3, <2>1
  <2>3. a <= Len(Moved)
    <3> HIDE DEF P
    <3> QED BY <1>1, <1>2, <1>4, <1>5, <2>2
  <2>4. ASSUME DOMAIN pq = {} PROVE Len(Moved) <= Start(GroupEnd)
    <3>1. Pending = Start(GroupEnd) + 1 .. N
      <4>1. Pending = (UNION {LeftOf(cursors[r]) : r \in DOMAIN pq}) \cup (Start(GroupEnd) + 1 .. N)
          BY <1>9, PendingIs DEF N
      <4> QED BY <2>4, <4>1
    <3>2. Start(GroupEnd) \in Nat
      <4>1. pageIndex < blockCount
          BY <1>9 DEF Progress
      <4> QED BY <1>1, <4>1, RunsAre, StartIs
    <3> HIDE DEF Start
    <3>3. P \subseteq 1 .. Start(GroupEnd)
        BY <1>1, <3>1, <3>2
    <3> HIDE DEF P
    <3>4. IsFiniteSet(1 .. Start(GroupEnd)) /\ Cardinality(1 .. Start(GroupEnd)) = Start(GroupEnd)
        BY <1>4, <3>2
    <3>5. Cardinality(P) <= Cardinality(1 .. Start(GroupEnd))
        BY <1>5, <3>3, <3>4
    <3> QED BY <1>2, <3>4, <3>5
  <2> QED BY <1>1, <1>2, <1>6, <1>9, <2>3, <2>4 DEF a, N
<1> QED BY <1>7, <1>8, <1>9

-----------------------------------------------------------------------------
(* A row leaves the queue *)

LEMMA AppendIs ==
    ASSUME NEW S, NEW s \in Seq(S), NEW x \in S
    PROVE  /\ Append(s, x) = s \o <<x>> /\ Append(s, x) \in Seq(S) /\ Len(Append(s, x)) = Len(s) + 1
           /\ \A i \in 1 .. Len(s) : Append(s, x)[i] = s[i]
           /\ Append(s, x)[Len(s) + 1] = x
           /\ Append(s, x) # <<>>
<1>1. Append(s, x) = s \o <<x>>
    OBVIOUS
<1>2. /\ Append(s, x) \in Seq(S) /\ Len(Append(s, x)) = Len(s) + 1
      /\ \A i \in 1 .. Len(s) : Append(s, x)[i] = s[i]
      /\ Append(s, x)[Len(s) + 1] = x
    BY AppendProperties
<1>3. Append(s, x) # <<>>
    OBVIOUS
<1> QED BY <1>1, <1>2, <1>3

\* A Dummy file is added.
LEMMA WrittenAppend ==
    ASSUME Shape, NEW rows \in Seq(Row), dummy' = Append(dummy, rows)
    PROVE  /\ Written' = Written \o rows /\ Written' \in Seq(Row) /\ Len(Written') = Len(Written) + Len(rows)
           /\ dummy' \in Seq(Seq(Row)) /\ Len(dummy') = Len(dummy) + 1
           /\ \A d \in 1 .. Len(dummy) : dummy'[d] = dummy[d]
           /\ dummy'[Len(dummy) + 1] = rows
<1>1. dummy \in Seq(Seq(Row))
    BY DEF Shape
<1> HIDE DEF Row
<1>2. Written \in Seq(Row)
    BY <1>1, FlattenType DEF Written
<1>3. Written' = Written \o rows
    BY <1>1, FlattenAppend DEF Written
<1>4. Written' \in Seq(Row) /\ Len(Written') = Len(Written) + Len(rows)
  <2> HIDE DEF Written
  <2> QED BY <1>2, <1>3, ConcatProperties
<1> DEFINE S == Seq(Row)
<1>5. dummy \in Seq(S) /\ rows \in S
    BY <1>1
<1> HIDE DEF S
<1>6. /\ dummy' \in Seq(S) /\ Len(dummy') = Len(dummy) + 1
      /\ \A d \in 1 .. Len(dummy) : dummy'[d] = dummy[d]
      /\ dummy'[Len(dummy) + 1] = rows
    BY <1>5, AppendIs
<1> QED BY <1>3, <1>4, <1>6 DEF S

\* What the two merge steps do to the rows that have been moved.
LEMMA RowMoves ==
    ASSUME Shape, Progress, Cursors, NEW r, MergeRow(r) \/ MergeLastRow(r)
    PROVE  /\ pc = "merge" /\ pc' = "merge" /\ r \in DOMAIN pq /\ pq[r] \in Row
           /\ Moved' = Append(Moved, pq[r]) /\ Len(Moved') = Len(Moved) + 1
           /\ loaded' = loaded /\ pageFile' = pageFile /\ size' = size /\ pageIndex' = pageIndex
           /\ sortBy' = sortBy /\ overfilled' = overfilled
<1>1. /\ pc = "merge" /\ pc' = "merge" /\ r \in DOMAIN pq
      /\ loaded' = loaded /\ pageFile' = pageFile /\ size' = size /\ pageIndex' = pageIndex
      /\ sortBy' = sortBy /\ overfilled' = overfilled
    BY DEF MergeRow, MergeLastRow
<1>2. pq[r] \in Row
  <2>1. pq[r] = TableRows[Place(cursors[r])] /\ r \in Runs /\ InRun(cursors[r], r)
      BY <1>1 DEF Cursors
  <2>2. Place(cursors[r]) \in 1 .. Len(loaded)
    <3>1. loaded \in Tables /\ size \in Nat \ {0} /\ pageIndex \in Nat
        BY ShapeIs
    <3>2. pageIndex < blockCount
        BY <1>1 DEF Progress
    <3> QED BY <2>1, <3>1, <3>2, CursorIs
  <2> QED BY <1>1, <2>1, <2>2, ShapeIs
<1> DEFINE x == pq[r]
           rows == Append(mergeData, x)
<1>3. mergeData \in Seq(Row) /\ Written \in Seq(Row) /\ Moved = Written \o mergeData /\ Moved \in Seq(Row)
    BY ShapeIs DEF Moved, Shape
<1>4. x \in Row
    BY <1>2
<1> HIDE DEF Row, x, Written
<1>5. rows \in Seq(Row) /\ rows = mergeData \o <<x>> /\ Append(Moved, x) = Moved \o <<x>>
      /\ Len(Append(Moved, x)) = Len(Moved) + 1 /\ <<x>> \in Seq(Row)
  <2> HIDE DEF Moved
  <2> QED BY <1>3, <1>4, AppendIs, Single
<1> HIDE DEF rows
<1>6. Written \o rows = Append(Moved, x)
    BY <1>3, <1>5, ConcatAssociative
<1>7. \/ dummy' = Append(dummy, rows) /\ mergeData' = <<>>
      \/ dummy' = dummy /\ mergeData' = rows
    BY DEF MergeRow, MergeLastRow, WriteDummy, rows, x
<1>8. Moved' = Append(Moved, x)
  <2>1. CASE dummy' = Append(dummy, rows) /\ mergeData' = <<>>
    <3>1. Written' = Written \o rows /\ Written' \in Seq(Row)
        BY <1>5, <2>1, WrittenAppend DEF Row
    <3>2. Written' \o <<>> = Written'
        BY <3>1, ConcatEmptySeq
    <3>3. Moved' = Written' \o <<>>
        BY <2>1 DEF Moved
    <3> QED BY <1>6, <3>1, <3>2, <3>3
  <2>2. CASE dummy' = dummy /\ mergeData' = rows
    <3>1. Written' = Written
        BY <2>2 DEF Written
    <3>2. Moved' = Written \o rows
        BY <2>2, <3>1 DEF Moved
    <3> QED BY <1>6, <3>2
  <2> QED BY <1>7, <2>1, <2>2
<1> QED BY <1>1, <1>2, <1>5, <1>8 DEF x

\* What is pending without the row that leaves the queue.
LEMMA RowLeaves ==
    ASSUME Shape, Progress, Cursors, pc = "merge", pc' = "merge",
           loaded' = loaded, size' = size, pageIndex' = pageIndex, NEW r \in DOMAIN pq,
           DOMAIN pq' \subseteq DOMAIN pq,
           \A q \in DOMAIN pq \ {r} : q \in DOMAIN pq' /\ cursors'[q] = cursors[q],
           LeftOf(cursors[r]) \ {Place(cursors[r])} = IF r \in DOMAIN pq' THEN LeftOf(cursors'[r]) ELSE {}
    PROVE  Pending' = Pending \ {Place(cursors[r])}
<1> DEFINE L(c) == LeftOf(c)
           x == Place(cursors[r])
           T == Start(GroupEnd) + 1 .. Len(loaded)
           D == DOMAIN pq'
<1>1. /\ \A q \in DOMAIN pq : q # r => L(cursors[q]) \cap L(cursors[r]) = {}
      /\ x \in L(cursors[r]) /\ L(cursors[r]) \cap T = {}
      /\ Pending = (UNION {L(cursors[q]) : q \in DOMAIN pq}) \cup T
    BY PendingIs
<1>2. Pending' = (UNION {L(cursors'[q]) : q \in D}) \cup T
  <2>1. \A c : LeftOf(c)' = LeftOf(c)
      BY SameTable
  <2>2. GroupEnd' = GroupEnd
      BY SameGroup
  <2>3. Queued' = D /\ AfterGroup' = GroupEnd
      BY <2>2 DEF Queued, AfterGroup
  <2>4. Pending' = (UNION {LeftOf(cursors[q])' : q \in D}) \cup T
    <3>1. Pending' = (UNION {LeftOf(cursors[q]) : q \in Queued})' \cup (Start(AfterGroup') + 1 .. Len(loaded'))
        BY DEF Pending, Start
    <3> QED BY <2>3, <3>1 DEF LeftOf
  <2> QED BY <2>4 DEF LeftOf, EndOf
<1> HIDE DEF L, x, T, D
<1>3. /\ D \subseteq DOMAIN pq /\ \A q \in DOMAIN pq \ {r} : q \in D /\ L(cursors'[q]) = L(cursors[q])
      /\ L(cursors[r]) \ {x} = IF r \in D THEN L(cursors'[r]) ELSE {}
    BY DEF L, x, D
<1>4. ASSUME NEW i PROVE i \in Pending' <=> i \in Pending \ {x}
  <2>1. i \in Pending' <=> (\E q \in D : i \in L(cursors'[q])) \/ i \in T
      BY <1>2
  <2>2. i \in Pending <=> (\E q \in DOMAIN pq : i \in L(cursors[q])) \/ i \in T
      BY <1>1
  <2>3. CASE i \in L(cursors[r])
    <3>1. i \notin T /\ \A q \in DOMAIN pq \ {r} : i \notin L(cursors[q])
        BY <1>1, <2>3
    <3>2. (\E q \in D : i \in L(cursors'[q])) <=> i # x
        BY <1>3, <2>3, <3>1
    <3> QED BY <2>1, <2>2, <2>3, <3>1, <3>2
  <2>4. CASE i \notin L(cursors[r])
    <3>1. i # x /\ (r \in D => i \notin L(cursors'[r]))
        BY <1>1, <1>3, <2>4
    <3>2. (\E q \in D : i \in L(cursors'[q])) <=> (\E q \in DOMAIN pq : i \in L(cursors[q]))
        BY <1>3, <2>4, <3>1
    <3> QED BY <2>1, <2>2, <3>1, <3>2
  <2> QED BY <2>3, <2>4
<1> QED BY <1>4 DEF x

LEMMA MergeRowCursors ==
    ASSUME Shape, Progress, Cursors, NEW r, MergeRow(r)
    PROVE  /\ Cursors' /\ Pending' = Pending \ {Place(cursors[r])}
           /\ DOMAIN pq' = DOMAIN pq /\ \A q \in DOMAIN pq \ {r} : pq'[q] = pq[q]
           /\ Place(cursors[r]) + 1 \in LeftOf(cursors[r]) /\ pq'[r] = TableRows[Place(cursors[r]) + 1]
<1> DEFINE c == cursors[r]
           next == Advanced(cursors[r])
<1>1. /\ pc = "merge" /\ pc' = "merge" /\ r \in DOMAIN pq /\ loaded' = loaded /\ pageFile' = pageFile
      /\ size' = size /\ pageIndex' = pageIndex
    BY RowMoves
<1>2. /\ cursors' = [cursors EXCEPT ![r] = next] /\ pq' = [pq EXCEPT ![r] = ReadPage(next.page)[next.row]]
      /\ ~AtEndOfRun(c)
    BY DEF MergeRow
<1>3. loaded \in Tables /\ size \in Nat \ {0} /\ pageIndex \in Nat /\ pageIndex < blockCount
    BY <1>1, ShapeIs DEF Progress
<1>4. /\ DOMAIN pq \subseteq Runs /\ DOMAIN pq \subseteq DOMAIN cursors
      /\ \A q \in DOMAIN pq : InRun(cursors[q], q) /\ pq[q] = TableRows[Place(cursors[q])]
    BY <1>1 DEF Cursors
<1>5. /\ InRun(next, r) /\ next.last = c.last /\ Place(next) = Place(c) + 1 /\ Place(c) + 1 \in LeftOf(c)
      /\ Place(c) \in LeftOf(c)
  <2>1. InRun(c, r) /\ r \in Runs
      BY <1>1, <1>4
  <2> QED BY <1>2, <1>3, <2>1, CursorIs
<1> HIDE DEF next, c
<1>6. next.page \in Pages /\ next.row \in 1 .. rowsPerBlockCount(next.page)
  <2>1. r \in Runs
      BY <1>1, <1>4
  <2>2. next.page \in Pages
      BY <1>3, <1>5, <2>1, CursorIs
  <2> QED BY <1>5, <2>2 DEF InRun
<1>7. ReadPage(next.page)[next.row] = TableRows[Place(next)]
  <2>1. Place(next) = Start(next.page) + next.row
      BY DEF Place
  <2> HIDE DEF Start, Place, TableRows, ReadPage, Pages, rowsPerBlockCount
  <2> QED BY <1>3, <1>6, <2>1, TableRowsAre
<1>8. /\ DOMAIN pq' = DOMAIN pq /\ DOMAIN cursors' = DOMAIN cursors
      /\ \A q \in DOMAIN pq \ {r} : pq'[q] = pq[q] /\ cursors'[q] = cursors[q]
      /\ pq'[r] = TableRows[Place(next)] /\ cursors'[r] = next
    BY <1>1, <1>2, <1>4, <1>7
<1>9. Cursors'
  <2>1. /\ Runs' = Runs /\ \A x, q : InRun(x, q)' = InRun(x, q)
      BY <1>1, SameGroup
  <2>2. TableRows' = TableRows
      BY <1>1, <1>3, SameRows
  <2>3. \A q \in DOMAIN pq' : InRun(cursors'[q], q) /\ pq'[q] = TableRows[Place(cursors'[q])]
      BY <1>4, <1>5, <1>8
  <2>4. ASSUME NEW q \in DOMAIN pq' PROVE InRun(cursors[q], q)' /\ pq'[q] = TableRows'[Place(cursors'[q])]
    <3>1. InRun(cursors'[q], q) <=> InRun(cursors[q], q)'
        BY <1>1 DEF InRun, RunEnd, RunStart, rowsPerBlockCount, blockCount
    <3> QED BY <2>2, <2>3, <3>1
  <2> QED BY <1>4, <1>8, <2>1, <2>4 DEF Cursors, Place, Start
<1>10. LeftOf(c) \ {Place(c)} = LeftOf(next)
  <2>1. Place(c) + 1 = Place(next) /\ EndOf(c.last) \in Int /\ Place(c) \in Int
    <3>1. r \in Runs
        BY <1>1, <1>4
    <3>2. InRun(c, r)
        BY <1>1, <1>4 DEF c
    <3>3. c.last \in Pages /\ Place(c) \in 1 .. Len(loaded)
        BY <1>3, <3>1, <3>2, CursorIs
    <3>4. EndOf(c.last) \in 1 .. Len(loaded)
        BY <1>3, <3>3, PageIs
    <3> HIDE DEF Place, EndOf
    <3> QED BY <1>5, <3>3, <3>4
  <2> HIDE DEF Place, EndOf
  <2> QED BY <1>5, <2>1 DEF LeftOf
<1>11. Pending' = Pending \ {Place(cursors[r])}
  <2>1. LeftOf(cursors[r]) \ {Place(cursors[r])} = IF r \in DOMAIN pq' THEN LeftOf(cursors'[r]) ELSE {}
      BY <1>1, <1>8, <1>10 DEF c
  <2>2. DOMAIN pq' \subseteq DOMAIN pq /\ \A q \in DOMAIN pq \ {r} : q \in DOMAIN pq' /\ cursors'[q] = cursors[q]
      BY <1>8
  <2> QED BY <1>1, <2>1, <2>2, RowLeaves
<1> QED BY <1>5, <1>8, <1>9, <1>11 DEF c

LEMMA MergeLastRowCursors ==
    ASSUME Shape, Progress, Cursors, NEW r, MergeLastRow(r)
    PROVE  /\ Cursors' /\ Pending' = Pending \ {Place(cursors[r])}
           /\ DOMAIN pq' = DOMAIN pq \ {r} /\ \A q \in DOMAIN pq \ {r} : pq'[q] = pq[q]
<1>1. /\ pc = "merge" /\ pc' = "merge" /\ r \in DOMAIN pq /\ loaded' = loaded /\ pageFile' = pageFile
      /\ size' = size /\ pageIndex' = pageIndex
    BY RowMoves
<1>2. /\ cursors' = cursors /\ pq' = [q \in DOMAIN pq \ {r} |-> pq[q]] /\ AtEndOfRun(cursors[r])
    BY DEF MergeLastRow
<1>3. loaded \in Tables /\ size \in Nat \ {0} /\ pageIndex \in Nat /\ pageIndex < blockCount
    BY <1>1, ShapeIs DEF Progress
<1>4. /\ DOMAIN pq \subseteq Runs /\ DOMAIN pq \subseteq DOMAIN cursors
      /\ \A q \in DOMAIN pq : InRun(cursors[q], q) /\ pq[q] = TableRows[Place(cursors[q])]
    BY <1>1 DEF Cursors
<1>5. DOMAIN pq' = DOMAIN pq \ {r} /\ \A q \in DOMAIN pq \ {r} : pq'[q] = pq[q]
    BY <1>2
<1>6. Cursors'
  <2>1. Runs' = Runs
      BY <1>1, SameGroup
  <2>2. TableRows' = TableRows
      BY <1>1, <1>3, SameRows
  <2>3. ASSUME NEW q \in DOMAIN pq' PROVE InRun(cursors[q], q)' /\ pq'[q] = TableRows'[Place(cursors'[q])]
    <3>1. InRun(cursors[q], q) /\ pq'[q] = TableRows[Place(cursors[q])]
        BY <1>4, <1>5
    <3>2. InRun(cursors[q], q) <=> InRun(cursors[q], q)'
        BY <1>1, <1>2 DEF InRun, RunEnd, RunStart, rowsPerBlockCount, blockCount
    <3> QED BY <1>2, <2>2, <3>1, <3>2
  <2> QED BY <1>2, <1>4, <1>5, <2>1, <2>3 DEF Cursors, Place, Start
<1>7. LeftOf(cursors[r]) = {Place(cursors[r])}
  <2>1. r \in Runs /\ InRun(cursors[r], r)
      BY <1>1, <1>4
  <2> QED BY <1>2, <1>3, <2>1, CursorIs
<1>8. Pending' = Pending \ {Place(cursors[r])}
  <2>1. LeftOf(cursors[r]) \ {Place(cursors[r])} = IF r \in DOMAIN pq' THEN LeftOf(cursors'[r]) ELSE {}
      BY <1>5, <1>7
  <2>2. DOMAIN pq' \subseteq DOMAIN pq /\ \A q \in DOMAIN pq \ {r} : q \in DOMAIN pq' /\ cursors'[q] = cursors[q]
      BY <1>2, <1>5
  <2> QED BY <1>1, <2>1, <2>2, RowLeaves
<1> QED BY <1>5, <1>6, <1>8

\* One more row is listed.
LEMMA ListsOneMore ==
    ASSUME NEW S, NEW t, NEW s \in Seq(S), NEW x \in S, NEW P, NEW i \in Int, i \notin P,
           Lists(t, s, P), x = t[i]
    PROVE  Lists(t, Append(s, x), P \cup {i})
<1> DEFINE u == <<x>>
           a == i - 1
<1>1. u \in Seq(S) /\ Len(u) = 1 /\ u[1] = x /\ Append(s, x) = s \o u
    BY Single, AppendIs
<1>2. a \in Int /\ a + 1 = i
    OBVIOUS
<1> HIDE DEF u, a
<1>3. \A j \in 1 .. 1 : u[j] = t[a + j]
  <2> SUFFICES ASSUME NEW j \in 1 .. 1 PROVE u[j] = t[a + j]
      OBVIOUS
  <2>1. j = 1
      OBVIOUS
  <2> QED BY <1>1, <1>2, <2>1
<1>4. Lists(t, u, a + 1 .. a + 1)
  <2>1. 1 \in Nat
      OBVIOUS
  <2> QED BY <1>1, <1>2, <1>3, <2>1, ListsStretch
<1>5. a + 1 .. a + 1 = {i}
    BY <1>2
<1>6. P \cap {i} = {} /\ Lists(t, u, {i})
    BY <1>4, <1>5
<1>7. Lists(t, s \o u, P \cup {i})
    BY <1>1, <1>6, ListsConcat
<1> QED BY <1>1, <1>7

LEMMA RowKept ==
    ASSUME Shape, Progress, Cursors, Keeps, NEW r, MergeRow(r) \/ MergeLastRow(r)
    PROVE  Keeps'
<1>1. /\ pc = "merge" /\ pc' = "merge" /\ r \in DOMAIN pq /\ pq[r] \in Row
      /\ Moved' = Append(Moved, pq[r]) /\ Len(Moved') = Len(Moved) + 1
      /\ loaded' = loaded /\ pageFile' = pageFile
    BY RowMoves
<1>2. Pending' = Pending \ {Place(cursors[r])}
    BY MergeRowCursors, MergeLastRowCursors
<1>3. /\ loaded \in Tables /\ Len(loaded) \in Nat /\ Moved \in Seq(Row) /\ mergeData \in Seq(Row)
      /\ Len(dummy) \in Nat /\ Len(mergeData) \in Nat /\ Len(Moved) \in Nat
  <2>1. loaded \in Tables /\ Len(loaded) \in Nat /\ Moved \in Seq(Row) /\ Len(dummy) \in Nat /\ Len(mergeData) \in Nat
      BY ShapeIs
  <2>2. mergeData \in Seq(Row)
      BY DEF Shape
  <2> HIDE DEF Moved, Row
  <2> QED BY <2>1, <2>2, LenProperties
<1>4. /\ Place(cursors[r]) \in 1 .. Len(loaded) /\ Place(cursors[r]) \in Pending
  <2>1. /\ Place(cursors[r]) \in 1 .. Len(loaded) /\ Place(cursors[r]) \in LeftOf(cursors[r])
        /\ Pending = (UNION {LeftOf(cursors[q]) : q \in DOMAIN pq}) \cup (Start(GroupEnd) + 1 .. Len(loaded))
      BY <1>1, PendingIs
  <2> HIDE DEF LeftOf, Place, Start, GroupEnd, Pending
  <2> QED BY <1>1, <2>1
<1>5. pq[r] = TableRows[Place(cursors[r])]
    BY <1>1 DEF Cursors
<1>6. Lists(TableRows, Moved, 1 .. Len(loaded) \ Pending)
      /\ Start(Len(dummy)) + Len(mergeData) <= Len(Moved)
    BY <1>1 DEF Keeps
<1> DEFINE i == Place(cursors[r])
           P == 1 .. Len(loaded) \ Pending
           P1 == 1 .. Len(loaded) \ Pending'
           x == pq[r]
<1> HIDE DEF Pending, i, Row
<1>7. P1 = P \cup {i} /\ i \notin P /\ i \in Int
    BY <1>2, <1>3, <1>4 DEF i
<1>8. TableRows' = TableRows
    BY <1>1, <1>3, SameRows
<1>9. Lists(TableRows, Append(Moved, x), P \cup {i})
  <2>1. x \in Row /\ Moved \in Seq(Row) /\ Lists(TableRows, Moved, P) /\ x = TableRows[i]
      BY <1>1, <1>3, <1>5, <1>6 DEF i
  <2> HIDE DEF x, P, Moved, TableRows
  <2> QED BY <1>7, <2>1, ListsOneMore
<1>10. Lists(TableRows', Moved', P1)
    BY <1>1, <1>7, <1>8, <1>9
<1>11. Start(Len(dummy')) + Len(mergeData') <= Len(Moved')
  <2> DEFINE rows == Append(mergeData, x)
  <2>1. rows \in Seq(Row) /\ Len(rows) = Len(mergeData) + 1
      BY <1>1, <1>3, AppendIs
  <2>2. \/ dummy' = Append(dummy, rows) /\ mergeData' = <<>> /\ Len(rows) = maxRowsPerBlock
        \/ dummy' = dummy /\ mergeData' = rows
      BY DEF MergeRow, MergeLastRow, WriteDummy
  <2> HIDE DEF rows, x
  <2>3. CASE dummy' = Append(dummy, rows) /\ mergeData' = <<>> /\ Len(rows) = maxRowsPerBlock
    <3>1. Len(dummy') = Len(dummy) + 1
        BY <2>1, <2>3, WrittenAppend DEF Row
    <3>2. Len(mergeData') = 0
        BY <2>3
    <3>3. Start(Len(dummy')) = Start(Len(dummy)) + maxRowsPerBlock /\ Start(Len(dummy)) \in Nat
        BY <1>3, <3>1, StartIs
    <3> HIDE DEF Start, Moved
    <3> QED BY <1>1, <1>3, <1>6, <2>1, <2>3, <3>2, <3>3, Constants
  <2>4. CASE dummy' = dummy /\ mergeData' = rows
    <3>1. Start(Len(dummy)) \in Nat
        BY <1>3, StartIs
    <3> HIDE DEF Start, Moved
    <3> QED BY <1>1, <1>3, <1>6, <2>1, <2>4, <3>1
  <2> QED BY <2>2, <2>3, <2>4
<1>12. (1 .. Len(loaded) \ Pending)' = P1
    BY <1>1
<1> QED BY <1>1, <1>10, <1>11, <1>12 DEF Keeps, Lists, Start

\* A page of rows, or the last rows, go to a Dummy file of their own.
LEMMA ChunksAppend ==
    ASSUME NEW S, NEW files \in Seq(Seq(S)), NEW rows \in Seq(S), NEW x \in Seq(S), x # <<>>,
           Chunks(files, rows), Len(rows) = Start(Len(files)), Len(x) <= maxRowsPerBlock
    PROVE  /\ Chunks(Append(files, x), rows \o x)
           /\ Len(x) = maxRowsPerBlock => Len(rows \o x) = Start(Len(Append(files, x)))
<1> DEFINE n == Len(files)
           T == Seq(S)
           more == Append(files, x)
           all == rows \o x
<1>1. /\ n \in Nat /\ Len(more) = n + 1 /\ more[n + 1] = x
      /\ \A d \in 1 .. n : more[d] = files[d]
      /\ DOMAIN more = 1 .. n + 1 /\ DOMAIN files = 1 .. n
      /\ \A d \in 1 .. n : files[d] \in T
  <2>1. files \in Seq(T) /\ x \in T
      OBVIOUS
  <2> HIDE DEF T
  <2>2. more \in Seq(T) /\ Len(more) = n + 1 /\ (\A d \in 1 .. n : more[d] = files[d]) /\ more[n + 1] = x
      BY <2>1, AppendIs
  <2> QED BY <2>1, <2>2, LenProperties, ElementOfSeq
<1>2. /\ Len(x) \in Nat \ {0} /\ Len(rows) \in Nat /\ Len(all) = Len(rows) + Len(x) /\ DOMAIN x = 1 .. Len(x)
      /\ \A i \in 1 .. Len(rows) : all[i] = rows[i]
      /\ \A i \in 1 .. Len(x) : all[Len(rows) + i] = x[i]
  <2>1. Len(x) \in Nat \ {0} /\ Len(rows) \in Nat /\ DOMAIN x = 1 .. Len(x)
      BY EmptySeq, LenProperties
  <2>2. Len(all) = Len(rows) + Len(x) /\
        \A i \in 1 .. Len(rows) + Len(x) : all[i] = IF i <= Len(rows) THEN rows[i] ELSE x[i - Len(rows)]
      BY ConcatProperties
  <2> HIDE DEF all
  <2>3. ASSUME NEW i \in 1 .. Len(x) PROVE all[Len(rows) + i] = x[i]
    <3>1. Len(rows) + i \in 1 .. Len(rows) + Len(x) /\ ~(Len(rows) + i <= Len(rows)) /\ (Len(rows) + i) - Len(rows) = i
        BY <2>1
    <3> QED BY <2>2, <3>1
  <2> QED BY <2>1, <2>2, <2>3
<1> HIDE DEF more, all, n, T
<1>3. /\ Start(n) \in Nat /\ Start(n + 1) = Start(n) + maxRowsPerBlock /\ maxRowsPerBlock \in Nat \ {0}
      /\ \A d \in 1 .. n : Start(d - 1) \in Nat /\ Start(d - 1) + maxRowsPerBlock <= Start(n)
  <2>1. \A d \in 1 .. n : d - 1 \in Nat /\ d - 1 < n
      BY <1>1
  <2> QED BY <1>1, <2>1, StartIs, Constants
<1>4. Len(rows) = Start(n)
    BY DEF n
<1>5. /\ \A d \in 1 .. n : Len(files[d]) = LowerOf(maxRowsPerBlock, Len(rows) - Start(d - 1))
      /\ \A d \in 1 .. n : \A j \in DOMAIN files[d] : files[d][j] = rows[Start(d - 1) + j]
    BY <1>1 DEF Chunks
<1> HIDE DEF Start
<1>6. ASSUME NEW d \in 1 .. n + 1
      PROVE  /\ Len(more[d]) = LowerOf(maxRowsPerBlock, Len(all) - Start(d - 1))
             /\ \A j \in DOMAIN more[d] : more[d][j] = all[Start(d - 1) + j]
  <2>1. CASE d = n + 1
    <3>1. more[d] = x /\ d - 1 = n
        BY <1>1, <2>1
    <3>2. Len(all) - Start(d - 1) = Len(x)
        BY <1>2, <1>3, <1>4, <3>1
    <3>3. LowerOf(maxRowsPerBlock, Len(x)) = Len(x)
      <4>1. \A a, b \in Nat : b <= a => LowerOf(a, b) = b
          BY DEF LowerOf
      <4>2. maxRowsPerBlock \in Nat /\ Len(x) \in Nat /\ Len(x) <= maxRowsPerBlock
          BY <1>2, <1>3
      <4> QED BY <4>1, <4>2
    <3>4. \A j \in DOMAIN x : x[j] = all[Start(n) + j]
        BY <1>2, <1>4
    <3> QED BY <3>1, <3>2, <3>3, <3>4
  <2>2. CASE d \in 1 .. n
    <3>1. more[d] = files[d] /\ Len(files[d]) = maxRowsPerBlock
      <4>1. Len(rows) - Start(d - 1) >= maxRowsPerBlock /\ Len(rows) - Start(d - 1) \in Int
          BY <1>3, <1>4, <2>2
      <4>2. LowerOf(maxRowsPerBlock, Len(rows) - Start(d - 1)) = maxRowsPerBlock
          BY <1>3, <4>1 DEF LowerOf
      <4> QED BY <1>1, <1>5, <2>2, <4>2
    <3>2. LowerOf(maxRowsPerBlock, Len(all) - Start(d - 1)) = maxRowsPerBlock
      <4>1. Len(all) - Start(d - 1) >= maxRowsPerBlock /\ Len(all) - Start(d - 1) \in Int
          BY <1>2, <1>3, <1>4, <2>2
      <4> QED BY <1>3, <4>1 DEF LowerOf
    <3>3. ASSUME NEW j \in DOMAIN more[d] PROVE more[d][j] = all[Start(d - 1) + j]
      <4>1. j \in 1 .. maxRowsPerBlock /\ j \in DOMAIN files[d]
        <5>1. files[d] \in Seq(S)
            BY <1>1, <2>2 DEF T
        <5> QED BY <3>1, <5>1, LenProperties
      <4>2. Start(d - 1) + j \in 1 .. Len(rows)
          BY <1>2, <1>3, <1>4, <2>2, <4>1
      <4> QED BY <1>2, <1>5, <2>2, <3>1, <4>1, <4>2
    <3> QED BY <3>1, <3>2, <3>3
  <2>3. d = n + 1 \/ d \in 1 .. n
      BY <1>1
  <2> QED BY <2>1, <2>2, <2>3
<1>7. /\ Start(n + 1) < Len(all) + maxRowsPerBlock /\ Len(all) <= Start(n + 1)
      /\ Len(x) = maxRowsPerBlock => Len(all) = Start(n + 1)
  <2>1. Len(x) <= maxRowsPerBlock
      OBVIOUS
  <2>2. \A a, b, m \in Nat : 0 < b /\ b <= m => a + m < (a + b) + m /\ a + b <= a + m /\ (b = m => a + b = a + m)
      OBVIOUS
  <2>3. Len(x) \in Nat /\ 0 < Len(x) /\ maxRowsPerBlock \in Nat /\ Start(n) \in Nat /\ Len(all) = Start(n) + Len(x)
      BY <1>2, <1>3, <1>4
  <2>4. /\ Start(n) + maxRowsPerBlock < (Start(n) + Len(x)) + maxRowsPerBlock
        /\ Start(n) + Len(x) <= Start(n) + maxRowsPerBlock
        /\ Len(x) = maxRowsPerBlock => Start(n) + Len(x) = Start(n) + maxRowsPerBlock
      BY <2>1, <2>2, <2>3
  <2> QED BY <1>3, <2>3, <2>4
<1>8. Chunks(more, all)
    BY <1>1, <1>6, <1>7 DEF Chunks
<1> QED BY <1>1, <1>7, <1>8 DEF more, all

\* The Dummy files there are fit their pages if those after the step do.
LEMMA FitsAppend ==
    ASSUME Shape, NEW rows \in Seq(Row), dummy' = Append(dummy, rows), Fits'
    PROVE  Fits /\ Len(rows) <= maxRowsPerBlock
<1>1. /\ Len(dummy') = Len(dummy) + 1 /\ \A d \in 1 .. Len(dummy) : dummy'[d] = dummy[d]
      /\ dummy'[Len(dummy) + 1] = rows /\ dummy' \in Seq(Seq(Row))
    BY WrittenAppend
<1> DEFINE S == Seq(Row)
<1>2. dummy \in Seq(S) /\ dummy' \in Seq(S) /\ \A d \in DOMAIN dummy' : Len(dummy'[d]) <= maxRowsPerBlock
    BY <1>1 DEF Shape, Fits
<1> HIDE DEF S, Row
<1>3. DOMAIN dummy = 1 .. Len(dummy) /\ DOMAIN dummy' = 1 .. Len(dummy) + 1 /\ Len(dummy) \in Nat
    BY <1>1, <1>2, LenProperties
<1>4. \A d \in 1 .. Len(dummy) : d \in 1 .. Len(dummy) + 1
    BY <1>3
<1>5. Len(dummy) + 1 \in 1 .. Len(dummy) + 1
    BY <1>3
<1> QED BY <1>1, <1>2, <1>3, <1>4, <1>5 DEF Fits

LEMMA RowAligned ==
    ASSUME Shape, Progress, Cursors, Aligned, NEW r, MergeRow(r) \/ MergeLastRow(r)
    PROVE  Aligned'
<1>1. pc = "merge" /\ pc' = "merge" /\ pq[r] \in Row
    BY RowMoves
<1> DEFINE rows == Append(mergeData, pq[r])
<1>2. \/ dummy' = Append(dummy, rows) /\ Len(rows) = maxRowsPerBlock /\ mergeData' = <<>>
      \/ dummy' = dummy
    BY DEF MergeRow, MergeLastRow, WriteDummy
<1>3. mergeData = <<>> \/ mergeData \in Seq(Row)
    BY DEF Shape
<1>4. CASE dummy' = dummy
    BY <1>1, <1>4 DEF Aligned, Fits, Written, Chunks, Start, LowerOf
<1>5. CASE dummy' = Append(dummy, rows) /\ Len(rows) = maxRowsPerBlock
  <2>1. rows \in Seq(Row) /\ rows # <<>>
    <3>1. mergeData \in Seq(Row)
        BY DEF Shape
    <3> HIDE DEF Row
    <3> QED BY <1>1, <3>1, AppendIs
  <2> HIDE DEF rows
  <2>2. SUFFICES ASSUME Fits'
                 PROVE  Chunks(dummy, Written)' /\ Len(Written') = Start(Len(dummy'))
      BY <1>1 DEF Aligned, Start
  <2>3. Fits
      BY <1>5, <2>1, <2>2, FitsAppend
  <2>4. Chunks(dummy, Written) /\ Len(Written) = Start(Len(dummy))
      BY <1>1, <2>3 DEF Aligned
  <2>5. Written' = Written \o rows
      BY <1>5, <2>1, WrittenAppend
  <2>6. /\ dummy \in Seq(Seq(Row)) /\ Written \in Seq(Row) /\ Len(rows) <= maxRowsPerBlock
      BY <1>5, Constants, ShapeIs DEF Shape
  <2> HIDE DEF Row, Written
  <2>7. /\ Chunks(Append(dummy, rows), Written \o rows)
        /\ Len(Written \o rows) = Start(Len(Append(dummy, rows)))
      BY <1>5, <2>1, <2>4, <2>6, ChunksAppend
  <2>8. Chunks(dummy', Written') /\ Len(Written') = Start(Len(dummy'))
      BY <1>5, <2>5, <2>7
  <2> QED BY <2>8 DEF Chunks, Start, LowerOf
<1> QED BY <1>2, <1>4, <1>5

-----------------------------------------------------------------------------
(* The order of the rows *)

\* No run ends between two rows of the same run.
LEMMA NotInside ==
    ASSUME NEW m \in Nat, NEW n \in Nat \ {0}, NEW i \in Int, Start(m * n) < i, i < Start((m + 1) * n)
    PROVE  ~Boundary(i, n)
<1>1. SUFFICES ASSUME NEW k \in Nat, i = Start(k * n) PROVE FALSE
    BY DEF Boundary
<1>2. m + 1 \in Nat /\ k * n \in Nat /\ m * n \in Nat /\ (m + 1) * n \in Nat
  <2>1. m + 1 \in Nat
      OBVIOUS
  <2>2. \A a \in Nat : a * n \in Nat
      OBVIOUS
  <2> QED BY <2>1, <2>2
<1>3. /\ \A p, q \in Nat : p <= q => Start(p) <= Start(q)
      /\ \A p \in Nat : Start(p) \in Nat
    BY StartIs
<1>4. CASE k <= m
  <2>1. k = m \/ k * n < m * n
      BY <1>4, Product
  <2>2. k * n <= m * n
      BY <1>2, <2>1
  <2> DEFINE a == k * n
             b == m * n
  <2> HIDE DEF Start, a, b
  <2>3. Start(a) <= Start(b) /\ Start(a) \in Nat /\ Start(b) \in Nat
      BY <1>2, <1>3, <2>2 DEF a, b
  <2>4. Start(b) < i /\ i = Start(a)
      BY <1>1 DEF a, b
  <2> QED BY <2>3, <2>4
<1>5. CASE m + 1 <= k
  <2>1. m + 1 = k \/ (m + 1) * n < k * n
      BY <1>2, <1>5, Product
  <2>2. (m + 1) * n <= k * n
      BY <1>2, <2>1
  <2> DEFINE a == k * n
             b == (m + 1) * n
  <2> HIDE DEF Start, a, b
  <2>3. Start(b) <= Start(a) /\ Start(a) \in Nat /\ Start(b) \in Nat
      BY <1>2, <1>3, <2>2 DEF a, b
  <2>4. i < Start(b) /\ i = Start(a)
      BY <1>1 DEF a, b
  <2> QED BY <2>3, <2>4
<1> QED BY <1>4, <1>5

LEMMA NotBeforeItself ==
    ASSUME loaded \in Tables, sortBy \in SortSpecs, NEW a \in Row
    PROVE  ~Precedes(a, a)
<1>1. /\ DOMAIN sortBy = 1 .. Len(sortBy)
      /\ \A i \in 1 .. Len(sortBy) : a[sortBy[i].column] \in Int
    BY KeyIs
<1>2. \A i \in DOMAIN sortBy : a[sortBy[i].column] \in Int
    BY <1>1
<1>3. \A x \in Int : ~(x < x) /\ ~(x > x)
    OBVIOUS
<1> QED BY <1>2, <1>3 DEF Precedes

\* The first pages of a group and of its runs are boundaries.
LEMMA RunStartIs ==
    ASSUME Shape, Progress, pc \in {"open", "merge"}
    PROVE  /\ Boundary(Start(pageIndex), size * K)
           /\ \A r \in Runs : \E m \in Nat : RunStart(r) = m * size /\ RunStart(r) + size = (m + 1) * size
<1>1. PICK k \in Nat : pageIndex = k * (K * size)
    BY DEF Progress
<1>2. size \in Nat \ {0} /\ K \in Nat \ {0}
    BY ShapeIs, Constants
<1> HIDE DEF K
<1>3. K * size = size * K
    BY <1>2
<1>4. Boundary(Start(pageIndex), size * K)
    BY <1>1, <1>3 DEF Boundary
<1>5. ASSUME NEW r \in Runs PROVE \E m \in Nat : RunStart(r) = m * size /\ RunStart(r) + size = (m + 1) * size
  <2> DEFINE m == k * K + (r - 1)
  <2>1. r \in Nat \ {0}
    <3>1. loaded \in Tables /\ pageIndex \in Nat /\ pageIndex < blockCount
        BY ShapeIs DEF Progress
    <3>2. GroupEnd \in Nat /\ pageIndex < GroupEnd
        BY <1>2, <3>1, RunsAre
    <3>3. GroupEnd - pageIndex \in Nat \ {0}
      <4> HIDE DEF GroupEnd
      <4> QED BY <3>1, <3>2
    <3>4. Ceiling(GroupEnd - pageIndex, size) \in Nat
        BY <1>2, <3>3, CeilingIs
    <3> HIDE DEF Ceiling, GroupEnd
    <3> QED BY <3>4 DEF Runs
  <2>2. k * K \in Nat /\ r - 1 \in Nat /\ m \in Nat
    <3>1. k * K \in Nat
        BY <1>2
    <3> HIDE DEF Runs
    <3> QED BY <2>1, <3>1
  <2>3. k * (K * size) = (k * K) * size
      BY <1>2
  <2>4. (k * K) * size + (r - 1) * size = m * size
    <3> HIDE DEF Runs
    <3> QED BY <1>2, <2>2
  <2>5. RunStart(r) = m * size
      BY <1>1, <2>3, <2>4 DEF RunStart
  <2> HIDE DEF m
  <2>6. (m + 1) * size = m * size + size
      BY <1>2, <2>2, Product
  <2> QED BY <2>2, <2>5, <2>6
<1> QED BY <1>4, <1>5

\* The row that leaves the queue comes before none that was moved in this group, and no row in the
\* queue comes before it.
LEMMA HeadsInOrder ==
    ASSUME Shape, Progress, Cursors, Keeps, Ordered, ~overfilled, NEW r, MergeRow(r) \/ MergeLastRow(r)
    PROVE  /\ InRuns(Moved', size * K, Len(Moved'))
           /\ \A i \in Start(pageIndex) + 1 .. Len(Moved') :
                 /\ Moved'[i] \in Row
                 /\ ~Precedes(pq[r], Moved'[i])
                 /\ \A q \in DOMAIN pq \ {r} : ~Precedes(pq[q], Moved'[i])
<1> DEFINE x == pq[r]
           n == Len(Moved)
           a == Start(pageIndex)
<1>1. /\ pc = "merge" /\ r \in DOMAIN pq /\ x \in Row /\ Moved' = Append(Moved, x) /\ Len(Moved') = n + 1
    BY RowMoves
<1>2. /\ loaded \in Tables /\ sortBy \in SortSpecs /\ Moved \in Seq(Row)
    BY <1>1, ShapeIs
<1>3. n \in Nat /\ a \in Nat /\ a <= n
    BY <1>1, MovedIs
<1>4. /\ InRuns(Moved, size * K, n)
      /\ \A i \in a + 1 .. n, q \in DOMAIN pq : ~Precedes(pq[q], Moved[i])
    BY <1>1 DEF Ordered
<1>5. \A q \in DOMAIN pq : ~Precedes(pq[q], x)
    BY <1>1 DEF MergeRow, MergeLastRow, Top
<1>6. ~Precedes(x, x)
    BY <1>1, <1>2, NotBeforeItself
<1>7. /\ \A i \in 1 .. n : Moved'[i] = Moved[i] /\ Moved[i] \in Row
      /\ Moved'[n + 1] = x
  <2> HIDE DEF Moved, x, Row
  <2> QED BY <1>1, <1>2, AppendIs, ElementOfSeq
<1>8. Boundary(a, size * K)
    BY <1>1, RunStartIs
<1> HIDE DEF x, n, a, Moved, Precedes, Row, Boundary, Start, K
<1>9. ASSUME NEW i \in a + 1 .. n + 1
      PROVE  Moved'[i] \in Row /\ ~Precedes(x, Moved'[i]) /\ \A q \in DOMAIN pq \ {r} : ~Precedes(pq[q], Moved'[i])
  <2>1. CASE i = n + 1
      BY <1>1, <1>5, <1>6, <1>7, <2>1
  <2>2. CASE i \in a + 1 .. n
    <3>1. i \in 1 .. n
        BY <1>3, <2>2
    <3>2. Moved'[i] = Moved[i] /\ Moved[i] \in Row
        BY <1>7, <3>1
    <3> QED BY <1>1, <1>4, <2>2, <3>2 DEF x
  <2>3. i = n + 1 \/ i \in a + 1 .. n
      BY <1>3
  <2> QED BY <2>1, <2>2, <2>3
<1>10. ASSUME NEW i \in 1 .. n PROVE Boundary(i, size * K) \/ ~Precedes(Moved'[i + 1], Moved'[i])
  <2>1. CASE i = n
    <3>1. CASE n = a
        BY <1>8, <2>1, <3>1
    <3>2. CASE a < n
      <4>1. i \in a + 1 .. n + 1
          BY <1>3, <2>1, <3>2
      <4> QED BY <1>7, <1>9, <2>1, <4>1
    <3> QED BY <1>3, <3>1, <3>2
  <2>2. CASE i \in 1 .. n - 1
    <3>1. i \in 1 .. n /\ i + 1 \in 1 .. n
        BY <1>3, <2>2
    <3>2. Moved'[i] = Moved[i] /\ Moved'[i + 1] = Moved[i + 1]
        BY <1>7, <3>1
    <3>3. Boundary(i, size * K) \/ ~Precedes(Moved[i + 1], Moved[i])
        BY <1>4, <2>2 DEF InRuns
    <3> QED BY <3>2, <3>3
  <2>3. i = n \/ i \in 1 .. n - 1
      BY <1>3
  <2> QED BY <2>1, <2>2, <2>3
<1>11. InRuns(Moved', size * K, Len(Moved'))
  <2>1. (n + 1) - 1 = n /\ Len(Moved') = n + 1
      BY <1>1, <1>3
  <2> QED BY <1>10, <2>1 DEF InRuns
<1>12. \A i \in a + 1 .. Len(Moved') : i \in a + 1 .. n + 1
    BY <1>1
<1> QED BY <1>9, <1>11, <1>12 DEF x, a

\* The next row of the same run comes before none that was moved in this group either.
LEMMA NextRowInOrder ==
    ASSUME Shape, Progress, Cursors, Keeps, Ordered, ~overfilled, NEW r, MergeRow(r)
    PROVE  \A i \in Start(pageIndex) + 1 .. Len(Moved') : ~Precedes(pq'[r], Moved'[i])
<1> DEFINE c == cursors[r]
           x == pq[r]
           next == pq'[r]
           i == Place(c)
<1>1. pc = "merge" /\ r \in DOMAIN pq /\ x \in Row
    BY RowMoves
<1>2. loaded \in Tables /\ sortBy \in SortSpecs /\ Len(loaded) \in Nat /\ size \in Nat \ {0} /\ pageIndex \in Nat
    BY <1>1, ShapeIs
<1>3. i + 1 \in LeftOf(c) /\ next = TableRows[i + 1] /\ x = TableRows[i]
    BY <1>1, MergeRowCursors DEF Cursors
<1>4. r \in Runs /\ LeftOf(c) \subseteq Region(r) /\ i \in 1 .. Len(loaded) /\ i \in LeftOf(c)
    BY <1>1, PendingIs
<1>5. pageIndex < blockCount
    BY <1>1 DEF Progress
<1>6. i + 1 \in 1 .. Len(loaded) /\ i + 1 <= Start(RunStart(r) + size)
  <2>1. /\ Region(r) \subseteq Start(pageIndex) + 1 .. Len(loaded)
        /\ \A j \in Region(r) : j <= Start(RunStart(r) + size)
      BY <1>2, <1>4, <1>5, RegionsAre
  <2>2. Start(pageIndex) \in Nat
      BY <1>2, StartIs
  <2> HIDE DEF i, c, Region, LeftOf, Start, RunStart
  <2>3. i + 1 \in Region(r)
      BY <1>3, <1>4
  <2>4. i + 1 \in Start(pageIndex) + 1 .. Len(loaded)
      BY <2>1, <2>3
  <2> QED BY <1>2, <2>1, <2>2, <2>3, <2>4
<1>7. Start(RunStart(r)) < i
  <2>1. i \in Region(r)
      BY <1>4
  <2>2. Start(RunStart(r)) \in Nat
    <3>1. RunStart(r) \in Pages
        BY <1>2, <1>4, <1>5, RunsAre
    <3> QED BY <1>2, <3>1, PageIs
  <2> HIDE DEF i, Start
  <2> QED BY <2>1, <2>2 DEF Region
<1>8. PICK m \in Nat : RunStart(r) = m * size /\ RunStart(r) + size = (m + 1) * size
    BY <1>1, <1>4, RunStartIs
<1>9. ~Boundary(i, size)
  <2>1. Start(m * size) < i
      BY <1>7, <1>8
  <2>2. i < Start((m + 1) * size)
    <3>1. i + 1 <= Start((m + 1) * size)
        BY <1>6, <1>8
    <3>2. i \in Int /\ Start((m + 1) * size) \in Int
      <4>1. (m + 1) * size \in Nat
        <5>1. m + 1 \in Nat /\ \A k \in Nat : k * size \in Nat
            BY <1>2
        <5> QED BY <5>1
      <4> QED BY <1>4, <4>1, StartIs
    <3> HIDE DEF Start, i
    <3> QED BY <3>1, <3>2
  <2> HIDE DEF Start, Boundary, i
  <2> QED BY <1>2, <1>4, <2>1, <2>2, NotInside
<1> HIDE DEF Boundary, i
<1>10. ~Precedes(next, x)
  <2>1. InRuns(TableRows, size, Len(loaded))
      BY <1>1 DEF Ordered
  <2>2. i \in 1 .. Len(loaded) - 1
      BY <1>2, <1>4, <1>6
  <2>3. ~Precedes(TableRows[i + 1], TableRows[i])
      BY <1>9, <2>1, <2>2 DEF InRuns
  <2> QED BY <1>3, <2>3
<1>11. next \in Row
    BY <1>1, <1>3, <1>6, ShapeIs
<1>12. ASSUME NEW j \in Start(pageIndex) + 1 .. Len(Moved'), Precedes(next, Moved'[j]) PROVE FALSE
  <2>1. Moved'[j] \in Row /\ ~Precedes(x, Moved'[j])
      BY HeadsInOrder
  <2> DEFINE y == Moved'[j]
  <2>2. y \in Row /\ Precedes(next, y) /\ ~Precedes(x, y)
      BY <1>12, <2>1
  <2> HIDE DEF next, x, y, Precedes, Row
  <2> QED BY <1>1, <1>2, <1>10, <1>11, <2>2, BetweenRows
<1> QED BY <1>12

LEMMA RowOrdered ==
    ASSUME Shape, Progress, Cursors, Keeps, Ordered, NEW r, MergeRow(r) \/ MergeLastRow(r)
    PROVE  Ordered'
<1>1. /\ pc = "merge" /\ pc' = "merge" /\ r \in DOMAIN pq /\ loaded' = loaded /\ pageFile' = pageFile
      /\ size' = size /\ pageIndex' = pageIndex /\ sortBy' = sortBy /\ overfilled' = overfilled
    BY RowMoves
<1>2. SUFFICES ASSUME ~overfilled PROVE Ordered'
    BY <1>1 DEF Ordered
<1>3. TableRows' = TableRows
    BY <1>1, ShapeIs, SameRows
<1>4. BagOf(TableRows) = BagOf(loaded) /\ InRuns(TableRows, size, Len(loaded))
    BY <1>1, <1>2 DEF Ordered
<1>5. /\ InRuns(Moved', size * K, Len(Moved'))
      /\ \A i \in Start(pageIndex) + 1 .. Len(Moved') :
            \A q \in DOMAIN pq \ {r} : ~Precedes(pq[q], Moved'[i])
    BY <1>2, HeadsInOrder
<1>6. \A i \in Start(pageIndex) + 1 .. Len(Moved'), q \in DOMAIN pq' : ~Precedes(pq'[q], Moved'[i])
  <2>1. CASE MergeRow(r)
    <3>1. DOMAIN pq' = DOMAIN pq /\ \A q \in DOMAIN pq \ {r} : pq'[q] = pq[q]
        BY <2>1, MergeRowCursors
    <3>2. \A i \in Start(pageIndex) + 1 .. Len(Moved') : ~Precedes(pq'[r], Moved'[i])
        BY <1>2, <2>1, NextRowInOrder
    <3> HIDE DEF Moved, Precedes, Start
    <3> QED BY <1>5, <3>1, <3>2
  <2>2. CASE MergeLastRow(r)
    <3>1. DOMAIN pq' = DOMAIN pq \ {r} /\ \A q \in DOMAIN pq \ {r} : pq'[q] = pq[q]
        BY <2>2, MergeLastRowCursors
    <3> HIDE DEF Moved, Precedes, Start
    <3> QED BY <1>5, <3>1
  <2> QED BY <2>1, <2>2
<1>7. (BagOf(TableRows) = BagOf(loaded))' /\ InRuns(TableRows, size, Len(loaded))'
  <2>1. BagOf(TableRows)' = BagOf(TableRows) /\ BagOf(loaded)' = BagOf(loaded)
    <3> HIDE DEF TableRows
    <3> QED BY <1>1, <1>3 DEF BagOf, ToSet
  <2>2. InRuns(TableRows, size, Len(loaded))' <=> InRuns(TableRows, size, Len(loaded))
    <3> HIDE DEF TableRows
    <3> QED BY <1>1, <1>3 DEF InRuns, Boundary, Precedes, Start
  <2> QED BY <1>4, <2>1, <2>2
<1>8. InRuns(Moved, size * K, Len(Moved))'
  <2> HIDE DEF Moved
  <2> QED BY <1>1, <1>5 DEF InRuns, Boundary, Precedes, Start, K
<1>9. (\A i \in Start(pageIndex) + 1 .. Len(Moved), q \in DOMAIN pq : ~Precedes(pq[q], Moved[i]))'
  <2> HIDE DEF Moved
  <2> QED BY <1>1, <1>6 DEF Precedes, Start
<1> QED BY <1>1, <1>7, <1>8, <1>9 DEF Ordered

LEMMA RowShape ==
    ASSUME Shape, Progress, Cursors, NEW r, MergeRow(r) \/ MergeLastRow(r)
    PROVE  Shape' /\ Progress'
<1>1. /\ pc = "merge" /\ pc' = "merge" /\ pq[r] \in Row /\ loaded' = loaded /\ pageFile' = pageFile
      /\ size' = size /\ pageIndex' = pageIndex /\ sortBy' = sortBy /\ overfilled' = overfilled
    BY RowMoves
<1>2. sorts' = sorts
    BY DEF MergeRow, MergeLastRow
<1>3. Row' = Row /\ Pages' = Pages /\ blockCount' = blockCount
    BY <1>1, SameTable
<1> DEFINE rows == Append(mergeData, pq[r])
           S == Seq(Row)
<1>4. /\ rows \in S /\ rows # <<>> /\ <<>> \in S
      /\ mergeData \in S /\ dummy \in Seq(S) /\ \A d \in DOMAIN dummy : dummy[d] # <<>>
  <2>1. mergeData \in Seq(Row) /\ dummy \in Seq(Seq(Row)) /\ \A d \in DOMAIN dummy : dummy[d] # <<>>
      BY DEF Shape
  <2>2. <<>> \in Seq(Row)
      OBVIOUS
  <2> HIDE DEF Row
  <2>3. Append(mergeData, pq[r]) \in Seq(Row) /\ Append(mergeData, pq[r]) # <<>>
      BY <1>1, <2>1, AppendIs
  <2> QED BY <2>1, <2>2, <2>3
<1>5. \/ dummy' = Append(dummy, rows) /\ mergeData' = <<>>
      \/ dummy' = dummy /\ mergeData' = rows
    BY DEF MergeRow, MergeLastRow, WriteDummy
<1> HIDE DEF rows, S
<1>6. /\ dummy' \in Seq(S) /\ mergeData' \in S
      /\ \A d \in DOMAIN dummy' : dummy'[d] # <<>>
  <2>1. CASE dummy' = Append(dummy, rows) /\ mergeData' = <<>>
    <3>1. /\ dummy' \in Seq(S) /\ Len(dummy') = Len(dummy) + 1
          /\ \A d \in 1 .. Len(dummy) : dummy'[d] = dummy[d]
          /\ dummy'[Len(dummy) + 1] = rows
        BY <1>4, <2>1, AppendIs
    <3>2. DOMAIN dummy = 1 .. Len(dummy) /\ DOMAIN dummy' = 1 .. Len(dummy) + 1 /\ Len(dummy) \in Nat
        BY <1>4, <3>1, LenProperties
    <3>3. \A d \in 1 .. Len(dummy) + 1 : d \in 1 .. Len(dummy) \/ d = Len(dummy) + 1
        BY <3>2
    <3> QED BY <1>4, <2>1, <3>1, <3>2, <3>3
  <2>2. CASE dummy' = dummy /\ mergeData' = rows
      BY <1>4, <2>2
  <2> QED BY <1>5, <2>1, <2>2
<1>7. Shape'
  <2>1. dummy' \in Seq(Seq(Row')) /\ mergeData' \in Seq(Row')
      BY <1>3, <1>6 DEF S
  <2>2. /\ loaded' \in Tables
        /\ pageFile' \in [Pages' -> Seq(Row')] /\ \A p \in Pages' : pageFile'[p] # <<>>
        /\ sortBy' \in SortSpecs \cup {<<>>} /\ (pc' # "idle" => sortBy' \in SortSpecs)
        /\ pc' \in {"idle", "sortPages", "open", "merge", "copy", "finish"}
        /\ pageIndex' \in 0 .. blockCount' /\ size' \in Nat \ {0}
        /\ overfilled' \in BOOLEAN /\ sorts' \in 0 .. MaxSorts
    <3> HIDE DEF Row, Pages, blockCount
    <3> QED BY <1>1, <1>2, <1>3 DEF Shape
  <2> HIDE DEF Row, Pages, blockCount
  <2> QED BY <1>6, <2>1, <2>2 DEF Shape
<1>8. Progress'
  <2> HIDE DEF blockCount
  <2> QED BY <1>1, <1>3 DEF Progress, K
<1> QED BY <1>7, <1>8

LEMMA RowStep ==
    ASSUME SortInv, NEW r, MergeRow(r) \/ MergeLastRow(r)
    PROVE  SortInv'
<1>1. Shape /\ Progress /\ Cursors /\ Keeps /\ Aligned /\ Ordered
    BY DEF SortInv
<1>2. Shape' /\ Progress'
    BY <1>1, RowShape
<1>3. Cursors'
    BY <1>1, MergeRowCursors, MergeLastRowCursors
<1>4. Keeps'
    BY <1>1, RowKept
<1>5. Aligned'
    BY <1>1, RowAligned
<1>6. Ordered'
    BY <1>1, RowOrdered
<1> QED BY <1>2, <1>3, <1>4, <1>5, <1>6 DEF SortInv

-----------------------------------------------------------------------------
(* An iteration begins *)

\* Nothing has been moved when an iteration begins.
LEMMA IterationBegins ==
    ASSUME loaded' \in Tables, pc' \notin {"merge", "copy"}, dummy' = <<>>, mergeData' = <<>>,
           pc' = "open" => pageIndex' = 0
    PROVE  Cursors' /\ Keeps' /\ Aligned'
<1>1. Cursors'
    BY DEF Cursors
<1>2. FlattenSeq(dummy') = <<>> /\ Len(dummy') = 0 /\ DOMAIN dummy' = {}
  <2>1. \A s : s = <<>> => Len(s) = 0 /\ DOMAIN s = {}
      OBVIOUS
  <2> QED BY <2>1, FlattenNothing
<1>3. Written' = <<>> /\ Moved' = <<>> /\ Len(<<>>) = 0
    BY <1>2 DEF Written, Moved
<1>4. Keeps'
  <2>1. SUFFICES ASSUME pc' = "open"
                 PROVE  Lists(TableRows, Moved, 1 .. Len(loaded) \ Pending)' /\ Len(dummy') <= pageIndex'
      BY DEF Keeps
  <2>2. Pending' = 1 .. Len(loaded')
    <3>1. Queued' = {} /\ AfterGroup' = 0
        BY <2>1 DEF Queued, AfterGroup
    <3>2. Start(0) + 1 = 1
        BY StartIs
    <3>3. Pending' = (UNION {LeftOf(cursors[r])' : r \in {}}) \cup (Start(0) + 1 .. Len(loaded'))
        BY <3>1 DEF Pending
    <3> QED BY <3>2, <3>3
  <2>3. 1 .. Len(loaded') \ Pending' = {}
      BY <2>2
  <2>4. Lists(TableRows', Moved', 1 .. Len(loaded') \ Pending')
      BY <1>3, <2>3, ListsNothing
  <2>5. Lists(TableRows, Moved, 1 .. Len(loaded) \ Pending)'
      BY <2>4 DEF Lists
  <2> QED BY <1>2, <2>1, <2>5
<1>5. Aligned'
  <2>1. Chunks(dummy', Written')
    <3>1. Start(0) = 0 /\ maxRowsPerBlock \in Nat \ {0}
        BY StartIs, Constants
    <3> QED BY <1>2, <1>3, <3>1 DEF Chunks
  <2>2. Chunks(dummy, Written)'
      BY <2>1 DEF Chunks, Start, LowerOf
  <2> QED BY <2>2 DEF Aligned
<1> QED BY <1>1, <1>4, <1>5

-----------------------------------------------------------------------------
(* The initial states *)

\* The page files that blockify writes hold the rows of their pages.
LEMMA BlockifyIs ==
    ASSUME loaded \in Tables, NEW p \in Pages
    PROVE  /\ Blockify(loaded, p) \in Seq(Row) /\ Blockify(loaded, p) # <<>>
           /\ Len(Blockify(loaded, p)) = rowsPerBlockCount(p)
           /\ \A j \in 1 .. rowsPerBlockCount(p) : Blockify(loaded, p)[j] = loaded[Start(p) + j]
<1> DEFINE m == Start(p) + 1
           n == EndOf(p)
           s == Blockify(loaded, p)
           k == rowsPerBlockCount(p)
<1>1. s = SubSeq(loaded, m, n)
    BY DEF Blockify, Start, EndOf
<1>2. /\ Start(p) \in Nat /\ k \in Nat \ {0} /\ n = Start(p) + k /\ n \in 1 .. Len(loaded)
      /\ loaded \in Seq(Row) /\ Len(loaded) \in Nat
  <2>1. /\ Start(p) \in Nat /\ k \in 1 .. maxRowsPerBlock /\ n = Start(p) + k /\ n \in 1 .. Len(loaded)
      BY PageIs
  <2> HIDE DEF Start, n, k
  <2> QED BY <2>1, TableIs, Constants
<1> HIDE DEF s, n, k, Start, Row
<1>3. m \in 1 .. Len(loaded) + 1 /\ n \in m - 1 .. Len(loaded) /\ (n - m) + 1 = k
    BY <1>2
<1>4. \A j \in 1 .. k : (m + j) - 1 = Start(p) + j
    BY <1>2
<1> HIDE DEF m
<1>5. /\ s \in Seq(Row) /\ Len(s) = (n - m) + 1
      /\ \A j \in 1 .. (n - m) + 1 : s[j] = loaded[(m + j) - 1]
  <2>1. m \in Int /\ n \in Int /\ (n - m) + 1 > 0
      BY <1>2, <1>3
  <2>2. \A i \in m .. n : loaded[i] \in Row
    <3> SUFFICES ASSUME NEW i \in m .. n PROVE loaded[i] \in Row
        OBVIOUS
    <3>1. i \in 1 .. Len(loaded)
        BY <1>2, <1>3
    <3> QED BY <1>2, <3>1, ElementOfSeq
  <2>3. SubSeq(loaded, m, n) \in Seq(Row)
        /\ Len(SubSeq(loaded, m, n)) = (IF m <= n THEN (n - m) + 1 ELSE 0)
        /\ \A i \in 1 .. (n - m) + 1 : SubSeq(loaded, m, n)[i] = loaded[(m + i) - 1]
      BY <2>1, <2>2, SubSeqProperties
  <2> QED BY <1>1, <2>1, <2>3
<1>6. s # <<>>
  <2>1. Len(s) # 0 /\ Len(<<>>) = 0
      BY <1>2, <1>3, <1>5
  <2> QED BY <2>1
<1> QED BY <1>3, <1>4, <1>5, <1>6 DEF s, k

LEMMA InitSort == Init => SortInv
<1> SUFFICES ASSUME Init PROVE SortInv
    OBVIOUS
<1>1. loaded \in Tables /\ pageFile = [p \in Pages |-> Blockify(loaded, p)]
    BY DEF Init
<1>2. /\ Len(loaded) \in Nat \ {0} /\ blockCount \in Nat \ {0} /\ loaded \in Seq(Row)
    BY <1>1, TableIs
<1>3. Shape
  <2>1. pageFile \in [Pages -> Seq(Row)] /\ \A p \in Pages : pageFile[p] # <<>>
    <3> HIDE DEF Row
    <3> QED BY <1>1, BlockifyIs
  <2>2. \A S : <<>> \in Seq(S) /\ DOMAIN <<>> = {}
      OBVIOUS
  <2>3. mergeData \in Seq(Row) /\ dummy \in Seq(Seq(Row)) /\ \A d \in DOMAIN dummy : dummy[d] # <<>>
    <3>1. mergeData = <<>> /\ dummy = <<>>
        BY DEF Init
    <3> HIDE DEF Row
    <3> QED BY <2>2, <3>1
  <2>4. /\ loaded \in Tables /\ sortBy \in SortSpecs \cup {<<>>} /\ pc = "idle"
        /\ pageIndex = 0 /\ size = 1 /\ overfilled = FALSE /\ sorts = 0
      BY DEF Init
  <2>5. 0 \in 0 .. blockCount /\ 1 \in Nat \ {0} /\ 0 \in 0 .. MaxSorts
    <3> HIDE DEF blockCount
    <3> QED BY <1>2, Constants
  <2> HIDE DEF Row, Pages, blockCount
  <2> QED BY <2>1, <2>3, <2>4, <2>5 DEF Shape
<1>4. Progress
    BY DEF Progress, Init
<1>5. Cursors /\ Keeps /\ Aligned
    BY DEF Cursors, Keeps, Aligned, Init
<1>6. Ordered
  <2>1. TableRows = loaded
    <3> DEFINE t == TableOf(pageFile)
    <3>1. TableRows = t /\ DOMAIN t = 1 .. Len(loaded) /\ t = [i \in 1 .. Len(loaded) |-> t[i]]
        BY <1>1, TableOfIs, TableOfAre DEF TableOf
    <3>2. ASSUME NEW i \in 1 .. Len(loaded) PROVE t[i] = loaded[i]
      <4>1. PICK p \in Pages : \E j \in 1 .. rowsPerBlockCount(p) : i = Start(p) + j
          BY <1>1, EveryPlace
      <4>2. PICK j \in 1 .. rowsPerBlockCount(p) : i = Start(p) + j
          BY <4>1
      <4>3. pageFile[p] = Blockify(loaded, p)
          BY <1>1
      <4>4. t[i] = RowIn(pageFile, p, j)
          BY <1>1, <4>2, TableOfAre
      <4>5. Len(Blockify(loaded, p)) = rowsPerBlockCount(p) /\ Blockify(loaded, p)[j] = loaded[Start(p) + j]
          BY <1>1, BlockifyIs
      <4>6. rowsPerBlockCount(p) \in Nat
          BY <1>1, PageIs, Constants
      <4>7. j <= Len(pageFile[p])
        <5> HIDE DEF rowsPerBlockCount
        <5> QED BY <4>3, <4>5, <4>6
      <4> HIDE DEF rowsPerBlockCount, Blockify, t
      <4> QED BY <4>2, <4>3, <4>4, <4>5, <4>7 DEF RowIn
    <3>3. loaded = [i \in 1 .. Len(loaded) |-> loaded[i]]
      <4> HIDE DEF Row
      <4> QED BY <1>2, LenProperties
    <3> HIDE DEF t
    <3> QED BY <3>1, <3>2, <3>3
  <2> HIDE DEF TableRows
  <2> QED BY <2>1 DEF Ordered, Init
<1> QED BY <1>3, <1>4, <1>5, <1>6 DEF SortInv

-----------------------------------------------------------------------------
(* The steps that move no row *)

LEMMA SORTStep ==
    ASSUME SortInv, NEW spec \in SortSpecs, SORT(spec)
    PROVE  SortInv'
<1>1. /\ pc = "idle" /\ sorts < MaxSorts /\ sortBy' = spec /\ pc' = "sortPages" /\ pageIndex' = 0
      /\ sorts' = sorts + 1 /\ loaded' = loaded /\ pageFile' = pageFile /\ size' = size
      /\ mergeData' = mergeData /\ dummy' = dummy /\ overfilled' = overfilled
    BY DEF SORT
<1>2. Shape /\ Progress /\ Ordered
    BY DEF SortInv
<1>3. loaded \in Tables /\ blockCount \in Nat \ {0} /\ Len(loaded) \in Nat \ {0}
    BY <1>2, ShapeIs
<1>4. Row' = Row /\ Pages' = Pages /\ blockCount' = blockCount
    BY <1>1, SameTable
<1> HIDE DEF Row, Pages, blockCount
<1>5. Shape'
  <2>1. sorts + 1 \in 0 .. MaxSorts /\ 0 \in 0 .. blockCount
      BY <1>1, <1>2, <1>3, Constants DEF Shape
  <2> QED BY <1>1, <1>2, <1>4, <2>1 DEF Shape
<1>6. Progress'
    BY <1>1, <1>2, <1>3, <1>4 DEF Progress
<1>7. Cursors' /\ Keeps' /\ Aligned'
    BY <1>1 DEF Cursors, Keeps, Aligned
<1>8. Ordered'
  <2>1. TableRows' = TableRows
      BY <1>1, <1>3, SameRows
  <2>2. InRuns(TableRows, 1, Start(pageIndex))'
    <3>1. Start(pageIndex') = 0
        BY <1>1, StartIs
    <3> HIDE DEF TableRows
    <3> QED BY <3>1 DEF InRuns, Start
  <2>3. BagOf(TableRows)' = BagOf(TableRows) /\ BagOf(loaded)' = BagOf(loaded)
    <3> HIDE DEF TableRows
    <3> QED BY <1>1, <2>1 DEF BagOf, ToSet
  <2> QED BY <1>1, <1>2, <2>2, <2>3 DEF Ordered
<1> QED BY <1>5, <1>6, <1>7, <1>8 DEF SortInv

LEMMA FinishStep ==
    ASSUME SortInv, Finish
    PROVE  SortInv'
<1>1. /\ pc = "finish" /\ sortBy' = <<>> /\ pc' = "idle" /\ loaded' = loaded /\ pageFile' = pageFile
      /\ pageIndex' = pageIndex /\ size' = size
      /\ mergeData' = mergeData /\ dummy' = dummy /\ overfilled' = overfilled /\ sorts' = sorts
    BY DEF Finish
<1>2. Shape /\ Progress /\ Ordered
    BY DEF SortInv
<1>3. loaded \in Tables
    BY <1>2, ShapeIs
<1>4. Row' = Row /\ Pages' = Pages /\ blockCount' = blockCount
    BY <1>1, SameTable
<1> HIDE DEF Row, Pages, blockCount
<1>5. Shape'
    BY <1>1, <1>2, <1>4 DEF Shape
<1>6. Progress'
    BY <1>1, <1>2, <1>4 DEF Progress
<1>7. Cursors' /\ Keeps' /\ Aligned'
    BY <1>1 DEF Cursors, Keeps, Aligned
<1>8. Ordered'
  <2>1. TableRows' = TableRows
      BY <1>1, <1>3, SameRows
  <2>2. BagOf(TableRows)' = BagOf(TableRows) /\ BagOf(loaded)' = BagOf(loaded)
    <3> HIDE DEF TableRows
    <3> QED BY <1>1, <2>1 DEF BagOf, ToSet
  <2> QED BY <1>1, <1>2, <2>2 DEF Ordered
<1> QED BY <1>5, <1>6, <1>7, <1>8 DEF SortInv

LEMMA StutterStep ==
    ASSUME SortInv, UNCHANGED vars
    PROVE  SortInv'
<1>1. /\ loaded' = loaded /\ pageFile' = pageFile /\ sortBy' = sortBy /\ pc' = pc /\ pageIndex' = pageIndex
      /\ size' = size /\ cursors' = cursors /\ pq' = pq /\ mergeData' = mergeData /\ dummy' = dummy
      /\ overfilled' = overfilled /\ sorts' = sorts
    BY DEF vars
<1>2. Shape' /\ Progress'
    BY <1>1 DEF SortInv, Shape, Progress, Row, Pages, blockCount, K
<1>3. Cursors'
    BY <1>1 DEF SortInv, Cursors, Runs, GroupEnd, RunStart, RunEnd, InRun, TableRows, RowsFrom, ReadRow,
                rowsPerBlockCount, blockCount, Place, Start
<1>4. Pending' = Pending /\ Written' = Written /\ Moved' = Moved /\ TableRows' = TableRows
    BY <1>1 DEF Pending, Queued, AfterGroup, GroupEnd, LeftOf, EndOf, Place, Start, Written, Moved, TableRows,
                RowsFrom, ReadRow, rowsPerBlockCount, blockCount
<1> HIDE DEF Pending, Written, Moved, TableRows
<1>5. Keeps' /\ Aligned'
    BY <1>1, <1>4 DEF SortInv, Keeps, Aligned, Fits, Chunks, Lists, Start, LowerOf
<1>6. Ordered'
  <2>1. BagOf(TableRows)' = BagOf(TableRows) /\ BagOf(loaded)' = BagOf(loaded)
      BY <1>1, <1>4 DEF BagOf, ToSet
  <2>2. /\ InRuns(TableRows, 1, Start(pageIndex))' <=> InRuns(TableRows, 1, Start(pageIndex))
        /\ InRuns(TableRows, size, Len(loaded))' <=> InRuns(TableRows, size, Len(loaded))
        /\ InRuns(Moved, size * K, Len(Moved))' <=> InRuns(Moved, size * K, Len(Moved))
      BY <1>1, <1>4 DEF InRuns, Boundary, Precedes, Start, K
  <2>3. (\A i \in Start(pageIndex) + 1 .. Len(Moved), r \in DOMAIN pq : ~Precedes(pq[r], Moved[i]))'
           <=> \A i \in Start(pageIndex) + 1 .. Len(Moved), r \in DOMAIN pq : ~Precedes(pq[r], Moved[i])
      BY <1>1, <1>4 DEF Precedes, Start
  <2>4. Ordered
      BY DEF SortInv
  <2> QED BY <1>1, <2>1, <2>2, <2>3, <2>4 DEF Ordered
<1> QED BY <1>2, <1>3, <1>5, <1>6 DEF SortInv

-----------------------------------------------------------------------------
(* A page is sorted *)

LEMMA PageSorted ==
    ASSUME Shape, pc # "idle", pageIndex < blockCount, NEW rows \in SortedOrders(ReadPage(pageIndex)),
           NEW files, files = [pageFile EXCEPT ![pageIndex] = rows], NEW t, t = TableOf(files)
    PROVE  /\ files \in [Pages -> Seq(Row)] /\ \A p \in Pages : files[p] # <<>>
           /\ BagOf(t) = BagOf(TableRows)
           /\ InRuns(TableRows, 1, Start(pageIndex)) => InRuns(t, 1, EndOf(pageIndex))
<1> DEFINE p == pageIndex
           s == Start(pageIndex)
           n == rowsPerBlockCount(pageIndex)
           N == Len(loaded)
           old == ReadPage(pageIndex)
           u == TableRows
<1>1. /\ loaded \in Tables /\ p \in Pages /\ N \in Nat /\ loaded[1] # <<>>
      /\ old \in Seq(Row) /\ Len(old) = n /\ u \in Seq(Row) /\ Len(u) = N
  <2>1. /\ loaded \in Tables /\ pageIndex \in Nat /\ blockCount \in Nat /\ N \in Nat /\ loaded[1] # <<>>
        /\ u \in Seq(Row) /\ Len(u) = N
        /\ \A q \in Pages : ReadPage(q) \in Seq(Row) /\ Len(ReadPage(q)) = rowsPerBlockCount(q)
      BY ShapeIs
  <2>2. p \in Pages
    <3> HIDE DEF blockCount
    <3> QED BY <2>1 DEF Pages
  <2> QED BY <2>1, <2>2
<1>2. /\ s \in Nat /\ n \in Nat \ {0} /\ EndOf(p) = s + n /\ s + n <= N /\ s < N
  <2>1. /\ s \in Nat /\ n \in 1 .. maxRowsPerBlock /\ EndOf(p) = s + n /\ EndOf(p) \in 1 .. N /\ s < N
      BY <1>1, PageIs
  <2> HIDE DEF n, s, N
  <2> QED BY <1>1, <2>1, Constants
<1>3. /\ pageFile \in [Pages -> Seq(Row)] /\ \A q \in Pages : pageFile[q] # <<>>
    BY DEF Shape
<1>4. DOMAIN old = 1 .. n /\ ToSet(old) \subseteq Row
  <2> HIDE DEF Row, n, old
  <2> QED BY <1>1, LenProperties, BagIs, ElementOfSeq
<1>5. rows \in [1 .. n -> Row] /\ Sorted(rows) /\ BagOf(rows) = BagOf(old)
  <2>1. rows \in [DOMAIN old -> ToSet(old)] /\ Sorted(rows) /\ BagOf(rows) = BagOf(old)
      BY DEF SortedOrders
  <2> HIDE DEF old, Row, n
  <2> QED BY <1>4, <2>1
<1>6. rows \in Seq(Row) /\ Len(rows) = n /\ rows # <<>>
  <2> HIDE DEF Row, n
  <2>1. rows \in Seq(Row) /\ Len(rows) = n
      BY <1>2, <1>5, IsSeq
  <2> QED BY <1>2, <2>1, EmptySeq
<1>7. files \in [Pages -> Seq(Row)] /\ (\A q \in Pages : files[q] # <<>>) /\ files[p] = rows
      /\ \A q \in Pages \ {p} : files[q] = pageFile[q]
  <2> HIDE DEF Row
  <2> QED BY <1>1, <1>3, <1>6
<1>8. /\ t \in Seq(Row) /\ Len(t) = N
  <2> HIDE DEF Row
  <2> QED BY <1>1, <1>7, TableOfType
<1>9. /\ \A j \in 1 .. n : t[s + j] = rows[j] /\ u[s + j] = old[j]
      /\ \A i \in 1 .. N : i \notin s + 1 .. s + n => t[i] = u[i]
  <2>1. /\ \A q \in Pages : \A j \in 1 .. rowsPerBlockCount(q) : t[Start(q) + j] = RowIn(files, q, j)
        /\ u = TableOf(pageFile)
        /\ \A q \in Pages : \A j \in 1 .. rowsPerBlockCount(q) : u[Start(q) + j] = RowIn(pageFile, q, j)
      BY <1>1, TableOfIs, TableOfAre
  <2>2. ASSUME NEW j \in 1 .. n PROVE t[s + j] = rows[j] /\ u[s + j] = old[j]
    <3>1. RowIn(files, p, j) = rows[j]
      <4>1. j <= Len(files[p])
        <5> HIDE DEF n
        <5> QED BY <1>2, <1>6, <1>7
      <4> QED BY <1>7, <4>1 DEF RowIn
    <3>2. u[s + j] = ReadRow(p, j) /\ old[j] = ReadRow(p, j)
        BY <1>1, TableRowsAre
    <3> QED BY <1>1, <2>1, <3>1, <3>2
  <2>3. ASSUME NEW i \in 1 .. N, i \notin s + 1 .. s + n PROVE t[i] = u[i]
    <3>1. PICK q \in Pages : \E j \in 1 .. rowsPerBlockCount(q) : i = Start(q) + j
        BY <1>1, EveryPlace
    <3>2. PICK j \in 1 .. rowsPerBlockCount(q) : i = Start(q) + j
        BY <3>1
    <3>3. q # p
      <4>1. SUFFICES ASSUME q = p PROVE FALSE
          OBVIOUS
      <4>2. j \in 1 .. n /\ i = s + j
          BY <3>2, <4>1
      <4> HIDE DEF s, n
      <4> QED BY <1>2, <2>3, <4>2
    <3>4. RowIn(files, q, j) = RowIn(pageFile, q, j)
        BY <1>7, <3>3 DEF RowIn
    <3> QED BY <2>1, <3>2, <3>4
  <2> QED BY <2>2, <2>3
<1> HIDE DEF s, n, N, old, u, Row, p
<1>10. BagOf(t) = BagOf(u)
  <2>1. PICK f \in Bijection(1 .. n, 1 .. n) : \A i \in 1 .. n : rows[i] = old[f[i]]
      BY <1>1, <1>5, <1>6, MatchOfBags
  <2>2. /\ f \in [1 .. n -> 1 .. n] /\ (\A i, j \in 1 .. n : f[i] = f[j] => i = j)
        /\ \A j \in 1 .. n : \E i \in 1 .. n : f[i] = j
      BY <2>1 DEF Bijection, Injection, Surjection, IsInjective
  <2> DEFINE In(i) == i \in s + 1 .. s + n
             g == [i \in 1 .. N |-> IF In(i) THEN s + f[i - s] ELSE i]
  <2>3. \A i \in 1 .. N : In(i) => i - s \in 1 .. n /\ s + (i - s) = i
      BY <1>1, <1>2
  <2>4. \A j \in 1 .. n : s + j \in 1 .. N /\ In(s + j) /\ (s + j) - s = j
      BY <1>1, <1>2
  <2>5. \A i \in 1 .. N : In(i) => f[i - s] \in 1 .. n
      BY <2>2, <2>3
  <2> HIDE DEF In
  <2>6. \A i \in 1 .. N : /\ g[i] = IF In(i) THEN s + f[i - s] ELSE i
                          /\ g[i] \in 1 .. N /\ (In(i) <=> In(g[i]))
                          /\ t[i] = u[g[i]]
    <3> SUFFICES ASSUME NEW i \in 1 .. N
                 PROVE  /\ g[i] = IF In(i) THEN s + f[i - s] ELSE i
                        /\ g[i] \in 1 .. N /\ (In(i) <=> In(g[i])) /\ t[i] = u[g[i]]
        OBVIOUS
    <3>1. g[i] = IF In(i) THEN s + f[i - s] ELSE i
        OBVIOUS
    <3> HIDE DEF g
    <3>2. CASE In(i)
      <4>1. i - s \in 1 .. n /\ s + (i - s) = i /\ f[i - s] \in 1 .. n
          BY <2>3, <2>5, <3>2
      <4> DEFINE j == i - s
      <4>2. j \in 1 .. n /\ s + j = i /\ f[j] \in 1 .. n /\ g[i] = s + f[j]
          BY <3>1, <3>2, <4>1
      <4> HIDE DEF j
      <4>3. t[s + j] = rows[j] /\ u[s + f[j]] = old[f[j]] /\ rows[j] = old[f[j]]
          BY <1>9, <2>1, <4>2
      <4>4. g[i] \in 1 .. N /\ In(g[i])
          BY <2>4, <4>2
      <4> QED BY <3>1, <3>2, <4>2, <4>3, <4>4
    <3>3. CASE ~In(i)
      <4>1. t[i] = u[i]
          BY <1>9, <3>3 DEF In
      <4> QED BY <3>1, <3>3, <4>1
    <3> QED BY <3>2, <3>3
  <2> HIDE DEF g
  <2>7. ASSUME NEW i \in 1 .. N, NEW j \in 1 .. N, g[i] = g[j] PROVE i = j
    <3>1. CASE In(i) /\ In(j)
      <4>1. f[i - s] = f[j - s]
        <5>1. s + f[i - s] = s + f[j - s] /\ f[i - s] \in 1 .. n /\ f[j - s] \in 1 .. n
            BY <2>5, <2>6, <2>7, <3>1
        <5> DEFINE a == f[i - s]
                   b == f[j - s]
        <5> HIDE DEF a, b
        <5>2. s + a = s + b /\ a \in 1 .. n /\ b \in 1 .. n
            BY <5>1 DEF a, b
        <5>3. a = b
            BY <1>2, <5>2
        <5> QED BY <5>3 DEF a, b
      <4>2. i - s = j - s
          BY <2>2, <2>3, <3>1, <4>1
      <4> QED BY <2>3, <3>1, <4>2
    <3>2. CASE ~In(i) /\ ~In(j)
        BY <2>6, <2>7, <3>2
    <3>3. In(i) <=> In(j)
        BY <2>6, <2>7
    <3> QED BY <3>1, <3>2, <3>3
  <2>8. ASSUME NEW j \in 1 .. N PROVE \E i \in 1 .. N : g[i] = j
    <3>1. CASE In(j)
      <4>1. j - s \in 1 .. n /\ s + (j - s) = j
          BY <2>3, <3>1
      <4>2. PICK i \in 1 .. n : f[i] = j - s
          BY <2>2, <4>1
      <4>3. g[s + i] = s + f[(s + i) - s] /\ (s + i) - s = i
          BY <2>4, <2>6
      <4>4. g[s + i] = j
          BY <4>1, <4>2, <4>3
      <4> QED BY <2>4, <4>4
    <3>2. CASE ~In(j)
        BY <2>6, <3>2
    <3> QED BY <3>1, <3>2
  <2>9. g \in Bijection(1 .. N, 1 .. N)
    <3>1. g \in [1 .. N -> 1 .. N]
      <4>1. DOMAIN g = 1 .. N /\ g = [i \in 1 .. N |-> g[i]]
          BY DEF g
      <4> QED BY <2>6, <4>1
    <3> QED BY <2>7, <2>8, <3>1 DEF Bijection, Injection, Surjection, IsInjective
  <2>10. g \in Bijection(1 .. Len(t), 1 .. Len(u)) /\ \A i \in 1 .. Len(t) : t[i] = u[g[i]]
      BY <1>1, <1>8, <2>6, <2>9
  <2> QED BY <1>1, <1>8, <2>10, MatchingBags
<1>11. ASSUME InRuns(u, 1, s) PROVE InRuns(t, 1, s + n)
  <2>1. SUFFICES ASSUME NEW i \in 1 .. (s + n) - 1 PROVE Boundary(i, 1) \/ ~Precedes(t[i + 1], t[i])
      BY DEF InRuns
  <2>2. CASE i < s
    <3>1. i \in 1 .. s - 1 /\ i \in 1 .. N /\ i + 1 \in 1 .. N /\ i \notin s + 1 .. s + n /\ i + 1 \notin s + 1 .. s + n
        BY <1>1, <1>2, <2>2
    <3>2. t[i] = u[i] /\ t[i + 1] = u[i + 1]
        BY <1>9, <3>1
    <3> QED BY <1>11, <3>1, <3>2 DEF InRuns
  <2>3. CASE i = s
    <3>1. p * 1 = p /\ p \in Nat
      <4>1. p \in Nat
          BY ShapeIs DEF p
      <4> QED BY <4>1
    <3>2. i = Start(p * 1)
        BY <2>3, <3>1 DEF s, p
    <3> QED BY <3>1, <3>2 DEF Boundary
  <2>4. CASE s < i
    <3> DEFINE j == i - s
    <3>1. j \in 1 .. n - 1 /\ j \in 1 .. n /\ j + 1 \in 1 .. n /\ s + j = i /\ s + (j + 1) = i + 1
        BY <1>2, <2>4
    <3> HIDE DEF j
    <3>2. t[i] = rows[j] /\ t[i + 1] = rows[j + 1]
        BY <1>9, <3>1
    <3>3. ~Precedes(rows[j + 1], rows[j])
        BY <1>5, <1>6, <3>1 DEF Sorted
    <3> QED BY <3>2, <3>3
  <2>5. i < s \/ i = s \/ s < i
      BY <1>2
  <2> QED BY <2>2, <2>3, <2>4, <2>5
<1> QED BY <1>2, <1>7, <1>10, <1>11 DEF u, s, p

LEMMA SortPageStep ==
    ASSUME SortInv, SortPage
    PROVE  SortInv'
<1>1. /\ pc = "sortPages" /\ loaded' = loaded /\ sortBy' = sortBy /\ mergeData' = mergeData /\ dummy' = dummy
      /\ overfilled' = overfilled /\ sorts' = sorts
    BY DEF SortPage
<1>2. PICK rows \in SortedOrders(ReadPage(pageIndex)) : pageFile' = [pageFile EXCEPT ![pageIndex] = rows]
    BY DEF SortPage
<1>3. \/ pageIndex + 1 < blockCount /\ pageIndex' = pageIndex + 1 /\ pc' = "sortPages" /\ size' = size
      \/ /\ ~(pageIndex + 1 < blockCount) /\ pageIndex' = 0 /\ size' = 1
         /\ pc' = IF 1 < blockCount THEN "open" ELSE "finish"
    BY <1>1 DEF SortPage, NextIteration
<1>4. Shape /\ Progress /\ Ordered
    BY DEF SortInv
<1>5. /\ loaded \in Tables /\ blockCount \in Nat \ {0} /\ pageIndex \in Nat /\ Len(loaded) \in Nat \ {0}
      /\ size \in Nat \ {0}
    BY <1>4, ShapeIs
<1>6. pageIndex < blockCount /\ mergeData = <<>> /\ dummy = <<>>
    BY <1>1, <1>4 DEF Progress
<1>7. Row' = Row /\ Pages' = Pages /\ blockCount' = blockCount
    BY <1>1, SameTable
<1>8. pageIndex \in Pages
  <2> HIDE DEF blockCount
  <2> QED BY <1>5, <1>6 DEF Pages
<1>9. TableRows' = TableOf(pageFile')
    BY <1>1, <1>5, TableOfIs
<1>10. /\ pageFile' \in [Pages -> Seq(Row)] /\ \A p \in Pages : pageFile'[p] # <<>>
       /\ BagOf(TableOf(pageFile')) = BagOf(TableRows)
       /\ InRuns(TableRows, 1, Start(pageIndex)) => InRuns(TableOf(pageFile'), 1, EndOf(pageIndex))
  <2>1. pc # "idle"
      BY <1>1
  <2> HIDE DEF Row, Pages, blockCount, TableRows
  <2> QED BY <1>2, <1>4, <1>6, <2>1, PageSorted
<1>11. pageIndex + 1 < blockCount => EndOf(pageIndex) = Start(pageIndex + 1)
    BY <1>5, <1>8, PageIs
<1>12. ~(pageIndex + 1 < blockCount) => EndOf(pageIndex) = Len(loaded)
  <2>1. ~(pageIndex + 1 < blockCount) => pageIndex + 1 = blockCount
    <3> HIDE DEF blockCount
    <3> QED BY <1>5, <1>6
  <2> QED BY <1>5, <1>8, <2>1, PageIs
<1> HIDE DEF Row, Pages, blockCount
<1>13. Shape'
  <2>1. pageIndex' \in 0 .. blockCount /\ size' \in Nat \ {0} /\ pc' \in {"sortPages", "open", "finish"}
      BY <1>3, <1>5
  <2> QED BY <1>1, <1>4, <1>7, <1>10, <2>1 DEF Shape
<1>14. Progress'
  <2>1. K' = K /\ K \in Nat
      BY Constants DEF K
  <2>2. pc' \in {"open", "merge"} => \E k \in Nat : pageIndex' = k * (K * size')
    <3> SUFFICES ASSUME pc' \in {"open", "merge"} PROVE \E k \in Nat : pageIndex' = k * (K * size')
        OBVIOUS
    <3>1. pageIndex' = 0 /\ size' = 1
        BY <1>3
    <3>2. 0 * (K * 1) = 0
        BY <2>1
    <3> QED BY <3>1, <3>2
  <2>3. pc' \in {"sortPages", "open", "merge"} => pageIndex' < blockCount
      BY <1>3, <1>5
  <2>4. pc' # "copy" /\ (pc' = "finish" => size' >= blockCount)
      BY <1>3, <1>5
  <2> QED BY <1>1, <1>6, <1>7, <2>1, <2>2, <2>3, <2>4 DEF Progress
<1>15. Cursors' /\ Keeps' /\ Aligned'
  <2>1. /\ loaded' \in Tables /\ pc' \notin {"merge", "copy"} /\ dummy' = <<>> /\ mergeData' = <<>>
        /\ (pc' = "open" => pageIndex' = 0)
      BY <1>1, <1>3, <1>5, <1>6
  <2> QED BY <2>1, IterationBegins
<1>16. Ordered'
  <2>1. SUFFICES ASSUME ~overfilled PROVE Ordered'
      BY <1>1 DEF Ordered
  <2>2. BagOf(TableRows) = BagOf(loaded) /\ InRuns(TableRows, 1, Start(pageIndex))
      BY <1>1, <1>4, <2>1 DEF Ordered
  <2>3. BagOf(TableRows') = BagOf(loaded') /\ InRuns(TableRows', 1, EndOf(pageIndex))
      BY <1>1, <1>9, <1>10, <2>2
  <2>4. (BagOf(TableRows) = BagOf(loaded))'
    <3> HIDE DEF TableRows
    <3> QED BY <2>3 DEF BagOf, ToSet
  <2> HIDE DEF TableRows, Moved, EndOf
  <2>5. \A rows2, n, e : InRuns(rows2, n, e)' <=> InRuns(rows2, n, e)
      BY <1>1 DEF InRuns, Boundary, Precedes, Start
  <2>6. CASE pageIndex + 1 < blockCount /\ pageIndex' = pageIndex + 1 /\ pc' = "sortPages" /\ size' = size
    <3>1. InRuns(TableRows', 1, Start(pageIndex'))
        BY <1>11, <2>3, <2>6
    <3>2. InRuns(TableRows, 1, Start(pageIndex))'
        BY <1>1, <3>1 DEF InRuns, Boundary, Precedes, Start
    <3> QED BY <2>4, <2>6, <3>2 DEF Ordered
  <2>7. CASE /\ ~(pageIndex + 1 < blockCount) /\ pageIndex' = 0 /\ size' = 1
             /\ pc' = IF 1 < blockCount THEN "open" ELSE "finish"
    <3>1. InRuns(TableRows', size', Len(loaded'))
        BY <1>1, <1>12, <2>3, <2>7
    <3>2. InRuns(TableRows, size, Len(loaded))'
        BY <1>1, <3>1 DEF InRuns, Boundary, Precedes, Start
    <3>3. Moved' = <<>>
      <4>1. dummy' = <<>> /\ mergeData' = <<>>
          BY <1>1, <1>6
      <4> QED BY <4>1, FlattenNothing DEF Moved, Written
    <3>4. InRuns(Moved, size * K, Len(Moved))'
        BY <3>3 DEF InRuns
    <3>5. pc' # "sortPages" /\ pc' # "merge"
        BY <2>7
    <3> QED BY <2>4, <3>2, <3>4, <3>5 DEF Ordered
  <2> QED BY <1>3, <2>6, <2>7
<1> QED BY <1>13, <1>14, <1>15, <1>16 DEF SortInv

-----------------------------------------------------------------------------
(* A group is opened *)

LEMMA OpenGroupStep ==
    ASSUME SortInv, OpenGroup
    PROVE  SortInv'
<1>1. /\ pc = "open" /\ pc' = "merge" /\ loaded' = loaded /\ pageFile' = pageFile /\ sortBy' = sortBy
      /\ pageIndex' = pageIndex /\ size' = size /\ mergeData' = mergeData /\ dummy' = dummy
      /\ overfilled' = overfilled /\ sorts' = sorts
      /\ cursors' = [r \in Runs |-> [page |-> RunStart(r), row |-> 1, last |-> RunEnd(RunStart(r))]]
      /\ pq' = [r \in Runs |-> ReadPage(RunStart(r))[1]]
    BY DEF OpenGroup, Runs, RunStart
<1>2. Shape /\ Progress /\ Cursors /\ Keeps /\ Aligned /\ Ordered
    BY DEF SortInv
<1>3. /\ loaded \in Tables /\ blockCount \in Nat \ {0} /\ pageIndex \in Nat /\ Len(loaded) \in Nat \ {0}
      /\ size \in Nat \ {0} /\ pageIndex < blockCount
    BY <1>1, <1>2, ShapeIs DEF Progress
<1>4. /\ Row' = Row /\ Pages' = Pages /\ blockCount' = blockCount
      /\ TableRows' = TableRows /\ Runs' = Runs
    BY <1>1, <1>3, SameTable, SameRows, SameGroup
<1>5. /\ \A r \in Runs : /\ RunStart(r) \in Pages /\ RunEnd(RunStart(r)) \in Pages
                         /\ RunStart(r) <= RunEnd(RunStart(r))
      /\ GroupEnd \in Nat /\ pageIndex < GroupEnd
    BY <1>3, RunsAre
<1>6. Shape' /\ Progress'
  <2> HIDE DEF Row, Pages, blockCount
  <2>1. Shape'
      BY <1>1, <1>2, <1>4 DEF Shape
  <2>2. Progress'
    <3>1. mergeData' = <<>> /\ \E k \in Nat : pageIndex' = k * (K * size')
        BY <1>1, <1>2 DEF Progress
    <3> QED BY <1>1, <1>3, <1>4, <3>1 DEF Progress, K
  <2> QED BY <2>1, <2>2
<1>7. ASSUME NEW r \in Runs
      PROVE  /\ InRun(cursors'[r], r) /\ pq'[r] = TableRows[Place(cursors'[r])]
             /\ LeftOf(cursors'[r]) = Region(r)
  <2> DEFINE c == [page |-> RunStart(r), row |-> 1, last |-> RunEnd(RunStart(r))]
  <2>1. cursors'[r] = c /\ c.page = RunStart(r) /\ c.row = 1 /\ c.last = RunEnd(RunStart(r))
        /\ pq'[r] = ReadPage(RunStart(r))[1]
      BY <1>1
  <2>2. /\ RunStart(r) \in Pages /\ RunEnd(RunStart(r)) \in Pages /\ RunStart(r) <= RunEnd(RunStart(r))
        /\ RunStart(r) \in Nat /\ RunEnd(RunStart(r)) \in Nat
        /\ 1 \in 1 .. rowsPerBlockCount(RunStart(r))
    <3>1. \A p \in Pages : p \in Nat /\ rowsPerBlockCount(p) \in 1 .. maxRowsPerBlock
        BY <1>3, PageIs
    <3>2. 1 \in 1 .. rowsPerBlockCount(RunStart(r))
      <4>1. rowsPerBlockCount(RunStart(r)) \in 1 .. maxRowsPerBlock
          BY <1>5, <3>1
      <4> HIDE DEF rowsPerBlockCount
      <4> QED BY <4>1, Constants
    <3> QED BY <1>5, <3>1, <3>2
  <2>3. c \in [page : Nat, row : Nat, last : Nat]
      BY <2>2
  <2> HIDE DEF c, RunStart, RunEnd, rowsPerBlockCount, Pages
  <2>4. InRun(c, r)
    <3>1. RunStart(r) \in RunStart(r) .. RunEnd(RunStart(r))
        BY <2>2
    <3> QED BY <2>1, <2>2, <2>3, <3>1 DEF InRun
  <2>5. ReadPage(RunStart(r))[1] = TableRows[Place(c)]
    <3>1. Place(c) = Start(RunStart(r)) + 1
        BY <2>1 DEF Place
    <3> HIDE DEF ReadPage, TableRows, Start, Place
    <3> QED BY <1>3, <2>2, <3>1, TableRowsAre
  <2>6. LeftOf(c) = Region(r)
      BY <2>1 DEF LeftOf, Place, Region
  <2> QED BY <2>1, <2>4, <2>5, <2>6
<1>8. DOMAIN pq' = Runs /\ DOMAIN cursors' = Runs
    BY <1>1
<1>9. Cursors'
  <2>1. ASSUME NEW r \in Runs PROVE InRun(cursors[r], r)' /\ pq'[r] = TableRows'[Place(cursors'[r])]
    <3>1. InRun(cursors'[r], r) <=> InRun(cursors[r], r)'
        BY <1>1 DEF InRun, RunEnd, RunStart, rowsPerBlockCount, blockCount
    <3> QED BY <1>4, <1>7, <3>1
  <2> QED BY <1>4, <1>8, <2>1 DEF Cursors, Place, Start
<1>10. Pending' = Pending
  <2>1. Pending = Start(pageIndex) + 1 .. Len(loaded)
      BY <1>1, <1>2, PendingIs
  <2>2. Pending' = (UNION {LeftOf(cursors'[r]) : r \in Runs}) \cup (Start(GroupEnd) + 1 .. Len(loaded))
    <3>1. GroupEnd' = GroupEnd
        BY <1>1, SameGroup
    <3>2. Queued' = Runs /\ AfterGroup' = GroupEnd
        BY <1>1, <1>8, <3>1 DEF Queued, AfterGroup
    <3>3. Pending' = (UNION {LeftOf(cursors[r])' : r \in Runs}) \cup (Start(GroupEnd) + 1 .. Len(loaded'))
      <4>1. Pending' = (UNION {LeftOf(cursors[r]) : r \in Queued})' \cup (Start(AfterGroup') + 1 .. Len(loaded'))
          BY DEF Pending, Start
      <4> QED BY <3>2, <4>1 DEF LeftOf
    <3> QED BY <1>1, <3>3 DEF LeftOf, EndOf
  <2>3. {LeftOf(cursors'[r]) : r \in Runs} = {Region(r) : r \in Runs}
    <3> HIDE DEF LeftOf, Region, Runs
    <3> QED BY <1>7
  <2>4. /\ \A r \in Runs : Region(r) \subseteq Start(pageIndex) + 1 .. Len(loaded)
        /\ \A i \in Start(pageIndex) + 1 .. Len(loaded) : i <= Start(GroupEnd) => \E r \in Runs : i \in Region(r)
      BY <1>3, RegionsAre
  <2>5. Start(pageIndex) \in Nat /\ Start(GroupEnd) \in Nat /\ Start(pageIndex) <= Start(GroupEnd)
    <3> HIDE DEF GroupEnd, Start
    <3>1. pageIndex <= GroupEnd
        BY <1>3, <1>5
    <3> QED BY <1>3, <1>5, <3>1, StartIs
  <2> HIDE DEF Start, GroupEnd, Region, Runs, Pending
  <2>6. \A i \in Start(pageIndex) + 1 .. Len(loaded) : i <= Start(GroupEnd) \/ i \in Start(GroupEnd) + 1 .. Len(loaded)
      BY <1>3, <2>5
  <2>7. Start(GroupEnd) + 1 .. Len(loaded) \subseteq Start(pageIndex) + 1 .. Len(loaded)
      BY <1>3, <2>5
  <2>8. Pending' = (UNION {Region(r) : r \in Runs}) \cup (Start(GroupEnd) + 1 .. Len(loaded))
      BY <2>2, <2>3
  <2> QED BY <2>1, <2>4, <2>6, <2>7, <2>8
<1>11. /\ Written' = Written /\ Moved' = Moved /\ mergeData = <<>>
       /\ Len(Moved) = Start(pageIndex) /\ Moved = Written /\ Start(pageIndex) \in Nat
  <2>1. Written' = Written /\ Moved' = Moved
      BY <1>1 DEF Written, Moved
  <2>2. mergeData = <<>>
      BY <1>1, <1>2 DEF Progress
  <2>3. Written \in Seq(Row)
      BY <1>2, ShapeIs
  <2>4. Moved = Written
    <3> HIDE DEF Written, Row
    <3> QED BY <2>2, <2>3, ConcatEmptySeq DEF Moved
  <2>5. Len(Moved) = Start(pageIndex) /\ Start(pageIndex) \in Nat
      BY <1>1, <1>2, MovedIs
  <2> QED BY <2>1, <2>2, <2>4, <2>5
<1>12. Len(dummy) \in Nat /\ Len(dummy) <= pageIndex /\ Start(Len(dummy)) <= Start(pageIndex) /\ Start(Len(dummy)) \in Nat
  <2>1. Len(dummy) \in Nat /\ Len(dummy) <= pageIndex
      BY <1>1, <1>2, ShapeIs DEF Keeps
  <2> QED BY <1>3, <2>1, StartIs
<1>13. Keeps'
  <2>1. Lists(TableRows, Moved, 1 .. Len(loaded) \ Pending)
      BY <1>1, <1>2 DEF Keeps
  <2> HIDE DEF TableRows, Pending, Moved
  <2>2. Lists(TableRows, Moved, 1 .. Len(loaded) \ Pending)'
      BY <1>1, <1>4, <1>10, <1>11, <2>1 DEF Lists
  <2>3. Start(Len(dummy)) + Len(mergeData) <= Len(Moved)
    <3>1. Len(mergeData) = 0
        BY <1>11
    <3> HIDE DEF Start
    <3> QED BY <1>11, <1>12, <3>1
  <2> QED BY <1>1, <1>11, <2>2, <2>3 DEF Keeps, Start
<1>14. Aligned'
  <2>1. SUFFICES ASSUME Fits' PROVE Chunks(dummy, Written)' /\ Len(Written') = Start(Len(dummy'))
      BY <1>1 DEF Aligned, Start
  <2>2. Fits
      BY <1>1, <2>1 DEF Fits
  <2>3. Chunks(dummy, Written)
      BY <1>1, <1>2, <2>2 DEF Aligned
  <2>4. Chunks(dummy, Written)'
    <3> HIDE DEF Written
    <3> QED BY <1>1, <1>11, <2>3 DEF Chunks, Start, LowerOf
  <2>5. Len(dummy) = pageIndex
    <3>1. SUFFICES ASSUME Len(dummy) < pageIndex PROVE FALSE
        BY <1>3, <1>12
    <3>2. Start(Len(dummy)) + maxRowsPerBlock <= Start(pageIndex)
        BY <1>3, <1>12, <3>1, StartIs
    <3>3. Len(Written) <= Start(Len(dummy)) /\ Len(Written) = Start(pageIndex)
        BY <1>11, <2>3 DEF Chunks
    <3> HIDE DEF Start, Written
    <3> QED BY <1>11, <1>12, <3>2, <3>3, Constants
  <2>6. Len(Written') = Start(Len(dummy'))
      BY <1>1, <1>11, <2>5
  <2> QED BY <2>4, <2>6
<1>15. Ordered'
  <2>1. SUFFICES ASSUME ~overfilled PROVE Ordered'
      BY <1>1 DEF Ordered
  <2>2. /\ BagOf(TableRows) = BagOf(loaded) /\ InRuns(TableRows, size, Len(loaded))
        /\ InRuns(Moved, size * K, Len(Moved))
      BY <1>1, <1>2, <2>1 DEF Ordered
  <2> HIDE DEF TableRows, Moved
  <2>3. (BagOf(TableRows) = BagOf(loaded))'
    <3>1. BagOf(TableRows)' = BagOf(TableRows) /\ BagOf(loaded)' = BagOf(loaded)
        BY <1>1, <1>4 DEF BagOf, ToSet
    <3> QED BY <2>2, <3>1
  <2>4. InRuns(TableRows, size, Len(loaded))' /\ InRuns(Moved, size * K, Len(Moved))'
      BY <1>1, <1>4, <1>11, <2>2 DEF InRuns, Boundary, Precedes, Start, K
  <2>5. Start(pageIndex') + 1 .. Len(Moved') = {}
    <3> HIDE DEF Start
    <3> QED BY <1>1, <1>11
  <2>6. (\A i \in Start(pageIndex) + 1 .. Len(Moved), r \in DOMAIN pq : ~Precedes(pq[r], Moved[i]))'
      BY <2>5 DEF Start
  <2> QED BY <1>1, <2>3, <2>4, <2>6 DEF Ordered
<1> QED BY <1>6, <1>9, <1>13, <1>14, <1>15 DEF SortInv

-----------------------------------------------------------------------------
(* A group ends *)

LEMMA EndGroupStep ==
    ASSUME SortInv, EndGroup
    PROVE  SortInv'
<1>1. /\ pc = "merge" /\ DOMAIN pq = {} /\ loaded' = loaded /\ pageFile' = pageFile /\ sortBy' = sortBy
      /\ pageIndex' = GroupEnd /\ size' = size /\ mergeData' = <<>>
      /\ dummy' = (IF mergeData = <<>> THEN dummy ELSE Append(dummy, mergeData))
      /\ pc' = (IF GroupEnd < blockCount THEN "open" ELSE "copy")
      /\ overfilled' = overfilled /\ sorts' = sorts
    BY DEF EndGroup
<1>2. Shape /\ Progress /\ Cursors /\ Keeps /\ Aligned /\ Ordered
    BY DEF SortInv
<1>3. /\ loaded \in Tables /\ blockCount \in Nat \ {0} /\ pageIndex \in Nat /\ Len(loaded) \in Nat \ {0}
      /\ size \in Nat \ {0} /\ pageIndex < blockCount /\ Len(dummy) \in Nat /\ Len(mergeData) \in Nat
      /\ Written \in Seq(Row) /\ mergeData \in Seq(Row)
    BY <1>1, <1>2, ShapeIs DEF Progress, Shape
<1>4. /\ Row' = Row /\ Pages' = Pages /\ blockCount' = blockCount /\ TableRows' = TableRows
    BY <1>1, <1>3, SameTable, SameRows
<1>5. /\ GroupEnd \in Nat /\ pageIndex < GroupEnd /\ GroupEnd <= blockCount
      /\ (GroupEnd < blockCount => GroupEnd = pageIndex + K * size)
    BY <1>3, RunsAre
<1> DEFINE S == Seq(Row)
<1>6. dummy \in Seq(S) /\ mergeData \in S /\ \A d \in DOMAIN dummy : dummy[d] # <<>>
    BY <1>2 DEF Shape
<1>7. /\ dummy' \in Seq(S) /\ \A d \in DOMAIN dummy' : dummy'[d] # <<>>
      /\ Moved' = Moved /\ Written' = Moved
  <2> HIDE DEF S, Row
  <2>1. Written' \in Seq(Row) => Moved' = Written'
    <3>1. Moved' = Written' \o <<>>
        BY <1>1 DEF Moved
    <3> HIDE DEF Written
    <3> QED BY <3>1, ConcatEmptySeq
  <2>2. CASE mergeData = <<>>
    <3>1. Written' = Written
        BY <1>1, <2>2 DEF Written
    <3>2. Moved = Written
      <4> HIDE DEF Written
      <4> QED BY <1>3, <2>2, ConcatEmptySeq DEF Moved
    <3> QED BY <1>1, <1>3, <1>6, <2>1, <2>2, <3>1, <3>2
  <2>3. CASE mergeData # <<>>
    <3>1. dummy' = Append(dummy, mergeData)
        BY <1>1, <2>3
    <3>2. /\ Written' = Written \o mergeData /\ Written' \in Seq(Row)
          /\ dummy' \in Seq(Seq(Row)) /\ Len(dummy') = Len(dummy) + 1
          /\ \A d \in 1 .. Len(dummy) : dummy'[d] = dummy[d]
          /\ dummy'[Len(dummy) + 1] = mergeData
        BY <1>2, <1>3, <3>1, WrittenAppend
    <3>3. Written' = Moved
        BY <3>2 DEF Moved
    <3>4. \A d \in DOMAIN dummy' : dummy'[d] # <<>>
      <4>1. dummy' \in Seq(S)
          BY <3>2 DEF S
      <4>2. DOMAIN dummy = 1 .. Len(dummy) /\ DOMAIN dummy' = 1 .. Len(dummy) + 1
          BY <1>6, <3>2, <4>1, LenProperties
      <4>3. \A d \in 1 .. Len(dummy) + 1 : d \in 1 .. Len(dummy) \/ d = Len(dummy) + 1
          BY <1>3
      <4> QED BY <1>6, <2>3, <3>2, <4>2, <4>3
    <3> QED BY <2>1, <3>2, <3>3, <3>4 DEF S
  <2> QED BY <2>2, <2>3
<1> HIDE DEF Row, Pages, blockCount, GroupEnd
<1>8. Shape'
  <2>1. pageIndex' \in 0 .. blockCount /\ pc' \in {"open", "copy"}
      BY <1>1, <1>3, <1>5
  <2>2. <<>> \in Seq(Row)
      OBVIOUS
  <2>3. sortBy \in SortSpecs
      BY <1>1, <1>2 DEF Shape
  <2> QED BY <1>1, <1>2, <1>4, <1>7, <2>1, <2>2, <2>3 DEF Shape, S
<1>9. Progress'
  <2>1. pc' = "open" => pageIndex' < blockCount
      BY <1>1
  <2>2. pc' = "copy" => pageIndex' = blockCount
      BY <1>1, <1>3, <1>5
  <2>3. pc' = "open" => \E k \in Nat : pageIndex' = k * (K * size')
    <3> SUFFICES ASSUME pc' = "open" PROVE \E k \in Nat : pageIndex' = k * (K * size')
        OBVIOUS
    <3>1. PICK k \in Nat : pageIndex = k * (K * size)
        BY <1>1, <1>2 DEF Progress
    <3>2. GroupEnd = pageIndex + K * size
        BY <1>1, <1>5
    <3>3. K * size \in Nat \ {0}
        BY <1>3, RunsAre
    <3> DEFINE n == K * size
    <3> HIDE DEF n
    <3>4. (k + 1) * n = k * n + n /\ k + 1 \in Nat
        BY <3>3, Product DEF n
    <3>5. pageIndex' = (k + 1) * (K * size')
        BY <1>1, <3>1, <3>2, <3>4 DEF n
    <3> QED BY <3>4, <3>5
  <2>4. pc' \in {"open", "copy"}
      BY <1>1
  <2> QED BY <1>1, <1>4, <2>1, <2>2, <2>3, <2>4 DEF Progress, K
<1>10. Cursors'
  <2>1. pc' # "merge"
      BY <1>1
  <2> QED BY <2>1 DEF Cursors
<1>11. Pending' = Pending
  <2>1. Pending = Start(GroupEnd) + 1 .. Len(loaded)
    <3>1. Pending = (UNION {LeftOf(cursors[r]) : r \in DOMAIN pq}) \cup (Start(GroupEnd) + 1 .. Len(loaded))
        BY <1>1, <1>2, PendingIs
    <3> QED BY <1>1, <3>1
  <2>2. Queued' = {} /\ AfterGroup' = GroupEnd
      BY <1>1 DEF Queued, AfterGroup
  <2>3. Pending' = (UNION {LeftOf(cursors[r])' : r \in {}}) \cup (Start(GroupEnd) + 1 .. Len(loaded'))
      BY <2>2 DEF Pending, Start
  <2> QED BY <1>1, <2>1, <2>3
<1>12. Keeps'
  <2>1. Lists(TableRows, Moved, 1 .. Len(loaded) \ Pending) /\ Start(Len(dummy)) + Len(mergeData) <= Len(Moved)
      BY <1>1, <1>2 DEF Keeps
  <2>2. Len(Moved) <= Start(GroupEnd) /\ Len(Moved) \in Nat
      BY <1>1, <1>2, MovedIs
  <2>3. Start(Len(dummy)) \in Nat /\ Start(GroupEnd) \in Nat
      BY <1>3, <1>5, StartIs
  <2>4. Len(dummy') <= GroupEnd
    <3>1. CASE mergeData = <<>>
      <4>1. SUFFICES ASSUME GroupEnd < Len(dummy) PROVE FALSE
          BY <1>1, <1>3, <1>5, <3>1
      <4>2. Start(GroupEnd) + maxRowsPerBlock <= Start(Len(dummy))
          BY <1>3, <1>5, <4>1, StartIs
      <4> HIDE DEF Start, Moved
      <4> QED BY <1>3, <2>1, <2>2, <2>3, <4>2, Constants
    <3>2. CASE mergeData # <<>>
      <4>1. Len(dummy') = Len(dummy) + 1 /\ Len(mergeData) > 0
        <5>1. dummy' = Append(dummy, mergeData)
            BY <1>1, <3>2
        <5>2. Len(mergeData) > 0
            BY <1>3, <3>2, EmptySeq
        <5> QED BY <1>2, <1>3, <5>1, <5>2, WrittenAppend
      <4>2. SUFFICES ASSUME GroupEnd <= Len(dummy) PROVE FALSE
          BY <1>3, <1>5, <4>1
      <4>3. Start(GroupEnd) <= Start(Len(dummy))
          BY <1>3, <1>5, <4>2, StartIs
      <4> HIDE DEF Start, Moved
      <4> QED BY <1>3, <2>1, <2>2, <2>3, <4>1, <4>3
    <3> QED BY <3>1, <3>2
  <2> HIDE DEF TableRows, Pending, Moved
  <2>5. Lists(TableRows, Moved, 1 .. Len(loaded) \ Pending)'
      BY <1>1, <1>4, <1>7, <1>11, <2>1 DEF Lists
  <2>6. pc' # "merge"
      BY <1>1
  <2> QED BY <1>1, <2>4, <2>5, <2>6 DEF Keeps
<1>13. Aligned'
  <2>1. pc' # "merge"
      BY <1>1
  <2>2. SUFFICES ASSUME Fits' PROVE Chunks(dummy, Written)'
      BY <2>1 DEF Aligned
  <2>3. CASE mergeData = <<>>
    <3>1. dummy' = dummy
        BY <1>1, <2>3
    <3>2. Chunks(dummy, Written)
      <4>1. Fits
          BY <2>2, <3>1 DEF Fits
      <4> QED BY <1>1, <1>2, <4>1 DEF Aligned
    <3> QED BY <3>1, <3>2 DEF Chunks, Start, LowerOf, Written
  <2>4. CASE mergeData # <<>>
    <3>1. dummy' = Append(dummy, mergeData)
        BY <1>1, <2>4
    <3>2. Fits /\ Len(mergeData) <= maxRowsPerBlock
        BY <1>2, <1>3, <2>2, <3>1, FitsAppend
    <3>3. Chunks(dummy, Written) /\ Len(Written) = Start(Len(dummy))
        BY <1>1, <1>2, <3>2 DEF Aligned
    <3>4. Written' = Written \o mergeData
        BY <1>2, <1>3, <3>1, WrittenAppend
    <3> HIDE DEF Written, S
    <3>5. dummy \in Seq(Seq(Row))
        BY <1>6 DEF S
    <3>6. Chunks(Append(dummy, mergeData), Written \o mergeData)
        BY <1>3, <2>4, <3>2, <3>3, <3>5, ChunksAppend
    <3>7. Chunks(dummy', Written')
        BY <3>1, <3>4, <3>6
    <3> QED BY <3>7 DEF Chunks, Start, LowerOf
  <2> QED BY <2>3, <2>4
<1>14. Ordered'
  <2>1. SUFFICES ASSUME ~overfilled PROVE Ordered'
      BY <1>1 DEF Ordered
  <2>2. /\ BagOf(TableRows) = BagOf(loaded) /\ InRuns(TableRows, size, Len(loaded))
        /\ InRuns(Moved, size * K, Len(Moved))
      BY <1>1, <1>2, <2>1 DEF Ordered
  <2> HIDE DEF TableRows, Moved
  <2>3. (BagOf(TableRows) = BagOf(loaded))'
    <3>1. BagOf(TableRows)' = BagOf(TableRows) /\ BagOf(loaded)' = BagOf(loaded)
        BY <1>1, <1>4 DEF BagOf, ToSet
    <3> QED BY <2>2, <3>1
  <2>4. InRuns(TableRows, size, Len(loaded))' /\ InRuns(Moved, size * K, Len(Moved))'
      BY <1>1, <1>4, <1>7, <2>2 DEF InRuns, Boundary, Precedes, Start, K
  <2>5. pc' # "sortPages" /\ pc' # "merge"
      BY <1>1
  <2> QED BY <2>3, <2>4, <2>5 DEF Ordered
<1> QED BY <1>8, <1>9, <1>10, <1>12, <1>13, <1>14 DEF SortInv

-----------------------------------------------------------------------------
(* The Dummy files become the pages *)

\* Dummy files that fit their pages make up the rows that were moved.
LEMMA CopiedIs ==
    ASSUME Shape, Progress, Cursors, Keeps, Aligned, pc = "copy", Fits,
           NEW files, \A p \in Pages : files[p] = IF p < Len(dummy) THEN dummy[p + 1] ELSE pageFile[p]
    PROVE  TableOf(files) = Moved
<1> DEFINE N == Len(loaded)
           t == TableOf(files)
           b == Len(dummy)
<1>1. loaded \in Tables /\ N \in Nat /\ b \in Nat /\ Written \in Seq(Row) /\ Moved \in Seq(Row)
      /\ blockCount \in Nat \ {0}
    BY ShapeIs
<1>2. mergeData = <<>> /\ pageIndex = blockCount
    BY DEF Progress
<1>3. Moved = Written /\ Len(Written) = N
  <2>1. Len(Moved) = N
      BY MovedIs
  <2> HIDE DEF Written, Row
  <2> QED BY <1>1, <1>2, <2>1, ConcatEmptySeq DEF Moved
<1>4. Chunks(dummy, Written)
    BY DEF Aligned
<1>5. b = blockCount
  <2>1. b <= blockCount
      BY <1>2 DEF Keeps
  <2>2. SUFFICES ASSUME b < blockCount PROVE FALSE
      BY <1>1, <2>1
  <2>3. b <= blockCount - 1 /\ blockCount - 1 \in Nat
    <3> HIDE DEF blockCount, b
    <3> QED BY <1>1, <2>2
  <2>4. Start(b) <= Start(blockCount - 1) /\ Start(b) \in Nat /\ Start(blockCount - 1) \in Nat
      BY <1>1, <2>3, StartIs
  <2>5. Start(blockCount - 1) < N
      BY <1>1, TableIs
  <2>6. N <= Start(b)
      BY <1>3, <1>4 DEF Chunks
  <2> HIDE DEF Start, N, b, blockCount
  <2> QED BY <1>1, <2>4, <2>5, <2>6
<1>6. DOMAIN t = 1 .. N /\ t = [i \in 1 .. N |-> t[i]]
    BY <1>1, TableOfAre DEF TableOf
<1>7. ASSUME NEW i \in 1 .. N PROVE t[i] = Written[i]
  <2>1. PICK p \in Pages : \E j \in 1 .. rowsPerBlockCount(p) : i = Start(p) + j
      BY <1>1, EveryPlace
  <2>2. PICK j \in 1 .. rowsPerBlockCount(p) : i = Start(p) + j
      BY <2>1
  <2>3. p \in Nat /\ p < blockCount /\ rowsPerBlockCount(p) \in Nat
      BY <1>1, PageIs, Constants
  <2>4. files[p] = dummy[p + 1] /\ p + 1 \in DOMAIN dummy
    <3>1. dummy \in Seq(Seq(Row))
        BY DEF Shape
    <3> DEFINE S == Seq(Row)
    <3>2. dummy \in Seq(S)
        BY <3>1
    <3> HIDE DEF S
    <3>3. DOMAIN dummy = 1 .. b
        BY <3>2, LenProperties
    <3> HIDE DEF b, blockCount, Pages
    <3>4. p < b /\ p + 1 \in 1 .. b
        BY <1>1, <1>5, <2>3
    <3> QED BY <3>3, <3>4 DEF b
  <2>5. /\ Len(dummy[p + 1]) = LowerOf(maxRowsPerBlock, N - Start((p + 1) - 1))
        /\ \A k \in DOMAIN dummy[p + 1] : dummy[p + 1][k] = Written[Start((p + 1) - 1) + k]
      BY <1>3, <1>4, <2>4 DEF Chunks
  <2>6. (p + 1) - 1 = p
      BY <2>3
  <2>7. Len(dummy[p + 1]) = rowsPerBlockCount(p)
      BY <2>5, <2>6 DEF rowsPerBlockCount, Start
  <2>8. j \in DOMAIN dummy[p + 1] /\ j <= Len(dummy[p + 1])
    <3>1. dummy[p + 1] \in Seq(Row)
      <4>1. dummy \in Seq(Seq(Row))
          BY DEF Shape
      <4> DEFINE S == Seq(Row)
      <4> HIDE DEF S
      <4>2. dummy \in Seq(S) /\ p + 1 \in 1 .. Len(dummy)
        <5>1. dummy \in Seq(S)
            BY <4>1 DEF S
        <5> QED BY <2>4, <5>1, LenProperties
      <4>3. dummy[p + 1] \in S
          BY <4>2, ElementOfSeq
      <4> QED BY <4>3 DEF S
    <3>2. DOMAIN dummy[p + 1] = 1 .. rowsPerBlockCount(p)
      <4> HIDE DEF Row
      <4> QED BY <2>7, <3>1, LenProperties
    <3> HIDE DEF rowsPerBlockCount
    <3> QED BY <2>3, <2>7, <3>2
  <2>9. t[i] = RowIn(files, p, j)
      BY <1>1, <2>2, TableOfAre
  <2>10. RowIn(files, p, j) = dummy[p + 1][j]
      BY <2>4, <2>8 DEF RowIn
  <2>11. dummy[p + 1][j] = Written[Start(p) + j]
      BY <2>5, <2>6, <2>8
  <2> QED BY <2>2, <2>9, <2>10, <2>11
<1>8. Written = [i \in 1 .. N |-> Written[i]]
  <2> HIDE DEF Written, Row, N
  <2> QED BY <1>1, <1>3, LenProperties
<1> HIDE DEF t, Written, Moved
<1>9. t = Written
    BY <1>6, <1>7, <1>8
<1> QED BY <1>3, <1>9 DEF t

LEMMA CopyBackStep ==
    ASSUME SortInv, CopyBack
    PROVE  SortInv'
<1>1. /\ pc = "copy" /\ loaded' = loaded /\ sortBy' = sortBy /\ mergeData' = mergeData /\ sorts' = sorts
      /\ pageFile' = [p \in Pages \cup 0 .. Len(dummy) - 1 |-> IF p < Len(dummy) THEN dummy[p + 1] ELSE pageFile[p]]
      /\ overfilled' = (overfilled \/ \E i \in DOMAIN dummy : Len(dummy[i]) > maxRowsPerBlock)
      /\ dummy' = <<>> /\ size' = size * K /\ pageIndex' = 0
      /\ pc' = IF size * K < blockCount THEN "open" ELSE "finish"
    BY DEF CopyBack, NextIteration
<1>2. Shape /\ Progress /\ Cursors /\ Keeps /\ Aligned /\ Ordered
    BY DEF SortInv
<1>3. /\ loaded \in Tables /\ blockCount \in Nat \ {0} /\ Len(loaded) \in Nat \ {0} /\ size \in Nat \ {0}
      /\ Len(dummy) \in Nat /\ TableRows \in Seq(Row) /\ Len(TableRows) = Len(loaded)
      /\ Moved \in Seq(Row)
    BY <1>1, <1>2, ShapeIs
<1>4. mergeData = <<>> /\ pageIndex = blockCount /\ Len(dummy) <= blockCount
    BY <1>1, <1>2 DEF Progress, Keeps
<1>5. Row' = Row /\ Pages' = Pages /\ blockCount' = blockCount
    BY <1>1, SameTable
<1>6. pageFile' = [p \in Pages |-> IF p < Len(dummy) THEN dummy[p + 1] ELSE pageFile[p]]
  <2>1. Pages \cup 0 .. Len(dummy) - 1 = Pages
    <3> HIDE DEF blockCount
    <3> QED BY <1>3, <1>4 DEF Pages
  <2> QED BY <1>1, <2>1
<1>7. size * K \in Nat \ {0}
    BY <1>3, Constants
<1> DEFINE S == Seq(Row)
<1>8. pageFile' \in [Pages -> Seq(Row)] /\ \A p \in Pages : pageFile'[p] # <<>>
  <2>1. /\ dummy \in Seq(S) /\ (\A d \in DOMAIN dummy : dummy[d] # <<>>)
        /\ pageFile \in [Pages -> S] /\ \A p \in Pages : pageFile[p] # <<>>
      BY <1>2 DEF Shape
  <2>2. \A p \in Pages : p \in Nat
    <3> HIDE DEF blockCount
    <3> QED BY <1>3 DEF Pages
  <2> HIDE DEF S, Pages
  <2>3. ASSUME NEW p \in Pages, p < Len(dummy) PROVE dummy[p + 1] \in S /\ dummy[p + 1] # <<>>
    <3>1. p + 1 \in 1 .. Len(dummy)
        BY <1>3, <2>2, <2>3
    <3> QED BY <2>1, <3>1, LenProperties, ElementOfSeq
  <2>4. pageFile' \in [Pages -> S] /\ \A p \in Pages : pageFile'[p] # <<>>
      BY <1>6, <2>1, <2>3
  <2> QED BY <2>4 DEF S
<1> HIDE DEF Row, Pages, blockCount, S
<1>9. Shape'
  <2>1. 0 \in 0 .. blockCount /\ pc' \in {"open", "finish"} /\ overfilled' \in BOOLEAN
    <3>1. overfilled \in BOOLEAN
        BY <1>2 DEF Shape
    <3> QED BY <1>1, <1>3, <3>1
  <2>2. <<>> \in Seq(Seq(Row)) /\ <<>> \in Seq(Row) /\ DOMAIN <<>> = {}
      OBVIOUS
  <2>3. sortBy \in SortSpecs
      BY <1>1, <1>2 DEF Shape
  <2> QED BY <1>1, <1>2, <1>4, <1>5, <1>7, <1>8, <2>1, <2>2, <2>3 DEF Shape
<1>10. Progress'
  <2>1. pc' \in {"open", "finish"} /\ (pc' = "open" => 0 < blockCount) /\ (pc' = "finish" => size * K >= blockCount)
      BY <1>1, <1>3, <1>7
  <2>2. 0 = 0 * (K * (size * K))
    <3>1. K * (size * K) \in Nat
        BY <1>7, Constants
    <3> QED BY <3>1
  <2>3. \E k \in Nat : pageIndex' = k * (K * size')
      BY <1>1, <2>2
  <2> QED BY <1>1, <1>4, <1>5, <2>1, <2>3 DEF Progress, K
<1>11. Cursors' /\ Keeps' /\ Aligned'
  <2>1. /\ loaded' \in Tables /\ pc' \notin {"merge", "copy"} /\ dummy' = <<>> /\ mergeData' = <<>>
        /\ (pc' = "open" => pageIndex' = 0)
      BY <1>1, <1>3, <1>4
  <2> QED BY <2>1, IterationBegins
<1>12. Ordered'
  <2>1. SUFFICES ASSUME ~overfilled' PROVE Ordered'
      BY DEF Ordered
  <2>2. ~overfilled /\ Fits
    <3>1. dummy \in Seq(Seq(Row))
        BY <1>2 DEF Shape
    <3> DEFINE T == Seq(Row)
    <3>2. ASSUME NEW d \in DOMAIN dummy PROVE Len(dummy[d]) \in Nat
      <4>1. dummy \in Seq(T)
          BY <3>1
      <4> HIDE DEF T
      <4>2. dummy[d] \in T
          BY <4>1, LenProperties, ElementOfSeq
      <4> QED BY <4>2, LenProperties DEF T
    <3>3. \A d \in DOMAIN dummy : ~(Len(dummy[d]) > maxRowsPerBlock)
        BY <1>1, <2>1
    <3>4. Fits
        BY <3>2, <3>3, Constants DEF Fits
    <3> QED BY <1>1, <2>1, <3>4
  <2>3. BagOf(TableRows) = BagOf(loaded) /\ InRuns(Moved, size * K, Len(Moved))
      BY <1>1, <1>2, <2>2 DEF Ordered
  <2>4. Lists(TableRows, Moved, 1 .. Len(loaded)) /\ Len(Moved) = Len(loaded)
    <3>1. Lists(TableRows, Moved, 1 .. Len(loaded) \ Pending)
        BY <1>1, <1>2 DEF Keeps
    <3>2. Pending = {} /\ Len(Moved) = Len(loaded)
        BY <1>1, <1>2, MovedIs
    <3>3. 1 .. Len(loaded) \ {} = 1 .. Len(loaded)
        OBVIOUS
    <3> QED BY <3>1, <3>2, <3>3
  <2>5. TableRows' = Moved
    <3>1. TableRows' = TableOf(pageFile')
        BY <1>1, <1>3, TableOfIs
    <3>2. \A p \in Pages : pageFile'[p] = IF p < Len(dummy) THEN dummy[p + 1] ELSE pageFile[p]
        BY <1>6
    <3>3. TableOf(pageFile') = Moved
        BY <1>1, <1>2, <2>2, <3>2, CopiedIs
    <3> QED BY <3>1, <3>3
  <2>6. BagOf(Moved) = BagOf(TableRows)
    <3> HIDE DEF TableRows, Moved
    <3> QED BY <1>3, <2>4, ListsAll
  <2> HIDE DEF TableRows, Moved
  <2>7. (BagOf(TableRows) = BagOf(loaded))'
    <3>1. BagOf(TableRows') = BagOf(loaded')
        BY <1>1, <2>3, <2>5, <2>6
    <3> QED BY <3>1 DEF BagOf, ToSet
  <2>8. InRuns(TableRows, size, Len(loaded))'
    <3>1. \A i : Boundary(i, size)' <=> Boundary(i, size * K)
        BY <1>1 DEF Boundary, Start
    <3>2. \A i : Precedes(TableRows[i + 1], TableRows[i])' <=> Precedes(Moved[i + 1], Moved[i])
        BY <1>1, <2>5 DEF Precedes
    <3> HIDE DEF Boundary, Precedes
    <3> QED BY <1>1, <2>3, <2>4, <3>1, <3>2 DEF InRuns
  <2>9. InRuns(Moved, size * K, Len(Moved))'
    <3>1. Moved' = <<>>
      <4>1. dummy' = <<>> /\ mergeData' = <<>>
          BY <1>1, <1>4
      <4> QED BY <4>1, FlattenNothing DEF Moved, Written
    <3> QED BY <3>1 DEF InRuns
  <2>10. pc' # "sortPages" /\ pc' # "merge"
      BY <1>1
  <2> QED BY <2>7, <2>8, <2>9, <2>10 DEF Ordered
<1> QED BY <1>9, <1>10, <1>11, <1>12 DEF SortInv

LEMMA SortStep == SortInv /\ [Next]_vars => SortInv'
<1> SUFFICES ASSUME SortInv, [Next]_vars PROVE SortInv'
    OBVIOUS
<1>1. CASE \E spec \in SortSpecs : SORT(spec)
    BY <1>1, SORTStep
<1>2. CASE SortPage
    BY <1>2, SortPageStep
<1>3. CASE OpenGroup
    BY <1>3, OpenGroupStep
<1>4. CASE \E r \in DOMAIN pq : MergeRow(r)
    BY <1>4, RowStep
<1>5. CASE \E r \in DOMAIN pq : MergeLastRow(r)
    BY <1>5, RowStep
<1>6. CASE EndGroup
    BY <1>6, EndGroupStep
<1>7. CASE CopyBack
    BY <1>7, CopyBackStep
<1>8. CASE Finish
    BY <1>8, FinishStep
<1>9. CASE UNCHANGED vars
    BY <1>9, StutterStep
<1> QED BY <1>1, <1>2, <1>3, <1>4, <1>5, <1>6, <1>7, <1>8, <1>9 DEF Next, Working

\* The inductive invariant holds in every state the sort can reach.
THEOREM SortInvariant == Spec => []SortInv
<1>1. Init => SortInv
    BY InitSort
<1>2. SortInv /\ [Next]_vars => SortInv'
    BY SortStep
<1> QED BY <1>1, <1>2, PTL DEF Spec

-----------------------------------------------------------------------------
(* The rows that are still to be read *)

\* What a cursor passes from page p to page q; nothing when p is the page after q.
LEMMA RowsListed ==
    ASSUME Shape, pc # "idle", NEW p \in Nat, NEW q \in Pages, p <= q + 1
    PROVE  /\ RowsFrom(p, q) \in Seq(Row)
           /\ Lists(TableRows, RowsFrom(p, q), Start(p) + 1 .. EndOf(q))
<1> DEFINE s == RowsFrom(p, q)
           a == Start(p)
           n == EndOf(q) - Start(p)
<1>1. /\ loaded \in Tables /\ q \in Nat /\ q < blockCount /\ EndOf(q) \in 1 .. Len(loaded) /\ a \in Nat
      /\ Len(loaded) \in Nat /\ blockCount \in Nat
      /\ \A i \in 1 .. Len(loaded) : TableRows[i] \in Row
  <2>1. loaded \in Tables /\ Len(loaded) \in Nat /\ blockCount \in Nat
        /\ \A i \in 1 .. Len(loaded) : TableRows[i] \in Row
      BY ShapeIs
  <2> QED BY <2>1, PageIs, StartIs
<1>2. CASE p <= q
  <2>1. p \in Pages
    <3> HIDE DEF blockCount
    <3> QED BY <1>1, <1>2 DEF Pages
  <2>2. n \in Nat \ {0} /\ s = [i \in 1 .. n |-> TableRows[a + i]]
      BY <1>1, <1>2, <2>1, RowsFromIs
  <2>3. a + n = EndOf(q)
    <3> HIDE DEF Start, EndOf
    <3> QED BY <1>1 DEF n, a
  <2> HIDE DEF s, a, n, Row, TableRows
  <2>4. s \in [1 .. n -> Row]
    <3>1. \A i \in 1 .. n : a + i \in 1 .. Len(loaded)
        BY <1>1, <2>2, <2>3
    <3> QED BY <1>1, <2>2, <3>1
  <2>5. s \in Seq(Row) /\ Len(s) = n
      BY <2>2, <2>4, IsSeq
  <2>6. Lists(TableRows, s, a + 1 .. a + n)
    <3>1. \A i \in 1 .. n : s[i] = TableRows[a + i]
        BY <2>2
    <3>2. a \in Int /\ n \in Nat /\ Len(s) = n
        BY <1>1, <2>2, <2>5
    <3> QED BY <3>1, <3>2, ListsStretch
  <2> QED BY <2>3, <2>5, <2>6 DEF s, a
<1>3. CASE p = q + 1
  <2>1. Start(p) = p * maxRowsPerBlock /\ EndOf(q) <= Start(p) /\ Start(p) \in Nat
    <3>1. Start(q + 1) \in Nat
        BY <1>1, StartIs
    <3> HIDE DEF Start
    <3>2. LowerOf(Start(q + 1), Len(loaded)) <= Start(q + 1)
        BY <1>1, <3>1, LowerIs
    <3> QED BY <1>3, <3>1, <3>2 DEF EndOf, Start
  <2>2. s = <<>>
    <3>1. s = [i \in 1 .. EndOf(q) - Start(p) |-> ReadRow(p + (i - 1) \div maxRowsPerBlock, ((i - 1) % maxRowsPerBlock) + 1)]
        BY DEF RowsFrom, EndOf, Start
    <3>2. 1 .. EndOf(q) - Start(p) = {}
      <4> HIDE DEF EndOf, Start
      <4> QED BY <1>1, <2>1
    <3>3. DOMAIN s = {} /\ s = [i \in {} |-> s[i]]
        BY <3>1, <3>2
    <3> HIDE DEF s
    <3> QED BY <3>3
  <2>3. Start(p) + 1 .. EndOf(q) = {}
    <3> HIDE DEF EndOf, Start
    <3> QED BY <1>1, <2>1
  <2>4. <<>> \in Seq(Row)
      OBVIOUS
  <2> HIDE DEF s, Row
  <2> QED BY <2>2, <2>3, <2>4, ListsNothing DEF s
<1> QED BY <1>1, <1>2, <1>3

\* The row in the queue and the rows its cursor has still to give are those left of the run.
LEMMA UnreadLists ==
    ASSUME Shape, Progress, Cursors, pc = "merge", NEW r \in DOMAIN pq
    PROVE  /\ pq[r] \in Row /\ Unread(r) \in Seq(Row)
           /\ Lists(TableRows, <<pq[r]>> \o Unread(r), LeftOf(cursors[r]))
<1> DEFINE c == cursors[r]
           x == pq[r]
           n == rowsPerBlockCount(c.page)
           A == SubSeq(ReadPage(c.page), c.row + 1, n)
           B == RowsFrom(c.page + 1, c.last)
           i == Place(c)
           k == n - c.row
           e == EndOf(c.last)
<1>1. /\ loaded \in Tables /\ Len(loaded) \in Nat /\ size \in Nat \ {0} /\ pageIndex \in Nat /\ pageIndex < blockCount
      /\ \A j \in 1 .. Len(loaded) : TableRows[j] \in Row
      /\ \A p \in Pages : ReadPage(p) \in Seq(Row) /\ Len(ReadPage(p)) = rowsPerBlockCount(p)
    BY ShapeIs DEF Progress
<1>2. r \in Runs /\ InRun(c, r) /\ x = TableRows[i]
    BY DEF Cursors
<1>3. c.page \in Pages /\ c.last \in Pages /\ c.page <= c.last /\ i \in 1 .. Len(loaded)
    BY <1>1, <1>2, CursorIs
<1>4. /\ c.page \in Nat /\ c.last \in Nat /\ Start(c.page) \in Nat /\ n \in Nat \ {0} /\ c.row \in 1 .. n
      /\ EndOf(c.page) = Start(c.page) + n /\ i = Start(c.page) + c.row /\ e \in 1 .. Len(loaded)
      /\ c.page < c.last => EndOf(c.page) = Start(c.page + 1)
  <2>1. c.row \in 1 .. n /\ i = Start(c.page) + c.row
      BY <1>2 DEF InRun, Place
  <2>2. /\ c.page \in Nat /\ c.last \in Nat /\ Start(c.page) \in Nat /\ n \in 1 .. maxRowsPerBlock
        /\ EndOf(c.page) = Start(c.page) + n /\ e \in 1 .. Len(loaded)
        /\ (c.page + 1 < blockCount => EndOf(c.page) = Start(c.page + 1))
        /\ c.last < blockCount
      BY <1>1, <1>3, PageIs
  <2>3. blockCount \in Nat /\ maxRowsPerBlock \in Nat
      BY ShapeIs, Constants
  <2> HIDE DEF c, n, i, e, EndOf, Start, blockCount
  <2>4. c.page < c.last => c.page + 1 < blockCount
      BY <2>2, <2>3
  <2> QED BY <2>1, <2>2, <2>3, <2>4
<1>5. /\ A \in Seq(Row) /\ Len(A) = k /\ k \in Nat
      /\ \A j \in 1 .. k : A[j] = TableRows[i + j]
  <2> DEFINE s == ReadPage(c.page)
             m == c.row + 1
  <2>1. s \in Seq(Row) /\ Len(s) = n
      BY <1>1, <1>3
  <2>2. \A j \in 1 .. n : s[j] = TableRows[Start(c.page) + j]
      BY <1>1, <1>3, TableRowsAre
  <2> HIDE DEF s, c, n, i, Row, Start, TableRows
  <2>3. m \in 1 .. Len(s) + 1 /\ n \in m - 1 .. Len(s) /\ (n - m) + 1 = k /\ k \in Nat
      BY <1>4, <2>1
  <2>4. \A j \in 1 .. k : (m + j) - 1 \in 1 .. n /\ Start(c.page) + ((m + j) - 1) = i + j
      BY <1>4, SMTT(30)
  <2>5. A = SubSeq(s, m, n)
      BY DEF s
  <2> HIDE DEF A, m, k
  <2>6. /\ SubSeq(s, m, n) \in Seq(Row) /\ Len(SubSeq(s, m, n)) = (n - m) + 1
        /\ \A j \in 1 .. (n - m) + 1 : SubSeq(s, m, n)[j] = s[(m + j) - 1]
    <3>1. m \in Int /\ n \in Int /\ (n - m) + 1 \in Nat
        BY <1>4, <2>3, SMTT(30) DEF m
    <3>2. \A j \in m .. n : s[j] \in Row
      <4> SUFFICES ASSUME NEW j \in m .. n PROVE s[j] \in Row
          OBVIOUS
      <4>1. j \in 1 .. Len(s)
          BY <1>4, <2>1, <2>3
      <4> QED BY <2>1, <4>1, ElementOfSeq
    <3>3. /\ SubSeq(s, m, n) \in Seq(Row)
          /\ Len(SubSeq(s, m, n)) = (IF m <= n THEN (n - m) + 1 ELSE 0)
          /\ \A j \in 1 .. (n - m) + 1 : SubSeq(s, m, n)[j] = s[(m + j) - 1]
        BY <3>1, <3>2, SubSeqProperties
    <3>4. ~(m <= n) => (n - m) + 1 = 0
        BY <3>1
    <3> QED BY <3>3, <3>4
  <2> QED BY <2>2, <2>3, <2>4, <2>5, <2>6
<1>6. B \in Seq(Row) /\ Lists(TableRows, B, Start(c.page + 1) + 1 .. e)
  <2>1. c.page + 1 \in Nat /\ c.page + 1 <= c.last + 1
      BY <1>3, <1>4, SMTT(30)
  <2> QED BY <1>3, <2>1, RowsListed
<1>7. x \in Row
    BY <1>1, <1>2, <1>3
<1>8. Unread(r) = A \o B
    BY DEF Unread
<1> DEFINE h == <<x>>
<1> HIDE DEF A, B, x, n, i, k, e, Row, TableRows, EndOf, Start, h
<1>9. h \in Seq(Row) /\ Lists(TableRows, h, {i})
  <2>1. h \in Seq(Row) /\ Len(h) = 1 /\ h[1] = x
      BY <1>7, Single DEF h
  <2> DEFINE b == i - 1
  <2>2. b \in Int /\ b + 1 = i
      BY <1>3
  <2> HIDE DEF b
  <2>3. \A j \in 1 .. 1 : h[j] = TableRows[b + j]
    <3> SUFFICES ASSUME NEW j \in 1 .. 1 PROVE h[j] = TableRows[b + j]
        OBVIOUS
    <3>1. j = 1
        OBVIOUS
    <3> QED BY <1>2, <2>1, <2>2, <3>1
  <2>4. 1 \in Nat
      OBVIOUS
  <2>5. Lists(TableRows, h, b + 1 .. b + 1)
      BY <2>1, <2>2, <2>3, <2>4, ListsStretch
  <2>6. b + 1 .. b + 1 = {i}
      BY <2>2
  <2> QED BY <2>1, <2>5, <2>6
<1>10. Lists(TableRows, A, i + 1 .. i + k)
  <2>1. i \in Int
      BY <1>3
  <2> QED BY <1>5, <2>1, ListsStretch
<1>11. i + k = EndOf(c.page)
    BY <1>4, <1>5 DEF k
<1> DEFINE P == {i} \cup (i + 1 .. i + k)
           Q == Start(c.page + 1) + 1 .. e
<1>12. /\ {i} \cap (i + 1 .. i + k) = {} /\ P \cap Q = {} /\ P \cup Q = LeftOf(c)
  <2>1. LeftOf(c) = i .. e
      BY DEF LeftOf, i, e
  <2>2. i \in Int /\ i + k \in Int /\ i <= i + k
      BY <1>3, <1>5
  <2>3. CASE c.page = c.last
    <3>1. e = i + k
        BY <1>11, <2>3 DEF e
    <3>2. EndOf(c.page) <= Start(c.page + 1) /\ Start(c.page + 1) \in Nat
      <4>1. Start(c.page + 1) \in Nat
        <5>1. c.page + 1 \in Nat
            BY <1>4
        <5> QED BY <5>1, StartIs
      <4> QED BY <1>1, <4>1, LowerIs DEF EndOf
    <3>3. Q = {}
        BY <1>4, <1>11, <2>2, <3>1, <3>2
    <3> QED BY <2>1, <2>2, <3>1, <3>3
  <2>4. CASE c.page < c.last
    <3>1. Start(c.page + 1) = i + k
        BY <1>4, <1>11, <2>4
    <3>2. i + k <= e
      <4>1. c.page + 1 <= c.last /\ c.page + 1 \in Nat
          BY <1>4, <2>4
      <4>2. Start(c.page + 1) <= Start(c.last) /\ Start(c.last) \in Nat
          BY <1>4, <4>1, StartIs
      <4>3. Start(c.last) + rowsPerBlockCount(c.last) = e /\ rowsPerBlockCount(c.last) \in 1 .. maxRowsPerBlock
          BY <1>1, <1>3, PageIs DEF e
      <4> HIDE DEF rowsPerBlockCount
      <4> QED BY <2>2, <3>1, <4>2, <4>3, Constants
    <3> QED BY <1>4, <2>1, <2>2, <3>1, <3>2
  <2> QED BY <1>3, <1>4, <2>3, <2>4
<1>13. h \o A \in Seq(Row) /\ Lists(TableRows, h \o A, P)
  <2>1. h \o A \in Seq(Row)
      BY <1>5, <1>9, ConcatProperties
  <2> QED BY <1>5, <1>9, <1>10, <1>12, <2>1, ListsConcat
<1> DEFINE u == h \o A
<1> HIDE DEF P, Q, u
<1>14. u \in Seq(Row) /\ Lists(TableRows, u, P) /\ Lists(TableRows, B, Q)
    BY <1>6, <1>13 DEF u, Q
<1>15. Lists(TableRows, u \o B, P \cup Q)
    BY <1>6, <1>12, <1>14, ListsConcat
<1>16. u \o B = h \o Unread(r)
    BY <1>5, <1>6, <1>8, <1>9, ConcatAssociative DEF u
<1>17. Unread(r) \in Seq(Row)
    BY <1>5, <1>6, <1>8, ConcatProperties
<1> QED BY <1>7, <1>12, <1>15, <1>16, <1>17 DEF h, x

-----------------------------------------------------------------------------
(* What the invariant implies *)

LEMMA TypeFollows ==
    ASSUME SortInv
    PROVE  TypeOK
<1>1. Shape /\ Progress /\ Cursors /\ Keeps
    BY DEF SortInv
<1>2. /\ loaded \in Tables /\ Len(loaded) \in Nat \ {0} /\ blockCount \in Nat \ {0} /\ pageIndex \in Nat
      /\ Len(dummy) \in Nat /\ Len(mergeData) \in Nat /\ Len(Moved) = Len(Written) + Len(mergeData)
      /\ Len(Written) \in Nat
    BY <1>1, ShapeIs
<1>3. Len(dummy) <= blockCount /\ Len(mergeData) <= Len(loaded)
  <2>1. Len(<<>>) = 0
      OBVIOUS
  <2>2. CASE pc \notin {"open", "merge", "copy"}
    <3>1. dummy = <<>> /\ mergeData = <<>>
        BY <1>1, <2>2 DEF Progress
    <3> HIDE DEF blockCount
    <3> QED BY <1>2, <2>1, <3>1
  <2>3. CASE pc \in {"open", "copy"}
    <3>1. mergeData = <<>> /\ Len(dummy) <= pageIndex /\ pageIndex \in 0 .. blockCount
        BY <1>1, <2>3 DEF Progress, Keeps, Shape
    <3> HIDE DEF blockCount
    <3> QED BY <1>2, <2>1, <3>1
  <2>4. CASE pc = "merge"
    <3>1. Start(Len(dummy)) + Len(mergeData) <= Len(Moved) /\ Len(Moved) <= Len(loaded)
        BY <1>1, <2>4, MovedIs DEF Keeps
    <3>2. Start(Len(dummy)) \in Nat /\ Start(blockCount) \in Nat /\ Len(loaded) <= Start(blockCount)
        BY <1>2, StartIs, TableIs
    <3>3. Len(dummy) <= blockCount
      <4>1. SUFFICES ASSUME blockCount < Len(dummy) PROVE FALSE
          BY <1>2
      <4>2. Start(blockCount) + maxRowsPerBlock <= Start(Len(dummy))
          BY <1>2, <4>1, StartIs
      <4> HIDE DEF Start, Moved, Written, blockCount
      <4> QED BY <1>2, <3>1, <3>2, <4>2, Constants
    <3> HIDE DEF Start, Moved, Written, blockCount
    <3> QED BY <1>2, <3>1, <3>2, <3>3
  <2> QED BY <1>1, <2>2, <2>3, <2>4 DEF Shape
<1>4. DOMAIN pageFile = Pages /\ \A p \in DOMAIN pageFile : pageFile[p] # <<>>
  <2> HIDE DEF Row, Pages
  <2> QED BY <1>1 DEF Shape
<1> HIDE DEF blockCount, Pages, Row
<1> QED BY <1>1, <1>3, <1>4 DEF TypeOK, Shape

LEMMA RunsFollow ==
    ASSUME SortInv
    PROVE  RunsInOrder
<1> SUFFICES ASSUME pc \in {"open", "merge", "copy"}, ~overfilled, NEW p \in Pages, p % size = 0
             PROVE  Sorted(RowsFrom(p, RunEnd(p)))
    BY DEF RunsInOrder
<1>1. Shape /\ InRuns(TableRows, size, Len(loaded))
    BY DEF SortInv, Ordered
<1>2. loaded \in Tables /\ size \in Nat \ {0} /\ blockCount \in Nat \ {0} /\ Len(loaded) \in Nat \ {0}
    BY <1>1, ShapeIs
<1> DEFINE e == RunEnd(p)
           m == p \div size
           a == Start(p)
           n == EndOf(e) - Start(p)
           rows == RowsFrom(p, e)
<1>3. p \in Nat /\ p < blockCount /\ a \in Nat
    BY <1>2, PageIs
<1>4. m \in Nat /\ p = m * size
  <2>1. m \in Nat /\ p = (m * size) + (p % size)
      BY <1>2, <1>3, DivMod
  <2>2. m * size \in Nat
      BY <1>2, <2>1
  <2> HIDE DEF m
  <2> QED BY <2>1, <2>2
<1>5. e \in Pages /\ p <= e /\ e < p + size
  <2>1. e = LowerOf(p + size, blockCount) - 1
      BY DEF RunEnd
  <2>2. LowerOf(p + size, blockCount) \in {p + size, blockCount}
        /\ LowerOf(p + size, blockCount) <= p + size /\ LowerOf(p + size, blockCount) <= blockCount
    <3> HIDE DEF blockCount
    <3> QED BY <1>2, <1>3, LowerIs
  <2> HIDE DEF e, blockCount
  <2> QED BY <1>2, <1>3, <2>1, <2>2 DEF Pages
<1>6. n \in Nat \ {0} /\ rows = [i \in 1 .. n |-> TableRows[a + i]]
    BY <1>2, <1>5, RowsFromIs
<1>7. Len(rows) = n
  <2> HIDE DEF rows, n, a, TableRows
  <2> QED BY <1>6
<1>8. EndOf(e) \in 1 .. Len(loaded) /\ EndOf(e) <= Start((m + 1) * size) /\ Start((m + 1) * size) \in Nat
  <2>1. EndOf(e) \in 1 .. Len(loaded) /\ e \in Nat
      BY <1>2, <1>5, PageIs
  <2>2. (m + 1) * size = p + size
    <3> HIDE DEF m
    <3> QED BY <1>2, <1>4, Product
  <2>3. Start(e + 1) <= Start(p + size) /\ Start(e + 1) \in Nat /\ Start(p + size) \in Nat
    <3>1. e + 1 \in Nat /\ p + size \in Nat /\ e + 1 <= p + size
      <4> HIDE DEF e
      <4> QED BY <1>2, <1>3, <1>5, <2>1
    <3> QED BY <3>1, StartIs
  <2>4. EndOf(e) <= Start(e + 1)
    <3> HIDE DEF Start
    <3> QED BY <1>2, <2>3, LowerIs DEF EndOf
  <2> HIDE DEF e, m, EndOf, Start
  <2> QED BY <1>2, <2>1, <2>2, <2>3, <2>4
<1>9. n = EndOf(e) - a
    OBVIOUS
<1> HIDE DEF e, m, a, n, rows, TableRows, EndOf, Boundary, Precedes
<1>10. SUFFICES ASSUME NEW i \in 1 .. n - 1 PROVE ~Precedes(rows[i + 1], rows[i])
    BY <1>7 DEF Sorted, rows, e
<1>11. rows[i] = TableRows[a + i] /\ rows[i + 1] = TableRows[a + (i + 1)] /\ a + (i + 1) = (a + i) + 1
    BY <1>3, <1>6, <1>10
<1>12. a + i \in 1 .. Len(loaded) - 1 /\ a < a + i /\ a + i < Start((m + 1) * size)
  <2> HIDE DEF Start
  <2> QED BY <1>2, <1>3, <1>6, <1>8, <1>9, <1>10
<1>13. ~Boundary(a + i, size)
  <2>1. a = Start(m * size)
      BY <1>4 DEF a
  <2>2. a + i \in Int
      BY <1>3, <1>10
  <2> HIDE DEF Start
  <2> QED BY <1>2, <1>4, <1>12, <2>1, <2>2, NotInside
<1> QED BY <1>1, <1>11, <1>12, <1>13 DEF InRuns

LEMMA SortedFollows ==
    ASSUME SortInv
    PROVE  SortedUnlessOverfilled
<1> SUFFICES ASSUME pc = "finish", ~overfilled
             PROVE  Sorted(TableRows) /\ BagOf(TableRows) = BagOf(loaded)
    BY DEF SortedUnlessOverfilled
<1>1. Shape /\ size >= blockCount /\ InRuns(TableRows, size, Len(loaded)) /\ BagOf(TableRows) = BagOf(loaded)
    BY DEF SortInv, Progress, Ordered
<1>2. /\ loaded \in Tables /\ size \in Nat \ {0} /\ blockCount \in Nat \ {0} /\ Len(loaded) \in Nat \ {0}
      /\ Len(TableRows) = Len(loaded)
    BY <1>1, ShapeIs
<1>3. ASSUME NEW i \in 1 .. Len(loaded) - 1 PROVE ~Boundary(i, size)
  <2>1. Start(0 * size) < i /\ i \in Int
    <3>1. 0 * size = 0 /\ Start(0) = 0
        BY <1>2, StartIs
    <3> QED BY <3>1
  <2>2. i < Start((0 + 1) * size)
    <3>1. (0 + 1) * size = size
        BY <1>2
    <3>2. Start(blockCount) <= Start(size) /\ Start(blockCount) \in Nat /\ Start(size) \in Nat
      <4>1. blockCount <= size
          BY <1>1, <1>2
      <4> QED BY <1>2, <4>1, StartIs
    <3>3. Len(loaded) <= Start(blockCount)
        BY <1>2, TableIs
    <3> HIDE DEF Start, blockCount
    <3>4. i < Start(size)
        BY <1>2, <3>2, <3>3
    <3> QED BY <3>1, <3>4
  <2>3. 0 \in Nat
      OBVIOUS
  <2> HIDE DEF Boundary, Start
  <2> QED BY <1>2, <2>1, <2>2, <2>3, NotInside
<1> HIDE DEF TableRows, Boundary
<1>4. Sorted(TableRows)
    BY <1>1, <1>2, <1>3 DEF Sorted, InRuns
<1> QED BY <1>1, <1>4

LEMMA KeepsFollows ==
    ASSUME SortInv
    PROVE  MergeKeepsRows
<1> DEFINE waiting == FoldSet(LAMBDA r, rows : rows \o <<pq[r]>> \o Unread(r), <<>>, Queued)
           rest == RowsFrom(AfterGroup, blockCount - 1)
           N == Len(loaded)
           U == UNION {LeftOf(cursors[r]) : r \in Queued}
           T == Start(AfterGroup) + 1 .. N
           M == 1 .. N \ Pending
<1>1. SUFFICES ASSUME pc \in {"open", "merge", "copy"}
               PROVE  BagOf(FlattenSeq(dummy) \o mergeData \o waiting \o rest) = BagOf(TableRows)
    BY Zenon DEF MergeKeepsRows, Queued
<1>2. Shape /\ Progress /\ Cursors /\ Keeps
    BY DEF SortInv
<1>3. /\ loaded \in Tables /\ N \in Nat \ {0} /\ blockCount \in Nat \ {0} /\ size \in Nat \ {0} /\ pageIndex \in Nat
      /\ Moved \in Seq(Row) /\ TableRows \in Seq(Row) /\ Len(TableRows) = N
    BY <1>1, <1>2, ShapeIs
<1>4. Lists(TableRows, Moved, M)
    BY <1>1, <1>2 DEF Keeps
<1>5. /\ Pending = U \cup T /\ U \cap T = {} /\ Pending \subseteq 1 .. N
  <2>1. Start(pageIndex) \in Nat /\ Pending \subseteq Start(pageIndex) + 1 .. N
      BY <1>2, <1>3, PendingIs, StartIs
  <2>2. Pending = U \cup T
      BY DEF Pending
  <2>3. U \cap T = {}
    <3>1. CASE pc = "merge"
      <4>1. AfterGroup = GroupEnd /\ Queued = DOMAIN pq
          BY <3>1 DEF AfterGroup, Queued
      <4>2. \A r \in DOMAIN pq : LeftOf(cursors[r]) \cap (Start(GroupEnd) + 1 .. N) = {}
          BY <1>2, <3>1, PendingIs
      <4> QED BY <4>1, <4>2
    <3>2. CASE pc # "merge"
      <4>1. Queued = {}
          BY <3>2 DEF Queued
      <4> QED BY <4>1
    <3> QED BY <3>1, <3>2
  <2>4. Pending \subseteq 1 .. N
    <3> HIDE DEF Pending, Start
    <3> QED BY <2>1
  <2> QED BY <2>2, <2>3, <2>4
<1>6. waiting \in Seq(Row) /\ Lists(TableRows, waiting, U)
  <2>1. IsFiniteSet(Queued)
    <3>1. CASE pc = "merge"
      <4>1. Queued \subseteq Runs
          BY <1>2, <3>1 DEF Queued, Cursors
      <4>2. IsFiniteSet(Runs)
        <5>1. pageIndex < blockCount
            BY <1>2, <3>1 DEF Progress
        <5>2. GroupEnd - pageIndex \in Nat \ {0}
          <6>1. GroupEnd \in Nat /\ pageIndex < GroupEnd
              BY <1>3, <5>1, RunsAre
          <6> HIDE DEF GroupEnd
          <6> QED BY <1>3, <6>1
        <5>3. Ceiling(GroupEnd - pageIndex, size) \in Nat
            BY <1>3, <5>2, CeilingIs
        <5> HIDE DEF Ceiling, GroupEnd
        <5>4. Ceiling(GroupEnd - pageIndex, size) \in Int /\ 1 \in Int
            BY <5>3
        <5> QED BY <5>4, FS_Interval DEF Runs
      <4> HIDE DEF Runs
      <4> QED BY <4>1, <4>2, FS_Subset
    <3>2. CASE pc # "merge"
      <4>1. Queued = {}
          BY <3>2 DEF Queued
      <4> QED BY <4>1, FS_EmptySet
    <3> QED BY <3>1, <3>2
  <2>2. ASSUME NEW r \in Queued
        PROVE  /\ pq[r] \in Row /\ Unread(r) \in Seq(Row)
               /\ Lists(TableRows, <<pq[r]>> \o Unread(r), LeftOf(cursors[r]))
    <3>1. pc = "merge" /\ r \in DOMAIN pq
        BY DEF Queued
    <3> QED BY <1>2, <3>1, UnreadLists
  <2>3. ASSUME NEW q \in Queued, NEW r \in Queued, q # r PROVE LeftOf(cursors[q]) \cap LeftOf(cursors[r]) = {}
    <3>1. pc = "merge" /\ q \in DOMAIN pq /\ r \in DOMAIN pq
        BY DEF Queued
    <3>2. \A i, j \in DOMAIN pq : i # j => LeftOf(cursors[i]) \cap LeftOf(cursors[j]) = {}
        BY <1>2, <3>1, PendingIs
    <3> QED BY <2>3, <3>1, <3>2
  <2> HIDE DEF Row, TableRows, Queued, LeftOf, Unread
  <2> QED BY <2>1, <2>2, <2>3, WaitingLists
<1>7. rest \in Seq(Row) /\ Lists(TableRows, rest, T)
  <2>1. blockCount - 1 \in Pages /\ (blockCount - 1) + 1 = blockCount
    <3> HIDE DEF blockCount
    <3> QED BY <1>3 DEF Pages
  <2>2. AfterGroup \in Nat /\ AfterGroup <= blockCount
    <3>1. CASE pc = "merge"
      <4>1. pageIndex < blockCount
          BY <1>2, <3>1 DEF Progress
      <4>2. GroupEnd \in Nat /\ GroupEnd <= blockCount
          BY <1>3, <4>1, RunsAre
      <4> QED BY <3>1, <4>2 DEF AfterGroup
    <3>2. CASE pc # "merge"
      <4>1. pageIndex \in 0 .. blockCount
          BY <1>2 DEF Shape
      <4> HIDE DEF blockCount
      <4> QED BY <1>3, <3>2, <4>1 DEF AfterGroup
    <3> QED BY <3>1, <3>2
  <2>3. EndOf(blockCount - 1) = N
      BY <1>3, <2>1, PageIs
  <2>4. pc # "idle"
      BY <1>1
  <2> DEFINE q == blockCount - 1
             a == AfterGroup
  <2>5. q \in Pages /\ a \in Nat /\ a <= q + 1
      BY <2>1, <2>2
  <2> HIDE DEF q, a
  <2>6. RowsFrom(a, q) \in Seq(Row) /\ Lists(TableRows, RowsFrom(a, q), Start(a) + 1 .. EndOf(q))
      BY <1>2, <2>4, <2>5, RowsListed
  <2> QED BY <2>3, <2>6 DEF q, a
<1>8. FlattenSeq(dummy) \o mergeData = Moved
    BY DEF Moved, Written
<1> HIDE DEF waiting, rest, N, U, T, M, Row, TableRows, Moved, Pending
<1>9. M \cap U = {} /\ (M \cup U) \cap T = {} /\ (M \cup U) \cup T = 1 .. N
    BY <1>5 DEF M
<1> DEFINE v == Moved \o waiting
           P == M \cup U
<1>10. v \in Seq(Row) /\ Lists(TableRows, v, P)
  <2>1. v \in Seq(Row)
      BY <1>3, <1>6, ConcatProperties
  <2> QED BY <1>3, <1>4, <1>6, <1>9, <2>1, ListsConcat
<1> HIDE DEF v
<1>11. v \o rest \in Seq(Row) /\ Lists(TableRows, v \o rest, 1 .. N)
  <2>1. v \o rest \in Seq(Row)
      BY <1>7, <1>10, ConcatProperties
  <2>2. P \cap T = {} /\ P \cup T = 1 .. N
      BY <1>9
  <2> HIDE DEF P
  <2>3. Lists(TableRows, v \o rest, P \cup T)
      BY <1>7, <1>10, <2>2, ListsConcat
  <2> QED BY <2>1, <2>2, <2>3
<1> DEFINE w == v \o rest
<1> HIDE DEF w
<1>12. w \in Seq(Row) /\ Lists(TableRows, w, 1 .. Len(TableRows))
    BY <1>3, <1>11 DEF w
<1>13. BagOf(w) = BagOf(TableRows)
    BY <1>3, <1>12, ListsAll
<1> QED BY <1>8, <1>13 DEF w, v

\* Type correctness, for every table, page size and number of pages in memory: no page file is ever
\* empty, and the Dummy files never outnumber the pages.
THEOREM SortTypeOK == Spec => []TypeOK
<1>1. SortInv => TypeOK
    BY TypeFollows
<1> QED BY <1>1, SortInvariant, PTL

\* Merging neither loses nor repeats a row (the loops of externalSort).
THEOREM MergeKeepsRowsHolds == Spec => []MergeKeepsRows
<1>1. SortInv => MergeKeepsRows
    BY KeepsFollows
<1> QED BY <1>1, SortInvariant, PTL

\* As long as no Dummy file has outgrown its page, every run of an iteration is in order, across the
\* pages it is spread over.
THEOREM RunsInOrderHolds == Spec => []RunsInOrder
<1>1. SortInv => RunsInOrder
    BY RunsFollow
<1> QED BY <1>1, SortInvariant, PTL

\* A SORT in which no Dummy file outgrew its page ends with the table's rows in order (sortTable and
\* externalSort as a whole).
THEOREM SortedUnlessOverfilledHolds == Spec => []SortedUnlessOverfilled
<1>1. SortInv => SortedUnlessOverfilled
    BY SortedFollows
<1> QED BY <1>1, SortInvariant, PTL

=============================================================================
