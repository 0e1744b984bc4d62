------------------------- MODULE AssignmentsProofs -------------------------
(***************************************************************************)
(* Proofs about Assignments: for all tables, conditions and page sizes,    *)
(* the pages of a result hold its rows, a JOIN has all matching pairs, and *)
(* the cursors and counters of both stay within their tables.              *)
(***************************************************************************)
EXTENDS Assignments, KeyOrderProofs

(* Pages: where the rows of a page begin *)

\* n full pages hold this many rows.
Full(n) == n * maxRowsPerBlock

\* One more page holds maxRowsPerBlock rows more.
LEMMA FullNext ==
    /\ Full(0) = 0
    /\ \A n \in Nat : Full(n) \in Nat /\ Full(n + 1) = Full(n) + maxRowsPerBlock
BY ResultAssumption DEF Full

LEMMA FullBefore ==
    ASSUME NEW m \in Nat, NEW n \in Nat, m < n
    PROVE  Full(m) + maxRowsPerBlock <= Full(n)
<1>1. PICK d \in Nat : n = m + 1 + d
  <2>1. n - m - 1 \in Nat /\ n = m + 1 + (n - m - 1)
      OBVIOUS
  <2> QED BY <2>1
<1>2. d * maxRowsPerBlock \in Nat
    BY ResultAssumption
<1>3. n * maxRowsPerBlock = m * maxRowsPerBlock + maxRowsPerBlock + d * maxRowsPerBlock
    BY <1>1, ResultAssumption
<1> QED BY <1>2, <1>3, ResultAssumption DEF Full

\* A sequence with one element more.
LEMMA OneMore ==
    ASSUME NEW S, NEW s \in Seq(S), NEW x \in S
    PROVE  /\ s \o <<x>> \in Seq(S) /\ Len(s \o <<x>>) = Len(s) + 1
           /\ \A i \in 1 .. Len(s) : (s \o <<x>>)[i] = s[i] /\ s[i] \in S
           /\ (s \o <<x>>)[Len(s) + 1] = x
<1> DEFINE one == <<x>>
<1>1. one \in Seq(S) /\ Len(one) = 1 /\ one[1] = x
    OBVIOUS
<1> HIDE DEF one
<1>2. /\ s \o one \in Seq(S) /\ Len(s \o one) = Len(s) + 1
      /\ \A i \in 1 .. Len(s) + 1 : (s \o one)[i] = IF i <= Len(s) THEN s[i] ELSE one[i - Len(s)]
    BY <1>1, ConcatProperties
<1>3. (s \o one)[Len(s) + 1] = x
    BY <1>1, <1>2
<1>4. \A i \in 1 .. Len(s) : (s \o one)[i] = s[i] /\ s[i] \in S
    BY <1>2
<1> QED BY <1>2, <1>3, <1>4 DEF one

\* A row more at the end changes no part of a sequence that was there.
LEMMA PartKept ==
    ASSUME NEW S, NEW s \in Seq(S), NEW x \in S, NEW m \in Nat \ {0}, NEW n \in 0 .. Len(s)
    PROVE  SubSeq(s \o <<x>>, m, n) = SubSeq(s, m, n)
<1>1. /\ s \o <<x>> \in Seq(S)
      /\ \A i \in 1 .. Len(s) : (s \o <<x>>)[i] = s[i] /\ s[i] \in S
    BY OneMore
<1>2. SubSeq(s \o <<x>>, m, n) \in Seq(S) /\ SubSeq(s, m, n) \in Seq(S)
    BY <1>1, SubSeqProperties
<1>3. /\ Len(SubSeq(s \o <<x>>, m, n)) = Len(SubSeq(s, m, n))
      /\ Len(SubSeq(s, m, n)) = IF m <= n THEN n - m + 1 ELSE 0
    BY <1>1, SubSeqProperties
<1>4. \A i \in 1 .. n - m + 1 : SubSeq(s \o <<x>>, m, n)[i] = SubSeq(s, m, n)[i]
    BY <1>1, SubSeqProperties
<1>5. \A i \in 1 .. Len(SubSeq(s \o <<x>>, m, n)) : SubSeq(s \o <<x>>, m, n)[i] = SubSeq(s, m, n)[i]
    BY <1>3, <1>4
<1> QED BY <1>2, <1>3, <1>5, SeqEqual

\* ... and prolongs the last part.
LEMMA LastPartGrows ==
    ASSUME NEW S, NEW s \in Seq(S), NEW x \in S, NEW m \in 1 .. Len(s) + 1
    PROVE  SubSeq(s, m, Len(s)) \o <<x>> = SubSeq(s \o <<x>>, m, Len(s \o <<x>>))
<1> DEFINE part == SubSeq(s, m, Len(s))
           long == SubSeq(s \o <<x>>, m, Len(s \o <<x>>))
           n    == Len(s) - m + 1
<1>1. /\ s \o <<x>> \in Seq(S) /\ Len(s \o <<x>>) = Len(s) + 1
      /\ \A i \in 1 .. Len(s) : (s \o <<x>>)[i] = s[i] /\ s[i] \in S
      /\ (s \o <<x>>)[Len(s) + 1] = x
    BY OneMore
<1>2. /\ part \in Seq(S) /\ Len(part) = n
      /\ \A i \in 1 .. n : part[i] = s[m + i - 1]
    BY <1>1, SubSeqProperties
<1>3. /\ long \in Seq(S) /\ Len(long) = n + 1
      /\ \A i \in 1 .. n + 1 : long[i] = (s \o <<x>>)[m + i - 1]
    BY <1>1, SubSeqProperties
<1>4. m + (n + 1) - 1 = Len(s) + 1 /\ n \in Nat
    OBVIOUS
<1> HIDE DEF part, long, n
<1>5. /\ part \o <<x>> \in Seq(S) /\ Len(part \o <<x>>) = n + 1
      /\ \A i \in 1 .. n : (part \o <<x>>)[i] = part[i]
      /\ (part \o <<x>>)[n + 1] = x
    BY <1>2, OneMore
<1>6. ASSUME NEW i \in 1 .. n + 1 PROVE (part \o <<x>>)[i] = long[i]
  <2>1. CASE i = n + 1
    <3>1. long[n + 1] = (s \o <<x>>)[m + (n + 1) - 1]
        BY <1>3, <1>4
    <3> QED BY <2>1, <3>1, <1>1, <1>4, <1>5
  <2>2. CASE i \in 1 .. n
    <3>1. part[i] = s[m + i - 1] /\ long[i] = (s \o <<x>>)[m + i - 1]
        BY <2>2, <1>2, <1>3, <1>4
    <3>2. m + i - 1 \in 1 .. Len(s)
        BY <2>2, <1>4
    <3> QED BY <2>2, <3>1, <3>2, <1>1, <1>5
  <2>3. i = n + 1 \/ i \in 1 .. n
      BY <1>4
  <2> QED BY <2>1, <2>2, <2>3, Zenon
<1>7. part \o <<x>> = long
    BY <1>3, <1>5, <1>6, SeqEqual
<1> QED BY <1>7 DEF part, long

-----------------------------------------------------------------------------
(* Pages: the invariant *)

Collecting == {"outer", "left", "right", "row"}

\* How many rows there are for the pages that have been written.
PagesAreFull ==
    /\ pc \in Collecting \cup {"idle", "crashed", "last"} => Full(pageCounter) <= Len(rows)
    /\ pc \in Collecting \cup {"idle", "crashed"} => Len(rows) < Full(pageCounter) + maxRowsPerBlock
    /\ pc = "last" => Len(rows) <= Full(pageCounter) + maxRowsPerBlock
    /\ pc \in {"copy", "done"} => Len(rows) <= Full(pageCounter)

\* Copying has not begun, or is over.
CopyProgress ==
    /\ pc \notin {"copy", "done"} => copied = 0
    /\ pc = "done" => copied = pageCounter

PagesInv ==
    /\ \E S : rows \in Seq(S)
    /\ \E S : pageFile \in Seq(S)
    /\ pc \in Collecting \cup {"idle", "crashed", "last", "copy", "done"}
    /\ pageCounter \in 0 .. Len(pageFile) /\ copied \in 0 .. pageCounter
    /\ PagesHoldRows /\ PagesAreFull /\ CopyProgress

\* How many rows fit, by their number.
LEMMA RoomFacts ==
    ASSUME NEW n \in Nat, NEW total \in Nat
    PROVE  /\ Room(n, total) \in 0 .. total /\ Room(n, total) <= Room(n + 1, total)
           /\ Full(n) <= total => Room(n, total) = Full(n)
           /\ total <= Full(n) => Room(n, total) = total
           /\ Room(0, total) = 0
<1>1. \A m : Room(m, total) = IF Full(m) < total THEN Full(m) ELSE total
    BY DEF Room, Full
<1>2. Full(n) \in Nat /\ Full(n + 1) = Full(n) + maxRowsPerBlock
    BY FullNext
<1>3. /\ Room(n, total) = IF Full(n) < total THEN Full(n) ELSE total
      /\ Room(n + 1, total) = IF Full(n + 1) < total THEN Full(n + 1) ELSE total
    BY <1>1
<1>4. Room(0, total) = 0
    BY <1>1, FullNext
<1> QED BY <1>2, <1>3, <1>4, ResultAssumption

\* Writing a page changes no page before it.
LEMMA PageWritten ==
    ASSUME NEW P, pageFile \in Seq(P), pageCounter \in 0 .. Len(pageFile), NEW page, WritePage(page)
    PROVE  /\ \E S : pageFile' \in Seq(S)
           /\ pageCounter' = pageCounter + 1 /\ pageCounter' \in 0 .. Len(pageFile')
           /\ pageFile'[pageCounter + 1] = page
           /\ \A p \in 1 .. pageCounter : pageFile'[p] = pageFile[p]
<1> DEFINE Q == P \cup {page}
<1>1. pageFile \in Seq(Q) /\ page \in Q
    OBVIOUS
<1>2. CASE pageCounter < Len(pageFile)
  <2>1. pageFile' = [pageFile EXCEPT ![pageCounter + 1] = page]
      BY <1>2 DEF WritePage
  <2>2. pageCounter + 1 \in 1 .. Len(pageFile)
      BY <1>2
  <2>3. /\ pageFile' \in Seq(Q) /\ Len(pageFile') = Len(pageFile)
        /\ \A i \in 1 .. Len(pageFile) : pageFile'[i] = IF i = pageCounter + 1 THEN page ELSE pageFile[i]
      BY <1>1, <2>1, <2>2, ExceptSeq
  <2> HIDE DEF Q
  <2> QED BY <2>2, <2>3 DEF WritePage
<1>3. CASE ~(pageCounter < Len(pageFile))
  <2>1. pageFile' = Append(pageFile, page) /\ pageCounter = Len(pageFile)
      BY <1>3 DEF WritePage
  <2>2. /\ pageFile' \in Seq(Q) /\ Len(pageFile') = Len(pageFile) + 1
        /\ \A i \in 1 .. Len(pageFile) : pageFile'[i] = pageFile[i]
        /\ pageFile'[Len(pageFile) + 1] = page
      BY <1>1, <2>1, AppendProperties
  <2> HIDE DEF Q
  <2> QED BY <2>1, <2>2 DEF WritePage
<1> QED BY <1>2, <1>3

\* When a row is added, pages that were written still hold theirs.
LEMMA OldPagesHold ==
    ASSUME NEW S, NEW s \in Seq(S), NEW x \in S, NEW k \in Nat, Full(k) <= Len(s), NEW file,
           \A p \in 1 .. k : file[p] = SubSeq(s, Room(p - 1, Len(s)) + 1, Room(p, Len(s)))
    PROVE  \A p \in 1 .. k : file[p] = SubSeq(s \o <<x>>, Room(p - 1, Len(s) + 1) + 1, Room(p, Len(s) + 1))
<1>1. Len(s) \in Nat /\ Len(s) + 1 \in Nat
    OBVIOUS
<1>2. ASSUME NEW p \in 0 .. k
      PROVE  /\ Full(p) \in 0 .. Len(s)
             /\ Room(p, Len(s)) = Full(p) /\ Room(p, Len(s) + 1) = Full(p)
  <2>1. Full(p) \in Nat /\ Full(k) \in Nat
    <3>1. p \in Nat
        OBVIOUS
    <3> QED BY <3>1, FullNext, Zenon
  <2>2. CASE p = k
    <3>1. Full(p) <= Len(s) /\ Full(p) <= Len(s) + 1
        BY <2>1, <2>2
    <3> QED BY <1>1, <2>1, <3>1, RoomFacts
  <2>3. CASE p < k
    <3>1. Full(p) + maxRowsPerBlock <= Full(k)
        BY <2>3, FullBefore
    <3>2. Full(p) <= Len(s) /\ Full(p) <= Len(s) + 1
        BY <3>1, <2>1, ResultAssumption
    <3> QED BY <1>1, <2>1, <3>2, RoomFacts
  <2> QED BY <2>2, <2>3
<1>3. ASSUME NEW p \in 1 .. k
      PROVE  file[p] = SubSeq(s \o <<x>>, Room(p - 1, Len(s) + 1) + 1, Room(p, Len(s) + 1))
  <2>1. p - 1 \in 0 .. k /\ p \in 0 .. k
      OBVIOUS
  <2>2. /\ Room(p - 1, Len(s)) = Full(p - 1) /\ Room(p - 1, Len(s) + 1) = Full(p - 1)
        /\ Room(p, Len(s)) = Full(p) /\ Room(p, Len(s) + 1) = Full(p)
        /\ Full(p - 1) + 1 \in Nat \ {0} /\ Full(p) \in 0 .. Len(s)
      BY <1>1, <1>2, <2>1
  <2>3. SubSeq(s \o <<x>>, Full(p - 1) + 1, Full(p)) = SubSeq(s, Full(p - 1) + 1, Full(p))
      BY <2>2, PartKept
  <2> QED BY <2>2, <2>3
<1> QED BY <1>3

\* A row is produced: it begins or prolongs a page, or fills one.
LEMMA CollectRow ==
    ASSUME PagesInv, pc \in Collecting, pc' \in Collecting, NEW x, Collect(<< x >>)
    PROVE  PagesInv'
<1>1. PICK S0 : rows \in Seq(S0)
    BY DEF PagesInv
<1>2. PICK P : pageFile \in Seq(P)
    BY DEF PagesInv
<1>3. PICK k : k = pageCounter
    OBVIOUS
<1>4. PICK n : n = Len(rows)
    OBVIOUS
<1>5. PICK page : page = pageData \o <<x>>
    OBVIOUS
<1> DEFINE S == S0 \cup {x}
<1>6. rows \in Seq(S) /\ x \in S
    BY <1>1
<1> HIDE DEF S
<1>7. /\ k \in 0 .. Len(pageFile) /\ k \in Nat /\ n \in Nat
      /\ copied = 0 /\ copied' = 0 /\ csv' = csv /\ rows' = rows \o <<x>>
      /\ Full(k) <= n /\ n < Full(k) + maxRowsPerBlock
    BY <1>2, <1>3, <1>4, <1>6 DEF PagesInv, PagesAreFull, CopyProgress, Collect, Collecting
<1>8. /\ \A p \in 1 .. k : pageFile[p] # <<>> /\ pageFile[p] = SubSeq(rows, Room(p - 1, n) + 1, Room(p, n))
      /\ pageData = SubSeq(rows, Room(k, n) + 1, n) /\ csv = SubSeq(rows, 1, Room(0, n))
    BY <1>3, <1>4, <1>7 DEF PagesInv, PagesHoldRows
<1>9. Full(k) \in Nat /\ Full(k + 1) = Full(k) + maxRowsPerBlock
    BY <1>7, FullNext
<1>10. Room(k, n) = Full(k) /\ Room(0, n) = 0 /\ Room(0, n + 1) = 0 /\ Room(k, n + 1) = Full(k)
    BY <1>7, <1>9, RoomFacts
<1>11. rows' \in Seq(S) /\ Len(rows') = n + 1
    BY <1>4, <1>6, <1>7, OneMore
<1>12. page = SubSeq(rows', Full(k) + 1, n + 1)
  <2>1. Full(k) + 1 \in 1 .. Len(rows) + 1
      BY <1>4, <1>7, <1>9
  <2>2. SubSeq(rows, Full(k) + 1, Len(rows)) \o <<x>> = SubSeq(rows \o <<x>>, Full(k) + 1, Len(rows \o <<x>>))
      BY <2>1, <1>6, LastPartGrows
  <2> QED BY <2>2, <1>4, <1>5, <1>7, <1>8, <1>10, <1>11
<1>13. Len(page) = n + 1 - Full(k)
  <2>1. \A i \in Full(k) + 1 .. n + 1 : rows'[i] \in S
      BY <1>7, <1>9, <1>11
  <2>2. Full(k) + 1 \in Int /\ n + 1 \in Int /\ Full(k) + 1 <= n + 1
      BY <1>7, <1>9
  <2>3. Len(SubSeq(rows', Full(k) + 1, n + 1)) = (n + 1) - (Full(k) + 1) + 1
      BY <2>1, <2>2, SubSeqProperties
  <2> QED BY <2>3, <1>7, <1>9, <1>12
<1>14. csv' = SubSeq(rows', 1, Room(0, n + 1))
  <2>1. SubSeq(rows, 1, 0) = <<>> /\ SubSeq(rows', 1, 0) = <<>>
      BY SubSeqEmpty
  <2> QED BY <2>1, <1>7, <1>8, <1>10
<1>15. \A p \in 1 .. k : pageFile[p] # <<>> /\ pageFile[p] = SubSeq(rows', Room(p - 1, n + 1) + 1, Room(p, n + 1))
  <2>1. \A p \in 1 .. k : pageFile[p] = SubSeq(rows \o <<x>>, Room(p - 1, Len(rows) + 1) + 1, Room(p, Len(rows) + 1))
      BY <1>4, <1>6, <1>7, <1>8, OldPagesHold
  <2> QED BY <2>1, <1>4, <1>7, <1>8
<1>16. CASE Len(page) = maxRowsPerBlock
  <2>1. WritePage(page) /\ pageData' = <<>>
      BY <1>5, <1>16 DEF Collect
  <2>2. /\ \E T : pageFile' \in Seq(T)
        /\ pageCounter' = k + 1 /\ pageCounter' \in 0 .. Len(pageFile')
        /\ pageFile'[k + 1] = page
        /\ \A p \in 1 .. k : pageFile'[p] = pageFile[p]
      BY <2>1, <1>2, <1>3, <1>7, PageWritten
  <2>3. n + 1 = Full(k + 1) /\ page # <<>>
      BY <1>16, <1>7, <1>9, <1>13, ResultAssumption
  <2>4. Room(k + 1, n + 1) = n + 1
      BY <2>3, <1>7, RoomFacts
  <2>5. ASSUME NEW p \in 1 .. k + 1
        PROVE  pageFile'[p] # <<>> /\ pageFile'[p] = SubSeq(rows', Room(p - 1, n + 1) + 1, Room(p, n + 1))
    <3>1. CASE p = k + 1
      <4>1. p - 1 = k
          BY <3>1, <1>7
      <4> QED BY <3>1, <4>1, <1>10, <1>12, <2>2, <2>3, <2>4
    <3>2. CASE p \in 1 .. k
        BY <3>2, <1>15, <2>2
    <3>3. p = k + 1 \/ p \in 1 .. k
        BY <1>7
    <3> QED BY <3>1, <3>2, <3>3, Zenon
  <2>6. pageData' = SubSeq(rows', Room(k + 1, n + 1) + 1, n + 1)
    <3>1. SubSeq(rows', (n + 1) + 1, n + 1) = <<>>
        BY <1>7, SubSeqEmpty
    <3> QED BY <3>1, <2>1, <2>4
  <2>7. PagesHoldRows'
      BY <2>2, <2>5, <2>6, <1>7, <1>11, <1>14 DEF PagesHoldRows, Collecting
  <2>8. PagesAreFull'
      BY <2>2, <2>3, <1>7, <1>9, <1>11, ResultAssumption DEF PagesAreFull, Collecting
  <2>9. CopyProgress' /\ copied' \in 0 .. pageCounter'
      BY <2>2, <1>7 DEF CopyProgress, Collecting
  <2> QED BY <2>2, <2>7, <2>8, <2>9, <1>11 DEF PagesInv
<1>17. CASE Len(page) # maxRowsPerBlock
  <2>1. pageData' = page /\ pageFile' = pageFile /\ pageCounter' = k
      BY <1>3, <1>5, <1>17 DEF Collect
  <2>2. PagesHoldRows'
      BY <2>1, <1>7, <1>10, <1>11, <1>12, <1>14, <1>15 DEF PagesHoldRows, Collecting
  <2>3. PagesAreFull'
      BY <2>1, <1>7, <1>9, <1>11, <1>13, <1>17, ResultAssumption DEF PagesAreFull, Collecting
  <2>4. CopyProgress'
      BY <1>7 DEF CopyProgress, Collecting
  <2> QED BY <2>1, <2>2, <2>3, <2>4, <1>2, <1>7, <1>11 DEF PagesInv
<1> QED BY <1>16, <1>17

\* A step that produces no row and is not the end of the loop.
LEMMA PagesKept ==
    ASSUME PagesInv, pc \in Collecting \cup {"idle"}, pc' \in Collecting \cup {"crashed", "last"},
           UNCHANGED <<pageData, pageFile, pageCounter, copied, csv, rows>>
    PROVE  PagesInv'
<1>1. PagesAreFull'
  <2>1. PICK full : full = Full(pageCounter)
      OBVIOUS
  <2>2. full' = full /\ Full(pageCounter') = full
      BY <2>1
  <2>3. Len(rows) \in Nat /\ pageCounter \in Nat /\ full \in Nat
      BY <2>1, FullNext DEF PagesInv
  <2> QED BY <2>1, <2>2, <2>3, ResultAssumption DEF PagesInv, PagesAreFull, Collecting
<1>2. PagesHoldRows' /\ CopyProgress'
    BY DEF PagesInv, PagesHoldRows, CopyProgress, Collecting
<1> QED BY <1>1, <1>2 DEF PagesInv

\* Collect, with a row or without.
LEMMA CollectPages ==
    ASSUME PagesInv, pc \in Collecting, pc' \in Collecting, NEW new,
           new = <<>> \/ \E x : new = <<x>>, Collect(new)
    PROVE  PagesInv'
<1>1. CASE new = <<>>
  <2>1. PICK S : rows \in Seq(S)
      BY DEF PagesInv
  <2>2. PICK k, n : k = pageCounter /\ n = Len(rows)
      OBVIOUS
  <2>3. k \in Nat /\ n \in Nat /\ Full(k) \in Nat /\ Full(k) <= n /\ n < Full(k) + maxRowsPerBlock
    <3>1. k \in Nat /\ n \in Nat /\ Full(k) <= n /\ n < Full(k) + maxRowsPerBlock
        BY <2>1, <2>2 DEF PagesInv, PagesAreFull, Collecting
    <3>2. Full(k) \in Nat
        BY <3>1, FullNext, Zenon
    <3> QED BY <3>1, <3>2
  <2>4. pageData = SubSeq(rows, Full(k) + 1, n)
      BY <2>2, <2>3, RoomFacts DEF PagesInv, PagesHoldRows
  <2>5. pageData \in Seq(S) /\ Len(pageData) = n - Full(k)
    <3>1. \A i \in Full(k) + 1 .. n : rows[i] \in S
        BY <2>1, <2>2, <2>3
    <3>2. /\ SubSeq(rows, Full(k) + 1, n) \in Seq(S)
          /\ Len(SubSeq(rows, Full(k) + 1, n)) = IF Full(k) + 1 <= n THEN n - (Full(k) + 1) + 1 ELSE 0
        BY <2>3, <3>1, SubSeqProperties
    <3> QED BY <2>3, <2>4, <3>2
  <2>6. rows \o <<>> = rows /\ pageData \o <<>> = pageData
      BY <2>1, <2>5, ConcatEmptySeq
  <2>7. UNCHANGED <<pageData, pageFile, pageCounter, copied, csv, rows>>
    <3>1. Len(pageData) # maxRowsPerBlock
        BY <2>3, <2>5, ResultAssumption
    <3> QED BY <1>1, <2>6, <3>1 DEF Collect
  <2> QED BY <2>7, PagesKept
<1>2. CASE \E x : new = <<x>>
    BY <1>2, CollectRow
<1> QED BY <1>1, <1>2

\* The end of the loop: the last group may give one more row.
LEMMA LastGroupPages == ASSUME PagesInv, LastGroup PROVE PagesInv'
<1>1. /\ pc = "row" /\ pc' = "last" /\ UNCHANGED <<pageFile, pageCounter, copied, csv>>
      /\ rows' = rows \o GroupResult /\ pageData' = pageData \o GroupResult
    BY DEF LastGroup
<1>2. PICK S0 : rows \in Seq(S0)
    BY DEF PagesInv
<1>3. PICK P : pageFile \in Seq(P)
    BY DEF PagesInv
<1>4. PICK k, n : k = pageCounter /\ n = Len(rows)
    OBVIOUS
<1>5. k \in Nat /\ n \in Nat /\ Full(k) \in Nat /\ Full(k) <= n /\ n < Full(k) + maxRowsPerBlock
  <2>1. k \in Nat /\ n \in Nat /\ Full(k) <= n /\ n < Full(k) + maxRowsPerBlock
      BY <1>1, <1>2, <1>4 DEF PagesInv, PagesAreFull, Collecting
  <2>2. Full(k) \in Nat
      BY <2>1, FullNext, Zenon
  <2> QED BY <2>1, <2>2
<1>6. /\ \A p \in 1 .. k : pageFile[p] # <<>> /\ pageFile[p] = SubSeq(rows, Room(p - 1, n) + 1, Room(p, n))
      /\ pageData = SubSeq(rows, Full(k) + 1, n) /\ csv = SubSeq(rows, 1, 0) /\ copied = 0
  <2>1. copied = 0
      BY <1>1 DEF PagesInv, CopyProgress
  <2>2. Room(k, n) = Full(k) /\ Room(0, n) = 0
      BY <1>5, RoomFacts
  <2> QED BY <2>1, <2>2, <1>4 DEF PagesInv, PagesHoldRows
<1>7. CASE GroupResult = <<>>
  <2>1. pageData \in Seq(S0)
    <3>1. \A i \in Full(k) + 1 .. n : rows[i] \in S0
        BY <1>2, <1>4, <1>5
    <3> QED BY <1>5, <1>6, <3>1, SubSeqProperties
  <2>2. rows' = rows /\ pageData' = pageData
      BY <1>1, <1>2, <1>7, <2>1, ConcatEmptySeq
  <2> QED BY <1>1, <2>2, PagesKept DEF Collecting
<1>8. CASE GroupResult # <<>>
  <2>1. PICK x : GroupResult = <<x>>
      BY <1>8 DEF GroupResult
  <2> DEFINE S == S0 \cup {x}
  <2>2. rows \in Seq(S) /\ x \in S
      BY <1>2
  <2> HIDE DEF S
  <2>3. rows' \in Seq(S) /\ Len(rows') = n + 1 /\ rows' = rows \o <<x>>
      BY <1>1, <1>4, <2>1, <2>2, OneMore
  <2>4. Room(k, n + 1) = Full(k) /\ Room(0, n + 1) = 0
      BY <1>5, RoomFacts
  <2>5. pageData' = SubSeq(rows', Full(k) + 1, n + 1)
    <3>1. Full(k) + 1 \in 1 .. Len(rows) + 1
        BY <1>4, <1>5
    <3>2. SubSeq(rows, Full(k) + 1, Len(rows)) \o <<x>> = SubSeq(rows \o <<x>>, Full(k) + 1, Len(rows \o <<x>>))
        BY <2>2, <3>1, LastPartGrows
    <3> QED BY <3>2, <1>1, <1>4, <1>6, <2>1, <2>3
  <2>6. csv' = SubSeq(rows', 1, 0)
    <3>1. SubSeq(rows, 1, 0) = <<>> /\ SubSeq(rows', 1, 0) = <<>>
        BY SubSeqEmpty
    <3> QED BY <3>1, <1>1, <1>6
  <2>7. \A p \in 1 .. k : pageFile[p] = SubSeq(rows', Room(p - 1, n + 1) + 1, Room(p, n + 1))
    <3>1. \A p \in 1 .. k : pageFile[p] = SubSeq(rows \o <<x>>, Room(p - 1, Len(rows) + 1) + 1, Room(p, Len(rows) + 1))
        BY <1>4, <1>5, <1>6, <2>2, OldPagesHold, ZenonT(30)
    <3> QED BY <3>1, <1>4, <2>3
  <2>8. PagesHoldRows'
      BY <1>1, <1>4, <1>6, <2>3, <2>4, <2>5, <2>6, <2>7 DEF PagesHoldRows
  <2>9. PagesAreFull'
      BY <1>1, <1>4, <1>5, <2>3, ResultAssumption DEF PagesAreFull, Collecting
  <2>10. CopyProgress'
      BY <1>1, <1>6 DEF CopyProgress
  <2> QED BY <1>1, <1>3, <2>3, <2>8, <2>9, <2>10 DEF PagesInv
<1> QED BY <1>7, <1>8

\* The page that was begun is written.
LEMMA LastPageWritten == ASSUME PagesInv, WriteLastPage PROVE PagesInv'
<1>1. /\ pc = "last" /\ pc' = "copy" /\ pageData' = <<>> /\ UNCHANGED <<copied, csv, rows>>
    BY DEF WriteLastPage
<1>2. PICK S : rows \in Seq(S)
    BY DEF PagesInv
<1>3. PICK P : pageFile \in Seq(P)
    BY DEF PagesInv
<1>4. PICK k, n : k = pageCounter /\ n = Len(rows)
    OBVIOUS
<1>5. /\ k \in Nat /\ n \in Nat /\ Full(k) \in Nat /\ Full(k + 1) = Full(k) + maxRowsPerBlock
      /\ Full(k) <= n /\ n <= Full(k) + maxRowsPerBlock
  <2>1. k \in Nat /\ n \in Nat /\ Full(k) <= n /\ n <= Full(k) + maxRowsPerBlock
      BY <1>1, <1>2, <1>4 DEF PagesInv, PagesAreFull, Collecting
  <2>2. Full(k) \in Nat /\ Full(k + 1) = Full(k) + maxRowsPerBlock
      BY <2>1, FullNext, Zenon
  <2> QED BY <2>1, <2>2
<1>6. Room(k, n) = Full(k) /\ Room(k + 1, n) = n /\ SubSeq(rows, n + 1, n) = <<>>
    BY <1>5, RoomFacts, SubSeqEmpty
<1>7. /\ \A p \in 1 .. k : pageFile[p] # <<>> /\ pageFile[p] = SubSeq(rows, Room(p - 1, n) + 1, Room(p, n))
      /\ pageData = SubSeq(rows, Full(k) + 1, n) /\ copied = 0 /\ csv = SubSeq(rows, 1, Room(0, n))
  <2>1. copied = 0
      BY <1>1 DEF PagesInv, CopyProgress
  <2> QED BY <2>1, <1>4, <1>6 DEF PagesInv, PagesHoldRows
<1>8. CASE pageData = <<>>
  <2>1. UNCHANGED <<pageFile, pageCounter>>
      BY <1>8 DEF WriteLastPage
  <2>2. n = Full(k)
    <3>1. \A i \in Full(k) + 1 .. n : rows[i] \in S
        BY <1>2, <1>4, <1>5
    <3>2. Len(SubSeq(rows, Full(k) + 1, n)) = IF Full(k) + 1 <= n THEN n - (Full(k) + 1) + 1 ELSE 0
        BY <1>5, <3>1, SubSeqProperties
    <3>3. Len(SubSeq(rows, Full(k) + 1, n)) = 0
      <4>1. Len(pageData) = 0
          BY <1>8
      <4> QED BY <4>1, <1>7
    <3> QED BY <3>2, <3>3, <1>5
  <2>3. PagesHoldRows'
      BY <1>1, <1>4, <1>6, <1>7, <2>1, <2>2 DEF PagesHoldRows
  <2>4. PagesAreFull' /\ CopyProgress'
      BY <1>1, <1>4, <1>5, <1>7, <2>1, <2>2 DEF PagesAreFull, CopyProgress, Collecting
  <2> QED BY <1>1, <1>2, <1>3, <2>1, <2>3, <2>4 DEF PagesInv
<1>9. CASE pageData # <<>>
  <2>1. WritePage(pageData)
      BY <1>9 DEF WriteLastPage
  <2>2. /\ \E T : pageFile' \in Seq(T)
        /\ pageCounter' = k + 1 /\ pageCounter' \in 0 .. Len(pageFile')
        /\ pageFile'[k + 1] = pageData
        /\ \A p \in 1 .. k : pageFile'[p] = pageFile[p]
    <3>1. pageCounter \in 0 .. Len(pageFile)
        BY DEF PagesInv
    <3> QED BY <2>1, <3>1, <1>3, <1>4, PageWritten
  <2>3. ASSUME NEW p \in 1 .. k + 1
        PROVE  pageFile'[p] # <<>> /\ pageFile'[p] = SubSeq(rows, Room(p - 1, n) + 1, Room(p, n))
    <3>1. CASE p = k + 1
      <4>1. p - 1 = k
          BY <3>1, <1>5
      <4> QED BY <3>1, <4>1, <1>6, <1>7, <1>9, <2>2
    <3>2. CASE p \in 1 .. k
        BY <3>2, <1>7, <2>2
    <3>3. p = k + 1 \/ p \in 1 .. k
        BY <1>5
    <3> QED BY <3>1, <3>2, <3>3, Zenon
  <2>4. PagesHoldRows'
      BY <1>1, <1>4, <1>6, <1>7, <2>2, <2>3 DEF PagesHoldRows
  <2>5. PagesAreFull'
      BY <1>1, <1>4, <1>5, <2>2 DEF PagesAreFull, Collecting
  <2>6. CopyProgress' /\ copied' \in 0 .. pageCounter'
      BY <1>1, <1>5, <1>7, <2>2 DEF CopyProgress
  <2> QED BY <1>1, <1>2, <2>2, <2>4, <2>5, <2>6 DEF PagesInv
<1> QED BY <1>8, <1>9

\* A page is appended to the .csv, which has the rows before it.
LEMMA PageCopied == ASSUME PagesInv, CopyPage PROVE PagesInv'
<1>1. pc = "copy" /\ UNCHANGED <<pageData, pageFile, pageCounter, rows>>
    BY DEF CopyPage
<1>2. PICK S : rows \in Seq(S)
    BY DEF PagesInv
<1>3. PICK k, n, c : k = pageCounter /\ n = Len(rows) /\ c = copied
    OBVIOUS
<1>4. k \in Nat /\ n \in Nat /\ c \in 0 .. k /\ n <= Full(k)
    BY <1>1, <1>2, <1>3 DEF PagesInv, PagesAreFull
<1>5. PagesAreFull'
    BY <1>1, <1>3, <1>4 DEF PagesAreFull, CopyPage, Collecting
<1>6. CASE copied < pageCounter
  <2>1. csv' = csv \o pageFile[c + 1] /\ copied' = c + 1 /\ pc' = "copy"
      BY <1>1, <1>3, <1>6 DEF CopyPage
  <2>2. /\ Room(c, n) \in 0 .. n /\ Room(c + 1, n) \in 0 .. n /\ Room(c, n) <= Room(c + 1, n)
    <3>1. c \in Nat /\ c + 1 \in Nat
        BY <1>4
    <3> QED BY <3>1, <1>4, RoomFacts
  <2>3. csv = SubSeq(rows, 1, Room(c, n)) /\ pageFile[c + 1] = SubSeq(rows, Room(c, n) + 1, Room(c + 1, n))
    <3>1. c + 1 \in 1 .. k /\ (c + 1) - 1 = c
        BY <1>3, <1>4, <1>6
    <3> QED BY <3>1, <1>3 DEF PagesInv, PagesHoldRows
  <2>4. csv' = SubSeq(rows, 1, Room(c + 1, n))
    <3>1. /\ 1 \in 1 .. Len(rows) + 1 /\ Room(c, n) \in 1 - 1 .. Len(rows)
          /\ Room(c + 1, n) \in Room(c, n) .. Len(rows)
        BY <1>3, <1>4, <2>2
    <3>2. SubSeq(rows, 1, Room(c, n)) \o SubSeq(rows, Room(c, n) + 1, Room(c + 1, n)) = SubSeq(rows, 1, Room(c + 1, n))
        BY <3>1, <1>2, ConcatAdjacentSubSeq
    <3> QED BY <3>2, <2>1, <2>3
  <2>5. PagesHoldRows'
      BY <1>1, <1>3, <2>1, <2>4 DEF PagesInv, PagesHoldRows
  <2>6. CopyProgress' /\ copied' \in 0 .. pageCounter'
      BY <1>1, <1>3, <1>4, <1>6, <2>1 DEF CopyProgress
  <2> QED BY <1>1, <1>2, <1>5, <2>1, <2>5, <2>6 DEF PagesInv
<1>7. CASE ~(copied < pageCounter)
  <2>1. pc' = "done" /\ UNCHANGED <<csv, copied>>
      BY <1>7 DEF CopyPage
  <2>2. c = k
      BY <1>3, <1>4, <1>7
  <2>3. csv = rows
    <3>1. Room(k, n) = n
        BY <1>4, RoomFacts
    <3>2. SubSeq(rows, 1, Len(rows)) = rows
        BY <1>2, SubSeqFull
    <3> QED BY <3>1, <3>2, <1>3, <2>2 DEF PagesInv, PagesHoldRows
  <2>4. PagesHoldRows' /\ CopyProgress'
      BY <1>1, <1>3, <2>1, <2>2, <2>3 DEF PagesInv, PagesHoldRows, CopyProgress
  <2> QED BY <1>1, <1>5, <2>1, <2>4 DEF PagesInv
<1> QED BY <1>6, <1>7

\* A result is cleared, or the server starts again.
LEMMA ForgetPages == ASSUME PagesInv, Forget PROVE PagesInv'
<1>1. /\ pc' = "idle" /\ pageData' = <<>> /\ pageCounter' = 0 /\ copied' = 0 /\ csv' = <<>> /\ rows' = <<>>
      /\ pageFile' = IF pc = "done" THEN [p \in DOMAIN pageFile |-> <<OldRow>>] ELSE <<>>
    BY DEF Forget
<1>2. \E S : pageFile' \in Seq(S)
  <2>1. PICK P : pageFile \in Seq(P)
      BY DEF PagesInv
  <2>2. [p \in DOMAIN pageFile |-> <<OldRow>>] \in Seq({<<OldRow>>})
      BY <2>1
  <2>3. <<>> \in Seq({})
      OBVIOUS
  <2> QED BY <1>1, <2>2, <2>3
<1>3. \E S : rows' \in Seq(S)
  <2>1. <<>> \in Seq({})
      OBVIOUS
  <2> QED BY <1>1, <2>1
<1>4. Room(0, 0) = 0 /\ Full(0) = 0 /\ Len(<<>>) = 0 /\ SubSeq(<<>>, 1, 0) = <<>>
  <2>1. Room(0, 0) = 0
      BY RoomFacts
  <2> QED BY <2>1, FullNext, SubSeqEmpty
<1>5. PagesHoldRows'
    BY <1>1, <1>4 DEF PagesHoldRows
<1>6. PagesAreFull' /\ CopyProgress'
    BY <1>1, <1>4, ResultAssumption DEF PagesAreFull, CopyProgress, Collecting
<1>7. pageCounter' \in 0 .. Len(pageFile') /\ copied' \in 0 .. pageCounter'
    BY <1>1, <1>2
<1> QED BY <1>1, <1>2, <1>3, <1>5, <1>6, <1>7 DEF PagesInv

\* What a group adds to the result is one row or none.
LEMMA OneRowOrNone == GroupResult = <<>> \/ \E x : GroupResult = <<x>>
BY DEF GroupResult

\* Every step keeps the pages right.
LEMMA NextPages == ASSUME PagesInv, [Next]_vars PROVE PagesInv'
<1>1. CASE executeJOIN \/ executeGROUPBY
    BY <1>1, PagesKept DEF executeJOIN, executeGROUPBY, BeginJoin, BeginGroup, Collecting
<1>2. CASE Match
  <2>1. Collect(<< <<row1, row2>> >>) /\ pc = "outer" /\ pc' = "left"
      BY <1>2 DEF Match, AtRows
  <2> QED BY <2>1, CollectPages DEF Collecting
<1>3. CASE MatchLeft
  <2>1. CASE Collect(<< <<inner, row2>> >>) /\ pc' = pc
      BY <1>3, <2>1, CollectPages DEF Collecting, MatchLeft
  <2>2. CASE pc' = "right" /\ UNCHANGED <<pageData, pageFile, pageCounter, copied, csv, rows>>
      BY <1>3, <2>2, PagesKept DEF Collecting, MatchLeft
  <2> QED BY <1>3, <2>1, <2>2 DEF MatchLeft
<1>4. CASE MatchRight
  <2>1. CASE Collect(<< <<row1, inner>> >>) /\ pc' = pc
      BY <1>4, <2>1, CollectPages DEF Collecting, MatchRight
  <2>2. CASE pc' = "outer" /\ UNCHANGED <<pageData, pageFile, pageCounter, copied, csv, rows>>
      BY <1>4, <2>2, PagesKept DEF Collecting, MatchRight
  <2> QED BY <1>4, <2>1, <2>2 DEF MatchRight
<1>5. CASE NullCondition \/ Mismatch \/ EndOfTable
    BY <1>5, PagesKept DEF NullCondition, Mismatch, EndOfTable, AtRows, Collecting, resultVars
<1>6. CASE NextRow
  <2>1. pc = "row" /\ pc' = "row" /\ \E new : (new = <<>> \/ \E x : new = <<x>>) /\ Collect(new)
    <3>1. Collect(GroupResult) \/ Collect(<<>>)
        BY <1>6 DEF NextRow
    <3> QED BY <3>1, <1>6, OneRowOrNone DEF NextRow
  <2> QED BY <2>1, CollectPages DEF Collecting
<1>7. CASE UNCHANGED vars
  <2>1. PICK full : full = Full(pageCounter)
      OBVIOUS
  <2>2. full' = full /\ Full(pageCounter') = full
      BY <1>7, <2>1 DEF vars, resultVars
  <2>3. PagesAreFull'
      BY <1>7, <2>1, <2>2 DEF PagesInv, PagesAreFull, vars, resultVars
  <2>4. PagesHoldRows' /\ CopyProgress'
      BY <1>7 DEF PagesInv, PagesHoldRows, CopyProgress, vars, resultVars
  <2> QED BY <1>7, <2>3, <2>4 DEF PagesInv, vars, resultVars
<1>8. CASE Forget
    BY <1>8, ForgetPages
<1>9. CASE LastGroup \/ WriteLastPage \/ CopyPage
    BY <1>9, LastGroupPages, LastPageWritten, PageCopied
<1> QED BY <1>1, <1>2, <1>3, <1>4, <1>5, <1>6, <1>7, <1>8, <1>9
        DEF Next, Running, JoinStep, GroupStep, NextAssignment

\* Nothing is produced at the start.
LEMMA InitPages == Init => PagesInv
<1> SUFFICES ASSUME Init PROVE PagesInv
    OBVIOUS
<1>1. /\ pc = "idle" /\ pageFile = <<>> /\ pageData = <<>> /\ pageCounter = 0 /\ copied = 0
      /\ csv = <<>> /\ rows = <<>>
    BY DEF Init, ResultInit, NoResult
<1>2. <<>> \in Seq({})
    OBVIOUS
<1>3. Room(0, 0) = 0 /\ Full(0) = 0 /\ Len(<<>>) = 0 /\ SubSeq(<<>>, 1, 0) = <<>>
  <2>1. Room(0, 0) = 0
      BY RoomFacts
  <2> QED BY <2>1, FullNext, SubSeqEmpty
<1>4. PagesHoldRows
    BY <1>1, <1>3 DEF PagesHoldRows
<1>5. PagesAreFull /\ CopyProgress
    BY <1>1, <1>3, ResultAssumption DEF PagesAreFull, CopyProgress, Collecting
<1> QED BY <1>1, <1>2, <1>3, <1>4, <1>5 DEF PagesInv

\* Whatever is joined or grouped, and whatever page files earlier results left,
\* the pages and the .csv of a result hold the rows that were produced.
THEOREM ResultPagesHoldRows == Spec => []PagesHoldRows
<1>1. Spec => []PagesInv
    BY InitPages, NextPages, PTL DEF Spec
<1>2. PagesInv => PagesHoldRows
    BY DEF PagesInv
<1> QED BY <1>1, <1>2, PTL
-----------------------------------------------------------------------------
(***************************************************************************)
(* The merge of JoinRows: for all tables that are sorted on their join     *)
(* columns, and for every condition, a JOIN has each pair of rows that     *)
(* matches, once, and no other.                                            *)
(***************************************************************************)

(* What one comparison says about the rows behind *)

\* Rows are sorted, the same row included.
LEMMA Sorted ==
    ASSUME NEW t \in Seq(Int), Ascends(t), NEW i \in 1 .. Len(t), NEW j \in i .. Len(t)
    PROVE  t[i] \in Int /\ t[j] \in Int /\ t[i] <= t[j]
<1>1. CASE i = j
    BY <1>1
<1>2. CASE i < j
    BY <1>2 DEF Ascends
<1> QED BY <1>1, <1>2

\* Where the run through the left table stops, nothing further matches the row.
LEMMA LeftRunStops ==
    ASSUME NEW op, NEW t \in Seq(Int), Ascends(t), NEW b \in Int, NEW i \in 1 .. Len(t), NEW k \in i .. Len(t),
           Holds(op, t[i], b), ~Holds(op, t[k], b), NEW m \in k .. Len(t)
    PROVE  ~Holds(op, t[m], b)
<1>1. /\ t[i] \in Int /\ t[k] \in Int /\ t[m] \in Int /\ t[i] <= t[k] /\ t[k] <= t[m]
  <2>1. k \in 1 .. Len(t)
      OBVIOUS
  <2> QED BY <2>1, Sorted
<1> QED BY <1>1 DEF Holds

LEMMA RightRunStops ==
    ASSUME NEW op, NEW t \in Seq(Int), Ascends(t), NEW a \in Int, NEW i \in 1 .. Len(t), NEW k \in i .. Len(t),
           Holds(op, a, t[i]), ~Holds(op, a, t[k]), NEW m \in k .. Len(t)
    PROVE  ~Holds(op, a, t[m])
<1>1. /\ t[i] \in Int /\ t[k] \in Int /\ t[m] \in Int /\ t[i] <= t[k] /\ t[k] <= t[m]
  <2>1. k \in 1 .. Len(t)
      OBVIOUS
  <2> QED BY <2>1, Sorted
<1> QED BY <1>1 DEF Holds

\* A row that is left behind after a mismatch matches nothing further.
LEMMA RightRowIsDone ==
    ASSUME NEW op \in BinaryOperators, NEW t \in Seq(Int), Ascends(t), NEW b \in Int, NEW i \in 1 .. Len(t),
           ~Holds(op, t[i], b), op \in {"<", "<="} \/ (op = "==" /\ t[i] > b), NEW m \in i .. Len(t)
    PROVE  ~Holds(op, t[m], b)
<1>1. t[i] \in Int /\ t[m] \in Int /\ t[i] <= t[m]
    BY Sorted
<1> QED BY <1>1 DEF Holds

LEMMA LeftRowIsDone ==
    ASSUME NEW op \in BinaryOperators, NEW t \in Seq(Int), Ascends(t), NEW a \in Int, NEW i \in 1 .. Len(t),
           op # "!=", ~Holds(op, a, t[i]), ~(op \in {"<", "<="} \/ (op = "==" /\ a > t[i])), NEW m \in i .. Len(t)
    PROVE  ~Holds(op, a, t[m])
<1>1. t[i] \in Int /\ t[m] \in Int /\ t[i] <= t[m]
    BY Sorted
<1> QED BY <1>1 DEF Holds, BinaryOperators

-----------------------------------------------------------------------------
(* The rows of the result as a set *)

Distinct(s) == \A i, j \in DOMAIN s : s[i] = s[j] => i = j

\* A new row is added to the set, and no row is there twice.
LEMMA RowAdded ==
    ASSUME NEW S, NEW s \in Seq(S), NEW x
    PROVE  /\ ToSet(s \o <<x>>) = ToSet(s) \cup {x}
           /\ Distinct(s) /\ x \notin ToSet(s) => Distinct(s \o <<x>>)
<1> DEFINE T == S \cup {x}
<1>1. s \in Seq(T) /\ x \in T
    OBVIOUS
<1> HIDE DEF T
<1>2. PICK long : long = s \o <<x>>
    OBVIOUS
<1>3. /\ long \in Seq(T) /\ Len(long) = Len(s) + 1
      /\ \A i \in 1 .. Len(s) : long[i] = s[i]
      /\ long[Len(s) + 1] = x
    BY <1>1, <1>2, OneMore
<1>4. DOMAIN s = 1 .. Len(s) /\ DOMAIN long = 1 .. Len(s) + 1 /\ Len(s) \in Nat
    BY <1>3
<1>5. ToSet(long) = ToSet(s) \cup {x}
  <2>1. \A i \in 1 .. Len(s) + 1 : i \in 1 .. Len(s) \/ i = Len(s) + 1
      BY <1>4
  <2> QED BY <2>1, <1>3, <1>4 DEF ToSet
<1>6. ASSUME Distinct(s), x \notin ToSet(s) PROVE Distinct(long)
  <2>1. \A i \in 1 .. Len(s) : s[i] # x
      BY <1>4, <1>6 DEF ToSet
  <2>2. ASSUME NEW i \in DOMAIN long, NEW j \in DOMAIN long, long[i] = long[j] PROVE i = j
    <3>1. CASE i \in 1 .. Len(s) /\ j \in 1 .. Len(s)
        BY <3>1, <2>2, <1>3, <1>4, <1>6 DEF Distinct
    <3>2. CASE i = Len(s) + 1
        BY <3>2, <2>1, <2>2, <1>3, <1>4
    <3>3. CASE j = Len(s) + 1
        BY <3>3, <2>1, <2>2, <1>3, <1>4
    <3> QED BY <3>1, <3>2, <3>3, <1>4
  <2> QED BY <2>2 DEF Distinct
<1> QED BY <1>2, <1>5, <1>6

-----------------------------------------------------------------------------
(* The invariant *)

\* The two copies are sorted.
TablesInv ==
    /\ left \in Seq(Int) /\ right \in Seq(Int)
    /\ Ascends(left) /\ Ascends(right)

\* There is a join.
Joining == binOp \in BinaryOperators

\* The condition and the places of the cursors.
CursorsInv ==
    /\ Joining \/ NoJoin
    /\ pc \in {"outer", "left", "right"} => Joining
    /\ pc \in {"idle", "row"} => NoJoin
    /\ Joining => row1 \in 1 .. Len(left) + 1 /\ row2 \in 1 .. Len(right) + 1
    /\ pc \in {"left", "right"} =>
          row1 <= Len(left) /\ row2 <= Len(right) /\ Holds(binOp, left[row1], right[row2])
    /\ pc = "left" => inner \in row1 + 1 .. Len(left) + 1
    /\ pc = "right" => inner \in row2 + 1 .. Len(right) + 1
    /\ pc \notin {"left", "right"} => inner = 0

\* The matching pairs that have been produced.
Produced ==
    CASE pc = "outer" -> {p \in Matching : p[1] < row1 \/ p[2] < row2}
      [] pc = "left"  -> {p \in Matching : p[1] < row1 \/ p[2] < row2 \/ (p[1] < inner /\ p[2] = row2)}
      [] pc = "right" -> {p \in Matching : p[1] < row1 \/ p[2] <= row2 \/ (p[1] = row1 /\ p[2] < inner)}
      [] OTHER        -> Matching

PairsInv ==
    /\ pc = "idle" => rows = <<>>
    /\ Joining /\ pc # "crashed" => Distinct(rows) /\ ToSet(rows) = Produced

JoinInv == PagesInv /\ TablesInv /\ CursorsInv /\ PairsInv

-----------------------------------------------------------------------------
(* The steps of the merge *)

\* What a matching pair is, component by component.
LEMMA PairParts ==
    ASSUME TablesInv, NEW p \in Matching
    PROVE  /\ p[1] \in 1 .. Len(left) /\ p[2] \in 1 .. Len(right) /\ p = <<p[1], p[2]>>
           /\ p[1] \in Int /\ p[2] \in Int
           /\ Holds(binOp, left[p[1]], right[p[2]])
BY DEF Matching, TablesInv

\* A pair that is not there yet is produced.
LEMMA PairProduced ==
    ASSUME PagesInv, PairsInv, Joining, pc # "crashed", NEW x, x \notin Produced, Collect(<<x>>)
    PROVE  Distinct(rows') /\ ToSet(rows') = Produced \cup {x}
<1>1. PICK S : rows \in Seq(S)
    BY DEF PagesInv
<1>2. Distinct(rows) /\ ToSet(rows) = Produced
    BY DEF PairsInv
<1>3. rows' = rows \o <<x>>
    BY DEF Collect
<1> HIDE DEF Produced
<1> QED BY <1>1, <1>2, <1>3, RowAdded

LEMMA MatchPairs == ASSUME JoinInv, Match PROVE CursorsInv' /\ PairsInv'
<1>1. PagesInv /\ TablesInv /\ CursorsInv /\ PairsInv
    BY DEF JoinInv
<1>2. /\ pc = "outer" /\ pc' = "left"
      /\ UNCHANGED <<binOp, left, right, row1, row2>> /\ inner' = row1 + 1
      /\ row1 <= Len(left) /\ row2 <= Len(right) /\ Holds(binOp, left[row1], right[row2])
    BY DEF Match, AtRows
<1>3. Collect(<< <<row1, row2>> >>)
    BY DEF Match
<1>4. PICK m, n : m = Len(left) /\ n = Len(right)
    OBVIOUS
<1>5. m \in Nat /\ n \in Nat
    BY <1>1, <1>4 DEF TablesInv
<1>6. Joining /\ row1 \in 1 .. m /\ row2 \in 1 .. n
    BY <1>1, <1>2, <1>4, <1>5 DEF CursorsInv
<1>7. CursorsInv'
  <2>1. Holds(binOp, left[row1], right[row2])'
      BY <1>2 DEF Holds
  <2>2. inner' \in row1' + 1 .. Len(left') + 1
      BY <1>2, <1>4, <1>6
  <2>3. Joining'
      BY <1>2, <1>6 DEF Joining
  <2> QED BY <2>1, <2>2, <2>3, <1>1, <1>2, <1>6 DEF CursorsInv
<1>8. PICK x : x = <<row1, row2>>
    OBVIOUS
<1>9. x \in Matching /\ x[1] = row1 /\ x[2] = row2
    BY <1>2, <1>4, <1>6, <1>8 DEF Matching
<1>10. PICK M : M = Matching /\ Matching' = M
    BY <1>2 DEF Matching, Holds
<1>11. \A p \in M : p[1] \in Int /\ p[2] \in Int /\ p = <<p[1], p[2]>>
    BY <1>1, <1>10, PairParts
<1>12. /\ Produced = {p \in M : p[1] < row1 \/ p[2] < row2}
       /\ Produced' = {p \in M : p[1] < row1 \/ p[2] < row2 \/ (p[1] < row1 + 1 /\ p[2] = row2)}
    BY <1>2, <1>10 DEF Produced
<1>13. x \notin Produced /\ Produced' = Produced \cup {x}
    BY <1>6, <1>8, <1>9, <1>10, <1>11, <1>12
<1>14. Distinct(rows') /\ ToSet(rows') = Produced \cup {x}
  <2>1. Collect(<<x>>) /\ pc # "crashed"
      BY <1>2, <1>3, <1>8
  <2> QED BY <2>1, <1>1, <1>6, <1>13, PairProduced
<1> QED BY <1>2, <1>7, <1>13, <1>14 DEF PairsInv

\* One more row of the left table is compared with the row of the right one.
LEMMA MatchLeftPairs == ASSUME JoinInv, MatchLeft PROVE CursorsInv' /\ PairsInv'
<1>1. PagesInv /\ TablesInv /\ CursorsInv /\ PairsInv
    BY DEF JoinInv
<1>2. pc = "left" /\ UNCHANGED <<binOp, left, right, row1, row2>>
    BY DEF MatchLeft
<1>3. PICK m, n : m = Len(left) /\ n = Len(right)
    OBVIOUS
<1>4. m \in Nat /\ n \in Nat
    BY <1>1, <1>3 DEF TablesInv
<1>5. /\ Joining /\ row1 \in 1 .. m /\ row2 \in 1 .. n /\ inner \in row1 + 1 .. m + 1
      /\ Holds(binOp, left[row1], right[row2])
    BY <1>1, <1>2, <1>3, <1>4 DEF CursorsInv
<1>6. Joining' /\ Holds(binOp, left[row1], right[row2])'
    BY <1>2, <1>5 DEF Joining, Holds
<1>7. PICK M : M = Matching /\ Matching' = M
    BY <1>2 DEF Matching, Holds
<1>8. \A p \in M : /\ p[1] \in 1 .. m /\ p[2] \in 1 .. n /\ p = <<p[1], p[2]>>
                   /\ p[1] \in Int /\ p[2] \in Int /\ Holds(binOp, left[p[1]], right[p[2]])
    BY <1>1, <1>3, <1>7, PairParts
<1>9. Produced = {p \in M : p[1] < row1 \/ p[2] < row2 \/ (p[1] < inner /\ p[2] = row2)}
    BY <1>2, <1>7 DEF Produced
<1>10. CASE inner <= m /\ Holds(binOp, left[inner], right[row2])
  <2>1. Collect(<< <<inner, row2>> >>) /\ inner' = inner + 1 /\ pc' = "left"
      BY <1>2, <1>3, <1>10 DEF MatchLeft
  <2>2. CursorsInv'
    <3>1. inner' \in row1' + 1 .. Len(left') + 1
        BY <2>1, <1>2, <1>3, <1>5, <1>10
    <3> QED BY <3>1, <2>1, <1>1, <1>2, <1>5, <1>6 DEF CursorsInv
  <2>3. PICK x : x = <<inner, row2>>
      OBVIOUS
  <2>4. x \in M /\ x[1] = inner /\ x[2] = row2
      BY <2>3, <1>3, <1>4, <1>5, <1>7, <1>10 DEF Matching
  <2>5. Produced' = {p \in M : p[1] < row1 \/ p[2] < row2 \/ (p[1] < inner + 1 /\ p[2] = row2)}
      BY <2>1, <1>2, <1>7 DEF Produced
  <2>6. x \notin Produced /\ Produced' = Produced \cup {x}
      BY <2>3, <2>4, <2>5, <1>5, <1>8, <1>9
  <2>7. Distinct(rows') /\ ToSet(rows') = Produced \cup {x}
    <3>1. Collect(<<x>>) /\ pc # "crashed"
        BY <2>1, <2>3, <1>2
    <3> QED BY <3>1, <2>6, <1>1, <1>5, PairProduced
  <2> QED BY <2>1, <2>2, <2>6, <2>7 DEF PairsInv
<1>11. CASE ~(inner <= m /\ Holds(binOp, left[inner], right[row2]))
  <2>1. inner' = row2 + 1 /\ pc' = "right" /\ rows' = rows
      BY <1>2, <1>3, <1>11 DEF MatchLeft
  <2>2. CursorsInv'
    <3>1. inner' \in row2' + 1 .. Len(right') + 1
        BY <2>1, <1>2, <1>3, <1>5
    <3> QED BY <3>1, <2>1, <1>1, <1>2, <1>5, <1>6 DEF CursorsInv
  <2>3. ASSUME NEW p \in M, p[2] = row2 PROVE p[1] < inner
    <3> SUFFICES ASSUME inner <= p[1] PROVE FALSE
        BY <1>5, <1>8
    <3>1. PICK i, k, l, b : i = row1 /\ k = inner /\ l = p[1] /\ b = right[row2]
        OBVIOUS
    <3>2. /\ i \in 1 .. Len(left) /\ k \in i .. Len(left) /\ l \in k .. Len(left)
          /\ Holds(binOp, left[i], b) /\ ~Holds(binOp, left[k], b) /\ Holds(binOp, left[l], b)
        BY <3>1, <2>3, <1>3, <1>4, <1>5, <1>8, <1>11
    <3>3. left \in Seq(Int) /\ Ascends(left) /\ b \in Int
        BY <3>1, <1>1, <1>3, <1>5 DEF TablesInv
    <3> QED BY <3>2, <3>3, LeftRunStops
  <2>4. Produced' = {p \in M : p[1] < row1 \/ p[2] <= row2 \/ (p[1] = row1 /\ p[2] < row2 + 1)}
      BY <2>1, <1>2, <1>7 DEF Produced
  <2>5. Produced' = Produced
    <3>1. \A p \in M : (p[1] < row1 \/ p[2] <= row2 \/ (p[1] = row1 /\ p[2] < row2 + 1))
                          <=> (p[1] < row1 \/ p[2] < row2 \/ (p[1] < inner /\ p[2] = row2))
        BY <2>3, <1>5, <1>8
    <3> QED BY <3>1, <2>4, <1>9
  <2> QED BY <2>1, <2>2, <2>5, <1>1, <1>2, <1>5 DEF PairsInv
<1> QED BY <1>10, <1>11

\* The row of the left table is compared with one more row of the right one.
LEMMA MatchRightPairs == ASSUME JoinInv, MatchRight PROVE CursorsInv' /\ PairsInv'
<1>1. PagesInv /\ TablesInv /\ CursorsInv /\ PairsInv
    BY DEF JoinInv
<1>2. pc = "right" /\ UNCHANGED <<binOp, left, right>>
    BY DEF MatchRight
<1>3. PICK m, n : m = Len(left) /\ n = Len(right)
    OBVIOUS
<1>4. m \in Nat /\ n \in Nat
    BY <1>1, <1>3 DEF TablesInv
<1>5. /\ Joining /\ row1 \in 1 .. m /\ row2 \in 1 .. n /\ inner \in row2 + 1 .. n + 1
      /\ Holds(binOp, left[row1], right[row2])
    BY <1>1, <1>2, <1>3, <1>4 DEF CursorsInv
<1>6. Joining'
    BY <1>2, <1>5 DEF Joining
<1>7. PICK M : M = Matching /\ Matching' = M
    BY <1>2 DEF Matching, Holds
<1>8. \A p \in M : /\ p[1] \in 1 .. m /\ p[2] \in 1 .. n /\ p = <<p[1], p[2]>>
                   /\ p[1] \in Int /\ p[2] \in Int /\ Holds(binOp, left[p[1]], right[p[2]])
    BY <1>1, <1>3, <1>7, PairParts
<1>9. Produced = {p \in M : p[1] < row1 \/ p[2] <= row2 \/ (p[1] = row1 /\ p[2] < inner)}
    BY <1>2, <1>7 DEF Produced
<1>10. CASE inner <= n /\ Holds(binOp, left[row1], right[inner])
  <2>1. /\ Collect(<< <<row1, inner>> >>) /\ inner' = inner + 1 /\ pc' = "right"
        /\ UNCHANGED <<row1, row2>>
      BY <1>2, <1>3, <1>10 DEF MatchRight
  <2>2. CursorsInv'
    <3>1. inner' \in row2' + 1 .. Len(right') + 1
        BY <2>1, <1>2, <1>3, <1>5, <1>10
    <3>2. Holds(binOp, left[row1], right[row2])'
        BY <2>1, <1>2, <1>5 DEF Holds
    <3> QED BY <3>1, <3>2, <2>1, <1>1, <1>2, <1>3, <1>5, <1>6 DEF CursorsInv
  <2>3. PICK x : x = <<row1, inner>>
      OBVIOUS
  <2>4. x \in M /\ x[1] = row1 /\ x[2] = inner
      BY <2>3, <1>3, <1>4, <1>5, <1>7, <1>10 DEF Matching
  <2>5. Produced' = {p \in M : p[1] < row1 \/ p[2] <= row2 \/ (p[1] = row1 /\ p[2] < inner + 1)}
      BY <2>1, <1>2, <1>7 DEF Produced
  <2>6. x \notin Produced /\ Produced' = Produced \cup {x}
      BY <2>3, <2>4, <2>5, <1>5, <1>8, <1>9
  <2>7. Distinct(rows') /\ ToSet(rows') = Produced \cup {x}
    <3>1. Collect(<<x>>) /\ pc # "crashed"
        BY <2>1, <2>3, <1>2
    <3> QED BY <3>1, <2>6, <1>1, <1>5, PairProduced
  <2> QED BY <2>1, <2>2, <2>6, <2>7 DEF PairsInv
<1>11. CASE ~(inner <= n /\ Holds(binOp, left[row1], right[inner]))
  <2>1. inner' = 0 /\ row1' = row1 + 1 /\ row2' = row2 + 1 /\ pc' = "outer" /\ rows' = rows
      BY <1>2, <1>3, <1>11 DEF MatchRight
  <2>2. CursorsInv'
    <3>1. row1' \in 1 .. Len(left') + 1 /\ row2' \in 1 .. Len(right') + 1
        BY <2>1, <1>2, <1>3, <1>4, <1>5
    <3> QED BY <3>1, <2>1, <1>6 DEF CursorsInv
  <2>3. ASSUME NEW p \in M, p[1] = row1 PROVE p[2] < inner
    <3> SUFFICES ASSUME inner <= p[2] PROVE FALSE
        BY <1>5, <1>8
    <3>1. PICK i, k, l, a : i = row2 /\ k = inner /\ l = p[2] /\ a = left[row1]
        OBVIOUS
    <3>2. /\ i \in 1 .. Len(right) /\ k \in i .. Len(right) /\ l \in k .. Len(right)
          /\ Holds(binOp, a, right[i]) /\ ~Holds(binOp, a, right[k]) /\ Holds(binOp, a, right[l])
        BY <3>1, <2>3, <1>3, <1>4, <1>5, <1>8, <1>11
    <3>3. right \in Seq(Int) /\ Ascends(right) /\ a \in Int
        BY <3>1, <1>1, <1>3, <1>5 DEF TablesInv
    <3> QED BY <3>2, <3>3, RightRunStops
  <2>4. Produced' = {p \in M : p[1] < row1 + 1 \/ p[2] < row2 + 1}
      BY <2>1, <1>2, <1>7 DEF Produced
  <2>5. Produced' = Produced
    <3>1. \A p \in M : (p[1] < row1 + 1 \/ p[2] < row2 + 1)
                          <=> (p[1] < row1 \/ p[2] <= row2 \/ (p[1] = row1 /\ p[2] < inner))
        BY <2>3, <1>5, <1>8
    <3> QED BY <3>1, <2>4, <1>9
  <2> QED BY <2>1, <2>2, <2>5, <1>1, <1>2, <1>5 DEF PairsInv
<1> QED BY <1>10, <1>11

\* The row that goes on after a mismatch had no match behind the other row.
LEMMA MismatchPairs == ASSUME JoinInv, Mismatch PROVE CursorsInv' /\ PairsInv'
<1>1. PagesInv /\ TablesInv /\ CursorsInv /\ PairsInv
    BY DEF JoinInv
<1>2. /\ pc = "outer" /\ pc' = "outer" /\ UNCHANGED <<binOp, left, right, inner, rows>>
      /\ row2' = IF RightGoesOn THEN row2 + 1 ELSE row2
      /\ row1' = IF RightGoesOn THEN row1 ELSE row1 + 1
    BY DEF Mismatch, AtRows, resultVars
<1>3. PICK m, n : m = Len(left) /\ n = Len(right)
    OBVIOUS
<1>4. m \in Nat /\ n \in Nat
    BY <1>1, <1>3 DEF TablesInv
<1>5. row1 <= m /\ row2 <= n /\ ~Holds(binOp, left[row1], right[row2])
    BY <1>3 DEF Mismatch, AtRows
<1>6. Joining /\ row1 \in 1 .. m /\ row2 \in 1 .. n /\ inner = 0
    BY <1>1, <1>2, <1>3, <1>4, <1>5 DEF CursorsInv
<1>7. CursorsInv'
  <2>1. Joining'
      BY <1>2, <1>6 DEF Joining
  <2>2. row1' \in 1 .. Len(left') + 1 /\ row2' \in 1 .. Len(right') + 1
      BY <1>2, <1>3, <1>4, <1>6
  <2> QED BY <2>1, <2>2, <1>2, <1>6 DEF CursorsInv
<1>8. PICK M : M = Matching /\ Matching' = M
    BY <1>2 DEF Matching, Holds
<1>9. \A p \in M : /\ p[1] \in 1 .. m /\ p[2] \in 1 .. n
                   /\ p[1] \in Int /\ p[2] \in Int /\ Holds(binOp, left[p[1]], right[p[2]])
    BY <1>1, <1>3, <1>8, PairParts
<1>10. /\ Produced = {p \in M : p[1] < row1 \/ p[2] < row2}
       /\ Produced' = {p \in M : p[1] < row1' \/ p[2] < row2'}
    BY <1>2, <1>8 DEF Produced
<1>11. PICK i, j : i = row1 /\ j = row2
    OBVIOUS
<1>12. /\ left \in Seq(Int) /\ Ascends(left) /\ right \in Seq(Int) /\ Ascends(right)
       /\ i \in 1 .. Len(left) /\ j \in 1 .. Len(right)
       /\ left[i] \in Int /\ right[j] \in Int /\ ~Holds(binOp, left[i], right[j])
    BY <1>1, <1>3, <1>5, <1>6, <1>11 DEF TablesInv
<1>13. Produced' = Produced
  <2>1. CASE RightGoesOn
    <3>1. ASSUME NEW p \in M, p[2] = j, i <= p[1] PROVE FALSE
      <4>1. PICK l : l = p[1]
          OBVIOUS
      <4>2. l \in i .. Len(left) /\ Holds(binOp, left[l], right[j])
          BY <4>1, <3>1, <1>3, <1>9, <1>12
      <4>3. binOp \in {"<", "<="} \/ (binOp = "==" /\ left[i] > right[j])
          BY <2>1, <1>11 DEF RightGoesOn
      <4>4. binOp \in BinaryOperators
          BY <1>6 DEF Joining
      <4> QED BY <4>2, <4>3, <4>4, <1>12, RightRowIsDone
    <3>2. \A p \in M : (p[1] < i \/ p[2] < j + 1) <=> (p[1] < i \/ p[2] < j)
        BY <3>1, <1>9, <1>12
    <3>3. row1' = i /\ row2' = j + 1
        BY <2>1, <1>2, <1>11
    <3> QED BY <3>2, <3>3, <1>10, <1>11
  <2>2. CASE ~RightGoesOn
    <3>1. ASSUME NEW p \in M, p[1] = i, j <= p[2] PROVE FALSE
      <4>1. PICK l : l = p[2]
          OBVIOUS
      <4>2. l \in j .. Len(right) /\ Holds(binOp, left[i], right[l])
          BY <4>1, <3>1, <1>3, <1>9, <1>12
      <4>3. ~(binOp \in {"<", "<="} \/ (binOp = "==" /\ left[i] > right[j]))
          BY <2>2, <1>11 DEF RightGoesOn
      <4>4. binOp \in BinaryOperators /\ binOp # "!="
          BY <1>6 DEF Joining, Mismatch
      <4> QED BY <4>2, <4>3, <4>4, <1>12, LeftRowIsDone
    <3>2. \A p \in M : (p[1] < i + 1 \/ p[2] < j) <=> (p[1] < i \/ p[2] < j)
        BY <3>1, <1>9, <1>12
    <3>3. row1' = i + 1 /\ row2' = j
        BY <2>2, <1>2, <1>11
    <3> QED BY <3>2, <3>3, <1>10, <1>11
  <2> QED BY <2>1, <2>2
<1> QED BY <1>1, <1>2, <1>6, <1>7, <1>13 DEF PairsInv

-----------------------------------------------------------------------------
(* The other steps *)

\* Without a join there is no condition.
LEMMA NoCondition == NoJoin => ~Joining
BY DEF NoJoin, Joining, BinaryOperators

LEMMA BeginJoinPairs == ASSUME JoinInv, executeJOIN PROVE TablesInv' /\ CursorsInv' /\ PairsInv'
<1>1. PICK condition \in BinaryOperators, tables \in JoinTables : BeginJoin(condition, tables[1], tables[2])
    BY DEF executeJOIN
<1>2. tables[1] \in Seq(Int) /\ tables[2] \in Seq(Int)
    BY AssignmentsAssumption
<1>3. /\ pc = "idle" /\ Ascends(tables[1]) /\ Ascends(tables[2])
      /\ binOp' = condition /\ left' = tables[1] /\ right' = tables[2]
      /\ row1' = 1 /\ row2' = 1 /\ inner' = 0 /\ pc' = "outer" /\ rows' = rows
    BY <1>1 DEF BeginJoin
<1>4. Joining'
    BY <1>3 DEF Joining
<1>5. TablesInv'
    BY <1>2, <1>3 DEF TablesInv, Ascends
<1>6. Len(left') \in Nat /\ Len(right') \in Nat
    BY <1>5 DEF TablesInv
<1>7. CursorsInv'
    BY <1>3, <1>4, <1>6 DEF CursorsInv
<1>8. rows' = <<>>
    BY <1>3 DEF JoinInv, PairsInv
<1>9. Distinct(rows') /\ ToSet(rows') = {}
    BY <1>8 DEF Distinct, ToSet
<1>10. Produced' = {}
  <2>1. Produced' = {p \in Matching' : p[1] < 1 \/ p[2] < 1}
      BY <1>3 DEF Produced
  <2>2. \A p \in Matching' : p[1] \in 1 .. Len(left') /\ p[2] \in 1 .. Len(right')
      BY DEF Matching
  <2> QED BY <2>1, <2>2, <1>6
<1> QED BY <1>3, <1>5, <1>7, <1>9, <1>10 DEF PairsInv

\* A table has no more rows: nothing matches behind its end.
LEMMA EndPairs == ASSUME JoinInv, EndOfTable PROVE CursorsInv' /\ PairsInv'
<1>1. PagesInv /\ TablesInv /\ CursorsInv /\ PairsInv
    BY DEF JoinInv
<1>2. pc = "outer" /\ pc' = "last" /\ UNCHANGED <<rows, binOp, left, right, row1, row2, inner>>
    BY DEF EndOfTable, joinVars
<1>3. PICK m, n : m = Len(left) /\ n = Len(right)
    OBVIOUS
<1>4. m \in Nat /\ n \in Nat
    BY <1>1, <1>3 DEF TablesInv
<1>5. Joining /\ row1 \in 1 .. m + 1 /\ row2 \in 1 .. n + 1 /\ inner = 0
    BY <1>1, <1>2, <1>3 DEF CursorsInv
<1>6. ~(row1 <= m /\ row2 <= n)
    BY <1>2, <1>3 DEF EndOfTable, AtRows
<1>7. Joining'
    BY <1>2, <1>5 DEF Joining
<1>8. CursorsInv'
    BY <1>2, <1>3, <1>5, <1>7 DEF CursorsInv
<1>9. PICK M : M = Matching /\ Matching' = M
    BY <1>2 DEF Matching, Holds
<1>10. \A p \in M : p[1] \in 1 .. m /\ p[2] \in 1 .. n
    BY <1>1, <1>3, <1>9, PairParts
<1>11. Produced = {p \in M : p[1] < row1 \/ p[2] < row2} /\ Produced' = M
    BY <1>2, <1>9 DEF Produced
<1>12. Produced' = Produced
    BY <1>4, <1>5, <1>6, <1>10, <1>11
<1> QED BY <1>1, <1>2, <1>5, <1>8, <1>12 DEF PairsInv

\* Steps that are not the merge's leave it as it is.
LEMMA MergeKept ==
    ASSUME JoinInv, UNCHANGED <<rows, joinVars>>, pc \notin {"idle", "outer", "left", "right", "row"},
           pc' \notin {"idle", "outer", "left", "right", "row"}, pc = "crashed" => pc' = "crashed"
    PROVE  CursorsInv' /\ PairsInv'
<1>1. PagesInv /\ TablesInv /\ CursorsInv /\ PairsInv
    BY DEF JoinInv
<1>2. UNCHANGED <<rows, binOp, left, right, row1, row2, inner>>
    BY DEF joinVars
<1>3. Joining' <=> Joining
    BY <1>2 DEF Joining
<1>4. NoJoin' <=> NoJoin
    BY <1>2 DEF NoJoin
<1>5. CursorsInv'
    BY <1>1, <1>2, <1>3, <1>4 DEF CursorsInv
<1>6. PICK M : M = Matching /\ Matching' = M
    BY <1>2 DEF Matching, Holds
<1>7. Produced = M /\ Produced' = M
    BY <1>6 DEF Produced
<1> QED BY <1>1, <1>2, <1>3, <1>5, <1>7 DEF PairsInv

\* Steps of a grouping, and the start of one: there is no join.
LEMMA NoJoinKept ==
    ASSUME JoinInv, NoJoin, UNCHANGED joinVars, pc' \in {"row", "last"}
    PROVE  CursorsInv' /\ PairsInv'
<1>1. NoJoin'
    BY DEF NoJoin, joinVars
<1>2. ~Joining' /\ inner' = 0
    BY <1>1 DEF NoJoin, Joining, BinaryOperators
<1> QED BY <1>1, <1>2 DEF CursorsInv, PairsInv

\* An empty table is sorted.
LEMMA NothingAscends == <<>> \in Seq(Int) /\ Ascends(<<>>)
<1>1. DOMAIN <<>> = {}
    OBVIOUS
<1> QED BY <1>1 DEF Ascends

\* Every step keeps the merge right.
LEMMA NextJoin == ASSUME JoinInv, [Next]_vars PROVE JoinInv'
<1>1. PagesInv /\ TablesInv /\ CursorsInv /\ PairsInv
    BY DEF JoinInv
<1>2. PagesInv'
    BY <1>1, NextPages
<1>3. CASE executeJOIN
    BY <1>2, <1>3, BeginJoinPairs DEF JoinInv
<1>4. CASE Match \/ MatchLeft \/ MatchRight \/ Mismatch \/ EndOfTable
  <2>1. CursorsInv' /\ PairsInv'
      BY <1>4, MatchPairs, MatchLeftPairs, MatchRightPairs, MismatchPairs, EndPairs
  <2>2. UNCHANGED <<left, right>>
      BY <1>4 DEF Match, MatchLeft, MatchRight, Mismatch, EndOfTable, joinVars
  <2>3. TablesInv'
      BY <1>1, <2>2 DEF TablesInv, Ascends
  <2> QED BY <1>2, <2>1, <2>3 DEF JoinInv
<1>5. CASE NullCondition
  <2>1. /\ pc = "outer" /\ pc' = "crashed"
        /\ UNCHANGED <<rows, binOp, left, right, row1, row2, inner>>
      BY <1>5 DEF NullCondition, AtRows, joinVars
  <2>2. TablesInv'
      BY <1>1, <2>1 DEF TablesInv, Ascends
  <2>3. Joining' /\ Joining
      BY <1>1, <2>1 DEF CursorsInv, Joining
  <2>4. CursorsInv' /\ PairsInv'
      BY <1>1, <2>1, <2>3 DEF CursorsInv, PairsInv
  <2> QED BY <1>2, <2>2, <2>4 DEF JoinInv
<1>6. CASE (executeGROUPBY \/ GroupStep) /\ UNCHANGED joinVars
  <2>1. pc \in {"idle", "row"} /\ pc' \in {"row", "last"}
      BY <1>6 DEF executeGROUPBY, BeginGroup, GroupStep, NextRow, LastGroup
  <2>2. NoJoin
      BY <1>1, <2>1 DEF CursorsInv
  <2>3. TablesInv'
      BY <1>1, <1>6 DEF TablesInv, Ascends, joinVars
  <2> QED BY <1>2, <1>6, <2>1, <2>2, <2>3, NoJoinKept DEF JoinInv
<1>7. CASE (WriteLastPage \/ CopyPage) /\ UNCHANGED joinVars
  <2>1. pc \in {"last", "copy"} /\ pc' \in {"copy", "done"} /\ rows' = rows
      BY <1>7 DEF WriteLastPage, CopyPage
  <2>2. TablesInv'
      BY <1>1, <1>7 DEF TablesInv, Ascends, joinVars
  <2> QED BY <1>2, <1>7, <2>1, <2>2, MergeKept DEF JoinInv
<1>8. CASE NextAssignment
  <2>1. /\ pc' = "idle" /\ rows' = <<>> /\ binOp' = "" /\ left' = <<>> /\ right' = <<>>
        /\ row1' = 0 /\ row2' = 0 /\ inner' = 0
      BY <1>8 DEF NextAssignment, Forget, ForgetJoin
  <2>2. TablesInv'
      BY <2>1, NothingAscends DEF TablesInv
  <2>3. NoJoin' /\ ~Joining'
      BY <2>1 DEF NoJoin, Joining, BinaryOperators
  <2>4. CursorsInv' /\ PairsInv'
      BY <2>1, <2>3 DEF CursorsInv, PairsInv
  <2> QED BY <1>2, <2>2, <2>4 DEF JoinInv
<1>9. CASE UNCHANGED vars
  <2>1. UNCHANGED <<pc, rows, binOp, left, right, row1, row2, inner>>
      BY <1>9 DEF vars, resultVars, joinVars
  <2>2. TablesInv'
      BY <1>1, <2>1 DEF TablesInv, Ascends
  <2>3. (Joining' <=> Joining) /\ (NoJoin' <=> NoJoin)
      BY <2>1 DEF Joining, NoJoin
  <2>4. Holds(binOp, left[row1], right[row2])' <=> Holds(binOp, left[row1], right[row2])
      BY <2>1 DEF Holds
  <2>5. CursorsInv'
      BY <1>1, <2>1, <2>3, <2>4 DEF CursorsInv
  <2>6. PICK M : M = Matching /\ Matching' = M
      BY <2>1 DEF Matching, Holds
  <2>7. Produced' = Produced
      BY <2>1, <2>6 DEF Produced
  <2>8. PairsInv'
      BY <1>1, <2>1, <2>3, <2>7 DEF PairsInv
  <2> QED BY <1>2, <2>2, <2>5, <2>8 DEF JoinInv
<1>10. executeGROUPBY => UNCHANGED joinVars
    BY DEF executeGROUPBY
<1> QED BY <1>3, <1>4, <1>5, <1>6, <1>7, <1>8, <1>9, <1>10 DEF Next, Running, JoinStep

\* There is no join at the start.
LEMMA InitJoin == Init => JoinInv
<1> SUFFICES ASSUME Init PROVE JoinInv
    OBVIOUS
<1>1. pc = "idle" /\ rows = <<>> /\ NoJoin
    BY DEF Init, ResultInit, NoResult
<1>2. TablesInv
    BY <1>1, NothingAscends DEF NoJoin, TablesInv
<1>3. ~Joining /\ inner = 0
    BY <1>1, NoCondition DEF NoJoin
<1>4. CursorsInv /\ PairsInv
    BY <1>1, <1>3 DEF CursorsInv, PairsInv
<1> QED BY <1>2, <1>4, InitPages DEF JoinInv

LEMMA JoinInvariant == Spec => []JoinInv
BY InitJoin, NextJoin, PTL DEF Spec

\* Whatever the sorted tables, the condition and the page size, a JOIN produces
\* all matching pairs, once each, and its .csv has them.
THEOREM JoinFindsAllPairs == Spec => []JoinIsComplete
<1>1. ASSUME JoinInv PROVE JoinIsComplete
  <2>1. CASE binOp # "" /\ pc # "crashed"
    <3>1. Joining
      <4>1. binOp # ""
          BY <2>1
      <4>2. Joining \/ NoJoin
          BY <1>1 DEF JoinInv, CursorsInv
      <4> QED BY <4>1, <4>2 DEF NoJoin
    <3>2. Distinct(rows) /\ ToSet(rows) = Produced
        BY <1>1, <2>1, <3>1 DEF JoinInv, PairsInv
    <3>3. pc = "done" => csv = rows
        BY <1>1 DEF JoinInv, PagesInv, PagesHoldRows
    <3>4. pc = "done" => ToSet(csv) = Matching
        BY <3>2, <3>3 DEF Produced
    <3> QED BY <3>2, <3>4 DEF JoinIsComplete, Distinct, Produced
  <2>2. CASE ~(binOp # "" /\ pc # "crashed")
      BY <2>2 DEF JoinIsComplete
  <2> QED BY <2>1, <2>2
<1> QED BY <1>1, JoinInvariant, PTL
-----------------------------------------------------------------------------
(***************************************************************************)
(* The loop of GroupRows: the cursor and the counters stay within the      *)
(* table, and with what is known of pages and cursors this makes the type  *)
(* invariant.                                                              *)
(***************************************************************************)

GroupedRow == [group : Int, value : Int, having : Int]

\* The counters count the rows of a group, which are behind the cursor; and
\* nothing is left of a grouping when another assignment is at work.
GroupInv ==
    /\ table \in Seq(GroupedRow)
    /\ query = NoQuery \/ Accepted(query)
    /\ pc \in {"idle", "outer", "left", "right"} => NoGrouping
    /\ pc = "row" => /\ row \in 1 .. Len(table) + 1
                     /\ aggregateCount \in 0 .. row - 1 /\ havingaggregateCount \in 0 .. row - 1
    /\ row \in 0 .. Len(table) + 1
    /\ aggregateCount \in 0 .. Len(table) /\ havingaggregateCount \in 0 .. Len(table)
    /\ NoJoin \/ NoGrouping

\* A row counts once.
LEMMA CountsOnce == \A name : Counts(name) \in 0 .. 1
BY DEF Counts

LEMMA BeginGroupTypes == ASSUME JoinInv, GroupInv, executeGROUPBY PROVE GroupInv'
<1>1. PICK q \in GroupQueries, sorted \in GroupTables : BeginGroup(q, sorted)
    BY DEF executeGROUPBY
<1>2. sorted \in Seq(GroupedRow)
    BY AssignmentsAssumption DEF GroupedRow
<1>3. /\ pc = "idle" /\ pc' = "row" /\ Accepted(q) /\ query' = q /\ table' = sorted /\ row' = 1
      /\ UNCHANGED <<aggregateCount, havingaggregateCount>> /\ UNCHANGED joinVars
    BY <1>1 DEF BeginGroup, executeGROUPBY
<1>4. aggregateCount = 0 /\ havingaggregateCount = 0
    BY <1>3 DEF GroupInv, NoGrouping
<1>5. NoJoin'
  <2>1. NoJoin
      BY <1>3 DEF JoinInv, CursorsInv
  <2> QED BY <2>1, <1>3 DEF NoJoin, joinVars
<1>6. Accepted(query)'
    BY <1>3 DEF Accepted
<1>7. Len(sorted) \in Nat
    BY <1>2
<1> QED BY <1>2, <1>3, <1>4, <1>5, <1>6, <1>7 DEF GroupInv

LEMMA NextRowTypes == ASSUME JoinInv, GroupInv, NextRow, UNCHANGED joinVars PROVE GroupInv'
<1>1. pc = "row" /\ pc' = "row" /\ row <= Len(table) /\ row' = row + 1 /\ UNCHANGED <<query, table>>
    BY DEF NextRow
<1>2. PICK m : m = Len(table) /\ m \in Nat
  <2>1. Len(table) \in Nat
      BY DEF GroupInv
  <2> QED BY <2>1
<1>3. /\ row \in 1 .. m /\ aggregateCount \in 0 .. row - 1 /\ havingaggregateCount \in 0 .. row - 1
    BY <1>1, <1>2 DEF GroupInv
<1>4. /\ \E n \in {0, aggregateCount} : aggregateCount' = n + Counts(query.returned)
      /\ \E n \in {0, havingaggregateCount} : havingaggregateCount' = n + Counts(query.having)
    BY DEF NextRow
<1>5. aggregateCount' \in 0 .. row /\ havingaggregateCount' \in 0 .. row
    BY <1>3, <1>4, CountsOnce
<1>6. NoJoin'
  <2>1. NoJoin
      BY <1>1 DEF JoinInv, CursorsInv
  <2> QED BY <2>1 DEF NoJoin, joinVars
<1>7. query' = NoQuery \/ Accepted(query)'
    BY <1>1 DEF GroupInv, Accepted
<1>8. /\ row' \in 1 .. Len(table') + 1
      /\ aggregateCount' \in 0 .. row' - 1 /\ havingaggregateCount' \in 0 .. row' - 1
      /\ aggregateCount' \in 0 .. Len(table') /\ havingaggregateCount' \in 0 .. Len(table')
    BY <1>1, <1>2, <1>3, <1>5
<1> QED BY <1>1, <1>6, <1>7, <1>8 DEF GroupInv

\* A step that leaves the grouping alone.
LEMMA GroupKept ==
    ASSUME GroupInv, UNCHANGED groupVars,
           pc' \in {"idle", "outer", "left", "right"} => NoGrouping, pc' = "row" => pc = "row",
           NoGrouping \/ (NoJoin /\ UNCHANGED joinVars)
    PROVE  GroupInv'
<1>1. UNCHANGED <<query, table, row, currentGroupValue, aggregationResult, aggregateCount,
                  havingaggregateResult, havingaggregateCount>>
    BY DEF groupVars
<1>2. NoGrouping' <=> NoGrouping
    BY <1>1 DEF NoGrouping
<1>3. NoJoin' \/ NoGrouping'
    BY <1>2 DEF NoJoin, joinVars
<1>4. query' = NoQuery \/ Accepted(query)'
    BY <1>1 DEF GroupInv, Accepted
<1> QED BY <1>1, <1>2, <1>3, <1>4 DEF GroupInv

LEMMA NextGroup == ASSUME JoinInv, GroupInv, [Next]_vars PROVE GroupInv'
<1>1. CASE executeGROUPBY
    BY <1>1, BeginGroupTypes
<1>2. CASE NextRow /\ UNCHANGED joinVars
    BY <1>2, NextRowTypes
<1>3. CASE executeJOIN \/ (JoinStep /\ UNCHANGED groupVars)
  <2>1. pc \in {"idle", "outer", "left", "right"} /\ pc' # "row" /\ UNCHANGED groupVars
      BY <1>3 DEF executeJOIN, BeginJoin, JoinStep, NullCondition, Match, MatchLeft, MatchRight,
                  Mismatch, EndOfTable, AtRows, resultVars
  <2>2. NoGrouping
      BY <2>1 DEF GroupInv
  <2> QED BY <2>1, <2>2, GroupKept
<1>4. CASE LastGroup /\ UNCHANGED joinVars
  <2>1. pc = "row" /\ pc' = "last" /\ UNCHANGED groupVars
      BY <1>4 DEF LastGroup
  <2>2. NoJoin
      BY <2>1 DEF JoinInv, CursorsInv
  <2> QED BY <1>4, <2>1, <2>2, GroupKept
<1>5. CASE (WriteLastPage \/ CopyPage) /\ UNCHANGED <<joinVars, groupVars>>
  <2>1. pc' \in {"copy", "done"}
      BY <1>5 DEF WriteLastPage, CopyPage
  <2>2. NoGrouping \/ NoJoin
      BY DEF GroupInv
  <2> QED BY <1>5, <2>1, <2>2, GroupKept
<1>6. CASE NextAssignment
  <2>1. pc' = "idle" /\ table' = <<>> /\ query' = NoQuery /\ NoGrouping'
      BY <1>6 DEF NextAssignment, Forget, ForgetGrouping, NoGrouping
  <2>2. row' = 0 /\ aggregateCount' = 0 /\ havingaggregateCount' = 0 /\ Len(table') = 0
      BY <2>1 DEF NoGrouping
  <2>3. table' \in Seq(GroupedRow)
      BY <2>1
  <2> QED BY <2>1, <2>2, <2>3 DEF GroupInv
<1>7. CASE UNCHANGED vars
  <2>1. UNCHANGED <<pc, joinVars, groupVars>>
      BY <1>7 DEF vars, resultVars
  <2> QED BY <2>1, GroupKept DEF GroupInv
<1> QED BY <1>1, <1>2, <1>3, <1>4, <1>5, <1>6, <1>7 DEF Next, Running, GroupStep

LEMMA InitGroup == Init => GroupInv
<1> SUFFICES ASSUME Init PROVE GroupInv
    OBVIOUS
<1>1. pc = "idle" /\ NoJoin /\ NoGrouping
    BY DEF Init, ResultInit
<1>2. table = <<>> /\ query = NoQuery /\ row = 0 /\ aggregateCount = 0 /\ havingaggregateCount = 0
    BY <1>1 DEF NoGrouping
<1>3. table \in Seq(GroupedRow) /\ Len(table) = 0
    BY <1>2
<1> QED BY <1>1, <1>2, <1>3 DEF GroupInv

-----------------------------------------------------------------------------
(* Types *)

\* The page that is being filled has room for the rows in it.
LEMMA PageHasRoom == ASSUME PagesInv PROVE ResultTypeOK
<1>1. PICK S : rows \in Seq(S)
    BY DEF PagesInv
<1>2. PICK k, n : k = pageCounter /\ n = Len(rows)
    OBVIOUS
<1>3. k \in Nat /\ n \in Nat
    BY <1>1, <1>2 DEF PagesInv
<1>4. Full(k) \in Nat
    BY <1>3, FullNext, Zenon
<1>5. Room(k, n) \in 0 .. n
    BY <1>3, RoomFacts
<1>6. n - Room(k, n) <= maxRowsPerBlock
  <2>1. CASE pc \in {"copy", "done"}
    <3>1. n <= Full(k)
        BY <2>1, <1>2 DEF PagesInv, PagesAreFull
    <3> QED BY <3>1, <1>3, RoomFacts, ResultAssumption
  <2>2. CASE pc \notin {"copy", "done"}
    <3>1. Full(k) <= n /\ n <= Full(k) + maxRowsPerBlock
        BY <2>2, <1>2, <1>3, <1>4, ResultAssumption DEF PagesInv, PagesAreFull, Collecting
    <3>2. Room(k, n) = Full(k)
        BY <3>1, <1>3, RoomFacts
    <3> QED BY <3>1, <3>2, <1>3, <1>4, ResultAssumption
  <2> QED BY <2>1, <2>2
<1>7. Len(pageData) = n - Room(k, n)
  <2>1. pageData = SubSeq(rows, Room(k, n) + 1, n)
      BY <1>2 DEF PagesInv, PagesHoldRows
  <2>2. PICK i : i = Room(k, n)
      OBVIOUS
  <2>3. i \in 0 .. n
      BY <2>2, <1>5
  <2>4. \A j \in i + 1 .. n : rows[j] \in S
      BY <2>3, <1>1, <1>2
  <2>5. Len(SubSeq(rows, i + 1, n)) = IF i + 1 <= n THEN n - (i + 1) + 1 ELSE 0
      BY <2>3, <2>4, <1>3, SubSeqProperties
  <2>6. Len(SubSeq(rows, i + 1, n)) = n - i
      BY <2>3, <2>5, <1>3
  <2> QED BY <2>1, <2>2, <2>6
<1> QED BY <1>6, <1>7 DEF PagesInv, ResultTypeOK, Collecting

LEMMA CursorsInTables == ASSUME JoinInv PROVE JoinTypeOK
<1>1. TablesInv /\ CursorsInv
    BY DEF JoinInv
<1>2. PICK m, n : m = Len(left) /\ n = Len(right)
    OBVIOUS
<1>3. m \in Nat /\ n \in Nat
    BY <1>1, <1>2 DEF TablesInv
<1>4. CASE Joining
  <2>1. row1 \in 1 .. m + 1 /\ row2 \in 1 .. n + 1
      BY <1>1, <1>2, <1>4 DEF CursorsInv
  <2>2. inner \in row1 + 1 .. m + 1 \/ inner \in row2 + 1 .. n + 1 \/ inner = 0
      BY <1>1, <1>2 DEF CursorsInv
  <2>3. row1 \in 0 .. m + 1 /\ row2 \in 0 .. n + 1
      BY <2>1, <1>3
  <2>4. inner \in 0 .. m + 1 \/ inner \in 0 .. n + 1
      BY <2>1, <2>2, <1>3
  <2> QED BY <2>3, <2>4, <1>2, <1>4 DEF JoinTypeOK, Joining
<1>5. CASE NoJoin
  <2>1. row1 = 0 /\ row2 = 0 /\ inner = 0
      BY <1>5 DEF NoJoin
  <2>2. binOp \in BinaryOperators \cup {""}
      BY <1>5 DEF NoJoin
  <2>3. row1 \in 0 .. m + 1 /\ row2 \in 0 .. n + 1 /\ inner \in 0 .. m + 1
      BY <2>1, <1>3
  <2> QED BY <2>2, <2>3, <1>2 DEF JoinTypeOK
<1> QED BY <1>1, <1>4, <1>5 DEF CursorsInv

\* Type correctness: a page never has more rows than there is room for, cursors
\* and counters stay within the tables, and JOIN and GROUP BY do not mix.
THEOREM AssignmentsTypes == Spec => []TypeOK
<1>1. Init => JoinInv /\ GroupInv
    BY InitJoin, InitGroup
<1>2. ASSUME JoinInv, GroupInv, [Next]_vars PROVE JoinInv' /\ GroupInv'
    BY <1>2, NextJoin, NextGroup
<1>3. ASSUME JoinInv, GroupInv PROVE TypeOK
  <2>1. ResultTypeOK /\ JoinTypeOK
      BY <1>3, PageHasRoom, CursorsInTables DEF JoinInv
  <2>2. GroupTypeOK
      BY <1>3 DEF GroupInv, GroupTypeOK
  <2> QED BY <1>3, <2>1, <2>2 DEF TypeOK, GroupInv
<1> QED BY <1>1, <1>2, <1>3, PTL DEF Spec

-----------------------------------------------------------------------------
(***************************************************************************)
(* What a GROUP BY produces: for all sorted tables and all clauses, a row  *)
(* for each group that meets HAVING COUNT or HAVING AVG, but none under    *)
(* !=.  At the cursor the aggregates are those of the rows of its group so *)
(* far, and the rows produced are those of the groups that have ended.     *)
(***************************************************************************)

Queries == [having : Aggregates, binOp : BinaryOperators, attributeValue : Int, returned : Aggregates]
Counted == query.having \in {"COUNT", "AVG"}
Answered == Counted /\ query.binOp # "!="

\* What the aggregates are after the rows at the places P of a group.
ResultIs(result, P) ==
    LET values == {0} \cup {ValueOf[i] : i \in P}
    IN  /\ query.returned = "MIN" => result \in values /\ \A v \in values : result <= v
        /\ query.returned = "MAX" => result \in values /\ \A v \in values : v <= result
        /\ query.returned \in {"SUM", "AVG"} => result = Total(ValueOf, P)
CountIs(count, P) == query.returned \in {"COUNT", "AVG"} => count = Cardinality(P)
HavingIs(result, count, P) ==
    /\ count = IF Counted THEN Cardinality(P) ELSE 0
    /\ query.having = "COUNT" => result = Cardinality(P)
    /\ query.having = "AVG" => result = Total(HavingOf, P)

\* The result for the groups of S that meet the condition.
Met(S) == {g \in S \ {NoGroup} : Answered /\ Meets(g)}
Listed(S) == LET met == Ascending(S) IN [i \in DOMAIN met |-> <<met[i], Returned(met[i])>>]

\* The rows behind the cursor, those of its group, and the groups that have ended.
Seen == {i \in DOMAIN table : i < row}
Behind == {i \in Seen : table[i].group = currentGroupValue}
Ended == {table[i].group : i \in Seen} \ {currentGroupValue}

SortedInv == \A i, j \in DOMAIN table : i < j => table[i].group <= table[j].group
CurrentInv == currentGroupValue = IF row = 1 THEN NoGroup ELSE table[row - 1].group
AggregatesInv ==
    /\ ResultIs(aggregationResult, Behind) /\ CountIs(aggregateCount, Behind)
    /\ HavingIs(havingaggregateResult, havingaggregateCount, Behind)
    /\ row = 1 => /\ aggregationResult = 0 /\ aggregateCount = 0
                  /\ havingaggregateResult = 0 /\ havingaggregateCount = 0

AnswerInv ==
    /\ pc = "row" => /\ query \in Queries /\ SortedInv /\ CurrentInv /\ AggregatesInv
                     /\ rows = Listed(Met(Ended))
    /\ pc \in {"last", "copy", "done"} /\ query # NoQuery => rows = Listed(Met(Groups))

\* What is asked depends on nothing else that changes.
LEMMA SameQuestion ==
    ASSUME UNCHANGED <<query, table>>
    PROVE  /\ \A S : Met(S)' = Met(S) /\ Listed(S)' = Listed(S)
           /\ \A a, P : (ResultIs(a, P)' <=> ResultIs(a, P)) /\ (CountIs(a, P)' <=> CountIs(a, P))
           /\ \A a, n, P : HavingIs(a, n, P)' <=> HavingIs(a, n, P)
           /\ Groups' = Groups /\ (SortedInv' <=> SortedInv)
<1>1. \A g : RowsOf(g)' = RowsOf(g)
    BY DEF RowsOf
<1>2. ValueOf' = ValueOf /\ HavingOf' = HavingOf /\ Groups' = Groups /\ (Counted' <=> Counted)
    BY DEF ValueOf, HavingOf, Groups, Counted
<1>3. \A g : (Meets(g)' <=> Meets(g)) /\ Returned(g)' = Returned(g)
    BY <1>1, <1>2 DEF Meets, Satisfies, Returned
<1>4. \A S : Met(S)' = Met(S) /\ Listed(S)' = Listed(S)
    BY <1>2, <1>3 DEF Met, Answered, Listed
<1>5. \A a, P : (ResultIs(a, P)' <=> ResultIs(a, P)) /\ (CountIs(a, P)' <=> CountIs(a, P))
    BY <1>2 DEF ResultIs, CountIs
<1>6. \A a, n, P : HavingIs(a, n, P)' <=> HavingIs(a, n, P)
    BY <1>2 DEF HavingIs
<1>7. SortedInv' <=> SortedInv
    BY DEF SortedInv
<1> QED BY <1>2, <1>4, <1>5, <1>6, <1>7

\* A table as places and two columns.
LEMMA Columns ==
    ASSUME table \in Seq(GroupedRow)
    PROVE  /\ Len(table) \in Nat /\ DOMAIN table = 1 .. Len(table) /\ IsFiniteSet(DOMAIN table)
           /\ \A i \in DOMAIN table : /\ table[i].group \in Int
                                      /\ ValueOf[i] = table[i].value /\ ValueOf[i] \in Int
                                      /\ HavingOf[i] = table[i].having /\ HavingOf[i] \in Int
           /\ \A P \in SUBSET DOMAIN table : IsFiniteSet(P) /\ Cardinality(P) \in Nat
<1>1. Len(table) \in Nat /\ DOMAIN table = 1 .. Len(table)
    OBVIOUS
<1>2. IsFiniteSet(1 .. Len(table))
    BY <1>1, FS_Interval
<1>3. \A P \in SUBSET DOMAIN table : IsFiniteSet(P) /\ Cardinality(P) \in Nat
    BY <1>1, <1>2, FS_Subset, FS_CardinalityType
<1>4. \A i \in DOMAIN table : table[i] \in GroupedRow
    BY <1>1
<1> QED BY <1>1, <1>2, <1>3, <1>4 DEF GroupedRow, ValueOf, HavingOf

\* A total and one row more.
LEMMA TotalGrows ==
    ASSUME NEW f, NEW D, IsFiniteSet(D), \A i \in D : f[i] \in Int, NEW P \in SUBSET D
    PROVE  /\ Total(f, {}) = 0 /\ Total(f, P) \in Int
           /\ \A x \in D \ P : Total(f, P \cup {x}) = Total(f, P) + f[x]
<1>1. \A s : Total(f, s) = SumOf(f, s)
    BY DEF Total, SumOf
<1> QED BY <1>1, SumGrows

\* Before the first row of a group.
LEMMA NothingYet ==
    ASSUME table \in Seq(GroupedRow)
    PROVE  ResultIs(0, {}) /\ CountIs(0, {}) /\ HavingIs(0, 0, {})
<1>1. {} \in SUBSET DOMAIN table /\ IsFiniteSet(DOMAIN table)
    BY Columns
<1>2. Total(ValueOf, {}) = 0 /\ Total(HavingOf, {}) = 0
    BY <1>1, Columns, TotalGrows
<1>4. Cardinality({}) = 0
    BY FS_EmptySet
<1>5. {ValueOf[i] : i \in {}} = {}
    OBVIOUS
<1> QED BY <1>2, <1>4, <1>5 DEF ResultIs, CountIs, HavingIs

\* One row more of the group.
LEMMA RowCounted ==
    ASSUME table \in Seq(GroupedRow), query \in Queries,
           NEW P \in SUBSET DOMAIN table, NEW x \in DOMAIN table \ P,
           NEW a, NEW n, NEW h, NEW m, NEW b, ResultIs(a, P), CountIs(n, P), HavingIs(h, m, P)
    PROVE  /\ ResultIs(Returning(a, table[x].value), P \cup {x})
           /\ CountIs(n + Counts(query.returned), P \cup {x})
           /\ HavingIs(Having(h, table[x].having, b), m + Counts(query.having), P \cup {x})
<1>1. /\ IsFiniteSet(DOMAIN table) /\ IsFiniteSet(P) /\ Cardinality(P) \in Nat
      /\ ValueOf[x] = table[x].value /\ ValueOf[x] \in Int
      /\ HavingOf[x] = table[x].having /\ HavingOf[x] \in Int
      /\ \A i \in P : ValueOf[i] \in Int
    BY Columns
<1>2. Cardinality(P \cup {x}) = Cardinality(P) + 1
    BY <1>1, FS_AddElement
<1>3. Total(ValueOf, P) \in Int /\ Total(ValueOf, P \cup {x}) = Total(ValueOf, P) + ValueOf[x]
  <2> DEFINE D == DOMAIN table
             f == ValueOf
  <2>1. IsFiniteSet(D) /\ P \in SUBSET D /\ x \in D \ P /\ \A i \in D : f[i] \in Int
      BY <1>1, Columns
  <2> HIDE DEF D, f
  <2>2. Total(f, P) \in Int /\ Total(f, P \cup {x}) = Total(f, P) + f[x]
      BY <2>1, TotalGrows
  <2> QED BY <2>2 DEF f
<1>4. Total(HavingOf, P) \in Int /\ Total(HavingOf, P \cup {x}) = Total(HavingOf, P) + HavingOf[x]
  <2> DEFINE D == DOMAIN table
             f == HavingOf
  <2>1. IsFiniteSet(D) /\ P \in SUBSET D /\ x \in D \ P /\ \A i \in D : f[i] \in Int
      BY <1>1, Columns
  <2> HIDE DEF D, f
  <2>2. Total(f, P) \in Int /\ Total(f, P \cup {x}) = Total(f, P) + f[x]
      BY <2>1, TotalGrows
  <2> QED BY <2>2 DEF f
<1>5. query.having \in Aggregates /\ query.returned \in Aggregates
    BY DEF Queries
<1>6. CountIs(n + Counts(query.returned), P \cup {x})
    BY <1>1, <1>2 DEF CountIs, Counts
<1>7. HavingIs(Having(h, table[x].having, b), m + Counts(query.having), P \cup {x})
    BY <1>1, <1>2, <1>4, <1>5 DEF HavingIs, Having, Counts, Counted, Aggregates
<1>8. ResultIs(Returning(a, table[x].value), P \cup {x})
  <2> DEFINE old == {0} \cup {ValueOf[i] : i \in P}
             new == {0} \cup {ValueOf[i] : i \in P \cup {x}}
             v == table[x].value
  <2>1. new = old \cup {v} /\ old \in SUBSET Int /\ v \in Int
      BY <1>1
  <2> HIDE DEF old, new, v
  <2>2. CASE query.returned = "MIN"
    <3>1. a \in old /\ \A w \in old : a <= w
        BY <2>2 DEF ResultIs, old
    <3>2. Returning(a, v) = IF a < v THEN a ELSE v
        BY <2>2 DEF Returning, Smaller
    <3>3. Returning(a, v) \in new /\ \A w \in new : Returning(a, v) <= w
        BY <2>1, <3>1, <3>2
    <3> QED BY <2>2, <3>3 DEF ResultIs, new, v
  <2>3. CASE query.returned = "MAX"
    <3>1. a \in old /\ \A w \in old : w <= a
        BY <2>3 DEF ResultIs, old
    <3>2. Returning(a, v) = IF a > v THEN a ELSE v
        BY <2>3 DEF Returning, Larger
    <3>3. Returning(a, v) \in new /\ \A w \in new : w <= Returning(a, v)
        BY <2>1, <3>1, <3>2
    <3> QED BY <2>3, <3>3 DEF ResultIs, new, v
  <2>4. CASE query.returned \in {"SUM", "AVG"}
    <3>1. a = Total(ValueOf, P) /\ Returning(a, v) = a + v
        BY <2>4 DEF ResultIs, Returning
    <3> QED BY <1>1, <1>3, <2>4, <3>1 DEF ResultIs, v
  <2>5. CASE query.returned = "COUNT"
      BY <2>5 DEF ResultIs
  <2> QED BY <1>5, <2>2, <2>3, <2>4, <2>5 DEF Aggregates
<1> QED BY <1>6, <1>7, <1>8

\* The smallest and the largest of the values at some places, where there is one.
LEMMA LeastValue ==
    ASSUME NEW f, NEW P, IsFiniteSet(P), P # {}, \A i \in P : f[i] \in Int
    PROVE  /\ Min({f[i] : i \in P}) \in {f[i] : i \in P}
           /\ \A j \in P : Min({f[i] : i \in P}) <= f[j]
<1>1. PICK i \in P : \A j \in P : f[i] <= f[j]
    BY LeastPlace
<1> DEFINE values == {f[j] : j \in P}
<1>2. f[i] \in values /\ \A v \in values : f[i] <= v
    BY <1>1
<1>3. \A j \in P : f[j] \in values
    OBVIOUS
<1> HIDE DEF values
<1>4. Min(values) \in values /\ \A v \in values : Min(values) <= v
    BY <1>2 DEF Min
<1> QED BY <1>3, <1>4 DEF values

LEMMA LargestValue ==
    ASSUME NEW f, NEW P, IsFiniteSet(P), P # {}, \A i \in P : f[i] \in Int
    PROVE  /\ Max({f[i] : i \in P}) \in {f[i] : i \in P}
           /\ \A j \in P : f[j] <= Max({f[i] : i \in P})
<1> DEFINE g == [i \in P |-> -f[i]]
<1>1. \A i \in P : g[i] = -f[i] /\ g[i] \in Int /\ f[i] \in Int
    OBVIOUS
<1> HIDE DEF g
<1>2. PICK i \in P : \A j \in P : g[i] <= g[j]
    BY <1>1, LeastPlace
<1> DEFINE values == {f[j] : j \in P}
<1>3. f[i] \in values /\ \A v \in values : f[i] >= v
    BY <1>1, <1>2
<1>4. \A j \in P : f[j] \in values
    OBVIOUS
<1>5. values \in SUBSET Int
    BY <1>1
<1> HIDE DEF values
<1>6. Max(values) \in values /\ \A v \in values : Max(values) >= v
    BY <1>3 DEF Max
<1>7. \A j \in P : f[j] <= Max(values)
    BY <1>4, <1>5, <1>6
<1> QED BY <1>6, <1>7 DEF values

\* When all rows of a group have been counted, RETURN is what it has to be.
LEMMA ResultComplete ==
    ASSUME table \in Seq(GroupedRow), query \in Queries, NEW g \in Groups,
           ResultIs(aggregationResult, RowsOf(g)), CountIs(aggregateCount, RowsOf(g))
    PROVE  ReturnedValue = Returned(g)
<1> DEFINE P == RowsOf(g)
           values == {ValueOf[i] : i \in P}
           a == aggregationResult
<1>1. P # {} /\ P \in SUBSET DOMAIN table
    BY DEF RowsOf, Groups
<1>2. IsFiniteSet(P) /\ \A i \in P : ValueOf[i] \in Int
    BY <1>1, Columns
<1>3. query.returned \in Aggregates
    BY DEF Queries
<1>4. CASE query.returned = "MIN"
  <2>1. Returned(g) = Smaller(0, Min(values)) /\ ReturnedValue = a
      BY <1>4 DEF Returned, Aggregate, ReturnedValue
  <2>2. Min(values) \in values /\ \A i \in P : Min(values) <= ValueOf[i]
    <3> HIDE DEF P
    <3> QED BY <1>1, <1>2, LeastValue
  <2>3. a \in {0} \cup values /\ \A v \in {0} \cup values : a <= v
      BY <1>4 DEF ResultIs
  <2>4. \A v \in values : Min(values) <= v /\ v \in Int
      BY <1>2, <2>2
  <2> HIDE DEF values
  <2>5. a = IF 0 < Min(values) THEN 0 ELSE Min(values)
      BY <2>2, <2>3, <2>4
  <2> QED BY <2>1, <2>5 DEF Smaller
<1>5. CASE query.returned = "MAX"
  <2>1. Returned(g) = Larger(0, Max(values)) /\ ReturnedValue = a
      BY <1>5 DEF Returned, Aggregate, ReturnedValue
  <2>2. Max(values) \in values /\ \A i \in P : ValueOf[i] <= Max(values)
    <3> HIDE DEF P
    <3> QED BY <1>1, <1>2, LargestValue
  <2>3. a \in {0} \cup values /\ \A v \in {0} \cup values : v <= a
      BY <1>5 DEF ResultIs
  <2>4. \A v \in values : v <= Max(values) /\ v \in Int
      BY <1>2, <2>2
  <2> HIDE DEF values
  <2>5. a = IF 0 > Max(values) THEN 0 ELSE Max(values)
      BY <2>2, <2>3, <2>4
  <2> QED BY <2>1, <2>5 DEF Larger
<1>6. CASE query.returned \in {"SUM", "COUNT", "AVG"}
    BY <1>6 DEF Returned, Aggregate, ReturnedValue, ResultIs, CountIs
<1> QED BY <1>3, <1>4, <1>5, <1>6 DEF Aggregates

\* The code's comparison is right for all operators but !=, under which it never holds.
LEMMA HoldsOrNot ==
    ASSUME NEW op \in BinaryOperators, NEW a, NEW b
    PROVE  Holds(op, a, b) <=> op # "!=" /\ Satisfies(op, a, b)
BY DEF BinaryOperators, Holds, Satisfies

\* And the group is in the result if it meets the condition.
LEMMA HavingComplete ==
    ASSUME table \in Seq(GroupedRow), query \in Queries, NEW g \in Groups, g = currentGroupValue,
           HavingIs(havingaggregateResult, havingaggregateCount, RowsOf(g))
    PROVE  Qualifies <=> g \in Met({g})
<1> DEFINE P == RowsOf(g)
<1>1. P # {} /\ P \in SUBSET DOMAIN table
    BY DEF RowsOf, Groups
<1>2. IsFiniteSet(P) /\ Cardinality(P) \in Nat /\ Cardinality(P) # 0
    BY <1>1, Columns, FS_EmptySet
<1> HIDE DEF P
<1>3. CASE Counted
  <2>1. havingaggregateCount = Cardinality(P) /\ havingaggregateCount > 0
      BY <1>2, <1>3 DEF HavingIs, P
  <2>2. HavingValue = Aggregate(query.having, HavingOf, P)
    <3>1. CASE query.having = "COUNT"
        BY <3>1 DEF HavingValue, Aggregate, HavingIs, P
    <3>2. CASE query.having = "AVG"
        BY <2>1, <3>2 DEF HavingValue, Aggregate, HavingIs, P
    <3> QED BY <1>3, <3>1, <3>2 DEF Counted
  <2>3. Qualifies <=> /\ g # NoGroup
                      /\ Holds(query.binOp, Aggregate(query.having, HavingOf, P), query.attributeValue)
      BY <2>1, <2>2 DEF Qualifies
  <2>4. Qualifies <=> g # NoGroup /\ query.binOp # "!=" /\ Meets(g)
    <3>1. query.binOp \in BinaryOperators
        BY DEF Queries
    <3> QED BY <2>3, <3>1, HoldsOrNot DEF Meets, P
  <2> QED BY <1>3, <2>4 DEF Met, Answered
<1>4. CASE ~Counted
  <2>1. havingaggregateCount = 0
      BY <1>4 DEF HavingIs
  <2> QED BY <1>4, <2>1 DEF Qualifies, Met, Answered
<1> QED BY <1>3, <1>4

\* A larger group comes behind the others in the result.
LEMMA ListedGrows ==
    ASSUME NEW S \in SUBSET Int, IsFiniteSet(S), NEW g \in Int, \A x \in S : x < g
    PROVE  Listed(S \cup {g}) = Listed(S) \o << <<g, Returned(g)>> >>
<1> DEFINE s == Ascending(S)
           n == Cardinality(S)
           t == Ascending(S \cup {g})
           Pair(x) == <<x, Returned(x)>>
<1>1. n \in Nat /\ DOMAIN s = 1 .. n /\ s = [i \in 1 .. n |-> s[i]]
    BY FS_CardinalityType DEF Ascending
<1>2. t = s \o <<g>>
    BY AscendingGrows
<1>3. Listed(S) = [i \in DOMAIN s |-> Pair(s[i])] /\ Listed(S \cup {g}) = [i \in DOMAIN t |-> Pair(t[i])]
    BY DEF Listed
<1> HIDE DEF s, t, n, Pair
<1>4. s \in Seq({s[i] : i \in 1 .. n} \cup {g}) /\ Len(s) = n
    BY <1>1
<1>5. DOMAIN t = 1 .. n + 1 /\ t[n + 1] = g /\ \A i \in 1 .. n : t[i] = s[i]
  <2> DEFINE V == {s[i] : i \in 1 .. n} \cup {g}
  <2>1. s \in Seq(V) /\ g \in V
      BY <1>4
  <2> HIDE DEF V
  <2> QED BY <1>1, <1>2, <1>4, <2>1
<1> DEFINE l == Listed(S)
           m == Listed(S \cup {g})
<1>6. l = [i \in 1 .. n |-> Pair(s[i])] /\ m = [i \in 1 .. n + 1 |-> Pair(t[i])]
    BY <1>1, <1>3, <1>5
<1> HIDE DEF l, m
<1> DEFINE W == {Pair(s[i]) : i \in 1 .. n} \cup {Pair(g)}
<1>7. l \in Seq(W) /\ Len(l) = n /\ Pair(g) \in W
    BY <1>1, <1>6
<1> HIDE DEF W
<1> DEFINE k == l \o <<Pair(g)>>
<1>8. DOMAIN k = 1 .. n + 1 /\ k = [i \in 1 .. n + 1 |-> k[i]] /\ k[n + 1] = Pair(g) /\ \A i \in 1 .. n : k[i] = l[i]
  <2>1. k \in Seq(W) /\ Len(k) = n + 1
      BY <1>1, <1>7
  <2>2. k[n + 1] = Pair(g) /\ \A i \in 1 .. n : k[i] = l[i]
      BY <1>1, <1>7
  <2> HIDE DEF k
  <2> QED BY <1>1, <2>1, <2>2
<1> HIDE DEF k
<1>9. \A i \in 1 .. n + 1 : k[i] = m[i]
  <2> TAKE i \in 1 .. n + 1
  <2>1. m[i] = Pair(t[i])
      BY <1>6
  <2>2. CASE i = n + 1
      BY <1>5, <1>8, <2>1, <2>2
  <2>3. CASE i \in 1 .. n
    <3>1. l[i] = Pair(s[i]) /\ t[i] = s[i] /\ k[i] = l[i]
        BY <1>5, <1>6, <1>8, <2>3
    <3> QED BY <2>1, <3>1
  <2> QED BY <1>1, <2>2, <2>3
<1>10. k = m
    BY <1>6, <1>8, <1>9
<1> QED BY <1>10 DEF k, l, m, Pair

\* The groups behind the cursor are those that have ended and, if there is one, its own.
LEMMA CurrentIsLast ==
    ASSUME table \in Seq(GroupedRow), SortedInv, CurrentInv, row \in 2 .. Len(table) + 1
    PROVE  /\ currentGroupValue \in Groups /\ currentGroupValue \in Int
           /\ \A i \in Seen : table[i].group \in Int /\ table[i].group <= currentGroupValue
           /\ {table[i].group : i \in Seen} = Ended \cup {currentGroupValue}
           /\ \A g \in Ended : g \in Int /\ g < currentGroupValue
           /\ Behind # {} /\ IsFiniteSet(Ended)
<1>1. row - 1 \in DOMAIN table /\ row - 1 \in Seen /\ row # 1 /\ currentGroupValue = table[row - 1].group
    BY Columns DEF Seen, CurrentInv
<1>2. currentGroupValue \in Int /\ currentGroupValue \in Groups
    BY <1>1, Columns DEF Groups
<1>3. ASSUME NEW i \in Seen PROVE table[i].group \in Int /\ table[i].group <= currentGroupValue
  <2>1. i \in DOMAIN table /\ i < row /\ i \in Int
      BY Columns DEF Seen
  <2>2. table[i].group \in Int
      BY <2>1, Columns
  <2>3. i = row - 1 \/ i < row - 1
      BY <2>1
  <2> QED BY <1>1, <1>2, <2>1, <2>2, <2>3 DEF SortedInv
<1>4. {table[i].group : i \in Seen} = Ended \cup {currentGroupValue}
    BY <1>1 DEF Ended
<1>5. \A g \in Ended : g \in Int /\ g < currentGroupValue
    BY <1>2, <1>3 DEF Ended
<1>6. row - 1 \in Behind
    BY <1>1 DEF Behind
<1>7. IsFiniteSet(Ended)
  <2>1. IsFiniteSet(Seen)
    <3>1. Seen \in SUBSET DOMAIN table
        BY DEF Seen
    <3> QED BY <3>1, Columns
  <2>2. IsFiniteSet({table[i].group : i \in Seen})
    <3> DEFINE f == [i \in Seen |-> table[i].group]
               image == {table[i].group : i \in Seen}
    <3>1. f \in Surjection(Seen, image)
        BY DEF Surjection
    <3> HIDE DEF f, image
    <3>2. IsFiniteSet(image)
        BY <2>1, <3>1, FS_Surjection
    <3> QED BY <3>2 DEF image
  <2> QED BY <2>2, FS_Subset DEF Ended
<1> QED BY <1>2, <1>3, <1>4, <1>5, <1>6, <1>7

\* A group that ends goes to the result if it meets the condition.
LEMMA GroupEnds ==
    ASSUME table \in Seq(GroupedRow), query \in Queries, SortedInv, CurrentInv, AggregatesInv,
           row \in 1 .. Len(table) + 1,
           row > 1 => \A i \in DOMAIN table : row <= i => table[i].group # currentGroupValue,
           NEW S, rows \in Seq(S), rows = Listed(Met(Ended))
    PROVE  rows \o GroupResult = Listed(Met({table[i].group : i \in Seen}))
<1> DEFINE c == currentGroupValue
           seen == {table[i].group : i \in Seen}
<1>1. rows \o <<>> = rows
    BY ConcatEmptySeq
<1>2. CASE row = 1
  <2>1. Seen = {}
      BY <1>2, Columns DEF Seen
  <2>2. seen = {} /\ Ended = {}
      BY <2>1 DEF Ended
  <2>3. GroupResult = <<>>
      BY <1>2 DEF CurrentInv, GroupResult, Qualifies
  <2> QED BY <1>1, <2>2, <2>3
<1>3. CASE row # 1
  <2>1. row \in 2 .. Len(table) + 1
      BY <1>3, Columns
  <2>2. /\ c \in Groups /\ c \in Int /\ seen = Ended \cup {c} /\ IsFiniteSet(Ended)
        /\ \A g \in Ended : g \in Int /\ g < c
      BY <2>1, CurrentIsLast
  <2>3. Behind = RowsOf(c)
    <3>1. \A i \in DOMAIN table : table[i].group = c => i < row
        BY <2>1, Columns
    <3> QED BY <3>1 DEF Behind, Seen, RowsOf
  <2>4. ReturnedValue = Returned(c) /\ (Qualifies <=> c \in Met({c}))
    <3>1. ReturnedValue = Returned(c)
        BY <2>2, <2>3, ResultComplete DEF AggregatesInv
    <3>2. Qualifies <=> c \in Met({c})
        BY <2>2, <2>3, HavingComplete DEF AggregatesInv
    <3> QED BY <3>1, <3>2
  <2>5. Met(seen) = IF Qualifies THEN Met(Ended) \cup {c} ELSE Met(Ended)
      BY <2>2, <2>4 DEF Met
  <2>6. CASE Qualifies
    <3> DEFINE T == Met(Ended)
    <3>1. T \subseteq Ended
        BY DEF Met
    <3>2. T \in SUBSET Int /\ IsFiniteSet(T) /\ \A x \in T : x < c
        BY <2>2, <3>1, FS_Subset
    <3> HIDE DEF T
    <3>3. Listed(T \cup {c}) = Listed(T) \o << <<c, Returned(c)>> >>
        BY <2>2, <3>2, ListedGrows
    <3> QED BY <2>4, <2>5, <2>6, <3>3 DEF T, GroupResult
  <2>7. CASE ~Qualifies
      BY <1>1, <2>5, <2>7 DEF GroupResult
  <2> QED BY <2>6, <2>7
<1> QED BY <1>2, <1>3

\* The same after a step.
LEMMA NothingYetThen == (table \in Seq(GroupedRow) => ResultIs(0, {}) /\ CountIs(0, {}) /\ HavingIs(0, 0, {}))'
<1>1. table \in Seq(GroupedRow) => ResultIs(0, {}) /\ CountIs(0, {}) /\ HavingIs(0, 0, {})
    BY NothingYet
<1> QED BY <1>1, PTL

\* A grouping begins with nothing counted and nothing produced.
LEMMA BeginGroupAnswer == ASSUME JoinInv, GroupInv, executeGROUPBY PROVE AnswerInv'
<1>1. PICK q \in GroupQueries, sorted \in GroupTables : BeginGroup(q, sorted)
    BY DEF executeGROUPBY
<1>2. /\ pc = "idle" /\ pc' = "row" /\ query' = q /\ table' = sorted /\ row' = 1
      /\ UNCHANGED <<rows, currentGroupValue, aggregationResult, aggregateCount,
                     havingaggregateResult, havingaggregateCount>>
      /\ \A i, j \in DOMAIN sorted : i < j => sorted[i].group <= sorted[j].group
    BY <1>1 DEF BeginGroup
<1>3. /\ currentGroupValue' = NoGroup /\ aggregationResult' = 0 /\ aggregateCount' = 0
      /\ havingaggregateResult' = 0 /\ havingaggregateCount' = 0 /\ rows' = <<>>
    BY <1>2 DEF GroupInv, NoGrouping, JoinInv, PairsInv
<1>4. query' \in Queries /\ table' \in Seq(GroupedRow)
    BY <1>2, AssignmentsAssumption DEF Queries, GroupedRow
<1>5. Seen' = {} /\ Behind' = {} /\ Ended' = {}
  <2>1. DOMAIN sorted = 1 .. Len(sorted) /\ Len(sorted) \in Nat
      BY <1>2, <1>4
  <2>2. Seen' = {}
      BY <1>2, <2>1 DEF Seen
  <2> QED BY <2>2 DEF Behind, Ended
<1>6. (ResultIs(0, {}) /\ CountIs(0, {}) /\ HavingIs(0, 0, {}))'
    BY <1>4, NothingYetThen
<1>7. AggregatesInv'
    BY <1>3, <1>5, <1>6 DEF AggregatesInv
<1>8. SortedInv' /\ CurrentInv'
    BY <1>2, <1>3 DEF SortedInv, CurrentInv
<1>9. rows' = Listed(Met(Ended))'
  <2>1. Met({})' = {}
      BY DEF Met
  <2>2. Ascending({}) = <<>>
    <3>1. Cardinality({}) = 0
        BY FS_EmptySet
    <3> QED BY <3>1 DEF Ascending
  <2>3. Listed({})' = <<>>
      BY <2>2 DEF Listed
  <2> QED BY <1>3, <1>5, <2>1, <2>3
<1> QED BY <1>2, <1>4, <1>7, <1>8, <1>9 DEF AnswerInv

\* A row is counted with those of its group, and none of another group is.
LEMMA NextRowAnswer == ASSUME JoinInv, GroupInv, AnswerInv, NextRow PROVE AnswerInv'
<1> DEFINE next == table[row]
           new == next.group # currentGroupValue
           P == IF new THEN {} ELSE Behind
           SoFar(local) == IF new THEN 0 ELSE local
           sum == SoFar(havingaggregateResult)
<1>1. /\ pc = "row" /\ pc' = "row" /\ row <= Len(table) /\ row' = row + 1 /\ UNCHANGED <<query, table>>
      /\ Collect(IF new THEN GroupResult ELSE <<>>)
      /\ currentGroupValue' = next.group
      /\ aggregationResult' = Returning(SoFar(aggregationResult), next.value)
      /\ aggregateCount' = SoFar(aggregateCount) + Counts(query.returned)
      /\ havingaggregateResult' = Having(sum, next.having, aggregationResult')
      /\ havingaggregateCount' = SoFar(havingaggregateCount) + Counts(query.having)
    BY DEF NextRow
<1>2. /\ query \in Queries /\ SortedInv /\ CurrentInv /\ AggregatesInv /\ rows = Listed(Met(Ended))
      /\ table \in Seq(GroupedRow) /\ row \in 1 .. Len(table) + 1
    BY <1>1 DEF AnswerInv, GroupInv
<1>3. PICK S : rows \in Seq(S)
    BY DEF JoinInv, PagesInv
<1>4. /\ row \in DOMAIN table /\ row \in Nat \ {0} /\ row + 1 # 1 /\ (row + 1) - 1 = row
      /\ next.group \in Int
    BY <1>1, <1>2, Columns
<1>5. Seen' = Seen \cup {row} /\ row \notin Seen
  <2>1. \A i \in DOMAIN table : i < row + 1 <=> i < row \/ i = row
      BY <1>4, Columns
  <2> QED BY <1>1, <1>4, <2>1, Columns DEF Seen
<1>6. ASSUME new PROVE \A i \in Seen : table[i].group # next.group
  <2>1. CASE row = 1
    <3>1. Seen = {}
        BY <2>1, Columns, <1>2 DEF Seen
    <3> QED BY <3>1
  <2>2. CASE row # 1
    <3>1. row \in 2 .. Len(table) + 1
        BY <1>2, <2>2, Columns
    <3>2. /\ currentGroupValue \in Int /\ row - 1 \in DOMAIN table /\ row - 1 < row
          /\ currentGroupValue = table[row - 1].group
          /\ \A i \in Seen : table[i].group \in Int /\ table[i].group <= currentGroupValue
        BY <1>2, <1>4, <2>2, <3>1, CurrentIsLast, Columns DEF CurrentInv
    <3>3. currentGroupValue <= next.group
        BY <1>2, <1>4, <3>2 DEF SortedInv
    <3> QED BY <1>4, <1>6, <3>2, <3>3
  <2> QED BY <2>1, <2>2
<1>7. Behind' = P \cup {row} /\ P \in SUBSET DOMAIN table /\ row \notin P
  <2>1. Behind' = {i \in Seen \cup {row} : table[i].group = next.group}
      BY <1>1, <1>5 DEF Behind
  <2>2. Behind' = {i \in Seen : table[i].group = next.group} \cup {row}
      BY <2>1
  <2>3. {i \in Seen : table[i].group = next.group} = P
    <3>1. CASE new
        BY <1>6, <3>1
    <3>2. CASE ~new
        BY <3>2 DEF Behind
    <3> QED BY <3>1, <3>2
  <2>4. P \subseteq Seen /\ Seen \subseteq DOMAIN table
      BY DEF Behind, Seen
  <2> QED BY <1>5, <2>2, <2>3, <2>4
<1>8. /\ ResultIs(SoFar(aggregationResult), P) /\ CountIs(SoFar(aggregateCount), P)
      /\ HavingIs(sum, SoFar(havingaggregateCount), P)
  <2>1. CASE new
      BY <1>2, <2>1, NothingYet
  <2>2. CASE ~new
      BY <1>2, <2>2 DEF AggregatesInv
  <2> QED BY <2>1, <2>2
<1>9. /\ ResultIs(aggregationResult', Behind') /\ CountIs(aggregateCount', Behind')
      /\ HavingIs(havingaggregateResult', havingaggregateCount', Behind')
  <2> DEFINE a == SoFar(aggregationResult)
             n == SoFar(aggregateCount)
             m == SoFar(havingaggregateCount)
  <2>1. PICK b : b = aggregationResult'
      OBVIOUS
  <2>2. ResultIs(a, P) /\ CountIs(n, P) /\ HavingIs(sum, m, P) /\ row \in DOMAIN table \ P
      BY <1>4, <1>7, <1>8
  <2>3. /\ aggregationResult' = Returning(a, table[row].value)
        /\ aggregateCount' = n + Counts(query.returned)
        /\ havingaggregateResult' = Having(sum, table[row].having, b)
        /\ havingaggregateCount' = m + Counts(query.having)
      BY <1>1, <2>1
  <2> HIDE DEF a, n, m, P, sum, SoFar
  <2>4. /\ ResultIs(Returning(a, table[row].value), P \cup {row})
        /\ CountIs(n + Counts(query.returned), P \cup {row})
        /\ HavingIs(Having(sum, table[row].having, b), m + Counts(query.having), P \cup {row})
      BY <1>2, <1>7, <2>2, RowCounted
  <2> QED BY <1>7, <2>3, <2>4
<1>10. AggregatesInv'
  <2>1. /\ \A a, Q : (ResultIs(a, Q)' <=> ResultIs(a, Q)) /\ (CountIs(a, Q)' <=> CountIs(a, Q))
        /\ \A a, n, Q : HavingIs(a, n, Q)' <=> HavingIs(a, n, Q)
      BY <1>1, SameQuestion
  <2>2. /\ ResultIs(aggregationResult, Behind)' /\ CountIs(aggregateCount, Behind)'
        /\ HavingIs(havingaggregateResult, havingaggregateCount, Behind)'
      BY <1>9, <2>1
  <2>3. row' # 1
      BY <1>1, <1>4
  <2> QED BY <2>2, <2>3 DEF AggregatesInv
<1>11. query' \in Queries /\ SortedInv' /\ CurrentInv'
    BY <1>1, <1>2, <1>4, SameQuestion DEF CurrentInv
<1>12. rows' = Listed(Met(Ended'))
  <2>1. Ended' = ({table[i].group : i \in Seen} \cup {next.group}) \ {next.group}
      BY <1>1, <1>5 DEF Ended
  <2>2. CASE new
    <3>1. Ended' = {table[i].group : i \in Seen}
        BY <1>6, <2>1, <2>2
    <3>2. row > 1 => \A i \in DOMAIN table : row <= i => table[i].group # currentGroupValue
      <4> SUFFICES ASSUME row > 1, NEW i \in DOMAIN table, row <= i PROVE table[i].group # currentGroupValue
          OBVIOUS
      <4>1. row \in 2 .. Len(table) + 1
          BY <1>2, Columns
      <4>2. /\ currentGroupValue \in Int /\ row - 1 \in DOMAIN table /\ row - 1 < row
            /\ currentGroupValue = table[row - 1].group
          BY <1>2, <1>4, <4>1, CurrentIsLast, Columns DEF CurrentInv
      <4>3. currentGroupValue < next.group
          BY <1>2, <1>4, <2>2, <4>2 DEF SortedInv
      <4>4. i = row \/ row < i
          BY <1>4, Columns
      <4>5. table[i].group \in Int /\ next.group <= table[i].group
          BY <1>2, <1>4, <4>4, Columns DEF SortedInv
      <4> QED BY <1>4, <4>2, <4>3, <4>5
    <3>3. rows \o GroupResult = Listed(Met({table[i].group : i \in Seen}))
        BY <1>2, <1>3, <3>2, GroupEnds
    <3>4. rows' = rows \o GroupResult
        BY <1>1, <2>2 DEF Collect
    <3> QED BY <3>1, <3>3, <3>4
  <2>3. CASE ~new
    <3>1. Ended' = Ended
        BY <2>1, <2>3 DEF Ended
    <3>2. rows' = rows \o <<>>
        BY <1>1, <2>3 DEF Collect
    <3>3. rows \o <<>> = rows
        BY <1>3, ConcatEmptySeq
    <3> QED BY <1>2, <3>1, <3>2, <3>3
  <2> QED BY <2>2, <2>3
<1>13. rows' = Listed(Met(Ended))'
  <2>1. \A T : Met(T)' = Met(T) /\ Listed(T)' = Listed(T)
      BY <1>1, SameQuestion
  <2> QED BY <1>12, <2>1
<1> QED BY <1>1, <1>10, <1>11, <1>13 DEF AnswerInv

\* The last group ends with the table.
LEMMA LastGroupAnswer == ASSUME JoinInv, GroupInv, AnswerInv, LastGroup PROVE AnswerInv'
<1>1. /\ pc = "row" /\ pc' = "last" /\ row > Len(table) /\ rows' = rows \o GroupResult
      /\ UNCHANGED <<query, table>>
    BY DEF LastGroup, groupVars
<1>2. /\ query \in Queries /\ SortedInv /\ CurrentInv /\ AggregatesInv /\ rows = Listed(Met(Ended))
      /\ table \in Seq(GroupedRow) /\ row \in 1 .. Len(table) + 1
    BY <1>1 DEF AnswerInv, GroupInv
<1>3. PICK S : rows \in Seq(S)
    BY DEF JoinInv, PagesInv
<1>4. \A i \in DOMAIN table : i < row /\ ~(row <= i)
    BY <1>1, <1>2, Columns
<1>5. Seen = DOMAIN table
    BY <1>4 DEF Seen
<1>6. {table[i].group : i \in Seen} = Groups
    BY <1>5 DEF Groups
<1>7. rows' = Listed(Met(Groups))
  <2>1. rows \o GroupResult = Listed(Met({table[i].group : i \in Seen}))
      BY <1>2, <1>3, <1>4, GroupEnds
  <2> QED BY <1>1, <1>6, <2>1
<1>8. rows' = Listed(Met(Groups))'
  <2>1. Groups' = Groups /\ \A T : Met(T)' = Met(T) /\ Listed(T)' = Listed(T)
      BY <1>1, SameQuestion
  <2> QED BY <1>7, <2>1
<1> QED BY <1>1, <1>8 DEF AnswerInv

\* Steps that produce nothing: what was asked stays, and is answered.
LEMMA AnswerKept ==
    ASSUME AnswerInv, UNCHANGED <<rows, query, table>>, pc' # "row",
           pc' \in {"last", "copy", "done"} => pc \in {"last", "copy", "done"}
    PROVE  AnswerInv'
<1>1. Groups' = Groups /\ \A T : Met(T)' = Met(T) /\ Listed(T)' = Listed(T)
    BY SameQuestion
<1>2. Listed(Met(Groups))' = Listed(Met(Groups))
    BY <1>1
<1> QED BY <1>2 DEF AnswerInv

\* There is no question.
LEMMA NoAnswer == ASSUME query' = NoQuery, pc' # "row" PROVE AnswerInv'
BY DEF AnswerInv, NoQuery

LEMMA NextAnswer == ASSUME JoinInv, GroupInv, AnswerInv, [Next]_vars PROVE AnswerInv'
<1>1. CASE executeGROUPBY
    BY <1>1, BeginGroupAnswer
<1>2. CASE NextRow
    BY <1>2, NextRowAnswer
<1>3. CASE LastGroup
    BY <1>3, LastGroupAnswer
<1>4. CASE executeJOIN \/ (JoinStep /\ UNCHANGED groupVars)
  <2>1. pc \in {"idle", "outer", "left", "right"} /\ pc' # "row" /\ UNCHANGED groupVars
      BY <1>4 DEF executeJOIN, BeginJoin, JoinStep, NullCondition, Match, MatchLeft, MatchRight,
                  Mismatch, EndOfTable, AtRows, resultVars
  <2>2. query' = NoQuery
      BY <2>1 DEF GroupInv, NoGrouping, groupVars
  <2> QED BY <2>1, <2>2, NoAnswer
<1>5. CASE (WriteLastPage \/ CopyPage) /\ UNCHANGED <<joinVars, groupVars>>
  <2>1. pc \in {"last", "copy"} /\ pc' \in {"copy", "done"} /\ UNCHANGED <<rows, query, table>>
      BY <1>5 DEF WriteLastPage, CopyPage, groupVars
  <2> QED BY <2>1, AnswerKept
<1>6. CASE NextAssignment
  <2>1. pc' = "idle" /\ query' = NoQuery
      BY <1>6 DEF NextAssignment, Forget, ForgetGrouping
  <2> QED BY <2>1, NoAnswer
<1>7. CASE UNCHANGED vars
  <2>1. UNCHANGED <<pc, rows, query, table, row, currentGroupValue, aggregationResult, aggregateCount,
                    havingaggregateResult, havingaggregateCount>>
      BY <1>7 DEF vars, resultVars, groupVars
  <2>2. /\ Groups' = Groups /\ (SortedInv' <=> SortedInv) /\ \A T : Met(T)' = Met(T) /\ Listed(T)' = Listed(T)
        /\ \A a, P : (ResultIs(a, P)' <=> ResultIs(a, P)) /\ (CountIs(a, P)' <=> CountIs(a, P))
        /\ \A a, n, P : HavingIs(a, n, P)' <=> HavingIs(a, n, P)
      BY <2>1, SameQuestion
  <2>3. Seen' = Seen /\ Behind' = Behind /\ Ended' = Ended
      BY <2>1 DEF Seen, Behind, Ended
  <2>4. AggregatesInv' <=> AggregatesInv
      BY <2>1, <2>2, <2>3 DEF AggregatesInv
  <2>5. CurrentInv' <=> CurrentInv
      BY <2>1 DEF CurrentInv
  <2>6. Listed(Met(Ended))' = Listed(Met(Ended)) /\ Listed(Met(Groups))' = Listed(Met(Groups))
      BY <2>2, <2>3
  <2> QED BY <2>1, <2>2, <2>4, <2>5, <2>6 DEF AnswerInv
<1> QED BY <1>1, <1>2, <1>3, <1>4, <1>5, <1>6, <1>7 DEF Next, Running, GroupStep

LEMMA InitAnswer == Init => AnswerInv
BY DEF Init, ResultInit, AnswerInv

\* For all sorted tables, whatever groups they have and how many rows, and all
\* clauses: under HAVING COUNT and HAVING AVG with ==, <, <=, > or >= the .csv has
\* one row for each group but -1 that meets the condition, in order, with what the
\* code returns for all the rows of that group and no other; under MIN, MAX and
\* SUM, and under !=, it has none, also where groups meet the condition.
THEOREM GroupedRowsAreRight == Spec => []GroupsAreRight
<1>1. Init => JoinInv /\ GroupInv /\ AnswerInv
    BY InitJoin, InitGroup, InitAnswer
<1>2. ASSUME JoinInv, GroupInv, AnswerInv, [Next]_vars PROVE JoinInv' /\ GroupInv' /\ AnswerInv'
    BY <1>2, NextJoin, NextGroup, NextAnswer
<1>3. ASSUME JoinInv, AnswerInv PROVE GroupsAreRight
  <2> SUFFICES ASSUME query # NoQuery, pc = "done"
               PROVE  LET answered == query.having \in {"COUNT", "AVG"} /\ query.binOp # "!="
                          met      == Ascending({g \in Groups \ {NoGroup} : answered /\ Meets(g)})
                      IN  csv = [i \in DOMAIN met |-> <<met[i], Returned(met[i])>>]
      BY DEF GroupsAreRight
  <2>1. csv = rows
      BY <1>3 DEF JoinInv, PagesInv, PagesHoldRows
  <2>2. rows = Listed(Met(Groups))
      BY <1>3 DEF AnswerInv
  <2> QED BY <2>1, <2>2 DEF Listed, Met, Answered, Counted
<1> QED BY <1>1, <1>2, <1>3, PTL DEF Spec

=============================================================================
