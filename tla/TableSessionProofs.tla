------------------------- MODULE TableSessionProofs -------------------------
(***************************************************************************)
(* Proofs about TableSession: for all table names, columns and sessions,   *)
(* catalogued tables are on disk, the copies of an assignment are sorted   *)
(* by its own key and go when it ends, and it changes no table but its     *)
(* target.                                                                 *)
(***************************************************************************)
EXTENDS TableSession, TLAPS, SequenceTheorems

Steps == {"none", "copy", "load", "key", "sort", "combine", "drop"}

Job == [op : {"none", "orderBy", "groupBy", "join"}, target : UserNames \cup {""},
        sources : Seq(UserNames), copies : Seq(Names), columns : Seq(ColumnNames),
        binop : {"", "==", "!="}, sorting : Nat, step : Steps]

\* What an assignment knows: its sources are in the catalogue, its copies have
\* files from the first step on and entries from "key" on, and only ORDER BY,
\* which is over before the last two steps, has the target for a copy.
JobInv ==
    /\ job \in Job
    /\ job # Idle =>
        /\ job.target \in UserNames
        /\ \A i \in DOMAIN job.sources : Catalogued(job.sources[i])
        /\ ToSet(job.copies) \subseteq IF job.op = "orderBy" THEN {job.target} ELSE CopyNames
        /\ \A c \in ToSet(job.copies) : csv[c] # NoFile
        /\ job.step \in {"key", "sort", "combine", "drop"} => \A c \in ToSet(job.copies) : Catalogued(c)
        /\ 1 \in DOMAIN job.sources /\ 1 \in DOMAIN job.columns
        /\ job.op = "join" => 2 \in DOMAIN job.sources
        /\ job.step \in {"combine", "drop"} => job.op # "orderBy"

\* Until it has sorted its copies an assignment has one that comes next, with a
\* column for it.  GROUP BY holds its key from its first step to the sort, the
\* others from "key" to "sort".
SortingInv ==
    /\ job.step \in {"copy", "load", "key", "sort"} =>
        /\ job.sorting \in DOMAIN job.copies /\ job.sorting \in DOMAIN job.columns
        /\ job.op = "groupBy" => job.sorting = 1
    /\ job.step \in {"copy", "load"} /\ job.op = "groupBy" => sortKey = KeyOf(job.columns[1])
    /\ SortsByOwnKey

\* As long as no command has died, what there is of copies is the running assignment's.
CopiesInv ==
    ~died => \A n \in CopyNames : n \notin ToSet(job.copies) => csv[n] = NoFile /\ n \notin pages

\* The type invariant in three parts.
DiskOK ==
    /\ csv \in [Names -> File \cup {NoFile}]
    /\ pages \subseteq Names
    /\ catalogue \in [Names -> Entry \cup {NoTable}]
KeyOK == sortKey \in Key
CountsOK == commands \in 0 .. MaxCommands /\ kills \in 0 .. MaxKills
ProcessOK ==
    /\ job.step \in Steps /\ (job = Idle <=> job.step = "none")
    /\ status \in {"running", "ended", "crashed"} /\ (status # "running" => job = Idle)
    /\ died \in BOOLEAN

SessionInv ==
    /\ DiskOK /\ KeyOK /\ CountsOK /\ ProcessOK
    /\ JobInv /\ SortingInv /\ TablesOnDisk /\ CopiesInv

-----------------------------------------------------------------------------
(* Types *)

\* The names are apart.
LEMMA NamesApart ==
    /\ UserNames \cap CopyNames = {} /\ UserNames \subseteq Names /\ CopyNames \subseteq Names
    /\ ToSet(JoinCopies) \subseteq CopyNames /\ ToSet(GroupCopies) \subseteq CopyNames
    /\ JoinCopies \in Seq(Names) /\ GroupCopies \in Seq(Names)
<1>1. /\ UserNames \cap CopyNames = {} /\ UserNames \subseteq Names /\ CopyNames \subseteq Names
      /\ ToSet(JoinCopies) \subseteq CopyNames /\ ToSet(GroupCopies) \subseteq CopyNames
    BY SessionAssumption DEF Names, CopyNames
<1>2. JoinCopies \in Seq(ToSet(JoinCopies)) /\ GroupCopies \in Seq(ToSet(GroupCopies))
    BY DEF JoinCopies, GroupCopies, ToSet
<1> QED BY <1>1, <1>2

\* Whatever the file was, it is one after a write.
LEMMA AppendedFile ==
    ASSUME csv \in [Names -> File \cup {NoFile}], NEW n \in Names, NEW columns \in ColumnSeqs, NEW rows \in BOOLEAN
    PROVE  Appended(n, columns, rows) \in File
<1>1. CASE csv[n] = NoFile
    BY <1>1 DEF Appended, File
<1>2. CASE csv[n] \in File
  <2>1. csv[n] # NoFile
      BY <1>2, SessionAssumption
  <2>2. [csv[n] EXCEPT !.rows = TRUE, !.clean = FALSE] \in File
      BY <1>2 DEF File
  <2> QED BY <2>1, <2>2 DEF Appended
<1> QED BY <1>1, <1>2

\* What the catalogue has of a name is an entry.
LEMMA CataloguedEntry ==
    ASSUME catalogue \in [Names -> Entry \cup {NoTable}], NEW n \in Names
    PROVE  Catalogued(n) <=> catalogue[n] \in Entry
BY SessionAssumption DEF Catalogued

LEMMA LoadedEntry == \A columns \in ColumnSeqs : Loaded(columns) \in Entry
BY DEF Loaded, Entry

LEMMA IdleFacts ==
    /\ Idle \in Job /\ Idle.step = "none" /\ Idle.copies = <<>> /\ ToSet(<<>>) = {}
    /\ NoKey \in Key
BY DEF Idle, Job, Steps, NoKey, Key, ToSet

\* An assignment's key is a key.
LEMMA KeyOfIsKey == \A column \in ColumnNames : KeyOf(column) \in Key
BY DEF KeyOf, Key

LEMMA InitSession == Init => SessionInv
<1> SUFFICES ASSUME Init PROVE SessionInv
    OBVIOUS
<1>1. csv \in [Names -> File \cup {NoFile}] /\ \A n \in CopyNames : csv[n] = NoFile
    BY InitialFilesAssumption DEF Init
<1>2. DiskOK /\ KeyOK /\ CountsOK
    BY <1>1, IdleFacts, SessionAssumption DEF Init, DiskOK, KeyOK, CountsOK
<1>3. ProcessOK /\ JobInv /\ SortingInv
    BY IdleFacts DEF Init, ProcessOK, Steps, JobInv, SortingInv, SortsByOwnKey
<1>4. TablesOnDisk
    BY NamesApart DEF Init, TablesOnDisk, Catalogued
<1>5. CopiesInv
    BY <1>1 DEF Init, CopiesInv
<1> QED BY <1>2, <1>3, <1>4, <1>5 DEF SessionInv

-----------------------------------------------------------------------------
(* Commands that are one step *)

\* No assignment runs afterwards.
LEMMA NoJob ==
    ASSUME job' = Idle, status' \in {"running", "ended", "crashed"}, died' \in BOOLEAN
    PROVE  ProcessOK' /\ JobInv' /\ SortingInv'
BY IdleFacts DEF ProcessOK, JobInv, SortingInv, SortsByOwnKey, Steps

LEMMA NoCopyMade ==
    ASSUME SessionInv, job' = Idle, ~died' => ~died /\ job = Idle,
           \A n \in CopyNames : csv'[n] = csv[n] /\ (n \in pages' => n \in pages)
    PROVE  CopiesInv'
<1>1. job = Idle => ToSet(job.copies) = {}
    BY IdleFacts
<1> QED BY <1>1 DEF SessionInv, CopiesInv

LEMMA CommandFacts ==
    ASSUME SessionInv, Command
    PROVE  /\ job = Idle /\ status = "running" /\ DiskOK /\ KeyOK /\ died \in BOOLEAN
           /\ kills' = kills => CountsOK'
<1>1. job = Idle /\ status = "running" /\ commands < MaxCommands /\ commands' = commands + 1
    BY DEF Command, Running
<1>2. DiskOK /\ KeyOK /\ CountsOK /\ died \in BOOLEAN
    BY DEF SessionInv, ProcessOK
<1> QED BY <1>1, <1>2, SessionAssumption DEF CountsOK

LEMMA LoadInv == ASSUME SessionInv, NEW n \in UserNames, LOAD(n) PROVE SessionInv'
<1>1. /\ Command /\ ~Catalogued(n) /\ csv[n] # NoFile /\ UNCHANGED <<csv, sortKey, kills>>
      /\ \/ Crash /\ died' = TRUE /\ UNCHANGED <<pages, catalogue>>
         \/ /\ pages' = IF Loads(csv[n]) THEN pages \cup {n} ELSE pages
            /\ catalogue' = IF Loads(csv[n]) THEN [catalogue EXCEPT ![n] = Loaded(csv[n].columns)] ELSE catalogue
            /\ UNCHANGED <<job, status, died>>
    BY DEF LOAD
<1>2. /\ job = Idle /\ status = "running" /\ DiskOK /\ KeyOK /\ died \in BOOLEAN /\ CountsOK'
    BY <1>1, CommandFacts
<1>3. job' = Idle /\ status' \in {"running", "crashed"} /\ died' \in BOOLEAN /\ (~died' => ~died)
    BY <1>1, <1>2 DEF Crash
<1>4. csv[n] \in File /\ Loaded(csv[n].columns) \in Entry
  <2>1. csv[n] \in File
      BY <1>1, <1>2, NamesApart DEF DiskOK
  <2> QED BY <2>1, LoadedEntry DEF File
<1>5. DiskOK'
    BY <1>1, <1>2, <1>4, NamesApart DEF DiskOK
<1>6. TablesOnDisk'
  <2>1. CASE Crash
      BY <2>1 DEF Crash, TablesOnDisk
  <2>2. CASE /\ pages' = IF Loads(csv[n]) THEN pages \cup {n} ELSE pages
             /\ catalogue' = IF Loads(csv[n]) THEN [catalogue EXCEPT ![n] = Loaded(csv[n].columns)] ELSE catalogue
    <3>1. \A m \in Names : \/ catalogue'[m] = catalogue[m] /\ (m \in pages => m \in pages')
                           \/ m = n /\ catalogue'[m] = Loaded(csv[n].columns) /\ m \in pages'
        BY <2>2, <1>2 DEF DiskOK
    <3>2. Loaded(csv[n].columns).live
        BY DEF Loaded
    <3> QED BY <3>1, <3>2, <1>1, <1>2 DEF SessionInv, TablesOnDisk, Catalogued
  <2> QED BY <1>1, <2>1, <2>2
<1>7. CopiesInv'
  <2>1. \A m \in CopyNames : m # n
      BY NamesApart
  <2>2. \A m \in CopyNames : csv'[m] = csv[m] /\ (m \in pages' => m \in pages)
      BY <2>1, <1>1
  <2> QED BY <2>2, <1>2, <1>3, NoCopyMade
<1>8. KeyOK'
    BY <1>1, <1>2 DEF KeyOK
<1> QED BY <1>2, <1>3, <1>5, <1>6, <1>7, <1>8, NoJob DEF SessionInv

LEMMA ClearInv == ASSUME SessionInv, NEW n \in UserNames, CLEAR(n) PROVE SessionInv'
<1>1. /\ Command /\ Catalogued(n)
      /\ pages' = IF Readable(n) THEN pages \ {n} ELSE pages
      /\ catalogue' = [catalogue EXCEPT ![n] = NoTable]
      /\ UNCHANGED <<csv, sortKey, job, status, kills, died>>
    BY DEF CLEAR
<1>2. /\ job = Idle /\ status = "running" /\ DiskOK /\ KeyOK /\ died \in BOOLEAN /\ CountsOK'
    BY <1>1, CommandFacts
<1>3. DiskOK' /\ KeyOK'
    BY <1>1, <1>2 DEF DiskOK, KeyOK
<1>4. TablesOnDisk'
  <2>1. \A m \in Names : \/ catalogue'[m] = NoTable
                         \/ catalogue'[m] = catalogue[m] /\ (m \in pages => m \in pages')
    <3>1. \A m \in Names : catalogue'[m] = IF m = n THEN NoTable ELSE catalogue[m]
        BY <1>1, <1>2 DEF DiskOK
    <3> QED BY <3>1, <1>1
  <2> QED BY <2>1, <1>1, <1>2 DEF SessionInv, TablesOnDisk, Catalogued
<1>5. CopiesInv'
    BY <1>1, <1>2, NoCopyMade
<1> QED BY <1>1, <1>2, <1>3, <1>4, <1>5, NoJob DEF SessionInv

LEMMA ExportInv == ASSUME SessionInv, NEW n \in UserNames, EXPORT(n) PROVE SessionInv'
<1>1. /\ Command /\ Catalogued(n)
      /\ csv' = [csv EXCEPT ![n] = [columns |-> catalogue[n].columns, rows |-> Readable(n), clean |-> TRUE]]
      /\ UNCHANGED <<pages, catalogue, sortKey, kills>>
      /\ UNCHANGED <<job, status, died>> \/ (Crash /\ died' = TRUE)
    BY DEF EXPORT
<1>2. /\ job = Idle /\ status = "running" /\ DiskOK /\ KeyOK /\ died \in BOOLEAN /\ CountsOK'
    BY <1>1, CommandFacts
<1>3. job' = Idle /\ status' \in {"running", "crashed"} /\ died' \in BOOLEAN /\ (~died' => ~died)
    BY <1>1, <1>2 DEF Crash
<1>4. [columns |-> catalogue[n].columns, rows |-> Readable(n), clean |-> TRUE] \in File
  <2>1. catalogue[n] \in Entry
      BY <1>1, <1>2, CataloguedEntry, NamesApart DEF DiskOK
  <2> QED BY <2>1 DEF Entry, File, Readable
<1>5. DiskOK' /\ KeyOK'
    BY <1>1, <1>2, <1>4, NamesApart DEF DiskOK, KeyOK
<1>6. \A m \in Names : csv'[m] = csv[m] \/ (m = n /\ csv'[m] # NoFile)
    BY <1>1, <1>2, <1>4, SessionAssumption DEF DiskOK
<1>7. TablesOnDisk'
    BY <1>1, <1>2, <1>6 DEF SessionInv, TablesOnDisk, Catalogued
<1>8. CopiesInv'
  <2>1. \A m \in CopyNames : csv'[m] = csv[m]
      BY <1>1, <1>2, NamesApart DEF DiskOK
  <2> QED BY <2>1, <1>1, <1>2, <1>3, NoCopyMade
<1> QED BY <1>2, <1>3, <1>5, <1>7, <1>8, NoJob DEF SessionInv

LEMMA RenameInv ==
    ASSUME SessionInv, NEW n \in UserNames, NEW from \in ColumnNames, NEW to \in ColumnNames, RENAME(n, from, to)
    PROVE  SessionInv'
<1>1. PICK i \in DOMAIN catalogue[n].columns :
          catalogue' = [catalogue EXCEPT ![n].columns = [catalogue[n].columns EXCEPT ![i] = to]]
    BY DEF RENAME
<1>2. Command /\ Catalogued(n) /\ UNCHANGED <<csv, pages, sortKey, job, status, kills, died>>
    BY DEF RENAME
<1>3. /\ job = Idle /\ status = "running" /\ DiskOK /\ KeyOK /\ died \in BOOLEAN /\ CountsOK'
    BY <1>2, CommandFacts
<1>4. catalogue[n] \in Entry
    BY <1>2, <1>3, CataloguedEntry, NamesApart DEF DiskOK
<1>5. PICK renamed : renamed = [catalogue[n].columns EXCEPT ![i] = to]
    OBVIOUS
<1>6. renamed \in ColumnSeqs
  <2>1. catalogue[n].columns \in ColumnSeqs
      BY <1>4 DEF Entry
  <2>2. PICK old, S : old = catalogue[n].columns /\ S = ColumnNames \cup {"aggregate"}
      OBVIOUS
  <2>3. old \in Seq(S) /\ i \in 1 .. Len(old) /\ to \in S
      BY <2>1, <2>2 DEF ColumnSeqs
  <2>4. [old EXCEPT ![i] = to] \in Seq(S)
      BY <2>3, ExceptSeq
  <2> QED BY <2>2, <2>4, <1>5 DEF ColumnSeqs
<1>7. /\ catalogue' = [catalogue EXCEPT ![n] = [catalogue[n] EXCEPT !.columns = renamed]]
      /\ [catalogue[n] EXCEPT !.columns = renamed] \in Entry
      /\ [catalogue[n] EXCEPT !.columns = renamed].counted = catalogue[n].counted
      /\ [catalogue[n] EXCEPT !.columns = renamed].live = catalogue[n].live
    BY <1>1, <1>4, <1>5, <1>6 DEF Entry
<1>8. DiskOK' /\ KeyOK'
    BY <1>2, <1>3, <1>7, NamesApart DEF DiskOK, KeyOK
<1>9. TablesOnDisk'
  <2>1. \A m \in Names : \/ catalogue'[m] = catalogue[m]
                         \/ /\ Catalogued(m) /\ catalogue'[m].counted = catalogue[m].counted
                            /\ catalogue'[m].live = catalogue[m].live
      BY <1>2, <1>3, <1>7 DEF DiskOK
  <2> QED BY <2>1, <1>2, <1>3 DEF SessionInv, TablesOnDisk, Catalogued
<1>10. CopiesInv'
    BY <1>2, <1>3, NoCopyMade
<1> QED BY <1>2, <1>3, <1>8, <1>9, <1>10, NoJob DEF SessionInv

\* The tables on disk stay when nothing of them changes or the process ends.
LEMMA TablesStay ==
    ASSUME SessionInv,
           status' = "running" => status = "running" /\ UNCHANGED <<csv, pages, catalogue>>
    PROVE  TablesOnDisk'
BY DEF SessionInv, TablesOnDisk, Catalogued

LEMMA PrintInv == ASSUME SessionInv, NEW n \in UserNames, PRINT(n) PROVE SessionInv'
<1>1. Command /\ Crash /\ died' = TRUE /\ UNCHANGED <<csv, pages, catalogue, sortKey, kills>>
    BY DEF PRINT
<1>2. job = Idle /\ status = "running" /\ DiskOK /\ KeyOK /\ CountsOK'
    BY <1>1, CommandFacts
<1>3. job' = Idle /\ status' = "crashed"
    BY <1>1 DEF Crash
<1>4. DiskOK' /\ KeyOK'
    BY <1>1, <1>2 DEF DiskOK, KeyOK
<1>5. TablesOnDisk' /\ CopiesInv'
    BY <1>1, <1>3, TablesStay, NoCopyMade
<1> QED BY <1>1, <1>2, <1>3, <1>4, <1>5, NoJob DEF SessionInv

\* Columns and strategies more.
LEMMA KeyGrows ==
    ASSUME KeyOK, NEW command \in SortCommands
    PROVE  Parsed(command) \in Key
<1>1. command.columns \in Seq(ColumnNames) /\ command.strategies \in Nat
    BY SortCommandsAssumption
<1>2. sortKey.columns \in Seq(ColumnNames) /\ sortKey.strategies \in Nat
    BY DEF KeyOK, Key
<1>3. sortKey.columns \o command.columns \in Seq(ColumnNames)
    BY <1>1, <1>2, ConcatProperties
<1> QED BY <1>1, <1>2, <1>3 DEF Parsed, Key

LEMMA SortFailsInv ==
    ASSUME SessionInv, NEW n \in UserNames, NEW command \in SortCommands, SORTFails(n, command)
    PROVE  SessionInv'
<1>1. /\ Command /\ UNCHANGED <<csv, pages, catalogue, job, status, kills, died>>
      /\ sortKey' = Parsed(command)
    BY DEF SORTFails
<1>2. job = Idle /\ status = "running" /\ DiskOK /\ KeyOK /\ died \in BOOLEAN /\ CountsOK'
    BY <1>1, CommandFacts
<1>3. KeyOK'
  <2>1. Parsed(command) \in Key
      BY <1>2, KeyGrows
  <2> QED BY <2>1, <1>1 DEF KeyOK
<1>4. DiskOK'
    BY <1>1, <1>2 DEF DiskOK
<1>5. TablesOnDisk' /\ CopiesInv'
    BY <1>1, <1>2, TablesStay, NoCopyMade
<1> QED BY <1>1, <1>2, <1>3, <1>4, <1>5, NoJob DEF SessionInv

\* What the sort writes is a file.
LEMMA SortedFile ==
    ASSUME NEW n, catalogue[n] \in Entry
    PROVE  Sorted(n) \in File
BY DEF Sorted, Entry, File

LEMMA SortInv ==
    ASSUME SessionInv, NEW n \in UserNames, NEW command \in SortCommands, SORT(n, command)
    PROVE  SessionInv'
<1>1. /\ Command /\ Catalogued(n) /\ UNCHANGED <<pages, catalogue, kills>>
      /\ csv' = csv \/ csv' = [csv EXCEPT ![n] = Sorted(n)]
      /\ sortKey' = NoKey \/ sortKey' = sortKey
      /\ UNCHANGED <<job, status, died>> \/ (Crash /\ died' = TRUE)
    BY DEF SORT
<1>2. job = Idle /\ status = "running" /\ DiskOK /\ KeyOK /\ died \in BOOLEAN /\ CountsOK'
    BY <1>1, CommandFacts
<1>3. job' = Idle /\ status' \in {"running", "crashed"} /\ died' \in BOOLEAN /\ (~died' => ~died)
    BY <1>1, <1>2 DEF Crash
<1>4. PICK file : file = Sorted(n)
    OBVIOUS
<1>5. file \in File
  <2>1. catalogue[n] \in Entry
      BY <1>1, <1>2, CataloguedEntry, NamesApart DEF DiskOK
  <2> QED BY <2>1, <1>4, SortedFile
<1>6. csv' = csv \/ csv' = [csv EXCEPT ![n] = file]
    BY <1>1, <1>4
<1>7. KeyOK'
    BY <1>1, <1>2, IdleFacts DEF KeyOK
<1>8. DiskOK'
    BY <1>1, <1>2, <1>5, <1>6, NamesApart DEF DiskOK
<1>9. \A m \in Names : csv'[m] = csv[m] \/ (m = n /\ csv'[m] # NoFile)
    BY <1>2, <1>5, <1>6, SessionAssumption DEF DiskOK
<1>10. TablesOnDisk'
    BY <1>1, <1>2, <1>9 DEF SessionInv, TablesOnDisk, Catalogued
<1>11. CopiesInv'
  <2>1. \A m \in CopyNames : csv'[m] = csv[m]
      BY <1>2, <1>6, NamesApart DEF DiskOK
  <2> QED BY <2>1, <1>1, <1>2, <1>3, NoCopyMade
<1> QED BY <1>2, <1>3, <1>7, <1>8, <1>10, <1>11, NoJob DEF SessionInv

LEMMA QuitInv == ASSUME SessionInv, QUIT PROVE SessionInv'
<1>1. /\ Command /\ UNCHANGED <<csv, catalogue, sortKey, job, kills>>
      /\ pages' \subseteq pages
      /\ \/ status' = "ended" /\ died' = died
         \/ status' = "crashed" /\ died' = TRUE
    BY DEF QUIT
<1>2. job = Idle /\ status = "running" /\ DiskOK /\ KeyOK /\ died \in BOOLEAN /\ CountsOK'
    BY <1>1, CommandFacts
<1>3. DiskOK' /\ KeyOK'
    BY <1>1, <1>2 DEF DiskOK, KeyOK
<1>4. TablesOnDisk' /\ CopiesInv'
    BY <1>1, <1>2, TablesStay, NoCopyMade
<1> QED BY <1>1, <1>2, <1>3, <1>4, NoJob DEF SessionInv

\* Nothing is catalogued when the process starts.
LEMMA RestartInv == ASSUME SessionInv, Restart PROVE SessionInv'
<1>1. /\ status # "running" /\ status' = "running" /\ pages' = {} /\ catalogue' = [n \in Names |-> NoTable]
      /\ sortKey' = NoKey /\ UNCHANGED <<csv, job, commands, kills, died>>
    BY DEF Restart
<1>2. job = Idle /\ died \in BOOLEAN /\ DiskOK /\ CountsOK
    BY <1>1 DEF SessionInv, ProcessOK
<1>3. DiskOK' /\ KeyOK' /\ CountsOK'
    BY <1>1, <1>2, IdleFacts DEF DiskOK, KeyOK, CountsOK
<1>4. TablesOnDisk'
    BY <1>1 DEF TablesOnDisk, Catalogued
<1>5. CopiesInv'
    BY <1>1, <1>2, NoCopyMade
<1> QED BY <1>1, <1>2, <1>3, <1>4, <1>5, NoJob DEF SessionInv

LEMMA KillInv == ASSUME SessionInv, Kill PROVE SessionInv'
<1>1. /\ kills < MaxKills /\ kills' = kills + 1 /\ Crash /\ died' = (died \/ job # Idle)
      /\ UNCHANGED <<csv, pages, catalogue, sortKey, commands>>
    BY DEF Kill
<1>2. DiskOK /\ KeyOK /\ CountsOK /\ died \in BOOLEAN
    BY DEF SessionInv, ProcessOK
<1>3. job' = Idle /\ status' = "crashed" /\ died' \in BOOLEAN
    BY <1>1, <1>2 DEF Crash
<1>4. DiskOK' /\ KeyOK'
    BY <1>1, <1>2 DEF DiskOK, KeyOK
<1>5. CountsOK'
    BY <1>1, <1>2, SessionAssumption DEF CountsOK
<1>6. TablesOnDisk' /\ CopiesInv'
    BY <1>1, <1>2, <1>3, TablesStay, NoCopyMade
<1> QED BY <1>3, <1>4, <1>5, <1>6, NoJob DEF SessionInv

-----------------------------------------------------------------------------
(* The steps of an assignment *)

\* Files are written and none is removed.
LEMMA TablesKept ==
    ASSUME SessionInv, status = "running", UNCHANGED catalogue, \A n \in pages : n \in pages',
           \A n \in Names : csv'[n] = csv[n] \/ csv'[n] # NoFile
    PROVE  TablesOnDisk'
BY DEF SessionInv, TablesOnDisk, Catalogued

\* A sequence that has a first place has a last one.
LEMMA LastPlace == ASSUME NEW S, NEW s \in Seq(S), 1 \in DOMAIN s PROVE Len(s) \in DOMAIN s
OBVIOUS

\* The headers of the copies are written.
LEMMA AssignInv ==
    ASSUME SessionInv, NEW op \in {"orderBy", "groupBy", "join"}, NEW target \in UserNames,
           NEW sources \in Seq(UserNames), NEW copies \in Seq(Names), NEW columns \in Seq(ColumnNames),
           NEW binop \in {"", "==", "!="},
           DOMAIN copies = DOMAIN sources, DOMAIN columns = DOMAIN sources, 1 \in DOMAIN sources,
           ToSet(copies) \subseteq IF op = "orderBy" THEN {target} ELSE CopyNames,
           op = "join" => 2 \in DOMAIN sources, op = "groupBy" => Len(copies) = 1,
           Assign(op, target, sources, copies, columns, binop)
    PROVE  SessionInv'
<1>1. \A i \in DOMAIN sources : sources[i] \in Names
  <2>1. \A i \in DOMAIN sources : sources[i] \in UserNames
      BY LenProperties
  <2>2. UserNames \subseteq Names
      BY NamesApart
  <2> QED BY <2>1, <2>2
<1> DEFINE Header1(n) == catalogue[sources[CHOOSE i \in DOMAIN copies : copies[i] = n]].columns
           new == [op |-> op, target |-> target, sources |-> sources, copies |-> copies,
                   columns |-> columns, binop |-> binop, sorting |-> Len(copies), step |-> "copy"]
<1>2. /\ Command /\ UNCHANGED <<pages, catalogue, status, kills, died>>
      /\ sortKey' = IF op = "groupBy" THEN KeyOf(columns[1]) ELSE sortKey
      /\ \A i \in DOMAIN sources : Catalogued(sources[i])
      /\ csv' = [n \in Names |-> IF n \in ToSet(copies) THEN Appended(n, Header1(n), FALSE) ELSE csv[n]]
      /\ job' = new
    BY DEF Assign
<1>3. job = Idle /\ status = "running" /\ DiskOK /\ KeyOK /\ died \in BOOLEAN /\ CountsOK'
    BY <1>2, CommandFacts
<1>4. new \in Job /\ new.step = "copy" /\ new.copies = copies /\ new.sources = sources /\ new.op = op
      /\ new.target = target /\ new.columns = columns /\ new.sorting = Len(copies)
    BY LenProperties DEF Job, Steps
<1> HIDE DEF new
<1>5. ASSUME NEW n \in Names, n \in ToSet(copies) PROVE Appended(n, Header1(n), FALSE) \in File
  <2>1. \E i \in DOMAIN copies : copies[i] = n
      BY <1>5 DEF ToSet
  <2>2. PICK i \in DOMAIN sources : i = CHOOSE j \in DOMAIN copies : copies[j] = n
      BY <2>1
  <2>3. sources[i] \in Names
      BY <2>2, <1>1
  <2>4. catalogue[sources[i]] \in Entry
      BY <2>2, <2>3, <1>2, <1>3, CataloguedEntry DEF DiskOK
  <2>5. Header1(n) \in ColumnSeqs
      BY <2>2, <2>4 DEF Entry
  <2> QED BY <2>5, <1>3, AppendedFile DEF DiskOK
<1> HIDE DEF Header1
<1>6. DiskOK' /\ KeyOK'
  <2>1. DiskOK'
      BY <1>2, <1>3, <1>5 DEF DiskOK
  <2>2. columns[1] \in ColumnNames
      BY LenProperties
  <2>3. KeyOK'
      BY <2>2, <1>2, <1>3, KeyOfIsKey DEF KeyOK
  <2> QED BY <2>1, <2>3
<1>7. \A n \in Names : IF n \in ToSet(copies) THEN csv'[n] # NoFile ELSE csv'[n] = csv[n]
    BY <1>2, <1>5, SessionAssumption
<1>8. job' # Idle /\ job' = new /\ new.step = "copy"
    BY <1>2, <1>4, IdleFacts
<1>9. ProcessOK'
    BY <1>2, <1>3, <1>8 DEF ProcessOK, Steps
<1>10. JobInv'
  <2>1. \A c \in ToSet(copies) : csv'[c] # NoFile
      BY <1>7, NamesApart
  <2>2. \A i \in DOMAIN sources : Catalogued(sources[i])'
      BY <1>2 DEF Catalogued
  <2> QED BY <2>1, <2>2, <1>2, <1>4, <1>8 DEF JobInv
<1>11. TablesOnDisk'
    BY <1>2, <1>3, <1>7, TablesKept
<1>12. CopiesInv'
  <2>1. ~died => \A n \in CopyNames : csv[n] = NoFile /\ n \notin pages
      BY <1>3, IdleFacts DEF SessionInv, CopiesInv
  <2> QED BY <2>1, <1>2, <1>4, <1>7, NamesApart DEF CopiesInv
<1>13. SortingInv'
  <2>1. Len(copies) \in DOMAIN copies
      BY LastPlace
  <2>2. Len(copies) \in DOMAIN columns
    <3>1. DOMAIN columns = DOMAIN copies
        OBVIOUS
    <3> QED BY <3>1, <2>1, Zenon
  <2>3. op = "groupBy" => sortKey' = KeyOf(columns[1])
      BY <1>2
  <2> QED BY <2>1, <2>2, <2>3, <1>4, <1>8 DEF SortingInv, SortsByOwnKey
<1> QED BY <1>3, <1>6, <1>9, <1>10, <1>11, <1>12, <1>13 DEF SessionInv

LEMMA AssignmentsInv ==
    ASSUME SessionInv, NEW r \in UserNames, NEW n \in UserNames, NEW m \in UserNames,
           NEW c \in ColumnNames, NEW d \in ColumnNames, NEW binop \in {"==", "!="},
           ORDERBY(r, n, c) \/ GROUPBY(r, n, c) \/ JOIN(r, n, m, c, d, binop)
    PROVE  SessionInv'
<1>1. CASE ORDERBY(r, n, c)
  <2>1. /\ <<r>> \in Seq(Names) /\ ToSet(<<r>>) = {r} /\ DOMAIN <<r>> = {1}
        /\ <<n>> \in Seq(UserNames) /\ DOMAIN <<n>> = {1}
        /\ <<c>> \in Seq(ColumnNames) /\ DOMAIN <<c>> = {1}
      BY NamesApart DEF ToSet
  <2> QED BY <2>1, <1>1, AssignInv DEF ORDERBY
<1>2. CASE GROUPBY(r, n, c)
  <2>1. /\ DOMAIN GroupCopies = {1} /\ Len(GroupCopies) = 1
        /\ <<n>> \in Seq(UserNames) /\ DOMAIN <<n>> = {1}
        /\ <<c>> \in Seq(ColumnNames) /\ DOMAIN <<c>> = {1}
      BY DEF GroupCopies
  <2> QED BY <2>1, <1>2, NamesApart, AssignInv DEF GROUPBY
<1>3. CASE JOIN(r, n, m, c, d, binop)
  <2>1. PICK sources, columns : sources = <<n, m>> /\ columns = <<c, d>>
      OBVIOUS
  <2>2. /\ DOMAIN JoinCopies = {1, 2}
        /\ sources \in Seq(UserNames) /\ DOMAIN sources = {1, 2}
        /\ columns \in Seq(ColumnNames) /\ DOMAIN columns = {1, 2}
      BY <2>1 DEF JoinCopies
  <2>3. Assign("join", r, sources, JoinCopies, columns, binop)
      BY <2>1, <1>3 DEF JOIN
  <2>4. ToSet(JoinCopies) \subseteq CopyNames /\ JoinCopies \in Seq(Names)
      BY NamesApart
  <2> QED BY <2>2, <2>3, <2>4, AssignInv
<1> QED BY <1>1, <1>2, <1>3

\* What holds while an assignment runs.
LEMMA JobFacts ==
    ASSUME SessionInv, job.step # "none"
    PROVE  /\ job # Idle /\ status = "running" /\ job \in Job /\ died \in BOOLEAN
           /\ DiskOK /\ KeyOK /\ CountsOK
           /\ job.target \in UserNames /\ ToSet(job.copies) \subseteq Names
           /\ \A c \in ToSet(job.copies) : csv[c] \in File
           /\ \A i \in DOMAIN job.sources : job.sources[i] \in Names /\ catalogue[job.sources[i]] \in Entry
<1>1. /\ job # Idle /\ status = "running" /\ died \in BOOLEAN /\ DiskOK /\ KeyOK /\ CountsOK /\ JobInv
    BY DEF SessionInv, ProcessOK
<1>2. job \in Job /\ job.target \in UserNames /\ ToSet(job.copies) \subseteq Names
    BY <1>1, NamesApart DEF JobInv
<1>3. \A c \in ToSet(job.copies) : csv[c] \in File
    BY <1>1, <1>2 DEF JobInv, DiskOK
<1>4. \A i \in DOMAIN job.sources : job.sources[i] \in Names
  <2>1. job.sources \in Seq(UserNames)
      BY <1>2 DEF Job
  <2>2. \A i \in DOMAIN job.sources : job.sources[i] \in UserNames
      BY <2>1, LenProperties
  <2>3. UserNames \subseteq Names
      BY NamesApart
  <2> QED BY <2>2, <2>3
<1>5. \A i \in DOMAIN job.sources : catalogue[job.sources[i]] \in Entry
    BY <1>1, <1>4, CataloguedEntry DEF JobInv, DiskOK
<1> QED BY <1>1, <1>2, <1>3, <1>4, <1>5

LEMMA NextStep ==
    ASSUME job \in Job, NEW st \in Steps \ {"none"}, job' = [job EXCEPT !.step = st]
    PROVE  /\ job' \in Job /\ job' # Idle /\ job'.step = st
           /\ job'.op = job.op /\ job'.target = job.target /\ job'.sources = job.sources
           /\ job'.copies = job.copies /\ job'.columns = job.columns /\ job'.sorting = job.sorting
<1>1. /\ job' \in Job /\ job'.step = st
      /\ job'.op = job.op /\ job'.target = job.target /\ job'.sources = job.sources
      /\ job'.copies = job.copies /\ job'.columns = job.columns /\ job'.sorting = job.sorting
    BY DEF Job
<1> QED BY <1>1, IdleFacts

\* The process dies in a step.
LEMMA CrashInv ==
    ASSUME SessionInv, Crash, died' = TRUE, DiskOK', UNCHANGED <<sortKey, commands, kills>>
    PROVE  SessionInv'
<1>1. job' = Idle /\ status' = "crashed"
    BY DEF Crash
<1>2. KeyOK' /\ CountsOK'
    BY DEF SessionInv, KeyOK, CountsOK
<1>3. TablesOnDisk' /\ CopiesInv'
    BY <1>1 DEF TablesOnDisk, CopiesInv
<1> QED BY <1>1, <1>2, <1>3, NoJob DEF SessionInv

LEMMA CopyRowsInv == ASSUME SessionInv, CopyRows PROVE SessionInv'
<1>1. /\ job.step = "copy" /\ UNCHANGED <<pages, catalogue, sortKey, commands, kills>>
      /\ \/ job' = [job EXCEPT !.step = "load"] /\ UNCHANGED <<status, died>>
         \/ Crash /\ died' = TRUE
    BY DEF CopyRows
<1>2. \A n \in Names : \/ csv'[n] = csv[n]
                       \/ n \in ToSet(job.copies) /\ csv'[n] = [csv[n] EXCEPT !.rows = TRUE]
    BY DEF CopyRows, ToSet
<1>3. /\ job # Idle /\ status = "running" /\ job \in Job /\ died \in BOOLEAN
      /\ DiskOK /\ KeyOK /\ CountsOK /\ ToSet(job.copies) \subseteq Names
      /\ \A c \in ToSet(job.copies) : csv[c] \in File
    BY <1>1, JobFacts
<1>4. \A n \in Names : csv'[n] = csv[n] \/ (n \in ToSet(job.copies) /\ csv'[n] \in File)
    BY <1>2, <1>3 DEF File
<1>5. DiskOK'
  <2>1. csv' \in [Names -> File \cup {NoFile}]
    <3>1. \A n \in Names : csv'[n] \in File \cup {NoFile}
        BY <1>3, <1>4 DEF DiskOK
    <3>2. csv' = [n \in Names |-> csv'[n]]
        BY DEF CopyRows
    <3> QED BY <3>1, <3>2
  <2> QED BY <2>1, <1>1, <1>3 DEF DiskOK
<1>6. CASE Crash /\ died' = TRUE
    BY <1>1, <1>5, <1>6, CrashInv
<1>7. CASE job' = [job EXCEPT !.step = "load"] /\ UNCHANGED <<status, died>>
  <2>1. /\ job' \in Job /\ job' # Idle /\ job'.step = "load"
        /\ job'.op = job.op /\ job'.target = job.target /\ job'.sources = job.sources
        /\ job'.copies = job.copies /\ job'.columns = job.columns /\ job'.sorting = job.sorting
    <3>1. "load" \in Steps \ {"none"}
        BY DEF Steps
    <3> QED BY <3>1, <1>3, <1>7, NextStep
  <2>2. ProcessOK'
      BY <2>1, <1>3, <1>7 DEF ProcessOK, Steps
  <2>3. \A n \in Names : csv[n] # NoFile => csv'[n] # NoFile
      BY <1>4, SessionAssumption
  <2>4. JobInv'
      BY <2>1, <2>3, <1>1, <1>3 DEF SessionInv, JobInv, Catalogued
  <2>5. TablesOnDisk'
      BY <2>3, <1>1, <1>3, <1>7 DEF SessionInv, TablesOnDisk, Catalogued
  <2>6. CopiesInv'
      BY <2>1, <1>1, <1>4, <1>7, NamesApart DEF SessionInv, CopiesInv
  <2>7. KeyOK' /\ CountsOK'
      BY <1>1, <1>3 DEF KeyOK, CountsOK
  <2>8. SortingInv'
      BY <2>1, <1>1 DEF SessionInv, SortingInv, SortsByOwnKey
  <2> QED BY <2>2, <2>4, <2>5, <2>6, <2>7, <2>8, <1>5 DEF SessionInv
<1> QED BY <1>1, <1>6, <1>7

LEMMA LoadCopiesInv == ASSUME SessionInv, LoadCopies PROVE SessionInv'
<1>1. /\ job.step = "load" /\ UNCHANGED <<csv, sortKey, commands, kills>>
      /\ \/ /\ pages' = pages \cup ToSet(job.copies)
            /\ catalogue' = [n \in Names |-> IF n \in ToSet(job.copies) THEN Loaded(csv[n].columns) ELSE catalogue[n]]
            /\ job' = [job EXCEPT !.step = IF job.op = "groupBy" THEN "sort" ELSE "key"]
            /\ UNCHANGED <<status, died>>
         \/ Crash /\ died' = TRUE /\ UNCHANGED <<pages, catalogue>>
    BY DEF LoadCopies
<1>2. /\ job # Idle /\ status = "running" /\ job \in Job /\ died \in BOOLEAN
      /\ DiskOK /\ KeyOK /\ CountsOK /\ ToSet(job.copies) \subseteq Names
      /\ \A c \in ToSet(job.copies) : csv[c] \in File
    BY <1>1, JobFacts
<1>3. CASE Crash /\ died' = TRUE /\ UNCHANGED <<pages, catalogue>>
  <2>1. DiskOK'
      BY <1>1, <1>2, <1>3 DEF DiskOK
  <2> QED BY <2>1, <1>1, <1>3, CrashInv
<1>4. CASE /\ pages' = pages \cup ToSet(job.copies)
           /\ catalogue' = [n \in Names |-> IF n \in ToSet(job.copies) THEN Loaded(csv[n].columns) ELSE catalogue[n]]
           /\ job' = [job EXCEPT !.step = IF job.op = "groupBy" THEN "sort" ELSE "key"]
           /\ UNCHANGED <<status, died>>
  <2>1. \A n \in ToSet(job.copies) : Loaded(csv[n].columns) \in Entry
      BY <1>2, LoadedEntry DEF File
  <2>2. \A n \in Names : IF n \in ToSet(job.copies)
                         THEN catalogue'[n] \in Entry /\ catalogue'[n].live /\ csv'[n] # NoFile
                         ELSE catalogue'[n] = catalogue[n]
      BY <2>1, <1>1, <1>2, <1>4, SessionAssumption DEF Loaded
  <2>3. DiskOK'
      BY <2>1, <1>1, <1>2, <1>4 DEF DiskOK
  <2>4. \A n \in Names : /\ Catalogued(n) => Catalogued(n)'
                         /\ n \in ToSet(job.copies) => Catalogued(n)'
      BY <2>2, SessionAssumption DEF Catalogued
  <2>5. /\ job' \in Job /\ job' # Idle /\ job'.step = IF job.op = "groupBy" THEN "sort" ELSE "key"
        /\ job'.op = job.op /\ job'.target = job.target /\ job'.sources = job.sources
        /\ job'.copies = job.copies /\ job'.columns = job.columns /\ job'.sorting = job.sorting
    <3>1. PICK st : st = IF job.op = "groupBy" THEN "sort" ELSE "key"
        OBVIOUS
    <3>2. st \in Steps \ {"none"} /\ job' = [job EXCEPT !.step = st]
        BY <3>1, <1>4 DEF Steps
    <3> QED BY <3>1, <3>2, <1>2, NextStep
  <2>6. ProcessOK'
      BY <2>5, <1>2, <1>4 DEF ProcessOK, Steps
  <2>7. JobInv'
    <3>1. \A i \in DOMAIN job'.sources : Catalogued(job.sources[i])'
      <4>1. \A i \in DOMAIN job.sources : job.sources[i] \in Names
          BY <1>1, JobFacts
      <4>2. \A i \in DOMAIN job.sources : Catalogued(job.sources[i])
          BY <1>2 DEF SessionInv, JobInv
      <4> QED BY <4>1, <4>2, <2>4, <2>5
    <3>2. \A c \in ToSet(job.copies) : Catalogued(c)'
        BY <2>4, <1>2
    <3> QED BY <3>1, <3>2, <2>5, <1>1, <1>2 DEF SessionInv, JobInv, Catalogued
  <2>8. TablesOnDisk'
      BY <2>2, <1>1, <1>2, <1>4 DEF SessionInv, TablesOnDisk, Catalogued
  <2>9. CopiesInv'
      BY <2>5, <1>1, <1>4 DEF SessionInv, CopiesInv
  <2>10. KeyOK' /\ CountsOK'
      BY <1>1, <1>2 DEF KeyOK, CountsOK
  <2>11. SortingInv'
      BY <2>5, <1>1 DEF SessionInv, SortingInv, SortsByOwnKey
  <2> QED BY <2>3, <2>6, <2>7, <2>8, <2>9, <2>10, <2>11 DEF SessionInv
<1> QED BY <1>1, <1>3, <1>4

\* The key of the copy that is next is set.
LEMMA SetKeyInv == ASSUME SessionInv, SetKey PROVE SessionInv'
<1>1. /\ job.step = "key" /\ UNCHANGED <<csv, pages, catalogue, status, commands, kills, died>>
      /\ sortKey' = KeyOf(job.columns[job.sorting]) /\ job' = [job EXCEPT !.step = "sort"]
    BY DEF SetKey
<1>2. job # Idle /\ status = "running" /\ job \in Job /\ died \in BOOLEAN /\ DiskOK /\ CountsOK
    BY <1>1, JobFacts
<1>3. job.sorting \in DOMAIN job.copies /\ job.sorting \in DOMAIN job.columns
      /\ (job.op = "groupBy" => job.sorting = 1)
    BY <1>1 DEF SessionInv, SortingInv
<1>4. /\ job' \in Job /\ job' # Idle /\ job'.step = "sort"
      /\ job'.op = job.op /\ job'.target = job.target /\ job'.sources = job.sources
      /\ job'.copies = job.copies /\ job'.columns = job.columns /\ job'.sorting = job.sorting
  <2>1. "sort" \in Steps \ {"none"}
      BY DEF Steps
  <2> QED BY <2>1, <1>1, <1>2, NextStep
<1>5. KeyOK'
  <2>1. PICK column : column = job.columns[job.sorting]
      OBVIOUS
  <2>2. job.columns \in Seq(ColumnNames)
      BY <1>2 DEF Job
  <2>3. column \in ColumnNames
      BY <2>1, <2>2, <1>3, LenProperties
  <2> QED BY <2>1, <2>3, <1>1, KeyOfIsKey DEF KeyOK
<1>6. DiskOK' /\ CountsOK' /\ ProcessOK'
    BY <1>1, <1>2, <1>4 DEF DiskOK, CountsOK, ProcessOK, Steps
<1>7. JobInv'
    BY <1>1, <1>2, <1>4 DEF SessionInv, JobInv, Catalogued
<1>8. SortingInv'
    BY <1>1, <1>3, <1>4 DEF SortingInv, SortsByOwnKey
<1>9. TablesOnDisk' /\ CopiesInv'
    BY <1>1, <1>4, TablesStay DEF SessionInv, CopiesInv
<1> QED BY <1>5, <1>6, <1>7, <1>8, <1>9 DEF SessionInv

LEMMA SortCopyInv == ASSUME SessionInv, SortCopy PROVE SessionInv'
<1>1. PICK copy : copy = job.copies[job.sorting]
    OBVIOUS
<1>2. /\ job.step = "sort" /\ UNCHANGED <<pages, catalogue, status, commands, kills, died>>
      /\ csv' = [csv EXCEPT ![copy] = Sorted(copy)]
      /\ sortKey' = NoKey
      /\ job' = IF job.sorting > 1 THEN [job EXCEPT !.step = "key", !.sorting = job.sorting - 1]
                ELSE IF job.op = "orderBy" THEN Idle ELSE [job EXCEPT !.step = "combine"]
    BY <1>1 DEF SortCopy
<1>3. /\ job # Idle /\ status = "running" /\ job \in Job /\ died \in BOOLEAN
      /\ DiskOK /\ KeyOK /\ CountsOK /\ job.target \in UserNames /\ ToSet(job.copies) \subseteq Names
    BY <1>2, JobFacts
<1>4. job.sorting \in DOMAIN job.copies /\ job.sorting \in DOMAIN job.columns
      /\ (job.op = "groupBy" => job.sorting = 1)
    BY <1>2 DEF SessionInv, SortingInv
<1>5. copy \in ToSet(job.copies) /\ copy \in Names
    BY <1>1, <1>3, <1>4 DEF ToSet
<1>6. PICK file : file = Sorted(copy)
    OBVIOUS
<1>7. file \in File
  <2>1. Catalogued(copy)
      BY <1>2, <1>3, <1>5 DEF SessionInv, JobInv
  <2>2. catalogue[copy] \in Entry
      BY <2>1, <1>3, <1>5, CataloguedEntry DEF DiskOK
  <2> QED BY <2>2, <1>6, SortedFile
<1>8. csv' = [csv EXCEPT ![copy] = file]
    BY <1>2, <1>6
<1>9. DiskOK'
    BY <1>2, <1>3, <1>7, <1>8 DEF DiskOK
<1>10. KeyOK' /\ CountsOK'
    BY <1>2, <1>3, IdleFacts DEF KeyOK, CountsOK
<1>11. \A n \in Names : csv'[n] = csv[n] \/ (n = copy /\ csv'[n] # NoFile)
    BY <1>3, <1>5, <1>7, <1>8, SessionAssumption DEF DiskOK
<1>12. TablesOnDisk'
    BY <1>2, <1>3, <1>11, TablesKept
<1>13. CASE job' = Idle /\ job.op = "orderBy"
  <2>1. ToSet(job.copies) \subseteq {job.target}
      BY <1>3, <1>13 DEF SessionInv, JobInv
  <2>2. \A n \in CopyNames : n \in Names /\ n \notin ToSet(job.copies) /\ csv'[n] = csv[n]
      BY <2>1, <1>3, <1>5, <1>11, NamesApart
  <2>3. CopiesInv'
      BY <2>2, <1>2 DEF SessionInv, CopiesInv
  <2> QED BY <2>3, <1>2, <1>3, <1>9, <1>10, <1>12, <1>13, NoJob DEF SessionInv
<1>14. ASSUME job' \in Job, job' # Idle, job'.step \in {"key", "combine"},
              job'.op = job.op, job'.target = job.target, job'.sources = job.sources,
              job'.copies = job.copies, job'.columns = job.columns,
              job'.step = "combine" => job.op # "orderBy",
              job'.step = "key" => /\ job'.sorting \in DOMAIN job.copies /\ job'.sorting \in DOMAIN job.columns
                                   /\ job.op # "groupBy"
       PROVE  SessionInv'
  <2>1. ProcessOK'
      BY <1>2, <1>3, <1>14 DEF ProcessOK, Steps
  <2>2. \A c \in ToSet(job.copies) : csv'[c] # NoFile
    <3>1. \A c \in ToSet(job.copies) : c \in Names /\ csv[c] # NoFile
        BY <1>3 DEF SessionInv, JobInv
    <3> QED BY <3>1, <1>11
  <2>3. JobInv'
      BY <2>2, <1>2, <1>3, <1>14 DEF SessionInv, JobInv, Catalogued
  <2>4. SortingInv'
      BY <1>14 DEF SortingInv, SortsByOwnKey
  <2>5. CopiesInv'
      BY <1>2, <1>5, <1>11, <1>14, NamesApart DEF SessionInv, CopiesInv
  <2> QED BY <2>1, <2>3, <2>4, <2>5, <1>9, <1>10, <1>12 DEF SessionInv
<1>15. CASE job.sorting > 1
  <2>1. PICK before : before = job.sorting - 1
      OBVIOUS
  <2>2. /\ job.copies \in Seq(Names) /\ job.columns \in Seq(ColumnNames) /\ job.sorting \in Nat
      BY <1>3 DEF Job
  <2>3. before \in Nat /\ before \in DOMAIN job.copies /\ before \in DOMAIN job.columns
      BY <2>1, <2>2, <1>4, <1>15, LenProperties
  <2>4. job' = [job EXCEPT !.step = "key", !.sorting = before]
      BY <2>1, <1>2, <1>15
  <2>5. /\ job' \in Job /\ job'.step = "key" /\ job'.sorting = before
        /\ job'.op = job.op /\ job'.target = job.target /\ job'.sources = job.sources
        /\ job'.copies = job.copies /\ job'.columns = job.columns
      BY <2>3, <2>4, <1>3 DEF Job, Steps
  <2>6. job' # Idle /\ job.op # "groupBy"
      BY <2>5, <1>4, <1>15, IdleFacts
  <2> QED BY <2>3, <2>5, <2>6, <1>14
<1>16. CASE ~(job.sorting > 1) /\ job.op # "orderBy"
  <2>1. "combine" \in Steps \ {"none"} /\ job' = [job EXCEPT !.step = "combine"]
      BY <1>2, <1>16 DEF Steps
  <2>2. /\ job' \in Job /\ job' # Idle /\ job'.step = "combine"
        /\ job'.op = job.op /\ job'.target = job.target /\ job'.sources = job.sources
        /\ job'.copies = job.copies /\ job'.columns = job.columns
      BY <2>1, <1>3, NextStep
  <2> QED BY <2>2, <1>14, <1>16
<1> QED BY <1>2, <1>13, <1>15, <1>16

LEMMA DropCopiesInv == ASSUME SessionInv, DropCopies PROVE SessionInv'
<1>1. /\ job.step = "drop" /\ UNCHANGED <<sortKey, status, commands, kills, died>>
      /\ pages' = pages \ ToSet(job.copies)
      /\ csv' = [n \in Names |-> IF n \in ToSet(job.copies) THEN NoFile ELSE csv[n]]
      /\ catalogue' = [n \in Names |-> IF n \in ToSet(job.copies) THEN [catalogue[n] EXCEPT !.live = FALSE]
                                       ELSE catalogue[n]]
      /\ job' = Idle
    BY DEF DropCopies
<1>2. /\ job # Idle /\ status = "running" /\ died \in BOOLEAN
      /\ DiskOK /\ KeyOK /\ CountsOK /\ ToSet(job.copies) \subseteq Names
    BY <1>1, JobFacts
<1>3. /\ ToSet(job.copies) \subseteq CopyNames /\ \A n \in ToSet(job.copies) : Catalogued(n)
    BY <1>1, <1>2 DEF SessionInv, JobInv
<1>4. \A n \in ToSet(job.copies) : /\ [catalogue[n] EXCEPT !.live = FALSE] \in Entry
                                   /\ ~[catalogue[n] EXCEPT !.live = FALSE].live
  <2>1. \A n \in ToSet(job.copies) : catalogue[n] \in Entry
      BY <1>2, <1>3, CataloguedEntry DEF DiskOK
  <2> QED BY <2>1 DEF Entry
<1>5. DiskOK'
    BY <1>1, <1>2, <1>4 DEF DiskOK
<1>6. KeyOK' /\ CountsOK'
    BY <1>1, <1>2 DEF KeyOK, CountsOK
<1>7. TablesOnDisk'
  <2>1. \A n \in Names : \/ /\ catalogue'[n] = catalogue[n] /\ csv'[n] = csv[n]
                            /\ n \in pages => n \in pages'
                         \/ ~catalogue'[n].live /\ n \notin UserNames
      BY <1>1, <1>3, <1>4, NamesApart
  <2> QED BY <2>1, <1>1, <1>2 DEF SessionInv, TablesOnDisk, Catalogued
<1>8. CopiesInv'
  <2>1. \A n \in CopyNames : \/ csv'[n] = NoFile /\ n \notin pages'
                             \/ /\ n \notin ToSet(job.copies) /\ csv'[n] = csv[n]
                                /\ n \in pages' => n \in pages
      BY <1>1, NamesApart
  <2> QED BY <2>1, <1>1 DEF SessionInv, CopiesInv
<1> QED BY <1>1, <1>2, <1>5, <1>6, <1>7, <1>8, NoJob DEF SessionInv

\* The header of a result: the columns of both tables, or the group's and the aggregate's.
LEMMA HeaderOfResult == ASSUME SessionInv, job.step = "combine" PROVE Header \in ColumnSeqs
<1>1. /\ job \in Job /\ 1 \in DOMAIN job.sources /\ 1 \in DOMAIN job.columns
      /\ job.op = "join" => 2 \in DOMAIN job.sources
      /\ \A i \in DOMAIN job.sources : catalogue[job.sources[i]] \in Entry
    BY JobFacts DEF SessionInv, JobInv
<1>2. CASE job.op = "join"
  <2>1. PICK s, t : s = catalogue[job.sources[1]].columns /\ t = catalogue[job.sources[2]].columns
      OBVIOUS
  <2>2. s \in ColumnSeqs /\ t \in ColumnSeqs
      BY <2>1, <1>1, <1>2 DEF Entry
  <2>3. s \o t \in ColumnSeqs
      BY <2>2, ConcatProperties DEF ColumnSeqs
  <2> QED BY <2>1, <2>3, <1>2 DEF Header
<1>3. CASE job.op # "join"
  <2>1. PICK c : c = job.columns[1]
      OBVIOUS
  <2>2. c \in ColumnNames
    <3>1. job.columns \in Seq(ColumnNames)
        BY <1>1 DEF Job
    <3> QED BY <3>1, <2>1, <1>1, LenProperties
  <2>3. <<c, "aggregate">> \in ColumnSeqs
    <3>1. PICK S : S = ColumnNames \cup {"aggregate"}
        OBVIOUS
    <3>2. c \in S /\ "aggregate" \in S
        BY <3>1, <2>2
    <3>3. <<c, "aggregate">> \in Seq(S)
        BY <3>2
    <3> QED BY <3>1, <3>3 DEF ColumnSeqs
  <2> QED BY <2>1, <2>3, <1>3 DEF Header
<1> QED BY <1>2, <1>3

LEMMA CombineInv == ASSUME SessionInv, Combine PROVE SessionInv'
<1>1. job.step = "combine" /\ UNCHANGED <<sortKey, commands, kills>>
    BY DEF Combine
<1>2. PICK rows \in BOOLEAN :
          /\ csv' = [csv EXCEPT ![job.target] = Appended(job.target, Header, rows)]
          /\ \/ Crash /\ died' = TRUE /\ UNCHANGED <<pages, catalogue>>
             \/ /\ pages' = IF rows THEN pages \cup {job.target} ELSE pages
                /\ catalogue' = [catalogue EXCEPT ![job.target] =
                                    [columns |-> Header, counted |-> FALSE, live |-> TRUE]]
                /\ job' = [job EXCEPT !.step = "drop"]
                /\ UNCHANGED <<status, died>>
    BY DEF Combine
<1>3. /\ job # Idle /\ status = "running" /\ job \in Job /\ died \in BOOLEAN
      /\ DiskOK /\ KeyOK /\ CountsOK /\ job.target \in UserNames /\ ToSet(job.copies) \subseteq Names
    BY <1>1, JobFacts
<1>4. PICK target, header : target = job.target /\ header = Header
    OBVIOUS
<1>5. target \in UserNames /\ target \in Names /\ target \notin CopyNames /\ header \in ColumnSeqs
    BY <1>1, <1>3, <1>4, HeaderOfResult, NamesApart
<1>6. PICK file : file = Appended(target, header, rows)
    OBVIOUS
<1>7. file \in File
    BY <1>3, <1>5, <1>6, AppendedFile DEF DiskOK
<1>8. csv' = [csv EXCEPT ![target] = file]
    BY <1>2, <1>4, <1>6
<1>9. csv' \in [Names -> File \cup {NoFile}] /\ \A n \in Names : csv'[n] = IF n = target THEN file ELSE csv[n]
    BY <1>3, <1>5, <1>7, <1>8 DEF DiskOK
<1>10. CASE Crash /\ died' = TRUE /\ UNCHANGED <<pages, catalogue>>
  <2>1. DiskOK'
      BY <1>3, <1>9, <1>10 DEF DiskOK
  <2> QED BY <2>1, <1>1, <1>10, CrashInv
<1>11. CASE /\ pages' = IF rows THEN pages \cup {job.target} ELSE pages
            /\ catalogue' = [catalogue EXCEPT ![job.target] =
                                [columns |-> Header, counted |-> FALSE, live |-> TRUE]]
            /\ job' = [job EXCEPT !.step = "drop"]
            /\ UNCHANGED <<status, died>>
  <2>1. PICK entry : entry = [columns |-> header, counted |-> FALSE, live |-> TRUE]
      OBVIOUS
  <2>2. entry \in Entry /\ ~entry.counted /\ entry.live /\ entry # NoTable
    <3>1. entry \in Entry /\ ~entry.counted /\ entry.live
        BY <2>1, <1>5 DEF Entry
    <3> QED BY <3>1, SessionAssumption
  <2>3. catalogue' = [catalogue EXCEPT ![target] = entry]
      BY <2>1, <1>4, <1>11
  <2>4. /\ catalogue' \in [Names -> Entry \cup {NoTable}]
        /\ \A n \in Names : catalogue'[n] = IF n = target THEN entry ELSE catalogue[n]
      BY <2>2, <2>3, <1>3, <1>5 DEF DiskOK
  <2>5. DiskOK'
      BY <2>4, <1>3, <1>4, <1>5, <1>9, <1>11 DEF DiskOK
  <2>6. /\ job' \in Job /\ job' # Idle /\ job'.step = "drop"
        /\ job'.op = job.op /\ job'.target = job.target /\ job'.sources = job.sources
        /\ job'.copies = job.copies /\ job'.columns = job.columns
    <3>1. "drop" \in Steps \ {"none"}
        BY DEF Steps
    <3> QED BY <3>1, <1>3, <1>11, NextStep
  <2>7. ProcessOK'
      BY <2>6, <1>3, <1>11 DEF ProcessOK, Steps
  <2>8. \A n \in Names : /\ Catalogued(n) => Catalogued(n)'
                         /\ csv[n] # NoFile => csv'[n] # NoFile
      BY <2>2, <2>4, <1>7, <1>9, SessionAssumption DEF Catalogued
  <2>9. JobInv'
    <3>1. \A i \in DOMAIN job'.sources : Catalogued(job.sources[i])'
      <4>1. \A i \in DOMAIN job.sources : job.sources[i] \in Names
          BY <1>1, JobFacts
      <4>2. \A i \in DOMAIN job.sources : Catalogued(job.sources[i])
          BY <1>3 DEF SessionInv, JobInv
      <4> QED BY <4>1, <4>2, <2>6, <2>8
    <3>2. \A c \in ToSet(job.copies) : Catalogued(c)' /\ csv'[c] # NoFile
        BY <2>8, <1>1, <1>3 DEF SessionInv, JobInv
    <3> QED BY <3>1, <3>2, <2>6, <1>1, <1>3 DEF SessionInv, JobInv
  <2>10. TablesOnDisk'
      BY <2>2, <2>4, <1>3, <1>5, <1>9, <1>11 DEF SessionInv, TablesOnDisk, Catalogued
  <2>11. CopiesInv'
      BY <2>6, <1>4, <1>5, <1>9, <1>11, NamesApart DEF SessionInv, CopiesInv
  <2>12. KeyOK' /\ CountsOK'
      BY <1>1, <1>3 DEF KeyOK, CountsOK
  <2>13. SortingInv'
      BY <2>6 DEF SortingInv, SortsByOwnKey
  <2> QED BY <2>5, <2>7, <2>9, <2>10, <2>11, <2>12, <2>13 DEF SessionInv
<1> QED BY <1>2, <1>10, <1>11

-----------------------------------------------------------------------------
(* The theorems *)

LEMMA NextSession == ASSUME SessionInv, [Next]_vars PROVE SessionInv'
<1>1. CASE \E n \in UserNames : LOAD(n) \/ CLEAR(n) \/ EXPORT(n) \/ PRINT(n)
    BY <1>1, LoadInv, ClearInv, ExportInv, PrintInv
<1>2. CASE \E n \in UserNames, from, to \in ColumnNames : RENAME(n, from, to)
    BY <1>2, RenameInv
<1>3. CASE \E n \in UserNames, command \in SortCommands : SORTFails(n, command) \/ SORT(n, command)
    BY <1>3, SortFailsInv, SortInv
<1>4. CASE \E r, n \in UserNames, c \in ColumnNames : ORDERBY(r, n, c) \/ GROUPBY(r, n, c)
    BY <1>4, AssignmentsInv
<1>5. CASE \E r, n, m \in UserNames, c, d \in ColumnNames, binop \in {"==", "!="} : JOIN(r, n, m, c, d, binop)
    BY <1>5, AssignmentsInv
<1>6. CASE QUIT \/ Restart \/ Kill
    BY <1>6, QuitInv, RestartInv, KillInv
<1>7. CASE Working
    BY <1>7, CopyRowsInv, LoadCopiesInv, SetKeyInv, SortCopyInv, CombineInv, DropCopiesInv DEF Working
<1>8. CASE UNCHANGED vars
  <2>1. UNCHANGED <<csv, pages, catalogue, sortKey, job, status, commands, kills, died>>
      BY <1>8 DEF vars
  <2>2. DiskOK' /\ KeyOK' /\ CountsOK' /\ ProcessOK'
      BY <2>1 DEF SessionInv, DiskOK, KeyOK, CountsOK, ProcessOK
  <2>3. JobInv' /\ SortingInv' /\ TablesOnDisk' /\ CopiesInv'
      BY <2>1 DEF SessionInv, JobInv, SortingInv, SortsByOwnKey, TablesOnDisk, CopiesInv, Catalogued
  <2> QED BY <2>2, <2>3 DEF SessionInv
<1> QED BY <1>1, <1>2, <1>3, <1>4, <1>5, <1>6, <1>7, <1>8 DEF Next

\* The inductive invariant: what a running assignment knows of its tables and copies.
THEOREM SessionInvariant == Spec => []SessionInv
BY InitSession, NextSession, PTL DEF Spec

\* Type correctness, and a copy is sorted by the key of its assignment alone.
THEOREM SessionTypeOK == Spec => []TypeOK
<1>1. SessionInv => TypeOK
    BY DEF SessionInv, TypeOK, DiskOK, KeyOK, SortingInv, CountsOK, ProcessOK, Steps
<1> QED BY <1>1, SessionInvariant, PTL

\* A catalogued table is alive and on disk.
THEOREM SessionTablesOnDisk == Spec => []TablesOnDisk
<1>1. SessionInv => TablesOnDisk
    BY DEF SessionInv
<1> QED BY <1>1, SessionInvariant, PTL

\* No copy outlives its assignment as long as no command has died.
THEOREM SessionNoCopiesAtRest == Spec => []NoCopiesAtRest
<1>1. ASSUME SessionInv PROVE NoCopiesAtRest
  <2>1. job = Idle => ToSet(job.copies) = {}
      BY IdleFacts
  <2> QED BY <2>1, <1>1 DEF SessionInv, CopiesInv, NoCopiesAtRest, Running
<1> QED BY <1>1, SessionInvariant, PTL

\* An assignment changes no table but its target and its copies.
THEOREM SessionOnlyTargetChanges == Spec => OnlyTargetChanges
<1> DEFINE Others == \A n \in UserNames \ {job.target} :
                        csv'[n] = csv[n] /\ catalogue'[n] = catalogue[n] /\ (n \in pages' <=> n \in pages)
<1>1. ASSUME SessionInv, Next, job # Idle PROVE Others
  <2>1. job.step # "none" /\ status = "running"
      BY <1>1 DEF SessionInv, ProcessOK
  <2>2. ToSet(job.copies) \subseteq CopyNames \cup {job.target} /\ DiskOK
      BY <1>1 DEF SessionInv, JobInv
  <2>3. \A n \in UserNames \ {job.target} : n \in Names /\ n \notin ToSet(job.copies)
      BY <2>2, NamesApart
  <2>4. Working \/ Kill
      BY <1>1, <2>1, ZenonT(30) DEF Next, LOAD, CLEAR, EXPORT, PRINT, RENAME, SORTFails, SORT, ORDERBY, GROUPBY, JOIN,
                       Assign, QUIT, Restart, Command, Running
  <2>5. CASE Kill
      BY <2>5 DEF Kill
  <2>6. CASE CopyRows
      BY <2>3, <2>6 DEF CopyRows, ToSet
  <2>7. CASE LoadCopies
      BY <2>3, <2>7 DEF LoadCopies
  <2>8. CASE SetKey
      BY <2>8 DEF SetKey
  <2>9. CASE SortCopy
    <3>1. job \in Job /\ job.sorting \in DOMAIN job.copies
        BY <1>1, <2>9 DEF SessionInv, JobInv, SortingInv, SortCopy
    <3>2. job.copies[job.sorting] \in ToSet(job.copies)
        BY <3>1 DEF ToSet
    <3> QED BY <2>2, <2>3, <2>9, <3>2 DEF SortCopy, DiskOK
  <2>10. CASE Combine
      BY <2>2, <2>3, <2>10 DEF Combine, DiskOK
  <2>11. CASE DropCopies
      BY <2>3, <2>11 DEF DropCopies
  <2> QED BY <2>4, <2>5, <2>6, <2>7, <2>8, <2>9, <2>10, <2>11 DEF Working
<1>2. ASSUME SessionInv, [Next]_vars PROVE [job # Idle => Others]_vars
    BY <1>1, <1>2
<1> QED BY <1>2, SessionInvariant, PTL DEF Spec, OnlyTargetChanges
=============================================================================
