---------------------------- MODULE TableSession ----------------------------
(***************************************************************************)
(* The table half of the server, src/src: server.cpp, the parsers and      *)
(* executors, tableCatalogue.cpp and the life of a Table in table.cpp.     *)
(* What is kept of a table is where it exists: in the catalogue, in page   *)
(* files under data/temp, and as data/<name>.csv, with its column names.   *)
(* The commands that sort a copy (ORDER BY, GROUP BY, JOIN) are taken step *)
(* by step, since the process may die between two steps and start again.   *)
(***************************************************************************)
EXTENDS Integers, FiniteSets, SequencesExt

CONSTANTS UserNames,     \* the table names that commands use
          ColumnNames,
          InitialFiles,  \* what data/ may hold at the start
          SortCommands,  \* bound: what the SORT commands say after the table's name
          NoFile, NoTable,
          MaxCommands,   \* bound: the number of commands
          MaxKills,      \* bound: how often the process is killed
          MaxSortKeys    \* bound: the columns and the strategies left over from failed SORTs

\* The names joinTables and groupBy give their sorted copies.
JoinCopies == <<"temp_GroupBy1", "temp_GroupBy2">>
GroupCopies == <<"temp_GroupBy">>
CopyNames == ToSet(JoinCopies) \cup ToSet(GroupCopies)
Names == UserNames \cup CopyNames

\* A file under data/, and an entry of the catalogue.
ColumnSeqs == Seq(ColumnNames \cup {"aggregate"})
File == [columns : ColumnSeqs, rows : BOOLEAN, clean : BOOLEAN]
Entry == [columns : ColumnSeqs, counted : BOOLEAN, live : BOOLEAN]

\* parsedQuery.sortColumns, and the length of sortStrategy.
Key == [columns : Seq(ColumnNames), strategies : Nat]

ASSUME SessionAssumption ==
    /\ UserNames \cap CopyNames = {}
    /\ NoFile \notin File /\ NoTable \notin Entry
    /\ MaxCommands \in Nat /\ MaxKills \in Nat /\ MaxSortKeys \in Nat

\* The columns between BY and IN, and the strategies after IN up to the end or
\* to the first that is not known, any number of either.
ASSUME SortCommandsAssumption ==
    SortCommands \subseteq [columns : Seq(ColumnNames), strategies : Nat, known : BOOLEAN]

\* No copies are left from before.
ASSUME InitialFilesAssumption ==
    \A files \in InitialFiles :
        files \in [Names -> File \cup {NoFile}] /\ \A n \in CopyNames : files[n] = NoFile

VARIABLES csv,        \* name -> [columns, rows, clean], or NoFile
          pages,      \* the names with page files
          catalogue,  \* name -> [columns, counted, live], or NoTable
          sortKey,    \* what parsedQuery says to sort by
          job,        \* the assignment that runs
          status,     \* the process: "running", "ended" or "crashed"
          commands,   \* history: the number of commands
          kills,      \* history: the number of kills
          died        \* history: the process has died in a command

vars == <<csv, pages, catalogue, sortKey, job, status, commands, kills, died>>

Idle == [op |-> "none", target |-> "", sources |-> <<>>, copies |-> <<>>,
         columns |-> <<>>, binop |-> "", sorting |-> 0, step |-> "none"]
NoKey == [columns |-> <<>>, strategies |-> 0]

\* The one column, and its strategy, that an assignment sorts by.
KeyOf(column) == [columns |-> <<column>>, strategies |-> 1]

-----------------------------------------------------------------------------
Catalogued(n) == catalogue[n] # NoTable

\* Table::load and blockify succeed; they fail quietly on a repeated column
\* name or when there is no row, and std::stoi throws on a line of names.
Unique(columns) == \A i, j \in DOMAIN columns : columns[i] = columns[j] => i = j
Loads(file) == Unique(file.columns) /\ file.clean /\ file.rows
Throws(file) == Unique(file.columns) /\ ~file.clean

\* A table that load has read: blockCount and rowsPerBlockCount are counted.
Loaded(columns) == [columns |-> columns, counted |-> TRUE, live |-> TRUE]

\* Table(name, columns) and writeRow: the header, and rows, appended to
\* data/<name>.csv, whatever it holds.
Appended(n, columns, rows) ==
    IF csv[n] = NoFile THEN [columns |-> columns, rows |-> rows, clean |-> TRUE]
    ELSE [csv[n] EXCEPT !.rows = TRUE, !.clean = FALSE]

\* A cursor looks up the rows of page 0; without counts it reads outside the vector.
Readable(n) == catalogue[n].counted

Running == status = "running" /\ job = Idle

Crash == /\ status' = "crashed" /\ job' = Idle

Command == /\ Running /\ commands < MaxCommands /\ commands' = commands + 1

-----------------------------------------------------------------------------
Init ==
    /\ csv \in InitialFiles
    /\ pages = {} /\ catalogue = [n \in Names |-> NoTable]
    /\ sortKey = NoKey /\ job = Idle /\ status = "running"
    /\ commands = 0 /\ kills = 0 /\ died = FALSE

\* LOAD: the name must not be catalogued and the file must exist.
LOAD(n) ==
    /\ Command /\ ~Catalogued(n) /\ csv[n] # NoFile
    /\ IF Throws(csv[n]) THEN Crash /\ died' = TRUE /\ UNCHANGED <<pages, catalogue>>
       ELSE /\ pages' = IF Loads(csv[n]) THEN pages \cup {n} ELSE pages
            /\ catalogue' = IF Loads(csv[n]) THEN [catalogue EXCEPT ![n] = Loaded(csv[n].columns)] ELSE catalogue
            /\ UNCHANGED <<job, status, died>>
    /\ UNCHANGED <<csv, sortKey, kills>>

\* CLEAR: unload removes the counted pages; the .csv is always in data/ and stays.
CLEAR(n) ==
    /\ Command /\ Catalogued(n)
    /\ pages' = IF Readable(n) THEN pages \ {n} ELSE pages
    /\ catalogue' = [catalogue EXCEPT ![n] = NoTable]
    /\ UNCHANGED <<csv, sortKey, job, status, kills, died>>

\* EXPORT and PRINT read the table through a cursor.
EXPORT(n) ==
    /\ Command /\ Catalogued(n)
    /\ csv' = [csv EXCEPT ![n] = [columns |-> catalogue[n].columns, rows |-> Readable(n), clean |-> TRUE]]
    /\ IF Readable(n) THEN UNCHANGED <<job, status, died>> ELSE Crash /\ died' = TRUE
    /\ UNCHANGED <<pages, catalogue, sortKey, kills>>

PRINT(n) ==
    /\ Command /\ Catalogued(n) /\ ~Readable(n)
    /\ Crash /\ died' = TRUE
    /\ UNCHANGED <<csv, pages, catalogue, sortKey, kills>>

\* RENAME changes the catalogue's table only; the new name must be free.
RENAME(n, from, to) ==
    /\ Command /\ Catalogued(n)
    /\ LET columns == catalogue[n].columns
       IN  /\ to \notin ToSet(columns)
           /\ \E i \in DOMAIN columns :
                 /\ columns[i] = from /\ \A j \in 1 .. i - 1 : columns[j] # from
                 /\ catalogue' = [catalogue EXCEPT ![n].columns = [columns EXCEPT ![i] = to]]
    /\ UNCHANGED <<csv, pages, sortKey, job, status, kills, died>>

\* syntacticParseSORT: columns and strategies are appended to those that are
\* there; it does not ask whether there are as many of one as of the other.
Parsed(command) == [columns    |-> sortKey.columns \o command.columns,
                    strategies |-> sortKey.strategies + command.strategies]

\* A strategy, the table or a column is not known; nothing clears the keys.
SORTFails(n, command) ==
    /\ Command
    /\ sortKey' = Parsed(command)
    /\ Len(sortKey'.columns) <= MaxSortKeys /\ sortKey'.strategies <= MaxSortKeys
    /\ \/ ~command.known
       \/ ~Catalogued(n)
       \/ Catalogued(n) /\ ~(ToSet(sortKey'.columns) \subseteq ToSet(catalogue[n].columns))
    /\ UNCHANGED <<csv, pages, catalogue, job, status, kills, died>>

\* The .csv as sortTable writes it.
Sorted(n) == [columns |-> catalogue[n].columns, rows |-> TRUE, clean |-> TRUE]

\* executeSORT sorts in place by all that is in the keys, writes the .csv and
\* clears them.  sortTable gives columnIndexes the size of the strategies and
\* writes an index for every column: with more columns than strategies beyond
\* its end.  The process may die of that, before or after it writes the .csv, or
\* in a later command, which is then a Kill.
SORT(n, command) ==
    /\ Command /\ command.known /\ Catalogued(n)
    /\ LET key == Parsed(command)
       IN  /\ ToSet(key.columns) \subseteq ToSet(catalogue[n].columns)
           /\ \/ /\ Readable(n)
                 /\ csv' = [csv EXCEPT ![n] = Sorted(n)] /\ sortKey' = NoKey
                 /\ UNCHANGED <<job, status, died>>
              \/ /\ ~Readable(n) /\ Crash /\ died' = TRUE
                 /\ UNCHANGED <<csv, sortKey>>
              \/ /\ Len(key.columns) > key.strategies /\ Crash /\ died' = TRUE
                 /\ csv' \in {csv, [csv EXCEPT ![n] = Sorted(n)]}
                 /\ UNCHANGED sortKey
    /\ UNCHANGED <<pages, catalogue, kills>>

\* QUIT: the catalogue's destructor unloads every table, also those that
\* deleteTable has freed, which may or may not end the process.
QUIT ==
    /\ Command
    /\ pages' = pages \ {n \in Names : Catalogued(n) /\ Readable(n)}
    /\ \/ status' = "ended" /\ UNCHANGED died
       \/ /\ \E n \in Names : Catalogued(n) /\ ~catalogue[n].live
          /\ status' = "crashed" /\ died' = TRUE
    /\ UNCHANGED <<csv, catalogue, sortKey, job, kills>>

\* main: data/temp is emptied, and every global starts anew.
Restart ==
    /\ status # "running"
    /\ status' = "running"
    /\ pages' = {} /\ catalogue' = [n \in Names |-> NoTable] /\ sortKey' = NoKey
    /\ UNCHANGED <<csv, job, commands, kills, died>>

\* The process is killed from outside.
Kill ==
    /\ status = "running" /\ kills < MaxKills
    /\ kills' = kills + 1
    /\ Crash /\ died' = (died \/ job # Idle)
    /\ UNCHANGED <<csv, pages, catalogue, sortKey, commands>>

-----------------------------------------------------------------------------
\* The semantic check of an assignment, and the constructors of its copies,
\* each of which writes its header.  Only GROUP BY sets its key before them.
Assign(op, target, sources, copies, columns, binop) ==
    /\ Command
    /\ ~Catalogued(target)
    /\ \A i \in DOMAIN sources : Catalogued(sources[i]) /\ columns[i] \in ToSet(catalogue[sources[i]].columns)
    /\ csv' = [n \in Names |->
                  IF n \in ToSet(copies)
                  THEN Appended(n, catalogue[sources[CHOOSE i \in DOMAIN copies : copies[i] = n]].columns, FALSE)
                  ELSE csv[n]]
    /\ job' = [op |-> op, target |-> target, sources |-> sources, copies |-> copies,
               columns |-> columns, binop |-> binop, sorting |-> Len(copies), step |-> "copy"]
    /\ sortKey' = IF op = "groupBy" THEN KeyOf(columns[1]) ELSE sortKey
    /\ UNCHANGED <<pages, catalogue, status, kills, died>>

ORDERBY(target, n, column) == Assign("orderBy", target, <<n>>, <<target>>, <<column>>, "")
GROUPBY(target, n, column) == Assign("groupBy", target, <<n>>, GroupCopies, <<column>>, "")
JOIN(target, n, m, column, other, binop) ==
    Assign("join", target, <<n, m>>, JoinCopies, <<column, other>>, binop)

\* Faulty version: the rows are written to the file they come from.
CopyRowsInPlace ==
    /\ job.step = "copy"
    /\ csv' = [n \in Names |->
                  IF n \in ToSet(job.sources) THEN Appended(n, catalogue[n].columns, TRUE) ELSE csv[n]]
    /\ IF \A i \in DOMAIN job.sources : Readable(job.sources[i])
       THEN job' = [job EXCEPT !.step = "load"] /\ UNCHANGED <<status, died>>
       ELSE Crash /\ died' = TRUE
    /\ UNCHANGED <<pages, catalogue, sortKey, commands, kills>>

\* The rows of each source are appended to its copy.
CopyRows ==
    /\ job.step = "copy"
    /\ csv' = [n \in Names |->
                  IF \E i \in DOMAIN job.copies :
                        job.copies[i] = n /\ \A j \in 1 .. i : Readable(job.sources[j])
                  THEN [csv[n] EXCEPT !.rows = TRUE] ELSE csv[n]]
    /\ IF \A i \in DOMAIN job.sources : Readable(job.sources[i])
       THEN job' = [job EXCEPT !.step = "load"] /\ UNCHANGED <<status, died>>
       ELSE Crash /\ died' = TRUE
    /\ UNCHANGED <<pages, catalogue, sortKey, commands, kills>>

\* executeLOAD of each copy, without the checks of a LOAD command.  A copy that
\* does not load throws, or is looked up in the catalogue in vain.
LoadCopies ==
    /\ job.step = "load"
    /\ LET copies == ToSet(job.copies)
       IN  IF \A n \in copies : Loads(csv[n])
           THEN /\ pages' = pages \cup copies
                /\ catalogue' = [n \in Names |-> IF n \in copies THEN Loaded(csv[n].columns) ELSE catalogue[n]]
                /\ job' = [job EXCEPT !.step = IF job.op = "groupBy" THEN "sort" ELSE "key"]
                /\ UNCHANGED <<status, died>>
           ELSE Crash /\ died' = TRUE /\ UNCHANGED <<pages, catalogue>>
    /\ UNCHANGED <<csv, sortKey, commands, kills>>

\* Faulty version: the key is not cleared before it is set.
SetKeyAppends ==
    /\ job.step = "key"
    /\ sortKey' = [columns |-> Append(sortKey.columns, job.columns[job.sorting]),
                   strategies |-> sortKey.strategies + 1]
    /\ job' = [job EXCEPT !.step = "sort"]
    /\ UNCHANGED <<csv, pages, catalogue, status, commands, kills, died>>

\* The key for the copy that is sorted next, JOIN's second before its first:
\* whatever a failed SORT has left there is cleared.
SetKey ==
    /\ job.step = "key"
    /\ sortKey' = KeyOf(job.columns[job.sorting])
    /\ job' = [job EXCEPT !.step = "sort"]
    /\ UNCHANGED <<csv, pages, catalogue, status, commands, kills, died>>

\* sortTable on that copy: its file is written anew, the key cleared.
SortCopy ==
    /\ job.step = "sort"
    /\ csv' = [csv EXCEPT ![job.copies[job.sorting]] = Sorted(job.copies[job.sorting])]
    /\ sortKey' = NoKey
    /\ job' = IF job.sorting > 1 THEN [job EXCEPT !.step = "key", !.sorting = job.sorting - 1]
              ELSE IF job.op = "orderBy" THEN Idle
              ELSE [job EXCEPT !.step = "combine"]
    /\ UNCHANGED <<pages, catalogue, status, commands, kills, died>>

Header ==
    IF job.op = "join" THEN catalogue[job.sources[1]].columns \o catalogue[job.sources[2]].columns
    ELSE <<job.columns[1], "aggregate">>

\* The result of a GROUP BY or JOIN: its header, its pages, the catalogue's
\* entry without counts, and its rows in the file.  JOIN has no function for !=.
Combine ==
    /\ job.step = "combine"
    /\ IF job.binop = "!="
       THEN /\ csv' = [csv EXCEPT ![job.target] = Appended(job.target, Header, FALSE)]
            /\ Crash /\ died' = TRUE
            /\ UNCHANGED <<pages, catalogue>>
       ELSE \E rows \in BOOLEAN :
            /\ csv' = [csv EXCEPT ![job.target] = Appended(job.target, Header, rows)]
            /\ pages' = IF rows THEN pages \cup {job.target} ELSE pages
            /\ catalogue' = [catalogue EXCEPT ![job.target] =
                                [columns |-> Header, counted |-> FALSE, live |-> TRUE]]
            /\ job' = [job EXCEPT !.step = "drop"]
            /\ UNCHANGED <<status, died>>
    /\ UNCHANGED <<sortKey, commands, kills>>

\* Faulty versions: unload and deleteTable on the tables that were joined or
\* grouped as well, and no deleteTable at all.
DropSources ==
    /\ job.step = "drop"
    /\ LET dropped == ToSet(job.copies) \cup ToSet(job.sources)
       IN  /\ pages' = pages \ dropped
           /\ csv' = [n \in Names |-> IF n \in dropped THEN NoFile ELSE csv[n]]
           /\ catalogue' = [n \in Names |-> IF n \in dropped THEN [catalogue[n] EXCEPT !.live = FALSE]
                                            ELSE catalogue[n]]
    /\ job' = Idle
    /\ UNCHANGED <<sortKey, status, commands, kills, died>>
DropPagesOnly ==
    /\ job.step = "drop"
    /\ pages' = pages \ ToSet(job.copies)
    /\ job' = Idle
    /\ UNCHANGED <<csv, catalogue, sortKey, status, commands, kills, died>>

\* unload and deleteTable on the copies: pages, file and object go, and the
\* catalogue keeps the pointer.
DropCopies ==
    /\ job.step = "drop"
    /\ pages' = pages \ ToSet(job.copies)
    /\ csv' = [n \in Names |-> IF n \in ToSet(job.copies) THEN NoFile ELSE csv[n]]
    /\ catalogue' = [n \in Names |-> IF n \in ToSet(job.copies) THEN [catalogue[n] EXCEPT !.live = FALSE]
                                     ELSE catalogue[n]]
    /\ job' = Idle
    /\ UNCHANGED <<sortKey, status, commands, kills, died>>

Working == CopyRows \/ LoadCopies \/ SetKey \/ SortCopy \/ Combine \/ DropCopies

Next ==
    \/ \E n \in UserNames : LOAD(n) \/ CLEAR(n) \/ EXPORT(n) \/ PRINT(n)
    \/ \E n \in UserNames, from, to \in ColumnNames : RENAME(n, from, to)
    \/ \E n \in UserNames, command \in SortCommands : SORTFails(n, command) \/ SORT(n, command)
    \/ \E r, n \in UserNames, c \in ColumnNames : ORDERBY(r, n, c) \/ GROUPBY(r, n, c)
    \/ \E r, n, m \in UserNames, c, d \in ColumnNames, binop \in {"==", "!="} : JOIN(r, n, m, c, d, binop)
    \/ QUIT
    \/ Restart
    \/ Kill
    \/ Working

Spec == Init /\ [][Next]_vars

-----------------------------------------------------------------------------
\* A copy is sorted by the column of its own table that the assignment names and
\* nothing else: no column or strategy that failed SORTs have left, and not the
\* key of JOIN's other copy.
SortsByOwnKey == job.step = "sort" => sortKey = KeyOf(job.columns[job.sorting])

\* Type invariant, with what the assignment and the key it sorts by have to do
\* with each other.
TypeOK ==
    /\ csv \in [Names -> File \cup {NoFile}]
    /\ pages \subseteq Names
    /\ catalogue \in [Names -> Entry \cup {NoTable}]
    /\ sortKey \in Key /\ SortsByOwnKey
    /\ job.step \in {"none", "copy", "load", "key", "sort", "combine", "drop"} /\ (job = Idle <=> job.step = "none")
    /\ status \in {"running", "ended", "crashed"} /\ (status # "running" => job = Idle)
    /\ commands \in 0 .. MaxCommands /\ kills \in 0 .. MaxKills /\ died \in BOOLEAN

\* A table that a user can name is not freed while the catalogue points to it
\* (deleteTable leaves only the copies of GROUP BY and JOIN behind so), and a
\* counted table has its pages and its .csv on disk, whatever ran before: CLEAR,
\* crashes, restarts and the removal of copies take no other table's.
TablesOnDisk ==
    status = "running" =>
        \A n \in Names : Catalogued(n) =>
            /\ n \in UserNames => catalogue[n].live
            /\ catalogue[n].counted /\ catalogue[n].live => n \in pages /\ csv[n] # NoFile

\* While an assignment runs, from its first write to its last, nothing changes
\* for the tables other than its target and its copies.
OnlyTargetChanges ==
    [][job # Idle => \A n \in UserNames \ {job.target} :
            csv'[n] = csv[n] /\ catalogue'[n] = catalogue[n] /\ (n \in pages' <=> n \in pages)]_vars

\* As long as no command has died, no file or page of a copy outlives the
\* assignment that made it (deleteTable); a file would break the next one.
NoCopiesAtRest ==
    Running /\ ~died => \A n \in CopyNames : csv[n] = NoFile /\ n \notin pages

\* docs/Commands.md on CLEAR: "Removes table from system", and on assignments:
\* the new name "shouldn't already exist in the system".  So a name that is not
\* in the catalogue can be assigned to, and the copy that ORDER BY makes loads.
UnusedNameIsFree ==
    job.op = "orderBy" /\ job.step = "load" /\ ~died => Loads(csv[job.target])
=============================================================================
