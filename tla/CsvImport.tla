----------------------------- MODULE CsvImport -----------------------------
(***************************************************************************)
(* The reference data: CSV files imported into the database, through the    *)
(* API or by the load command, the purge of old ones, and the model that is *)
(* loaded from it at the start and at each reload.                          *)
(*                                                                         *)
(* A loader reads a file record by record, keeps one buffer per table and   *)
(* inserts it when it has LoadMaxInsert rows and at the end.  No transaction *)
(* holds an import together: others run, and the process may be killed,     *)
(* between any two statements.  A row is its id and its model name, a date; *)
(* its other columns are left out, and so are other referentials.           *)
(***************************************************************************)
EXTENDS Integers, Sequences, FiniteSets

CONSTANTS
  CsvIds,          \* ids
  CsvDates,        \* model names: dates, as numbers
  CsvFiles,        \* the files, a set of sequences of CsvRecord
  CsvLoaders,      \* loaders that may run at the same time
  LoadMaxInsert,   \* config.LoadMaxInsert
  CsvMaxImports    \* bound: imports, purges and loads

CsvTables == {"operator", "stop_area", "line", "vehicle_journey",
              "stop_visit"}
CsvRow == [id : CsvIds, date : CsvDates]
\* ok: the right number of fields, that can be parsed
CsvRecord == [table : CsvTables, row : CsvRow, ok : BOOLEAN]

ASSUME CsvAssumption ==
  /\ \A f \in CsvFiles : f \in Seq(CsvRecord)
  /\ "purge" \notin CsvLoaders
  /\ CsvDates \subseteq Nat /\ LoadMaxInsert \in Nat \ {0}
  /\ CsvMaxImports \in Nat

VARIABLES
  csvDb,       \* [CsvTables -> SUBSET CsvRow]
  \* of each loader
  csvPc,       \* "idle", "read", "buffer", "insert" or "done"
  csvFile,     \* the file
  csvAt,       \* the record it reads next
  csvForce,    \* force
  csvDeleted,  \* deletedModels: SUBSET (CsvTables \X CsvDates)
  csvBuffer,   \* [CsvTables -> Seq(CsvRow)]: what is to be inserted
  csvErrors,   \* result.Import[ERRORS]
  csvImported, \* [CsvTables -> Nat]: result.Import
  csvAlone,    \* history: nothing else wrote to the database meanwhile
  csvBefore,   \* history: the database when the import began
  csvImports,  \* imports, purges and loads so far
  \* the model of the referential
  csvToday,    \* its date, 0 before the first load
  csvModel,    \* [CsvTables -> SUBSET CsvIds]
  csvToLoad,   \* the tables a load has still to read
  csvSteady    \* history: no write since that load began

csvLoaderVars == <<csvPc, csvFile, csvAt, csvForce, csvDeleted, csvBuffer,
                   csvErrors, csvImported, csvAlone, csvBefore>>
csvModelVars == <<csvToday, csvModel, csvToLoad>>
csvVars == <<csvDb, csvLoaderVars, csvImports, csvModelVars, csvSteady>>

NoRows == [t \in CsvTables |-> {}]
CsvEmpty == [t \in CsvTables |-> <<>>]

CsvInit ==
  /\ csvDb = NoRows
  /\ csvPc = [l \in CsvLoaders |-> "idle"]
  /\ csvFile = [l \in CsvLoaders |-> <<>>]
  /\ csvAt = [l \in CsvLoaders |-> 1]
  /\ csvForce = [l \in CsvLoaders |-> FALSE]
  /\ csvDeleted = [l \in CsvLoaders |-> {}]
  /\ csvBuffer = [l \in CsvLoaders |-> CsvEmpty]
  /\ csvErrors = [l \in CsvLoaders |-> 0]
  /\ csvImported = [l \in CsvLoaders |-> [t \in CsvTables |-> 0]]
  /\ csvAlone = [l \in CsvLoaders |-> TRUE]
  /\ csvBefore = [l \in CsvLoaders |-> NoRows]
  /\ csvImports = 0
  /\ csvToday = 0 /\ csvModel = NoRows /\ csvToLoad = {}
  /\ csvSteady = TRUE

\* someone else writes to the database
Written(by) ==
  /\ csvAlone' = [l \in CsvLoaders |-> csvAlone[l] /\ (l = by \/ csvPc[l] = "idle")]
  /\ csvSteady' = FALSE

-----------------------------------------------------------------------------
(* Loader.                                                                 *)

\* NewLoader
NewLoader(l, file, force) ==
  /\ csvPc[l] \in {"idle", "done"} /\ csvImports < CsvMaxImports
  /\ csvPc' = [csvPc EXCEPT ![l] = "read"]
  /\ csvFile' = [csvFile EXCEPT ![l] = file]
  /\ csvAt' = [csvAt EXCEPT ![l] = 1]
  /\ csvForce' = [csvForce EXCEPT ![l] = force]
  /\ csvDeleted' = [csvDeleted EXCEPT ![l] = {}]
  /\ csvBuffer' = [csvBuffer EXCEPT ![l] = CsvEmpty]
  /\ csvErrors' = [csvErrors EXCEPT ![l] = 0]
  /\ csvImported' = [csvImported EXCEPT ![l] = [t \in CsvTables |-> 0]]
  /\ csvAlone' = [csvAlone EXCEPT ![l] = TRUE]
  /\ csvBefore' = [csvBefore EXCEPT ![l] = csvDb]
  /\ csvImports' = csvImports + 1
  /\ UNCHANGED <<csvDb, csvModelVars, csvSteady>>

Current(l) == csvFile[l][csvAt[l]]

\* Loader.err: the record is counted and the next one read
Err(l) ==
  /\ csvErrors' = [csvErrors EXCEPT ![l] = @ + 1]
  /\ csvAt' = [csvAt EXCEPT ![l] = @ + 1]
  /\ UNCHANGED <<csvDb, csvPc, csvFile, csvForce, csvBuffer, csvImported,
                 csvAlone, csvBefore, csvImports, csvModelVars, csvSteady>>

MustDeleteAlways(l, r) == csvForce[l] \* mutant
MustDelete(l, r) ==
  csvForce[l] /\ <<r.table, r.row.date>> \notin csvDeleted[l]

\* handleForce: the rows of that table and model are deleted before its first
\* record joins the buffer.  The model is marked before the DELETE, that may
\* fail: the record is then an error, and the next ones are inserted
HandleForce(l, r, available) ==
  /\ csvPc[l] = "read" /\ MustDelete(l, r)
  /\ csvDeleted' = [csvDeleted EXCEPT ![l] = @ \cup {<<r.table, r.row.date>>}]
  /\ IF available
     THEN /\ csvDb' = [csvDb EXCEPT ![r.table] =
                         {row \in @ : row.date # r.row.date}]
          /\ Written(l)
          /\ csvPc' = [csvPc EXCEPT ![l] = "buffer"]
          /\ UNCHANGED <<csvFile, csvAt, csvForce, csvBuffer, csvErrors,
                         csvImported, csvBefore, csvImports, csvModelVars>>
     ELSE Err(l)

FullOffByOne(n) == n > LoadMaxInsert \* mutant
\* bulkCounter >= LoadMaxInsert
Full(n) == n >= LoadMaxInsert

\* the row joins the buffer
Buffer(l, r) ==
  /\ \/ csvPc[l] = "buffer"
     \/ csvPc[l] = "read" /\ ~MustDelete(l, r)
  /\ LET rows == Append(csvBuffer[l][r.table], r.row)
     IN  /\ csvBuffer' = [csvBuffer EXCEPT ![l][r.table] = rows]
         /\ csvPc' = [csvPc EXCEPT ![l] = IF Full(Len(rows)) THEN "insert"
                                          ELSE "read"]
  /\ csvAt' = [csvAt EXCEPT ![l] = @ + 1]
  /\ UNCHANGED <<csvDb, csvFile, csvForce, csvDeleted, csvErrors, csvImported,
                 csvAlone, csvBefore, csvImports, csvModelVars, csvSteady>>

\* a record of table t: its fields are counted and parsed, then handleForce
Handle(l, t, available) ==
  /\ csvPc[l] \in {"read", "buffer"} /\ csvAt[l] <= Len(csvFile[l])
  /\ LET r == Current(l)
     IN  /\ r.table = t
         /\ \/ ~r.ok /\ Err(l) /\ UNCHANGED csvDeleted
            \/ r.ok /\ (HandleForce(l, r, available) \/ Buffer(l, r))

HandleOperator(l, available) == Handle(l, "operator", available)
HandleStopArea(l, available) == Handle(l, "stop_area", available)
HandleLine(l, available) == Handle(l, "line", available)
HandleVehicleJourney(l, available) == Handle(l, "vehicle_journey", available)
HandleStopVisit(l, available) == Handle(l, "stop_visit", available)

CsvRange(rows) == {rows[n] : n \in 1..Len(rows)}

\* INSERT of a buffer: all of its rows or none, for a key that is there already
\* or twice in it, or an error of the database; the buffer is emptied anyway
Insert(l, t, available) ==
  LET rows == csvBuffer[l][t]
      fits == /\ CsvRange(rows) \cap csvDb[t] = {}
              /\ Cardinality(CsvRange(rows)) = Len(rows)
  IN  /\ rows # <<>>
      /\ IF available /\ fits
         THEN /\ csvDb' = [csvDb EXCEPT ![t] = @ \cup CsvRange(rows)]
              /\ csvImported' = [csvImported EXCEPT ![l][t] = @ + Len(rows)]
              /\ Written(l)
              /\ UNCHANGED csvErrors
         ELSE /\ csvErrors' = [csvErrors EXCEPT ![l] = @ + 1]
              /\ UNCHANGED <<csvDb, csvImported, csvAlone, csvSteady>>
      /\ csvBuffer' = [csvBuffer EXCEPT ![l][t] = <<>>]
      /\ UNCHANGED <<csvFile, csvAt, csvForce, csvDeleted, csvBefore,
                     csvImports, csvModelVars>>

InsertOrder == <<"operator", "stop_area", "line", "vehicle_journey",
                 "stop_visit">>
InsertRank(t) == CHOOSE n \in 1..5 : InsertOrder[n] = t

AtEnd(l) == csvPc[l] = "read" /\ csvAt[l] > Len(csvFile[l])
\* the buffer that the last record filled, and at the end of the file each one
\* that has rows, in order
InsertTable(l, t, available) ==
  /\ \/ csvPc[l] = "insert" /\ Full(Len(csvBuffer[l][t]))
     \/ AtEnd(l) /\ \A u \in CsvTables : InsertRank(u) < InsertRank(t) =>
                     csvBuffer[l][u] = <<>>
  /\ Insert(l, t, available)
  /\ csvPc' = [csvPc EXCEPT ![l] = "read"]

InsertOperators(l, available) == InsertTable(l, "operator", available)
InsertStopAreas(l, available) == InsertTable(l, "stop_area", available)
InsertLines(l, available) == InsertTable(l, "line", available)
InsertVehicleJourneys(l, available) ==
  InsertTable(l, "vehicle_journey", available)
InsertStopVisits(l, available) == InsertTable(l, "stop_visit", available)

NothingLeft(l) == csvBuffer[l] = CsvEmpty

\* the result is returned
Result(l) ==
  /\ AtEnd(l) /\ NothingLeft(l)
  /\ csvPc' = [csvPc EXCEPT ![l] = "done"]
  /\ UNCHANGED <<csvDb, csvFile, csvAt, csvForce, csvDeleted, csvBuffer,
                 csvErrors, csvImported, csvAlone, csvBefore, csvImports,
                 csvModelVars, csvSteady>>

\* the process is killed: what it inserted and deleted stays
Killed(l) ==
  /\ csvPc[l] \notin {"idle", "done"}
  /\ csvPc' = [csvPc EXCEPT ![l] = "idle"]
  /\ csvFile' = [csvFile EXCEPT ![l] = <<>>]
  /\ csvAt' = [csvAt EXCEPT ![l] = 1]
  /\ csvForce' = [csvForce EXCEPT ![l] = FALSE]
  /\ csvDeleted' = [csvDeleted EXCEPT ![l] = {}]
  /\ csvBuffer' = [csvBuffer EXCEPT ![l] = CsvEmpty]
  /\ csvErrors' = [csvErrors EXCEPT ![l] = 0]
  /\ csvImported' = [csvImported EXCEPT ![l] = [t \in CsvTables |-> 0]]
  /\ csvAlone' = [csvAlone EXCEPT ![l] = TRUE]
  /\ csvBefore' = [csvBefore EXCEPT ![l] = NoRows]
  /\ UNCHANGED <<csvDb, csvImports, csvModelVars, csvSteady>>

-----------------------------------------------------------------------------
(* Purge, and the model.                                                   *)

\* Purifier.Purge, one transaction over the tables
Purge(date) ==
  /\ csvImports < CsvMaxImports
  /\ csvImports' = csvImports + 1
  /\ csvDb' = [t \in CsvTables |-> {row \in csvDb[t] : row.date >= date}]
  /\ Written("purge")
  /\ UNCHANGED <<csvPc, csvFile, csvAt, csvForce, csvDeleted, csvBuffer,
                 csvErrors, csvImported, csvBefore, csvModelVars>>

\* a new model is filled for a date
BeginLoad(date, tables) ==
  /\ csvToLoad = {} /\ csvImports < CsvMaxImports
  /\ csvToday' = date
  /\ csvModel' = NoRows /\ csvToLoad' = tables
  /\ csvSteady' = TRUE
  /\ csvImports' = csvImports + 1
  /\ UNCHANGED <<csvDb, csvLoaderVars>>

\* MemoryModel.Load, at the start, and Reload, that leaves the stop visits out
Load(date) == BeginLoad(date, CsvTables)
Reload(date) == BeginLoad(date, CsvTables \ {"stop_visit"})

LoadOrder == <<"stop_area", "line", "operator", "vehicle_journey",
               "stop_visit">>
LoadRank(t) == CHOOSE n \in 1..5 : LoadOrder[n] = t

SelectAnyDate(t) == csvDb[t] \* mutant

\* SELECT * FROM a table, of the referential and its date
SelectToday(t) == {row \in csvDb[t] : row.date = csvToday}

\* Load of a store
LoadStore(t) ==
  /\ t \in csvToLoad
  /\ \A u \in csvToLoad : LoadRank(t) <= LoadRank(u)
  /\ csvModel' = [csvModel EXCEPT ![t] = {row.id : row \in SelectToday(t)}]
  /\ csvToLoad' = csvToLoad \ {t}
  /\ UNCHANGED <<csvDb, csvLoaderVars, csvImports, csvToday, csvSteady>>

LoadStopAreas == LoadStore("stop_area")
LoadLines == LoadStore("line")
LoadOperators == LoadStore("operator")
LoadVehicleJourneys == LoadStore("vehicle_journey")
LoadStopVisits == LoadStore("stop_visit")

-----------------------------------------------------------------------------
CsvNext ==
  \/ \E l \in CsvLoaders :
       \/ \E file \in CsvFiles, force \in BOOLEAN : NewLoader(l, file, force)
       \/ \E available \in BOOLEAN :
            \/ HandleOperator(l, available) \/ HandleStopArea(l, available)
            \/ HandleLine(l, available) \/ HandleVehicleJourney(l, available)
            \/ HandleStopVisit(l, available)
            \/ InsertOperators(l, available) \/ InsertStopAreas(l, available)
            \/ InsertLines(l, available) \/ InsertVehicleJourneys(l, available)
            \/ InsertStopVisits(l, available)
       \/ Result(l) \/ Killed(l)
  \/ \E date \in CsvDates : Purge(date) \/ Load(date) \/ Reload(date)
  \/ LoadStopAreas \/ LoadLines \/ LoadOperators \/ LoadVehicleJourneys
  \/ LoadStopVisits

CsvSpec == CsvInit /\ [][CsvNext]_csvVars

-----------------------------------------------------------------------------
\* Types; a buffer never holds more than LoadMaxInsert rows (bulkCounter), and
\* holds that many only until the next statement.
CsvTypeOK ==
  /\ csvDb \in [CsvTables -> SUBSET CsvRow]
  /\ csvPc \in [CsvLoaders -> {"idle", "read", "buffer", "insert", "done"}]
  /\ \A l \in CsvLoaders :
       /\ csvFile[l] \in CsvFiles \cup {<<>>}
       /\ csvAt[l] \in 1..(Len(csvFile[l]) + 1)
       /\ \A t \in CsvTables :
            /\ CsvRange(csvBuffer[l][t]) \subseteq CsvRow
            /\ Len(csvBuffer[l][t]) < LoadMaxInsert \/ csvPc[l] = "insert"
  /\ csvForce \in [CsvLoaders -> BOOLEAN]
  /\ csvDeleted \in [CsvLoaders -> SUBSET (CsvTables \X CsvDates)]
  /\ csvErrors \in [CsvLoaders -> Nat]
  /\ csvImported \in [CsvLoaders -> [CsvTables -> Nat]]
  /\ csvAlone \in [CsvLoaders -> BOOLEAN]
  /\ csvImports \in 0..CsvMaxImports
  /\ csvToday \in CsvDates \cup {0} /\ csvModel \in [CsvTables -> SUBSET CsvIds]
  /\ csvToLoad \subseteq CsvTables /\ csvSteady \in BOOLEAN

\* the rows of a file, of one table
RowsOf(file, t) == {file[n].row : n \in {m \in 1..Len(file) :
                                           file[m].table = t /\ file[m].ok}}
\* the models a forced import of the file replaces
Replaced(file, t) == {row.date : row \in RowsOf(file, t)}

\* An import that ended without error, while nothing else wrote, did what was
\* asked: with force its rows are all the database has of the models of the
\* file, without force they joined the ones there were, and the counts of the
\* result are the rows that were added.
ImportExact ==
  \A l \in CsvLoaders, t \in CsvTables :
    csvPc[l] = "done" /\ csvErrors[l] = 0 /\ csvAlone[l] =>
      LET rows == RowsOf(csvFile[l], t)
          kept == {row \in csvBefore[l][t] : csvForce[l] =>
                     row.date \notin Replaced(csvFile[l], t)}
      IN  /\ csvDb[t] = kept \cup rows
          /\ csvImported[l][t] = Cardinality(rows)

\* A model that was loaded while nothing wrote is the one of its date.
ModelOfToday ==
  csvToLoad = {} /\ csvSteady /\ csvToday # 0 =>
    \A t \in CsvTables \ {"stop_visit"} :
      csvModel[t] = {row.id : row \in {r \in csvDb[t] : r.date = csvToday}}
=============================================================================
