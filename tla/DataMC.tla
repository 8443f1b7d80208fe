------------------------------- MODULE DataMC -------------------------------
(***************************************************************************)
(* Where the data of Ara comes from, for TLC: what partners answer and      *)
(* notify, the CSV files and the rows that survive a restart.  These parts  *)
(* share no state here: a behaviour runs one of them, chosen initially, and *)
(* the others stay as they are.                                            *)
(***************************************************************************)
EXTENDS CollectUpdates, CsvImport, Durability, TLC

CONSTANTS p, q, v1, v2, v3, s1, s2, j1, j3, l1, l3, \* CollectUpdates
          a, b, c \* CsvImport

VARIABLE part

DataInit ==
  UpdatesInit /\ CsvInit /\ DuInit /\ part \in {"updates", "csv", "rows"}

DataNext ==
  /\ UNCHANGED part
  /\ \/ part = "updates" /\ UpdatesNext /\ UNCHANGED <<csvVars, duVars>>
     \/ part = "csv" /\ CsvNext /\ UNCHANGED <<updatesVars, duVars>>
     \/ part = "rows" /\ DuNext /\ UNCHANGED <<updatesVars, csvVars>>

DataSpec == DataInit /\ [][DataNext]_<<part, updatesVars, csvVars, duVars>>

\* the loaders, the save requests and the ids of partners are alike
DataSymmetry ==
  Permutations(CsvLoaders) \cup Permutations(DuThreads) \cup Permutations(DuIds)

\* the stop s1 is asked for by p and q, s2 is one of its quays, which p only
\* knows; p provides v1 and v2, q provides v3
DataProvides(x) == IF x = p THEN {v1, v2} ELSE {v3}
DataStopOf(v) == IF v = v2 THEN s2 ELSE s1
DataJourneyOf(v) == IF v = v3 THEN j3 ELSE j1
DataLineOf(j) == IF j = j1 THEN l1 ELSE l3

DataRecord(t, i, d) == [table |-> t, row |-> [id |-> i, date |-> d], ok |-> TRUE]

\* a row of each table; more rows than a buffer holds; a record that cannot be
\* parsed, and two dates
DataFiles ==
  {<<DataRecord("operator", a, 1), DataRecord("stop_area", a, 1),
     DataRecord("line", a, 1), DataRecord("vehicle_journey", a, 1),
     DataRecord("stop_visit", a, 1)>>,
   <<DataRecord("stop_area", a, 1), DataRecord("stop_area", b, 1),
     DataRecord("stop_area", c, 1)>>,
   <<[DataRecord("stop_area", a, 1) EXCEPT !.ok = FALSE],
     DataRecord("line", a, 2), DataRecord("line", a, 1)>>}
=============================================================================
