---------------------------- MODULE ModelStores ----------------------------
(***************************************************************************)
(* The stores of Ara's model (stop areas, lines, vehicle journeys, ...),    *)
(* their indexes, and the transactions through which the HTTP API and the   *)
(* collectors read and change them.                                        *)
(*                                                                         *)
(* A store is a map of objects by id, guarded by one mutex.  Save and       *)
(* Delete are one step each: they keep the index by object id               *)
(* (ObjectIdIndex) and the indexes by foreign key (Index) under the same    *)
(* lock.  A transaction reads the live stores, remembers what it saves and  *)
(* deletes, and applies it object by object when it commits: other         *)
(* transactions run in between.                                            *)
(***************************************************************************)
EXTENDS Integers, FiniteSets

CONSTANTS
  Classes,    \* the stores of this instance, a subset of AllClasses
  Ids,        \* model ids (UUIDs)
  Kinds,      \* kinds of object ids
  Values,     \* values of object ids
  Keys,       \* the foreign keys: ids of stop areas, lines, vehicle journeys
  Threads,    \* the goroutines that open transactions, one at a time each
  None,       \* no object, no object id, no key
  MaxOps      \* bound: objects saved or deleted in one transaction

AllClasses == {"StopArea", "StopVisit", "VehicleJourney", "Line", "Situation",
               "Operator", "Vehicle"}
ObjectID == [kind : Kinds, value : Values]
Obj == [oids : [Kinds -> Values \cup {None}], key : Keys]

ASSUME StoresAssumption ==
  /\ Classes \subseteq AllClasses /\ MaxOps \in Nat
  /\ None \notin Values /\ None \notin Keys /\ None \notin Ids
  /\ None \notin Obj

VARIABLES
  byIdentifier, \* [Classes -> [Ids -> Obj or None]]: the live objects
  byObjectid,   \* [Classes -> [ObjectID -> Ids or None]]
  indexed,      \* [Classes -> [Ids -> [Kinds -> Values or None]]]: what the
                \* ObjectIdIndex remembers of each object (its byIdentifier)
  keyOf,        \* [Classes -> [Ids -> Keys or None]]: Index.byIdentifier
  byIndexable,  \* [Classes -> [Keys -> [Ids -> Nat]]]: how many times an id is
                \* in the list of a key (the order of the list does not matter)
  status,       \* [Threads -> Status]: of the transaction of a thread
  saved,        \* [Threads -> [Classes -> [Ids -> Obj or None]]]
  deleted,      \* [Threads -> [Classes -> SUBSET Ids]]
  request,      \* [Threads -> the API request whose object ids are checked]
  everHeld      \* [Classes -> [ObjectID -> SUBSET Ids]]: ids ever saved with it

indexVars == <<byObjectid, indexed, keyOf, byIndexable, everHeld>>
liveVars == <<byIdentifier, indexVars>>
txVars == <<status, saved, deleted, request>>
storesVars == <<liveVars, txVars>>

Status == {"none", "open", "checking", "commit"}
NoRequest == [class |-> None, id |-> None, obj |-> None, todo |-> {},
              new |-> FALSE]
Request == [class : Classes, id : Ids, obj : Obj, todo : SUBSET ObjectID,
            new : BOOLEAN]
NothingSaved == [c \in Classes |-> [i \in Ids |-> None]]
NothingDeleted == [c \in Classes |-> {}]

\* objectid.Value() of the object's id of that kind; None when it has none
Has(obj, o) == obj # None /\ obj.oids[o.kind] = o.value
OidsOf(obj) == {o \in ObjectID : Has(obj, o)}

-----------------------------------------------------------------------------
(* What the seven managers keep: an index by object id or a scan, an index  *)
(* by foreign key, and where TransactionalModel.Commit comes to them.       *)

MemoryStopAreas == [byObjectId |-> TRUE, byKey |-> FALSE]
MemoryStopVisits == [byObjectId |-> TRUE, byKey |-> TRUE]
MemoryVehicleJourneys == [byObjectId |-> TRUE, byKey |-> TRUE]
MemoryLines == [byObjectId |-> TRUE, byKey |-> FALSE]
MemorySituations == [byObjectId |-> FALSE, byKey |-> FALSE]
MemoryOperators == [byObjectId |-> FALSE, byKey |-> FALSE]
MemoryVehicles == [byObjectId |-> TRUE, byKey |-> FALSE]

NewMemoryModel ==
  [c \in AllClasses |->
     CASE c = "StopArea" -> MemoryStopAreas
       [] c = "StopVisit" -> MemoryStopVisits
       [] c = "VehicleJourney" -> MemoryVehicleJourneys
       [] c = "Line" -> MemoryLines
       [] c = "Situation" -> MemorySituations
       [] c = "Operator" -> MemoryOperators
       [] c = "Vehicle" -> MemoryVehicles]

\* TransactionalModel.Commit takes the stores in this order
CommitOrder == <<"StopArea", "StopVisit", "VehicleJourney", "Line",
                 "Situation", "Operator", "Vehicle">>
Rank(c) == CHOOSE n \in 1..7 : CommitOrder[n] = c

\* Their transactional versions save, delete and commit alike; some have a
\* finder by foreign key (FindByLineId, FindByStopAreaId, ...)
TransactionalStopAreas == [byKey |-> TRUE]
TransactionalStopVisits == [byKey |-> TRUE]
TransactionalVehicleJourneys == [byKey |-> TRUE]
TransactionalLines == [byKey |-> FALSE]
TransactionalSituations == [byKey |-> FALSE]
TransactionalOperators == [byKey |-> FALSE]
TransactionalVehicles == [byKey |-> TRUE]

NewTransactionalModel ==
  [c \in AllClasses |->
     CASE c = "StopArea" -> TransactionalStopAreas
       [] c = "StopVisit" -> TransactionalStopVisits
       [] c = "VehicleJourney" -> TransactionalVehicleJourneys
       [] c = "Line" -> TransactionalLines
       [] c = "Situation" -> TransactionalSituations
       [] c = "Operator" -> TransactionalOperators
       [] c = "Vehicle" -> TransactionalVehicles]

\* Their controllers create, update and delete alike (Create, Update and
\* DeleteRequest below); all but one refuse an object id that another object has
StopAreaController == [checks |-> TRUE]
StopVisitController == [checks |-> TRUE]
VehicleJourneyController == [checks |-> TRUE]
LineController == [checks |-> TRUE]
SituationController == [checks |-> FALSE]
OperatorController == [checks |-> TRUE]
VehicleController == [checks |-> TRUE]

NewControllerMap ==
  [c \in AllClasses |->
     CASE c = "StopArea" -> StopAreaController
       [] c = "StopVisit" -> StopVisitController
       [] c = "VehicleJourney" -> VehicleJourneyController
       [] c = "Line" -> LineController
       [] c = "Situation" -> SituationController
       [] c = "Operator" -> OperatorController
       [] c = "Vehicle" -> VehicleController]

ChecksObjectIds(c) == NewControllerMap[c].checks

-----------------------------------------------------------------------------
(* The finders of a store.                                                 *)

\* all the objects a FindByObjectId may return: the index knows one, a scan
\* over the map takes any
FindByObjectId(c, o) ==
  IF NewMemoryModel[c].byObjectId
  THEN {byObjectid[c][o]} \ {None}
  ELSE {i \in Ids : Has(byIdentifier[c][i], o)}

\* FindByStopAreaId, FindByVehicleJourneyId, FindByLineId: from the index,
\* every listed id dereferenced, or a scan
FindByKey(c, k) ==
  IF NewMemoryModel[c].byKey
  THEN {i \in Ids : byIndexable[c][k][i] > 0}
  ELSE {i \in Ids : byIdentifier[c][i] # None /\ byIdentifier[c][i].key = k}

\* the same in a transaction: first what it saved, then the live model.  What
\* it deleted is still found.
TxFind(t, c, i) ==
  IF saved[t][c][i] # None THEN saved[t][c][i] ELSE byIdentifier[c][i]

TxFindByObjectId(t, c, o) ==
  LET mine == {i \in Ids : Has(saved[t][c][i], o)}
  IN  IF mine # {} THEN mine ELSE FindByObjectId(c, o)

TxFindByKeyBoth(t, c, k) == \* mutant
  {i \in Ids : saved[t][c][i] # None /\ saved[t][c][i].key = k}
    \cup FindByKey(c, k)

TxFindByKey(t, c, k) ==
  {i \in Ids : saved[t][c][i] # None /\ saved[t][c][i].key = k}
    \cup {i \in FindByKey(c, k) : saved[t][c][i] = None}

TxFindAll(t, c) == {i \in Ids : TxFind(t, c, i) # None}

-----------------------------------------------------------------------------
(* The indexes.                                                            *)

IndexObjectIdsLast(c, id, obj) == \* mutant
  /\ byObjectid' = [byObjectid EXCEPT ![c] = [o \in ObjectID |->
       IF indexed[c][id][o.kind] = o.value THEN None
       ELSE IF Has(obj, o) THEN id ELSE @[o]]]
  /\ indexed' = [indexed EXCEPT ![c][id] = [k \in Kinds |->
       IF obj.oids[k] # None THEN obj.oids[k] ELSE @[k]]]

\* ObjectIdIndex.Index: the object ids the object has no more leave the index,
\* whoever has them now; the index still remembers that the object had them
IndexObjectIds(c, id, obj) ==
  /\ byObjectid' = [byObjectid EXCEPT ![c] = [o \in ObjectID |->
       IF Has(obj, o) THEN id
       ELSE IF indexed[c][id][o.kind] = o.value THEN None
       ELSE @[o]]]
  /\ indexed' = [indexed EXCEPT ![c][id] = [k \in Kinds |->
       IF obj.oids[k] # None THEN obj.oids[k] ELSE @[k]]]

\* ObjectIdIndex.Delete: likewise
UnindexObjectIds(c, id) ==
  /\ byObjectid' = [byObjectid EXCEPT ![c] = [o \in ObjectID |->
       IF indexed[c][id][o.kind] = o.value THEN None ELSE @[o]]]
  /\ indexed' = [indexed EXCEPT ![c][id] = [k \in Kinds |-> None]]

\* removeFromIndexable: the first occurrence leaves the list
Removed(list, id) == [list EXCEPT ![id] = IF @ > 0 THEN @ - 1 ELSE 0]
Added(list, id) == [list EXCEPT ![id] = @ + 1]

IndexKeyAlways(c, id, key) == \* mutant
  /\ keyOf' = [keyOf EXCEPT ![c][id] = key]
  /\ byIndexable' = [byIndexable EXCEPT ![c][key] = Added(@, id)]

\* Index.Index: nothing when the key is the same, else the id changes lists
IndexKey(c, id, key) ==
  IF keyOf[c][id] = key
  THEN UNCHANGED <<keyOf, byIndexable>>
  ELSE /\ keyOf' = [keyOf EXCEPT ![c][id] = key]
       /\ byIndexable' = [byIndexable EXCEPT ![c] = [k \in Keys |->
            IF k = key THEN Added(@[k], id)
            ELSE IF k = keyOf[c][id] THEN Removed(@[k], id) ELSE @[k]]]

\* Index.Delete
UnindexKey(c, id) ==
  /\ keyOf' = [keyOf EXCEPT ![c][id] = None]
  /\ byIndexable' = [byIndexable EXCEPT ![c] = [k \in Keys |->
       IF k = keyOf[c][id] THEN Removed(@[k], id) ELSE @[k]]]

\* Save of a manager, under its mutex
Save(c, id, obj) ==
  /\ byIdentifier' = [byIdentifier EXCEPT ![c][id] = obj]
  /\ IF NewMemoryModel[c].byObjectId
     THEN IndexObjectIds(c, id, obj) ELSE UNCHANGED <<byObjectid, indexed>>
  /\ IF NewMemoryModel[c].byKey
     THEN IndexKey(c, id, obj.key) ELSE UNCHANGED <<keyOf, byIndexable>>
  /\ everHeld' = [everHeld EXCEPT ![c] = [o \in ObjectID |->
       IF Has(obj, o) THEN @[o] \cup {id} ELSE @[o]]]

DeleteKeepsIndex(c, id) == \* mutant
  /\ byIdentifier' = [byIdentifier EXCEPT ![c][id] = None]
  /\ UNCHANGED <<byObjectid, indexed>>
  /\ IF NewMemoryModel[c].byKey
     THEN UnindexKey(c, id) ELSE UNCHANGED <<keyOf, byIndexable>>
  /\ UNCHANGED everHeld

Delete(c, id) ==
  /\ byIdentifier' = [byIdentifier EXCEPT ![c][id] = None]
  /\ IF NewMemoryModel[c].byObjectId
     THEN UnindexObjectIds(c, id) ELSE UNCHANGED <<byObjectid, indexed>>
  /\ IF NewMemoryModel[c].byKey
     THEN UnindexKey(c, id) ELSE UNCHANGED <<keyOf, byIndexable>>
  /\ UNCHANGED everHeld

-----------------------------------------------------------------------------
StoresInit ==
  /\ byIdentifier = NothingSaved
  /\ byObjectid = [c \in Classes |-> [o \in ObjectID |-> None]]
  /\ indexed = [c \in Classes |-> [i \in Ids |-> [k \in Kinds |-> None]]]
  /\ keyOf = [c \in Classes |-> [i \in Ids |-> None]]
  /\ byIndexable = [c \in Classes |-> [k \in Keys |-> [i \in Ids |-> 0]]]
  /\ everHeld = [c \in Classes |-> [o \in ObjectID |-> {}]]
  /\ status = [t \in Threads |-> "none"]
  /\ saved = [t \in Threads |-> NothingSaved]
  /\ deleted = [t \in Threads |-> NothingDeleted]
  /\ request = [t \in Threads |-> NoRequest]

-----------------------------------------------------------------------------
(* Transactions.                                                           *)

NewTransaction(t) ==
  /\ status[t] = "none"
  /\ status' = [status EXCEPT ![t] = "open"]
  /\ UNCHANGED <<liveVars, saved, deleted, request>>

SavedBy(t, c) == {i \in Ids : saved[t][c][i] # None}
Ops(t) == UNION {{c} \X (SavedBy(t, c) \cup deleted[t][c]) : c \in Classes}
HasRoomFor(t, c, i) ==
  \/ <<c, i>> \in Ops(t) \/ Cardinality(Ops(t)) < MaxOps

\* NewUUID: nothing has that id
Fresh(c, i) ==
  /\ byIdentifier[c][i] = None /\ indexed[c][i] = [k \in Kinds |-> None]
  /\ \A t \in Threads : saved[t][c][i] = None /\ i \notin deleted[t][c]
                        /\ ~(request[t].class = c /\ request[t].id = i)

\* a collector finds an object by its object id, or makes one, and saves it
CollectObject(t, c, o, key) ==
  /\ status[t] = "open"
  /\ LET found == TxFindByObjectId(t, c, o)
     IN  \/ \E i \in found :
              /\ HasRoomFor(t, c, i)
              /\ TxFind(t, c, i) # None
              /\ saved' = [saved EXCEPT ![t][c][i] =
                             [TxFind(t, c, i) EXCEPT !.key = key]]
         \/ /\ found = {}
            /\ \E i \in Ids :
                 /\ Fresh(c, i) /\ HasRoomFor(t, c, i)
                 /\ saved' = [saved EXCEPT ![t][c][i] =
                      [oids |-> [k \in Kinds |-> IF k = o.kind THEN o.value
                                                 ELSE None],
                       key |-> key]]
  /\ UNCHANGED <<liveVars, status, deleted, request>>

\* POST and PUT: the body is unmarshalled into a new object or into the copy of
\* the one found; object ids in the body replace all those it had
Create(t, c, i, obj) ==
  /\ status[t] = "open" /\ Ops(t) = {} /\ Fresh(c, i)
  /\ request' = [request EXCEPT ![t] = [class |-> c, id |-> i, obj |-> obj,
       todo |-> IF ChecksObjectIds(c) THEN OidsOf(obj) ELSE {}, new |-> TRUE]]
  /\ status' = [status EXCEPT ![t] = "checking"]
  /\ UNCHANGED <<liveVars, saved, deleted>>

Update(t, c, i, obj) ==
  /\ status[t] = "open" /\ Ops(t) = {} /\ byIdentifier[c][i] # None
  /\ request' = [request EXCEPT ![t] = [class |-> c, id |-> i, obj |-> obj,
       todo |-> IF ChecksObjectIds(c) THEN OidsOf(obj) ELSE {}, new |-> FALSE]]
  /\ status' = [status EXCEPT ![t] = "checking"]
  /\ UNCHANGED <<liveVars, saved, deleted>>

\* one turn of the loop over the object ids: "already have an objectid"
CheckObjectId(t, o) ==
  /\ status[t] = "checking" /\ o \in request[t].todo
  /\ LET found == TxFindByObjectId(t, request[t].class, o)
         taken == IF request[t].new THEN found ELSE found \ {request[t].id}
     IN  \/ /\ taken # {}
            /\ request' = [request EXCEPT ![t] = NoRequest]
            /\ status' = [status EXCEPT ![t] = "none"]
         \/ /\ found \subseteq (IF request[t].new THEN {} ELSE {request[t].id})
            /\ request' = [request EXCEPT ![t].todo = @ \ {o}]
            /\ UNCHANGED status
  /\ UNCHANGED <<liveVars, saved, deleted>>

\* every object id is free: Save in the transaction, then Commit
SaveRequest(t) ==
  /\ status[t] = "checking" /\ request[t].todo = {}
  /\ saved' = [saved EXCEPT ![t][request[t].class][request[t].id] =
                 request[t].obj]
  /\ request' = [request EXCEPT ![t] = NoRequest]
  /\ status' = [status EXCEPT ![t] = "commit"]
  /\ UNCHANGED <<liveVars, deleted>>

\* DELETE: the object found is deleted in the transaction, which commits
DeleteRequest(t, c, i) ==
  /\ status[t] = "open" /\ Ops(t) = {} /\ byIdentifier[c][i] # None
  /\ deleted' = [deleted EXCEPT ![t][c] = {i}]
  /\ status' = [status EXCEPT ![t] = "commit"]
  /\ UNCHANGED <<liveVars, saved, request>>

Commit(t) ==
  /\ status[t] = "open"
  /\ status' = [status EXCEPT ![t] = "commit"]
  /\ UNCHANGED <<liveVars, saved, deleted, request>>

\* stores before c are done, and c's deletions before what c saves
Before(t, c) == \A d \in Classes : Rank(d) < Rank(c) =>
                  SavedBy(t, d) = {} /\ deleted[t][d] = {}

CommitDelete(t, c, i) ==
  /\ status[t] = "commit" /\ i \in deleted[t][c] /\ Before(t, c)
  /\ Delete(c, i)
  /\ deleted' = [deleted EXCEPT ![t][c] = @ \ {i}]
  /\ UNCHANGED <<status, saved, request>>

CommitSave(t, c, i) ==
  /\ status[t] = "commit" /\ i \in SavedBy(t, c) /\ Before(t, c)
  /\ deleted[t][c] = {}
  /\ Save(c, i, saved[t][c][i])
  /\ saved' = [saved EXCEPT ![t][c][i] = None]
  /\ UNCHANGED <<status, deleted, request>>

CommitDone(t) ==
  /\ status[t] = "commit" /\ Ops(t) = {}
  /\ status' = [status EXCEPT ![t] = "none"]
  /\ UNCHANGED <<liveVars, saved, deleted, request>>

CloseOnly(t) == \* mutant
  /\ status[t] = "open"
  /\ status' = [status EXCEPT ![t] = "none"]
  /\ UNCHANGED <<liveVars, saved, deleted, request>>

\* Close of a transaction that did not commit rolls it back
Close(t) ==
  /\ status[t] = "open"
  /\ saved' = [saved EXCEPT ![t] = NothingSaved]
  /\ deleted' = [deleted EXCEPT ![t] = NothingDeleted]
  /\ status' = [status EXCEPT ![t] = "none"]
  /\ UNCHANGED <<liveVars, request>>

-----------------------------------------------------------------------------
Requests(t, c) ==
  \/ \E o \in ObjectID, key \in Keys : CollectObject(t, c, o, key)
  \/ \E i \in Ids, obj \in Obj : Create(t, c, i, obj) \/ Update(t, c, i, obj)
  \/ \E i \in Ids : DeleteRequest(t, c, i)

CommitStep(t) ==
  \/ \E c \in Classes, i \in Ids : CommitDelete(t, c, i) \/ CommitSave(t, c, i)
  \/ CommitDone(t)

StoresNext ==
  \E t \in Threads :
    \/ NewTransaction(t) \/ Commit(t) \/ Close(t) \/ SaveRequest(t)
    \/ \E c \in Classes : Requests(t, c)
    \/ \E o \in ObjectID : CheckObjectId(t, o)
    \/ CommitStep(t)

StoresSpec == StoresInit /\ [][StoresNext]_storesVars

-----------------------------------------------------------------------------
\* Types; a transaction that is closed has nothing left to save or delete,
\* committed or rolled back (Transaction.Close).
StoresTypeOK ==
  /\ byIdentifier \in [Classes -> [Ids -> Obj \cup {None}]]
  /\ byObjectid \in [Classes -> [ObjectID -> Ids \cup {None}]]
  /\ indexed \in [Classes -> [Ids -> [Kinds -> Values \cup {None}]]]
  /\ keyOf \in [Classes -> [Ids -> Keys \cup {None}]]
  /\ byIndexable \in [Classes -> [Keys -> [Ids -> Nat]]]
  /\ everHeld \in [Classes -> [ObjectID -> SUBSET Ids]]
  /\ status \in [Threads -> Status]
  /\ saved \in [Threads -> [Classes -> [Ids -> Obj \cup {None}]]]
  /\ deleted \in [Threads -> [Classes -> SUBSET Ids]]
  /\ request \in [Threads -> Request \cup {NoRequest}]
  /\ \A t \in Threads : /\ (status[t] = "checking") = (request[t] # NoRequest)
                        /\ status[t] = "none" => Ops(t) = {}

\* FindByObjectId dereferences the id the index gives it: that id is the id of
\* a stored object, which has the object id asked for, although object ids are
\* replaced, taken over and deleted through other objects and transactions.
IndexedObjectsExist ==
  \A c \in Classes, o \in ObjectID :
    byObjectid[c][o] # None => Has(byIdentifier[c][byObjectid[c][o]], o)

\* FindByStopAreaId, FindByVehicleJourneyId and FindByLineId return the objects
\* a scan of the store would, each once: the lists follow the key across saves
\* that change it and deletions.
KeyIndexExact ==
  \A c \in Classes : NewMemoryModel[c].byKey =>
    \A k \in Keys, i \in Ids :
      byIndexable[c][k][i] =
        IF byIdentifier[c][i] # None /\ byIdentifier[c][i].key = k THEN 1 ELSE 0

\* An object id only one object was ever saved with finds that object, as long
\* as the object has it.
OwnObjectIdFound ==
  \A c \in Classes, o \in ObjectID, i \in Ids :
    /\ NewMemoryModel[c].byObjectId /\ everHeld[c][o] = {i}
    /\ Has(byIdentifier[c][i], o)
    => byObjectid[c][o] = i

\* A transaction's finder by key agrees with its FindAll: an object it saved
\* under another key is not found under the old one, which the live index
\* still lists.
TxFindersAgree ==
  \A t \in Threads, c \in {d \in Classes : NewTransactionalModel[d].byKey},
     k \in Keys :
    TxFindByKey(t, c, k) = {i \in TxFindAll(t, c) : TxFind(t, c, i).key = k}
=============================================================================
