------------------------- MODULE ModelStoresProofs -------------------------
(***************************************************************************)
(* ModelStores for every set of stores, objects, object ids, keys and      *)
(* goroutines: the indexes stay true to the objects, whatever the          *)
(* transactions interleave.                                                *)
(***************************************************************************)
EXTENDS ModelStores, TLAPS

-----------------------------------------------------------------------------
(* The inductive invariant.                                                *)

\* While a controller checks the object ids of a request, its transaction has
\* saved and deleted nothing.
CheckedFirst ==
  \A t \in Threads : status[t] = "checking" => Ops(t) = {}

\* Index remembers the key of every stored object, and no other.
KeysRemembered ==
  \A c \in Classes : NewMemoryModel[c].byKey =>
    \A i \in Ids :
      keyOf[c][i] = IF byIdentifier[c][i] = None THEN None
                    ELSE byIdentifier[c][i].key

\* ObjectIdIndex remembers the object ids of every stored object (and some it
\* had before), so that a save or a deletion finds what to take out.
OidsRemembered ==
  \A c \in Classes : NewMemoryModel[c].byObjectId =>
    \A o \in ObjectID, i \in Ids :
      Has(byIdentifier[c][i], o) => indexed[c][i][o.kind] = o.value

\* What it remembers of an object is an object id the object was saved with.
RememberedHeld ==
  \A c \in Classes, o \in ObjectID, i \in Ids :
    indexed[c][i][o.kind] = o.value => i \in everHeld[c][o]

\* A store that scans has an empty index.
ScannedUnindexed ==
  \A c \in Classes, o \in ObjectID :
    ~NewMemoryModel[c].byObjectId => byObjectid[c][o] = None

Indexes ==
  /\ KeysRemembered /\ KeyIndexExact /\ OidsRemembered /\ RememberedHeld
  /\ ScannedUnindexed /\ IndexedObjectsExist /\ OwnObjectIdFound

StoresInv == StoresTypeOK /\ CheckedFirst /\ Indexes

-----------------------------------------------------------------------------
(* Updates of functions.                                                   *)

\* An update of one value keeps the type of a function.
LEMMA ExceptType ==
  ASSUME NEW A, NEW V, NEW f \in [A -> V], NEW a \in A, NEW v \in V
  PROVE  [f EXCEPT ![a] = v] \in [A -> V]
OBVIOUS

\* The same for a function of functions, with what it changes.
LEMMA ExceptTwice ==
  ASSUME NEW A, NEW B, NEW V, NEW f \in [A -> [B -> V]],
         NEW a \in A, NEW b \in B, NEW v \in V
  PROVE  /\ [f EXCEPT ![a][b] = v] \in [A -> [B -> V]]
         /\ \A x \in A, y \in B :
              [f EXCEPT ![a][b] = v][x][y] =
                IF x = a /\ y = b THEN v ELSE f[x][y]
OBVIOUS

\* The same for a function of functions of functions.
LEMMA ExceptThrice ==
  ASSUME NEW A, NEW B, NEW C, NEW V, NEW f \in [A -> [B -> [C -> V]]],
         NEW a \in A, NEW b \in B, NEW c \in C, NEW v \in V
  PROVE  /\ [f EXCEPT ![a][b][c] = v] \in [A -> [B -> [C -> V]]]
         /\ \A x \in A, y \in B, z \in C :
              [f EXCEPT ![a][b][c] = v][x][y][z] =
                IF x = a /\ y = b /\ z = c THEN v ELSE f[x][y][z]
OBVIOUS

-----------------------------------------------------------------------------
(* The types.                                                              *)

\* A transaction is empty when it saves and deletes nothing in any store.
LEMMA OpsEmpty ==
  ASSUME NEW t \in Threads
  PROVE  Ops(t) = {} <=> \A c \in Classes :
                           /\ deleted[t][c] = {}
                           /\ \A i \in Ids : saved[t][c][i] = None
<1>1. ASSUME Ops(t) = {}, NEW c \in Classes
      PROVE  SavedBy(t, c) \cup deleted[t][c] = {}
  <2>1. SUFFICES ASSUME NEW x \in SavedBy(t, c) \cup deleted[t][c] PROVE FALSE
    OBVIOUS
  <2>2. <<c, x>> \in {c} \X (SavedBy(t, c) \cup deleted[t][c])
    BY <2>1
  <2> QED
    BY <1>1, <2>2, Zenon DEF Ops
<1>2. ASSUME \A c \in Classes : SavedBy(t, c) \cup deleted[t][c] = {}
      PROVE  Ops(t) = {}
  BY <1>2 DEF Ops
<1>3. ASSUME NEW c \in Classes
      PROVE  SavedBy(t, c) \cup deleted[t][c] = {} <=>
               deleted[t][c] = {} /\ \A i \in Ids : saved[t][c][i] = None
  BY DEF SavedBy
<1> QED
  BY <1>1, <1>2, <1>3

\* An object has its own object ids, which are values and not None.
LEMMA HasMeans ==
  ASSUME NEW obj \in Obj \cup {None}, NEW o \in ObjectID
  PROVE  Has(obj, o) <=> obj \in Obj /\ obj.oids[o.kind] = o.value
BY StoresAssumption DEF StoresAssumption, Has

Types ==
  /\ byIdentifier \in [Classes -> [Ids -> Obj \cup {None}]]
  /\ byObjectid \in [Classes -> [ObjectID -> Ids \cup {None}]]
  /\ indexed \in [Classes -> [Ids -> [Kinds -> Values \cup {None}]]]
  /\ keyOf \in [Classes -> [Ids -> Keys \cup {None}]]
  /\ byIndexable \in [Classes -> [Keys -> [Ids -> Nat]]]
  /\ everHeld \in [Classes -> [ObjectID -> SUBSET Ids]]

TxTypes ==
  /\ status \in [Threads -> Status]
  /\ saved \in [Threads -> [Classes -> [Ids -> Obj \cup {None}]]]
  /\ deleted \in [Threads -> [Classes -> SUBSET Ids]]
  /\ request \in [Threads -> Request \cup {NoRequest}]

Closed ==
  \A t \in Threads : /\ (status[t] = "checking") = (request[t] # NoRequest)
                     /\ status[t] = "none" => Ops(t) = {}

\* The parts of StoresTypeOK: the stores, the transactions, and their states.
LEMMA TypesParts == StoresTypeOK <=> Types /\ TxTypes /\ Closed
BY DEF StoresTypeOK, Types, TxTypes, Closed

-----------------------------------------------------------------------------
(* What Save and Delete change, object by object.                          *)

SavedPoints(c, id, obj) ==
  \A d \in Classes :
    /\ \A i \in Ids : byIdentifier'[d][i] =
         IF d = c /\ i = id THEN obj ELSE byIdentifier[d][i]
    /\ \A o \in ObjectID : byObjectid'[d][o] =
         IF d = c /\ NewMemoryModel[c].byObjectId
         THEN IF Has(obj, o) THEN id
              ELSE IF indexed[c][id][o.kind] = o.value THEN None
              ELSE byObjectid[c][o]
         ELSE byObjectid[d][o]
    /\ \A i \in Ids, k \in Kinds : indexed'[d][i][k] =
         IF d = c /\ i = id /\ NewMemoryModel[c].byObjectId
            /\ obj.oids[k] # None
         THEN obj.oids[k] ELSE indexed[d][i][k]
    /\ \A o \in ObjectID : everHeld'[d][o] =
         IF d = c /\ Has(obj, o) THEN everHeld[d][o] \cup {id}
         ELSE everHeld[d][o]

DeletedPoints(c, id) ==
  \A d \in Classes :
    /\ \A i \in Ids : byIdentifier'[d][i] =
         IF d = c /\ i = id THEN None ELSE byIdentifier[d][i]
    /\ \A o \in ObjectID : byObjectid'[d][o] =
         IF d = c /\ NewMemoryModel[c].byObjectId
            /\ indexed[c][id][o.kind] = o.value
         THEN None ELSE byObjectid[d][o]
    /\ \A i \in Ids, k \in Kinds : indexed'[d][i][k] =
         IF d = c /\ i = id /\ NewMemoryModel[c].byObjectId THEN None
         ELSE indexed[d][i][k]
    /\ everHeld'[d] = everHeld[d]

\* The foreign key index: id leaves the list of its old key for the new one,
\* None for a deletion.
KeyPoints(c, id, key) ==
  \A d \in Classes :
    /\ \A i \in Ids : keyOf'[d][i] =
         IF d = c /\ i = id /\ NewMemoryModel[c].byKey THEN key
         ELSE keyOf[d][i]
    /\ \A k \in Keys, i \in Ids : byIndexable'[d][k][i] =
         IF d = c /\ i = id /\ NewMemoryModel[c].byKey /\ keyOf[c][id] # key
         THEN IF k = key THEN byIndexable[d][k][i] + 1
              ELSE IF k = keyOf[c][id] /\ byIndexable[d][k][i] > 0
                   THEN byIndexable[d][k][i] - 1
              ELSE byIndexable[d][k][i]
         ELSE byIndexable[d][k][i]

\* Index.Index and Index.Delete, where the store has such an index.
KeyStep(c, id, key) ==
  IF NewMemoryModel[c].byKey
  THEN IF key = None THEN UnindexKey(c, id) ELSE IndexKey(c, id, key)
  ELSE UNCHANGED <<keyOf, byIndexable>>

\* The index by foreign key changes in one place only.
LEMMA KeyStepPoints ==
  ASSUME Types, NEW c \in Classes, NEW id \in Ids, NEW key \in Keys \cup {None},
         KeyStep(c, id, key)
  PROVE  /\ keyOf' \in [Classes -> [Ids -> Keys \cup {None}]]
         /\ byIndexable' \in [Classes -> [Keys -> [Ids -> Nat]]]
         /\ KeyPoints(c, id, key)
<1>1. /\ keyOf \in [Classes -> [Ids -> Keys \cup {None}]]
      /\ byIndexable \in [Classes -> [Keys -> [Ids -> Nat]]]
  BY DEF Types
<1> DEFINE lists == [k \in Keys |->
             IF k = key THEN Added(byIndexable[c][k], id)
             ELSE IF k = keyOf[c][id] THEN Removed(byIndexable[c][k], id)
             ELSE byIndexable[c][k]]
<1>2. CASE UNCHANGED <<keyOf, byIndexable>>
           /\ (NewMemoryModel[c].byKey => keyOf[c][id] = key)
  BY <1>1, <1>2 DEF KeyPoints
<1>3. CASE /\ NewMemoryModel[c].byKey
           /\ key = None \/ keyOf[c][id] # key
  <2>1. /\ keyOf' = [keyOf EXCEPT ![c][id] = key]
        /\ byIndexable' = [byIndexable EXCEPT ![c] = lists]
    <3>1. key = None \/ key \in Keys
      OBVIOUS
    <3>2. CASE key = None
      <4>1. \A k \in Keys : k # None
        BY StoresAssumption DEF StoresAssumption
      <4> QED
        BY <1>1, <1>3, <3>2, <4>1 DEF KeyStep, UnindexKey
    <3>3. CASE key # None
      BY <1>1, <1>3, <3>3 DEF KeyStep, IndexKey
    <3> QED
      BY <3>2, <3>3
  <2>2. \A k \in Keys :
          /\ Added(byIndexable[c][k], id) \in [Ids -> Nat]
          /\ Removed(byIndexable[c][k], id) \in [Ids -> Nat]
          /\ \A i \in Ids :
               /\ Added(byIndexable[c][k], id)[i] =
                    IF i = id THEN byIndexable[c][k][i] + 1
                    ELSE byIndexable[c][k][i]
               /\ Removed(byIndexable[c][k], id)[i] =
                    IF i = id /\ byIndexable[c][k][i] > 0
                    THEN byIndexable[c][k][i] - 1
                    ELSE byIndexable[c][k][i]
    <3>1. ASSUME NEW l \in [Ids -> Nat]
          PROVE  /\ Added(l, id) \in [Ids -> Nat]
                 /\ Removed(l, id) \in [Ids -> Nat]
                 /\ \A i \in Ids :
                      /\ Added(l, id)[i] = IF i = id THEN l[i] + 1 ELSE l[i]
                      /\ Removed(l, id)[i] =
                           IF i = id /\ l[i] > 0 THEN l[i] - 1 ELSE l[i]
      BY DEF Added, Removed
    <3> QED
      BY ONLY <1>1, <3>1, c \in Classes
  <2>3. lists \in [Keys -> [Ids -> Nat]]
    BY ONLY <1>1, <2>2, c \in Classes
  <2>4. /\ keyOf' \in [Classes -> [Ids -> Keys \cup {None}]]
        /\ \A d \in Classes, i \in Ids :
             keyOf'[d][i] = IF d = c /\ i = id THEN key ELSE keyOf[d][i]
    BY ONLY <1>1, <2>1, ExceptTwice, c \in Classes, id \in Ids,
            key \in Keys \cup {None}
  <2>5. /\ byIndexable' \in [Classes -> [Keys -> [Ids -> Nat]]]
        /\ \A d \in Classes :
             byIndexable'[d] = IF d = c THEN lists ELSE byIndexable[d]
    BY ONLY <1>1, <2>1, <2>3, c \in Classes
  <2>6. \A k \in Keys, i \in Ids : lists[k][i] =
          IF i = id /\ keyOf[c][id] # key
          THEN IF k = key THEN byIndexable[c][k][i] + 1
               ELSE IF k = keyOf[c][id] /\ byIndexable[c][k][i] > 0
                    THEN byIndexable[c][k][i] - 1
               ELSE byIndexable[c][k][i]
          ELSE byIndexable[c][k][i]
    <3>1. \A k \in Keys : k = key => keyOf[c][id] # key
      BY <1>3, StoresAssumption DEF StoresAssumption
    <3>2. keyOf[c][id] = key => keyOf[c][id] \notin Keys
      BY <1>3, StoresAssumption DEF StoresAssumption
    <3> QED
      BY ONLY <2>2, <3>1, <3>2
  <2> HIDE DEF lists
  <2> QED
    BY ONLY <1>3, <2>4, <2>5, <2>6 DEF KeyPoints
<1> QED
  BY <1>2, <1>3 DEF KeyStep, IndexKey

\* Save changes one object, its object ids in the index and its key.
LEMMA SavePoints ==
  ASSUME Types, NEW c \in Classes, NEW id \in Ids, NEW obj \in Obj,
         Save(c, id, obj)
  PROVE  Types' /\ SavedPoints(c, id, obj) /\ KeyPoints(c, id, obj.key)
<1> DEFINE ids == [o \in ObjectID |->
             IF Has(obj, o) THEN id
             ELSE IF indexed[c][id][o.kind] = o.value THEN None
             ELSE byObjectid[c][o]]
           kept == [k \in Kinds |->
             IF obj.oids[k] # None THEN obj.oids[k] ELSE indexed[c][id][k]]
           held == [o \in ObjectID |->
             IF Has(obj, o) THEN everHeld[c][o] \cup {id}
             ELSE everHeld[c][o]]
<1>1. /\ byIdentifier \in [Classes -> [Ids -> Obj \cup {None}]]
      /\ byObjectid \in [Classes -> [ObjectID -> Ids \cup {None}]]
      /\ indexed \in [Classes -> [Ids -> [Kinds -> Values \cup {None}]]]
      /\ everHeld \in [Classes -> [ObjectID -> SUBSET Ids]]
  BY DEF Types
<1>2. /\ ids \in [ObjectID -> Ids \cup {None}]
      /\ held \in [ObjectID -> SUBSET Ids]
  BY <1>1
<1>3. kept \in [Kinds -> Values \cup {None}]
  BY <1>1 DEF Obj
<1>4. /\ byIdentifier' = [byIdentifier EXCEPT ![c][id] = obj]
      /\ everHeld' = [everHeld EXCEPT ![c] = held]
  BY <1>1 DEF Save
<1>5. IF NewMemoryModel[c].byObjectId
      THEN /\ byObjectid' = [byObjectid EXCEPT ![c] = ids]
           /\ indexed' = [indexed EXCEPT ![c][id] = kept]
      ELSE UNCHANGED <<byObjectid, indexed>>
  BY <1>1 DEF Save, IndexObjectIds
<1>6. KeyStep(c, id, obj.key) /\ obj.key \in Keys
  BY StoresAssumption DEF Save, KeyStep, Obj, StoresAssumption
<1>7. /\ byIdentifier' \in [Classes -> [Ids -> Obj \cup {None}]]
      /\ \A d \in Classes, i \in Ids : byIdentifier'[d][i] =
           IF d = c /\ i = id THEN obj ELSE byIdentifier[d][i]
  BY ONLY <1>1, <1>4, ExceptTwice, c \in Classes, id \in Ids, obj \in Obj
<1>8. /\ everHeld' \in [Classes -> [ObjectID -> SUBSET Ids]]
      /\ \A d \in Classes :
           everHeld'[d] = IF d = c THEN held ELSE everHeld[d]
  BY ONLY <1>1, <1>2, <1>4, c \in Classes
<1>9. /\ byObjectid' \in [Classes -> [ObjectID -> Ids \cup {None}]]
      /\ \A d \in Classes : byObjectid'[d] =
           IF d = c /\ NewMemoryModel[c].byObjectId THEN ids ELSE byObjectid[d]
  <2>1. byObjectid' = IF NewMemoryModel[c].byObjectId
                      THEN [byObjectid EXCEPT ![c] = ids] ELSE byObjectid
    BY ONLY <1>5
  <2> HIDE DEF ids
  <2> QED
    BY ONLY <1>1, <1>2, <2>1, c \in Classes
<1>10. /\ indexed' \in [Classes -> [Ids -> [Kinds -> Values \cup {None}]]]
       /\ \A d \in Classes, i \in Ids : indexed'[d][i] =
            IF d = c /\ i = id /\ NewMemoryModel[c].byObjectId THEN kept
            ELSE indexed[d][i]
  <2> DEFINE new == [indexed EXCEPT ![c][id] = kept]
  <2>1. /\ new \in [Classes -> [Ids -> [Kinds -> Values \cup {None}]]]
        /\ \A d \in Classes, i \in Ids :
             new[d][i] = IF d = c /\ i = id THEN kept ELSE indexed[d][i]
    <3> HIDE DEF kept
    <3> QED
      BY ONLY <1>1, <1>3, ExceptTwice, c \in Classes, id \in Ids
  <2>2. indexed' = IF NewMemoryModel[c].byObjectId THEN new ELSE indexed
    BY ONLY <1>5
  <2> HIDE DEF new, kept
  <2> QED
    BY ONLY <1>1, <2>1, <2>2
<1>11. SavedPoints(c, id, obj)
  <2> SUFFICES ASSUME NEW d \in Classes
               PROVE  SavedPoints(c, id, obj)!(d)
    BY DEF SavedPoints
  <2>1. ASSUME NEW o \in ObjectID
        PROVE  byObjectid'[d][o] =
                 IF d = c /\ NewMemoryModel[c].byObjectId
                 THEN IF Has(obj, o) THEN id
                      ELSE IF indexed[c][id][o.kind] = o.value THEN None
                      ELSE byObjectid[c][o]
                 ELSE byObjectid[d][o]
    BY ONLY <1>9
  <2>2. ASSUME NEW i \in Ids, NEW k \in Kinds
        PROVE  indexed'[d][i][k] =
                 IF d = c /\ i = id /\ NewMemoryModel[c].byObjectId
                    /\ obj.oids[k] # None
                 THEN obj.oids[k] ELSE indexed[d][i][k]
    <3>1. kept[k] = IF obj.oids[k] # None THEN obj.oids[k]
                    ELSE indexed[c][id][k]
      OBVIOUS
    <3> HIDE DEF kept
    <3> QED
      BY ONLY <1>10, <3>1
  <2>3. ASSUME NEW o \in ObjectID
        PROVE  everHeld'[d][o] =
                 IF d = c /\ Has(obj, o) THEN everHeld[d][o] \cup {id}
                 ELSE everHeld[d][o]
    BY ONLY <1>8
  <2> QED
    BY ONLY <1>7, <2>1, <2>2, <2>3
<1>12. /\ keyOf' \in [Classes -> [Ids -> Keys \cup {None}]]
       /\ byIndexable' \in [Classes -> [Keys -> [Ids -> Nat]]]
       /\ KeyPoints(c, id, obj.key)
  BY <1>6, KeyStepPoints
<1> QED
  BY ONLY <1>7, <1>8, <1>9, <1>10, <1>11, <1>12 DEF Types

\* Delete takes one object, its object ids and its key out.
LEMMA DeletePoints ==
  ASSUME Types, NEW c \in Classes, NEW id \in Ids, Delete(c, id)
  PROVE  Types' /\ DeletedPoints(c, id) /\ KeyPoints(c, id, None)
<1> DEFINE ids == [o \in ObjectID |->
             IF indexed[c][id][o.kind] = o.value THEN None
             ELSE byObjectid[c][o]]
           kept == [k \in Kinds |-> None]
<1>1. /\ byIdentifier \in [Classes -> [Ids -> Obj \cup {None}]]
      /\ byObjectid \in [Classes -> [ObjectID -> Ids \cup {None}]]
      /\ indexed \in [Classes -> [Ids -> [Kinds -> Values \cup {None}]]]
      /\ everHeld \in [Classes -> [ObjectID -> SUBSET Ids]]
  BY DEF Types
<1>2. ids \in [ObjectID -> Ids \cup {None}]
  BY <1>1
<1>3. kept \in [Kinds -> Values \cup {None}]
  OBVIOUS
<1>4. byIdentifier' = [byIdentifier EXCEPT ![c][id] = None]
      /\ everHeld' = everHeld
  BY <1>1 DEF Delete
<1>5. IF NewMemoryModel[c].byObjectId
      THEN /\ byObjectid' = [byObjectid EXCEPT ![c] = ids]
           /\ indexed' = [indexed EXCEPT ![c][id] = kept]
      ELSE UNCHANGED <<byObjectid, indexed>>
  BY <1>1 DEF Delete, UnindexObjectIds
<1>6. KeyStep(c, id, None)
  BY DEF Delete, KeyStep
<1>7. /\ byIdentifier' \in [Classes -> [Ids -> Obj \cup {None}]]
      /\ \A d \in Classes, i \in Ids : byIdentifier'[d][i] =
           IF d = c /\ i = id THEN None ELSE byIdentifier[d][i]
  BY ONLY <1>1, <1>4, ExceptTwice, c \in Classes, id \in Ids
<1>8. /\ byObjectid' \in [Classes -> [ObjectID -> Ids \cup {None}]]
      /\ \A d \in Classes : byObjectid'[d] =
           IF d = c /\ NewMemoryModel[c].byObjectId THEN ids ELSE byObjectid[d]
  <2>1. byObjectid' = IF NewMemoryModel[c].byObjectId
                      THEN [byObjectid EXCEPT ![c] = ids] ELSE byObjectid
    BY ONLY <1>5
  <2> HIDE DEF ids
  <2> QED
    BY ONLY <1>1, <1>2, <2>1, c \in Classes
<1>9. /\ indexed' \in [Classes -> [Ids -> [Kinds -> Values \cup {None}]]]
      /\ \A d \in Classes, i \in Ids : indexed'[d][i] =
           IF d = c /\ i = id /\ NewMemoryModel[c].byObjectId THEN kept
           ELSE indexed[d][i]
  <2> DEFINE new == [indexed EXCEPT ![c][id] = kept]
  <2>1. /\ new \in [Classes -> [Ids -> [Kinds -> Values \cup {None}]]]
        /\ \A d \in Classes, i \in Ids :
             new[d][i] = IF d = c /\ i = id THEN kept ELSE indexed[d][i]
    <3> HIDE DEF kept
    <3> QED
      BY ONLY <1>1, <1>3, ExceptTwice, c \in Classes, id \in Ids
  <2>2. indexed' = IF NewMemoryModel[c].byObjectId THEN new ELSE indexed
    BY ONLY <1>5
  <2> HIDE DEF new, kept
  <2> QED
    BY ONLY <1>1, <2>1, <2>2
<1>10. DeletedPoints(c, id)
  BY ONLY <1>4, <1>7, <1>8, <1>9 DEF DeletedPoints
<1>11. /\ keyOf' \in [Classes -> [Ids -> Keys \cup {None}]]
       /\ byIndexable' \in [Classes -> [Keys -> [Ids -> Nat]]]
       /\ KeyPoints(c, id, None)
  BY <1>6, KeyStepPoints
<1> QED
  BY ONLY <1>1, <1>4, <1>7, <1>8, <1>9, <1>10, <1>11 DEF Types

-----------------------------------------------------------------------------
(* The indexes, from one store operation to the next.                      *)

\* A save or a deletion keeps the foreign key index exact: obj is what is
\* stored from now on, None for a deletion.
LEMMA KeyIndexKept ==
  ASSUME Types, KeysRemembered, KeyIndexExact,
         NEW c \in Classes, NEW id \in Ids, NEW obj \in Obj \cup {None},
         KeyPoints(c, id, IF obj = None THEN None ELSE obj.key),
         \A d \in Classes, i \in Ids : byIdentifier'[d][i] =
           IF d = c /\ i = id THEN obj ELSE byIdentifier[d][i]
  PROVE  KeysRemembered' /\ KeyIndexExact'
<1> DEFINE key == IF obj = None THEN None ELSE obj.key
<1>1. KeysRemembered'
  BY DEF KeyPoints, KeysRemembered
<1>2. ASSUME NEW d \in Classes, NewMemoryModel[d].byKey,
             NEW k \in Keys, NEW i \in Ids
      PROVE  byIndexable'[d][k][i] =
               IF byIdentifier'[d][i] # None /\ byIdentifier'[d][i].key = k
               THEN 1 ELSE 0
  <2>1. byIndexable[d][k][i] =
          IF byIdentifier[d][i] # None /\ byIdentifier[d][i].key = k
          THEN 1 ELSE 0
    BY <1>2 DEF KeyIndexExact
  <2>2. keyOf[d][i] = IF byIdentifier[d][i] = None THEN None
                      ELSE byIdentifier[d][i].key
    BY <1>2 DEF KeysRemembered
  <2>3. k # None
    BY StoresAssumption DEF StoresAssumption
  <2>4. CASE d = c /\ i = id
    <3>1. byIndexable'[d][k][i] =
            IF keyOf[c][id] # key
            THEN IF k = key THEN byIndexable[d][k][i] + 1
                 ELSE IF k = keyOf[c][id] /\ byIndexable[d][k][i] > 0
                      THEN byIndexable[d][k][i] - 1
                 ELSE byIndexable[d][k][i]
            ELSE byIndexable[d][k][i]
      BY <1>2, <2>4 DEF KeyPoints
    <3>2. byIdentifier'[d][i] = obj
      BY <2>4
    <3> QED
      BY ONLY <2>1, <2>2, <2>3, <2>4, <3>1, <3>2
  <2>5. CASE ~(d = c /\ i = id)
    BY <2>1, <2>5 DEF KeyPoints
  <2> QED
    BY <2>4, <2>5
<1> QED
  BY <1>1, <1>2 DEF KeyIndexExact

OidIndex ==
  /\ OidsRemembered /\ RememberedHeld /\ ScannedUnindexed
  /\ IndexedObjectsExist /\ OwnObjectIdFound

\* A save takes over the object ids of the object and leaves every other entry
\* of the index true: those it removes are the object's own former ones, so no
\* object is unindexed that alone was ever saved with an object id.
LEMMA OidIndexSaved ==
  ASSUME Types, Types', OidIndex,
         NEW c \in Classes, NEW id \in Ids, NEW obj \in Obj,
         SavedPoints(c, id, obj)
  PROVE  OidIndex'
<1> USE DEF OidIndex
<1>1. \A d \in Classes :
        /\ \A i \in Ids : /\ byIdentifier[d][i] \in Obj \cup {None}
                          /\ byIdentifier'[d][i] \in Obj \cup {None}
        /\ \A o \in ObjectID : /\ byObjectid[d][o] \in Ids \cup {None}
                               /\ byObjectid'[d][o] \in Ids \cup {None}
  BY DEF Types
<1>2. \A o \in ObjectID : /\ o.kind \in Kinds /\ o.value \in Values
                          /\ o.value # None
  BY StoresAssumption DEF StoresAssumption, ObjectID
<1>3. None \notin Ids
  BY StoresAssumption DEF StoresAssumption
<1>4. \A o \in ObjectID : Has(obj, o) <=> obj.oids[o.kind] = o.value
  BY HasMeans
<1>5. OidsRemembered'
  <2> SUFFICES ASSUME NEW d \in Classes, NewMemoryModel[d].byObjectId,
                      NEW o \in ObjectID, NEW i \in Ids,
                      Has(byIdentifier'[d][i], o)
               PROVE  indexed'[d][i][o.kind] = o.value
    BY DEF OidsRemembered
  <2>1. CASE d = c /\ i = id
    <3>1. Has(obj, o)
      BY <2>1 DEF SavedPoints
    <3> QED
      BY <1>2, <1>4, <2>1, <3>1 DEF SavedPoints
  <2>2. CASE ~(d = c /\ i = id)
    BY <1>2, <2>2 DEF SavedPoints, OidsRemembered
  <2> QED
    BY <2>1, <2>2
<1>6. RememberedHeld'
  <2> SUFFICES ASSUME NEW d \in Classes, NEW o \in ObjectID, NEW i \in Ids,
                      indexed'[d][i][o.kind] = o.value
               PROVE  i \in everHeld'[d][o]
    BY DEF RememberedHeld
  <2>1. everHeld[d][o] \subseteq everHeld'[d][o]
    BY DEF SavedPoints
  <2>2. CASE indexed[d][i][o.kind] = o.value
    BY <2>1, <2>2 DEF RememberedHeld
  <2>3. CASE indexed[d][i][o.kind] # o.value
    <3>1. d = c /\ i = id /\ obj.oids[o.kind] = o.value
      BY <1>2, <2>3 DEF SavedPoints
    <3> QED
      BY <1>4, <3>1 DEF SavedPoints
  <2> QED
    BY <2>2, <2>3
<1>7. ScannedUnindexed'
  BY DEF ScannedUnindexed, SavedPoints
<1>8. IndexedObjectsExist'
  <2> SUFFICES ASSUME NEW d \in Classes, NEW o \in ObjectID,
                      byObjectid'[d][o] # None
               PROVE  Has(byIdentifier'[d][byObjectid'[d][o]], o)
    BY DEF IndexedObjectsExist
  <2>1. NewMemoryModel[d].byObjectId
    BY <1>7 DEF ScannedUnindexed
  <2>2. CASE d = c /\ Has(obj, o)
    BY <2>1, <2>2 DEF SavedPoints
  <2>3. CASE ~(d = c /\ Has(obj, o))
    <3>1. byObjectid'[d][o] = byObjectid[d][o]
      BY <2>1, <2>3 DEF SavedPoints
    <3> DEFINE i == byObjectid[d][o]
    <3>2. Has(byIdentifier[d][i], o) /\ i \in Ids
      BY <1>1, <3>1 DEF IndexedObjectsExist
    <3>3. ~(d = c /\ i = id)
      <4>1. SUFFICES ASSUME d = c, i = id PROVE FALSE
        OBVIOUS
      <4>2. indexed[c][id][o.kind] = o.value
        BY <2>1, <3>2, <4>1 DEF OidsRemembered
      <4>3. byObjectid'[d][o] = None
        BY <2>1, <2>3, <4>1, <4>2 DEF SavedPoints
      <4> QED
        BY <4>3
    <3>4. byIdentifier'[d][i] = byIdentifier[d][i]
      BY <3>2, <3>3 DEF SavedPoints
    <3> QED
      BY <3>1, <3>2, <3>4
  <2> QED
    BY <2>2, <2>3
<1>9. OwnObjectIdFound'
  <2> SUFFICES ASSUME NEW d \in Classes, NEW o \in ObjectID, NEW i \in Ids,
                      NewMemoryModel[d].byObjectId, everHeld'[d][o] = {i},
                      Has(byIdentifier'[d][i], o)
               PROVE  byObjectid'[d][o] = i
    BY DEF OwnObjectIdFound
  <2>1. CASE d = c /\ Has(obj, o)
    <3>1. byObjectid'[d][o] = id
      BY <2>1 DEF SavedPoints
    <3>2. everHeld'[d][o] = everHeld[d][o] \cup {id}
      BY <2>1 DEF SavedPoints
    <3> QED
      BY ONLY <3>1, <3>2, everHeld'[d][o] = {i}
  <2>2. CASE ~(d = c /\ Has(obj, o))
    <3>1. everHeld[d][o] = {i}
      BY <2>2 DEF SavedPoints
    <3>2. ~(d = c /\ i = id)
      BY <2>2 DEF SavedPoints
    <3>3. Has(byIdentifier[d][i], o)
      BY <3>2 DEF SavedPoints
    <3>4. byObjectid[d][o] = i
      BY <3>1, <3>3 DEF OwnObjectIdFound
    <3>5. d = c => indexed[c][id][o.kind] # o.value
      BY <3>1, <3>2 DEF RememberedHeld
    <3> QED
      BY <2>2, <3>4, <3>5 DEF SavedPoints
  <2> QED
    BY <2>1, <2>2
<1> QED
  BY <1>5, <1>6, <1>7, <1>8, <1>9

\* A deletion removes the object's own entries and what it remembered of it.
LEMMA OidIndexDeleted ==
  ASSUME Types, Types', OidIndex, NEW c \in Classes, NEW id \in Ids,
         DeletedPoints(c, id)
  PROVE  OidIndex'
<1> USE DEF OidIndex
<1>1. \A d \in Classes, o \in ObjectID :
        /\ byObjectid[d][o] \in Ids \cup {None}
        /\ o.kind \in Kinds /\ o.value # None
  <2>1. \A d \in Classes, o \in ObjectID : byObjectid[d][o] \in Ids \cup {None}
    BY DEF Types
  <2>2. \A o \in ObjectID : o.kind \in Kinds /\ o.value # None
    BY StoresAssumption DEF StoresAssumption, ObjectID
  <2> QED
    BY <2>1, <2>2
<1>2. OidsRemembered'
  <2> SUFFICES ASSUME NEW d \in Classes, NewMemoryModel[d].byObjectId,
                      NEW o \in ObjectID, NEW i \in Ids,
                      Has(byIdentifier'[d][i], o)
               PROVE  indexed'[d][i][o.kind] = o.value
    BY DEF OidsRemembered
  <2>1. ~(d = c /\ i = id)
    BY DEF DeletedPoints, Has
  <2> QED
    BY <1>1, <2>1 DEF DeletedPoints, OidsRemembered
<1>3. RememberedHeld'
  <2> SUFFICES ASSUME NEW d \in Classes, NEW o \in ObjectID, NEW i \in Ids,
                      indexed'[d][i][o.kind] = o.value
               PROVE  i \in everHeld'[d][o]
    BY DEF RememberedHeld
  <2>1. indexed[d][i][o.kind] = o.value
    BY <1>1 DEF DeletedPoints
  <2> QED
    BY <2>1 DEF RememberedHeld, DeletedPoints
<1>4. ScannedUnindexed'
  BY DEF ScannedUnindexed, DeletedPoints
<1>5. IndexedObjectsExist'
  <2> SUFFICES ASSUME NEW d \in Classes, NEW o \in ObjectID,
                      byObjectid'[d][o] # None
               PROVE  Has(byIdentifier'[d][byObjectid'[d][o]], o)
    BY DEF IndexedObjectsExist
  <2> DEFINE i == byObjectid[d][o]
  <2>1. NewMemoryModel[d].byObjectId /\ byObjectid'[d][o] = i
    BY <1>4 DEF DeletedPoints, ScannedUnindexed
  <2>2. Has(byIdentifier[d][i], o) /\ i \in Ids
    BY <1>1, <2>1 DEF IndexedObjectsExist
  <2>3. ~(d = c /\ i = id)
    <3>1. SUFFICES ASSUME d = c, i = id PROVE FALSE
      OBVIOUS
    <3>2. indexed[c][id][o.kind] = o.value
      BY <2>1, <2>2, <3>1 DEF OidsRemembered
    <3> QED
      BY <2>1, <3>1, <3>2 DEF DeletedPoints
  <2> QED
    BY <2>1, <2>2, <2>3 DEF DeletedPoints
<1>6. OwnObjectIdFound'
  <2> SUFFICES ASSUME NEW d \in Classes, NEW o \in ObjectID, NEW i \in Ids,
                      NewMemoryModel[d].byObjectId, everHeld'[d][o] = {i},
                      Has(byIdentifier'[d][i], o)
               PROVE  byObjectid'[d][o] = i
    BY DEF OwnObjectIdFound
  <2>1. ~(d = c /\ i = id) /\ everHeld[d][o] = {i}
    BY DEF DeletedPoints, Has
  <2>2. byObjectid[d][o] = i
    BY <2>1 DEF DeletedPoints, OwnObjectIdFound
  <2>3. d = c => indexed[c][id][o.kind] # o.value
    BY <2>1 DEF RememberedHeld
  <2> QED
    BY <2>2, <2>3 DEF DeletedPoints
<1> QED
  BY <1>2, <1>3, <1>4, <1>5, <1>6

-----------------------------------------------------------------------------
(* Transactions.                                                           *)

TxInv == TxTypes /\ Closed /\ CheckedFirst

\* An empty transaction: OpsEmpty in the new state.
Empty(t) == \A c \in Classes : /\ deleted[t][c] = {}
                               /\ \A i \in Ids : saved[t][c][i] = None

TxStates ==
  \A t \in Threads :
    /\ (status[t] = "checking") = (request[t] # NoRequest)
    /\ status[t] \in {"none", "checking"} => Empty(t)

\* The transactions' invariant, without the set Ops.
LEMMA TxInvMeans == TxInv <=> TxTypes /\ TxStates
<1>1. \A t \in Threads : Ops(t) = {} <=> Empty(t)
  BY OpsEmpty DEF Empty
<1> QED
  BY <1>1 DEF TxInv, Closed, CheckedFirst, TxStates

\* NoRequest is no request: its id is None.
LEMMA NoRequestIsNone == NoRequest \notin Request
BY StoresAssumption DEF StoresAssumption, NoRequest, Request

\* A step changes one transaction: it is enough to look at that one.
LEMMA TxStep ==
  ASSUME TxInv, NEW t \in Threads,
         NEW st \in Status, NEW sv \in [Classes -> [Ids -> Obj \cup {None}]],
         NEW dl \in [Classes -> SUBSET Ids],
         NEW rq \in Request \cup {NoRequest},
         status' = [status EXCEPT ![t] = st],
         saved' = [saved EXCEPT ![t] = sv],
         deleted' = [deleted EXCEPT ![t] = dl],
         request' = [request EXCEPT ![t] = rq],
         (st = "checking") <=> (rq # NoRequest),
         st \in {"none", "checking"} =>
           \A c \in Classes : dl[c] = {} /\ \A i \in Ids : sv[c][i] = None
  PROVE  TxInv'
<1>1. /\ status \in [Threads -> Status]
      /\ saved \in [Threads -> [Classes -> [Ids -> Obj \cup {None}]]]
      /\ deleted \in [Threads -> [Classes -> SUBSET Ids]]
      /\ request \in [Threads -> Request \cup {NoRequest}]
  BY DEF TxInv, TxTypes
<1> DEFINE SV == [Classes -> [Ids -> Obj \cup {None}]]
           DL == [Classes -> SUBSET Ids]
           RQ == Request \cup {NoRequest}
<1>2. TxTypes'
  <2>1. status' \in [Threads -> Status]
    BY ONLY <1>1, ExceptType, t \in Threads, st \in Status,
            status' = [status EXCEPT ![t] = st]
  <2>2. saved \in [Threads -> SV] /\ deleted \in [Threads -> DL]
        /\ request \in [Threads -> RQ] /\ sv \in SV /\ dl \in DL /\ rq \in RQ
    BY <1>1
  <2> HIDE DEF SV, DL, RQ
  <2>3. saved' \in [Threads -> SV] /\ deleted' \in [Threads -> DL]
        /\ request' \in [Threads -> RQ]
    BY ONLY <2>2, ExceptType, t \in Threads,
            saved' = [saved EXCEPT ![t] = sv],
            deleted' = [deleted EXCEPT ![t] = dl],
            request' = [request EXCEPT ![t] = rq]
  <2> QED
    BY <2>1, <2>3 DEF TxTypes, SV, DL, RQ
<1>3. ASSUME NEW u \in Threads
      PROVE  /\ (status'[u] = "checking") = (request'[u] # NoRequest)
             /\ status'[u] \in {"none", "checking"} => Empty(u)'
  <2>1. CASE u = t
    <3>1. /\ status'[u] = st /\ saved'[u] = sv /\ deleted'[u] = dl
          /\ request'[u] = rq
      BY <1>1, <2>1
    <3> QED
      BY <3>1 DEF Empty
  <2>2. CASE u # t
    <3>1. /\ status'[u] = status[u] /\ saved'[u] = saved[u]
          /\ deleted'[u] = deleted[u] /\ request'[u] = request[u]
      BY <1>1, <2>2
    <3> QED
      BY <3>1, TxInvMeans DEF Empty, TxStates
  <2> QED
    BY <2>1, <2>2
<1>4. TxInv' <=> TxTypes' /\ TxStates'
  BY TxInvMeans, PTL
<1> QED
  BY <1>2, <1>3, <1>4 DEF TxStates

\* A value updated with itself.
LEMMA SameExcept ==
  ASSUME NEW A, NEW V, NEW f \in [A -> V], NEW a \in A
  PROVE  f = [f EXCEPT ![a] = f[a]]
OBVIOUS

\* An update inside the value a goroutine has.
LEMMA InnerExcept ==
  ASSUME NEW A, NEW B, NEW V, NEW f \in [A -> [B -> V]],
         NEW a \in A, NEW b \in B, NEW v \in V
  PROVE  /\ [f EXCEPT ![a][b] = v] = [f EXCEPT ![a] = [f[a] EXCEPT ![b] = v]]
         /\ [f[a] EXCEPT ![b] = v] \in [B -> V]
         /\ \A y \in B : [f[a] EXCEPT ![b] = v][y] =
                           IF y = b THEN v ELSE f[a][y]
OBVIOUS

\* The same one level deeper.
LEMMA InnermostExcept ==
  ASSUME NEW A, NEW B, NEW C, NEW V, NEW f \in [A -> [B -> [C -> V]]],
         NEW a \in A, NEW b \in B, NEW c \in C, NEW v \in V
  PROVE  /\ [f EXCEPT ![a][b][c] = v] =
              [f EXCEPT ![a] = [f[a] EXCEPT ![b][c] = v]]
         /\ [f[a] EXCEPT ![b][c] = v] \in [B -> [C -> V]]
         /\ \A y \in B, z \in C : [f[a] EXCEPT ![b][c] = v][y][z] =
              IF y = b /\ z = c THEN v ELSE f[a][y][z]
OBVIOUS

\* What a transaction has, typed, and what an unchanged variable is.
LEMMA TxOf ==
  ASSUME TxInv, NEW t \in Threads
  PROVE  /\ status[t] \in Status
         /\ saved[t] \in [Classes -> [Ids -> Obj \cup {None}]]
         /\ deleted[t] \in [Classes -> SUBSET Ids]
         /\ request[t] \in Request \cup {NoRequest}
         /\ (status[t] = "checking") <=> (request[t] # NoRequest)
         /\ status[t] \in {"none", "checking"} =>
              \A c \in Classes : /\ deleted[t][c] = {}
                                 /\ \A i \in Ids : saved[t][c][i] = None
         /\ saved = [saved EXCEPT ![t] = saved[t]]
         /\ deleted = [deleted EXCEPT ![t] = deleted[t]]
         /\ request = [request EXCEPT ![t] = request[t]]
         /\ status = [status EXCEPT ![t] = status[t]]
<1>1. TxTypes /\ TxStates
  BY TxInvMeans
<1>2. /\ status \in [Threads -> Status]
      /\ saved \in [Threads -> [Classes -> [Ids -> Obj \cup {None}]]]
      /\ deleted \in [Threads -> [Classes -> SUBSET Ids]]
      /\ request \in [Threads -> Request \cup {NoRequest}]
  BY <1>1 DEF TxTypes
<1>3. /\ saved = [saved EXCEPT ![t] = saved[t]]
      /\ deleted = [deleted EXCEPT ![t] = deleted[t]]
      /\ request = [request EXCEPT ![t] = request[t]]
      /\ status = [status EXCEPT ![t] = status[t]]
  <2> DEFINE SV == [Classes -> [Ids -> Obj \cup {None}]]
             DL == [Classes -> SUBSET Ids]
             RQ == Request \cup {NoRequest}
  <2>1. saved \in [Threads -> SV] /\ deleted \in [Threads -> DL]
        /\ request \in [Threads -> RQ]
    BY <1>2
  <2> HIDE DEF SV, DL, RQ
  <2> QED
    BY ONLY <1>2, <2>1, SameExcept, t \in Threads
<1> QED
  BY <1>1, <1>2, <1>3 DEF TxStates, Empty

\* Opening, committing, ending or closing a transaction.
LEMMA TxBoundaries ==
  ASSUME TxInv, NEW t \in Threads,
         NewTransaction(t) \/ Commit(t) \/ Close(t) \/ CommitDone(t)
  PROVE  TxInv'
<1>1. NoRequest \in Request \cup {NoRequest}
  OBVIOUS
<1>2. CASE NewTransaction(t)
  <2>1. /\ status' = [status EXCEPT ![t] = "open"]
        /\ saved' = [saved EXCEPT ![t] = saved[t]]
        /\ deleted' = [deleted EXCEPT ![t] = deleted[t]]
        /\ request' = [request EXCEPT ![t] = request[t]]
        /\ status[t] = "none"
    BY <1>2, TxOf DEF NewTransaction
  <2> QED
    BY <2>1, TxOf, TxStep DEF Status
<1>3. CASE Commit(t)
  <2>1. /\ status' = [status EXCEPT ![t] = "commit"]
        /\ saved' = [saved EXCEPT ![t] = saved[t]]
        /\ deleted' = [deleted EXCEPT ![t] = deleted[t]]
        /\ request' = [request EXCEPT ![t] = request[t]]
        /\ status[t] = "open"
    BY <1>3, TxOf DEF Commit
  <2> QED
    BY <2>1, TxOf, TxStep DEF Status
<1>4. CASE Close(t)
  <2>1. /\ status' = [status EXCEPT ![t] = "none"]
        /\ saved' = [saved EXCEPT ![t] = NothingSaved]
        /\ deleted' = [deleted EXCEPT ![t] = NothingDeleted]
        /\ request' = [request EXCEPT ![t] = request[t]]
        /\ status[t] = "open"
    BY <1>4, TxOf DEF Close
  <2>2. /\ NothingSaved \in [Classes -> [Ids -> Obj \cup {None}]]
        /\ NothingDeleted \in [Classes -> SUBSET Ids]
        /\ \A c \in Classes : /\ NothingDeleted[c] = {}
                              /\ \A i \in Ids : NothingSaved[c][i] = None
    BY DEF NothingSaved, NothingDeleted
  <2> QED
    BY <2>1, <2>2, TxOf, TxStep DEF Status
<1>5. CASE CommitDone(t)
  <2>1. /\ status' = [status EXCEPT ![t] = "none"]
        /\ saved' = [saved EXCEPT ![t] = saved[t]]
        /\ deleted' = [deleted EXCEPT ![t] = deleted[t]]
        /\ request' = [request EXCEPT ![t] = request[t]]
        /\ status[t] = "commit" /\ Ops(t) = {}
    BY <1>5, TxOf DEF CommitDone
  <2>2. \A c \in Classes : /\ deleted[t][c] = {}
                           /\ \A i \in Ids : saved[t][c][i] = None
    BY <2>1, OpsEmpty
  <2> QED
    BY <2>1, <2>2, TxOf, TxStep DEF Status
<1> QED
  BY <1>2, <1>3, <1>4, <1>5

\* What a transaction finds is an object.
LEMMA TxFindType ==
  ASSUME TxInv, Types, NEW t \in Threads, NEW c \in Classes, NEW i \in Ids
  PROVE  TxFind(t, c, i) \in Obj \cup {None}
<1>1. saved[t] \in [Classes -> [Ids -> Obj \cup {None}]]
  BY TxOf
<1>2. byIdentifier \in [Classes -> [Ids -> Obj \cup {None}]]
  BY DEF Types
<1> QED
  BY <1>1, <1>2 DEF TxFind

\* A collector saves what it found, or a new object, in its transaction.
LEMMA TxCollect ==
  ASSUME TxInv, Types, NEW t \in Threads, NEW c \in Classes,
         NEW o \in ObjectID, NEW key \in Keys, CollectObject(t, c, o, key)
  PROVE  TxInv'
<1>1. PICK i \in Ids, obj \in Obj : saved' = [saved EXCEPT ![t][c][i] = obj]
  <2>1. CASE \E i \in TxFindByObjectId(t, c, o) :
               /\ HasRoomFor(t, c, i) /\ TxFind(t, c, i) # None
               /\ saved' = [saved EXCEPT ![t][c][i] =
                              [TxFind(t, c, i) EXCEPT !.key = key]]
    <3>1. PICK i \in TxFindByObjectId(t, c, o) :
            /\ TxFind(t, c, i) # None
            /\ saved' = [saved EXCEPT ![t][c][i] =
                           [TxFind(t, c, i) EXCEPT !.key = key]]
      BY <2>1
    <3>2. i \in Ids
      <4>1. \A d \in Classes, x \in ObjectID : byObjectid[d][x] \in Ids \cup {None}
        BY DEF Types
      <4> QED
        BY <3>1, <4>1 DEF TxFindByObjectId, FindByObjectId
    <3>3. TxFind(t, c, i) \in Obj
      BY <3>1, <3>2, TxFindType
    <3>4. [TxFind(t, c, i) EXCEPT !.key = key] \in Obj
      BY <3>3 DEF Obj
    <3> QED
      BY <3>1, <3>2, <3>4
  <2>2. CASE \E i \in Ids :
               saved' = [saved EXCEPT ![t][c][i] =
                 [oids |-> [k \in Kinds |-> IF k = o.kind THEN o.value
                                            ELSE None],
                  key |-> key]]
    <3>1. [oids |-> [k \in Kinds |-> IF k = o.kind THEN o.value ELSE None],
           key |-> key] \in Obj
      BY DEF Obj, ObjectID
    <3> QED
      BY <2>2, <3>1
  <2> QED
    BY <2>1, <2>2 DEF CollectObject
<1>2. status[t] = "open"
  BY DEF CollectObject
<1>3. UNCHANGED <<status, deleted, request>>
  BY DEF CollectObject
<1>4. saved \in [Threads -> [Classes -> [Ids -> Obj \cup {None}]]]
  BY DEF TxInv, TxTypes
<1> DEFINE sv == [saved[t] EXCEPT ![c][i] = obj]
<1>5. /\ saved' = [saved EXCEPT ![t] = sv]
      /\ sv \in [Classes -> [Ids -> Obj \cup {None}]]
  <2>1. obj \in Obj \cup {None}
    OBVIOUS
  <2> QED
    BY ONLY <1>1, <1>4, <2>1, InnermostExcept, t \in Threads, c \in Classes
<1> HIDE DEF sv
<1>6. /\ status' = [status EXCEPT ![t] = status[t]]
      /\ saved' = [saved EXCEPT ![t] = sv]
      /\ deleted' = [deleted EXCEPT ![t] = deleted[t]]
      /\ request' = [request EXCEPT ![t] = request[t]]
  BY <1>3, <1>5, TxOf
<1>7. /\ status[t] \in Status /\ deleted[t] \in [Classes -> SUBSET Ids]
      /\ request[t] \in Request \cup {NoRequest}
      /\ (status[t] = "checking") <=> (request[t] # NoRequest)
  BY TxOf
<1> QED
  BY ONLY TxInv, t \in Threads, <1>2, <1>5, <1>6, <1>7, TxStep

\* A request that creates or updates an object, until it is saved.
LEMMA TxRequest ==
  ASSUME TxInv, NEW t \in Threads,
         \/ \E c \in Classes, i \in Ids, obj \in Obj :
              Create(t, c, i, obj) \/ Update(t, c, i, obj)
         \/ \E o \in ObjectID : CheckObjectId(t, o)
         \/ SaveRequest(t)
  PROVE  TxInv'
<1>1. ASSUME NEW c \in Classes, NEW i \in Ids, NEW obj \in Obj,
             Create(t, c, i, obj) \/ Update(t, c, i, obj)
      PROVE  TxInv'
  <2>1. PICK new \in BOOLEAN :
          request' = [request EXCEPT ![t] =
            [class |-> c, id |-> i, obj |-> obj,
             todo |-> IF ChecksObjectIds(c) THEN OidsOf(obj) ELSE {},
             new |-> new]]
    BY <1>1 DEF Create, Update
  <2> DEFINE rq == [class |-> c, id |-> i, obj |-> obj,
                    todo |-> IF ChecksObjectIds(c) THEN OidsOf(obj) ELSE {},
                    new |-> new]
  <2>2. rq \in Request
    BY DEF Request, OidsOf
  <2>3. /\ status' = [status EXCEPT ![t] = "checking"]
        /\ UNCHANGED <<saved, deleted>> /\ Ops(t) = {}
    BY <1>1 DEF Create, Update
  <2>4. \A d \in Classes : /\ deleted[t][d] = {}
                           /\ \A j \in Ids : saved[t][d][j] = None
    BY <2>3, OpsEmpty
  <2>5. request' = [request EXCEPT ![t] = rq] /\ rq # NoRequest
    BY <2>1, <2>2, NoRequestIsNone
  <2> HIDE DEF rq
  <2> QED
    <3>1. /\ status' = [status EXCEPT ![t] = "checking"]
          /\ saved' = [saved EXCEPT ![t] = saved[t]]
          /\ deleted' = [deleted EXCEPT ![t] = deleted[t]]
          /\ request' = [request EXCEPT ![t] = rq]
      BY <2>3, <2>5, TxOf
    <3>2. /\ "checking" \in Status /\ rq \in Request \cup {NoRequest}
          /\ saved[t] \in [Classes -> [Ids -> Obj \cup {None}]]
          /\ deleted[t] \in [Classes -> SUBSET Ids]
      BY <2>2, TxOf DEF Status
    <3> QED
      BY ONLY TxInv, t \in Threads, <2>4, <2>5, <3>1, <3>2, TxStep
<1>2. ASSUME NEW o \in ObjectID, CheckObjectId(t, o) PROVE TxInv'
  <2>1. status[t] = "checking" /\ UNCHANGED <<saved, deleted>>
    BY <1>2 DEF CheckObjectId
  <2>2. CASE /\ request' = [request EXCEPT ![t] = NoRequest]
             /\ status' = [status EXCEPT ![t] = "none"]
    <3>1. /\ status' = [status EXCEPT ![t] = "none"]
          /\ saved' = [saved EXCEPT ![t] = saved[t]]
          /\ deleted' = [deleted EXCEPT ![t] = deleted[t]]
          /\ request' = [request EXCEPT ![t] = NoRequest]
      BY <2>1, <2>2, TxOf
    <3>2. /\ "none" \in Status /\ "none" # "checking"
          /\ NoRequest \in Request \cup {NoRequest}
          /\ saved[t] \in [Classes -> [Ids -> Obj \cup {None}]]
          /\ deleted[t] \in [Classes -> SUBSET Ids]
          /\ \A c \in Classes : /\ deleted[t][c] = {}
                                /\ \A i \in Ids : saved[t][c][i] = None
      BY <2>1, TxOf DEF Status
    <3> QED
      BY ONLY TxInv, t \in Threads, <3>1, <3>2, TxStep
  <2>3. CASE /\ request' = [request EXCEPT ![t].todo = @ \ {o}]
             /\ UNCHANGED status
    <3>1. request[t] \in Request
      BY <2>1, TxOf
    <3> DEFINE rq == [request[t] EXCEPT !.todo = @ \ {o}]
    <3>2. rq \in Request
      BY <3>1 DEF Request
    <3>3. request' = [request EXCEPT ![t] = rq] /\ rq # NoRequest
      BY <2>3, <3>2, NoRequestIsNone
    <3> HIDE DEF rq
    <3> QED
      <4>1. /\ status' = [status EXCEPT ![t] = "checking"]
            /\ saved' = [saved EXCEPT ![t] = saved[t]]
            /\ deleted' = [deleted EXCEPT ![t] = deleted[t]]
            /\ request' = [request EXCEPT ![t] = rq]
        BY <2>1, <2>3, <3>3, TxOf
      <4>2. /\ "checking" \in Status /\ rq \in Request \cup {NoRequest}
            /\ saved[t] \in [Classes -> [Ids -> Obj \cup {None}]]
            /\ deleted[t] \in [Classes -> SUBSET Ids]
            /\ \A c \in Classes : /\ deleted[t][c] = {}
                                  /\ \A i \in Ids : saved[t][c][i] = None
        BY <2>1, <3>2, TxOf DEF Status
      <4> QED
        BY ONLY TxInv, t \in Threads, <3>3, <4>1, <4>2, TxStep
  <2> QED
    BY <1>2, <2>2, <2>3 DEF CheckObjectId
<1>3. CASE SaveRequest(t)
  <2>1. status[t] = "checking" /\ request[t] \in Request
    BY <1>3, TxOf DEF SaveRequest
  <2> DEFINE c == request[t].class
             i == request[t].id
             obj == request[t].obj
             sv == [saved[t] EXCEPT ![c][i] = obj]
  <2>2. c \in Classes /\ i \in Ids /\ obj \in Obj \cup {None}
    BY <2>1 DEF Request
  <2>3. saved \in [Threads -> [Classes -> [Ids -> Obj \cup {None}]]]
    BY DEF TxInv, TxTypes
  <2>4. saved' = [saved EXCEPT ![t][c][i] = obj]
    BY <1>3 DEF SaveRequest
  <2> HIDE DEF c, i, obj
  <2>5. /\ saved' = [saved EXCEPT ![t] = sv]
        /\ sv \in [Classes -> [Ids -> Obj \cup {None}]]
    BY ONLY <2>2, <2>3, <2>4, InnermostExcept, t \in Threads
  <2>6. /\ request' = [request EXCEPT ![t] = NoRequest]
        /\ status' = [status EXCEPT ![t] = "commit"]
        /\ UNCHANGED deleted
    BY <1>3 DEF SaveRequest
  <2> HIDE DEF sv
  <2> QED
    <3>1. /\ status' = [status EXCEPT ![t] = "commit"]
          /\ saved' = [saved EXCEPT ![t] = sv]
          /\ deleted' = [deleted EXCEPT ![t] = deleted[t]]
          /\ request' = [request EXCEPT ![t] = NoRequest]
      BY <2>5, <2>6, TxOf
    <3>2. /\ "commit" \in Status /\ "commit" \notin {"none", "checking"}
          /\ NoRequest \in Request \cup {NoRequest}
          /\ deleted[t] \in [Classes -> SUBSET Ids]
      BY TxOf DEF Status
    <3> QED
      BY ONLY TxInv, t \in Threads, <2>5, <3>1, <3>2, TxStep
<1> QED
  BY <1>1, <1>2, <1>3

\* A deletion is recorded; a commit takes one object at a time out of what the
\* transaction saved or deleted.
LEMMA TxCommit ==
  ASSUME TxInv, NEW t \in Threads, NEW c \in Classes, NEW i \in Ids,
         DeleteRequest(t, c, i) \/ CommitDelete(t, c, i) \/ CommitSave(t, c, i)
  PROVE  TxInv'
<1>1. /\ saved \in [Threads -> [Classes -> [Ids -> Obj \cup {None}]]]
      /\ deleted \in [Threads -> [Classes -> SUBSET Ids]]
  BY DEF TxInv, TxTypes
<1>2. CASE DeleteRequest(t, c, i)
  <2> DEFINE dl == [deleted[t] EXCEPT ![c] = {i}]
  <2>1. deleted' = [deleted EXCEPT ![t] = dl] /\ dl \in [Classes -> SUBSET Ids]
    BY <1>1, <1>2 DEF DeleteRequest
  <2>2. /\ status' = [status EXCEPT ![t] = "commit"] /\ status[t] = "open"
        /\ UNCHANGED <<saved, request>>
    BY <1>2 DEF DeleteRequest
  <2> HIDE DEF dl
  <2> QED
    <3>1. /\ status' = [status EXCEPT ![t] = "commit"]
          /\ saved' = [saved EXCEPT ![t] = saved[t]]
          /\ deleted' = [deleted EXCEPT ![t] = dl]
          /\ request' = [request EXCEPT ![t] = request[t]]
      BY <2>1, <2>2, TxOf
    <3>2. /\ "commit" \in Status /\ "commit" \notin {"none", "checking"}
          /\ saved[t] \in [Classes -> [Ids -> Obj \cup {None}]]
          /\ request[t] \in Request \cup {NoRequest}
          /\ ("commit" = "checking") <=> (request[t] # NoRequest)
      BY <2>2, TxOf DEF Status
    <3> QED
      BY ONLY TxInv, t \in Threads, <2>1, <3>1, <3>2, TxStep
<1>3. CASE CommitDelete(t, c, i)
  <2> DEFINE dl == [deleted[t] EXCEPT ![c] = @ \ {i}]
  <2>1. deleted' = [deleted EXCEPT ![t] = dl] /\ dl \in [Classes -> SUBSET Ids]
    BY <1>1, <1>3 DEF CommitDelete
  <2>2. status[t] = "commit" /\ UNCHANGED <<status, saved, request>>
    BY <1>3 DEF CommitDelete
  <2> HIDE DEF dl
  <2> QED
    <3>1. /\ status' = [status EXCEPT ![t] = "commit"]
          /\ saved' = [saved EXCEPT ![t] = saved[t]]
          /\ deleted' = [deleted EXCEPT ![t] = dl]
          /\ request' = [request EXCEPT ![t] = request[t]]
      BY <2>1, <2>2, TxOf
    <3>2. /\ "commit" \in Status /\ "commit" \notin {"none", "checking"}
          /\ saved[t] \in [Classes -> [Ids -> Obj \cup {None}]]
          /\ request[t] \in Request \cup {NoRequest}
          /\ ("commit" = "checking") <=> (request[t] # NoRequest)
      BY <2>2, TxOf DEF Status
    <3> QED
      BY ONLY TxInv, t \in Threads, <2>1, <3>1, <3>2, TxStep
<1>4. CASE CommitSave(t, c, i)
  <2> DEFINE sv == [saved[t] EXCEPT ![c][i] = None]
  <2>1. saved' = [saved EXCEPT ![t][c][i] = None]
    BY <1>4 DEF CommitSave
  <2>2. /\ saved' = [saved EXCEPT ![t] = sv]
        /\ sv \in [Classes -> [Ids -> Obj \cup {None}]]
    <3>1. None \in Obj \cup {None}
      OBVIOUS
    <3> QED
      BY ONLY <1>1, <2>1, <3>1, InnermostExcept, t \in Threads, c \in Classes,
              i \in Ids
  <2>3. status[t] = "commit" /\ UNCHANGED <<status, deleted, request>>
    BY <1>4 DEF CommitSave
  <2> HIDE DEF sv
  <2> QED
    <3>1. /\ status' = [status EXCEPT ![t] = "commit"]
          /\ saved' = [saved EXCEPT ![t] = sv]
          /\ deleted' = [deleted EXCEPT ![t] = deleted[t]]
          /\ request' = [request EXCEPT ![t] = request[t]]
      BY <2>2, <2>3, TxOf
    <3>2. /\ "commit" \in Status /\ "commit" \notin {"none", "checking"}
          /\ deleted[t] \in [Classes -> SUBSET Ids]
          /\ request[t] \in Request \cup {NoRequest}
          /\ ("commit" = "checking") <=> (request[t] # NoRequest)
      BY <2>3, TxOf DEF Status
    <3> QED
      BY ONLY TxInv, t \in Threads, <2>2, <3>1, <3>2, TxStep
<1> QED
  BY <1>2, <1>3, <1>4

-----------------------------------------------------------------------------
(* Invariance.                                                             *)

\* The parts of the invariant.
LEMMA StoresInvParts ==
  StoresInv <=> /\ Types /\ TxInv /\ OidIndex
                /\ KeysRemembered /\ KeyIndexExact
BY TypesParts DEF StoresInv, TxInv, Indexes, OidIndex

\* The invariant holds initially: nothing is stored, indexed or open.
LEMMA InitStoresInv == StoresInit => StoresInv
<1> SUFFICES ASSUME StoresInit PROVE StoresInv
  OBVIOUS
<1>1. Types
  BY DEF StoresInit, Types, NothingSaved
<1>2. TxTypes
  BY DEF StoresInit, TxTypes, NothingSaved, NothingDeleted, Status
<1>3. TxStates
  BY DEF StoresInit, TxStates, Empty, NothingSaved, NothingDeleted
<1>4. KeysRemembered /\ KeyIndexExact
  BY DEF StoresInit, KeysRemembered, KeyIndexExact, NothingSaved
<1>5. \A o \in ObjectID : o.kind \in Kinds /\ o.value # None
  BY StoresAssumption DEF StoresAssumption, ObjectID
<1>6. OidsRemembered /\ IndexedObjectsExist /\ OwnObjectIdFound
  BY DEF StoresInit, OidsRemembered, IndexedObjectsExist, OwnObjectIdFound,
         NothingSaved, Has
<1>7. RememberedHeld /\ ScannedUnindexed
  BY <1>5 DEF StoresInit, RememberedHeld, ScannedUnindexed
<1> QED
  BY <1>1, <1>2, <1>3, <1>4, <1>6, <1>7, StoresInvParts, TxInvMeans
     DEF OidIndex

\* While the live stores stay, so do their types and their indexes.
LEMMA LiveUnchanged ==
  ASSUME Types, OidIndex, KeysRemembered, KeyIndexExact, UNCHANGED liveVars
  PROVE  (Types /\ OidIndex /\ KeysRemembered /\ KeyIndexExact)'
BY DEF Types, OidIndex, OidsRemembered, RememberedHeld, ScannedUnindexed,
       IndexedObjectsExist, OwnObjectIdFound, KeysRemembered, KeyIndexExact,
       liveVars, indexVars

\* A commit applies one object: the indexes follow it.
LEMMA CommitStepInv ==
  ASSUME Types, TxInv, OidIndex, KeysRemembered, KeyIndexExact,
         NEW t \in Threads, NEW c \in Classes, NEW i \in Ids,
         CommitDelete(t, c, i) \/ CommitSave(t, c, i)
  PROVE  (Types /\ OidIndex /\ KeysRemembered /\ KeyIndexExact)'
<1>1. CASE CommitDelete(t, c, i)
  <2>1. Delete(c, i)
    BY <1>1 DEF CommitDelete
  <2>2. Types' /\ DeletedPoints(c, i) /\ KeyPoints(c, i, None)
    BY <2>1, DeletePoints
  <2>3. \A d \in Classes, j \in Ids : byIdentifier'[d][j] =
          IF d = c /\ j = i THEN None ELSE byIdentifier[d][j]
    BY <2>2 DEF DeletedPoints
  <2> DEFINE obj == None
  <2>4. obj \in Obj \cup {None}
        /\ KeyPoints(c, i, IF obj = None THEN None ELSE obj.key)
    BY <2>2
  <2>5. KeysRemembered' /\ KeyIndexExact'
    BY <2>3, <2>4, KeyIndexKept
  <2>6. OidIndex'
    BY <2>2, OidIndexDeleted
  <2> QED
    BY <2>2, <2>5, <2>6
<1>2. CASE CommitSave(t, c, i)
  <2> DEFINE obj == saved[t][c][i]
  <2>1. Save(c, i, obj) /\ obj # None
    BY <1>2 DEF CommitSave, SavedBy
  <2>2. obj \in Obj /\ obj \in Obj \cup {None}
    <3>1. saved[t] \in [Classes -> [Ids -> Obj \cup {None}]]
      BY TxOf
    <3> QED
      BY <2>1, <3>1
  <2> HIDE DEF obj
  <2>3. Types' /\ SavedPoints(c, i, obj) /\ KeyPoints(c, i, obj.key)
    BY <2>1, <2>2, SavePoints
  <2>4. \A d \in Classes, j \in Ids : byIdentifier'[d][j] =
          IF d = c /\ j = i THEN obj ELSE byIdentifier[d][j]
    BY <2>3 DEF SavedPoints
  <2>5. KeyPoints(c, i, IF obj = None THEN None ELSE obj.key)
    BY <2>1, <2>3
  <2>6. KeysRemembered' /\ KeyIndexExact'
    BY <2>2, <2>4, <2>5, KeyIndexKept
  <2>7. OidIndex'
    BY <2>2, <2>3, OidIndexSaved
  <2> QED
    BY <2>3, <2>6, <2>7
<1> QED
  BY <1>1, <1>2

\* Every step preserves the invariant.
LEMMA NextStoresInv == StoresInv /\ [StoresNext]_storesVars => StoresInv'
<1> SUFFICES ASSUME StoresInv, [StoresNext]_storesVars PROVE StoresInv'
  OBVIOUS
<1> DEFINE Live == Types /\ OidIndex /\ KeysRemembered /\ KeyIndexExact
<1>1. Types /\ TxInv /\ OidIndex /\ KeysRemembered /\ KeyIndexExact
  BY StoresInvParts
<1>2. ASSUME NEW t \in Threads,
             NewTransaction(t) \/ Commit(t) \/ Close(t) \/ CommitDone(t)
      PROVE  Live' /\ TxInv'
  <2>1. UNCHANGED liveVars
    BY <1>2 DEF NewTransaction, Commit, Close, CommitDone
  <2> QED
    BY <1>1, <1>2, <2>1, LiveUnchanged, TxBoundaries
<1>3. ASSUME NEW t \in Threads,
             \/ SaveRequest(t)
             \/ \E c \in Classes, i \in Ids, obj \in Obj :
                  Create(t, c, i, obj) \/ Update(t, c, i, obj)
             \/ \E o \in ObjectID : CheckObjectId(t, o)
      PROVE  Live' /\ TxInv'
  <2>1. UNCHANGED liveVars
    BY <1>3 DEF SaveRequest, Create, Update, CheckObjectId
  <2>2. TxInv'
    BY ONLY <1>1, <1>3, TxRequest
  <2> QED
    BY <1>1, <2>1, <2>2, LiveUnchanged
<1>4. ASSUME NEW t \in Threads, NEW c \in Classes, NEW o \in ObjectID,
             NEW key \in Keys, CollectObject(t, c, o, key)
      PROVE  Live' /\ TxInv'
  <2>1. UNCHANGED liveVars
    BY <1>4 DEF CollectObject
  <2> QED
    BY <1>1, <1>4, <2>1, LiveUnchanged, TxCollect
<1>5. ASSUME NEW t \in Threads, NEW c \in Classes, NEW i \in Ids,
             DeleteRequest(t, c, i)
      PROVE  Live' /\ TxInv'
  <2>1. UNCHANGED liveVars
    BY <1>5 DEF DeleteRequest
  <2> QED
    BY <1>1, <1>5, <2>1, LiveUnchanged, TxCommit
<1>6. ASSUME NEW t \in Threads, NEW c \in Classes, NEW i \in Ids,
             CommitDelete(t, c, i) \/ CommitSave(t, c, i)
      PROVE  Live' /\ TxInv'
  BY <1>1, <1>6, CommitStepInv, TxCommit
<1>7. CASE UNCHANGED storesVars
  <2>1. UNCHANGED liveVars /\ UNCHANGED <<status, saved, deleted, request>>
    BY <1>7 DEF storesVars, txVars
  <2>2. TxInv'
    BY <1>1, <2>1 DEF TxInv, TxTypes, Closed, CheckedFirst, Ops, SavedBy
  <2> QED
    BY <1>1, <2>1, <2>2, LiveUnchanged, StoresInvParts, PTL
<1>8. CASE StoresNext
  <2>1. Live' /\ TxInv'
    BY <1>2, <1>3, <1>4, <1>5, <1>6, <1>8
       DEF StoresNext, Requests, CommitStep
  <2> QED
    BY <2>1, StoresInvParts, PTL
<1> QED
  BY <1>7, <1>8

\* The invariant, of every behaviour of the stores.
THEOREM StoresInvariance == StoresSpec => []StoresInv
BY InitStoresInv, NextStoresInv, PTL DEF StoresSpec

\* Every variable keeps its type, and a transaction that is closed has nothing
\* left to save or delete (Transaction.Close).
THEOREM StoresTypeCorrect == StoresSpec => []StoresTypeOK
<1>1. StoresInv => StoresTypeOK
  BY DEF StoresInv
<1> QED
  BY <1>1, StoresInvariance, PTL

\* FindByObjectId dereferences an id of a stored object which has the object id
\* asked for, whatever transactions replaced, took over or deleted.
THEOREM IndexedAreStored == StoresSpec => []IndexedObjectsExist
<1>1. StoresInv => IndexedObjectsExist
  BY DEF StoresInv, Indexes
<1> QED
  BY <1>1, StoresInvariance, PTL

\* The finders by foreign key return what a scan would, each object once.
THEOREM KeyFindersExact == StoresSpec => []KeyIndexExact
<1>1. StoresInv => KeyIndexExact
  BY DEF StoresInv, Indexes
<1> QED
  BY <1>1, StoresInvariance, PTL

\* An object is found by an object id that it alone was ever saved with.
THEOREM OwnIdsFound == StoresSpec => []OwnObjectIdFound
<1>1. StoresInv => OwnObjectIdFound
  BY DEF StoresInv, Indexes
<1> QED
  BY <1>1, StoresInvariance, PTL

\* A transaction's finder by key agrees with its FindAll: what it saved hides
\* what the live index still lists.
THEOREM FindersAgree == StoresSpec => []TxFindersAgree
<1>1. StoresInv => TxFindersAgree
  <2> SUFFICES ASSUME StoresInv, NEW t \in Threads, NEW c \in Classes,
                      NewTransactionalModel[c].byKey, NEW k \in Keys
               PROVE  TxFindByKey(t, c, k) =
                        {i \in TxFindAll(t, c) : TxFind(t, c, i).key = k}
    BY DEF TxFindersAgree
  <2>1. FindByKey(c, k) = {i \in Ids : /\ byIdentifier[c][i] # None
                                       /\ byIdentifier[c][i].key = k}
    <3>1. CASE NewMemoryModel[c].byKey
      <4>1. \A i \in Ids : byIndexable[c][k][i] =
              IF byIdentifier[c][i] # None /\ byIdentifier[c][i].key = k
              THEN 1 ELSE 0
        BY <3>1 DEF StoresInv, Indexes, KeyIndexExact
      <4> QED
        BY <3>1, <4>1 DEF FindByKey
    <3>2. CASE ~NewMemoryModel[c].byKey
      BY <3>2 DEF FindByKey
    <3> QED
      BY <3>1, <3>2
  <2> QED
    BY <2>1 DEF TxFindByKey, TxFindAll, TxFind
<1> QED
  BY <1>1, StoresInvariance, PTL
=============================================================================
