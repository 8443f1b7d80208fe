----------------------------- MODULE Durability -----------------------------
(***************************************************************************)
(* What survives a restart: the referentials and the partners in memory,    *)
(* that the API changes, and their rows in the database, that only the two  *)
(* save requests of the API write and only the start of the process reads.  *)
(*                                                                         *)
(* Save requests run at the same time, the database may fail at any         *)
(* statement and the process may crash.  The database is PostgreSQL at its  *)
(* default isolation: a DELETE removes the rows that were committed when it *)
(* began and waits for a transaction that removes one of them.             *)
(***************************************************************************)
EXTENDS Integers, Sequences, FiniteSets

CONSTANTS
  DuRefs,       \* ids of referentials, each created once (UUID)
  DuIds,        \* ids of partners
  DuValues,     \* definitions of partners
  DuThreads,    \* save requests of partners that run at the same time
  DuMaxChanges  \* bound: changes in memory, restarts and saves

DuPartner == [id : DuIds, def : DuValues]
DuRow == [ref : DuRefs, id : DuIds, def : DuValues]

ASSUME DuAssumption == DuMaxChanges \in Nat

VARIABLES
  duRefs,      \* MemoryReferentials.byId
  duPartners,  \* [DuRefs -> SUBSET DuPartner]: PartnerManager.byId of each
  duDbRefs,    \* table referentials
  duDbRows,    \* table partners, a subset of DuRow
  duSaves,     \* [DuThreads -> step and referential of the request]
  duSeen,      \* [DuThreads -> SUBSET DuRow]: what its DELETE removes
  duOrder,     \* the open transactions, in the order of their DELETE
  duChanges,   \* changes so far
  \* history
  duCreated,   \* referentials that were created
  duAck,       \* [DuRefs -> SUBSET DuRow]: the last save that was acknowledged
  duWanted,    \* rows' <<ref, id>> acknowledged, and not deleted since
  duOverlap,   \* two saves ran at the same time
  duLoadFailed \* a start could not read some partners

duMemory == <<duRefs, duPartners>>
duDb == <<duDbRefs, duDbRows>>
duTxs == <<duSaves, duSeen, duOrder>>
duHistory == <<duCreated, duAck, duWanted, duOverlap, duLoadFailed>>
duVars == <<duMemory, duDb, duTxs, duChanges, duHistory>>

DuIdle == [step |-> "idle"]

DuInit ==
  /\ duRefs = {} /\ duPartners = [r \in DuRefs |-> {}]
  /\ duDbRefs = {} /\ duDbRows = {}
  /\ duSaves = [t \in DuThreads |-> DuIdle]
  /\ duSeen = [t \in DuThreads |-> {}] /\ duOrder = <<>>
  /\ duChanges = 0
  /\ duCreated = {} /\ duAck = [r \in DuRefs |-> {}] /\ duWanted = {}
  /\ duOverlap = FALSE /\ duLoadFailed = FALSE

DuChange == duChanges < DuMaxChanges /\ duChanges' = duChanges + 1

-----------------------------------------------------------------------------
(* The API changes the memory.                                             *)

\* ReferentialController.Create: MemoryReferentials.New and Save
DuCreateReferential(r) ==
  /\ DuChange /\ r \notin duCreated
  /\ duRefs' = duRefs \cup {r} /\ duCreated' = duCreated \cup {r}
  /\ UNCHANGED <<duPartners, duDb, duTxs, duAck, duWanted, duOverlap,
                 duLoadFailed>>

\* MemoryReferentials.Delete
DuDeleteReferential(r) ==
  /\ DuChange /\ r \in duRefs
  /\ duRefs' = duRefs \ {r}
  /\ duWanted' = {w \in duWanted : w[1] # r}
  /\ UNCHANGED <<duPartners, duDb, duTxs, duCreated, duAck, duOverlap,
                 duLoadFailed>>

\* PartnerManager.Save, of a new partner or of a new definition of it
DuSavePartner(r, p) ==
  /\ DuChange /\ r \in duRefs
  /\ duPartners' = [duPartners EXCEPT ![r] = {q \in @ : q.id # p.id} \cup {p}]
  /\ UNCHANGED <<duRefs, duDb, duTxs, duHistory>>

\* PartnerManager.Delete
DuDeletePartner(r, p) ==
  /\ DuChange /\ r \in duRefs /\ p \in duPartners[r]
  /\ duPartners' = [duPartners EXCEPT ![r] = @ \ {p}]
  /\ duWanted' = duWanted \ {<<r, p.id>>}
  /\ UNCHANGED <<duRefs, duDb, duTxs, duCreated, duAck, duOverlap,
                 duLoadFailed>>

-----------------------------------------------------------------------------
(* The save requests.                                                      *)

\* newDbPartner
DuRowOf(r, p) == [ref |-> r, id |-> p.id, def |-> p.def]
DuRowsOf(r) == {DuRowOf(r, p) : p \in duPartners[r]}
DuSaving == {t \in DuThreads : duSaves[t].step # "idle"}

\* MemoryReferentials.SaveToDatabase: TRUNCATE, that locks the table until the
\* end, INSERTs, and the partners of other referentials deleted.  After an
\* error all is rolled back
DuSaveReferentials(available) ==
  /\ DuChange
  /\ IF available
     THEN /\ duDbRefs' = duRefs
          /\ duDbRows' = {row \in duDbRows : row.ref \in duRefs}
          /\ duAck' = [r \in DuRefs |-> IF r \in duRefs THEN duAck[r] ELSE {}]
          /\ duOverlap' = (duOverlap \/ DuSaving # {})
     ELSE UNCHANGED <<duDb, duAck, duOverlap>>
  /\ UNCHANGED <<duMemory, duTxs, duCreated, duWanted, duLoadFailed>>

\* the check of PartnerManager.SaveToDatabase, outside of its transaction:
\* "can't save Partners without Referential in Database"
DuMaySave(r) == r \in duDbRefs

DuCheckReferential(t, r) ==
  /\ DuChange /\ duSaves[t] = DuIdle /\ r \in duRefs /\ DuMaySave(r)
  /\ duSaves' = [duSaves EXCEPT ![t] = [step |-> "checked", ref |-> r]]
  /\ duOverlap' = (duOverlap \/ DuSaving # {})
  /\ UNCHANGED <<duMemory, duDb, duSeen, duOrder, duCreated, duAck, duWanted,
                 duLoadFailed>>

\* DELETE of the rows of the referential
DuDeleteRows(t) ==
  /\ duSaves[t].step = "checked"
  /\ duSaves' = [duSaves EXCEPT ![t].step = "deleted"]
  /\ duSeen' = [duSeen EXCEPT ![t] =
                  {row \in duDbRows : row.ref = duSaves[t].ref}]
  /\ duOrder' = Append(duOrder, t)
  /\ UNCHANGED <<duMemory, duDb, duChanges, duHistory>>

\* it waits for an earlier transaction that removes one of its rows
DuBlocked(t) ==
  \E m, n \in 1..Len(duOrder) :
    /\ m < n /\ duOrder[n] = t
    /\ duSeen[duOrder[m]] \cap duSeen[t] # {}

DuEnd(t) ==
  /\ duSaves' = [duSaves EXCEPT ![t] = DuIdle]
  /\ duOrder' = SelectSeq(duOrder, LAMBDA u : u # t)

DuKeepRows(t) == duDbRows \* mutant
DuOthers(t) == duDbRows \ duSeen[t]

\* INSERT of the partners, read from the memory, and COMMIT; an id that is
\* still there is an error, and rolls back
DuInsertRows(t) ==
  LET r == duSaves[t].ref
      rows == DuRowsOf(r)
  IN  /\ duSaves[t].step = "deleted" /\ ~DuBlocked(t)
      /\ \A row \in rows, other \in DuOthers(t) : row.id # other.id
      /\ duDbRows' = DuOthers(t) \cup rows
      /\ duSeen' = [u \in DuThreads |-> IF u = t THEN {}
                                        ELSE duSeen[u] \ duSeen[t]]
      /\ duAck' = [duAck EXCEPT ![r] = rows]
      /\ duWanted' = duWanted \cup
                       {<<r, row.id>> : row \in {x \in rows : r \in duRefs}}
      /\ DuEnd(t)
      /\ UNCHANGED <<duMemory, duDbRefs, duChanges, duCreated, duOverlap,
                     duLoadFailed>>

DuLeftDeleted(t) == duDbRows \ duSeen[t] \* mutant
DuRolledBack(t) == duDbRows

\* any error of the database, or that one: tx.Rollback
DuRollback(t) ==
  /\ duSaves[t].step \in {"checked", "deleted"} /\ ~DuBlocked(t)
  /\ duDbRows' = DuRolledBack(t)
  /\ duSeen' = [duSeen EXCEPT ![t] = {}]
  /\ DuEnd(t)
  /\ UNCHANGED <<duMemory, duDbRefs, duChanges, duHistory>>

-----------------------------------------------------------------------------
\* The process ends, its transactions are rolled back, and it starts again:
\* MemoryReferentials.Load, and PartnerManager.Load for each referential, whose
\* error Referential.Load drops.  It does not start if the first one fails.
DuRestart(failed) ==
  /\ DuChange /\ failed \subseteq duDbRefs
  /\ duRefs' = duDbRefs
  /\ duPartners' = [r \in DuRefs |->
       IF r \in duDbRefs \ failed
       THEN {[id |-> row.id, def |-> row.def] :
               row \in {x \in duDbRows : x.ref = r}}
       ELSE {}]
  /\ duSaves' = [t \in DuThreads |-> DuIdle]
  /\ duSeen' = [t \in DuThreads |-> {}] /\ duOrder' = <<>>
  /\ duLoadFailed' = (duLoadFailed \/ failed # {})
  /\ UNCHANGED <<duDb, duCreated, duAck, duWanted, duOverlap>>

-----------------------------------------------------------------------------
DuNext ==
  \/ \E r \in DuRefs :
       \/ DuCreateReferential(r) \/ DuDeleteReferential(r)
       \/ \E p \in DuPartner : DuSavePartner(r, p) \/ DuDeletePartner(r, p)
       \/ \E t \in DuThreads : DuCheckReferential(t, r)
  \/ \E available \in BOOLEAN : DuSaveReferentials(available)
  \/ \E t \in DuThreads : DuDeleteRows(t) \/ DuInsertRows(t) \/ DuRollback(t)
  \/ \E failed \in SUBSET DuRefs : DuRestart(failed)

DuSpec == DuInit /\ [][DuNext]_duVars

-----------------------------------------------------------------------------
\* As long as no two saves overlapped, a restart loads the partners of the last
\* save that was acknowledged, and the database has no partner of a referential
\* that it has not.
RestoredAsSaved ==
  ~duOverlap =>
    /\ \A r \in duDbRefs : {row \in duDbRows : row.ref = r} = duAck[r]
    /\ \A row \in duDbRows : row.ref \in duDbRefs

\* Even when saves overlap, fail, or the process crashes in one, a partner that
\* a save acknowledged stays in the database until it is deleted, or its
\* referential is; unless a start failed to read it: the error is dropped, and
\* the next save deletes the partners it did not load.
AcknowledgedKept ==
  ~duLoadFailed =>
    \A w \in duWanted : \E row \in duDbRows : w = <<row.ref, row.id>>
=============================================================================
