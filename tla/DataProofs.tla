----------------------------- MODULE DataProofs -----------------------------
(***************************************************************************)
(* Durability and CsvImport, for any number of referentials, partners,     *)
(* loaders, files and rows.                                                *)
(***************************************************************************)
EXTENDS CsvImport, Durability, FiniteSetTheorems, TLAPS

-----------------------------------------------------------------------------
(* The inductive invariant of Durability.                                  *)

DuTypeOK ==
  /\ duRefs \subseteq duCreated /\ duDbRefs \subseteq duCreated
  /\ duCreated \subseteq DuRefs
  /\ duPartners \in [DuRefs -> SUBSET DuPartner]
  /\ duDbRows \subseteq DuRow
  /\ duSaves \in [DuThreads -> [step : {"idle"}]
                    \cup [step : {"checked", "deleted"}, ref : duCreated]]
  /\ duSeen \in [DuThreads -> SUBSET DuRow]
  /\ duAck \in [DuRefs -> SUBSET DuRow]
  /\ duWanted \subseteq duCreated \X DuIds
  /\ duOverlap \in BOOLEAN /\ duLoadFailed \in BOOLEAN

\* A save removes rows of its referential only, which is in the database, or
\* was deleted.
DuSaveOK(t) ==
  /\ duSaves[t].step # "deleted" => duSeen[t] = {}
  /\ \A row \in duSeen[t] : row.ref = duSaves[t].ref
  /\ duSaves[t].step # "idle" /\ duSaves[t].ref \in duRefs =>
       duSaves[t].ref \in duDbRefs

\* Partners that were saved are in the database and in memory.
DuKept ==
  /\ \A w \in duWanted :
       /\ w[1] \in duRefs /\ w[1] \in duDbRefs
       /\ ~duLoadFailed =>
            /\ \E row \in duDbRows : w = <<row.ref, row.id>>
            /\ \E p \in duPartners[w[1]] : p.id = w[2]

DuRowsIn(r) == {row \in duDbRows : row.ref = r}

\* What is true as long as saves do not overlap.
DuApart ==
  /\ \A t, u \in DuSaving : t = u
  /\ \A t \in DuSaving :
       /\ duSaves[t].ref \in duDbRefs
       /\ duSaves[t].step = "deleted" => duSeen[t] = DuRowsIn(duSaves[t].ref)
  /\ \A r \in DuRefs \ duDbRefs : duAck[r] = {}

DuInv ==
  /\ DuTypeOK /\ DuKept
  /\ \A t \in DuThreads : DuSaveOK(t)
  /\ ~duOverlap => DuApart /\ RestoredAsSaved

-----------------------------------------------------------------------------
(* Saves of the model in memory to the database.                           *)

\* What a step leaves of the invariant of the save requests, when it leaves
\* them and their DELETEs as they are.
LEMMA DuMemoryStep ==
  ASSUME DuInv,
         \/ \E r \in DuRefs : DuCreateReferential(r) \/ DuDeleteReferential(r)
         \/ \E r \in DuRefs, p \in DuPartner : DuSavePartner(r, p) \/ DuDeletePartner(r, p)
  PROVE  DuInv'
<1>1. /\ DuTypeOK /\ DuKept /\ \A t \in DuThreads : DuSaveOK(t)
      /\ ~duOverlap => DuApart /\ RestoredAsSaved
  BY DEF DuInv
<1>2. UNCHANGED <<duDbRefs, duDbRows, duSaves, duSeen, duAck, duOverlap, duLoadFailed>>
  BY DEF DuCreateReferential, DuDeleteReferential, DuSavePartner, DuDeletePartner,
         duDb, duTxs, duHistory
<1>3. ~duOverlap' => DuApart' /\ RestoredAsSaved'
  BY <1>1, <1>2 DEF DuApart, RestoredAsSaved, DuSaving, DuRowsIn
<1>4. ASSUME NEW r \in DuRefs, DuCreateReferential(r) PROVE DuInv'
  <2>1. /\ r \notin duCreated
        /\ duRefs' = duRefs \cup {r} /\ duCreated' = duCreated \cup {r}
        /\ UNCHANGED <<duPartners, duWanted>>
    BY <1>4 DEF DuCreateReferential
  <2>2. DuTypeOK'
    <3>1. duSaves \in [DuThreads -> [step : {"idle"}]
            \cup [step : {"checked", "deleted"}, ref : duCreated \cup {r}]]
      BY <1>1 DEF DuTypeOK
    <3> QED
      BY <1>1, <1>2, <2>1, <3>1 DEF DuTypeOK
  <2>3. DuKept'
    BY <1>1, <1>2, <2>1 DEF DuKept
  <2>4. ASSUME NEW t \in DuThreads PROVE DuSaveOK(t)'
    <3>1. duSaves[t].step # "idle" => duSaves[t].ref \in duCreated
      BY <1>1 DEF DuTypeOK
    <3> QED
      BY <1>1, <1>2, <2>1, <3>1 DEF DuSaveOK
  <2> QED
    BY <1>3, <2>2, <2>3, <2>4 DEF DuInv
<1>5. ASSUME NEW r \in DuRefs, DuDeleteReferential(r) PROVE DuInv'
  <2>1. /\ duRefs' = duRefs \ {r} /\ duWanted' = {w \in duWanted : w[1] # r}
        /\ UNCHANGED <<duPartners, duCreated>>
    BY <1>5 DEF DuDeleteReferential
  <2>2. DuTypeOK' /\ DuKept'
    BY <1>1, <1>2, <2>1 DEF DuTypeOK, DuKept
  <2>3. \A t \in DuThreads : DuSaveOK(t)'
    BY <1>1, <1>2, <2>1 DEF DuSaveOK
  <2> QED
    BY <1>3, <2>2, <2>3 DEF DuInv
<1>6. ASSUME NEW r \in DuRefs, NEW p \in DuPartner,
             DuSavePartner(r, p) \/ DuDeletePartner(r, p)
      PROVE  DuInv'
  <2>1. UNCHANGED <<duRefs, duCreated>>
    BY <1>6 DEF DuSavePartner, DuDeletePartner, duHistory
  <2>2. PICK ps \in SUBSET DuPartner :
          /\ duPartners' = [duPartners EXCEPT ![r] = ps]
          /\ duWanted' \subseteq duWanted
          /\ \A i : (<<r, i>> \in duWanted' /\ (\E x \in duPartners[r] : x.id = i))
                 => \E q \in ps : q.id = i
    <3>1. duPartners[r] \subseteq DuPartner /\ p.id \in DuIds
      BY <1>1 DEF DuTypeOK, DuPartner
    <3>2. CASE DuSavePartner(r, p)
      <4> DEFINE ps == {q \in duPartners[r] : q.id # p.id} \cup {p}
      <4>1. duPartners' = [duPartners EXCEPT ![r] = ps] /\ duWanted' = duWanted
        BY <3>2 DEF DuSavePartner, duHistory
      <4>2. ps \in SUBSET DuPartner
        BY <3>1
      <4>3. \A i : (\E x \in duPartners[r] : x.id = i) => \E q \in ps : q.id = i
        OBVIOUS
      <4> HIDE DEF ps
      <4> QED
        BY <4>1, <4>2, <4>3
    <3>3. CASE DuDeletePartner(r, p)
      <4> DEFINE ps == duPartners[r] \ {p}
      <4>1. /\ duPartners' = [duPartners EXCEPT ![r] = ps]
            /\ duWanted' = duWanted \ {<<r, p.id>>}
        BY <3>3 DEF DuDeletePartner
      <4>2. \A i : (<<r, i>> \in duWanted' /\ (\E x \in duPartners[r] : x.id = i))
               => \E q \in ps : q.id = i
        BY <4>1
      <4>3. ps \in SUBSET DuPartner
        BY <3>1
      <4> HIDE DEF ps
      <4> QED
        BY <4>1, <4>2, <4>3
    <3> QED
      BY <1>6, <3>2, <3>3
  <2>3. DuTypeOK'
    BY <1>1, <1>2, <2>1, <2>2 DEF DuTypeOK
  <2>4. DuKept'
    <3> SUFFICES ASSUME NEW w \in duWanted'
                 PROVE  /\ w[1] \in duRefs /\ w[1] \in duDbRefs
                        /\ ~duLoadFailed =>
                             /\ \E row \in duDbRows : w = <<row.ref, row.id>>
                             /\ \E q \in duPartners'[w[1]] : q.id = w[2]
      BY <1>2, <2>1 DEF DuKept
    <3>1. w \in duWanted /\ w = <<w[1], w[2]>> /\ w[1] \in DuRefs
      BY <1>1, <2>2 DEF DuTypeOK
    <3> QED
      BY <1>1, <2>2, <3>1 DEF DuKept, DuTypeOK
  <2>5. \A t \in DuThreads : DuSaveOK(t)'
    BY <1>1, <1>2, <2>1 DEF DuSaveOK
  <2> QED
    BY <1>3, <2>3, <2>4, <2>5 DEF DuInv
<1> QED
  BY <1>4, <1>5, <1>6

\* The save of the referentials.
LEMMA DuSaveReferentialsStep ==
  ASSUME DuInv, NEW available \in BOOLEAN, DuSaveReferentials(available)
  PROVE  DuInv'
<1>1. /\ DuTypeOK /\ DuKept /\ \A t \in DuThreads : DuSaveOK(t)
      /\ ~duOverlap => DuApart /\ RestoredAsSaved
  BY DEF DuInv
<1>2. UNCHANGED <<duRefs, duPartners, duSaves, duSeen, duCreated, duWanted, duLoadFailed>>
  BY DEF DuSaveReferentials, duMemory, duTxs
<1>3. CASE available
  <2>1. /\ duDbRefs' = duRefs /\ duDbRows' = {row \in duDbRows : row.ref \in duRefs}
        /\ duAck' = [r \in DuRefs |-> IF r \in duRefs THEN duAck[r] ELSE {}]
        /\ duOverlap' = (duOverlap \/ DuSaving # {})
    BY <1>3 DEF DuSaveReferentials
  <2>2. DuTypeOK'
    <3>1. duAck' \in [DuRefs -> SUBSET DuRow]
      BY <1>1, <2>1 DEF DuTypeOK
    <3>2. duOverlap' \in BOOLEAN
      BY <1>1, <2>1 DEF DuTypeOK
    <3> QED
      BY <1>1, <1>2, <2>1, <3>1, <3>2 DEF DuTypeOK
  <2>3. DuKept'
    BY <1>1, <1>2, <2>1 DEF DuKept
  <2>4. \A t \in DuThreads : DuSaveOK(t)'
    BY <1>1, <1>2, <2>1 DEF DuSaveOK
  <2>5. ASSUME ~duOverlap' PROVE DuApart' /\ RestoredAsSaved'
    <3>1. DuSaving = {} /\ DuApart /\ RestoredAsSaved /\ ~duOverlap
      BY <1>1, <2>1, <2>5
    <3>2. DuApart'
      BY <1>1, <1>2, <2>1, <3>1 DEF DuApart, DuSaving, DuTypeOK
    <3>3. ASSUME NEW r \in duRefs PROVE {row \in duDbRows' : row.ref = r} = duAck'[r]
      <4>1. duAck'[r] = duAck[r] /\ r \in DuRefs
        BY <1>1, <2>1 DEF DuTypeOK
      <4>2. CASE r \in duDbRefs
        BY <2>1, <3>1, <4>1, <4>2 DEF RestoredAsSaved
      <4>3. CASE r \notin duDbRefs
        BY <2>1, <3>1, <4>1, <4>3 DEF RestoredAsSaved, DuApart
      <4> QED
        BY <4>2, <4>3
    <3>4. RestoredAsSaved'
      BY <2>1, <3>3 DEF RestoredAsSaved
    <3> QED
      BY <3>2, <3>4
  <2> QED
    BY <2>2, <2>3, <2>4, <2>5 DEF DuInv
<1>4. CASE ~available
  <2>1. UNCHANGED <<duDbRefs, duDbRows, duAck, duOverlap>>
    BY <1>4 DEF DuSaveReferentials, duDb
  <2> QED
    BY <1>1, <1>2, <2>1 DEF DuInv, DuTypeOK, DuKept, DuSaveOK, DuApart,
                            RestoredAsSaved, DuSaving, DuRowsIn
<1> QED
  BY <1>3, <1>4

\* The check of the referential, and the DELETE.
LEMMA DuBeginStep ==
  ASSUME DuInv, NEW t \in DuThreads,
         (\E r \in DuRefs : DuCheckReferential(t, r)) \/ DuDeleteRows(t)
  PROVE  DuInv'
<1>1. /\ DuTypeOK /\ DuKept /\ \A u \in DuThreads : DuSaveOK(u)
      /\ ~duOverlap => DuApart /\ RestoredAsSaved
  BY DEF DuInv
<1>2. UNCHANGED <<duRefs, duPartners, duDbRefs, duDbRows, duCreated, duAck,
                  duWanted, duLoadFailed>>
  BY DEF DuCheckReferential, DuDeleteRows, duMemory, duDb, duHistory
<1>3. DuKept'
  BY <1>1, <1>2 DEF DuKept
<1>4. ASSUME NEW r \in DuRefs, DuCheckReferential(t, r) PROVE DuInv'
  <2> DEFINE new == [step |-> "checked", ref |-> r]
  <2>1. /\ r \in duRefs /\ r \in duDbRefs /\ duSeen' = duSeen
        /\ duSaves' = [duSaves EXCEPT ![t] = new]
        /\ duOverlap' = (duOverlap \/ DuSaving # {}) /\ duSaves[t] = DuIdle
    BY <1>4 DEF DuCheckReferential, DuMaySave
  <2>2. new \in [step : {"checked", "deleted"}, ref : duCreated]
        /\ new.step = "checked" /\ new.ref = r
    BY <1>1, <2>1 DEF DuTypeOK
  <2> HIDE DEF new
  <2>3. DuTypeOK'
    BY <1>1, <1>2, <2>1, <2>2 DEF DuTypeOK
  <2>4. ASSUME NEW u \in DuThreads
        PROVE  duSaves'[u] = IF u = t THEN new ELSE duSaves[u]
    BY <1>1, <2>1 DEF DuTypeOK
  <2>5. ~duOverlap' => DuApart' /\ RestoredAsSaved'
    <3> SUFFICES ASSUME ~duOverlap' PROVE DuApart' /\ RestoredAsSaved'
      OBVIOUS
    <3>1. DuSaving = {} /\ DuApart /\ RestoredAsSaved
      BY <1>1, <2>1
    <3>2. DuSaving' = {t}
      BY <2>2, <2>4, <3>1 DEF DuSaving
    <3>3. DuApart'
      BY <1>2, <2>1, <2>2, <2>4, <3>1, <3>2 DEF DuApart
    <3>4. RestoredAsSaved'
      BY <1>2, <2>1, <3>1 DEF RestoredAsSaved
    <3> QED
      BY <3>3, <3>4
  <2>6. ASSUME NEW u \in DuThreads PROVE DuSaveOK(u)'
    <3>1. CASE u = t
      <4>1. duSeen[t] = {}
        BY <1>1, <2>1 DEF DuSaveOK, DuIdle
      <4>2. duSaves'[u] = new /\ duSeen'[u] = {}
        BY <2>1, <2>4, <3>1, <4>1
      <4> QED
        BY <1>2, <2>1, <2>2, <4>2 DEF DuSaveOK
    <3>2. CASE u # t
      BY <1>1, <1>2, <2>1, <2>4, <3>2 DEF DuSaveOK
    <3> QED
      BY <3>1, <3>2
  <2> QED
    BY <1>3, <2>3, <2>5, <2>6 DEF DuInv
<1>5. CASE DuDeleteRows(t)
  <2> DEFINE r == duSaves[t].ref
  <2> DEFINE new == [duSaves[t] EXCEPT !.step = "deleted"]
  <2>1. /\ duSaves[t].step = "checked" /\ duSaves' = [duSaves EXCEPT ![t] = new]
        /\ duSeen' = [duSeen EXCEPT ![t] = DuRowsIn(r)] /\ duOverlap' = duOverlap
    BY <1>5 DEF DuDeleteRows, DuRowsIn, duHistory
  <2>2. /\ new \in [step : {"checked", "deleted"}, ref : duCreated]
        /\ new.step = "deleted" /\ new.ref = r
    <3>1. duSaves[t] \in [step : {"checked", "deleted"}, ref : duCreated]
      BY <1>1, <2>1 DEF DuTypeOK
    <3> QED
      BY <3>1
  <2> HIDE DEF new
  <2>3. DuTypeOK'
    <3>1. DuRowsIn(r) \in SUBSET DuRow
      BY <1>1 DEF DuTypeOK, DuRowsIn
    <3> QED
      BY <1>1, <1>2, <2>1, <2>2, <3>1 DEF DuTypeOK
  <2>4. ASSUME NEW u \in DuThreads
        PROVE  /\ duSaves'[u] = IF u = t THEN new ELSE duSaves[u]
               /\ duSeen'[u] = IF u = t THEN DuRowsIn(r) ELSE duSeen[u]
    BY <1>1, <2>1 DEF DuTypeOK
  <2>5. ASSUME NEW u \in DuThreads PROVE DuSaveOK(u)'
    BY <1>1, <1>2, <2>1, <2>2, <2>4 DEF DuSaveOK, DuRowsIn
  <2>6. ASSUME ~duOverlap' PROVE DuApart' /\ RestoredAsSaved'
    <3>1. DuApart /\ RestoredAsSaved
      BY <1>1, <2>1, <2>6
    <3>2. DuSaving' = DuSaving /\ t \in DuSaving
      BY <2>1, <2>2, <2>4 DEF DuSaving
    <3>3. DuSaving' = {t}
      BY <3>1, <3>2 DEF DuApart
    <3>4. ASSUME NEW x PROVE DuRowsIn(x)' = DuRowsIn(x)
      BY <1>2 DEF DuRowsIn
    <3>5. r \in duDbRefs
      BY <3>1, <3>2 DEF DuApart
    <3>6. DuApart'
      BY <1>2, <2>2, <2>4, <3>1, <3>3, <3>4, <3>5 DEF DuApart
    <3>7. RestoredAsSaved'
      BY <1>2, <2>1, <3>1 DEF RestoredAsSaved
    <3> QED
      BY <3>6, <3>7
  <2> QED
    BY <1>3, <2>3, <2>5, <2>6 DEF DuInv
<1> QED
  BY <1>4, <1>5

\* The INSERTs and the COMMIT, or the rollback.
LEMMA DuEndStep ==
  ASSUME DuInv, NEW t \in DuThreads, DuInsertRows(t) \/ DuRollback(t)
  PROVE  DuInv'
<1>1. /\ DuTypeOK /\ DuKept /\ \A u \in DuThreads : DuSaveOK(u)
      /\ ~duOverlap => DuApart /\ RestoredAsSaved
  BY DEF DuInv
<1>2. /\ UNCHANGED <<duRefs, duPartners, duDbRefs, duCreated, duOverlap,
                     duLoadFailed>>
      /\ duSaves' = [duSaves EXCEPT ![t] = DuIdle]
      /\ duSaves[t].step \in {"checked", "deleted"}
  BY DEF DuInsertRows, DuRollback, DuEnd, duMemory, duHistory
<1>3. DuIdle.step = "idle" /\ DuIdle \in [step : {"idle"}]
  BY DEF DuIdle
<1>4. ASSUME NEW u \in DuThreads
      PROVE  duSaves'[u] = IF u = t THEN DuIdle ELSE duSaves[u]
  BY <1>1, <1>2 DEF DuTypeOK
<1>5. /\ t \in DuSaving /\ DuSaving' = DuSaving \ {t}
  BY <1>2, <1>3, <1>4 DEF DuSaving
<1>6. ~duOverlap => DuSaving = {t} /\ DuSaving' = {}
  BY <1>1, <1>5 DEF DuApart
<1>7. duSaves' \in [DuThreads -> [step : {"idle"}]
                      \cup [step : {"checked", "deleted"}, ref : duCreated]]
  BY <1>1, <1>2, <1>3 DEF DuTypeOK
<1>8. CASE DuRollback(t)
  <2>1. /\ UNCHANGED <<duDbRows, duAck, duWanted>>
        /\ duSeen' = [duSeen EXCEPT ![t] = {}]
    BY <1>8 DEF DuRollback, DuRolledBack, duHistory
  <2>2. DuTypeOK' /\ DuKept'
    BY <1>1, <1>2, <1>7, <2>1 DEF DuTypeOK, DuKept
  <2>3. ASSUME NEW u \in DuThreads PROVE DuSaveOK(u)'
    <3>1. duSeen'[u] = IF u = t THEN {} ELSE duSeen[u]
      BY <1>1, <2>1 DEF DuTypeOK
    <3> QED
      BY <1>1, <1>2, <1>3, <1>4, <3>1 DEF DuSaveOK
  <2>4. ASSUME ~duOverlap' PROVE DuApart' /\ RestoredAsSaved'
    BY <1>1, <1>2, <1>6, <2>1, <2>4 DEF DuApart, RestoredAsSaved
  <2> QED
    BY <2>2, <2>3, <2>4 DEF DuInv
<1>9. CASE DuInsertRows(t)
  <2> DEFINE r == duSaves[t].ref
  <2> DEFINE rows == DuRowsOf(r)
  <2> DEFINE fresh == {<<r, row.id>> : row \in {x \in rows : r \in duRefs}}
  <2>1. /\ duSaves[t].step = "deleted"
        /\ duDbRows' = (duDbRows \ duSeen[t]) \cup rows
        /\ duSeen' = [u \in DuThreads |-> IF u = t THEN {}
                                          ELSE duSeen[u] \ duSeen[t]]
        /\ duAck' = [duAck EXCEPT ![r] = rows]
        /\ duWanted' = duWanted \cup fresh
    BY <1>9 DEF DuInsertRows, DuOthers
  <2>2. r \in duCreated /\ r \in DuRefs
    BY <1>1, <1>2 DEF DuTypeOK
  <2>3. /\ rows \subseteq DuRow /\ \A row \in rows : row.ref = r
        /\ \A p \in duPartners[r] : \E row \in rows : row.id = p.id
        /\ \A row \in rows : \E p \in duPartners[r] : row.id = p.id
    <3>1. duPartners[r] \subseteq DuPartner
      BY <1>1, <2>2 DEF DuTypeOK
    <3>2. ASSUME NEW p \in duPartners[r]
          PROVE  /\ DuRowOf(r, p) \in DuRow /\ DuRowOf(r, p).ref = r
                 /\ DuRowOf(r, p).id = p.id
      BY <2>2, <3>1, <3>2 DEF DuRowOf, DuRow, DuPartner
    <3>3. rows = {DuRowOf(r, p) : p \in duPartners[r]}
      BY DEF DuRowsOf
    <3> HIDE DEF rows, r
    <3> QED
      BY <3>2, <3>3
  <2>4. \A row \in duSeen[t] : row.ref = r
    BY <1>1, <1>2 DEF DuSaveOK
  <2>5. r \in duRefs => r \in duDbRefs
    BY <1>1, <1>2 DEF DuSaveOK
  <2> HIDE DEF r, rows
  <2>6. fresh \subseteq duCreated \X DuIds
    BY <2>2, <2>3 DEF DuRow
  <2>7. DuTypeOK'
    <3>1. duSeen' \in [DuThreads -> SUBSET DuRow]
      BY <1>1, <2>1 DEF DuTypeOK
    <3>2. duAck' \in [DuRefs -> SUBSET DuRow]
      BY <1>1, <2>1, <2>3 DEF DuTypeOK
    <3> QED
      BY <1>1, <1>2, <1>7, <2>1, <2>3, <2>6, <3>1, <3>2 DEF DuTypeOK
  <2>8. DuKept'
    <3>1. ASSUME NEW w \in fresh
          PROVE  /\ w[1] \in duRefs /\ w[1] \in duDbRefs
                 /\ \E row \in duDbRows' : w = <<row.ref, row.id>>
                 /\ \E p \in duPartners[w[1]] : p.id = w[2]
      <4>1. PICK row \in rows : w = <<r, row.id>> /\ r \in duRefs
        OBVIOUS
      <4> QED
        BY <2>1, <2>3, <2>5, <4>1
    <3>2. ASSUME NEW w \in duWanted, ~duLoadFailed
          PROVE  \E row \in duDbRows' : w = <<row.ref, row.id>>
      <4>1. PICK row \in duDbRows : w = <<row.ref, row.id>>
        BY <1>1, <3>2 DEF DuKept
      <4>2. CASE row \in duSeen[t]
        <5>1. w[1] = r /\ w = <<w[1], w[2]>>
          BY <2>4, <4>1, <4>2
        <5>2. PICK p \in duPartners[r] : p.id = w[2]
          BY <1>1, <3>2, <5>1 DEF DuKept
        <5>3. PICK other \in rows : other.id = p.id
          BY <2>3
        <5> QED
          BY <2>1, <2>3, <5>1, <5>2, <5>3
      <4>3. CASE row \notin duSeen[t]
        BY <2>1, <4>1, <4>3
      <4> QED
        BY <4>2, <4>3
    <3> HIDE DEF fresh
    <3> QED
      BY <1>1, <1>2, <2>1, <3>1, <3>2 DEF DuKept
  <2>9. ASSUME NEW u \in DuThreads PROVE DuSaveOK(u)'
    <3>1. duSeen'[u] = IF u = t THEN {} ELSE duSeen[u] \ duSeen[t]
      BY <2>1
    <3> QED
      BY <1>1, <1>2, <1>3, <1>4, <3>1 DEF DuSaveOK
  <2>10. ASSUME ~duOverlap' PROVE DuApart' /\ RestoredAsSaved'
    <3>1. /\ DuApart /\ RestoredAsSaved /\ ~duOverlap
          /\ r \in duDbRefs /\ duSeen[t] = DuRowsIn(r)
      BY <1>1, <1>2, <1>5, <2>1, <2>10 DEF DuApart, r
    <3>2. DuApart'
      BY <1>1, <1>2, <1>6, <2>1, <2>2, <3>1 DEF DuApart, DuTypeOK
    <3>3. ASSUME NEW x \in duDbRefs
          PROVE  {row \in duDbRows' : row.ref = x} = duAck'[x]
      <4>1. x \in DuRefs /\ {row \in duDbRows : row.ref = x} = duAck[x]
        BY <1>1, <3>1 DEF RestoredAsSaved, DuTypeOK
      <4>2. CASE x = r
        BY <1>1, <2>1, <2>2, <2>3, <3>1, <4>2 DEF DuRowsIn, DuTypeOK
      <4>3. CASE x # r
        BY <1>1, <2>1, <2>2, <2>3, <2>4, <4>1, <4>3 DEF DuTypeOK
      <4> QED
        BY <4>2, <4>3
    <3>4. RestoredAsSaved'
      BY <1>2, <2>1, <2>3, <3>1, <3>3 DEF RestoredAsSaved
    <3> QED
      BY <3>2, <3>4
  <2> QED
    BY <2>7, <2>8, <2>9, <2>10 DEF DuInv
<1> QED
  BY <1>8, <1>9

\* The end of the process, and its start.
LEMMA DuRestartStep ==
  ASSUME DuInv, NEW failed \in SUBSET DuRefs, DuRestart(failed)
  PROVE  DuInv'
<1>1. /\ DuTypeOK /\ DuKept
      /\ ~duOverlap => DuApart /\ RestoredAsSaved
  BY DEF DuInv
<1> DEFINE read(r) == {[id |-> row.id, def |-> row.def] : row \in DuRowsIn(r)}
<1>2. /\ duRefs' = duDbRefs
      /\ duPartners' = [r \in DuRefs |-> IF r \in duDbRefs \ failed
                                         THEN read(r) ELSE {}]
      /\ duSaves' = [t \in DuThreads |-> DuIdle]
      /\ duSeen' = [t \in DuThreads |-> {}]
      /\ duLoadFailed' = (duLoadFailed \/ failed # {})
      /\ UNCHANGED <<duDbRefs, duDbRows, duCreated, duAck, duWanted, duOverlap>>
  BY DEF DuRestart, DuRowsIn, duDb
<1>3. DuIdle.step = "idle" /\ DuIdle \in [step : {"idle"}]
  BY DEF DuIdle
<1>4. ASSUME NEW r \in DuRefs
      PROVE  /\ read(r) \subseteq DuPartner
             /\ \A row \in duDbRows : row.ref = r => \E p \in read(r) : p.id = row.id
  <2>1. ASSUME NEW row \in DuRowsIn(r)
        PROVE  /\ [id |-> row.id, def |-> row.def] \in DuPartner
               /\ [id |-> row.id, def |-> row.def].id = row.id
    BY <1>1, <2>1 DEF DuRowsIn, DuTypeOK, DuRow, DuPartner
  <2> QED
    BY <2>1 DEF DuRowsIn
<1> HIDE DEF read
<1>5. DuTypeOK'
  <2>1. duPartners' \in [DuRefs -> SUBSET DuPartner]
    BY <1>2, <1>4
  <2>2. duLoadFailed' \in BOOLEAN
    BY <1>1, <1>2 DEF DuTypeOK
  <2> QED
    BY <1>1, <1>2, <1>3, <2>1, <2>2 DEF DuTypeOK
<1>6. DuKept'
  <2>1. ASSUME NEW w \in duWanted, ~duLoadFailed'
        PROVE  \E p \in duPartners'[w[1]] : p.id = w[2]
    <3>1. failed = {} /\ ~duLoadFailed /\ w[1] \in duDbRefs /\ w[1] \in DuRefs
      BY <1>1, <1>2, <2>1 DEF DuKept, DuTypeOK
    <3>2. PICK row \in duDbRows : w = <<row.ref, row.id>>
      BY <1>1, <3>1 DEF DuKept
    <3> QED
      BY <1>2, <1>4, <3>1, <3>2
  <2> QED
    BY <1>1, <1>2, <2>1 DEF DuKept
<1>7. \A t \in DuThreads : DuSaveOK(t)'
  BY <1>2, <1>3 DEF DuSaveOK
<1>8. ~duOverlap' => DuApart' /\ RestoredAsSaved'
  BY <1>1, <1>2, <1>3 DEF DuApart, RestoredAsSaved, DuSaving
<1> QED
  BY <1>5, <1>6, <1>7, <1>8 DEF DuInv

-----------------------------------------------------------------------------
(* The theorems about Durability.                                          *)

\* Nothing in memory, nothing in the database.
LEMMA DuInitInv ==
  ASSUME DuInit PROVE DuInv
<1>1. DuTypeOK
  BY DEF DuInit, DuTypeOK, DuIdle
<1>2. DuKept /\ \A t \in DuThreads : DuSaveOK(t)
  BY DEF DuInit, DuKept, DuSaveOK, DuIdle
<1>3. DuApart /\ RestoredAsSaved
  BY DEF DuInit, DuApart, RestoredAsSaved, DuSaving, DuIdle
<1> QED
  BY <1>1, <1>2, <1>3 DEF DuInv

\* Every step keeps the invariant.
LEMMA DuNextInv ==
  ASSUME DuInv, [DuNext]_duVars PROVE DuInv'
<1>1. CASE UNCHANGED duVars
  BY <1>1 DEF duVars, duMemory, duDb, duTxs, duHistory, DuInv, DuTypeOK, DuKept,
              DuSaveOK, DuApart, RestoredAsSaved, DuSaving, DuRowsIn
<1>2. ASSUME NEW r \in DuRefs, NEW t \in DuThreads, DuCheckReferential(t, r)
      PROVE  DuInv'
  BY <1>2, DuBeginStep
<1> QED
  BY <1>1, <1>2, DuMemoryStep, DuSaveReferentialsStep, DuBeginStep, DuEndStep,
     DuRestartStep DEF DuNext

\* The invariant of the saves: they may overlap, fail or be cut off.
THEOREM DurabilityInvariance == DuSpec => []DuInv
<1>1. DuInit => DuInv
  BY DuInitInv
<1>2. DuInv /\ [DuNext]_duVars => DuInv'
  BY DuNextInv
<1> QED
  BY <1>1, <1>2, PTL DEF DuSpec

\* A partner that a save acknowledged stays in the database until it is deleted
\* or its referential is, unless a start failed to read partners: a DELETE takes
\* no row of another referential, and the INSERTs come from a memory that has
\* every partner that was saved.
THEOREM AcknowledgedStays == DuSpec => []AcknowledgedKept
<1>1. DuInv => AcknowledgedKept
  BY DEF DuInv, DuKept, AcknowledgedKept
<1> QED
  BY <1>1, DurabilityInvariance, PTL

\* A restart loads what was saved last, as long as saves did not overlap.
THEOREM SavedIsRestored == DuSpec => []RestoredAsSaved
<1>1. DuInv => RestoredAsSaved
  BY DEF DuInv, RestoredAsSaved
<1> QED
  BY <1>1, DurabilityInvariance, PTL
-----------------------------------------------------------------------------
(* The inductive invariant of CsvImport.                                   *)

CsvTypes ==
  /\ csvDb \in [CsvTables -> SUBSET CsvRow]
  /\ csvPc \in [CsvLoaders -> {"idle", "read", "buffer", "insert", "done"}]
  /\ csvFile \in [CsvLoaders -> CsvFiles \cup {<<>>}]
  /\ csvAt \in [CsvLoaders -> Nat \ {0}]
  /\ csvForce \in [CsvLoaders -> BOOLEAN]
  /\ csvDeleted \in [CsvLoaders -> SUBSET (CsvTables \X CsvDates)]
  /\ csvBuffer \in [CsvLoaders -> [CsvTables -> Seq(CsvRow)]]
  /\ csvErrors \in [CsvLoaders -> Nat]
  /\ csvImported \in [CsvLoaders -> [CsvTables -> Nat]]
  /\ csvAlone \in [CsvLoaders -> BOOLEAN]
  /\ csvBefore \in [CsvLoaders -> [CsvTables -> SUBSET CsvRow]]

CsvModelTypes ==
  /\ csvImports \in 0..CsvMaxImports
  /\ csvToday \in CsvDates \cup {0} /\ csvModel \in [CsvTables -> SUBSET CsvIds]
  /\ csvToLoad \subseteq CsvTables /\ csvSteady \in BOOLEAN

\* Where a loader is in its file, and which buffers are full.
CsvLoaderOK(l) ==
  /\ csvAt[l] <= Len(csvFile[l]) + 1
  /\ csvPc[l] = "buffer" => csvAt[l] <= Len(csvFile[l]) /\ Current(l).ok
  /\ csvPc[l] = "done" => csvAt[l] > Len(csvFile[l]) /\ NothingLeft(l)
  /\ \A t \in CsvTables : Full(Len(csvBuffer[l][t])) =>
       /\ csvPc[l] = "insert"
       /\ \A u \in CsvTables : Full(Len(csvBuffer[l][u])) => u = t

\* The rows that were read, that the import left, and that it added.
CsvRead(l, t) ==
  {csvFile[l][n].row : n \in {m \in 1..(csvAt[l] - 1) :
                                csvFile[l][m].table = t}}
CsvLeft(l, t) ==
  {row \in csvBefore[l][t] : <<t, row.date>> \notin csvDeleted[l]}
CsvAdded(l, t) == csvDb[t] \ CsvLeft(l, t)

\* The models a loader deleted are the ones of the rows that it read, and of
\* the one it is about to buffer.
CsvDeletedOK(l) ==
  /\ \A d \in csvDeleted[l] :
       /\ csvForce[l]
       /\ \/ \E row \in CsvRead(l, d[1]) : row.date = d[2]
          \/ /\ csvPc[l] = "buffer" /\ d[1] = Current(l).table
             /\ d[2] = Current(l).row.date
  /\ csvForce[l] =>
       /\ \A t \in CsvTables : \A row \in CsvRead(l, t) :
            <<t, row.date>> \in csvDeleted[l]
       /\ csvPc[l] = "buffer" =>
            <<Current(l).table, Current(l).row.date>> \in csvDeleted[l]

CsvExactly(l, t) ==
  /\ CsvLeft(l, t) \subseteq csvDb[t]
  /\ CsvAdded(l, t) \cup CsvRange(csvBuffer[l][t]) = CsvRead(l, t)
  /\ IsFiniteSet(CsvAdded(l, t))
  /\ csvImported[l][t] = Cardinality(CsvAdded(l, t))

CsvNoError(l) == csvPc[l] # "idle" /\ csvErrors[l] = 0 /\ csvAlone[l]

\* An import without error, while nothing else writes.
CsvLoaderExact(l) ==
  CsvNoError(l) =>
    /\ \A n \in 1..(csvAt[l] - 1) : csvFile[l][n].ok
    /\ CsvDeletedOK(l)
    /\ \A t \in CsvTables : CsvExactly(l, t)

\* The stores that a load has read, as long as nothing wrote.
CsvModelOK ==
  csvSteady /\ csvToday # 0 =>
    \A t \in CsvTables \ (csvToLoad \cup {"stop_visit"}) :
      csvModel[t] = {row.id : row \in {r \in csvDb[t] : r.date = csvToday}}

CsvInv ==
  /\ CsvTypes /\ CsvModelTypes /\ CsvModelOK
  /\ \A l \in CsvLoaders : CsvLoaderOK(l) /\ CsvLoaderExact(l)

-----------------------------------------------------------------------------
(* Facts about files, buffers and loaders.                                 *)

\* The records of the file of a loader.
LEMMA CsvFileRecords ==
  ASSUME CsvTypes, NEW l \in CsvLoaders
  PROVE  /\ Len(csvFile[l]) \in Nat
         /\ \A n \in 1..Len(csvFile[l]) :
              /\ csvFile[l][n].table \in CsvTables
              /\ csvFile[l][n].row \in CsvRow
              /\ csvFile[l][n].row.date \in CsvDates
<1>1. csvFile[l] \in Seq(CsvRecord)
  <2>1. csvFile[l] \in CsvFiles \/ csvFile[l] = <<>>
    BY DEF CsvTypes
  <2>2. <<>> \in Seq(CsvRecord)
    OBVIOUS
  <2> QED
    BY <2>1, <2>2, CsvAssumption, Zenon
<1>2. \A n \in 1..Len(csvFile[l]) : csvFile[l][n] \in CsvRecord
  BY <1>1
<1> QED
  BY <1>1, <1>2 DEF CsvRecord, CsvRow

\* The rows of a buffer when one joins it.
LEMMA CsvRangeAppend ==
  ASSUME NEW rows \in Seq(CsvRow), NEW row \in CsvRow
  PROVE  /\ Append(rows, row) \in Seq(CsvRow)
         /\ Len(Append(rows, row)) = Len(rows) + 1
         /\ CsvRange(Append(rows, row)) = CsvRange(rows) \cup {row}
<1>1. Append(rows, row) \in Seq(CsvRow) /\ Len(Append(rows, row)) = Len(rows) + 1
  OBVIOUS
<1>2. /\ \A n \in 1..Len(rows) : Append(rows, row)[n] = rows[n]
      /\ Append(rows, row)[Len(rows) + 1] = row
  OBVIOUS
<1>3. Len(rows) \in Nat
  OBVIOUS
<1>4. 1..(Len(rows) + 1) = (1..Len(rows)) \cup {Len(rows) + 1}
  BY <1>3
<1> QED
  BY <1>1, <1>2, <1>4, Zenon DEF CsvRange

\* The rows of a buffer are finitely many.
LEMMA CsvRangeFinite ==
  ASSUME NEW rows \in Seq(CsvRow)
  PROVE  IsFiniteSet(CsvRange(rows)) /\ CsvRange(rows) \subseteq CsvRow
<1>1. Len(rows) \in Nat /\ \A n \in 1..Len(rows) : rows[n] \in CsvRow
  OBVIOUS
<1>2. IsFiniteSet(1..Len(rows))
  BY <1>1, FS_Interval
<1>3. [n \in 1..Len(rows) |-> rows[n]] \in Surjection(1..Len(rows), CsvRange(rows))
  BY Zenon DEF CsvRange, Surjection
<1>4. IsFiniteSet(CsvRange(rows))
  BY <1>2, <1>3, FS_Surjection
<1> QED
  BY <1>1, <1>4 DEF CsvRange

\* The rows that were read when the next record is.
LEMMA CsvReadNext ==
  ASSUME NEW l, csvAt[l] \in Nat \ {0},
         csvFile'[l] = csvFile[l], csvAt'[l] = csvAt[l] + 1
  PROVE  /\ \A t : CsvRead(l, t)' =
              CsvRead(l, t) \cup {x \in {Current(l).row} : Current(l).table = t}
         /\ (\A n \in 1..(csvAt[l] - 1) : csvFile[l][n].ok) /\ Current(l).ok
              => \A n \in 1..(csvAt'[l] - 1) : csvFile'[l][n].ok
<1>1. 1..(csvAt'[l] - 1) = (1..(csvAt[l] - 1)) \cup {csvAt[l]}
  OBVIOUS
<1> QED
  BY <1>1, Zenon DEF CsvRead, Current

\* A step of another loader leaves k as it is, or ends its being alone.
CsvSame(k) ==
  /\ csvPc'[k] = csvPc[k] /\ csvFile'[k] = csvFile[k] /\ csvAt'[k] = csvAt[k]
  /\ csvForce'[k] = csvForce[k] /\ csvDeleted'[k] = csvDeleted[k]
  /\ csvBuffer'[k] = csvBuffer[k] /\ csvErrors'[k] = csvErrors[k]
  /\ csvImported'[k] = csvImported[k] /\ csvBefore'[k] = csvBefore[k]
  /\ \/ csvDb' = csvDb /\ csvAlone'[k] = csvAlone[k]
     \/ csvAlone'[k] => csvPc[k] = "idle"

\* Such a step keeps the invariant of k.
LEMMA CsvSameStep ==
  ASSUME NEW k, CsvLoaderOK(k), CsvLoaderExact(k), CsvSame(k)
  PROVE  CsvLoaderOK(k)' /\ CsvLoaderExact(k)'
<1>1. /\ csvPc'[k] = csvPc[k] /\ csvFile'[k] = csvFile[k] /\ csvAt'[k] = csvAt[k]
      /\ csvForce'[k] = csvForce[k] /\ csvDeleted'[k] = csvDeleted[k]
      /\ csvBuffer'[k] = csvBuffer[k] /\ csvErrors'[k] = csvErrors[k]
      /\ csvImported'[k] = csvImported[k] /\ csvBefore'[k] = csvBefore[k]
  BY DEF CsvSame
<1>2. CsvLoaderOK(k)'
  BY <1>1 DEF CsvLoaderOK, Current, NothingLeft
<1>3. CsvLoaderExact(k)'
  <2> SUFFICES ASSUME CsvNoError(k)' PROVE CsvLoaderExact(k)'
    BY DEF CsvLoaderExact
  <2>1. csvDb' = csvDb /\ csvAlone'[k] = csvAlone[k]
    BY <1>1 DEF CsvSame, CsvNoError
  <2>2. CsvNoError(k)
    BY <1>1, <2>1 DEF CsvNoError
  <2>3. \A t : CsvRead(k, t)' = CsvRead(k, t)
    BY <1>1 DEF CsvRead
  <2>4. Current(k)' = Current(k)
    BY <1>1 DEF Current
  <2>5. \A t : CsvLeft(k, t)' = CsvLeft(k, t)
    BY <1>1 DEF CsvLeft
  <2>6. \A t : CsvAdded(k, t)' = CsvAdded(k, t)
    BY <2>1, <2>5 DEF CsvAdded
  <2>7. CsvDeletedOK(k)'
    BY <1>1, <2>2, <2>3, <2>4 DEF CsvLoaderExact, CsvDeletedOK
  <2>8. \A t \in CsvTables : CsvExactly(k, t)'
    BY <1>1, <2>1, <2>2, <2>3, <2>5, <2>6 DEF CsvLoaderExact, CsvExactly
  <2> QED
    BY <1>1, <2>2, <2>7, <2>8 DEF CsvLoaderExact
<1> QED
  BY <1>2, <1>3

\* What the model is, when a step leaves it.
LEMMA CsvModelSame ==
  ASSUME CsvModelTypes, CsvModelOK, csvImports' \in 0..CsvMaxImports,
         UNCHANGED csvModelVars,
         (UNCHANGED <<csvDb, csvSteady>>) \/ csvSteady' = FALSE
  PROVE  CsvModelTypes' /\ CsvModelOK'
<1>1. UNCHANGED <<csvToday, csvModel, csvToLoad>>
  BY DEF csvModelVars
<1>2. CsvModelTypes'
  BY <1>1 DEF CsvModelTypes
<1>3. CASE UNCHANGED <<csvDb, csvSteady>>
  BY <1>1, <1>2, <1>3 DEF CsvModelOK
<1>4. CASE csvSteady' = FALSE
  BY <1>2, <1>4 DEF CsvModelOK
<1> QED
  BY <1>3, <1>4

-----------------------------------------------------------------------------
(* The records of a file.                                                  *)

\* A record that is in error, or whose DELETE is.
LEMMA CsvErrStep ==
  ASSUME CsvInv, NEW l \in CsvLoaders, csvPc[l] = "read",
         csvAt[l] <= Len(csvFile[l]), Err(l),
         NEW deleted \in SUBSET (CsvTables \X CsvDates),
         csvDeleted' = [csvDeleted EXCEPT ![l] = deleted]
  PROVE  CsvInv'
<1>1. /\ CsvTypes /\ CsvModelTypes /\ CsvModelOK
      /\ \A k \in CsvLoaders : CsvLoaderOK(k) /\ CsvLoaderExact(k)
  BY DEF CsvInv
<1>2. /\ UNCHANGED <<csvDb, csvPc, csvFile, csvForce, csvBuffer, csvImported,
                     csvAlone, csvBefore, csvImports, csvModelVars, csvSteady>>
      /\ csvErrors' = [csvErrors EXCEPT ![l] = @ + 1]
      /\ csvAt' = [csvAt EXCEPT ![l] = @ + 1]
  BY DEF Err
<1>3. CsvTypes'
  BY <1>1, <1>2 DEF CsvTypes
<1>4. CsvModelTypes' /\ CsvModelOK'
  BY <1>1, <1>2, CsvModelSame DEF CsvModelTypes
<1>5. ASSUME NEW k \in CsvLoaders, k # l PROVE CsvSame(k)
  BY <1>1, <1>2, <1>5 DEF CsvSame, CsvTypes
<1>6. csvAt'[l] = csvAt[l] + 1 /\ csvErrors'[l] = csvErrors[l] + 1
      /\ csvAt[l] \in Nat /\ csvErrors[l] \in Nat
  BY <1>1, <1>2 DEF CsvTypes
<1>7. CsvLoaderOK(l)'
  <2>1. Len(csvFile[l]) \in Nat
    BY <1>1, CsvFileRecords
  <2> QED
    BY <1>1, <1>2, <1>6, <2>1 DEF CsvLoaderOK
<1>8. CsvLoaderExact(l)'
  BY <1>6 DEF CsvLoaderExact, CsvNoError
<1> QED
  BY <1>1, <1>3, <1>4, <1>5, <1>7, <1>8, CsvSameStep DEF CsvInv

\* The rows of the model of a record are deleted.
LEMMA CsvForceStep ==
  ASSUME CsvInv, NEW l \in CsvLoaders, csvAt[l] <= Len(csvFile[l]),
         Current(l).ok, HandleForce(l, Current(l), TRUE)
  PROVE  CsvInv'
<1> DEFINE tb == Current(l).table
<1> DEFINE date == Current(l).row.date
<1>1. /\ CsvTypes /\ CsvModelTypes /\ CsvModelOK
      /\ \A k \in CsvLoaders : CsvLoaderOK(k) /\ CsvLoaderExact(k)
  BY DEF CsvInv
<1>2. /\ UNCHANGED <<csvFile, csvAt, csvForce, csvBuffer, csvErrors, csvImported,
                     csvBefore, csvImports, csvModelVars>>
      /\ csvPc[l] = "read" /\ csvForce[l] /\ <<tb, date>> \notin csvDeleted[l]
      /\ csvDeleted' = [csvDeleted EXCEPT ![l] = @ \cup {<<tb, date>>}]
      /\ csvDb' = [csvDb EXCEPT ![tb] = {row \in @ : row.date # date}]
      /\ csvPc' = [csvPc EXCEPT ![l] = "buffer"]
      /\ csvAlone' = [k \in CsvLoaders |-> csvAlone[k] /\ (k = l \/ csvPc[k] = "idle")]
      /\ csvSteady' = FALSE
  BY DEF HandleForce, MustDelete, Written
<1>3. tb \in CsvTables /\ date \in CsvDates /\ Len(csvFile[l]) \in Nat
  BY <1>1, CsvFileRecords DEF Current, CsvTypes
<1>4. Current(l)' = Current(l)
  BY <1>2 DEF Current
<1> HIDE DEF tb, date
<1>5. CsvTypes'
  <2>1. csvDb' \in [CsvTables -> SUBSET CsvRow]
    BY <1>1, <1>2 DEF CsvTypes
  <2>2. csvDeleted' \in [CsvLoaders -> SUBSET (CsvTables \X CsvDates)]
    BY <1>1, <1>2, <1>3 DEF CsvTypes
  <2>3. csvAlone' \in [CsvLoaders -> BOOLEAN]
    BY <1>1, <1>2 DEF CsvTypes
  <2>4. csvPc' \in [CsvLoaders -> {"idle", "read", "buffer", "insert", "done"}]
    BY <1>1, <1>2 DEF CsvTypes
  <2> QED
    BY <1>1, <1>2, <2>1, <2>2, <2>3, <2>4 DEF CsvTypes
<1>6. CsvModelTypes' /\ CsvModelOK'
  BY <1>1, <1>2, CsvModelSame DEF CsvModelTypes
<1>7. ASSUME NEW k \in CsvLoaders, k # l PROVE CsvSame(k)
  BY <1>1, <1>2, <1>7 DEF CsvSame, CsvTypes
<1>8. /\ csvPc'[l] = "buffer" /\ csvDeleted'[l] = csvDeleted[l] \cup {<<tb, date>>}
      /\ csvAlone'[l] = csvAlone[l]
      /\ \A t \in CsvTables : csvDb'[t] =
           IF t = tb THEN {row \in csvDb[t] : row.date # date} ELSE csvDb[t]
  BY <1>1, <1>2, <1>3 DEF CsvTypes
<1>9. CsvLoaderOK(l)'
  <2>1. \A t \in CsvTables : ~Full(Len(csvBuffer[l][t]))
    BY <1>1, <1>2 DEF CsvLoaderOK
  <2> QED
    BY <1>1, <1>2, <1>4, <1>8, <2>1 DEF CsvLoaderOK
<1>10. CsvLoaderExact(l)'
  <2> SUFFICES ASSUME CsvNoError(l)' PROVE CsvLoaderExact(l)'
    BY DEF CsvLoaderExact
  <2>1. CsvNoError(l)
    BY <1>2, <1>8 DEF CsvNoError
  <2>2. /\ \A n \in 1..(csvAt[l] - 1) : csvFile[l][n].ok
        /\ CsvDeletedOK(l) /\ \A t \in CsvTables : CsvExactly(l, t)
    BY <1>1, <2>1 DEF CsvLoaderExact
  <2>3. \A t : CsvRead(l, t)' = CsvRead(l, t)
    BY <1>2 DEF CsvRead
  <2>4. CsvDeletedOK(l)'
    <3>1. <<tb, date>>[1] = tb /\ <<tb, date>>[2] = date
      OBVIOUS
    <3>2. ASSUME NEW d \in csvDeleted[l]
          PROVE  \E row \in CsvRead(l, d[1]) : row.date = d[2]
      BY <1>2, <2>2 DEF CsvDeletedOK
    <3>3. \A t \in CsvTables : \A row \in CsvRead(l, t) :
            <<t, row.date>> \in csvDeleted[l]
      BY <1>2, <2>2 DEF CsvDeletedOK
    <3> QED
      BY <1>2, <1>4, <1>8, <2>3, <3>1, <3>2, <3>3 DEF CsvDeletedOK, tb, date
  <2>5. ASSUME NEW t \in CsvTables PROVE CsvExactly(l, t)'
    <3>1. CsvExactly(l, t)
      BY <2>2
    <3>2. CASE t # tb
      <4>1. \A x : <<t, x>> \in csvDeleted'[l] <=> <<t, x>> \in csvDeleted[l]
        BY <1>8, <3>2
      <4>2. CsvLeft(l, t)' = CsvLeft(l, t)
        BY <1>2, <4>1 DEF CsvLeft
      <4>3. CsvAdded(l, t)' = CsvAdded(l, t)
        BY <1>8, <3>2, <4>2 DEF CsvAdded
      <4> QED
        BY <1>2, <1>8, <2>3, <3>1, <3>2, <4>2, <4>3 DEF CsvExactly
    <3>3. CASE t = tb
      <4>1. CsvLeft(l, t)' = {row \in CsvLeft(l, t) : row.date # date}
        BY <1>2, <1>8, <3>3 DEF CsvLeft
      <4>2. \A row \in CsvAdded(l, t) : row.date # date
        BY <1>2, <2>2, <3>1, <3>3 DEF CsvExactly, CsvDeletedOK
      <4>3. CsvAdded(l, t)' = CsvAdded(l, t)
        BY <1>8, <3>3, <4>1, <4>2 DEF CsvAdded
      <4>4. CsvLeft(l, t)' \subseteq csvDb'[t]
        BY <1>8, <3>1, <3>3, <4>1 DEF CsvExactly
      <4> QED
        BY <1>2, <2>3, <3>1, <4>3, <4>4 DEF CsvExactly
    <3> QED
      BY <3>2, <3>3
  <2> QED
    BY <1>2, <2>2, <2>4, <2>5 DEF CsvLoaderExact
<1> QED
  BY <1>1, <1>5, <1>6, <1>7, <1>9, <1>10, CsvSameStep DEF CsvInv

\* The row of a record joins the buffer.
LEMMA CsvBufferStep ==
  ASSUME CsvInv, NEW l \in CsvLoaders, csvAt[l] <= Len(csvFile[l]),
         Current(l).ok, Buffer(l, Current(l))
  PROVE  CsvInv'
<1> DEFINE tb == Current(l).table
<1> DEFINE new == Current(l).row
<1> DEFINE rows == Append(csvBuffer[l][tb], new)
<1>1. /\ CsvTypes /\ CsvModelTypes /\ CsvModelOK
      /\ \A k \in CsvLoaders : CsvLoaderOK(k) /\ CsvLoaderExact(k)
  BY DEF CsvInv
<1>2. /\ UNCHANGED <<csvDb, csvFile, csvForce, csvDeleted, csvErrors, csvImported,
                     csvAlone, csvBefore, csvImports, csvModelVars, csvSteady>>
      /\ \/ csvPc[l] = "buffer"
         \/ csvPc[l] = "read" /\ (csvForce[l] => <<tb, new.date>> \in csvDeleted[l])
      /\ csvBuffer' = [csvBuffer EXCEPT ![l][tb] = rows]
      /\ csvPc' = [csvPc EXCEPT ![l] = IF Full(Len(rows)) THEN "insert" ELSE "read"]
      /\ csvAt' = [csvAt EXCEPT ![l] = @ + 1]
  BY DEF Buffer, MustDelete
<1>3. /\ tb \in CsvTables /\ new \in CsvRow /\ Len(csvFile[l]) \in Nat
      /\ csvAt[l] \in Nat \ {0}
  BY <1>1, CsvFileRecords DEF Current, CsvTypes
<1>4. /\ rows \in Seq(CsvRow)
      /\ CsvRange(rows) = CsvRange(csvBuffer[l][tb]) \cup {new}
  <2>1. csvBuffer[l][tb] \in Seq(CsvRow)
    BY <1>1, <1>3 DEF CsvTypes
  <2> QED
    BY <1>3, <2>1, CsvRangeAppend
<1>5. /\ csvFile'[l] = csvFile[l] /\ csvAt'[l] = csvAt[l] + 1
      /\ csvPc'[l] = IF Full(Len(rows)) THEN "insert" ELSE "read"
      /\ \A t \in CsvTables :
           csvBuffer'[l][t] = IF t = tb THEN rows ELSE csvBuffer[l][t]
  BY <1>1, <1>2, <1>3 DEF CsvTypes
<1>6. /\ \A t : CsvRead(l, t)' = CsvRead(l, t) \cup {x \in {new} : tb = t}
      /\ (\A n \in 1..(csvAt[l] - 1) : csvFile[l][n].ok)
           => \A n \in 1..(csvAt'[l] - 1) : csvFile'[l][n].ok
  BY <1>3, <1>5, CsvReadNext
<1>7. (csvPc[l] = "buffer" /\ CsvDeletedOK(l)) =>
        (csvForce[l] => <<tb, new.date>> \in csvDeleted[l])
  BY DEF CsvDeletedOK
<1>8. \A d \in csvDeleted[l] : CsvDeletedOK(l) =>
        \/ \E row \in CsvRead(l, d[1]) : row.date = d[2]
        \/ d[1] = tb /\ d[2] = new.date
  BY DEF CsvDeletedOK
<1> HIDE DEF tb, new, rows
<1>9. CsvTypes'
  <2>1. csvBuffer' \in [CsvLoaders -> [CsvTables -> Seq(CsvRow)]]
    BY <1>1, <1>2, <1>3, <1>4 DEF CsvTypes
  <2>2. csvPc' \in [CsvLoaders -> {"idle", "read", "buffer", "insert", "done"}]
    BY <1>1, <1>2 DEF CsvTypes
  <2>3. csvAt' \in [CsvLoaders -> Nat \ {0}]
    BY <1>1, <1>2, <1>3 DEF CsvTypes
  <2> QED
    BY <1>1, <1>2, <2>1, <2>2, <2>3 DEF CsvTypes
<1>10. CsvModelTypes' /\ CsvModelOK'
  BY <1>1, <1>2, CsvModelSame DEF CsvModelTypes
<1>11. ASSUME NEW k \in CsvLoaders, k # l PROVE CsvSame(k)
  BY <1>1, <1>2, <1>11 DEF CsvSame, CsvTypes
<1>12. CsvLoaderOK(l)'
  <2>1. \A t \in CsvTables : ~Full(Len(csvBuffer[l][t]))
    BY <1>1, <1>2 DEF CsvLoaderOK
  <2>2. \A t \in CsvTables : Full(Len(csvBuffer'[l][t])) =>
          t = tb /\ csvPc'[l] = "insert"
    BY <1>5, <2>1
  <2> QED
    BY <1>3, <1>5, <2>2 DEF CsvLoaderOK
<1>13. CsvLoaderExact(l)'
  <2> SUFFICES ASSUME CsvNoError(l)' PROVE CsvLoaderExact(l)'
    BY DEF CsvLoaderExact
  <2>1. CsvNoError(l)
    BY <1>2 DEF CsvNoError
  <2>2. /\ \A n \in 1..(csvAt[l] - 1) : csvFile[l][n].ok
        /\ CsvDeletedOK(l) /\ \A t \in CsvTables : CsvExactly(l, t)
    BY <1>1, <2>1 DEF CsvLoaderExact
  <2>3. CsvDeletedOK(l)'
    <3>1. csvPc'[l] # "buffer"
      BY <1>5
    <3>2. ASSUME NEW d \in csvDeleted[l]
          PROVE  \E row \in CsvRead(l, d[1])' : row.date = d[2]
      BY <1>6, <1>8, <2>2
    <3>3. ASSUME csvForce[l], NEW t \in CsvTables, NEW row \in CsvRead(l, t)'
          PROVE  <<t, row.date>> \in csvDeleted[l]
      <4>1. CASE row \in CsvRead(l, t)
        BY <2>2, <3>3, <4>1 DEF CsvDeletedOK
      <4>2. CASE row = new /\ t = tb
        BY <1>2, <1>7, <2>2, <3>3, <4>2
      <4> QED
        BY <1>6, <3>3, <4>1, <4>2
    <3>4. \A d \in csvDeleted[l] : csvForce[l]
      BY <2>2 DEF CsvDeletedOK
    <3> QED
      BY <1>2, <3>1, <3>2, <3>3, <3>4 DEF CsvDeletedOK
  <2>4. ASSUME NEW t \in CsvTables PROVE CsvExactly(l, t)'
    <3>1. CsvLeft(l, t)' = CsvLeft(l, t) /\ CsvAdded(l, t)' = CsvAdded(l, t)
      BY <1>2 DEF CsvLeft, CsvAdded
    <3>2. CsvRange(csvBuffer'[l][t]) =
            CsvRange(csvBuffer[l][t]) \cup {x \in {new} : tb = t}
      BY <1>4, <1>5
    <3> QED
      BY <1>2, <1>6, <2>2, <3>1, <3>2 DEF CsvExactly
  <2> QED
    BY <1>6, <2>2, <2>3, <2>4 DEF CsvLoaderExact
<1> QED
  BY <1>1, <1>9, <1>10, <1>11, <1>12, <1>13, CsvSameStep DEF CsvInv

\* A record of a file.
LEMMA CsvHandleStep ==
  ASSUME CsvInv, NEW l \in CsvLoaders, NEW t, NEW available \in BOOLEAN,
         Handle(l, t, available)
  PROVE  CsvInv'
<1>1. /\ csvPc[l] \in {"read", "buffer"} /\ csvAt[l] <= Len(csvFile[l])
      /\ \/ ~Current(l).ok /\ Err(l) /\ UNCHANGED csvDeleted
         \/ /\ Current(l).ok
            /\ HandleForce(l, Current(l), available) \/ Buffer(l, Current(l))
  BY DEF Handle
<1>2. CsvTypes /\ CsvLoaderOK(l)
  BY DEF CsvInv
<1>3. CASE ~Current(l).ok /\ Err(l) /\ UNCHANGED csvDeleted
  <2>1. csvPc[l] = "read"
    BY <1>1, <1>2, <1>3 DEF CsvLoaderOK
  <2>2. /\ csvDeleted[l] \in SUBSET (CsvTables \X CsvDates)
        /\ csvDeleted' = [csvDeleted EXCEPT ![l] = csvDeleted[l]]
    BY <1>2, <1>3 DEF CsvTypes
  <2> QED
    BY <1>1, <1>3, <2>1, <2>2, CsvErrStep
<1>4. CASE Current(l).ok /\ HandleForce(l, Current(l), available)
  <2>1. CASE available
    BY <1>1, <1>4, <2>1, CsvForceStep
  <2>2. CASE ~available
    <3> DEFINE deleted == csvDeleted[l] \cup {<<Current(l).table, Current(l).row.date>>}
    <3>1. /\ Err(l) /\ csvPc[l] = "read"
          /\ csvDeleted' = [csvDeleted EXCEPT ![l] = deleted]
      BY <1>4, <2>2 DEF HandleForce
    <3>2. deleted \in SUBSET (CsvTables \X CsvDates)
      <4>1. csvAt[l] \in 1..Len(csvFile[l])
        BY <1>1, <1>2, CsvFileRecords DEF CsvTypes
      <4>2. Current(l).table \in CsvTables /\ Current(l).row.date \in CsvDates
        BY <1>2, <4>1, CsvFileRecords DEF Current
      <4> QED
        BY <1>2, <4>2 DEF CsvTypes
    <3> HIDE DEF deleted
    <3> QED
      BY <1>1, <3>1, <3>2, CsvErrStep
  <2> QED
    BY <2>1, <2>2
<1>5. CASE Current(l).ok /\ Buffer(l, Current(l))
  BY <1>1, <1>5, CsvBufferStep
<1> QED
  BY <1>1, <1>3, <1>4, <1>5

-----------------------------------------------------------------------------
(* The INSERTs, the begin and the end of an import, the purge and the loads. *)

\* A buffer is inserted, or is not.
LEMMA CsvInsertStep ==
  ASSUME CsvInv, NEW l \in CsvLoaders, NEW t \in CsvTables,
         NEW available \in BOOLEAN, InsertTable(l, t, available)
  PROVE  CsvInv'
<1> DEFINE rows == csvBuffer[l][t]
<1> DEFINE fits == /\ CsvRange(rows) \cap csvDb[t] = {}
                   /\ Cardinality(CsvRange(rows)) = Len(rows)
<1>1. /\ CsvTypes /\ CsvModelTypes /\ CsvModelOK
      /\ \A k \in CsvLoaders : CsvLoaderOK(k) /\ CsvLoaderExact(k)
  BY DEF CsvInv
<1>2. /\ UNCHANGED <<csvFile, csvAt, csvForce, csvDeleted, csvBefore, csvImports,
                     csvModelVars>>
      /\ (csvPc[l] = "insert" /\ Full(Len(rows))) \/ csvPc[l] = "read"
      /\ csvBuffer' = [csvBuffer EXCEPT ![l][t] = <<>>]
      /\ csvPc' = [csvPc EXCEPT ![l] = "read"]
  BY DEF InsertTable, Insert, AtEnd
<1>3. \/ /\ available /\ fits
         /\ csvDb' = [csvDb EXCEPT ![t] = @ \cup CsvRange(rows)]
         /\ csvImported' = [csvImported EXCEPT ![l][t] = @ + Len(rows)]
         /\ csvAlone' = [k \in CsvLoaders |-> csvAlone[k] /\ (k = l \/ csvPc[k] = "idle")]
         /\ csvSteady' = FALSE /\ UNCHANGED csvErrors
      \/ /\ csvErrors' = [csvErrors EXCEPT ![l] = @ + 1]
         /\ UNCHANGED <<csvDb, csvImported, csvAlone, csvSteady>>
  BY DEF InsertTable, Insert, Written
<1>4. /\ rows \in Seq(CsvRow) /\ Len(rows) \in Nat
      /\ IsFiniteSet(CsvRange(rows)) /\ CsvRange(rows) \subseteq CsvRow
  <2>1. rows \in Seq(CsvRow)
    BY <1>1 DEF CsvTypes
  <2> QED
    BY <2>1, CsvRangeFinite
<1> HIDE DEF rows, fits
<1>5. CsvTypes'
  <2>1. csvBuffer' \in [CsvLoaders -> [CsvTables -> Seq(CsvRow)]]
    <3>1. <<>> \in Seq(CsvRow)
      OBVIOUS
    <3> QED
      BY <1>1, <1>2, <3>1 DEF CsvTypes
  <2>2. csvPc' \in [CsvLoaders -> {"idle", "read", "buffer", "insert", "done"}]
    BY <1>1, <1>2 DEF CsvTypes
  <2>3. csvDb' \in [CsvTables -> SUBSET CsvRow]
    <3>1. [csvDb EXCEPT ![t] = @ \cup CsvRange(rows)] \in [CsvTables -> SUBSET CsvRow]
      BY <1>1, <1>4 DEF CsvTypes
    <3> QED
      BY <1>1, <1>3, <3>1 DEF CsvTypes
  <2>4. csvImported' \in [CsvLoaders -> [CsvTables -> Nat]]
    <3>1. csvImported[l][t] + Len(rows) \in Nat
      BY <1>1, <1>4 DEF CsvTypes
    <3>2. [csvImported EXCEPT ![l][t] = @ + Len(rows)] \in [CsvLoaders -> [CsvTables -> Nat]]
      BY <1>1, <3>1 DEF CsvTypes
    <3> QED
      BY <1>1, <1>3, <3>2 DEF CsvTypes
  <2>5. csvAlone' \in [CsvLoaders -> BOOLEAN] /\ csvErrors' \in [CsvLoaders -> Nat]
    <3>1. [csvErrors EXCEPT ![l] = @ + 1] \in [CsvLoaders -> Nat]
      BY <1>1 DEF CsvTypes
    <3>2. [k \in CsvLoaders |-> csvAlone[k] /\ (k = l \/ csvPc[k] = "idle")]
            \in [CsvLoaders -> BOOLEAN]
      BY <1>1 DEF CsvTypes
    <3> QED
      BY <1>1, <1>3, <3>1, <3>2 DEF CsvTypes
  <2> QED
    BY <1>1, <1>2, <2>1, <2>2, <2>3, <2>4, <2>5 DEF CsvTypes
<1>6. CsvModelTypes' /\ CsvModelOK'
  BY <1>1, <1>2, <1>3, CsvModelSame DEF CsvModelTypes
<1>7. ASSUME NEW k \in CsvLoaders, k # l PROVE CsvSame(k)
  <2>1. /\ csvPc'[k] = csvPc[k] /\ csvBuffer'[k] = csvBuffer[k]
        /\ csvErrors'[k] = csvErrors[k] /\ csvImported'[k] = csvImported[k]
    BY <1>1, <1>2, <1>3, <1>7 DEF CsvTypes
  <2>2. \/ csvDb' = csvDb /\ csvAlone'[k] = csvAlone[k]
        \/ csvAlone'[k] => csvPc[k] = "idle"
    BY <1>3, <1>7
  <2> QED
    BY <1>2, <2>1, <2>2 DEF CsvSame
<1>8. /\ csvPc'[l] = "read"
      /\ \A u \in CsvTables :
           csvBuffer'[l][u] = IF u = t THEN <<>> ELSE csvBuffer[l][u]
  BY <1>1, <1>2 DEF CsvTypes
<1>9. CsvLoaderOK(l)'
  <2>1. ~Full(0) /\ Len(<<>>) = 0
    BY CsvAssumption DEF Full
  <2>2. \A u \in CsvTables : u # t => ~Full(Len(csvBuffer[l][u]))
    BY <1>1, <1>2 DEF CsvLoaderOK, rows
  <2>3. \A u \in CsvTables : ~Full(Len(csvBuffer'[l][u]))
    BY <1>8, <2>1, <2>2
  <2> QED
    BY <1>1, <1>2, <1>8, <2>3 DEF CsvLoaderOK
<1>10. CsvLoaderExact(l)'
  <2> SUFFICES ASSUME CsvNoError(l)' PROVE CsvLoaderExact(l)'
    BY DEF CsvLoaderExact
  <2>1. /\ fits /\ UNCHANGED csvErrors
        /\ csvDb' = [csvDb EXCEPT ![t] = @ \cup CsvRange(rows)]
        /\ csvImported' = [csvImported EXCEPT ![l][t] = @ + Len(rows)]
        /\ csvAlone'[l] = csvAlone[l]
    <3>1. csvErrors' # [csvErrors EXCEPT ![l] = @ + 1]
      BY <1>1 DEF CsvNoError, CsvTypes
    <3>2. [k \in CsvLoaders |-> csvAlone[k] /\ (k = l \/ csvPc[k] = "idle")][l]
            = csvAlone[l]
      BY <1>1 DEF CsvTypes
    <3> QED
      BY <1>3, <3>1, <3>2, Zenon
  <2>2. CsvNoError(l)
    BY <1>2, <2>1 DEF CsvNoError
  <2>3. /\ \A n \in 1..(csvAt[l] - 1) : csvFile[l][n].ok
        /\ CsvDeletedOK(l) /\ \A u \in CsvTables : CsvExactly(l, u)
    BY <1>1, <2>2 DEF CsvLoaderExact
  <2>4. /\ \A u : CsvRead(l, u)' = CsvRead(l, u)
        /\ \A u : CsvLeft(l, u)' = CsvLeft(l, u)
    BY <1>2 DEF CsvRead, CsvLeft
  <2>5. CsvDeletedOK(l)'
    BY <1>2, <1>8, <2>3, <2>4 DEF CsvDeletedOK
  <2>6. \A u \in CsvTables :
          /\ csvDb'[u] = IF u = t THEN csvDb[t] \cup CsvRange(rows) ELSE csvDb[u]
          /\ csvImported'[l][u] = IF u = t THEN csvImported[l][t] + Len(rows)
                                  ELSE csvImported[l][u]
    BY <1>1, <2>1 DEF CsvTypes
  <2>7. ASSUME NEW u \in CsvTables PROVE CsvExactly(l, u)'
    <3>1. CASE u # t
      <4>1. CsvAdded(l, u)' = CsvAdded(l, u)
        BY <2>4, <2>6, <3>1 DEF CsvAdded
      <4> QED
        BY <1>8, <2>3, <2>4, <2>6, <3>1, <4>1 DEF CsvExactly
    <3>2. CASE u = t
      <4>1. CsvExactly(l, t)
        BY <2>3
      <4>2. /\ CsvAdded(l, t)' = CsvAdded(l, t) \cup CsvRange(rows)
            /\ CsvAdded(l, t) \cap CsvRange(rows) = {}
        BY <2>1, <2>4, <2>6, <4>1 DEF CsvExactly, CsvAdded, fits
      <4>3. CsvRange(<<>>) = {}
        BY DEF CsvRange
      <4>4. /\ IsFiniteSet(CsvAdded(l, t)')
            /\ Cardinality(CsvAdded(l, t)') =
                 Cardinality(CsvAdded(l, t)) + Cardinality(CsvRange(rows))
                   - Cardinality(CsvAdded(l, t) \cap CsvRange(rows))
        BY <1>4, <4>1, <4>2, FS_Union DEF CsvExactly
      <4>5. Cardinality({}) = 0 /\ Cardinality(CsvAdded(l, t)) \in Nat
        BY <4>1, FS_EmptySet, FS_CardinalityType DEF CsvExactly
      <4>6. csvImported'[l][t] = Cardinality(CsvAdded(l, t)')
        <5>1. Cardinality(CsvAdded(l, t) \cap CsvRange(rows)) = 0
          BY <4>2, <4>5
        <5>2. Cardinality(CsvRange(rows)) = Len(rows)
          BY <2>1 DEF fits
        <5>3. csvImported'[l][t] = Cardinality(CsvAdded(l, t)) + Len(rows)
          BY <2>6, <4>1 DEF CsvExactly
        <5> QED
          BY <1>4, <4>4, <4>5, <5>1, <5>2, <5>3
      <4>7. CsvAdded(l, t)' \cup CsvRange(csvBuffer'[l][t]) = CsvRead(l, t)'
        BY <1>8, <2>4, <4>1, <4>2, <4>3 DEF CsvExactly, rows
      <4>8. CsvLeft(l, t)' \subseteq csvDb'[t]
        BY <2>4, <2>6, <4>1 DEF CsvExactly
      <4> QED
        BY <3>2, <4>4, <4>6, <4>7, <4>8 DEF CsvExactly
    <3> QED
      BY <3>1, <3>2
  <2> QED
    BY <1>2, <2>3, <2>5, <2>7 DEF CsvLoaderExact
<1> QED
  BY <1>1, <1>5, <1>6, <1>7, <1>9, <1>10, CsvSameStep DEF CsvInv

\* An import begins.
LEMMA CsvNewLoaderStep ==
  ASSUME CsvInv, NEW l \in CsvLoaders, NEW file \in CsvFiles,
         NEW force \in BOOLEAN, NewLoader(l, file, force)
  PROVE  CsvInv'
<1>1. /\ CsvTypes /\ CsvModelTypes /\ CsvModelOK
      /\ \A k \in CsvLoaders : CsvLoaderOK(k) /\ CsvLoaderExact(k)
  BY DEF CsvInv
<1>2. CsvTypes'
  <2>1. CsvEmpty \in [CsvTables -> Seq(CsvRow)]
    BY DEF CsvEmpty
  <2>2. csvDb \in [CsvTables -> SUBSET CsvRow]
    BY <1>1 DEF CsvTypes
  <2> QED
    BY <1>1, <2>1, <2>2 DEF CsvTypes, NewLoader
<1>3. CsvModelTypes' /\ CsvModelOK'
  <2>1. csvImports' \in 0..CsvMaxImports
    BY <1>1, CsvAssumption DEF NewLoader, CsvModelTypes
  <2> QED
    BY <1>1, <2>1, CsvModelSame DEF NewLoader
<1>4. ASSUME NEW k \in CsvLoaders, k # l PROVE CsvSame(k)
  BY <1>1, <1>4 DEF CsvSame, CsvTypes, NewLoader
<1>5. /\ csvPc'[l] = "read" /\ csvFile'[l] = file /\ csvAt'[l] = 1
      /\ csvDeleted'[l] = {} /\ csvBuffer'[l] = CsvEmpty
      /\ csvImported'[l] = [t \in CsvTables |-> 0] /\ csvBefore'[l] = csvDb
      /\ csvDb' = csvDb
  BY <1>1 DEF CsvTypes, NewLoader
<1>6. Len(file) \in Nat
  BY CsvAssumption
<1>7. CsvLoaderOK(l)'
  <2>1. ~Full(0) /\ Len(<<>>) = 0
    BY CsvAssumption DEF Full
  <2>2. \A t \in CsvTables : CsvEmpty[t] = <<>>
    BY DEF CsvEmpty
  <2> QED
    BY <1>5, <1>6, <2>1, <2>2 DEF CsvLoaderOK
<1>8. CsvLoaderExact(l)'
  <2>1. /\ \A n \in 1..(csvAt'[l] - 1) : FALSE
        /\ \A t : CsvRead(l, t)' = {}
    BY <1>5 DEF CsvRead
  <2>2. CsvDeletedOK(l)'
    BY <1>5, <2>1 DEF CsvDeletedOK
  <2>3. ASSUME NEW t \in CsvTables PROVE CsvExactly(l, t)'
    <3>1. CsvLeft(l, t)' = csvDb[t]
      BY <1>5 DEF CsvLeft
    <3>2. CsvAdded(l, t)' = {}
      BY <1>5, <3>1 DEF CsvAdded
    <3>3. CsvRange(csvBuffer'[l][t]) = {} /\ csvImported'[l][t] = 0
      BY <1>5 DEF CsvRange, CsvEmpty
    <3> QED
      BY <1>5, <2>1, <3>1, <3>2, <3>3, FS_EmptySet DEF CsvExactly
  <2> QED
    BY <2>1, <2>2, <2>3 DEF CsvLoaderExact
<1> QED
  BY <1>1, <1>2, <1>3, <1>4, <1>7, <1>8, CsvSameStep DEF CsvInv

\* An import ends, or is killed.
LEMMA CsvEndStep ==
  ASSUME CsvInv, NEW l \in CsvLoaders, Result(l) \/ Killed(l)
  PROVE  CsvInv'
<1>1. /\ CsvTypes /\ CsvModelTypes /\ CsvModelOK
      /\ \A k \in CsvLoaders : CsvLoaderOK(k) /\ CsvLoaderExact(k)
  BY DEF CsvInv
<1>2. CsvModelTypes' /\ CsvModelOK'
  <2>1. UNCHANGED <<csvDb, csvSteady, csvModelVars, csvImports>>
    BY DEF Result, Killed
  <2> QED
    BY <1>1, <2>1, CsvModelSame DEF CsvModelTypes
<1>3. ASSUME NEW k \in CsvLoaders, k # l PROVE CsvSame(k)
  <2>1. CASE Result(l)
    BY <1>1, <1>3, <2>1 DEF CsvSame, CsvTypes, Result
  <2>2. CASE Killed(l)
    BY <1>1, <1>3, <2>2 DEF CsvSame, CsvTypes, Killed
  <2> QED
    BY <2>1, <2>2
<1>4. CASE Result(l)
  <2>1. /\ UNCHANGED <<csvDb, csvFile, csvAt, csvForce, csvDeleted, csvBuffer,
                       csvErrors, csvImported, csvAlone, csvBefore>>
        /\ csvPc[l] = "read" /\ csvAt[l] > Len(csvFile[l]) /\ NothingLeft(l)
        /\ csvPc' = [csvPc EXCEPT ![l] = "done"]
    BY <1>4 DEF Result, AtEnd
  <2>2. CsvTypes' /\ csvPc'[l] = "done"
    BY <1>1, <2>1 DEF CsvTypes
  <2>3. CsvLoaderOK(l)'
    BY <1>1, <2>1, <2>2 DEF CsvLoaderOK, NothingLeft
  <2>4. CsvLoaderExact(l)'
    <3> SUFFICES ASSUME CsvNoError(l)' PROVE CsvLoaderExact(l)'
      BY DEF CsvLoaderExact
    <3>1. CsvNoError(l)
      BY <2>1 DEF CsvNoError
    <3>2. /\ \A t : CsvRead(l, t)' = CsvRead(l, t)
          /\ \A t : CsvLeft(l, t)' = CsvLeft(l, t)
          /\ \A t : CsvAdded(l, t)' = CsvAdded(l, t)
      BY <2>1 DEF CsvRead, CsvLeft, CsvAdded
    <3>3. CsvDeletedOK(l)'
      <4>1. CsvDeletedOK(l)
        BY <1>1, <3>1 DEF CsvLoaderExact
      <4> QED
        BY <2>1, <2>2, <3>2, <4>1 DEF CsvDeletedOK
    <3> QED
      BY <1>1, <2>1, <3>1, <3>2, <3>3 DEF CsvLoaderExact, CsvExactly
  <2> QED
    BY <1>1, <1>2, <1>3, <2>2, <2>3, <2>4, CsvSameStep DEF CsvInv
<1>5. CASE Killed(l)
  <2>1. CsvEmpty \in [CsvTables -> Seq(CsvRow)] /\ NoRows \in [CsvTables -> SUBSET CsvRow]
    BY DEF CsvEmpty, NoRows
  <2>2. CsvTypes'
    BY <1>1, <1>5, <2>1 DEF CsvTypes, Killed
  <2>3. /\ csvPc'[l] = "idle" /\ csvAt'[l] = 1 /\ csvFile'[l] = <<>>
        /\ csvBuffer'[l] = CsvEmpty
    BY <1>1, <1>5 DEF CsvTypes, Killed
  <2>4. CsvLoaderOK(l)'
    <3>1. ~Full(0) /\ Len(<<>>) = 0
      BY CsvAssumption DEF Full
    <3>2. \A t \in CsvTables : CsvEmpty[t] = <<>>
      BY DEF CsvEmpty
    <3> QED
      BY <2>3, <3>1, <3>2 DEF CsvLoaderOK
  <2>5. CsvLoaderExact(l)'
    BY <2>3 DEF CsvLoaderExact, CsvNoError
  <2> QED
    BY <1>1, <1>2, <1>3, <2>2, <2>4, <2>5, CsvSameStep DEF CsvInv
<1> QED
  BY <1>4, <1>5

\* The purge: every import that runs is no longer alone.
LEMMA CsvPurgeStep ==
  ASSUME CsvInv, NEW date \in CsvDates, Purge(date)
  PROVE  CsvInv'
<1>1. /\ CsvTypes /\ CsvModelTypes /\ CsvModelOK
      /\ \A k \in CsvLoaders : CsvLoaderOK(k) /\ CsvLoaderExact(k)
  BY DEF CsvInv
<1>2. /\ csvImports < CsvMaxImports /\ csvImports' = csvImports + 1
      /\ csvDb' = [t \in CsvTables |-> {row \in csvDb[t] : row.date >= date}]
      /\ csvAlone' = [l \in CsvLoaders |->
                        csvAlone[l] /\ (l = "purge" \/ csvPc[l] = "idle")]
      /\ csvSteady' = FALSE
      /\ UNCHANGED <<csvPc, csvFile, csvAt, csvForce, csvDeleted, csvBuffer,
                     csvErrors, csvImported, csvBefore, csvModelVars>>
  BY DEF Purge, Written
<1>3. CsvTypes'
  <2>1. csvDb' \in [CsvTables -> SUBSET CsvRow]
    BY <1>1, <1>2 DEF CsvTypes
  <2>2. csvAlone' \in [CsvLoaders -> BOOLEAN]
    BY <1>1, <1>2 DEF CsvTypes
  <2> QED
    BY <1>1, <1>2, <2>1, <2>2 DEF CsvTypes
<1>4. CsvModelTypes' /\ CsvModelOK'
  <2>1. csvImports' \in 0..CsvMaxImports
    BY <1>1, <1>2, CsvAssumption DEF CsvModelTypes
  <2> QED
    BY <1>1, <1>2, <2>1, CsvModelSame
<1>5. ASSUME NEW k \in CsvLoaders PROVE CsvSame(k)
  <2>1. k # "purge"
    BY CsvAssumption
  <2>2. csvAlone'[k] => csvPc[k] = "idle"
    BY <1>1, <1>2, <2>1 DEF CsvTypes
  <2> QED
    BY <1>2, <2>2 DEF CsvSame
<1> QED
  BY <1>1, <1>3, <1>4, <1>5, CsvSameStep DEF CsvInv

\* A load begins, or reads a store.
LEMMA CsvLoadStep ==
  ASSUME CsvInv,
         \/ \E date \in CsvDates : Load(date) \/ Reload(date)
         \/ \E t \in CsvTables : LoadStore(t)
  PROVE  CsvInv'
<1>1. /\ CsvTypes /\ CsvModelTypes /\ CsvModelOK
      /\ \A k \in CsvLoaders : CsvLoaderOK(k) /\ CsvLoaderExact(k)
  BY DEF CsvInv
<1>2. ASSUME UNCHANGED <<csvDb, csvLoaderVars>>
      PROVE  CsvTypes' /\ \A k \in CsvLoaders : CsvLoaderOK(k)' /\ CsvLoaderExact(k)'
  <2>1. \A k \in CsvLoaders : CsvSame(k)
    BY <1>2 DEF CsvSame, csvLoaderVars
  <2> QED
    BY <1>1, <1>2, <2>1, CsvSameStep DEF CsvTypes, csvLoaderVars
<1>3. ASSUME NEW date \in CsvDates, NEW tables \in SUBSET CsvTables,
             BeginLoad(date, tables), CsvTables \ {"stop_visit"} \subseteq tables
      PROVE  CsvInv'
  <2>1. CsvModelTypes' /\ UNCHANGED <<csvDb, csvLoaderVars>>
    BY <1>1, <1>3, CsvAssumption DEF BeginLoad, CsvModelTypes, NoRows
  <2>2. CsvModelOK'
    BY <1>3 DEF BeginLoad, CsvModelOK
  <2> QED
    BY <1>2, <2>1, <2>2 DEF CsvInv
<1>4. ASSUME NEW t \in CsvTables, LoadStore(t) PROVE CsvInv'
  <2>1. /\ UNCHANGED <<csvDb, csvLoaderVars, csvImports, csvToday, csvSteady>>
        /\ csvModel' = [csvModel EXCEPT ![t] = {row.id : row \in SelectToday(t)}]
        /\ csvToLoad' = csvToLoad \ {t}
    BY <1>4 DEF LoadStore
  <2>2. {row.id : row \in SelectToday(t)} \in SUBSET CsvIds
    BY <1>1 DEF SelectToday, CsvTypes, CsvRow
  <2>3. CsvModelTypes'
    BY <1>1, <2>1, <2>2 DEF CsvModelTypes
  <2>4. CsvModelOK'
    <3> SUFFICES ASSUME csvSteady, csvToday # 0,
                        NEW u \in CsvTables \ (csvToLoad' \cup {"stop_visit"})
                 PROVE  csvModel'[u] =
                          {row.id : row \in {r \in csvDb[u] : r.date = csvToday}}
      BY <2>1 DEF CsvModelOK
    <3>1. CASE u = t
      <4>1. csvModel'[t] = {row.id : row \in SelectToday(t)}
        BY <1>1, <2>1 DEF CsvModelTypes
      <4> QED
        BY <3>1, <4>1 DEF SelectToday
    <3>2. CASE u # t
      <4>1. csvModel'[u] = csvModel[u] /\ u \notin csvToLoad
        BY <1>1, <2>1, <3>2 DEF CsvModelTypes
      <4> QED
        BY <1>1, <4>1 DEF CsvModelOK
    <3> QED
      BY <3>1, <3>2
  <2> QED
    BY <1>2, <2>1, <2>3, <2>4 DEF CsvInv
<1>5. ASSUME NEW date \in CsvDates, Load(date) \/ Reload(date) PROVE CsvInv'
  <2>1. CASE Load(date)
    BY <1>3, <2>1 DEF Load
  <2>2. CASE Reload(date)
    BY <1>3, <2>2 DEF Reload
  <2> QED
    BY <1>5, <2>1, <2>2
<1> QED
  BY <1>4, <1>5

-----------------------------------------------------------------------------
(* The theorems about CsvImport.                                           *)

\* No import, an empty database and no model.
LEMMA CsvInitInv ==
  ASSUME CsvInit PROVE CsvInv
<1>1. /\ CsvEmpty \in [CsvTables -> Seq(CsvRow)] /\ NoRows \in [CsvTables -> SUBSET CsvRow]
      /\ NoRows \in [CsvTables -> SUBSET CsvIds]
      /\ \A t \in CsvTables : CsvEmpty[t] = <<>>
  BY DEF CsvEmpty, NoRows
<1>2. CsvTypes
  BY <1>1 DEF CsvInit, CsvTypes
<1>3. CsvModelTypes /\ CsvModelOK
  BY <1>1, CsvAssumption DEF CsvInit, CsvModelTypes, CsvModelOK
<1>4. ASSUME NEW l \in CsvLoaders PROVE CsvLoaderOK(l) /\ CsvLoaderExact(l)
  <2>1. ~Full(0) /\ Len(<<>>) = 0
    BY CsvAssumption DEF Full
  <2>2. CsvLoaderOK(l)
    BY <1>1, <2>1 DEF CsvInit, CsvLoaderOK
  <2>3. CsvLoaderExact(l)
    BY DEF CsvInit, CsvLoaderExact, CsvNoError
  <2> QED
    BY <2>2, <2>3
<1> QED
  BY <1>2, <1>3, <1>4 DEF CsvInv

\* Every step keeps the invariant.
LEMMA CsvNextInv ==
  ASSUME CsvInv, [CsvNext]_csvVars PROVE CsvInv'
<1>1. CASE UNCHANGED csvVars
  <2>1. /\ CsvTypes /\ CsvModelTypes /\ CsvModelOK
        /\ \A k \in CsvLoaders : CsvLoaderOK(k) /\ CsvLoaderExact(k)
    BY DEF CsvInv
  <2>2. CsvTypes'
    BY <1>1, <2>1 DEF csvVars, csvLoaderVars, CsvTypes
  <2>3. CsvModelTypes' /\ CsvModelOK'
    BY <1>1, <2>1, CsvModelSame DEF csvVars, CsvModelTypes
  <2>4. \A k \in CsvLoaders : CsvSame(k)
    BY <1>1 DEF csvVars, csvLoaderVars, CsvSame
  <2> QED
    BY <2>1, <2>2, <2>3, <2>4, CsvSameStep DEF CsvInv
<1>2. \A t \in {"operator", "stop_area", "line", "vehicle_journey", "stop_visit"} :
        t \in CsvTables
  BY DEF CsvTables
<1>3. ASSUME NEW l \in CsvLoaders, NEW available \in BOOLEAN,
             \/ HandleOperator(l, available) \/ HandleStopArea(l, available)
             \/ HandleLine(l, available) \/ HandleVehicleJourney(l, available)
             \/ HandleStopVisit(l, available)
      PROVE  CsvInv'
  <2>1. PICK t : Handle(l, t, available)
    BY <1>3 DEF HandleOperator, HandleStopArea, HandleLine, HandleVehicleJourney,
                HandleStopVisit
  <2> QED
    BY <2>1, CsvHandleStep
<1>4. ASSUME NEW l \in CsvLoaders, NEW available \in BOOLEAN,
             \/ InsertOperators(l, available) \/ InsertStopAreas(l, available)
             \/ InsertLines(l, available) \/ InsertVehicleJourneys(l, available)
             \/ InsertStopVisits(l, available)
      PROVE  CsvInv'
  <2>1. PICK t \in CsvTables : InsertTable(l, t, available)
    BY <1>2, <1>4 DEF InsertOperators, InsertStopAreas, InsertLines,
                      InsertVehicleJourneys, InsertStopVisits
  <2> QED
    BY <2>1, CsvInsertStep
<1>5. ASSUME \/ LoadStopAreas \/ LoadLines \/ LoadOperators \/ LoadVehicleJourneys
             \/ LoadStopVisits
      PROVE  CsvInv'
  <2>1. PICK t \in CsvTables : LoadStore(t)
    BY <1>2, <1>5 DEF LoadStopAreas, LoadLines, LoadOperators, LoadVehicleJourneys,
                      LoadStopVisits
  <2> QED
    BY <2>1, CsvLoadStep
<1> QED
  BY <1>1, <1>3, <1>4, <1>5, CsvNewLoaderStep, CsvEndStep, CsvPurgeStep, CsvLoadStep
     DEF CsvNext

\* The invariant of the imports and of the loads of the model.
THEOREM ImportInvariance == CsvSpec => []CsvInv
<1>1. CsvInit => CsvInv
  BY CsvInitInv
<1>2. CsvInv /\ [CsvNext]_csvVars => CsvInv'
  BY CsvNextInv
<1> QED
  BY <1>1, <1>2, PTL DEF CsvSpec

\* The types, and the number of rows that a buffer holds (LoadMaxInsert).
THEOREM ImportTypeCorrect == CsvSpec => []CsvTypeOK
<1>1. CsvInv => CsvTypeOK
  <2> SUFFICES ASSUME CsvInv PROVE CsvTypeOK
    OBVIOUS
  <2>1. CsvTypes /\ CsvModelTypes
    BY DEF CsvInv
  <2>2. ASSUME NEW l \in CsvLoaders
        PROVE  /\ csvFile[l] \in CsvFiles \cup {<<>>}
               /\ csvAt[l] \in 1..(Len(csvFile[l]) + 1)
    <3>1. csvAt[l] \in Nat \ {0} /\ csvAt[l] <= Len(csvFile[l]) + 1
      BY <2>1 DEF CsvInv, CsvLoaderOK, CsvTypes
    <3> QED
      BY <2>1, <3>1, CsvFileRecords DEF CsvTypes
  <2>3. ASSUME NEW l \in CsvLoaders, NEW t \in CsvTables
        PROVE  /\ CsvRange(csvBuffer[l][t]) \subseteq CsvRow
               /\ Len(csvBuffer[l][t]) < LoadMaxInsert \/ csvPc[l] = "insert"
    <3>1. csvBuffer[l][t] \in Seq(CsvRow) /\ Len(csvBuffer[l][t]) \in Nat
      BY <2>1 DEF CsvTypes
    <3>2. Full(Len(csvBuffer[l][t])) => csvPc[l] = "insert"
      BY DEF CsvInv, CsvLoaderOK
    <3> QED
      BY <3>1, <3>2, CsvRangeFinite, CsvAssumption DEF Full
  <2> QED
    BY <2>1, <2>2, <2>3 DEF CsvTypeOK, CsvTypes, CsvModelTypes
<1> QED
  BY <1>1, ImportInvariance, PTL

\* An import that ended without error, while nothing else wrote, did what was
\* asked: the models it deleted are the ones of the rows that it read, before it
\* added the first of each, and the rows it counted are the ones it added.
THEOREM ImportDoesWhatWasAsked == CsvSpec => []ImportExact
<1>1. CsvInv => ImportExact
  <2> SUFFICES ASSUME CsvInv, NEW l \in CsvLoaders, NEW t \in CsvTables,
                      csvPc[l] = "done", csvErrors[l] = 0, csvAlone[l]
               PROVE  LET rows == RowsOf(csvFile[l], t)
                          kept == {row \in csvBefore[l][t] : csvForce[l] =>
                                     row.date \notin Replaced(csvFile[l], t)}
                      IN  /\ csvDb[t] = kept \cup rows
                          /\ csvImported[l][t] = Cardinality(rows)
    BY DEF ImportExact
  <2>1. /\ CsvTypes /\ csvAt[l] > Len(csvFile[l]) /\ csvAt[l] <= Len(csvFile[l]) + 1
        /\ NothingLeft(l)
    BY DEF CsvInv, CsvLoaderOK
  <2>2. /\ \A n \in 1..(csvAt[l] - 1) : csvFile[l][n].ok
        /\ CsvDeletedOK(l) /\ CsvExactly(l, t)
    BY DEF CsvInv, CsvLoaderExact, CsvNoError
  <2>3. 1..(csvAt[l] - 1) = 1..Len(csvFile[l])
    <3>1. csvAt[l] \in Nat /\ Len(csvFile[l]) \in Nat
      BY <2>1, CsvFileRecords DEF CsvTypes
    <3>2. csvAt[l] - 1 = Len(csvFile[l])
      BY <2>1, <3>1
    <3> QED
      BY <3>2
  <2>4. CsvRead(l, t) = RowsOf(csvFile[l], t)
    BY <2>2, <2>3, Zenon DEF CsvRead, RowsOf
  <2>5. CsvAdded(l, t) = RowsOf(csvFile[l], t)
    <3>1. csvBuffer[l][t] = <<>>
      BY <2>1 DEF NothingLeft, CsvEmpty
    <3>2. CsvRange(<<>>) = {}
      BY DEF CsvRange
    <3> QED
      BY <2>2, <2>4, <3>1, <3>2 DEF CsvExactly
  <2>6. ASSUME NEW row \in csvBefore[l][t]
        PROVE  <<t, row.date>> \notin csvDeleted[l] <=>
                 (csvForce[l] => row.date \notin Replaced(csvFile[l], t))
    <3>1. <<t, row.date>>[1] = t /\ <<t, row.date>>[2] = row.date
      OBVIOUS
    <3>2. <<t, row.date>> \in csvDeleted[l] =>
            csvForce[l] /\ \E r \in CsvRead(l, t) : r.date = row.date
      BY <2>2, <3>1 DEF CsvDeletedOK
    <3>3. \A r \in CsvRead(l, t) : csvForce[l] => <<t, r.date>> \in csvDeleted[l]
      BY <2>2 DEF CsvDeletedOK
    <3>4. row.date \in Replaced(csvFile[l], t) <=>
            \E r \in CsvRead(l, t) : r.date = row.date
      BY <2>4 DEF Replaced
    <3> QED
      BY <3>2, <3>3, <3>4
  <2>7. CsvLeft(l, t) = {row \in csvBefore[l][t] : csvForce[l] =>
                           row.date \notin Replaced(csvFile[l], t)}
    BY <2>6 DEF CsvLeft
  <2>8. csvDb[t] = CsvLeft(l, t) \cup CsvAdded(l, t)
    BY <2>2 DEF CsvExactly, CsvAdded
  <2> QED
    BY <2>2, <2>5, <2>7, <2>8 DEF CsvExactly
<1> QED
  BY <1>1, ImportInvariance, PTL

\* A model that was loaded while nothing wrote is the one of its date, but for
\* the stop visits that a reload leaves out.
THEOREM LoadsToday == CsvSpec => []ModelOfToday
<1>1. CsvInv => ModelOfToday
  BY DEF CsvInv, CsvModelOK, ModelOfToday
<1> QED
  BY <1>1, ImportInvariance, PTL
=============================================================================
