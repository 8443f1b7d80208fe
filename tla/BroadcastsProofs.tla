-------------------------- MODULE BroadcastsProofs --------------------------
(***************************************************************************)
(* ETBroadcast and GMBroadcast for any number of subscriptions, lines, stop *)
(* visits, situations and saves.                                            *)
(***************************************************************************)
EXTENDS ETBroadcast, GMBroadcast, TLAPS

-----------------------------------------------------------------------------
(* EstimatedTimetable: the inductive invariant.                            *)

\* What is between two actions of the broadcaster loop, and of the manager.
EtLoopOK ==
  /\ etPc \in {"visits", "record"} => etSub \in EtSubs
  /\ etPc = "idle" => etBatch = EtLoopIdle
  /\ etPc # "record" => etCalled = EtNone
  /\ etCalled # EtNone => /\ etCalled \in InDelivery
                          /\ EtLineOf(etCalled) \in etResources[etSub]

EtManagerOK ==
  /\ \A v \in etJourneys \cup etEvents : etVisits[v] \in EtVisit
  /\ etFound # {} =>
       /\ etEvent \in EtVisits /\ etSeen \in EtVisit
       /\ etEvent \notin etEvents => etSeen = etVisits[etEvent]

\* A last state of a stop visit in the delivery is what the delivery says of it,
\* unless it is about to be, or the stop visit was queued again.
EtRecordedAt(v) ==
  etLast[etSub][v] # EtNone =>
    \/ etLast[etSub][v] = etDelivery[v]
    \/ v \in etPending[etSub] \/ v = etCalled

EtRecorded == \A v \in InDelivery : EtRecordedAt(v)

\* EtLastStateTold, of one subscription and stop visit.
EtToldAt(s, v) ==
  etLast[s][v] # EtNone =>
    etLast[s][v] = etKnown[s][v] \/ EtQueued(s, v) \/ v \in etMissed[s]

\* Of a stop visit whose departure was not taken back, whoever has a departure
\* has it from a stop visit that is departed still.
EtDeparted(x) == x # EtNone /\ x.status = "departed"

EtNoDepartureOf(v) ==
  /\ \A s \in EtSubs : ~EtDeparted(etLast[s][v])
  /\ ~EtDeparted(etDelivery[v])
  /\ etFound # {} /\ etEvent = v => ~EtDeparted(etSeen)

EtDeparturesStay ==
  \A v \in EtVisits \ etTakenBack :
    ~EtDeparted(etVisits[v]) => EtNoDepartureOf(v)

\* The stop visits whose departure the broadcast manager has handled.
EtHandled == {v \in etJourneys \ (etEvents \cup etTakenBack) :
                EtDeparted(etVisits[v])}

EtToCheck(s, v) == etEvent = v /\ s \in etFound

\* Their departure is in the last state, or on its way ...
EtDepartureRecordedAt(s, v) ==
  EtLineOf(v) \in etResources[s] /\ etLast[s][v] # EtNone =>
    \/ EtDeparted(etLast[s][v]) \/ EtQueued(s, v) \/ v \in etMissed[s]
    \/ EtToCheck(s, v)

EtDepartureRecorded ==
  \A s \in EtSubs, v \in EtHandled : EtDepartureRecordedAt(s, v)

\* ... and in the delivery they are in, or in the next one.
EtDepartureDeliveredAt(v) ==
  /\ EtLineOf(v) \in etResources[etSub]
  /\ etLast[etSub][v] # EtNone \/ etCalled = v
  => \/ EtDeparted(etDelivery[v]) \/ v \in etPending[etSub]
     \/ EtToCheck(etSub, v)
     \/ EtDeparted(etLast[etSub][v]) /\ etCalled # v

EtDepartureDelivered ==
  \A v \in EtHandled \cap InDelivery : EtDepartureDeliveredAt(v)

\* A departure that was recorded before an older state is sent is queued.
EtDepartureQueued ==
  /\ etCalled # EtNone /\ etCalled \notin etTakenBack
  /\ EtDeparted(etLast[etSub][etCalled])
  => EtDeparted(etDelivery[etCalled]) \/ etCalled \in etPending[etSub]

EtStateOK == EtTypeOK /\ EtLoopOK /\ EtManagerOK

EtInv ==
  /\ EtStateOK
  /\ EtLastStateTold /\ EtRecorded
  /\ EtDeparturesStay /\ EtDepartureRecorded /\ EtDepartureDelivered
  /\ EtDepartureQueued

-----------------------------------------------------------------------------
(* EstimatedTimetable: types, the loop and the manager.                    *)

\* An update of one value keeps the type of a function.
LEMMA ExceptType ==
  ASSUME NEW A, NEW V, NEW f \in [A -> V], NEW a, NEW v \in V
  PROVE  [f EXCEPT ![a] = v] \in [A -> V]
OBVIOUS

\* The same for a function of functions.
LEMMA ExceptTwiceType ==
  ASSUME NEW A, NEW B, NEW V, NEW f \in [A -> [B -> V]],
         NEW a, NEW b, NEW v \in V
  PROVE  [f EXCEPT ![a][b] = v] \in [A -> [B -> V]]
OBVIOUS

\* Nothing yet, for every stop visit and for every subscription.
LEMMA EtEmptyTypes ==
  /\ EtNothing \in [EtVisits -> EtVisit \cup {EtNone}]
  /\ EtLoopIdle \in [EtSubs -> SUBSET EtVisits]
BY DEF EtNothing, EtLoopIdle

\* Types, the loop and the manager hold initially.
LEMMA EtInitOK == EtInit => EtStateOK
<1> SUFFICES ASSUME EtInit PROVE EtStateOK
  OBVIOUS
<1>1. /\ etSaves \in [EtVisits -> 0..EtMaxSaves]
      /\ etRequests \in [EtSubs -> [EtLines -> 0..EtMaxRequests]]
  BY EtAssumption DEF EtInit, EtAssumption
<1>2. /\ etLast \in [EtSubs -> [EtVisits -> EtVisit \cup {EtNone}]]
      /\ etKnown \in [EtSubs -> [EtVisits -> EtVisit \cup {EtNone}]]
  BY EtEmptyTypes DEF EtInit
<1>3. EtTypeOK
  BY <1>1, <1>2, EtEmptyTypes DEF EtInit, EtTypeOK
<1> QED
  BY <1>3 DEF EtInit, EtStateOK, EtLoopOK, EtManagerOK

\* A stop visit that is saved, or that loses its vehicle journey.
LEMMA EtModelOK ==
  ASSUME EtStateOK, NEW v \in EtVisits,
         (\E state \in EtSaved : EtSave(v, state)) \/ EtDeleteJourney(v)
  PROVE  EtStateOK'
<1> USE DEF EtStateOK, EtTypeOK, etMgrVars, etSubVars, etLoopVars, etFeedVars,
            etModelVars
<1>1. ASSUME NEW state \in EtSaved, EtSave(v, state) PROVE EtStateOK'
  <2>1. state \in EtVisit
    BY EtAssumption DEF EtAssumption
  <2>2. etSaves' \in [EtVisits -> 0..EtMaxSaves]
    BY <1>1, EtAssumption DEF EtSave, EtAssumption
  <2>3. etVisits' \in [EtVisits -> EtVisit \cup {EtNone}]
    BY <1>1, <2>1 DEF EtSave
  <2>4. EtTypeOK'
    BY <1>1, <2>2, <2>3 DEF EtSave
  <2>5. EtLoopOK'
    BY <1>1 DEF EtSave, EtLoopOK, InDelivery
  <2>6. EtManagerOK'
    BY <1>1, <2>1 DEF EtSave, EtManagerOK
  <2> QED
    BY ONLY <2>4, <2>5, <2>6 DEF EtStateOK
<1>2. CASE EtDeleteJourney(v)
  <2>1. EtTypeOK'
    BY <1>2 DEF EtDeleteJourney
  <2>2. EtLoopOK' /\ EtManagerOK'
    BY <1>2 DEF EtDeleteJourney, EtLoopOK, EtManagerOK, InDelivery
  <2> QED
    BY ONLY <2>1, <2>2 DEF EtStateOK
<1> QED
  BY <1>1, <1>2

\* The handler of a request, and the end of a resource.
LEMMA EtSubscriptionOK ==
  ASSUME EtStateOK, NEW s \in EtSubs, NEW l \in EtLines,
         \/ EtAddLineStopVisits(s, l) \/ EtAddNewResource(s, l)
         \/ EtDeleteResource(s, l)
  PROVE  EtStateOK'
<1> USE DEF EtStateOK, EtTypeOK, etMgrVars, etSubVars, etLoopVars, etFeedVars,
            etModelVars
<1>1. CASE EtAddLineStopVisits(s, l)
  <2>1. etRequests' \in [EtSubs -> [EtLines -> 0..EtMaxRequests]]
    <3>1. etRequests[s][l] + 1 \in 0..EtMaxRequests
      BY <1>1, EtAssumption DEF EtAddLineStopVisits, EtAssumption
    <3>2. etRequests' = [etRequests EXCEPT ![s][l] = etRequests[s][l] + 1]
      BY <1>1 DEF EtAddLineStopVisits
    <3> QED
      BY <3>1, <3>2, ExceptTwiceType
  <2>2. etPending' \in [EtSubs -> SUBSET EtVisits]
    BY <1>1 DEF EtAddLineStopVisits
  <2>3. EtTypeOK'
    BY <1>1, <2>1, <2>2 DEF EtAddLineStopVisits
  <2>4. EtLoopOK' /\ EtManagerOK'
    BY <1>1 DEF EtAddLineStopVisits, EtLoopOK, EtManagerOK, InDelivery
  <2> QED
    BY ONLY <2>3, <2>4 DEF EtStateOK
<1>2. CASE EtAddNewResource(s, l) \/ EtDeleteResource(s, l)
  <2>1. /\ etLast' = [etLast EXCEPT ![s] = EtLastOfLine(s, l)]
        /\ EtOrphaned(s, l)
        /\ etResources' = [etResources EXCEPT ![s] = @ \cup {l}]
           \/ etResources' = [etResources EXCEPT ![s] = @ \ {l}]
        /\ etAsked' \subseteq etAsked
        /\ UNCHANGED <<etModelVars, etMgrVars, etRequests, etPending, etPc,
                       etBatch, etSub, etTodo, etDelivery, etFeedVars>>
    BY <1>2 DEF EtAddNewResource, EtDeleteResource
  <2>2. etLast' \in [EtSubs -> [EtVisits -> EtVisit \cup {EtNone}]]
    <3>1. EtLastOfLine(s, l) \in [EtVisits -> EtVisit \cup {EtNone}]
      BY DEF EtLastOfLine
    <3> QED
      BY <2>1, <3>1
  <2>3. etResources' \in [EtSubs -> SUBSET EtLines]
    <3>1. /\ etResources[s] \cup {l} \in SUBSET EtLines
          /\ etResources[s] \ {l} \in SUBSET EtLines
          /\ etResources \in [EtSubs -> SUBSET EtLines]
      OBVIOUS
    <3> QED
      BY ONLY <2>1, <3>1, ExceptType
  <2>4. etCalled' \in {etCalled, EtNone}
    BY <2>1 DEF EtOrphaned
  <2>5. EtTypeOK'
    BY <2>1, <2>2, <2>3, <2>4
  <2>6. EtLoopOK'
    <3>1. etCalled' # EtNone =>
            /\ etCalled' = etCalled
            /\ EtLineOf(etCalled) \in etResources'[etSub]
      <4>1. SUFFICES ASSUME etCalled' # EtNone
                     PROVE  EtLineOf(etCalled) \in etResources'[etSub]
        BY <2>4
      <4>2. ~(etSub = s /\ EtLineOf(etCalled) = l) /\ etCalled # EtNone
        BY <2>1, <4>1 DEF EtOrphaned
      <4>3. /\ EtLineOf(etCalled) \in etResources[etSub] /\ etSub \in EtSubs
            /\ etResources \in [EtSubs -> SUBSET EtLines]
        BY <4>2 DEF EtLoopOK
      <4> QED
        BY ONLY <2>1, <4>2, <4>3
    <3> QED
      BY <2>1, <3>1, <2>4 DEF EtLoopOK, InDelivery
  <2>7. EtManagerOK'
    BY <2>1 DEF EtManagerOK
  <2> QED
    BY ONLY <2>5, <2>6, <2>7 DEF EtStateOK
<1> QED
  BY <1>1, <1>2

\* The broadcast manager.
LEMMA EtManagerStepOK ==
  ASSUME EtStateOK,
         \/ \E v \in EtVisits : EtFind(v)
         \/ \E s \in EtSubs : EtCheckEvent(s)
  PROVE  EtStateOK'
<1> USE DEF EtStateOK, EtTypeOK, etMgrVars, etSubVars, etLoopVars, etFeedVars,
            etModelVars
<1>1. ASSUME NEW v \in EtVisits, EtFind(v) PROVE EtStateOK'
  <2>1. EtTypeOK'
    BY <1>1 DEF EtFind
  <2>2. EtLoopOK' /\ EtManagerOK'
    BY <1>1 DEF EtFind, EtLoopOK, EtManagerOK, InDelivery
  <2> QED
    BY ONLY <2>1, <2>2 DEF EtStateOK
<1>2. ASSUME NEW s \in EtSubs, EtCheckEvent(s) PROVE EtStateOK'
  <2>1. etEvent \in EtVisits /\ etSeen \in EtVisit
    BY <1>2 DEF EtCheckEvent, EtManagerOK
  <2>2. etPending' \in [EtSubs -> SUBSET EtVisits]
    BY <1>2, <2>1 DEF EtCheckEvent
  <2>3. etLast' \in [EtSubs -> [EtVisits -> EtVisit \cup {EtNone}]]
    <3> DEFINE new == IF etLast[s][etEvent] = EtNone THEN etSeen
                      ELSE etLast[s][etEvent]
    <3>1. new \in EtVisit \cup {EtNone}
      BY <2>1
    <3>2. etLast' = [etLast EXCEPT ![s][etEvent] = new] \/ etLast' = etLast
      BY <1>2 DEF EtCheckEvent
    <3>3. etLast \in [EtSubs -> [EtVisits -> EtVisit \cup {EtNone}]]
      OBVIOUS
    <3> HIDE DEF new
    <3>4. [etLast EXCEPT ![s][etEvent] = new]
            \in [EtSubs -> [EtVisits -> EtVisit \cup {EtNone}]]
      BY ONLY <3>1, <3>3, ExceptTwiceType
    <3> QED
      BY ONLY <3>2, <3>3, <3>4
  <2>4. EtTypeOK'
    BY <1>2, <2>2, <2>3 DEF EtCheckEvent
  <2>5. EtLoopOK' /\ EtManagerOK'
    BY <1>2 DEF EtCheckEvent, EtLoopOK, EtManagerOK, InDelivery
  <2> QED
    BY ONLY <2>4, <2>5 DEF EtStateOK
<1> QED
  BY <1>1, <1>2

\* The broadcaster loop, the stop visits of one subscription.
LEMMA EtVisitsOK ==
  ASSUME EtStateOK,
         \/ EtSetLastState
         \/ \E v \in EtVisits : EtCall(v) \/ EtSkip(v) \/ EtReturn(v)
  PROVE  EtStateOK'
<1> USE DEF EtStateOK, EtTypeOK, etMgrVars, etSubVars, etLoopVars, etFeedVars,
            etModelVars
<1>1. ASSUME NEW v \in EtVisits, EtCall(v) PROVE EtStateOK'
  <2>1. etVisits[v] \in EtVisit /\ etVisits[v] # EtNone /\ v # EtNone
    BY <1>1, EtAssumption DEF EtCall, EtManagerOK, EtAssumption
  <2>2. /\ etDelivery' \in [EtVisits -> EtVisit \cup {EtNone}]
        /\ etDelivery'[v] = etVisits[v]
    BY <1>1, <2>1 DEF EtCall
  <2>3. EtTypeOK'
    BY <1>1, <2>2 DEF EtCall
  <2>4. EtLoopOK'
    BY <1>1, <2>1, <2>2 DEF EtCall, EtLoopOK, InDelivery
  <2>5. EtManagerOK'
    BY <1>1 DEF EtCall, EtManagerOK
  <2> QED
    BY ONLY <2>3, <2>4, <2>5 DEF EtStateOK
<1>2. CASE EtSetLastState
  <2>1. etLast' \in [EtSubs -> [EtVisits -> EtVisit \cup {EtNone}]]
    <3>1. CASE etCalled = EtNone
      BY <1>2, <3>1 DEF EtSetLastState
    <3>2. CASE etCalled # EtNone
      <4>1. etLast' = [etLast EXCEPT ![etSub][etCalled] = etDelivery[etCalled]]
        BY <1>2, <3>2 DEF EtSetLastState, EtRecord
      <4>2. /\ etDelivery[etCalled] \in EtVisit \cup {EtNone}
            /\ etLast \in [EtSubs -> [EtVisits -> EtVisit \cup {EtNone}]]
        BY <3>2
      <4> QED
        BY ONLY <4>1, <4>2, ExceptTwiceType
    <3> QED
      BY <3>1, <3>2
  <2>2. EtTypeOK'
    BY <1>2, <2>1 DEF EtSetLastState
  <2>3. EtLoopOK' /\ EtManagerOK'
    BY <1>2 DEF EtSetLastState, EtLoopOK, EtManagerOK, InDelivery
  <2> QED
    BY ONLY <2>2, <2>3 DEF EtStateOK
<1>3. ASSUME NEW v \in EtVisits, EtSkip(v) PROVE EtStateOK'
  <2>1. etMissed' \in [EtSubs -> SUBSET EtVisits]
    BY <1>3 DEF EtSkip
  <2>2. EtTypeOK'
    BY <1>3, <2>1 DEF EtSkip
  <2>3. EtLoopOK' /\ EtManagerOK'
    BY <1>3 DEF EtSkip, EtLoopOK, EtManagerOK, InDelivery
  <2> QED
    BY ONLY <2>2, <2>3 DEF EtStateOK
<1>4. ASSUME NEW v \in EtVisits, EtReturn(v) PROVE EtStateOK'
  <2>1. etMissed' \in [EtSubs -> SUBSET EtVisits]
    <3>1. /\ etMissed \in [EtSubs -> SUBSET EtVisits]
          /\ etBatch \in [EtSubs -> SUBSET EtVisits] /\ etTodo \subseteq EtVisits
      OBVIOUS
    <3>2. etMissed' = [s \in EtSubs |-> etMissed[s] \cup etBatch[s] \cup
                        IF s = etSub THEN etTodo \cup InDelivery ELSE {}]
      BY <1>4 DEF EtReturn
    <3> QED
      BY ONLY <3>1, <3>2 DEF InDelivery
  <2>2. etCalled = EtNone
    BY <1>4 DEF EtReturn, EtLoopOK
  <2>3. EtTypeOK'
    BY <1>4, <2>1, <2>2, EtEmptyTypes DEF EtReturn
  <2>4. EtLoopOK' /\ EtManagerOK'
    BY <1>4, <2>2 DEF EtReturn, EtLoopOK, EtManagerOK, InDelivery
  <2> QED
    BY ONLY <2>3, <2>4 DEF EtStateOK
<1> QED
  BY <1>1, <1>2, <1>3, <1>4

\* The broadcaster loop, the subscriptions of a batch.
LEMMA EtBatchOK ==
  ASSUME EtStateOK,
         \/ EtTick \/ EtBatchDone \/ \E s \in EtSubs : EtVisitSub(s)
         \/ \E ok \in BOOLEAN : EtSendDelivery(ok)
  PROVE  EtStateOK'
<1> USE DEF EtStateOK, EtTypeOK, etMgrVars, etSubVars, etLoopVars, etFeedVars,
            etModelVars
<1>1. CASE EtTick
  BY <1>1, EtEmptyTypes DEF EtTick, EtLoopOK, EtManagerOK, InDelivery
<1>2. CASE EtBatchDone
  <2>1. etBatch = EtLoopIdle
    BY <1>2 DEF EtBatchDone, EtLoopIdle
  <2> QED
    BY <1>2, <2>1 DEF EtBatchDone, EtLoopOK, EtManagerOK, InDelivery
<1>3. ASSUME NEW s \in EtSubs, EtVisitSub(s) PROVE EtStateOK'
  <2>1. etBatch' \in [EtSubs -> SUBSET EtVisits] /\ etTodo' \subseteq EtVisits
    BY <1>3 DEF EtVisitSub
  <2> QED
    BY <1>3, <2>1 DEF EtVisitSub, EtLoopOK, EtManagerOK, InDelivery
<1>4. ASSUME NEW ok \in BOOLEAN, EtSendDelivery(ok) PROVE EtStateOK'
  <2>1. etMissed' \in [EtSubs -> SUBSET EtVisits]
    <3>1. etMissed \in [EtSubs -> SUBSET EtVisits] /\ InDelivery \subseteq EtVisits
      BY DEF InDelivery
    <3>2. \/ etMissed' = [etMissed EXCEPT ![etSub] = @ \ InDelivery]
          \/ etMissed' = [etMissed EXCEPT ![etSub] = @ \cup InDelivery]
      BY <1>4 DEF EtSendDelivery
    <3> QED
      BY ONLY <3>1, <3>2
  <2>2. etKnown' \in [EtSubs -> [EtVisits -> EtVisit \cup {EtNone}]]
    BY <1>4 DEF EtSendDelivery, InDelivery
  <2>3. etCalled = EtNone
    BY <1>4 DEF EtSendDelivery, EtLoopOK
  <2>4. EtTypeOK'
    BY <1>4, <2>1, <2>2, <2>3, EtEmptyTypes DEF EtSendDelivery
  <2>5. EtLoopOK' /\ EtManagerOK'
    BY <1>4, <2>3 DEF EtSendDelivery, EtLoopOK, EtManagerOK, InDelivery
  <2> QED
    BY ONLY <2>4, <2>5 DEF EtStateOK
<1> QED
  BY <1>1, <1>2, <1>3, <1>4

-----------------------------------------------------------------------------
(* EstimatedTimetable: what a step does to one stop visit.                 *)

\* The delivery with a stop visit reaches the subscriber.
EtSent(s, v) == s = etSub /\ v \in InDelivery /\ EtSendDelivery(TRUE)

\* What is on its way stays so, or is lost or sent.
LEMMA EtStaysQueued ==
  ASSUME EtStateOK, EtNext, NEW s \in EtSubs, NEW v \in EtVisits,
         EtQueued(s, v) \/ v \in etMissed[s]
  PROVE  EtQueued(s, v)' \/ v \in etMissed'[s] \/ EtSent(s, v)
<1> DEFINE Goal == EtQueued(s, v)' \/ v \in etMissed'[s] \/ EtSent(s, v)
<1>1. /\ etPending \in [EtSubs -> SUBSET EtVisits]
      /\ etBatch \in [EtSubs -> SUBSET EtVisits]
      /\ etMissed \in [EtSubs -> SUBSET EtVisits]
      /\ etDelivery \in [EtVisits -> EtVisit \cup {EtNone}]
      /\ etPc \in {"idle", "batch"} => etTodo = {} /\ InDelivery = {}
      /\ etPc = "idle" => etBatch = EtLoopIdle
      /\ etPc \in {"idle", "batch", "visits", "record"}
      /\ \A u \in etJourneys : etVisits[u] # EtNone
      /\ s \in EtSubs /\ v \in EtVisits
      /\ EtQueued(s, v) \/ v \in etMissed[s]
  BY EtAssumption DEF EtAssumption, EtStateOK, EtTypeOK, EtLoopOK, EtManagerOK,
                      InDelivery, EtNothing
<1> USE DEF etModelVars, etMgrVars, etSubVars, etLoopVars, etFeedVars, InDelivery
<1>2. ASSUME NEW u \in EtVisits, NEW state \in EtSaved, EtSave(u, state)
      PROVE  Goal
  BY ONLY <1>1, <1>2 DEF EtSave, EtQueued, EtSent, EtLoopIdle
<1>3. ASSUME NEW u \in EtVisits, EtDeleteJourney(u) PROVE Goal
  BY ONLY <1>1, <1>3 DEF EtDeleteJourney, EtQueued, EtSent, EtLoopIdle
<1>4. ASSUME NEW u \in EtVisits, EtFind(u) PROVE Goal
  BY ONLY <1>1, <1>4 DEF EtFind, EtQueued, EtSent, EtLoopIdle
<1>5. ASSUME NEW u \in EtVisits, EtCall(u) PROVE Goal
  BY ONLY <1>1, <1>5 DEF EtCall, EtQueued, EtSent, EtLoopIdle
<1>6. ASSUME NEW u \in EtVisits, EtSkip(u) PROVE Goal
  <2>1. etMissed'[s] = IF s = etSub THEN etMissed[s] \cup {u} ELSE etMissed[s]
    BY ONLY <1>1, <1>6 DEF EtSkip
  <2>2. /\ etTodo' = etTodo \ {u}
        /\ UNCHANGED <<etPending, etBatch, etSub, etDelivery>>
    BY ONLY <1>6 DEF EtSkip
  <2> QED
    BY ONLY <1>1, <2>1, <2>2 DEF EtQueued
<1>7. ASSUME NEW u \in EtVisits, EtReturn(u) PROVE Goal
  BY ONLY <1>1, <1>7 DEF EtReturn, EtQueued, EtSent, EtLoopIdle
<1>8. ASSUME NEW t \in EtSubs, EtVisitSub(t) PROVE Goal
  BY ONLY <1>1, <1>8 DEF EtVisitSub, EtQueued, EtSent, EtLoopIdle
<1>9. ASSUME NEW t \in EtSubs, EtCheckEvent(t) PROVE Goal
  <2>1. etPending[s] \subseteq etPending'[s]
    BY ONLY <1>1, <1>9 DEF EtCheckEvent
  <2>2. UNCHANGED <<etLoopVars, etFeedVars>>
    BY ONLY <1>9 DEF EtCheckEvent
  <2> QED
    BY ONLY <1>1, <2>1, <2>2 DEF EtQueued
<1>10. ASSUME NEW t \in EtSubs, NEW l \in EtLines, EtAddLineStopVisits(t, l)
      PROVE  Goal
  BY ONLY <1>1, <1>10 DEF EtAddLineStopVisits, EtQueued, EtSent, EtLoopIdle
<1>11. ASSUME NEW t \in EtSubs, NEW l \in EtLines, EtAddNewResource(t, l)
      PROVE  Goal
  BY ONLY <1>1, <1>11 DEF EtAddNewResource, EtQueued, EtSent, EtLoopIdle
<1>12. ASSUME NEW t \in EtSubs, NEW l \in EtLines, EtDeleteResource(t, l)
      PROVE  Goal
  BY ONLY <1>1, <1>12 DEF EtDeleteResource, EtQueued, EtSent, EtLoopIdle
<1>13. CASE EtTick
  BY ONLY <1>1, <1>13 DEF EtTick, EtQueued, EtSent, EtLoopIdle
<1>14. CASE EtBatchDone
  BY ONLY <1>1, <1>14 DEF EtBatchDone, EtQueued, EtSent, EtLoopIdle
<1>15. CASE EtSetLastState
  BY ONLY <1>1, <1>15 DEF EtSetLastState, EtQueued, EtSent, EtLoopIdle
<1>16. ASSUME NEW ok \in BOOLEAN, EtSendDelivery(ok) PROVE Goal
  BY ONLY <1>1, <1>16 DEF EtSendDelivery, EtQueued, EtSent, EtLoopIdle
<1> QED
  BY <1>2, <1>3, <1>4, <1>5, <1>6, <1>7, <1>8, <1>9, <1>10, <1>11, <1>12,
       <1>13, <1>14, <1>15, <1>16
  DEF EtNext

\* checkEvent finds no last state; SetLastState records what was put in the
\* delivery.
EtCheckedNew(s, v) ==
  /\ s \in etFound /\ etEvent = v /\ etLast[s][v] = EtNone
  /\ etLast'[s][v] = etSeen /\ v \in etPending'[s]

EtSetLast(s, v) ==
  /\ EtSetLastState
  /\ etSub = s /\ etCalled = v /\ etLast'[s][v] = etDelivery[v]

\* What a step does to the last state of a stop visit.
LEMMA EtLastChanges ==
  ASSUME EtStateOK, EtNext, NEW s \in EtSubs, NEW v \in EtVisits
  PROVE  \/ etLast'[s][v] = etLast[s][v]
         \/ etLast'[s][v] = EtNone /\ (etSub' = s => etCalled' # v)
         \/ EtCheckedNew(s, v) \/ EtSetLast(s, v)
<1> DEFINE Goal ==
         \/ etLast'[s][v] = etLast[s][v]
         \/ etLast'[s][v] = EtNone /\ (etSub' = s => etCalled' # v)
         \/ EtCheckedNew(s, v) \/ EtSetLast(s, v)
<1>1. /\ etLast \in [EtSubs -> [EtVisits -> EtVisit \cup {EtNone}]]
      /\ etPending \in [EtSubs -> SUBSET EtVisits]
      /\ etCalled \in EtVisits \cup {EtNone}
      /\ etFound # {} => etEvent \in EtVisits
      /\ v # EtNone /\ s \in EtSubs /\ v \in EtVisits
  BY EtAssumption DEF EtAssumption, EtStateOK, EtTypeOK, EtLoopOK, EtManagerOK,
                      InDelivery, EtNothing
<1> USE DEF etModelVars, etMgrVars, etSubVars, etLoopVars, etFeedVars, InDelivery
<1>2. ASSUME NEW u \in EtVisits, NEW state \in EtSaved, EtSave(u, state)
      PROVE  Goal
  BY ONLY <1>1, <1>2 DEF EtSave
<1>3. ASSUME NEW u \in EtVisits, EtDeleteJourney(u)
      PROVE  Goal
  BY ONLY <1>1, <1>3 DEF EtDeleteJourney
<1>4. ASSUME NEW u \in EtVisits, EtFind(u)
      PROVE  Goal
  BY ONLY <1>1, <1>4 DEF EtFind
<1>5. ASSUME NEW u \in EtVisits, EtCall(u)
      PROVE  Goal
  BY ONLY <1>1, <1>5 DEF EtCall
<1>6. ASSUME NEW u \in EtVisits, EtSkip(u)
      PROVE  Goal
  BY ONLY <1>1, <1>6 DEF EtSkip
<1>7. ASSUME NEW u \in EtVisits, EtReturn(u)
      PROVE  Goal
  BY ONLY <1>1, <1>7 DEF EtReturn
<1>8. ASSUME NEW t \in EtSubs, EtVisitSub(t)
      PROVE  Goal
  BY ONLY <1>1, <1>8 DEF EtVisitSub
<1>9. ASSUME NEW t \in EtSubs, EtCheckEvent(t)
      PROVE  Goal
  BY ONLY <1>1, <1>9 DEF EtCheckEvent, EtCheckedNew
<1>10. ASSUME NEW t \in EtSubs, NEW l \in EtLines,
             EtAddLineStopVisits(t, l)
      PROVE  Goal
  BY ONLY <1>1, <1>10 DEF EtAddLineStopVisits
<1>11. ASSUME NEW t \in EtSubs, NEW l \in EtLines, EtAddNewResource(t, l)
      PROVE  Goal
  BY ONLY <1>1, <1>11 DEF EtAddNewResource, EtOrphaned, EtLastOfLine
<1>12. ASSUME NEW t \in EtSubs, NEW l \in EtLines, EtDeleteResource(t, l)
      PROVE  Goal
  BY ONLY <1>1, <1>12 DEF EtDeleteResource, EtOrphaned, EtLastOfLine
<1>13. CASE EtTick
  BY ONLY <1>1, <1>13 DEF EtTick
<1>14. CASE EtBatchDone
  BY ONLY <1>1, <1>14 DEF EtBatchDone
<1>15. CASE EtSetLastState
  BY ONLY <1>1, <1>15 DEF EtSetLastState, EtSetLast, EtRecord
<1>16. ASSUME NEW ok \in BOOLEAN, EtSendDelivery(ok)
      PROVE  Goal
  BY ONLY <1>1, <1>16 DEF EtSendDelivery
<1> QED
  BY <1>2, <1>3, <1>4, <1>5, <1>6, <1>7, <1>8, <1>9, <1>10, <1>11,
     <1>12, <1>13, <1>14, <1>15, <1>16 DEF EtNext

\* What a step does to a stop visit that is in the delivery after it.
LEMMA EtDeliveryChanges ==
  ASSUME EtStateOK, EtNext, NEW v \in InDelivery'
  PROVE  /\ etSub \in EtSubs /\ etSub' = etSub
         /\ etPending[etSub] \subseteq etPending'[etSub]
         /\ \/ EtCall(v)
            \/ v \in InDelivery /\ etDelivery'[v] = etDelivery[v]
<1> DEFINE Goal ==
         /\ etSub \in EtSubs /\ etSub' = etSub
         /\ etPending[etSub] \subseteq etPending'[etSub]
         /\ \/ EtCall(v)
            \/ v \in InDelivery /\ etDelivery'[v] = etDelivery[v]
<1>1. /\ etPending \in [EtSubs -> SUBSET EtVisits]
      /\ etDelivery \in [EtVisits -> EtVisit \cup {EtNone}]
      /\ etPc \in {"idle", "batch"} => InDelivery = {}
      /\ etPc \in {"visits", "record"} => etSub \in EtSubs
      /\ etPc \in {"idle", "batch", "visits", "record"}
      /\ v \in EtVisits /\ etDelivery'[v] # EtNone
  BY EtAssumption DEF EtAssumption, EtStateOK, EtTypeOK, EtLoopOK, EtManagerOK,
                      InDelivery, EtNothing
<1> USE DEF etModelVars, etMgrVars, etSubVars, etLoopVars, etFeedVars, InDelivery
<1>2. ASSUME NEW u \in EtVisits, NEW state \in EtSaved, EtSave(u, state)
      PROVE  Goal
  BY ONLY <1>1, <1>2 DEF EtSave
<1>3. ASSUME NEW u \in EtVisits, EtDeleteJourney(u)
      PROVE  Goal
  BY ONLY <1>1, <1>3 DEF EtDeleteJourney
<1>4. ASSUME NEW u \in EtVisits, EtFind(u)
      PROVE  Goal
  BY ONLY <1>1, <1>4 DEF EtFind
<1>5. ASSUME NEW u \in EtVisits, EtCall(u)
      PROVE  Goal
  BY ONLY <1>1, <1>5 DEF EtCall
<1>6. ASSUME NEW u \in EtVisits, EtSkip(u)
      PROVE  Goal
  BY ONLY <1>1, <1>6 DEF EtSkip
<1>7. ASSUME NEW u \in EtVisits, EtReturn(u)
      PROVE  Goal
  BY ONLY <1>1, <1>7 DEF EtReturn, EtNothing
<1>8. ASSUME NEW t \in EtSubs, EtVisitSub(t)
      PROVE  Goal
  BY ONLY <1>1, <1>8 DEF EtVisitSub
<1>9. ASSUME NEW t \in EtSubs, EtCheckEvent(t)
      PROVE  Goal
  BY ONLY <1>1, <1>9 DEF EtCheckEvent
<1>10. ASSUME NEW t \in EtSubs, NEW l \in EtLines,
             EtAddLineStopVisits(t, l)
      PROVE  Goal
  BY ONLY <1>1, <1>10 DEF EtAddLineStopVisits
<1>11. ASSUME NEW t \in EtSubs, NEW l \in EtLines, EtAddNewResource(t, l)
      PROVE  Goal
  BY ONLY <1>1, <1>11 DEF EtAddNewResource
<1>12. ASSUME NEW t \in EtSubs, NEW l \in EtLines, EtDeleteResource(t, l)
      PROVE  Goal
  BY ONLY <1>1, <1>12 DEF EtDeleteResource
<1>13. CASE EtTick
  BY ONLY <1>1, <1>13 DEF EtTick
<1>14. CASE EtBatchDone
  BY ONLY <1>1, <1>14 DEF EtBatchDone
<1>15. CASE EtSetLastState
  BY ONLY <1>1, <1>15 DEF EtSetLastState
<1>16. ASSUME NEW ok \in BOOLEAN, EtSendDelivery(ok)
      PROVE  Goal
  BY ONLY <1>1, <1>16 DEF EtSendDelivery, EtNothing
<1> QED
  BY <1>2, <1>3, <1>4, <1>5, <1>6, <1>7, <1>8, <1>9, <1>10, <1>11,
     <1>12, <1>13, <1>14, <1>15, <1>16 DEF EtNext

\* What a step does to the stop visit about to be recorded.
LEMMA EtCalledChanges ==
  ASSUME EtStateOK, EtNext
  PROVE  \/ etCalled' = EtNone
            /\ \/ etCalled = EtNone
               \/ \E s \in EtSubs : EtSetLast(s, etCalled)
               \/ etLast'[etSub][etCalled] = EtNone
         \/ etCalled' = etCalled
         \/ EtCall(etCalled') /\ etCalled = EtNone
<1> DEFINE Goal ==
         \/ etCalled' = EtNone
            /\ \/ etCalled = EtNone
               \/ \E s \in EtSubs : EtSetLast(s, etCalled)
               \/ etLast'[etSub][etCalled] = EtNone
         \/ etCalled' = etCalled
         \/ EtCall(etCalled') /\ etCalled = EtNone
<1>1. /\ etLast \in [EtSubs -> [EtVisits -> EtVisit \cup {EtNone}]]
      /\ etPc = "record" => etSub \in EtSubs
      /\ etPc # "record" => etCalled = EtNone
      /\ etCalled \in EtVisits \cup {EtNone}
  BY EtAssumption DEF EtAssumption, EtStateOK, EtTypeOK, EtLoopOK, EtManagerOK,
                      InDelivery, EtNothing
<1> USE DEF etModelVars, etMgrVars, etSubVars, etLoopVars, etFeedVars, InDelivery
<1>2. ASSUME NEW u \in EtVisits, NEW state \in EtSaved, EtSave(u, state)
      PROVE  Goal
  BY ONLY <1>1, <1>2 DEF EtSave
<1>3. ASSUME NEW u \in EtVisits, EtDeleteJourney(u)
      PROVE  Goal
  BY ONLY <1>1, <1>3 DEF EtDeleteJourney
<1>4. ASSUME NEW u \in EtVisits, EtFind(u)
      PROVE  Goal
  BY ONLY <1>1, <1>4 DEF EtFind
<1>5. ASSUME NEW u \in EtVisits, EtCall(u)
      PROVE  Goal
  BY ONLY <1>1, <1>5 DEF EtCall
<1>6. ASSUME NEW u \in EtVisits, EtSkip(u)
      PROVE  Goal
  BY ONLY <1>1, <1>6 DEF EtSkip
<1>7. ASSUME NEW u \in EtVisits, EtReturn(u)
      PROVE  Goal
  BY ONLY <1>1, <1>7 DEF EtReturn
<1>8. ASSUME NEW t \in EtSubs, EtVisitSub(t)
      PROVE  Goal
  BY ONLY <1>1, <1>8 DEF EtVisitSub
<1>9. ASSUME NEW t \in EtSubs, EtCheckEvent(t)
      PROVE  Goal
  BY ONLY <1>1, <1>9 DEF EtCheckEvent
<1>10. ASSUME NEW t \in EtSubs, NEW l \in EtLines,
             EtAddLineStopVisits(t, l)
      PROVE  Goal
  BY ONLY <1>1, <1>10 DEF EtAddLineStopVisits
<1>11. ASSUME NEW t \in EtSubs, NEW l \in EtLines, EtAddNewResource(t, l)
      PROVE  Goal
  BY ONLY <1>1, <1>11 DEF EtAddNewResource, EtOrphaned, EtLastOfLine
<1>12. ASSUME NEW t \in EtSubs, NEW l \in EtLines, EtDeleteResource(t, l)
      PROVE  Goal
  BY ONLY <1>1, <1>12 DEF EtDeleteResource, EtOrphaned, EtLastOfLine
<1>13. CASE EtTick
  BY ONLY <1>1, <1>13 DEF EtTick
<1>14. CASE EtBatchDone
  BY ONLY <1>1, <1>14 DEF EtBatchDone
<1>15. CASE EtSetLastState
  BY ONLY <1>1, <1>15 DEF EtSetLastState, EtSetLast, EtRecord
<1>16. ASSUME NEW ok \in BOOLEAN, EtSendDelivery(ok)
      PROVE  Goal
  BY ONLY <1>1, <1>16 DEF EtSendDelivery
<1> QED
  BY <1>2, <1>3, <1>4, <1>5, <1>6, <1>7, <1>8, <1>9, <1>10, <1>11,
     <1>12, <1>13, <1>14, <1>15, <1>16 DEF EtNext

\* What a step tells the subscriber.
LEMMA EtKnownChanges ==
  ASSUME EtStateOK, EtNext, NEW s \in EtSubs, NEW v \in EtVisits
  PROVE  \/ etKnown'[s][v] = etKnown[s][v]
         \/ EtSent(s, v) /\ etKnown'[s][v] = etDelivery[v]
<1> DEFINE Goal ==
         \/ etKnown'[s][v] = etKnown[s][v]
         \/ EtSent(s, v) /\ etKnown'[s][v] = etDelivery[v]
<1>1. /\ etKnown \in [EtSubs -> [EtVisits -> EtVisit \cup {EtNone}]]
      /\ s \in EtSubs /\ v \in EtVisits
  BY EtAssumption DEF EtAssumption, EtStateOK, EtTypeOK, EtLoopOK, EtManagerOK,
                      InDelivery, EtNothing
<1> USE DEF etModelVars, etMgrVars, etSubVars, etLoopVars, etFeedVars, InDelivery
<1>2. ASSUME NEW u \in EtVisits, NEW state \in EtSaved, EtSave(u, state)
      PROVE  Goal
  BY ONLY <1>1, <1>2 DEF EtSave
<1>3. ASSUME NEW u \in EtVisits, EtDeleteJourney(u)
      PROVE  Goal
  BY ONLY <1>1, <1>3 DEF EtDeleteJourney
<1>4. ASSUME NEW u \in EtVisits, EtFind(u)
      PROVE  Goal
  BY ONLY <1>1, <1>4 DEF EtFind
<1>5. ASSUME NEW u \in EtVisits, EtCall(u)
      PROVE  Goal
  BY ONLY <1>1, <1>5 DEF EtCall
<1>6. ASSUME NEW u \in EtVisits, EtSkip(u)
      PROVE  Goal
  BY ONLY <1>1, <1>6 DEF EtSkip
<1>7. ASSUME NEW u \in EtVisits, EtReturn(u)
      PROVE  Goal
  BY ONLY <1>1, <1>7 DEF EtReturn
<1>8. ASSUME NEW t \in EtSubs, EtVisitSub(t)
      PROVE  Goal
  BY ONLY <1>1, <1>8 DEF EtVisitSub
<1>9. ASSUME NEW t \in EtSubs, EtCheckEvent(t)
      PROVE  Goal
  BY ONLY <1>1, <1>9 DEF EtCheckEvent
<1>10. ASSUME NEW t \in EtSubs, NEW l \in EtLines,
             EtAddLineStopVisits(t, l)
      PROVE  Goal
  BY ONLY <1>1, <1>10 DEF EtAddLineStopVisits
<1>11. ASSUME NEW t \in EtSubs, NEW l \in EtLines, EtAddNewResource(t, l)
      PROVE  Goal
  BY ONLY <1>1, <1>11 DEF EtAddNewResource
<1>12. ASSUME NEW t \in EtSubs, NEW l \in EtLines, EtDeleteResource(t, l)
      PROVE  Goal
  BY ONLY <1>1, <1>12 DEF EtDeleteResource
<1>13. CASE EtTick
  BY ONLY <1>1, <1>13 DEF EtTick
<1>14. CASE EtBatchDone
  BY ONLY <1>1, <1>14 DEF EtBatchDone
<1>15. CASE EtSetLastState
  BY ONLY <1>1, <1>15 DEF EtSetLastState
<1>16. ASSUME NEW ok \in BOOLEAN, EtSendDelivery(ok)
      PROVE  Goal
  BY ONLY <1>1, <1>16 DEF EtSendDelivery, EtSent
<1> QED
  BY <1>2, <1>3, <1>4, <1>5, <1>6, <1>7, <1>8, <1>9, <1>10, <1>11,
     <1>12, <1>13, <1>14, <1>15, <1>16 DEF EtNext

\* What a step does to the event of the broadcast manager.
LEMMA EtSeenChanges ==
  ASSUME EtStateOK, EtNext, NEW v \in EtVisits, etFound' # {}, etEvent' = v
  PROVE  \/ etFound # {} /\ etEvent = v /\ etSeen' = etSeen
         \/ etSeen' = etVisits[v]
<1> DEFINE Goal ==
         \/ etFound # {} /\ etEvent = v /\ etSeen' = etSeen
         \/ etSeen' = etVisits[v]
<1>1. /\ etFound' # {} /\ etEvent' = v
  OBVIOUS
<1> USE DEF etModelVars, etMgrVars, etSubVars, etLoopVars, etFeedVars, InDelivery
<1>2. ASSUME NEW u \in EtVisits, NEW state \in EtSaved, EtSave(u, state)
      PROVE  Goal
  BY ONLY <1>1, <1>2 DEF EtSave
<1>3. ASSUME NEW u \in EtVisits, EtDeleteJourney(u)
      PROVE  Goal
  BY ONLY <1>1, <1>3 DEF EtDeleteJourney
<1>4. ASSUME NEW u \in EtVisits, EtFind(u)
      PROVE  Goal
  BY ONLY <1>1, <1>4 DEF EtFind
<1>5. ASSUME NEW u \in EtVisits, EtCall(u)
      PROVE  Goal
  BY ONLY <1>1, <1>5 DEF EtCall
<1>6. ASSUME NEW u \in EtVisits, EtSkip(u)
      PROVE  Goal
  BY ONLY <1>1, <1>6 DEF EtSkip
<1>7. ASSUME NEW u \in EtVisits, EtReturn(u)
      PROVE  Goal
  BY ONLY <1>1, <1>7 DEF EtReturn
<1>8. ASSUME NEW t \in EtSubs, EtVisitSub(t)
      PROVE  Goal
  BY ONLY <1>1, <1>8 DEF EtVisitSub
<1>9. ASSUME NEW t \in EtSubs, EtCheckEvent(t)
      PROVE  Goal
  BY ONLY <1>1, <1>9 DEF EtCheckEvent
<1>10. ASSUME NEW t \in EtSubs, NEW l \in EtLines,
             EtAddLineStopVisits(t, l)
      PROVE  Goal
  BY ONLY <1>1, <1>10 DEF EtAddLineStopVisits
<1>11. ASSUME NEW t \in EtSubs, NEW l \in EtLines, EtAddNewResource(t, l)
      PROVE  Goal
  BY ONLY <1>1, <1>11 DEF EtAddNewResource
<1>12. ASSUME NEW t \in EtSubs, NEW l \in EtLines, EtDeleteResource(t, l)
      PROVE  Goal
  BY ONLY <1>1, <1>12 DEF EtDeleteResource
<1>13. CASE EtTick
  BY ONLY <1>1, <1>13 DEF EtTick
<1>14. CASE EtBatchDone
  BY ONLY <1>1, <1>14 DEF EtBatchDone
<1>15. CASE EtSetLastState
  BY ONLY <1>1, <1>15 DEF EtSetLastState
<1>16. ASSUME NEW ok \in BOOLEAN, EtSendDelivery(ok)
      PROVE  Goal
  BY ONLY <1>1, <1>16 DEF EtSendDelivery
<1> QED
  BY <1>2, <1>3, <1>4, <1>5, <1>6, <1>7, <1>8, <1>9, <1>10, <1>11,
     <1>12, <1>13, <1>14, <1>15, <1>16 DEF EtNext

\* A stop visit is no more departed only when its departure is taken back.
LEMMA EtDepartedBefore ==
  ASSUME EtStateOK, EtNext, NEW v \in EtVisits,
         v \notin etTakenBack', ~EtDeparted(etVisits'[v])
  PROVE  v \notin etTakenBack /\ ~EtDeparted(etVisits[v])
<1> DEFINE Goal ==
         v \notin etTakenBack /\ ~EtDeparted(etVisits[v])
<1>1. /\ etVisits \in [EtVisits -> EtVisit \cup {EtNone}]
      /\ v \in EtVisits
      /\ v \notin etTakenBack' /\ ~EtDeparted(etVisits'[v])
      /\ EtSaved \subseteq EtVisit /\ EtNone \notin EtVisit
  BY EtAssumption DEF EtAssumption, EtStateOK, EtTypeOK, EtLoopOK, EtManagerOK,
                      InDelivery, EtNothing
<1> USE DEF etModelVars, etMgrVars, etSubVars, etLoopVars, etFeedVars, InDelivery
<1>2. ASSUME NEW u \in EtVisits, NEW state \in EtSaved, EtSave(u, state)
      PROVE  Goal
  BY ONLY <1>1, <1>2 DEF EtSave, EtDeparted
<1>3. ASSUME NEW u \in EtVisits, EtDeleteJourney(u)
      PROVE  Goal
  BY ONLY <1>1, <1>3 DEF EtDeleteJourney, EtDeparted
<1>4. ASSUME NEW u \in EtVisits, EtFind(u)
      PROVE  Goal
  BY ONLY <1>1, <1>4 DEF EtFind, EtDeparted
<1>5. ASSUME NEW u \in EtVisits, EtCall(u)
      PROVE  Goal
  BY ONLY <1>1, <1>5 DEF EtCall, EtDeparted
<1>6. ASSUME NEW u \in EtVisits, EtSkip(u)
      PROVE  Goal
  BY ONLY <1>1, <1>6 DEF EtSkip, EtDeparted
<1>7. ASSUME NEW u \in EtVisits, EtReturn(u)
      PROVE  Goal
  BY ONLY <1>1, <1>7 DEF EtReturn, EtDeparted
<1>8. ASSUME NEW t \in EtSubs, EtVisitSub(t)
      PROVE  Goal
  BY ONLY <1>1, <1>8 DEF EtVisitSub, EtDeparted
<1>9. ASSUME NEW t \in EtSubs, EtCheckEvent(t)
      PROVE  Goal
  BY ONLY <1>1, <1>9 DEF EtCheckEvent, EtDeparted
<1>10. ASSUME NEW t \in EtSubs, NEW l \in EtLines,
             EtAddLineStopVisits(t, l)
      PROVE  Goal
  BY ONLY <1>1, <1>10 DEF EtAddLineStopVisits, EtDeparted
<1>11. ASSUME NEW t \in EtSubs, NEW l \in EtLines, EtAddNewResource(t, l)
      PROVE  Goal
  BY ONLY <1>1, <1>11 DEF EtAddNewResource, EtDeparted
<1>12. ASSUME NEW t \in EtSubs, NEW l \in EtLines, EtDeleteResource(t, l)
      PROVE  Goal
  BY ONLY <1>1, <1>12 DEF EtDeleteResource, EtDeparted
<1>13. CASE EtTick
  BY ONLY <1>1, <1>13 DEF EtTick, EtDeparted
<1>14. CASE EtBatchDone
  BY ONLY <1>1, <1>14 DEF EtBatchDone, EtDeparted
<1>15. CASE EtSetLastState
  BY ONLY <1>1, <1>15 DEF EtSetLastState, EtDeparted
<1>16. ASSUME NEW ok \in BOOLEAN, EtSendDelivery(ok)
      PROVE  Goal
  BY ONLY <1>1, <1>16 DEF EtSendDelivery, EtDeparted
<1> QED
  BY <1>2, <1>3, <1>4, <1>5, <1>6, <1>7, <1>8, <1>9, <1>10, <1>11,
     <1>12, <1>13, <1>14, <1>15, <1>16 DEF EtNext

\* What was taken back is remembered.
LEMMA EtTakenBackGrows ==
  ASSUME EtNext
  PROVE  etTakenBack \subseteq etTakenBack'
<1> DEFINE Goal ==
         etTakenBack \subseteq etTakenBack'
<1>1. TRUE
  OBVIOUS
<1> USE DEF etModelVars, etMgrVars, etSubVars, etLoopVars, etFeedVars, InDelivery
<1>2. ASSUME NEW u \in EtVisits, NEW state \in EtSaved, EtSave(u, state)
      PROVE  Goal
  BY ONLY <1>1, <1>2 DEF EtSave
<1>3. ASSUME NEW u \in EtVisits, EtDeleteJourney(u)
      PROVE  Goal
  BY ONLY <1>1, <1>3 DEF EtDeleteJourney
<1>4. ASSUME NEW u \in EtVisits, EtFind(u)
      PROVE  Goal
  BY ONLY <1>1, <1>4 DEF EtFind
<1>5. ASSUME NEW u \in EtVisits, EtCall(u)
      PROVE  Goal
  BY ONLY <1>1, <1>5 DEF EtCall
<1>6. ASSUME NEW u \in EtVisits, EtSkip(u)
      PROVE  Goal
  BY ONLY <1>1, <1>6 DEF EtSkip
<1>7. ASSUME NEW u \in EtVisits, EtReturn(u)
      PROVE  Goal
  BY ONLY <1>1, <1>7 DEF EtReturn
<1>8. ASSUME NEW t \in EtSubs, EtVisitSub(t)
      PROVE  Goal
  BY ONLY <1>1, <1>8 DEF EtVisitSub
<1>9. ASSUME NEW t \in EtSubs, EtCheckEvent(t)
      PROVE  Goal
  BY ONLY <1>1, <1>9 DEF EtCheckEvent
<1>10. ASSUME NEW t \in EtSubs, NEW l \in EtLines,
             EtAddLineStopVisits(t, l)
      PROVE  Goal
  BY ONLY <1>1, <1>10 DEF EtAddLineStopVisits
<1>11. ASSUME NEW t \in EtSubs, NEW l \in EtLines, EtAddNewResource(t, l)
      PROVE  Goal
  BY ONLY <1>1, <1>11 DEF EtAddNewResource
<1>12. ASSUME NEW t \in EtSubs, NEW l \in EtLines, EtDeleteResource(t, l)
      PROVE  Goal
  BY ONLY <1>1, <1>12 DEF EtDeleteResource
<1>13. CASE EtTick
  BY ONLY <1>1, <1>13 DEF EtTick
<1>14. CASE EtBatchDone
  BY ONLY <1>1, <1>14 DEF EtBatchDone
<1>15. CASE EtSetLastState
  BY ONLY <1>1, <1>15 DEF EtSetLastState
<1>16. ASSUME NEW ok \in BOOLEAN, EtSendDelivery(ok)
      PROVE  Goal
  BY ONLY <1>1, <1>16 DEF EtSendDelivery
<1> QED
  BY <1>2, <1>3, <1>4, <1>5, <1>6, <1>7, <1>8, <1>9, <1>10, <1>11,
     <1>12, <1>13, <1>14, <1>15, <1>16 DEF EtNext

\* A departure is handled once the broadcast manager takes its event.
LEMMA EtHandledChanges ==
  ASSUME EtStateOK, EtNext, NEW v \in EtHandled'
  PROVE  /\ v \in EtVisits /\ EtDeparted(etVisits[v])
         /\ v \in EtHandled \/ EtFind(v)
<1> DEFINE Goal ==
         /\ v \in EtVisits /\ EtDeparted(etVisits[v])
         /\ v \in EtHandled \/ EtFind(v)
<1>1. /\ etVisits \in [EtVisits -> EtVisit \cup {EtNone}]
      /\ etJourneys \subseteq EtVisits /\ v \in EtHandled' 
  BY DEF EtStateOK, EtTypeOK
<1> USE DEF etModelVars, etMgrVars, etSubVars, etLoopVars, etFeedVars, InDelivery
<1>2. ASSUME NEW u \in EtVisits, NEW state \in EtSaved, EtSave(u, state)
      PROVE  Goal
  BY ONLY <1>1, <1>2 DEF EtSave, EtHandled, EtDeparted
<1>3. ASSUME NEW u \in EtVisits, EtDeleteJourney(u)
      PROVE  Goal
  BY ONLY <1>1, <1>3 DEF EtDeleteJourney, EtHandled, EtDeparted
<1>4. ASSUME NEW u \in EtVisits, EtFind(u)
      PROVE  Goal
  BY ONLY <1>1, <1>4 DEF EtFind, EtHandled, EtDeparted
<1>5. ASSUME NEW u \in EtVisits, EtCall(u)
      PROVE  Goal
  BY ONLY <1>1, <1>5 DEF EtCall, EtHandled, EtDeparted
<1>6. ASSUME NEW u \in EtVisits, EtSkip(u)
      PROVE  Goal
  BY ONLY <1>1, <1>6 DEF EtSkip, EtHandled, EtDeparted
<1>7. ASSUME NEW u \in EtVisits, EtReturn(u)
      PROVE  Goal
  BY ONLY <1>1, <1>7 DEF EtReturn, EtHandled, EtDeparted
<1>8. ASSUME NEW t \in EtSubs, EtVisitSub(t)
      PROVE  Goal
  BY ONLY <1>1, <1>8 DEF EtVisitSub, EtHandled, EtDeparted
<1>9. ASSUME NEW t \in EtSubs, EtCheckEvent(t)
      PROVE  Goal
  BY ONLY <1>1, <1>9 DEF EtCheckEvent, EtHandled, EtDeparted
<1>10. ASSUME NEW t \in EtSubs, NEW l \in EtLines,
             EtAddLineStopVisits(t, l)
      PROVE  Goal
  BY ONLY <1>1, <1>10 DEF EtAddLineStopVisits, EtHandled, EtDeparted
<1>11. ASSUME NEW t \in EtSubs, NEW l \in EtLines, EtAddNewResource(t, l)
      PROVE  Goal
  BY ONLY <1>1, <1>11 DEF EtAddNewResource, EtHandled, EtDeparted
<1>12. ASSUME NEW t \in EtSubs, NEW l \in EtLines, EtDeleteResource(t, l)
      PROVE  Goal
  BY ONLY <1>1, <1>12 DEF EtDeleteResource, EtHandled, EtDeparted
<1>13. CASE EtTick
  BY ONLY <1>1, <1>13 DEF EtTick, EtHandled, EtDeparted
<1>14. CASE EtBatchDone
  BY ONLY <1>1, <1>14 DEF EtBatchDone, EtHandled, EtDeparted
<1>15. CASE EtSetLastState
  BY ONLY <1>1, <1>15 DEF EtSetLastState, EtHandled, EtDeparted
<1>16. ASSUME NEW ok \in BOOLEAN, EtSendDelivery(ok)
      PROVE  Goal
  BY ONLY <1>1, <1>16 DEF EtSendDelivery, EtHandled, EtDeparted
<1> QED
  BY <1>2, <1>3, <1>4, <1>5, <1>6, <1>7, <1>8, <1>9, <1>10, <1>11,
     <1>12, <1>13, <1>14, <1>15, <1>16 DEF EtNext

\* A resource has no last states when it is new.
LEMMA EtResourceStays ==
  ASSUME EtStateOK, EtNext, NEW s \in EtSubs, NEW v \in EtVisits,
         EtLineOf(v) \in etResources'[s],
         etLast'[s][v] # EtNone \/ (etSub' = s /\ etCalled' = v)
  PROVE  EtLineOf(v) \in etResources[s]
<1> DEFINE Goal ==
         EtLineOf(v) \in etResources[s]
<1>1. /\ etResources \in [EtSubs -> SUBSET EtLines]
      /\ etLast \in [EtSubs -> [EtVisits -> EtVisit \cup {EtNone}]]
      /\ s \in EtSubs /\ v \in EtVisits /\ v # EtNone
      /\ EtLineOf(v) \in etResources'[s]
      /\ etLast'[s][v] # EtNone \/ (etSub' = s /\ etCalled' = v)
  BY EtAssumption DEF EtAssumption, EtStateOK, EtTypeOK, EtLoopOK, EtManagerOK,
                      InDelivery, EtNothing
<1> USE DEF etModelVars, etMgrVars, etSubVars, etLoopVars, etFeedVars, InDelivery
<1>2. ASSUME NEW u \in EtVisits, NEW state \in EtSaved, EtSave(u, state)
      PROVE  Goal
  BY ONLY <1>1, <1>2 DEF EtSave, EtOrphaned, EtLastOfLine
<1>3. ASSUME NEW u \in EtVisits, EtDeleteJourney(u)
      PROVE  Goal
  BY ONLY <1>1, <1>3 DEF EtDeleteJourney, EtOrphaned, EtLastOfLine
<1>4. ASSUME NEW u \in EtVisits, EtFind(u)
      PROVE  Goal
  BY ONLY <1>1, <1>4 DEF EtFind, EtOrphaned, EtLastOfLine
<1>5. ASSUME NEW u \in EtVisits, EtCall(u)
      PROVE  Goal
  BY ONLY <1>1, <1>5 DEF EtCall, EtOrphaned, EtLastOfLine
<1>6. ASSUME NEW u \in EtVisits, EtSkip(u)
      PROVE  Goal
  BY ONLY <1>1, <1>6 DEF EtSkip, EtOrphaned, EtLastOfLine
<1>7. ASSUME NEW u \in EtVisits, EtReturn(u)
      PROVE  Goal
  BY ONLY <1>1, <1>7 DEF EtReturn, EtOrphaned, EtLastOfLine
<1>8. ASSUME NEW t \in EtSubs, EtVisitSub(t)
      PROVE  Goal
  BY ONLY <1>1, <1>8 DEF EtVisitSub, EtOrphaned, EtLastOfLine
<1>9. ASSUME NEW t \in EtSubs, EtCheckEvent(t)
      PROVE  Goal
  BY ONLY <1>1, <1>9 DEF EtCheckEvent, EtOrphaned, EtLastOfLine
<1>10. ASSUME NEW t \in EtSubs, NEW l \in EtLines,
             EtAddLineStopVisits(t, l)
      PROVE  Goal
  BY ONLY <1>1, <1>10 DEF EtAddLineStopVisits, EtOrphaned, EtLastOfLine
<1>11. ASSUME NEW t \in EtSubs, NEW l \in EtLines, EtAddNewResource(t, l)
      PROVE  Goal
  BY ONLY <1>1, <1>11 DEF EtAddNewResource, EtOrphaned, EtLastOfLine
<1>12. ASSUME NEW t \in EtSubs, NEW l \in EtLines, EtDeleteResource(t, l)
      PROVE  Goal
  BY ONLY <1>1, <1>12 DEF EtDeleteResource, EtOrphaned, EtLastOfLine
<1>13. CASE EtTick
  BY ONLY <1>1, <1>13 DEF EtTick, EtOrphaned, EtLastOfLine
<1>14. CASE EtBatchDone
  BY ONLY <1>1, <1>14 DEF EtBatchDone, EtOrphaned, EtLastOfLine
<1>15. CASE EtSetLastState
  BY ONLY <1>1, <1>15 DEF EtSetLastState, EtOrphaned, EtLastOfLine
<1>16. ASSUME NEW ok \in BOOLEAN, EtSendDelivery(ok)
      PROVE  Goal
  BY ONLY <1>1, <1>16 DEF EtSendDelivery, EtOrphaned, EtLastOfLine
<1> QED
  BY <1>2, <1>3, <1>4, <1>5, <1>6, <1>7, <1>8, <1>9, <1>10, <1>11,
     <1>12, <1>13, <1>14, <1>15, <1>16 DEF EtNext

\* An event is checked for a subscription until checkEvent is done with it.
LEMMA EtCheckStays ==
  ASSUME EtStateOK, EtNext, NEW s \in EtSubs, NEW v \in EtVisits, EtToCheck(s, v)
  PROVE  EtToCheck(s, v)' \/ EtCheckEvent(s)
<1> DEFINE Goal ==
         EtToCheck(s, v)' \/ EtCheckEvent(s)
<1>1. EtToCheck(s, v)
  OBVIOUS
<1> USE DEF etModelVars, etMgrVars, etSubVars, etLoopVars, etFeedVars, InDelivery
<1>2. ASSUME NEW u \in EtVisits, NEW state \in EtSaved, EtSave(u, state)
      PROVE  Goal
  BY ONLY <1>1, <1>2 DEF EtSave, EtToCheck
<1>3. ASSUME NEW u \in EtVisits, EtDeleteJourney(u)
      PROVE  Goal
  BY ONLY <1>1, <1>3 DEF EtDeleteJourney, EtToCheck
<1>4. ASSUME NEW u \in EtVisits, EtFind(u)
      PROVE  Goal
  BY ONLY <1>1, <1>4 DEF EtFind, EtToCheck
<1>5. ASSUME NEW u \in EtVisits, EtCall(u)
      PROVE  Goal
  BY ONLY <1>1, <1>5 DEF EtCall, EtToCheck
<1>6. ASSUME NEW u \in EtVisits, EtSkip(u)
      PROVE  Goal
  BY ONLY <1>1, <1>6 DEF EtSkip, EtToCheck
<1>7. ASSUME NEW u \in EtVisits, EtReturn(u)
      PROVE  Goal
  BY ONLY <1>1, <1>7 DEF EtReturn, EtToCheck
<1>8. ASSUME NEW t \in EtSubs, EtVisitSub(t)
      PROVE  Goal
  BY ONLY <1>1, <1>8 DEF EtVisitSub, EtToCheck
<1>9. ASSUME NEW t \in EtSubs, EtCheckEvent(t)
      PROVE  Goal
  BY ONLY <1>1, <1>9 DEF EtCheckEvent, EtToCheck
<1>10. ASSUME NEW t \in EtSubs, NEW l \in EtLines,
             EtAddLineStopVisits(t, l)
      PROVE  Goal
  BY ONLY <1>1, <1>10 DEF EtAddLineStopVisits, EtToCheck
<1>11. ASSUME NEW t \in EtSubs, NEW l \in EtLines, EtAddNewResource(t, l)
      PROVE  Goal
  BY ONLY <1>1, <1>11 DEF EtAddNewResource, EtToCheck
<1>12. ASSUME NEW t \in EtSubs, NEW l \in EtLines, EtDeleteResource(t, l)
      PROVE  Goal
  BY ONLY <1>1, <1>12 DEF EtDeleteResource, EtToCheck
<1>13. CASE EtTick
  BY ONLY <1>1, <1>13 DEF EtTick, EtToCheck
<1>14. CASE EtBatchDone
  BY ONLY <1>1, <1>14 DEF EtBatchDone, EtToCheck
<1>15. CASE EtSetLastState
  BY ONLY <1>1, <1>15 DEF EtSetLastState, EtToCheck
<1>16. ASSUME NEW ok \in BOOLEAN, EtSendDelivery(ok)
      PROVE  Goal
  BY ONLY <1>1, <1>16 DEF EtSendDelivery, EtToCheck
<1> QED
  BY <1>2, <1>3, <1>4, <1>5, <1>6, <1>7, <1>8, <1>9, <1>10, <1>11,
     <1>12, <1>13, <1>14, <1>15, <1>16 DEF EtNext

\* checkEvent finds a departure: it queues the stop visit, or has it recorded.
LEMMA EtChecked ==
  ASSUME EtStateOK, NEW s \in EtSubs, NEW v \in EtHandled, EtCheckEvent(s),
         EtToCheck(s, v), EtLineOf(v) \in etResources[s]
  PROVE  \/ v \in etPending'[s]
         \/ etLast'[s][v] = etLast[s][v] /\ EtDeparted(etLast[s][v])
<1>1. etEvent = v /\ etSeen = etVisits[v] /\ v \in EtVisits
  BY DEF EtToCheck, EtHandled, EtStateOK, EtManagerOK, EtTypeOK
<1>2. EtDeparted(etSeen)
  BY <1>1 DEF EtHandled
<1>3. CASE EtQueues(s, v)
  <2>1. etPending' = [etPending EXCEPT ![s] = @ \cup {v}]
    BY <1>1, <1>3 DEF EtCheckEvent
  <2> QED
    BY <2>1 DEF EtStateOK, EtTypeOK
<1>4. CASE ~EtQueues(s, v)
  <2>1. etLast' = etLast
    BY <1>1, <1>4 DEF EtCheckEvent
  <2>2. etLast[s][v] # EtNone /\ ~EtHasChanged(etSeen, etLast[s][v])
    BY <1>4 DEF EtQueues
  <2>3. etLast[s][v].status = "departed"
    BY ONLY <1>2, <2>2 DEF EtHasChanged, EtDeparted
  <2> QED
    BY ONLY <2>1, <2>2, <2>3 DEF EtDeparted
<1> QED
  BY <1>3, <1>4

-----------------------------------------------------------------------------
(* EstimatedTimetable: last states and departures.                         *)

\* What is sent leaves no stop visit to record, and touches nothing else.
LEMMA EtSentFrame ==
  ASSUME EtStateOK, NEW s \in EtSubs, NEW v \in EtVisits, EtSent(s, v)
  PROVE  /\ etCalled = EtNone /\ etSub = s /\ v \in InDelivery
         /\ UNCHANGED <<etLast, etPending, etMgrVars>>
         /\ etKnown'[s][v] = etDelivery[v]
<1>1. /\ etKnown \in [EtSubs -> [EtVisits -> EtVisit \cup {EtNone}]]
      /\ etPc = "visits" => etCalled = EtNone
  BY DEF EtStateOK, EtTypeOK, EtLoopOK
<1>2. EtSendDelivery(TRUE) /\ s = etSub /\ v \in InDelivery
  BY DEF EtSent
<1>3. etPc = "visits" /\ UNCHANGED <<etLast, etPending, etMgrVars>>
  BY <1>2 DEF EtSendDelivery
<1>4. etKnown' = [etKnown EXCEPT ![etSub] = [u \in EtVisits |->
         IF u \in InDelivery THEN etDelivery[u] ELSE @[u]]]
  BY <1>2 DEF EtSendDelivery
<1>5. etKnown'[s][v] = etDelivery[v]
  BY ONLY <1>1, <1>2, <1>4, s \in EtSubs, v \in EtVisits
<1> QED
  BY ONLY <1>1, <1>2, <1>3, <1>5

\* A last state is told, is on its way or was lost, after each step.
LEMMA EtToldStep == ASSUME EtInv, EtNext PROVE EtLastStateTold'
<1> SUFFICES ASSUME NEW s \in EtSubs, NEW v \in EtVisits,
                    etLast'[s][v] # EtNone
             PROVE  \/ etLast'[s][v] = etKnown'[s][v]
                    \/ EtQueued(s, v)' \/ v \in etMissed'[s]
  BY DEF EtLastStateTold
<1>1. /\ EtStateOK /\ EtRecorded
      /\ etLast[s][v] # EtNone =>
           etLast[s][v] = etKnown[s][v] \/ EtQueued(s, v) \/ v \in etMissed[s]
  BY DEF EtInv, EtLastStateTold
<1>2. ASSUME EtSent(s, v), etLast'[s][v] = etLast[s][v]
      PROVE  \/ etLast'[s][v] = etKnown'[s][v]
             \/ EtQueued(s, v)'
  <2>1. /\ etCalled = EtNone /\ etSub = s /\ v \in InDelivery
        /\ UNCHANGED <<etLast, etPending, etMgrVars>>
        /\ etKnown'[s][v] = etDelivery[v]
    BY <1>1, <1>2, EtSentFrame
  <2>2. etLast[s][v] = etDelivery[v] \/ v \in etPending[s]
    <3>1. v # EtNone
      BY EtAssumption DEF EtAssumption
    <3> QED
      BY ONLY <1>1, <1>2, <2>1, <3>1, etLast'[s][v] # EtNone
      DEF EtRecorded, EtRecordedAt
  <2> QED
    BY <1>2, <2>1, <2>2 DEF EtQueued
<1>3. CASE etLast'[s][v] = etLast[s][v]
  <2>1. CASE etLast[s][v] = etKnown[s][v]
    BY <1>1, <1>2, <1>3, <2>1, EtKnownChanges
  <2>2. CASE EtQueued(s, v) \/ v \in etMissed[s]
    BY <1>1, <1>2, <1>3, <2>2, EtStaysQueued
  <2> QED
    BY <1>1, <1>3, <2>1, <2>2
<1>4. CASE EtCheckedNew(s, v)
  BY <1>4 DEF EtCheckedNew, EtQueued
<1>5. CASE EtSetLast(s, v)
  BY <1>1, <1>5 DEF EtSetLast, EtSetLastState, EtQueued, InDelivery,
                    EtStateOK, EtLoopOK
<1> QED
  BY <1>1, <1>3, <1>4, <1>5, EtLastChanges

\* What is in the delivery is recorded, about to be, or queued again.
LEMMA EtRecordedStep == ASSUME EtInv, EtNext PROVE EtRecorded'
<1> SUFFICES ASSUME NEW v \in InDelivery', etLast'[etSub'][v] # EtNone
             PROVE  \/ etLast'[etSub'][v] = etDelivery'[v]
                    \/ v \in etPending'[etSub'] \/ v = etCalled'
  BY DEF EtRecorded, EtRecordedAt
<1>1. /\ EtStateOK /\ EtRecorded /\ v \in EtVisits /\ v # EtNone
  BY EtAssumption DEF EtInv, InDelivery, EtAssumption
<1>2. /\ etSub \in EtSubs /\ etSub' = etSub
      /\ etPending[etSub] \subseteq etPending'[etSub]
      /\ \/ EtCall(v)
         \/ v \in InDelivery /\ etDelivery'[v] = etDelivery[v]
  BY <1>1, EtDeliveryChanges
<1>3. CASE EtCall(v)
  BY <1>3 DEF EtCall
<1>4. CASE v \in InDelivery /\ etDelivery'[v] = etDelivery[v]
  <2>1. etLast[etSub][v] # EtNone =>
          \/ etLast[etSub][v] = etDelivery[v]
          \/ v \in etPending[etSub] \/ v = etCalled
    BY <1>1, <1>4 DEF EtRecorded, EtRecordedAt
  <2>2. CASE etLast'[etSub][v] = etLast[etSub][v]
    <3>1. CASE v = etCalled
      <4>1. CASE \E s \in EtSubs : EtSetLast(s, etCalled)
        BY <1>2, <1>4, <3>1, <4>1 DEF EtSetLast
      <4> QED
        BY <1>1, <1>2, <3>1, <4>1, EtCalledChanges
    <3> QED
      BY <1>2, <1>4, <2>1, <2>2, <3>1
  <2>3. CASE EtCheckedNew(etSub, v)
    BY <1>2, <2>3 DEF EtCheckedNew
  <2>4. CASE EtSetLast(etSub, v)
    BY <1>2, <1>4, <2>4 DEF EtSetLast
  <2> QED
    BY <1>1, <1>2, <2>2, <2>3, <2>4, EtLastChanges
<1> QED
  BY <1>2, <1>3, <1>4

\* Nobody has a departure of a stop visit that is not departed.
LEMMA EtStayStep == ASSUME EtInv, EtNext PROVE EtDeparturesStay'
<1> SUFFICES ASSUME NEW v \in EtVisits,
                    v \notin etTakenBack', ~EtDeparted(etVisits'[v])
             PROVE  EtNoDepartureOf(v)'
  BY DEF EtDeparturesStay, EtDeparted
<1>1. EtStateOK /\ v # EtNone
  BY EtAssumption DEF EtInv, EtAssumption
<1>2. ~EtDeparted(etVisits[v]) /\ v \notin etTakenBack
  BY <1>1, EtDepartedBefore
<1>3. EtNoDepartureOf(v)
  BY <1>2 DEF EtInv, EtDeparturesStay
<1>4. ASSUME NEW s \in EtSubs PROVE ~EtDeparted(etLast'[s][v])
  <2>1. ~EtDeparted(EtNone)
    BY DEF EtDeparted
  <2>2. ~EtDeparted(etLast[s][v]) /\ ~EtDeparted(etDelivery[v])
    BY <1>3 DEF EtNoDepartureOf
  <2>3. CASE EtCheckedNew(s, v)
    BY <1>3, <2>3 DEF EtCheckedNew, EtNoDepartureOf
  <2>4. CASE EtSetLast(s, v)
    BY <2>2, <2>4 DEF EtSetLast
  <2> QED
    BY <1>1, <2>1, <2>2, <2>3, <2>4, EtLastChanges
<1>5. ~EtDeparted(etDelivery'[v])
  <2>1. CASE v \in InDelivery'
    <3>1. CASE EtCall(v)
      <4>1. etDelivery'[v] = etVisits[v]
        BY <1>1, <3>1 DEF EtCall, EtStateOK, EtTypeOK
      <4> QED
        BY <4>1, <1>2
    <3>2. CASE v \in InDelivery /\ etDelivery'[v] = etDelivery[v]
      BY <1>3, <3>2 DEF EtNoDepartureOf
    <3> QED
      BY <1>1, <2>1, <3>1, <3>2, EtDeliveryChanges
  <2>2. CASE v \notin InDelivery'
    BY <2>2 DEF InDelivery, EtDeparted
  <2> QED
    BY <2>1, <2>2
<1>6. etFound' # {} /\ etEvent' = v => ~EtDeparted(etSeen')
  BY <1>1, <1>2, <1>3, EtSeenChanges DEF EtNoDepartureOf
<1> QED
  BY <1>4, <1>5, <1>6 DEF EtNoDepartureOf, EtDeparted

\* The departure that is about to be recorded is queued, or in the delivery.
LEMMA EtQueuedStep ==
  ASSUME EtInv, EtNext, EtStateOK' PROVE EtDepartureQueued'
<1> SUFFICES ASSUME NEW v, v = etCalled', v # EtNone, v \notin etTakenBack',
                    EtDeparted(etLast'[etSub'][v])
             PROVE  EtDeparted(etDelivery'[v]) \/ v \in etPending'[etSub']
  BY DEF EtDepartureQueued, EtDeparted
<1>1. /\ EtStateOK /\ EtDepartureQueued /\ EtDeparturesStay
      /\ v \in InDelivery' /\ v \in EtVisits
      /\ etDelivery \in [EtVisits -> EtVisit \cup {EtNone}]
  BY DEF EtInv, EtStateOK, EtLoopOK, EtTypeOK, InDelivery
<1>2. /\ etSub \in EtSubs /\ etSub' = etSub
      /\ etPending[etSub] \subseteq etPending'[etSub]
      /\ \/ EtCall(v)
         \/ v \in InDelivery /\ etDelivery'[v] = etDelivery[v]
  BY <1>1, EtDeliveryChanges
<1>3. CASE EtCall(v)
  <2>1. /\ etDelivery'[v] = etVisits[v] /\ etLast' = etLast
        /\ etTakenBack' = etTakenBack
    BY <1>1, <1>3 DEF EtCall, etModelVars
  <2>2. EtDeparted(etVisits[v])
    BY <1>1, <1>2, <2>1 DEF EtDeparturesStay, EtNoDepartureOf
  <2> QED
    BY <2>1, <2>2
<1>4. CASE etCalled = v /\ v \in InDelivery /\ etDelivery'[v] = etDelivery[v]
  <2>1. v \notin etTakenBack
    <3>1. etTakenBack \subseteq etTakenBack'
      BY EtTakenBackGrows
    <3> QED
      BY <3>1
  <2>2. CASE etLast'[etSub][v] = etLast[etSub][v]
    BY <1>1, <1>2, <1>4, <2>1, <2>2 DEF EtDepartureQueued
  <2>3. CASE EtCheckedNew(etSub, v)
    BY <1>2, <2>3 DEF EtCheckedNew
  <2>4. CASE EtSetLast(etSub, v)
    BY <2>4 DEF EtSetLast, EtSetLastState
  <2> QED
    BY <1>1, <1>2, <2>2, <2>3, <2>4, EtLastChanges DEF EtDeparted
<1> QED
  BY <1>1, <1>2, <1>3, <1>4, EtCalledChanges

\* A departure that was handled is recorded, or on its way.
LEMMA EtDepartureRecordedStep ==
  ASSUME EtInv, EtNext PROVE EtDepartureRecorded'
<1> SUFFICES ASSUME NEW s \in EtSubs, NEW v \in EtHandled',
                    EtLineOf(v) \in etResources'[s], etLast'[s][v] # EtNone
             PROVE  \/ EtDeparted(etLast'[s][v]) \/ EtQueued(s, v)'
                    \/ v \in etMissed'[s] \/ EtToCheck(s, v)'
  BY DEF EtDepartureRecorded, EtDepartureRecordedAt, EtDeparted
<1>1. /\ EtStateOK /\ EtRecorded /\ EtDepartureRecorded /\ EtDepartureDelivered
      /\ v \in EtVisits /\ v # EtNone /\ (v \in EtHandled \/ EtFind(v))
  BY EtHandledChanges, EtAssumption DEF EtInv, EtAssumption
<1>2. EtLineOf(v) \in etResources[s]
  <2>1. etLast'[s][v] # EtNone \/ (etSub' = s /\ etCalled' = v)
    OBVIOUS
  <2> QED
    BY ONLY <1>1, <2>1, EtNext, s \in EtSubs, EtResourceStays,
            EtLineOf(v) \in etResources'[s]
<1>3. CASE EtFind(v)
  BY <1>2, <1>3 DEF EtFind, EtToCheck, EtHandled, etModelVars
<1>4. CASE v \in EtHandled
  <2>1. CASE etLast'[s][v] = etLast[s][v]
    <3>1. ASSUME EtToCheck(s, v)
          PROVE  \/ EtDeparted(etLast'[s][v]) \/ EtQueued(s, v)'
                 \/ EtToCheck(s, v)'
      <4>1. CASE EtCheckEvent(s)
        <5>1. v \in etPending'[s] \/ EtDeparted(etLast'[s][v])
          BY <1>1, <1>2, <1>4, <3>1, <4>1, EtChecked
        <5> QED
          BY <5>1 DEF EtQueued
      <4> QED
        BY <1>1, <3>1, <4>1, EtCheckStays
    <3>2. ASSUME EtSent(s, v)
          PROVE  \/ EtDeparted(etLast'[s][v]) \/ EtQueued(s, v)'
                 \/ EtToCheck(s, v)'
      <4>1. /\ etCalled = EtNone /\ etSub = s /\ v \in InDelivery
            /\ UNCHANGED <<etLast, etPending, etMgrVars>>
        BY <1>1, <3>2, EtSentFrame
      <4>2. \/ EtDeparted(etDelivery[v]) \/ v \in etPending[s]
            \/ EtToCheck(s, v) \/ EtDeparted(etLast[s][v])
        BY <1>1, <1>2, <1>4, <2>1, <4>1
        DEF EtDepartureDelivered, EtDepartureDeliveredAt
      <4>3. etLast[s][v] = etDelivery[v] \/ v \in etPending[s]
        BY ONLY <1>1, <2>1, <4>1, etLast'[s][v] # EtNone
        DEF EtRecorded, EtRecordedAt
      <4>4. v \in etPending[s] => EtQueued(s, v)'
        BY <4>1 DEF EtQueued
      <4> QED
        BY <2>1, <3>1, <4>2, <4>3, <4>4
    <3>3. CASE EtQueued(s, v) \/ v \in etMissed[s]
      BY <1>1, <3>2, <3>3, EtStaysQueued
    <3> QED
      BY <1>1, <1>2, <1>4, <2>1, <3>1, <3>3
      DEF EtDepartureRecorded, EtDepartureRecordedAt
  <2>2. CASE EtCheckedNew(s, v)
    BY <2>2 DEF EtCheckedNew, EtQueued
  <2>3. CASE EtSetLast(s, v)
    BY <1>1, <2>3 DEF EtSetLast, EtSetLastState, EtQueued, InDelivery,
                      EtStateOK, EtLoopOK
  <2> QED
    BY <1>1, <2>1, <2>2, <2>3, EtLastChanges
<1> QED
  BY <1>1, <1>3, <1>4

\* ... and in the delivery, or in the next one.
LEMMA EtDepartureDeliveredStep ==
  ASSUME EtInv, EtNext PROVE EtDepartureDelivered'
<1> SUFFICES ASSUME NEW v \in EtHandled', v \in InDelivery',
                    EtLineOf(v) \in etResources'[etSub'],
                    etLast'[etSub'][v] # EtNone \/ etCalled' = v
             PROVE  \/ EtDeparted(etDelivery'[v]) \/ v \in etPending'[etSub']
                    \/ EtToCheck(etSub, v)'
                    \/ EtDeparted(etLast'[etSub'][v]) /\ etCalled' # v
  BY DEF EtDepartureDelivered, EtDepartureDeliveredAt, EtDeparted
<1>1. /\ EtStateOK /\ EtDepartureDelivered /\ EtDepartureQueued
      /\ v \in EtVisits /\ v # EtNone /\ (v \in EtHandled \/ EtFind(v))
      /\ EtDeparted(etVisits[v])
      /\ etDelivery \in [EtVisits -> EtVisit \cup {EtNone}]
  BY EtHandledChanges, EtAssumption
  DEF EtInv, EtAssumption, EtStateOK, EtTypeOK
<1>2. /\ etSub \in EtSubs /\ etSub' = etSub
      /\ etPending[etSub] \subseteq etPending'[etSub]
      /\ \/ EtCall(v)
         \/ v \in InDelivery /\ etDelivery'[v] = etDelivery[v]
  BY <1>1, EtDeliveryChanges
<1>3. EtLineOf(v) \in etResources[etSub]
  <2>1. \/ etLast'[etSub][v] # EtNone
        \/ etSub' = etSub /\ etCalled' = v
    BY <1>2
  <2>2. EtLineOf(v) \in etResources'[etSub]
    BY <1>2
  <2> QED
    BY ONLY <1>1, <1>2, <2>1, <2>2, EtNext, EtResourceStays
<1>4. CASE EtFind(v)
  BY <1>2, <1>3, <1>4 DEF EtFind, EtToCheck, EtHandled, etModelVars
<1>5. CASE EtCall(v)
  <2>1. etDelivery'[v] = etVisits[v]
    BY <1>1, <1>5 DEF EtCall
  <2> QED
    BY <1>1, <2>1
<1>6. CASE v \in EtHandled /\ v \in InDelivery /\ etDelivery'[v] = etDelivery[v]
           /\ ~EtCall(v)
  <2>1. etCalled' = v => etCalled = v
    BY <1>1, <1>6, EtCalledChanges
  <2>2. CASE EtCheckedNew(etSub, v)
    BY <1>2, <2>2 DEF EtCheckedNew
  <2>3. CASE EtSetLast(etSub, v)
    <3>1. \/ EtDeparted(etDelivery[v]) \/ v \in etPending[etSub]
          \/ EtToCheck(etSub, v)
      BY <1>1, <1>3, <1>6, <2>3
      DEF EtDepartureDelivered, EtDepartureDeliveredAt, EtSetLast
    <3> QED
      BY <1>2, <1>6, <2>3, <3>1
      DEF EtSetLast, EtSetLastState, EtToCheck, etMgrVars
  <2>4. CASE etLast'[etSub][v] = etLast[etSub][v]
    <3>1. \/ EtDeparted(etDelivery[v]) \/ v \in etPending[etSub]
          \/ EtToCheck(etSub, v)
          \/ EtDeparted(etLast[etSub][v]) /\ etCalled # v
      BY <1>1, <1>2, <1>3, <1>6, <2>1, <2>4
      DEF EtDepartureDelivered, EtDepartureDeliveredAt
    <3>2. CASE EtToCheck(etSub, v) /\ EtCheckEvent(etSub)
      <4>1. v \in etPending'[etSub] \/ EtDeparted(etLast[etSub][v])
        BY <1>1, <1>2, <1>3, <1>6, <3>2, EtChecked
      <4>2. CASE etCalled = v /\ EtDeparted(etLast[etSub][v])
        BY <1>1, <1>2, <1>6, <4>2 DEF EtDepartureQueued, EtHandled
      <4> QED
        BY <1>2, <2>1, <2>4, <4>1, <4>2
    <3>3. CASE EtToCheck(etSub, v) /\ ~EtCheckEvent(etSub)
      BY <1>1, <1>2, <3>3, EtCheckStays
    <3> QED
      BY <1>2, <1>6, <2>1, <2>4, <3>1, <3>2, <3>3
  <2> QED
    BY <1>1, <1>2, <2>2, <2>3, <2>4, EtLastChanges
<1> QED
  BY <1>1, <1>2, <1>4, <1>5, <1>6

-----------------------------------------------------------------------------
(* EstimatedTimetable: the theorems.                                       *)

\* The inductive invariant holds initially: nobody has a last state.
LEMMA EtInitInv == EtInit => EtInv
<1> SUFFICES ASSUME EtInit PROVE EtInv
  OBVIOUS
<1>1. EtStateOK
  BY EtInitOK
<1>2. /\ InDelivery = {} /\ EtHandled = {} /\ etCalled = EtNone
      /\ etFound = {}
  BY DEF EtInit, InDelivery, EtNothing, EtHandled
<1>3. \A s \in EtSubs, v \in EtVisits : etLast[s][v] = EtNone
  BY DEF EtInit, EtNothing
<1>4. \A v \in EtVisits : ~EtDeparted(etDelivery[v])
  BY DEF EtInit, EtNothing, EtDeparted
<1>5. EtLastStateTold
  BY ONLY <1>3 DEF EtLastStateTold
<1>6. EtDeparturesStay
  BY <1>2, <1>3, <1>4 DEF EtDeparturesStay, EtNoDepartureOf, EtDeparted
<1> QED
  BY ONLY <1>1, <1>2, <1>5, <1>6
  DEF EtInv, EtRecorded, EtDepartureRecorded, EtDepartureDelivered,
      EtDepartureQueued

\* A step of any of the three keeps types, the loop and the manager right.
LEMMA EtStateStep == ASSUME EtStateOK, EtNext PROVE EtStateOK'
BY EtModelOK, EtSubscriptionOK, EtManagerStepOK, EtVisitsOK, EtBatchOK
DEF EtNext

\* The inductive invariant, and so types, what last states are worth, and where
\* the departure of a stop visit is.
THEOREM EtInvariance == EtSpec => []EtInv
<1>1. EtInv /\ [EtNext]_etVars => EtInv'
  <2> SUFFICES ASSUME EtInv, [EtNext]_etVars PROVE EtInv'
    OBVIOUS
  <2>1. CASE EtNext
    <3>1. EtStateOK'
      BY <2>1, EtStateStep DEF EtInv
    <3> QED
      BY ONLY <2>1, <3>1, EtInv, EtToldStep, EtRecordedStep, EtStayStep,
              EtQueuedStep, EtDepartureRecordedStep, EtDepartureDeliveredStep
      DEF EtInv
  <2>2. CASE UNCHANGED etVars
    <3> USE <2>2 DEF etVars, etModelVars, etMgrVars, etSubVars, etLoopVars,
                     etFeedVars
    <3>1. EtStateOK'
      BY DEF EtInv, EtStateOK, EtTypeOK, EtLoopOK, EtManagerOK, InDelivery
    <3>2. EtLastStateTold' /\ EtRecorded' /\ EtDeparturesStay'
      BY DEF EtInv, EtLastStateTold, EtQueued, EtRecorded, EtRecordedAt,
             EtDeparturesStay, EtNoDepartureOf, InDelivery
    <3>3. EtDepartureRecorded'
      BY DEF EtInv, EtDepartureRecorded, EtDepartureRecordedAt, EtHandled,
             EtQueued, EtToCheck, InDelivery
    <3>4. EtDepartureDelivered' /\ EtDepartureQueued'
      BY DEF EtInv, EtDepartureDelivered, EtDepartureDeliveredAt, EtHandled,
             EtToCheck, InDelivery, EtDepartureQueued
    <3> QED
      BY ONLY <3>1, <3>2, <3>3, <3>4 DEF EtInv
  <2> QED
    BY <2>1, <2>2
<1> QED
  BY <1>1, EtInitInv, PTL DEF EtSpec

\* Types, and an empty delivery at the start of each subscription.
THEOREM EtTypeCorrect == EtSpec => []EtTypeOK
<1>1. EtInv => EtTypeOK
  BY DEF EtInv, EtStateOK
<1> QED
  BY <1>1, EtInvariance, PTL

\* What a last state says is what the subscriber was told, or is about to be:
\* checkEvent never compares with a state that was silently dropped.
THEOREM EtLastStatesTold == EtSpec => []EtLastStateTold
<1>1. EtInv => EtLastStateTold
  BY DEF EtInv
<1> QED
  BY <1>1, EtInvariance, PTL

\* A departure that is not taken back reaches the subscriber, unless a batch
\* with it is lost.
THEOREM EtDeparturesTold == EtSpec => []EtDepartureTold
<1>1. EtInv => EtDepartureTold
  <2> SUFFICES ASSUME EtInv, NEW s \in EtSubs,
                      NEW v \in etJourneys \ (etEvents \cup etTakenBack),
                      EtLineOf(v) \in etResources[s], etLast[s][v] # EtNone,
                      etVisits[v].status = "departed"
               PROVE  \/ EtDeparted(etKnown[s][v])
                      \/ EtQueued(s, v) \/ v \in etMissed[s]
                      \/ EtToCheck(s, v)
    BY DEF EtDepartureTold, EtDeparted, EtToCheck
  <2>1. etVisits[v] # EtNone /\ v \in EtVisits
    BY EtAssumption
    DEF EtInv, EtStateOK, EtManagerOK, EtTypeOK, EtAssumption
  <2>2. v \in EtHandled
    BY <2>1 DEF EtHandled, EtDeparted
  <2>3. \/ EtDeparted(etLast[s][v]) \/ EtQueued(s, v) \/ v \in etMissed[s]
        \/ EtToCheck(s, v)
    BY <2>2 DEF EtInv, EtDepartureRecorded, EtDepartureRecordedAt
  <2>4. \/ etLast[s][v] = etKnown[s][v] \/ EtQueued(s, v)
        \/ v \in etMissed[s]
    BY <2>1 DEF EtInv, EtLastStateTold
  <2> QED
    BY ONLY <2>3, <2>4
<1> QED
  BY <1>1, EtInvariance, PTL

-----------------------------------------------------------------------------
(* GeneralMessage: the inductive invariant.                                *)

\* What is between two actions of the broadcaster loop, and of the manager.
GmLoopOK ==
  /\ gmPc = "situations" => gmSub \in GmSubs
  /\ gmPc = "idle" => gmBatch = GmEmpty

GmManagerOK ==
  /\ \A x \in gmEvents : gmSituations[x] # GmNone
  /\ gmFound # {} => /\ gmEvent \in GmSituations
                     /\ gmSeen = gmRecorded[gmEvent] \/ gmEvent \in gmEvents

\* Nothing is known of a situation that is later than its last save.
GmNotLater ==
  \A s \in GmSubs, x \in GmSituations :
    /\ gmLast[s][x] # GmNone => gmLast[s][x] <= gmRecorded[x]
    /\ \A copy \in gmAdding[s] : copy[2] <= gmRecorded[copy[1]]
    /\ gmFound # {} => gmSeen <= gmRecorded[gmEvent]

\* A situation makes a message for a live subscription.
GmDue(s, x) ==
  /\ gmUntil[s] # GmNone /\ ~GmExpired(s) /\ gmSituations[x] # GmNone
  /\ BuildGeneralMessage(gmOptions[s], gmSituations[x])

\* It will be queued again: its event is to come, and its last state is not the
\* save the event is about, or it waits for the broadcaster.
GmAgain(s, x) ==
  \/ /\ x \in gmEvents \/ (gmEvent = x /\ s \in gmFound)
     /\ gmLast[s][x] # gmRecorded[x]
  \/ x \in gmPending[s] \cup gmBatch[s]
  \/ \E copy \in gmAdding[s] : copy[1] = x

\* The subscriber has it as it is, or will, or the notification failed ...
GmTold(s, x) ==
  GmDue(s, x) =>
    \/ gmKnown[s][x] = gmRecorded[x] \/ x \in gmMissed[s]
    \/ GmAgain(s, x) \/ (gmSub = s /\ x \in gmTodo \cup GmBuilt)

\* ... a message is about its last save, unless there will be another one ...
GmMessageOf(s, x) ==
  GmDue(s, x) /\ gmSub = s /\ x \in GmBuilt =>
    gmMessages[x] = gmRecorded[x] \/ x \in gmTodo \/ GmAgain(s, x)

\* ... and the broadcaster applies the filters of the last request, unless the
\* request queued the situation again.
GmFilterOf(s, x) ==
  GmDue(s, x) /\ gmSub = s /\ x \in gmTodo =>
    gmBuilder = gmOptions[s] \/ GmAgain(s, x)

GmStateOK == GmTypeOK /\ GmLoopOK /\ GmManagerOK /\ GmNotLater

GmInv ==
  /\ GmStateOK
  /\ \A s \in GmSubs, x \in GmSituations :
       GmTold(s, x) /\ GmMessageOf(s, x) /\ GmFilterOf(s, x)

-----------------------------------------------------------------------------
(* GeneralMessage: types, the loop and the manager.                        *)

\* The types of the values that hold nothing yet.
LEMMA GmEmptyTypes ==
  /\ GmNothing \in [GmSituations -> 0..GmMaxRecorded \cup {GmNone}]
  /\ GmNothing \in [GmSituations -> GmSituation \cup {GmNone}]
  /\ GmEmpty \in [GmSubs -> SUBSET GmSituations]
  /\ GmEmpty \in [GmSubs -> SUBSET (GmSituations \X (0..GmMaxRecorded))]
  /\ GmNoFilter \in GmFilter
BY DEF GmNothing, GmEmpty, GmNoFilter, GmFilter

\* Types, the loop and the manager hold initially.
LEMMA GmInitOK == GmInit => GmStateOK
<1> SUFFICES ASSUME GmInit PROVE GmStateOK
  OBVIOUS
<1>1. /\ GmMaxRecorded \in Nat /\ GmMaxRequests \in Nat /\ GmHorizon \in Nat
      /\ GmNone \notin Nat
  BY GmAssumption DEF GmAssumption
<1>2. GmTypeOK
  <2>1. /\ gmRecorded \in [GmSituations -> 0..GmMaxRecorded]
        /\ gmRequests \in [GmSubs -> 0..GmMaxRequests]
        /\ gmNow \in 0..GmHorizon /\ gmSeen \in 0..GmMaxRecorded
    BY <1>1 DEF GmInit
  <2>2. /\ gmLast \in [GmSubs -> [GmSituations -> 0..GmMaxRecorded \cup {GmNone}]]
        /\ gmKnown \in [GmSubs -> [GmSituations -> 0..GmMaxRecorded \cup {GmNone}]]
        /\ gmUntil \in [GmSubs -> 0..GmHorizon \cup {GmNone}]
        /\ gmOptions \in [GmSubs -> GmFilter]
    BY GmEmptyTypes DEF GmInit
  <2> QED
    BY <2>1, <2>2, GmEmptyTypes DEF GmInit, GmTypeOK
<1>3. GmNotLater
  <2>1. /\ \A s \in GmSubs, x \in GmSituations : gmLast[s][x] = GmNone
        /\ \A s \in GmSubs : gmAdding[s] = {}
        /\ gmFound = {}
    BY DEF GmInit, GmNothing, GmEmpty
  <2> QED
    BY ONLY <2>1 DEF GmNotLater
<1> QED
  BY <1>2, <1>3 DEF GmInit, GmStateOK, GmLoopOK, GmManagerOK

\* A later save of a situation makes nothing known of it too late.
LEMMA GmLaterStill ==
  ASSUME GmStateOK, GmTypeOK',
         \A x \in GmSituations : gmRecorded[x] <= gmRecorded'[x],
         UNCHANGED <<gmLast, gmAdding, gmSeen, gmFound, gmEvent>>
  PROVE  GmNotLater'
<1>1. /\ \A x \in GmSituations :
           gmRecorded[x] \in Nat /\ gmRecorded'[x] \in Nat
      /\ \A s \in GmSubs, x \in GmSituations :
           gmLast[s][x] # GmNone => gmLast[s][x] \in Nat
      /\ \A s \in GmSubs : \A copy \in gmAdding[s] :
           copy[1] \in GmSituations /\ copy[2] \in Nat
      /\ gmSeen \in Nat
  <2>1. GmMaxRecorded \in Nat
    BY GmAssumption DEF GmAssumption
  <2> QED
    BY <2>1 DEF GmStateOK, GmTypeOK
<1>2. gmFound # {} => gmEvent \in GmSituations
  BY DEF GmStateOK, GmManagerOK
<1>3. GmNotLater
  BY DEF GmStateOK
<1> SUFFICES ASSUME NEW s \in GmSubs, NEW x \in GmSituations
             PROVE  /\ gmLast[s][x] # GmNone => gmLast[s][x] <= gmRecorded'[x]
                    /\ \A copy \in gmAdding[s] : copy[2] <= gmRecorded'[copy[1]]
                    /\ gmFound # {} => gmSeen <= gmRecorded'[gmEvent]
  BY DEF GmNotLater
<1>4. gmLast[s][x] # GmNone => gmLast[s][x] <= gmRecorded'[x]
  BY <1>1, <1>3 DEF GmNotLater
<1>5. ASSUME NEW copy \in gmAdding[s] PROVE copy[2] <= gmRecorded'[copy[1]]
  <2>1. copy[2] <= gmRecorded[copy[1]]
    BY <1>3 DEF GmNotLater
  <2>2. copy[1] \in GmSituations /\ copy[2] \in Nat
    BY <1>1
  <2> QED
    BY <1>1, <2>1, <2>2
<1>6. gmFound # {} => gmSeen <= gmRecorded'[gmEvent]
  <2>1. gmFound # {} => gmSeen <= gmRecorded[gmEvent]
    BY <1>3 DEF GmNotLater
  <2> QED
    BY <1>1, <1>2, <2>1
<1> QED
  BY <1>4, <1>5, <1>6

\* A situation that is saved, and time.
LEMMA GmModelOK ==
  ASSUME GmStateOK,
         \/ \E x \in GmSituations, state \in GmSaved : GmSave(x, state)
         \/ GmTime
  PROVE  GmStateOK'
<1> USE DEF GmStateOK, GmTypeOK, gmModelVars, gmMgrVars, gmSubVars, gmLoopVars,
            gmFeedVars
<1>1. ASSUME NEW x \in GmSituations, NEW state \in GmSaved, GmSave(x, state)
      PROVE  GmStateOK'
  <2>1. /\ state \in GmSituation /\ state # GmNone
        /\ GmMaxRecorded \in Nat
    BY GmAssumption DEF GmAssumption
  <2>2. /\ gmRecorded[x] + 1 \in 0..GmMaxRecorded
        /\ \A y \in GmSituations : gmRecorded[y] \in Nat
    <3>1. /\ gmRecorded \in [GmSituations -> 0..GmMaxRecorded]
          /\ gmRecorded[x] < GmMaxRecorded
      BY <1>1 DEF GmSave
    <3> QED
      BY ONLY <2>1, <3>1, x \in GmSituations
  <2>3. gmRecorded' \in [GmSituations -> 0..GmMaxRecorded]
        /\ gmSituations' \in [GmSituations -> GmSituation \cup {GmNone}]
    <3>1. /\ gmRecorded \in [GmSituations -> 0..GmMaxRecorded]
          /\ gmRecorded' = [gmRecorded EXCEPT ![x] = gmRecorded[x] + 1]
          /\ gmSituations \in [GmSituations -> GmSituation \cup {GmNone}]
          /\ gmSituations' = [gmSituations EXCEPT ![x] = state]
      BY <1>1 DEF GmSave
    <3> QED
      BY ONLY <2>1, <2>2, <3>1, ExceptType
  <2>4. GmTypeOK'
    BY <1>1, <2>3 DEF GmSave
  <2>5. GmLoopOK' /\ GmManagerOK'
    BY <1>1, <2>1 DEF GmSave, GmLoopOK, GmManagerOK
  <2>6. /\ \A y \in GmSituations : gmRecorded[y] <= gmRecorded'[y]
        /\ UNCHANGED <<gmLast, gmAdding, gmSeen, gmFound, gmEvent>>
    BY <1>1, <2>2 DEF GmSave
  <2>7. GmNotLater'
    BY <2>4, <2>6, GmLaterStill
  <2> QED
    BY ONLY <2>4, <2>5, <2>7 DEF GmStateOK
<1>2. CASE GmTime
  <2>1. gmNow' \in 0..GmHorizon
    BY <1>2, GmAssumption DEF GmTime, GmAssumption
  <2>2. GmTypeOK'
    BY <1>2, <2>1 DEF GmTime
  <2>3. GmLoopOK' /\ GmManagerOK' /\ GmNotLater'
    BY <1>2 DEF GmTime, GmLoopOK, GmManagerOK, GmNotLater
  <2> QED
    BY ONLY <2>2, <2>3 DEF GmStateOK
<1> QED
  BY <1>1, <1>2

\* The handler of a request, and the guardian.
LEMMA GmSubscriptionOK ==
  ASSUME GmStateOK, NEW s \in GmSubs,
         \/ \E f \in GmFilters, until \in 0..GmHorizon :
              GmHandleSubscriptionRequest(s, f, until)
         \/ \E copy \in gmAdding[s] : GmAddSituation(s, copy)
         \/ GmGuardian(s)
  PROVE  GmStateOK'
<1> USE DEF GmStateOK, GmTypeOK, gmModelVars, gmMgrVars, gmSubVars, gmLoopVars,
            gmFeedVars
<1>1. ASSUME NEW f \in GmFilters, NEW until \in 0..GmHorizon,
             GmHandleSubscriptionRequest(s, f, until)
      PROVE  GmStateOK'
  <2> DEFINE copies == {<<x, gmRecorded[x]>> : x \in {y \in GmSituations :
                          /\ gmSituations[y] # GmNone
                          /\ gmSituations[y].validUntil >= gmNow}}
  <2>1. f \in GmFilter /\ GmMaxRequests \in Nat
    BY GmAssumption DEF GmAssumption
  <2>2. gmRequests' \in [GmSubs -> 0..GmMaxRequests]
    <3>1. /\ gmRequests \in [GmSubs -> 0..GmMaxRequests]
          /\ gmRequests[s] < GmMaxRequests
          /\ gmRequests' = [gmRequests EXCEPT ![s] = gmRequests[s] + 1]
      BY <1>1 DEF GmHandleSubscriptionRequest
    <3>2. gmRequests[s] + 1 \in 0..GmMaxRequests
      BY ONLY <2>1, <3>1, s \in GmSubs
    <3> QED
      BY ONLY <3>1, <3>2, ExceptType
  <2>3. gmOptions' \in [GmSubs -> GmFilter]
        /\ gmUntil' \in [GmSubs -> 0..GmHorizon \cup {GmNone}]
    BY <1>1, <2>1 DEF GmHandleSubscriptionRequest
  <2>4. /\ copies \in SUBSET (GmSituations \X (0..GmMaxRecorded))
        /\ \A copy \in copies : copy[2] = gmRecorded[copy[1]]
    <3>1. gmRecorded \in [GmSituations -> 0..GmMaxRecorded]
      OBVIOUS
    <3> QED
      BY ONLY <3>1
  <2>5. /\ gmAdding' = [gmAdding EXCEPT ![s] = copies]
        /\ gmAdding \in [GmSubs -> SUBSET (GmSituations \X (0..GmMaxRecorded))]
    BY <1>1 DEF GmHandleSubscriptionRequest
  <2> HIDE DEF copies
  <2>6. gmAdding' \in [GmSubs -> SUBSET (GmSituations \X (0..GmMaxRecorded))]
    BY ONLY <2>4, <2>5, ExceptType
  <2>7. GmTypeOK'
    BY <1>1, <2>2, <2>3, <2>6 DEF GmHandleSubscriptionRequest
  <2>8. GmLoopOK' /\ GmManagerOK'
    BY <1>1 DEF GmHandleSubscriptionRequest, GmLoopOK, GmManagerOK
  <2>9. GmNotLater'
    <3>1. \A x \in GmSituations : gmRecorded[x] <= gmRecorded[x]
      <4>1. \A x \in GmSituations : gmRecorded[x] \in 0..GmMaxRecorded
        OBVIOUS
      <4> QED
        BY ONLY <4>1
    <3>2. \A t \in GmSubs : \A copy \in gmAdding'[t] :
            copy[2] <= gmRecorded[copy[1]]
      <4>1. SUFFICES ASSUME NEW t \in GmSubs, NEW copy \in gmAdding'[t]
                     PROVE  copy[2] <= gmRecorded[copy[1]]
        OBVIOUS
      <4>2. CASE t = s
        <5>1. copy \in copies
          BY ONLY <2>5, <4>2, t \in GmSubs, copy \in gmAdding'[t]
        <5>2. copy[1] \in GmSituations
          BY ONLY <2>4, <5>1
        <5> QED
          BY ONLY <2>4, <3>1, <5>1, <5>2
      <4>3. CASE t # s
        <5>1. copy \in gmAdding[t]
          BY ONLY <2>5, <4>3, t \in GmSubs, copy \in gmAdding'[t]
        <5>2. copy[1] \in GmSituations
          BY ONLY <2>5, <5>1, t \in GmSubs
        <5> QED
          BY <5>1, <5>2 DEF GmNotLater
      <4> QED
        BY <4>2, <4>3
    <3>3. UNCHANGED <<gmLast, gmRecorded, gmSeen, gmFound, gmEvent>>
      BY <1>1 DEF GmHandleSubscriptionRequest
    <3> QED
      BY ONLY <3>2, <3>3, GmNotLater DEF GmNotLater
  <2> QED
    BY ONLY <2>7, <2>8, <2>9 DEF GmStateOK
<1>2. ASSUME NEW copy \in gmAdding[s], GmAddSituation(s, copy)
      PROVE  GmStateOK'
  <2>1. /\ copy[1] \in GmSituations /\ copy[2] \in 0..GmMaxRecorded
        /\ copy[2] <= gmRecorded[copy[1]]
    <3>1. gmAdding \in [GmSubs -> SUBSET (GmSituations \X (0..GmMaxRecorded))]
      OBVIOUS
    <3>2. copy[1] \in GmSituations /\ copy[2] \in 0..GmMaxRecorded
      BY ONLY <3>1, s \in GmSubs, copy \in gmAdding[s]
    <3> QED
      BY <3>2 DEF GmNotLater
  <2>2. /\ gmAdding' \in [GmSubs -> SUBSET (GmSituations \X (0..GmMaxRecorded))]
        /\ \A t \in GmSubs : gmAdding'[t] \subseteq gmAdding[t]
    BY <1>2 DEF GmAddSituation
  <2>3. gmLast' = gmLast \/ gmLast' = [gmLast EXCEPT ![s][copy[1]] = copy[2]]
    BY <1>2 DEF GmAddSituation
  <2>4. gmLast' \in [GmSubs -> [GmSituations -> 0..GmMaxRecorded \cup {GmNone}]]
    <3>1. gmLast \in [GmSubs -> [GmSituations -> 0..GmMaxRecorded \cup {GmNone}]]
      OBVIOUS
    <3>2. copy[2] \in 0..GmMaxRecorded \cup {GmNone}
      BY <2>1
    <3>3. [gmLast EXCEPT ![s][copy[1]] = copy[2]]
            \in [GmSubs -> [GmSituations -> 0..GmMaxRecorded \cup {GmNone}]]
      BY ONLY <3>1, <3>2, ExceptTwiceType
    <3> QED
      BY ONLY <2>3, <3>1, <3>3
  <2>5. gmPending' \in [GmSubs -> SUBSET GmSituations]
    BY <1>2, <2>1 DEF GmAddSituation
  <2>6. GmTypeOK'
    BY <1>2, <2>2, <2>4, <2>5 DEF GmAddSituation
  <2>7. GmLoopOK' /\ GmManagerOK'
    BY <1>2 DEF GmAddSituation, GmLoopOK, GmManagerOK
  <2>8. GmNotLater'
    <3>1. UNCHANGED <<gmRecorded, gmSeen, gmFound, gmEvent>>
      BY <1>2 DEF GmAddSituation
    <3>2. \A t \in GmSubs, x \in GmSituations :
            gmLast'[t][x] # GmNone => gmLast'[t][x] <= gmRecorded[x]
      <4>1. gmLast \in [GmSubs -> [GmSituations -> 0..GmMaxRecorded \cup {GmNone}]]
        OBVIOUS
      <4> QED
        BY ONLY <2>1, <2>3, <4>1, GmNotLater DEF GmNotLater
    <3> QED
      BY ONLY <2>2, <3>1, <3>2, GmNotLater DEF GmNotLater
  <2> QED
    BY ONLY <2>6, <2>7, <2>8 DEF GmStateOK
<1>3. CASE GmGuardian(s)
  <2>1. gmLast' = [gmLast EXCEPT ![s] = GmNothing]
        /\ gmUntil' = [gmUntil EXCEPT ![s] = GmNone]
    BY <1>3 DEF GmGuardian
  <2>2. gmLast' \in [GmSubs -> [GmSituations -> 0..GmMaxRecorded \cup {GmNone}]]
        /\ gmUntil' \in [GmSubs -> 0..GmHorizon \cup {GmNone}]
    BY <2>1, GmEmptyTypes
  <2>3. GmTypeOK'
    BY <1>3, <2>2 DEF GmGuardian
  <2>4. GmLoopOK' /\ GmManagerOK'
    BY <1>3 DEF GmGuardian, GmLoopOK, GmManagerOK
  <2>5. GmNotLater'
    <3>1. UNCHANGED <<gmRecorded, gmSeen, gmFound, gmEvent, gmAdding>>
      BY <1>3 DEF GmGuardian
    <3>2. \A t \in GmSubs, x \in GmSituations :
            gmLast'[t][x] \in {GmNone, gmLast[t][x]}
      BY <2>1 DEF GmNothing
    <3> QED
      BY ONLY <3>1, <3>2, GmNotLater DEF GmNotLater
  <2> QED
    BY ONLY <2>3, <2>4, <2>5 DEF GmStateOK
<1> QED
  BY <1>1, <1>2, <1>3

\* The broadcast manager.
LEMMA GmManagerStepOK ==
  ASSUME GmStateOK,
         \/ \E x \in GmSituations : GmFind(x)
         \/ \E s \in GmSubs : GmCheckEvent(s)
  PROVE  GmStateOK'
<1> USE DEF GmStateOK, GmTypeOK, gmModelVars, gmMgrVars, gmSubVars, gmLoopVars,
            gmFeedVars
<1>1. ASSUME NEW x \in GmSituations, GmFind(x) PROVE GmStateOK'
  <2>1. GmTypeOK'
    BY <1>1 DEF GmFind
  <2>2. GmLoopOK' /\ GmManagerOK'
    BY <1>1 DEF GmFind, GmLoopOK, GmManagerOK
  <2>3. GmNotLater'
    <3>1. /\ gmEvent' = x /\ gmSeen' = gmRecorded[x]
          /\ UNCHANGED <<gmLast, gmRecorded, gmAdding>>
      BY <1>1 DEF GmFind
    <3>2. gmRecorded[x] <= gmRecorded[x]
      <4>1. gmRecorded[x] \in 0..GmMaxRecorded
        OBVIOUS
      <4> QED
        BY ONLY <4>1
    <3> QED
      BY ONLY <3>1, <3>2, GmNotLater DEF GmNotLater
  <2> QED
    BY ONLY <2>1, <2>2, <2>3 DEF GmStateOK
<1>2. ASSUME NEW s \in GmSubs, GmCheckEvent(s) PROVE GmStateOK'
  <2> DEFINE new == IF gmLast[s][gmEvent] = GmNone THEN gmSeen
                    ELSE gmLast[s][gmEvent]
  <2>1. /\ gmEvent \in GmSituations /\ s \in gmFound
        /\ gmLast \in [GmSubs -> [GmSituations -> 0..GmMaxRecorded \cup {GmNone}]]
    BY <1>2 DEF GmCheckEvent, GmManagerOK
  <2>2. gmPending' \in [GmSubs -> SUBSET GmSituations]
    BY <1>2, <2>1 DEF GmCheckEvent
  <2>3. new \in 0..GmMaxRecorded \cup {GmNone}
    BY <2>1
  <2>4. gmLast' = [gmLast EXCEPT ![s][gmEvent] = new] \/ gmLast' = gmLast
    BY <1>2 DEF GmCheckEvent
  <2>5. new # GmNone => new <= gmRecorded[gmEvent]
    BY <2>1 DEF GmNotLater
  <2> HIDE DEF new
  <2>6. gmLast' \in [GmSubs -> [GmSituations -> 0..GmMaxRecorded \cup {GmNone}]]
    <3>1. [gmLast EXCEPT ![s][gmEvent] = new]
            \in [GmSubs -> [GmSituations -> 0..GmMaxRecorded \cup {GmNone}]]
      BY ONLY <2>1, <2>3, ExceptTwiceType
    <3> QED
      BY ONLY <2>1, <2>4, <3>1
  <2>7. GmTypeOK'
    BY <1>2, <2>2, <2>6 DEF GmCheckEvent
  <2>8. GmLoopOK' /\ GmManagerOK'
    BY <1>2 DEF GmCheckEvent, GmLoopOK, GmManagerOK
  <2>9. GmNotLater'
    <3>1. /\ gmFound' \subseteq gmFound
          /\ UNCHANGED <<gmRecorded, gmAdding, gmSeen, gmEvent>>
      BY <1>2 DEF GmCheckEvent
    <3>2. \A t \in GmSubs, x \in GmSituations :
            gmLast'[t][x] # GmNone => gmLast'[t][x] <= gmRecorded[x]
      BY ONLY <2>1, <2>4, <2>5, GmNotLater DEF GmNotLater
    <3> QED
      BY ONLY <3>1, <3>2, GmNotLater DEF GmNotLater
  <2> QED
    BY ONLY <2>7, <2>8, <2>9 DEF GmStateOK
<1> QED
  BY <1>1, <1>2

\* The broadcaster loop.
LEMMA GmLoopStepOK ==
  ASSUME GmStateOK,
         \/ GmTick \/ GmBatchDone \/ \E s \in GmSubs : GmVisitSub(s)
         \/ \E x \in GmSituations : GmBuild(x)
         \/ \E ok \in BOOLEAN : GmNotify(ok)
  PROVE  GmStateOK'
<1> USE DEF GmStateOK, GmTypeOK, gmModelVars, gmMgrVars, gmSubVars, gmLoopVars,
            gmFeedVars
<1>1. CASE GmTick
  BY <1>1, GmEmptyTypes DEF GmTick, GmLoopOK, GmManagerOK, GmNotLater
<1>2. CASE GmBatchDone
  <2>1. gmBatch = GmEmpty
    BY <1>2 DEF GmBatchDone, GmEmpty
  <2> QED
    BY <1>2, <2>1 DEF GmBatchDone, GmLoopOK, GmManagerOK, GmNotLater
<1>3. ASSUME NEW s \in GmSubs, GmVisitSub(s) PROVE GmStateOK'
  <2>1. /\ gmBatch' \in [GmSubs -> SUBSET GmSituations]
        /\ gmTodo' \subseteq GmSituations /\ gmBuilder' \in GmFilter
    BY <1>3 DEF GmVisitSub
  <2>2. GmTypeOK'
    BY <1>3, <2>1 DEF GmVisitSub
  <2> QED
    BY <1>3, <2>2 DEF GmVisitSub, GmLoopOK, GmManagerOK, GmNotLater
<1>4. ASSUME NEW x \in GmSituations, GmBuild(x) PROVE GmStateOK'
  <2>1. gmMessages' \in [GmSituations -> 0..GmMaxRecorded \cup {GmNone}]
    BY <1>4 DEF GmBuild
  <2>2. GmTypeOK'
    BY <1>4, <2>1 DEF GmBuild
  <2> QED
    BY <1>4, <2>2 DEF GmBuild, GmLoopOK, GmManagerOK, GmNotLater
<1>5. ASSUME NEW ok \in BOOLEAN, GmNotify(ok) PROVE GmStateOK'
  <2>1. gmMissed' \in [GmSubs -> SUBSET GmSituations]
    <3>1. gmMissed \in [GmSubs -> SUBSET GmSituations] /\ GmBuilt \subseteq GmSituations
      BY DEF GmBuilt
    <3>2. \/ gmMissed' = [gmMissed EXCEPT ![gmSub] = @ \ GmBuilt]
          \/ gmMissed' = [gmMissed EXCEPT ![gmSub] = @ \cup GmBuilt]
      BY <1>5 DEF GmNotify
    <3> QED
      BY ONLY <3>1, <3>2
  <2>2. gmKnown' \in [GmSubs -> [GmSituations -> 0..GmMaxRecorded \cup {GmNone}]]
    BY <1>5 DEF GmNotify, GmBuilt
  <2>3. GmTypeOK'
    BY <1>5, <2>1, <2>2, GmEmptyTypes DEF GmNotify
  <2> QED
    BY <1>5, <2>3 DEF GmNotify, GmLoopOK, GmManagerOK, GmNotLater
<1> QED
  BY <1>1, <1>2, <1>3, <1>4, <1>5

-----------------------------------------------------------------------------
(* GeneralMessage: what a step does to one situation.                      *)

\* A notification with the situation is answered.
GmNotified(s, x) == s = gmSub /\ x \in GmBuilt /\ GmNotify(TRUE)

\* A request for the subscription.
GmRequested(s) ==
  \E f \in GmFilters, until \in 0..GmHorizon :
    GmHandleSubscriptionRequest(s, f, until)

\* A save of the situation.
GmSaved1(x) == \E state \in GmSaved : GmSave(x, state)

\* Only a save changes a situation.
LEMMA GmRecordedChanges ==
  ASSUME GmStateOK, GmNext, NEW s \in GmSubs, NEW x \in GmSituations
  PROVE  \/ UNCHANGED <<gmRecorded[x], gmSituations[x]>>
         \/ GmSaved1(x)
<1> DEFINE Goal ==
         \/ UNCHANGED <<gmRecorded[x], gmSituations[x]>>
         \/ GmSaved1(x)
<1>1. /\ gmRecorded \in [GmSituations -> 0..GmMaxRecorded]
      /\ gmSituations \in [GmSituations -> GmSituation \cup {GmNone}]
      /\ x \in GmSituations
  BY GmAssumption DEF GmAssumption, GmStateOK, GmTypeOK, GmLoopOK, GmManagerOK,
                      GmBuilt, GmNothing, GmSituation
<1> USE DEF gmModelVars, gmMgrVars, gmSubVars, gmLoopVars, gmFeedVars
<1>2. ASSUME NEW y \in GmSituations, NEW state \in GmSaved, GmSave(y, state)
      PROVE  Goal
  BY ONLY <1>1, <1>2, state \in GmSaved DEF GmSave, GmSaved1
<1>3. ASSUME NEW y \in GmSituations, GmFind(y)
      PROVE  Goal
  BY ONLY <1>1, <1>3 DEF GmFind
<1>4. ASSUME NEW y \in GmSituations, GmBuild(y)
      PROVE  Goal
  BY ONLY <1>1, <1>4 DEF GmBuild
<1>5. ASSUME NEW t \in GmSubs, NEW f \in GmFilters, NEW until \in 0..GmHorizon,
             GmHandleSubscriptionRequest(t, f, until)
      PROVE  Goal
  BY ONLY <1>1, <1>5 DEF GmHandleSubscriptionRequest
<1>6. ASSUME NEW t \in GmSubs, NEW copy \in gmAdding[t],
             GmAddSituation(t, copy)
      PROVE  Goal
  BY ONLY <1>1, <1>6 DEF GmAddSituation
<1>7. ASSUME NEW t \in GmSubs, GmGuardian(t)
      PROVE  Goal
  BY ONLY <1>1, <1>7 DEF GmGuardian
<1>8. ASSUME NEW t \in GmSubs, GmCheckEvent(t)
      PROVE  Goal
  BY ONLY <1>1, <1>8 DEF GmCheckEvent
<1>9. ASSUME NEW t \in GmSubs, GmVisitSub(t)
      PROVE  Goal
  BY ONLY <1>1, <1>9 DEF GmVisitSub
<1>10. CASE GmTime
  BY ONLY <1>1, <1>10 DEF GmTime
<1>11. CASE GmTick
  BY ONLY <1>1, <1>11 DEF GmTick
<1>12. CASE GmBatchDone
  BY ONLY <1>1, <1>12 DEF GmBatchDone
<1>13. ASSUME NEW ok \in BOOLEAN, GmNotify(ok)
      PROVE  Goal
  BY ONLY <1>1, <1>13 DEF GmNotify
<1> QED
  BY <1>2, <1>3, <1>4, <1>5, <1>6, <1>7, <1>8, <1>9,
     <1>10, <1>11, <1>12, <1>13 DEF GmNext

\* Only a request changes the filters of a subscription.
LEMMA GmOptionsChange ==
  ASSUME GmStateOK, GmNext, NEW s \in GmSubs, NEW x \in GmSituations
  PROVE  gmOptions'[s] = gmOptions[s] \/ GmRequested(s)
<1> DEFINE Goal ==
         gmOptions'[s] = gmOptions[s] \/ GmRequested(s)
<1>1. /\ gmOptions \in [GmSubs -> GmFilter] /\ s \in GmSubs
  BY GmAssumption DEF GmAssumption, GmStateOK, GmTypeOK, GmLoopOK, GmManagerOK,
                      GmBuilt, GmNothing, GmSituation
<1> USE DEF gmModelVars, gmMgrVars, gmSubVars, gmLoopVars, gmFeedVars
<1>2. ASSUME NEW y \in GmSituations, NEW state \in GmSaved, GmSave(y, state)
      PROVE  Goal
  BY ONLY <1>1, <1>2 DEF GmSave
<1>3. ASSUME NEW y \in GmSituations, GmFind(y)
      PROVE  Goal
  BY ONLY <1>1, <1>3 DEF GmFind
<1>4. ASSUME NEW y \in GmSituations, GmBuild(y)
      PROVE  Goal
  BY ONLY <1>1, <1>4 DEF GmBuild
<1>5. ASSUME NEW t \in GmSubs, NEW f \in GmFilters, NEW until \in 0..GmHorizon,
             GmHandleSubscriptionRequest(t, f, until)
      PROVE  Goal
  BY ONLY <1>1, <1>5, f \in GmFilters, until \in 0..GmHorizon
  DEF GmHandleSubscriptionRequest, GmRequested
<1>6. ASSUME NEW t \in GmSubs, NEW copy \in gmAdding[t],
             GmAddSituation(t, copy)
      PROVE  Goal
  BY ONLY <1>1, <1>6 DEF GmAddSituation
<1>7. ASSUME NEW t \in GmSubs, GmGuardian(t)
      PROVE  Goal
  BY ONLY <1>1, <1>7 DEF GmGuardian
<1>8. ASSUME NEW t \in GmSubs, GmCheckEvent(t)
      PROVE  Goal
  BY ONLY <1>1, <1>8 DEF GmCheckEvent
<1>9. ASSUME NEW t \in GmSubs, GmVisitSub(t)
      PROVE  Goal
  BY ONLY <1>1, <1>9 DEF GmVisitSub
<1>10. CASE GmTime
  BY ONLY <1>1, <1>10 DEF GmTime
<1>11. CASE GmTick
  BY ONLY <1>1, <1>11 DEF GmTick
<1>12. CASE GmBatchDone
  BY ONLY <1>1, <1>12 DEF GmBatchDone
<1>13. ASSUME NEW ok \in BOOLEAN, GmNotify(ok)
      PROVE  Goal
  BY ONLY <1>1, <1>13 DEF GmNotify
<1> QED
  BY <1>2, <1>3, <1>4, <1>5, <1>6, <1>7, <1>8, <1>9,
     <1>10, <1>11, <1>12, <1>13 DEF GmNext

\* A message is due only if it was, unless there was a save or a request.
LEMMA GmDueBefore ==
  ASSUME GmStateOK, GmNext, NEW s \in GmSubs, NEW x \in GmSituations,
         GmDue(s, x)'
  PROVE  GmDue(s, x) \/ GmSaved1(x) \/ GmRequested(s)
<1> DEFINE Goal ==
         GmDue(s, x) \/ GmSaved1(x) \/ GmRequested(s)
<1>1. /\ gmUntil \in [GmSubs -> 0..GmHorizon \cup {GmNone}]
      /\ gmSituations \in [GmSituations -> GmSituation \cup {GmNone}]
      /\ gmOptions \in [GmSubs -> GmFilter]
      /\ gmSituations[x] # GmNone => gmSituations[x].validUntil \in Nat
      /\ gmUntil[s] # GmNone => gmUntil[s] \in Nat
      /\ gmNow \in Nat
      /\ s \in GmSubs /\ x \in GmSituations
      /\ GmDue(s, x)' 
  BY GmAssumption DEF GmAssumption, GmStateOK, GmTypeOK, GmLoopOK, GmManagerOK,
                      GmBuilt, GmNothing, GmSituation
<1> USE DEF gmModelVars, gmMgrVars, gmSubVars, gmLoopVars, gmFeedVars
<1>2. ASSUME NEW y \in GmSituations, NEW state \in GmSaved, GmSave(y, state)
      PROVE  Goal
  BY ONLY <1>1, <1>2, state \in GmSaved DEF GmSave, GmSaved1, GmDue, GmExpired,
     BuildGeneralMessage, CheckInfoChannelRef, CheckFilter
<1>3. ASSUME NEW y \in GmSituations, GmFind(y)
      PROVE  Goal
  BY ONLY <1>1, <1>3
  DEF GmFind, GmDue, GmExpired, BuildGeneralMessage, CheckInfoChannelRef,
       CheckFilter
<1>4. ASSUME NEW y \in GmSituations, GmBuild(y)
      PROVE  Goal
  BY ONLY <1>1, <1>4
  DEF GmBuild, GmDue, GmExpired, BuildGeneralMessage, CheckInfoChannelRef,
       CheckFilter
<1>5. ASSUME NEW t \in GmSubs, NEW f \in GmFilters, NEW until \in 0..GmHorizon,
             GmHandleSubscriptionRequest(t, f, until)
      PROVE  Goal
  BY ONLY <1>1, <1>5, f \in GmFilters, until \in 0..GmHorizon
  DEF GmHandleSubscriptionRequest, GmRequested, GmDue, GmExpired,
       BuildGeneralMessage, CheckInfoChannelRef, CheckFilter
<1>6. ASSUME NEW t \in GmSubs, NEW copy \in gmAdding[t],
             GmAddSituation(t, copy)
      PROVE  Goal
  BY ONLY <1>1, <1>6
  DEF GmAddSituation, GmDue, GmExpired, BuildGeneralMessage,
       CheckInfoChannelRef, CheckFilter
<1>7. ASSUME NEW t \in GmSubs, GmGuardian(t)
      PROVE  Goal
  BY ONLY <1>1, <1>7
  DEF GmGuardian, GmDue, GmExpired, BuildGeneralMessage, CheckInfoChannelRef,
       CheckFilter
<1>8. ASSUME NEW t \in GmSubs, GmCheckEvent(t)
      PROVE  Goal
  BY ONLY <1>1, <1>8
  DEF GmCheckEvent, GmDue, GmExpired, BuildGeneralMessage,
       CheckInfoChannelRef, CheckFilter
<1>9. ASSUME NEW t \in GmSubs, GmVisitSub(t)
      PROVE  Goal
  BY ONLY <1>1, <1>9
  DEF GmVisitSub, GmDue, GmExpired, BuildGeneralMessage, CheckInfoChannelRef,
       CheckFilter
<1>10. CASE GmTime
  BY ONLY <1>1, <1>10
  DEF GmTime, GmDue, GmExpired, BuildGeneralMessage, CheckInfoChannelRef,
       CheckFilter
<1>11. CASE GmTick
  BY ONLY <1>1, <1>11
  DEF GmTick, GmDue, GmExpired, BuildGeneralMessage, CheckInfoChannelRef,
       CheckFilter
<1>12. CASE GmBatchDone
  BY ONLY <1>1, <1>12
  DEF GmBatchDone, GmDue, GmExpired, BuildGeneralMessage, CheckInfoChannelRef,
       CheckFilter
<1>13. ASSUME NEW ok \in BOOLEAN, GmNotify(ok)
      PROVE  Goal
  BY ONLY <1>1, <1>13
  DEF GmNotify, GmDue, GmExpired, BuildGeneralMessage, CheckInfoChannelRef,
       CheckFilter
<1> QED
  BY <1>2, <1>3, <1>4, <1>5, <1>6, <1>7, <1>8, <1>9,
     <1>10, <1>11, <1>12, <1>13 DEF GmNext

\* What will be queued again will still be, or the broadcaster takes it.
LEMMA GmAgainStays ==
  ASSUME GmStateOK, GmNext, NEW s \in GmSubs, NEW x \in GmSituations,
         GmAgain(s, x), GmDue(s, x), GmDue(s, x)', gmRecorded'[x] = gmRecorded[x]
  PROVE  GmAgain(s, x)' \/ (gmSub' = s /\ x \in gmTodo' /\ gmTodo = {})
<1> DEFINE Goal ==
         GmAgain(s, x)' \/ (gmSub' = s /\ x \in gmTodo' /\ gmTodo = {})
<1>1. /\ gmLast \in [GmSubs -> [GmSituations -> 0..GmMaxRecorded \cup {GmNone}]]
      /\ gmPending \in [GmSubs -> SUBSET GmSituations]
      /\ gmBatch \in [GmSubs -> SUBSET GmSituations]
      /\ gmAdding \in [GmSubs -> SUBSET (GmSituations \X (0..GmMaxRecorded))]
      /\ gmPc = "idle" => gmBatch = GmEmpty
      /\ gmPc = "batch" => gmTodo = {}
      /\ gmFound # {} => /\ gmEvent \in GmSituations
                         /\ gmSeen = gmRecorded[gmEvent] \/ gmEvent \in gmEvents
      /\ s \in GmSubs /\ x \in GmSituations
      /\ gmUntil[s] # GmNone /\ ~GmExpired(s) /\ gmUntil'[s] # GmNone
      /\ ~gmSituations[x].own
      /\ gmRecorded'[x] = gmRecorded[x]
      /\ GmAgain(s, x)
  BY DEF GmStateOK, GmTypeOK, GmLoopOK, GmManagerOK, GmDue, BuildGeneralMessage
<1> USE DEF gmModelVars, gmMgrVars, gmSubVars, gmLoopVars, gmFeedVars
<1>2. ASSUME NEW y \in GmSituations, NEW state \in GmSaved, GmSave(y, state)
      PROVE  Goal
  BY ONLY <1>1, <1>2 DEF GmSave, GmAgain, GmEmpty
<1>3. ASSUME NEW y \in GmSituations, GmFind(y)
      PROVE  Goal
  BY ONLY <1>1, <1>3 DEF GmFind, GmAgain, GmEmpty
<1>4. ASSUME NEW y \in GmSituations, GmBuild(y)
      PROVE  Goal
  BY ONLY <1>1, <1>4 DEF GmBuild, GmAgain, GmEmpty
<1>5. ASSUME NEW t \in GmSubs, NEW f \in GmFilters, NEW until \in 0..GmHorizon,
             GmHandleSubscriptionRequest(t, f, until)
      PROVE  Goal
  BY ONLY <1>1, <1>5 DEF GmHandleSubscriptionRequest, GmAgain, GmEmpty
<1>6. ASSUME NEW t \in GmSubs, NEW copy \in gmAdding[t],
             GmAddSituation(t, copy)
      PROVE  Goal
  BY ONLY <1>1, <1>6 DEF GmAddSituation, GmAgain, GmEmpty
<1>7. ASSUME NEW t \in GmSubs, GmGuardian(t)
      PROVE  Goal
  BY ONLY <1>1, <1>7 DEF GmGuardian, GmAgain, GmEmpty
<1>8. ASSUME NEW t \in GmSubs, GmCheckEvent(t)
      PROVE  Goal
  BY ONLY <1>1, <1>8 DEF GmCheckEvent, GmAgain, GmQueues
<1>9. ASSUME NEW t \in GmSubs, GmVisitSub(t)
      PROVE  Goal
  BY ONLY <1>1, <1>9 DEF GmVisitSub, GmAgain, GmEmpty
<1>10. CASE GmTime
  BY ONLY <1>1, <1>10 DEF GmTime, GmAgain, GmEmpty
<1>11. CASE GmTick
  BY ONLY <1>1, <1>11 DEF GmTick, GmAgain, GmEmpty
<1>12. CASE GmBatchDone
  BY ONLY <1>1, <1>12 DEF GmBatchDone, GmAgain, GmEmpty
<1>13. ASSUME NEW ok \in BOOLEAN, GmNotify(ok)
      PROVE  Goal
  BY ONLY <1>1, <1>13 DEF GmNotify, GmAgain, GmEmpty
<1> QED
  BY <1>2, <1>3, <1>4, <1>5, <1>6, <1>7, <1>8, <1>9,
     <1>10, <1>11, <1>12, <1>13 DEF GmNext

\* The broadcaster looks at each situation of its batch.
LEMMA GmTodoStays ==
  ASSUME GmStateOK, GmNext, NEW s \in GmSubs, NEW x \in GmSituations,
         gmSub = s, x \in gmTodo
  PROVE  (gmSub' = s /\ x \in gmTodo') \/ GmBuild(x)
<1> DEFINE Goal ==
         (gmSub' = s /\ x \in gmTodo') \/ GmBuild(x)
<1>1. /\ gmPc \in {"idle", "batch", "situations"}
      /\ gmPc \in {"idle", "batch"} => gmTodo = {}
      /\ gmSub = s /\ x \in gmTodo
  BY GmAssumption DEF GmAssumption, GmStateOK, GmTypeOK, GmLoopOK, GmManagerOK,
                      GmBuilt, GmNothing, GmSituation
<1> USE DEF gmModelVars, gmMgrVars, gmSubVars, gmLoopVars, gmFeedVars
<1>2. ASSUME NEW y \in GmSituations, NEW state \in GmSaved, GmSave(y, state)
      PROVE  Goal
  BY ONLY <1>1, <1>2 DEF GmSave
<1>3. ASSUME NEW y \in GmSituations, GmFind(y)
      PROVE  Goal
  BY ONLY <1>1, <1>3 DEF GmFind
<1>4. ASSUME NEW y \in GmSituations, GmBuild(y)
      PROVE  Goal
  BY ONLY <1>1, <1>4 DEF GmBuild
<1>5. ASSUME NEW t \in GmSubs, NEW f \in GmFilters, NEW until \in 0..GmHorizon,
             GmHandleSubscriptionRequest(t, f, until)
      PROVE  Goal
  BY ONLY <1>1, <1>5 DEF GmHandleSubscriptionRequest
<1>6. ASSUME NEW t \in GmSubs, NEW copy \in gmAdding[t],
             GmAddSituation(t, copy)
      PROVE  Goal
  BY ONLY <1>1, <1>6 DEF GmAddSituation
<1>7. ASSUME NEW t \in GmSubs, GmGuardian(t)
      PROVE  Goal
  BY ONLY <1>1, <1>7 DEF GmGuardian
<1>8. ASSUME NEW t \in GmSubs, GmCheckEvent(t)
      PROVE  Goal
  BY ONLY <1>1, <1>8 DEF GmCheckEvent
<1>9. ASSUME NEW t \in GmSubs, GmVisitSub(t)
      PROVE  Goal
  BY ONLY <1>1, <1>9 DEF GmVisitSub
<1>10. CASE GmTime
  BY ONLY <1>1, <1>10 DEF GmTime
<1>11. CASE GmTick
  BY ONLY <1>1, <1>11 DEF GmTick
<1>12. CASE GmBatchDone
  BY ONLY <1>1, <1>12 DEF GmBatchDone
<1>13. ASSUME NEW ok \in BOOLEAN, GmNotify(ok)
      PROVE  Goal
  BY ONLY <1>1, <1>13 DEF GmNotify
<1> QED
  BY <1>2, <1>3, <1>4, <1>5, <1>6, <1>7, <1>8, <1>9,
     <1>10, <1>11, <1>12, <1>13 DEF GmNext

\* A message stays until the notification.
LEMMA GmBuiltStays ==
  ASSUME GmStateOK, GmNext, NEW s \in GmSubs, NEW x \in GmSituations,
         gmSub = s, x \in GmBuilt
  PROVE  \/ gmSub' = s /\ x \in GmBuilt'
         \/ gmTodo = {} /\ GmNotify(TRUE)
         \/ x \in gmMissed'[s]
<1> DEFINE Goal ==
         \/ gmSub' = s /\ x \in GmBuilt'
         \/ gmTodo = {} /\ GmNotify(TRUE)
         \/ x \in gmMissed'[s]
<1>1. /\ gmPc \in {"idle", "batch", "situations"}
      /\ gmPc \in {"idle", "batch"} => GmBuilt = {}
      /\ gmMessages \in [GmSituations -> 0..GmMaxRecorded \cup {GmNone}]
      /\ gmRecorded \in [GmSituations -> 0..GmMaxRecorded]
      /\ gmMissed \in [GmSubs -> SUBSET GmSituations]
      /\ \A y \in GmSituations : gmRecorded[y] # GmNone
      /\ s \in GmSubs /\ x \in GmSituations
      /\ gmSub = s /\ x \in GmBuilt
  BY GmAssumption DEF GmAssumption, GmStateOK, GmTypeOK, GmLoopOK, GmManagerOK,
                      GmBuilt, GmNothing, GmSituation
<1> USE DEF gmModelVars, gmMgrVars, gmSubVars, gmLoopVars, gmFeedVars
<1>2. ASSUME NEW y \in GmSituations, NEW state \in GmSaved, GmSave(y, state)
      PROVE  Goal
  BY ONLY <1>1, <1>2 DEF GmSave, GmBuilt
<1>3. ASSUME NEW y \in GmSituations, GmFind(y)
      PROVE  Goal
  BY ONLY <1>1, <1>3 DEF GmFind, GmBuilt
<1>4. ASSUME NEW y \in GmSituations, GmBuild(y)
      PROVE  Goal
  BY ONLY <1>1, <1>4 DEF GmBuild, GmBuilt
<1>5. ASSUME NEW t \in GmSubs, NEW f \in GmFilters, NEW until \in 0..GmHorizon,
             GmHandleSubscriptionRequest(t, f, until)
      PROVE  Goal
  BY ONLY <1>1, <1>5 DEF GmHandleSubscriptionRequest, GmBuilt
<1>6. ASSUME NEW t \in GmSubs, NEW copy \in gmAdding[t],
             GmAddSituation(t, copy)
      PROVE  Goal
  BY ONLY <1>1, <1>6 DEF GmAddSituation, GmBuilt
<1>7. ASSUME NEW t \in GmSubs, GmGuardian(t)
      PROVE  Goal
  BY ONLY <1>1, <1>7 DEF GmGuardian, GmBuilt
<1>8. ASSUME NEW t \in GmSubs, GmCheckEvent(t)
      PROVE  Goal
  BY ONLY <1>1, <1>8 DEF GmCheckEvent, GmBuilt
<1>9. ASSUME NEW t \in GmSubs, GmVisitSub(t)
      PROVE  Goal
  BY ONLY <1>1, <1>9 DEF GmVisitSub, GmBuilt
<1>10. CASE GmTime
  BY ONLY <1>1, <1>10 DEF GmTime, GmBuilt
<1>11. CASE GmTick
  BY ONLY <1>1, <1>11 DEF GmTick, GmBuilt
<1>12. CASE GmBatchDone
  BY ONLY <1>1, <1>12 DEF GmBatchDone, GmBuilt
<1>13. ASSUME NEW ok \in BOOLEAN, GmNotify(ok)
      PROVE  Goal
  BY ONLY <1>1, <1>13 DEF GmNotify, GmBuilt
<1> QED
  BY <1>2, <1>3, <1>4, <1>5, <1>6, <1>7, <1>8, <1>9,
     <1>10, <1>11, <1>12, <1>13 DEF GmNext

\* A subscriber is told by a notification.
LEMMA GmKnownStays ==
  ASSUME GmStateOK, GmNext, NEW s \in GmSubs, NEW x \in GmSituations,
         gmKnown[s][x] = gmRecorded[x] \/ x \in gmMissed[s]
  PROVE  \/ GmNotified(s, x)
         \/ gmKnown'[s][x] = gmRecorded[x] \/ x \in gmMissed'[s]
<1> DEFINE Goal ==
         \/ GmNotified(s, x)
         \/ gmKnown'[s][x] = gmRecorded[x] \/ x \in gmMissed'[s]
<1>1. /\ gmKnown \in [GmSubs -> [GmSituations -> 0..GmMaxRecorded \cup {GmNone}]]
      /\ gmMissed \in [GmSubs -> SUBSET GmSituations]
      /\ s \in GmSubs /\ x \in GmSituations
      /\ gmKnown[s][x] = gmRecorded[x] \/ x \in gmMissed[s]
  BY GmAssumption DEF GmAssumption, GmStateOK, GmTypeOK, GmLoopOK, GmManagerOK,
                      GmBuilt, GmNothing, GmSituation
<1> USE DEF gmModelVars, gmMgrVars, gmSubVars, gmLoopVars, gmFeedVars
<1>2. ASSUME NEW y \in GmSituations, NEW state \in GmSaved, GmSave(y, state)
      PROVE  Goal
  BY ONLY <1>1, <1>2 DEF GmSave, GmNotified
<1>3. ASSUME NEW y \in GmSituations, GmFind(y)
      PROVE  Goal
  BY ONLY <1>1, <1>3 DEF GmFind, GmNotified
<1>4. ASSUME NEW y \in GmSituations, GmBuild(y)
      PROVE  Goal
  BY ONLY <1>1, <1>4 DEF GmBuild, GmNotified
<1>5. ASSUME NEW t \in GmSubs, NEW f \in GmFilters, NEW until \in 0..GmHorizon,
             GmHandleSubscriptionRequest(t, f, until)
      PROVE  Goal
  BY ONLY <1>1, <1>5 DEF GmHandleSubscriptionRequest, GmNotified
<1>6. ASSUME NEW t \in GmSubs, NEW copy \in gmAdding[t],
             GmAddSituation(t, copy)
      PROVE  Goal
  BY ONLY <1>1, <1>6 DEF GmAddSituation, GmNotified
<1>7. ASSUME NEW t \in GmSubs, GmGuardian(t)
      PROVE  Goal
  BY ONLY <1>1, <1>7 DEF GmGuardian, GmNotified
<1>8. ASSUME NEW t \in GmSubs, GmCheckEvent(t)
      PROVE  Goal
  BY ONLY <1>1, <1>8 DEF GmCheckEvent, GmNotified
<1>9. ASSUME NEW t \in GmSubs, GmVisitSub(t)
      PROVE  Goal
  BY ONLY <1>1, <1>9 DEF GmVisitSub, GmNotified
<1>10. CASE GmTime
  BY ONLY <1>1, <1>10 DEF GmTime, GmNotified
<1>11. CASE GmTick
  BY ONLY <1>1, <1>11 DEF GmTick, GmNotified
<1>12. CASE GmBatchDone
  BY ONLY <1>1, <1>12 DEF GmBatchDone, GmNotified
<1>13. ASSUME NEW ok \in BOOLEAN, GmNotify(ok)
      PROVE  Goal
  BY ONLY <1>1, <1>13 DEF GmNotify, GmNotified
<1> QED
  BY <1>2, <1>3, <1>4, <1>5, <1>6, <1>7, <1>8, <1>9,
     <1>10, <1>11, <1>12, <1>13 DEF GmNext

\* A message is built from the situation as it is.
LEMMA GmBuiltBefore ==
  ASSUME GmStateOK, GmNext, NEW s \in GmSubs, NEW x \in GmSituations,
         gmSub' = s, x \in GmBuilt'
  PROVE  \/ gmSub = s /\ x \in GmBuilt /\ gmMessages'[x] = gmMessages[x]
         \/ gmMessages'[x] = gmRecorded[x]
<1> DEFINE Goal ==
         \/ gmSub = s /\ x \in GmBuilt /\ gmMessages'[x] = gmMessages[x]
         \/ gmMessages'[x] = gmRecorded[x]
<1>1. /\ gmPc \in {"idle", "batch", "situations"}
      /\ gmPc \in {"idle", "batch"} => GmBuilt = {}
      /\ gmMessages \in [GmSituations -> 0..GmMaxRecorded \cup {GmNone}]
      /\ s \in GmSubs /\ x \in GmSituations
      /\ gmSub' = s /\ x \in GmBuilt' 
  BY GmAssumption DEF GmAssumption, GmStateOK, GmTypeOK, GmLoopOK, GmManagerOK,
                      GmBuilt, GmNothing, GmSituation
<1> USE DEF gmModelVars, gmMgrVars, gmSubVars, gmLoopVars, gmFeedVars
<1>2. ASSUME NEW y \in GmSituations, NEW state \in GmSaved, GmSave(y, state)
      PROVE  Goal
  BY ONLY <1>1, <1>2 DEF GmSave, GmBuilt, GmNothing
<1>3. ASSUME NEW y \in GmSituations, GmFind(y)
      PROVE  Goal
  BY ONLY <1>1, <1>3 DEF GmFind, GmBuilt, GmNothing
<1>4. ASSUME NEW y \in GmSituations, GmBuild(y)
      PROVE  Goal
  BY ONLY <1>1, <1>4 DEF GmBuild, GmBuilt, GmNothing
<1>5. ASSUME NEW t \in GmSubs, NEW f \in GmFilters, NEW until \in 0..GmHorizon,
             GmHandleSubscriptionRequest(t, f, until)
      PROVE  Goal
  BY ONLY <1>1, <1>5 DEF GmHandleSubscriptionRequest, GmBuilt, GmNothing
<1>6. ASSUME NEW t \in GmSubs, NEW copy \in gmAdding[t],
             GmAddSituation(t, copy)
      PROVE  Goal
  BY ONLY <1>1, <1>6 DEF GmAddSituation, GmBuilt, GmNothing
<1>7. ASSUME NEW t \in GmSubs, GmGuardian(t)
      PROVE  Goal
  BY ONLY <1>1, <1>7 DEF GmGuardian, GmBuilt, GmNothing
<1>8. ASSUME NEW t \in GmSubs, GmCheckEvent(t)
      PROVE  Goal
  BY ONLY <1>1, <1>8 DEF GmCheckEvent, GmBuilt, GmNothing
<1>9. ASSUME NEW t \in GmSubs, GmVisitSub(t)
      PROVE  Goal
  BY ONLY <1>1, <1>9 DEF GmVisitSub, GmBuilt, GmNothing
<1>10. CASE GmTime
  BY ONLY <1>1, <1>10 DEF GmTime, GmBuilt, GmNothing
<1>11. CASE GmTick
  BY ONLY <1>1, <1>11 DEF GmTick, GmBuilt, GmNothing
<1>12. CASE GmBatchDone
  BY ONLY <1>1, <1>12 DEF GmBatchDone, GmBuilt, GmNothing
<1>13. ASSUME NEW ok \in BOOLEAN, GmNotify(ok)
      PROVE  Goal
  BY ONLY <1>1, <1>13 DEF GmNotify, GmBuilt, GmNothing
<1> QED
  BY <1>2, <1>3, <1>4, <1>5, <1>6, <1>7, <1>8, <1>9,
     <1>10, <1>11, <1>12, <1>13 DEF GmNext

\* The builder has the filters the subscription has then.
LEMMA GmTodoBefore ==
  ASSUME GmStateOK, GmNext, NEW s \in GmSubs, NEW x \in GmSituations,
         gmSub' = s, x \in gmTodo'
  PROVE  \/ gmSub = s /\ x \in gmTodo /\ gmBuilder' = gmBuilder
         \/ gmBuilder' = gmOptions[s]
<1> DEFINE Goal ==
         \/ gmSub = s /\ x \in gmTodo /\ gmBuilder' = gmBuilder
         \/ gmBuilder' = gmOptions[s]
<1>1. /\ gmPc \in {"idle", "batch", "situations"}
      /\ gmPc \in {"idle", "batch"} => gmTodo = {}
      /\ gmSub' = s /\ x \in gmTodo' 
  BY GmAssumption DEF GmAssumption, GmStateOK, GmTypeOK, GmLoopOK, GmManagerOK,
                      GmBuilt, GmNothing, GmSituation
<1> USE DEF gmModelVars, gmMgrVars, gmSubVars, gmLoopVars, gmFeedVars
<1>2. ASSUME NEW y \in GmSituations, NEW state \in GmSaved, GmSave(y, state)
      PROVE  Goal
  BY ONLY <1>1, <1>2 DEF GmSave
<1>3. ASSUME NEW y \in GmSituations, GmFind(y)
      PROVE  Goal
  BY ONLY <1>1, <1>3 DEF GmFind
<1>4. ASSUME NEW y \in GmSituations, GmBuild(y)
      PROVE  Goal
  BY ONLY <1>1, <1>4 DEF GmBuild
<1>5. ASSUME NEW t \in GmSubs, NEW f \in GmFilters, NEW until \in 0..GmHorizon,
             GmHandleSubscriptionRequest(t, f, until)
      PROVE  Goal
  BY ONLY <1>1, <1>5 DEF GmHandleSubscriptionRequest
<1>6. ASSUME NEW t \in GmSubs, NEW copy \in gmAdding[t],
             GmAddSituation(t, copy)
      PROVE  Goal
  BY ONLY <1>1, <1>6 DEF GmAddSituation
<1>7. ASSUME NEW t \in GmSubs, GmGuardian(t)
      PROVE  Goal
  BY ONLY <1>1, <1>7 DEF GmGuardian
<1>8. ASSUME NEW t \in GmSubs, GmCheckEvent(t)
      PROVE  Goal
  BY ONLY <1>1, <1>8 DEF GmCheckEvent
<1>9. ASSUME NEW t \in GmSubs, GmVisitSub(t)
      PROVE  Goal
  BY ONLY <1>1, <1>9 DEF GmVisitSub
<1>10. CASE GmTime
  BY ONLY <1>1, <1>10 DEF GmTime
<1>11. CASE GmTick
  BY ONLY <1>1, <1>11 DEF GmTick
<1>12. CASE GmBatchDone
  BY ONLY <1>1, <1>12 DEF GmBatchDone
<1>13. ASSUME NEW ok \in BOOLEAN, GmNotify(ok)
      PROVE  Goal
  BY ONLY <1>1, <1>13 DEF GmNotify
<1> QED
  BY <1>2, <1>3, <1>4, <1>5, <1>6, <1>7, <1>8, <1>9,
     <1>10, <1>11, <1>12, <1>13 DEF GmNext

\* A save and a request have the situation queued again.
LEMMA GmQueuedAgain ==
  ASSUME GmStateOK, NEW s \in GmSubs, NEW x \in GmSituations,
         GmDue(s, x)', GmSaved1(x) \/ GmRequested(s)
  PROVE  GmAgain(s, x)'
<1>1. CASE GmSaved1(x)
  <2>1. PICK state \in GmSaved : GmSave(x, state)
    BY <1>1 DEF GmSaved1
  <2>2. /\ gmRecorded[x] \in Nat /\ GmNone \notin Nat
        /\ gmLast[s][x] # GmNone =>
             gmLast[s][x] \in Nat /\ gmLast[s][x] <= gmRecorded[x]
    <3>1. GmMaxRecorded \in Nat /\ GmNone \notin Nat
      BY GmAssumption DEF GmAssumption
    <3> QED
      BY <3>1 DEF GmStateOK, GmTypeOK, GmNotLater
  <2>3. /\ gmRecorded'[x] = gmRecorded[x] + 1 /\ gmLast' = gmLast
        /\ x \in gmEvents'
    BY <2>1 DEF GmSave, GmStateOK, GmTypeOK
  <2>4. gmLast'[s][x] # gmRecorded'[x]
    BY ONLY <2>2, <2>3
  <2> QED
    BY <2>3, <2>4 DEF GmAgain
<1>2. CASE GmRequested(s)
  <2>1. PICK f \in GmFilters, until \in 0..GmHorizon :
          GmHandleSubscriptionRequest(s, f, until)
    BY <1>2 DEF GmRequested
  <2>2. gmSituations[x] # GmNone /\ gmSituations[x].validUntil >= gmNow
    BY <2>1 DEF GmHandleSubscriptionRequest, GmDue, BuildGeneralMessage,
                gmModelVars
  <2>3. <<x, gmRecorded[x]>> \in gmAdding'[s]
    BY <2>1, <2>2 DEF GmHandleSubscriptionRequest, GmStateOK, GmTypeOK
  <2> QED
    BY <2>3 DEF GmAgain
<1> QED
  BY <1>1, <1>2

-----------------------------------------------------------------------------
(* GeneralMessage: every situation is told.                                *)

\* The parts of the invariant, of one subscription and situation.
GmPairOK(s, x) == GmTold(s, x) /\ GmMessageOf(s, x) /\ GmFilterOf(s, x)

\* A message that is due after a step, of a situation it left as it was.
GmSameDue(s, x) ==
  /\ GmDue(s, x) /\ GmDue(s, x)'
  /\ gmRecorded'[x] = gmRecorded[x] /\ gmSituations'[x] = gmSituations[x]
  /\ gmOptions'[s] = gmOptions[s]

\* Either the situation will be queued again, or the step left it as it was.
LEMMA GmAgainOrSame ==
  ASSUME GmStateOK, GmNext, NEW s \in GmSubs, NEW x \in GmSituations,
         GmDue(s, x)'
  PROVE  GmAgain(s, x)' \/ GmSameDue(s, x)
<1>1. CASE GmSaved1(x) \/ GmRequested(s)
  BY <1>1, GmQueuedAgain
<1>2. CASE ~GmSaved1(x) /\ ~GmRequested(s)
  <2>1. GmDue(s, x)
    BY <1>2, GmDueBefore
  <2>2. UNCHANGED <<gmRecorded[x], gmSituations[x]>>
    BY <1>2, GmRecordedChanges
  <2>3. gmOptions'[s] = gmOptions[s]
    BY <1>2, GmOptionsChange
  <2> QED
    BY <2>1, <2>2, <2>3 DEF GmSameDue
<1> QED
  BY <1>1, <1>2

\* The broadcaster builds a message that is due, with the filters of the last
\* request.
LEMMA GmBuildsDue ==
  ASSUME GmStateOK, NEW s \in GmSubs, NEW x \in GmSituations, GmBuild(x),
         GmDue(s, x), gmSub = s, gmBuilder = gmOptions[s]
  PROVE  /\ gmSub' = s /\ x \in GmBuilt'
         /\ gmMessages'[x] = gmRecorded[x]
<1>1. gmMessages' = [gmMessages EXCEPT ![x] = gmRecorded[x]]
  BY DEF GmBuild, GmDue
<1>2. /\ gmMessages \in [GmSituations -> 0..GmMaxRecorded \cup {GmNone}]
      /\ gmRecorded[x] # GmNone
  BY GmAssumption DEF GmAssumption, GmStateOK, GmTypeOK
<1>3. gmSub' = s
  BY DEF GmBuild
<1> QED
  BY <1>1, <1>2, <1>3 DEF GmBuilt

\* Every message that is due is told, after each step.
LEMMA GmToldStep ==
  ASSUME GmStateOK, GmNext, NEW s \in GmSubs, NEW x \in GmSituations,
         GmPairOK(s, x)
  PROVE  GmTold(s, x)'
<1> SUFFICES ASSUME GmDue(s, x)', ~GmAgain(s, x)',
                    ~(gmSub' = s /\ x \in gmTodo' \cup GmBuilt')
             PROVE  gmKnown'[s][x] = gmRecorded'[x] \/ x \in gmMissed'[s]
  BY DEF GmTold
<1>1. GmSameDue(s, x)
  BY GmAgainOrSame
<1>2. ~GmAgain(s, x)
  BY <1>1, GmAgainStays DEF GmSameDue
<1>3. \/ gmKnown[s][x] = gmRecorded[x] \/ x \in gmMissed[s]
      \/ gmSub = s /\ x \in gmTodo \cup GmBuilt
  BY <1>1, <1>2 DEF GmPairOK, GmTold, GmSameDue
<1>4. gmSub = s => x \notin gmTodo
  <2>1. SUFFICES ASSUME gmSub = s, x \in gmTodo PROVE FALSE
    OBVIOUS
  <2>2. gmBuilder = gmOptions[s]
    BY <1>1, <1>2, <2>1 DEF GmPairOK, GmFilterOf, GmSameDue
  <2>3. GmBuild(x)
    BY <2>1, GmTodoStays
  <2> QED
    BY <1>1, <2>1, <2>2, <2>3, GmBuildsDue DEF GmSameDue
<1>5. ASSUME gmSub = s, x \in GmBuilt, GmNotify(TRUE)
      PROVE  gmKnown'[s][x] = gmRecorded'[x]
  <2>1. gmMessages[x] = gmRecorded[x]
    BY <1>1, <1>2, <1>4, <1>5 DEF GmPairOK, GmMessageOf, GmSameDue
  <2>2. /\ gmKnown \in [GmSubs -> [GmSituations -> 0..GmMaxRecorded \cup {GmNone}]]
        /\ gmKnown' = [gmKnown EXCEPT ![gmSub] = [y \in GmSituations |->
             IF y \in GmBuilt THEN gmMessages[y] ELSE @[y]]]
    BY <1>5 DEF GmNotify, GmStateOK, GmTypeOK
  <2>3. gmKnown'[s][x] = gmMessages[x]
    BY ONLY <1>5, <2>2, s \in GmSubs, x \in GmSituations
  <2> QED
    BY <1>1, <2>1, <2>3 DEF GmSameDue
<1>6. CASE gmKnown[s][x] = gmRecorded[x] \/ x \in gmMissed[s]
  <2>1. CASE GmNotified(s, x)
    BY <1>5, <2>1 DEF GmNotified
  <2> QED
    BY <1>1, <1>6, <2>1, GmKnownStays DEF GmSameDue
<1>7. CASE gmSub = s /\ x \in GmBuilt
  BY <1>5, <1>7, GmBuiltStays
<1> QED
  BY <1>3, <1>4, <1>6, <1>7

\* A message is about the last save, or there will be another one.
LEMMA GmMessageStep ==
  ASSUME GmStateOK, GmNext, NEW s \in GmSubs, NEW x \in GmSituations,
         GmPairOK(s, x)
  PROVE  GmMessageOf(s, x)'
<1> SUFFICES ASSUME GmDue(s, x)', gmSub' = s, x \in GmBuilt',
                    ~GmAgain(s, x)', x \notin gmTodo'
             PROVE  gmMessages'[x] = gmRecorded'[x]
  BY DEF GmMessageOf
<1>1. GmSameDue(s, x)
  BY GmAgainOrSame
<1>2. ~GmAgain(s, x)
  BY <1>1, GmAgainStays DEF GmSameDue
<1>3. CASE gmSub = s /\ x \in GmBuilt /\ gmMessages'[x] = gmMessages[x]
  <2>1. CASE x \in gmTodo
    <3>1. GmBuild(x)
      BY <1>3, <2>1, GmTodoStays
    <3>2. gmBuilder = gmOptions[s]
      BY <1>1, <1>2, <1>3, <2>1 DEF GmPairOK, GmFilterOf, GmSameDue
    <3> QED
      BY <1>1, <1>3, <3>1, <3>2, GmBuildsDue DEF GmSameDue
  <2>2. CASE x \notin gmTodo
    BY <1>1, <1>2, <1>3, <2>2 DEF GmPairOK, GmMessageOf, GmSameDue
  <2> QED
    BY <2>1, <2>2
<1>4. CASE gmMessages'[x] = gmRecorded[x]
  BY <1>1, <1>4 DEF GmSameDue
<1> QED
  BY <1>3, <1>4, GmBuiltBefore

\* The broadcaster applies the filters of the last request.
LEMMA GmFilterStep ==
  ASSUME GmStateOK, GmNext, NEW s \in GmSubs, NEW x \in GmSituations,
         GmPairOK(s, x)
  PROVE  GmFilterOf(s, x)'
<1> SUFFICES ASSUME GmDue(s, x)', gmSub' = s, x \in gmTodo', ~GmAgain(s, x)'
             PROVE  gmBuilder' = gmOptions'[s]
  BY DEF GmFilterOf
<1>1. GmSameDue(s, x)
  BY GmAgainOrSame
<1>2. CASE gmSub = s /\ x \in gmTodo /\ gmBuilder' = gmBuilder
  <2>1. gmBuilder = gmOptions[s] \/ GmAgain(s, x)
    BY <1>1, <1>2 DEF GmPairOK, GmFilterOf, GmSameDue
  <2>2. GmAgain(s, x) => GmAgain(s, x)'
    BY <1>1, <1>2, GmAgainStays DEF GmSameDue
  <2> QED
    BY <1>1, <1>2, <2>1, <2>2 DEF GmSameDue
<1>3. CASE gmBuilder' = gmOptions[s]
  BY <1>1, <1>3 DEF GmSameDue
<1> QED
  BY <1>2, <1>3, GmTodoBefore

-----------------------------------------------------------------------------
(* GeneralMessage: the theorems.                                           *)

\* The inductive invariant holds initially: no subscription is live.
LEMMA GmInitInv == GmInit => GmInv
<1> SUFFICES ASSUME GmInit PROVE GmInv
  OBVIOUS
<1>1. \A s \in GmSubs, x \in GmSituations : ~GmDue(s, x)
  BY DEF GmInit, GmDue
<1> QED
  BY <1>1, GmInitOK DEF GmInv, GmTold, GmMessageOf, GmFilterOf

\* A step of any of the three keeps types, the loop and the manager right.
LEMMA GmStateStep == ASSUME GmStateOK, GmNext PROVE GmStateOK'
BY GmModelOK, GmSubscriptionOK, GmManagerStepOK, GmLoopStepOK DEF GmNext

\* The inductive invariant, and so types and what subscribers are told.
THEOREM GmInvariance == GmSpec => []GmInv
<1>1. GmInv /\ [GmNext]_gmVars => GmInv'
  <2> SUFFICES ASSUME GmInv, [GmNext]_gmVars PROVE GmInv'
    OBVIOUS
  <2>1. CASE GmNext
    <3>1. GmStateOK'
      BY <2>1, GmStateStep DEF GmInv
    <3>2. ASSUME NEW s \in GmSubs, NEW x \in GmSituations
          PROVE  GmTold(s, x)' /\ GmMessageOf(s, x)' /\ GmFilterOf(s, x)'
      <4>1. GmStateOK /\ GmPairOK(s, x)
        BY DEF GmInv, GmPairOK
      <4> QED
        BY ONLY <2>1, <3>2, <4>1, GmToldStep, GmMessageStep, GmFilterStep
    <3> QED
      BY <3>1, <3>2 DEF GmInv
  <2>2. CASE UNCHANGED gmVars
    <3> USE <2>2 DEF gmVars, gmModelVars, gmMgrVars, gmSubVars, gmLoopVars,
                     gmFeedVars
    <3>1. GmStateOK'
      BY DEF GmInv, GmStateOK, GmTypeOK, GmLoopOK, GmManagerOK, GmNotLater
    <3>2. ASSUME NEW s \in GmSubs, NEW x \in GmSituations
          PROVE  GmTold(s, x)' /\ GmMessageOf(s, x)' /\ GmFilterOf(s, x)'
      <4>1. /\ GmDue(s, x)' <=> GmDue(s, x)
            /\ GmAgain(s, x)' <=> GmAgain(s, x)
            /\ GmBuilt' = GmBuilt
        BY DEF GmDue, GmAgain, GmBuilt, GmExpired, BuildGeneralMessage,
               CheckInfoChannelRef, CheckFilter
      <4>2. GmTold(s, x) /\ GmMessageOf(s, x) /\ GmFilterOf(s, x)
        BY DEF GmInv
      <4> QED
        BY <4>1, <4>2 DEF GmTold, GmMessageOf, GmFilterOf
    <3> QED
      BY <3>1, <3>2 DEF GmInv
  <2> QED
    BY <2>1, <2>2
<1> QED
  BY <1>1, GmInitInv, PTL DEF GmSpec

\* Types, and an empty notification at the start of each subscription.
THEOREM GmTypeCorrect == GmSpec => []GmTypeOK
<1>1. GmInv => GmTypeOK
  BY DEF GmInv, GmStateOK
<1> QED
  BY <1>1, GmInvariance, PTL

\* Every situation that makes a message for a live subscription is told as it
\* was last saved, or is on its way, or its notification failed, although last
\* states are never updated and requests change the filters meanwhile.
THEOREM GmAllTold == GmSpec => []GmConverges
<1>1. GmInv => GmConverges
  <2> SUFFICES ASSUME GmInv, NEW s \in GmSubs, NEW x \in GmSituations,
                      GmDue(s, x)
               PROVE  \/ gmKnown[s][x] = gmRecorded[x]
                      \/ GmOnItsWay(s, x) \/ x \in gmMissed[s]
    BY DEF GmConverges, GmDue
  <2>1. GmAgain(s, x) => GmOnItsWay(s, x)
    BY DEF GmAgain, GmOnItsWay
  <2>2. gmSub = s /\ x \in gmTodo \cup GmBuilt => GmOnItsWay(s, x)
    BY DEF GmOnItsWay
  <2> QED
    BY <2>1, <2>2 DEF GmInv, GmTold
<1> QED
  BY <1>1, GmInvariance, PTL
=============================================================================
