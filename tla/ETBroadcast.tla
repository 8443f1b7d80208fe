---------------------------- MODULE ETBroadcast ----------------------------
(***************************************************************************)
(* EstimatedTimetable subscriptions: what SMBroadcast is for stop areas,    *)
(* for lines, with the differences of this connector.  A request queues the *)
(* stop visits of a line before the subscription has the line among its     *)
(* resources; the last state of a stop visit is only recorded when it is    *)
(* sent, or when an event finds none; and a stop visit without vehicle      *)
(* journey ends the whole batch.                                            *)
(*                                                                         *)
(* The handler of a request, the broadcast manager and the broadcaster loop *)
(* run concurrently; each of the actions below is one step of one of them.  *)
(* Whether the event channel is full is SMBroadcast's subject: here it is   *)
(* the set of stop visits with an event in it (a handler reads the stop     *)
(* visit again, so that neither order nor multiplicity matters).            *)
(***************************************************************************)
EXTENDS Integers, FiniteSets

CONSTANTS
  EtSubs,        \* subscriptions ("EstimatedTimeTableBroadcast")
  EtLines,       \* the lines they subscribe to
  EtVisits,      \* stop visits
  EtLineOf(_),   \* the line of the vehicle journey of a stop visit
  EtNone,        \* no stop visit, no last state
  EtTimes,       \* times of a stop visit
  EtSaved,       \* the states stop visits are saved with
  EtThreshold,   \* ChangeBeforeUpdates
  EtMaxSaves,    \* bound: saves of one stop visit
  EtMaxRequests  \* bound: requests for one subscription and line

EtStatuses == {"onTime", "departed"}
EtVisit == [time : EtTimes, status : EtStatuses, atStop : BOOLEAN]

ASSUME EtAssumption ==
  /\ \A v \in EtVisits : EtLineOf(v) \in EtLines
  /\ EtNone \notin EtVisit \cup EtSubs \cup EtVisits
  /\ EtSaved \subseteq EtVisit
  /\ EtTimes \subseteq Nat /\ EtThreshold \in Nat
  /\ EtMaxSaves \in Nat /\ EtMaxRequests \in Nat

VARIABLES
  etVisits,     \* [EtVisits -> EtVisit or EtNone]
  etJourneys,   \* the stop visits whose vehicle journey is in the model
  etSaves,      \* [EtVisits -> number of saves]
  etTakenBack,  \* history: the stop visits that had departed and then had not
  etResources,  \* [EtSubs -> SUBSET EtLines], the registered subscriptions
  etRequests,   \* [EtSubs -> [EtLines -> number of requests]]
  etLast,       \* [EtSubs -> [EtVisits -> EtVisit or EtNone]], last states
  etPending,    \* [EtSubs -> SUBSET EtVisits], toBroadcast
  etAsked,      \* <<subscription, line>> whose handler has still to add it
  etEvents,     \* the events of the channel
  etEvent, etSeen, etFound, \* the one the broadcast manager handles
  etPc, etBatch, etSub, etTodo, etCalled, etDelivery, \* the broadcaster loop
  etKnown,      \* [EtSubs -> [EtVisits -> EtVisit or EtNone]], the subscriber
  etMissed      \* [EtSubs -> SUBSET EtVisits], taken from toBroadcast, not sent

etModelVars == <<etVisits, etJourneys, etSaves, etTakenBack>>
etSubVars == <<etResources, etRequests, etAsked>>
etMgrVars == <<etEvents, etEvent, etSeen, etFound>>
etLoopVars == <<etPc, etBatch, etSub, etTodo, etCalled, etDelivery>>
etFeedVars == <<etKnown, etMissed>>
etVars == <<etModelVars, etMgrVars, etSubVars, etLast, etPending, etLoopVars,
            etFeedVars>>

EtNothing == [v \in EtVisits |-> EtNone]
EtLoopIdle == [s \in EtSubs |-> {}]

-----------------------------------------------------------------------------
(* estimatedTimeTableLastChange.                                           *)

EtTimeChanged(t, last) ==
  /\ t # 0
  /\ last = 0 \/ ~(t < last + EtThreshold /\ t > last - EtThreshold)

EtHasChangedFinal(v, last) == \* mutant
  /\ v.status # "departed"
  /\ (v.atStop /\ ~last.atStop) \/ EtTimeChanged(v.time, last.time)

\* Haschanged: nothing more on a stop visit told departed; a departure, a
\* vehicle that arrives at the stop and a time that moved enough are news
EtHasChanged(v, last) ==
  /\ last.status # "departed"
  /\ \/ v.status # last.status /\ v.status = "departed"
     \/ v.atStop /\ ~last.atStop
     \/ EtTimeChanged(v.time, last.time)

-----------------------------------------------------------------------------
EtInit ==
  /\ etVisits = EtNothing /\ etJourneys = {} /\ etTakenBack = {}
  /\ etEvents = {} /\ etEvent = EtNone /\ etSeen = EtNone /\ etFound = {}
  /\ etSaves = [v \in EtVisits |-> 0]
  /\ etResources = [s \in EtSubs |-> {}]
  /\ etRequests = [s \in EtSubs |-> [l \in EtLines |-> 0]]
  /\ etLast = [s \in EtSubs |-> EtNothing]
  /\ etPending = EtLoopIdle /\ etAsked = {}
  /\ etPc = "idle" /\ etBatch = EtLoopIdle /\ etSub = EtNone
  /\ etTodo = {} /\ etCalled = EtNone /\ etDelivery = EtNothing
  /\ etKnown = [s \in EtSubs |-> EtNothing]
  /\ etMissed = EtLoopIdle

\* a stop visit is saved, with its vehicle journey, and its event sent
EtSave(v, state) ==
  /\ etSaves[v] < EtMaxSaves
  /\ etSaves' = [etSaves EXCEPT ![v] = @ + 1]
  /\ etVisits' = [etVisits EXCEPT ![v] = state]
  /\ etJourneys' = etJourneys \cup {v}
  /\ etEvents' = etEvents \cup {v}
  /\ etTakenBack' = etTakenBack \cup
       IF etVisits[v] # EtNone /\ etVisits[v].status = "departed"
            /\ state.status # "departed"
       THEN {v} ELSE {}
  /\ UNCHANGED <<etEvent, etSeen, etFound, etSubVars, etLast, etPending, etLoopVars, etFeedVars>>

\* the API deletes the vehicle journey of a stop visit
EtDeleteJourney(v) ==
  /\ v \in etJourneys
  /\ etJourneys' = etJourneys \ {v}
  /\ UNCHANGED <<etVisits, etSaves, etTakenBack, etMgrVars, etSubVars, etLast,
                 etPending, etLoopVars, etFeedVars>>

-----------------------------------------------------------------------------
(* HandleSubscriptionRequest and the end of a subscription.                *)

\* addLineStopVisits queues the following stop visits of the stop areas of the
\* line, which may be of other lines too
EtAddLineStopVisits(s, l) ==
  /\ etRequests[s][l] < EtMaxRequests /\ <<s, l>> \notin etAsked
  /\ etRequests' = [etRequests EXCEPT ![s][l] = @ + 1]
  /\ etPending' = [etPending EXCEPT ![s] =
       @ \cup {v \in EtVisits : etVisits[v] # EtNone}]
  /\ etAsked' = etAsked \cup {<<s, l>>}
  /\ UNCHANGED <<etModelVars, etMgrVars, etResources, etLast, etLoopVars,
                 etFeedVars>>

EtLastOfLine(s, l) == [v \in EtVisits |-> IF EtLineOf(v) = l THEN EtNone
                                          ELSE etLast[s][v]]

\* a last state that the broadcaster is about to set on a resource that goes
EtOrphaned(s, l) ==
  etCalled' = IF etSub = s /\ etCalled # EtNone /\ EtLineOf(etCalled) = l
              THEN EtNone ELSE etCalled

\* sub.AddNewResource: a new resource, without last states
EtAddNewResource(s, l) ==
  /\ <<s, l>> \in etAsked
  /\ etAsked' = etAsked \ {<<s, l>>}
  /\ etResources' = [etResources EXCEPT ![s] = @ \cup {l}]
  /\ etLast' = [etLast EXCEPT ![s] = EtLastOfLine(s, l)]
  /\ EtOrphaned(s, l)
  /\ UNCHANGED <<etModelVars, etMgrVars, etRequests, etPending, etPc,
                 etBatch, etSub, etTodo, etDelivery, etFeedVars>>

\* the partners guardian deletes an expired resource
EtDeleteResource(s, l) ==
  /\ l \in etResources[s]
  /\ etResources' = [etResources EXCEPT ![s] = @ \ {l}]
  /\ etLast' = [etLast EXCEPT ![s] = EtLastOfLine(s, l)]
  /\ EtOrphaned(s, l)
  /\ UNCHANGED <<etModelVars, etMgrVars, etRequests, etAsked, etPending, etPc,
                 etBatch, etSub, etTodo, etDelivery, etFeedVars>>

-----------------------------------------------------------------------------
(* HandleBroadcastEvent, by the broadcast manager.                         *)

\* the subscriptions to the line whose last state differs, or is missing
EtQueues(s, v) ==
  etLast[s][v] = EtNone \/ EtHasChanged(etSeen, etLast[s][v])

\* checkEvent reads the stop visit, ignored without its vehicle journey, and
\* the subscriptions to its line (FindByResourceId)
EtFind(v) ==
  /\ etFound = {} /\ v \in etEvents
  /\ etEvents' = etEvents \ {v}
  /\ etEvent' = v /\ etSeen' = etVisits[v]
  /\ etFound' = {s \in EtSubs : v \in etJourneys
                               /\ EtLineOf(v) \in etResources[s]}
  /\ UNCHANGED <<etModelVars, etSubVars, etLast, etPending, etLoopVars,
                 etFeedVars>>

\* one of them: a missing last state is initialised, and the stop visit added
\* to toBroadcast (a tick between the two would only send it one turn later)
EtCheckEvent(s) ==
  /\ s \in etFound
  /\ etFound' = etFound \ {s}
  /\ IF EtLineOf(etEvent) \in etResources[s] /\ EtQueues(s, etEvent)
     THEN /\ etPending' = [etPending EXCEPT ![s] = @ \cup {etEvent}]
          /\ etLast' = [etLast EXCEPT ![s][etEvent] =
                          IF @ = EtNone THEN etSeen ELSE @]
     ELSE UNCHANGED <<etPending, etLast>>
  /\ UNCHANGED <<etModelVars, etEvents, etEvent, etSeen, etSubVars, etLoopVars,
                 etFeedVars>>

-----------------------------------------------------------------------------
(* prepareSIRIEstimatedTimeTable, by the broadcaster loop.                 *)

EtTick ==
  /\ etPc = "idle" /\ \E s \in EtSubs : etPending[s] # {}
  /\ etBatch' = etPending /\ etPending' = EtLoopIdle
  /\ etPc' = "batch"
  /\ UNCHANGED <<etModelVars, etMgrVars, etSubVars, etLast, etSub, etTodo,
                 etCalled, etDelivery, etFeedVars>>

\* the next subscription of the batch, a Go map: any order
EtVisitSub(s) ==
  /\ etPc = "batch" /\ etBatch[s] # {}
  /\ etSub' = s /\ etTodo' = etBatch[s]
  /\ etBatch' = [etBatch EXCEPT ![s] = {}]
  /\ etPc' = "visits"
  /\ UNCHANGED <<etModelVars, etMgrVars, etSubVars, etLast, etPending,
                 etCalled, etDelivery, etFeedVars>>

EtBatchDone ==
  /\ etPc = "batch" /\ \A s \in EtSubs : etBatch[s] = {}
  /\ etPc' = "idle" /\ etSub' = EtNone
  /\ UNCHANGED <<etModelVars, etMgrVars, etSubVars, etLast, etPending, etBatch,
                 etTodo, etCalled, etDelivery, etFeedVars>>

\* the stop visit is read from the live model and put in the delivery
EtCall(v) ==
  /\ etPc = "visits" /\ v \in etTodo /\ v \in etJourneys
  /\ EtLineOf(v) \in etResources[etSub]
  /\ etTodo' = etTodo \ {v}
  /\ etDelivery' = [etDelivery EXCEPT ![v] = etVisits[v]]
  /\ etPc' = "record" /\ etCalled' = v
  /\ UNCHANGED <<etModelVars, etMgrVars, etSubVars, etLast, etPending, etBatch,
                 etSub, etFeedVars>>

EtRecordNew(v) == IF etLast[etSub][v] = EtNone THEN etDelivery[v]
                  ELSE etLast[etSub][v] \* mutant

\* InitState, or UpdateState: what was put in the delivery
EtRecord(v) == etDelivery[v]

\* the last state is set on the resource found before: one deleted or replaced
\* in between has it no more
EtSetLastState ==
  /\ etPc = "record"
  /\ etLast' = IF etCalled = EtNone THEN etLast
               ELSE [etLast EXCEPT ![etSub][etCalled] = EtRecord(etCalled)]
  /\ etPc' = "visits" /\ etCalled' = EtNone
  /\ UNCHANGED <<etModelVars, etMgrVars, etSubVars, etPending, etBatch, etSub,
                 etTodo, etDelivery, etFeedVars>>

\* sub.Resource(lineObjectId) = nil: continue
EtSkip(v) ==
  /\ etPc = "visits" /\ v \in etTodo /\ v \in etJourneys
  /\ EtLineOf(v) \notin etResources[etSub]
  /\ etTodo' = etTodo \ {v}
  /\ etMissed' = [etMissed EXCEPT ![etSub] = @ \cup {v}]
  /\ UNCHANGED <<etModelVars, etMgrVars, etSubVars, etLast, etPending, etPc,
                 etBatch, etSub, etCalled, etDelivery, etKnown>>

InDelivery == {v \in EtVisits : etDelivery[v] # EtNone}

\* no vehicle journey: return.  Nothing more is sent to this subscription nor
\* to the ones that follow in the batch
EtReturn(v) ==
  /\ etPc = "visits" /\ v \in etTodo /\ v \notin etJourneys
  /\ etMissed' = [s \in EtSubs |-> etMissed[s] \cup etBatch[s] \cup
                    IF s = etSub THEN etTodo \cup InDelivery ELSE {}]
  /\ etPc' = "idle" /\ etSub' = EtNone
  /\ etBatch' = EtLoopIdle /\ etTodo' = {} /\ etDelivery' = EtNothing
  /\ UNCHANGED <<etModelVars, etMgrVars, etSubVars, etLast, etPending, etCalled,
                 etKnown>>

EtSendDeliveryKept(ok) == \* mutant
  /\ etPc = "visits" /\ etTodo = {} /\ etPc' = "batch"
  /\ etKnown' = [etKnown EXCEPT ![etSub] = [v \in EtVisits |->
       IF ok /\ v \in InDelivery THEN etDelivery[v] ELSE @[v]]]
  /\ UNCHANGED <<etModelVars, etMgrVars, etSubVars, etLast, etPending, etBatch,
                 etSub, etTodo, etCalled, etDelivery, etMissed>>

\* sendDelivery, even of nothing; a failed request is only logged
EtSendDelivery(ok) ==
  /\ etPc = "visits" /\ etTodo = {}
  /\ IF ok
     THEN /\ etKnown' = [etKnown EXCEPT ![etSub] = [v \in EtVisits |->
               IF v \in InDelivery THEN etDelivery[v] ELSE @[v]]]
          /\ etMissed' = [etMissed EXCEPT ![etSub] = @ \ InDelivery]
     ELSE /\ etMissed' = [etMissed EXCEPT ![etSub] = @ \cup InDelivery]
          /\ UNCHANGED etKnown
  /\ etDelivery' = EtNothing /\ etPc' = "batch"
  /\ UNCHANGED <<etModelVars, etMgrVars, etSubVars, etLast, etPending, etBatch,
                 etSub, etTodo, etCalled>>

-----------------------------------------------------------------------------
EtNext ==
  \/ \E v \in EtVisits :
       \/ \E state \in EtSaved : EtSave(v, state)
       \/ EtDeleteJourney(v) \/ EtFind(v)
       \/ EtCall(v) \/ EtSkip(v) \/ EtReturn(v)
  \/ \E s \in EtSubs : EtVisitSub(s) \/ EtCheckEvent(s) \/ \E l \in EtLines :
       EtAddLineStopVisits(s, l) \/ EtAddNewResource(s, l)
         \/ EtDeleteResource(s, l)
  \/ EtTick \/ EtBatchDone \/ EtSetLastState
  \/ \E ok \in BOOLEAN : EtSendDelivery(ok)

EtSpec == EtInit /\ [][EtNext]_etVars

-----------------------------------------------------------------------------
\* Types; the broadcaster loop starts every subscription, and every batch, with
\* an empty delivery (delivery is made anew for each subscription).
EtTypeOK ==
  /\ etVisits \in [EtVisits -> EtVisit \cup {EtNone}]
  /\ etJourneys \subseteq EtVisits /\ etEvents \subseteq EtVisits
  /\ etTakenBack \subseteq EtVisits
  /\ etSaves \in [EtVisits -> 0..EtMaxSaves]
  /\ etResources \in [EtSubs -> SUBSET EtLines]
  /\ etRequests \in [EtSubs -> [EtLines -> 0..EtMaxRequests]]
  /\ etLast \in [EtSubs -> [EtVisits -> EtVisit \cup {EtNone}]]
  /\ etPending \in [EtSubs -> SUBSET EtVisits]
  /\ etAsked \subseteq EtSubs \X EtLines
  /\ etPc \in {"idle", "batch", "visits", "record"}
  /\ etBatch \in [EtSubs -> SUBSET EtVisits]
  /\ etEvent \in EtVisits \cup {EtNone} /\ etSeen \in EtVisit \cup {EtNone}
  /\ etFound \subseteq EtSubs
  /\ etSub \in EtSubs \cup {EtNone} /\ etTodo \subseteq EtVisits
  /\ etCalled \in EtVisits \cup {EtNone}
  /\ etDelivery \in [EtVisits -> EtVisit \cup {EtNone}]
  /\ etKnown \in [EtSubs -> [EtVisits -> EtVisit \cup {EtNone}]]
  /\ etMissed \in [EtSubs -> SUBSET EtVisits]
  /\ etPc \in {"idle", "batch"} =>
       etTodo = {} /\ etCalled = EtNone /\ etDelivery = EtNothing

\* on its way to the subscriber
EtQueued(s, v) ==
  \/ v \in etPending[s] \cup etBatch[s]
  \/ etSub = s /\ v \in etTodo \cup InDelivery

\* A last state is what the subscriber was told, unless the stop visit is on
\* its way or a batch with it was lost (a failed request, the early return of
\* prepareSIRIEstimatedTimeTable): checkEvent compares with the right state.
EtLastStateTold ==
  \A s \in EtSubs, v \in EtVisits :
    etLast[s][v] # EtNone =>
      etLast[s][v] = etKnown[s][v] \/ EtQueued(s, v) \/ v \in etMissed[s]

\* A departure is told: the subscriber knows it or it is on its way, unless it
\* does not have the stop visit at all, a batch was lost, or an earlier departure
\* of the stop visit was taken back (between the call and its last state, the
\* event of the new departure is compared with the old one).
EtDepartureTold ==
  \A s \in EtSubs, v \in etJourneys \ (etEvents \cup etTakenBack) :
    (EtLineOf(v) \in etResources[s] /\ etLast[s][v] # EtNone
       /\ etVisits[v].status = "departed")
    => \/ etKnown[s][v] # EtNone /\ etKnown[s][v].status = "departed"
       \/ EtQueued(s, v) \/ v \in etMissed[s]
       \/ etEvent = v /\ s \in etFound
=============================================================================
