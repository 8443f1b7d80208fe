---------------------------- MODULE SMBroadcast ----------------------------
(***************************************************************************)
(* The path a real-time update follows from Ara's model to one SIRI         *)
(* subscriber ("partner"):                                                 *)
(*                                                                         *)
(*   MemoryStopVisits.Save --event--> BroadcastManager.run                 *)
(*     --> SIRIStopMonitoringSubscriptionBroadcaster.checkEvent            *)
(*     --> toBroadcast --> StopMonitoringBroadcaster.run --> SOAP notify   *)
(*                                                                         *)
(* Four goroutines share the state, none holding a lock across two of the   *)
(* actions below: the savers (collectors, API), the one broadcast manager,  *)
(* the partner's broadcaster loop and the handler of the partner's         *)
(* subscription requests.  A subscription here monitors one stop area,     *)
(* whose stop visits are StopVisits.                                       *)
(***************************************************************************)
EXTENDS Integers, Sequences, FiniteSets

CONSTANTS
  Subs,         \* ids of subscriptions ("StopMonitoringBroadcast")
  StopVisits,   \* ids of the stop visits of the monitored stop area
  NoState,      \* no stop visit, no last state, nothing told
  ChanCap,      \* capacity of the event channel (2000 in the code)
  Threshold,    \* ChangeBeforeUpdates
  Times,        \* the schedule times of the saved stop visits, 0 is unset
  Statuses,     \* their statuses, of AllStatuses
  MaxVersion,   \* bound: saves of one stop visit
  MaxGen,       \* bound: subscription requests for one subscription
  Own,          \* stop visits this very partner provided (Origin = its slug)
  OffLine,      \* stop visits of another line than the LineRef filter's
  LineFilters,  \* whether a request may carry a LineRef, a subset of BOOLEAN
  MayNotBuild,  \* stop visits the XML builder may refuse (no line, no code)
  MayDelete     \* stop visits the API may delete

\* arrival and departure statuses: silent ones, one that is news, a final one
AllStatuses == {"onTime", "noreport", "departed"}
StopVisit == [ver : 1..MaxVersion, time : Times, status : Statuses]

ASSUME BoundsAssumption ==
  /\ ChanCap \in Nat \ {0} /\ Threshold \in Nat
  /\ MaxVersion \in Nat /\ MaxGen \in Nat
ASSUME ValuesAssumption == Times \subseteq Nat /\ Statuses \subseteq AllStatuses
ASSUME NoStateAssumption == NoState \notin StopVisit
ASSUME SetsAssumption ==
  /\ Own \subseteq StopVisits /\ OffLine \subseteq StopVisits
  /\ MayNotBuild \subseteq StopVisits /\ MayDelete \subseteq StopVisits
  /\ LineFilters \subseteq BOOLEAN

VARIABLES
  \* the model
  stopVisits,   \* [StopVisits -> StopVisit or NoState], byIdentifier
  version,      \* [StopVisits -> number of saves so far]
  smbEventChan, \* the buffered channel of broadcast events
  \* the partner's subscriptions
  subStatus,    \* [Subs -> SubStatus]
  gen,          \* [Subs -> number of resources created for it so far]
  lineRef,      \* [Subs -> BOOLEAN]: the LineRef option is set
  lastStates,   \* [Subs -> [StopVisits -> StopVisit or NoState]]
  toBroadcast,  \* [Subs -> SUBSET StopVisits]
  grdExpired,   \* the resources the guardian has read as expired
  \* the broadcast manager
  mgrPc, mgrEvent, mgrSeen, mgrTodo, mgrFound,
  \* the broadcaster loop
  bcPc, bcBatch, bcSub, bcSv, bcSeen, bcGen, bcTodo, bcDelivery,
  \* the handler of subscription requests
  rqPc, rqSub, rqLine, rqSnapshot, rqSv,
  \* the subscriber, and what happened to what it was not told
  known,        \* [Subs -> [StopVisits -> StopVisit or NoState]]
  missed,       \* [Subs -> SUBSET StopVisits]: a pending one not delivered
  dropped,      \* stop visits whose latest event found the channel full
  departure     \* [StopVisits -> {"none", "announced", "withdrawn"}]

modelVars == <<stopVisits, version, smbEventChan, dropped, departure>>
subVars == <<subStatus, gen, lineRef, grdExpired>>
mgrVars == <<mgrPc, mgrEvent, mgrSeen, mgrTodo, mgrFound>>
bcVars == <<bcPc, bcBatch, bcSub, bcSv, bcSeen, bcGen, bcTodo, bcDelivery>>
rqVars == <<rqPc, rqSub, rqLine, rqSnapshot, rqSv>>
feedVars == <<known, missed>>
vars == <<modelVars, subVars, lastStates, toBroadcast, mgrVars, bcVars,
          rqVars, feedVars>>

SubStatus == {"none", "live", "expired", "cancelled", "removed"}
StopVisitOrNone == StopVisit \cup {NoState}
Nothing == [sv \in StopVisits |-> NoState]

\* MemorySubscriptions.Find, and the partner's FindByResourceId
Registered(s) == subStatus[s] \in {"live", "expired"}
\* sub.Resource(objectid) # nil, on a *Subscription found earlier
HasResource(s) == subStatus[s] \in {"live", "expired", "cancelled"}

-----------------------------------------------------------------------------
(* The decision to notify.                                                 *)

IsFinal(status) == status = "departed"
Final(v) == IsFinal(v.status)

\* handleArrivalTime, handleDepartedTime: the zero time is 0
TimeChanged(t, last) ==
  /\ t # 0
  /\ \/ last = 0
     \/ ~(t < last + Threshold /\ t > last - Threshold)

StatusChangedButDeparted(st, last) == st # last /\ st = "noreport" \* mutant

\* handleArrivalStatus, handleDepartureStatus: only some statuses are news
StatusChanged(st, last) == st # last /\ st \in {"noreport", "departed"}

\* ChangeBeforeUpdates is set by fillOptions, after the resource is visible
OptionsMissing(s) == rqPc = "options" /\ rqSub = s /\ gen[s] = 1

HasChanged(s, v, last) ==
  /\ ~Final(last)
  /\ \/ StatusChanged(v.status, last.status)
     \/ OptionsMissing(s)
     \/ TimeChanged(v.time, last.time)

\* the LineRef option names another line (or an unknown one)
Filtered(s, sv) == lineRef[s] /\ sv \in OffLine

-----------------------------------------------------------------------------
Init ==
  /\ stopVisits = Nothing
  /\ version = [sv \in StopVisits |-> 0]
  /\ smbEventChan = <<>>
  /\ dropped = {}
  /\ departure = [sv \in StopVisits |-> "none"]
  /\ subStatus = [s \in Subs |-> "none"]
  /\ gen = [s \in Subs |-> 0]
  /\ lineRef = [s \in Subs |-> FALSE]
  /\ grdExpired = {}
  /\ lastStates = [s \in Subs |-> Nothing]
  /\ toBroadcast = [s \in Subs |-> {}]
  /\ mgrPc = "idle" /\ mgrEvent \in StopVisits /\ mgrSeen = NoState
  /\ mgrTodo = {} /\ mgrFound = {}
  /\ bcPc = "idle" /\ bcBatch = [s \in Subs |-> {}] /\ bcSub \in Subs
  /\ bcSv = mgrEvent /\ bcSeen = NoState /\ bcGen = 0 /\ bcTodo = {}
  /\ bcDelivery = Nothing
  /\ rqPc = "idle" /\ rqSub = bcSub /\ rqLine = FALSE
  /\ rqSnapshot = Nothing /\ rqSv = mgrEvent
  /\ known = [s \in Subs |-> Nothing]
  /\ missed = [s \in Subs |-> {}]

-----------------------------------------------------------------------------
(* The model.                                                              *)

HasRoomOffByOne == Len(smbEventChan) <= ChanCap \* mutant
HasRoom == Len(smbEventChan) < ChanCap

\* Save under the manager's mutex; the event is sent without blocking and
\* dropped when the channel is full.  An updater that found the stop visit
\* before a Delete saves it again under the same id.
SaveStopVisit(sv, time, status) ==
  /\ version[sv] < MaxVersion
  /\ version' = [version EXCEPT ![sv] = @ + 1]
  /\ stopVisits' = [stopVisits EXCEPT ![sv] =
       [ver |-> version[sv] + 1, time |-> time, status |-> status]]
  /\ IF HasRoom
     THEN smbEventChan' = Append(smbEventChan, sv) /\ dropped' = dropped \ {sv}
     ELSE dropped' = dropped \cup {sv} /\ UNCHANGED smbEventChan
  /\ departure' = [departure EXCEPT ![sv] =
       IF IsFinal(status) THEN IF @ = "none" THEN "announced" ELSE @
                          ELSE IF @ = "none" THEN @ ELSE "withdrawn"]
  /\ UNCHANGED <<subVars, lastStates, toBroadcast, mgrVars, bcVars, rqVars,
                 feedVars>>

DeleteStopVisit(sv) ==
  /\ sv \in MayDelete /\ stopVisits[sv] # NoState
  /\ stopVisits' = [stopVisits EXCEPT ![sv] = NoState]
  /\ UNCHANGED <<version, smbEventChan, dropped, departure, subVars, lastStates,
                 toBroadcast, mgrVars, bcVars, rqVars, feedVars>>

-----------------------------------------------------------------------------
(* The broadcast manager: one event at a time, no lock held in between.    *)

ManagerReceive ==
  /\ mgrPc = "idle" /\ smbEventChan # <<>>
  /\ mgrEvent' = Head(smbEventChan)
  /\ smbEventChan' = Tail(smbEventChan)
  /\ mgrPc' = "find"
  /\ UNCHANGED <<stopVisits, version, dropped, departure, subVars, lastStates,
                 toBroadcast, mgrSeen, mgrTodo, mgrFound, bcVars, rqVars,
                 feedVars>>

\* HandleStopMonitoringBroadcastEvent reads the stop visit, a deleted one ends
\* the event; checkEvent ignores what the partner itself provided
ManagerFind ==
  /\ mgrPc = "find"
  /\ IF stopVisits[mgrEvent] = NoState \/ mgrEvent \in Own
     THEN mgrPc' = "idle" /\ UNCHANGED mgrSeen
     ELSE mgrPc' = "list" /\ mgrSeen' = stopVisits[mgrEvent]
  /\ UNCHANGED <<modelVars, subVars, lastStates, toBroadcast, mgrEvent,
                 mgrTodo, mgrFound, bcVars, rqVars, feedVars>>

\* FindByResourceId: the subscriptions to check, snapshot under the mutex
ManagerList ==
  /\ mgrPc = "list"
  /\ mgrTodo' = {s \in Subs : Registered(s)}
  /\ mgrPc' = "check"
  /\ UNCHANGED <<modelVars, subVars, lastStates, toBroadcast, mgrEvent,
                 mgrSeen, mgrFound, bcVars, rqVars, feedVars>>

\* what checkEvent finds for one subscription
Skips(s) ==
  \/ ~HasResource(s) \/ subStatus[s] = "expired"
  \/ Filtered(s, mgrEvent)
  \/ /\ lastStates[s][mgrEvent] # NoState
     /\ ~HasChanged(s, mgrSeen, lastStates[s][mgrEvent])

\* one subscription of checkEvent: skipped, or its last state initialised when
\* there is none, and its id appended to subscriptionIds
ManagerCheck(s) ==
  /\ mgrPc = "check" /\ s \in mgrTodo
  /\ mgrTodo' = mgrTodo \ {s}
  /\ IF Skips(s)
     THEN UNCHANGED <<lastStates, mgrFound>>
     ELSE /\ mgrFound' = mgrFound \cup {s}
          /\ lastStates' = IF lastStates[s][mgrEvent] = NoState
                           THEN [lastStates EXCEPT ![s][mgrEvent] = mgrSeen]
                           ELSE lastStates
  /\ UNCHANGED <<modelVars, subVars, toBroadcast, mgrPc, mgrEvent, mgrSeen,
                 bcVars, rqVars, feedVars>>

\* addStopVisit, under the connector's mutex; a list in the code, a set here:
\* the broadcaster sends a stop visit once per batch (one it skips and finds
\* again in the list has the fate of one skipped, then saved and queued again)
ManagerAdd ==
  /\ mgrPc = "check" /\ mgrTodo = {}
  /\ toBroadcast' = [s \in Subs |-> IF s \in mgrFound
                                    THEN toBroadcast[s] \cup {mgrEvent}
                                    ELSE toBroadcast[s]]
  /\ mgrFound' = {} /\ mgrSeen' = NoState
  /\ mgrPc' = "idle"
  /\ UNCHANGED <<modelVars, subVars, lastStates, mgrEvent, mgrTodo, bcVars,
                 rqVars, feedVars>>

-----------------------------------------------------------------------------
(* The broadcaster loop: prepareSIRIStopMonitoringNotify.                  *)

\* the timer fires: toBroadcast is taken and replaced under the mutex
BroadcasterTick ==
  /\ bcPc = "idle" /\ \E s \in Subs : toBroadcast[s] # {}
  /\ bcBatch' = toBroadcast
  /\ toBroadcast' = [s \in Subs |-> {}]
  /\ bcPc' = "visit"
  /\ UNCHANGED <<modelVars, subVars, lastStates, mgrVars, bcSub, bcSv, bcSeen,
                 bcGen, bcTodo, bcDelivery, rqVars, feedVars>>

\* next key of the batch (a Go map: any order): skipped when it is not
\* registered any more
BroadcasterVisit(s) ==
  /\ bcPc = "visit" /\ bcBatch[s] # {}
  /\ bcBatch' = [bcBatch EXCEPT ![s] = {}]
  /\ IF Registered(s)
     THEN bcSub' = s /\ bcTodo' = bcBatch[s] /\ bcPc' = "read"
     ELSE UNCHANGED <<bcSub, bcTodo, bcPc>>
  /\ UNCHANGED <<modelVars, subVars, lastStates, toBroadcast, mgrVars, bcSv,
                 bcSeen, bcGen, bcDelivery, rqVars, feedVars>>

BroadcasterDone ==
  /\ bcPc = "visit" /\ \A s \in Subs : bcBatch[s] = {}
  /\ bcPc' = "idle"
  /\ UNCHANGED <<modelVars, subVars, lastStates, toBroadcast, mgrVars, bcBatch,
                 bcSub, bcSv, bcSeen, bcGen, bcTodo, bcDelivery, rqVars,
                 feedVars>>

FindRecorded(sv) == IF lastStates[bcSub][sv] = NoState THEN stopVisits[sv]
                    ELSE lastStates[bcSub][sv] \* mutant

\* tx.Model().StopVisits().Find: a transaction reads the live model
Find(sv) == stopVisits[sv]

\* the stop visit is read from the live model and the resource looked up, and
\* its current state is appended to the delivery
BroadcasterRead(sv) ==
  /\ bcPc = "read" /\ sv \in bcTodo
  /\ stopVisits[sv] # NoState /\ HasResource(bcSub)
  /\ bcTodo' = bcTodo \ {sv}
  /\ bcSv' = sv /\ bcSeen' = Find(sv) /\ bcGen' = gen[bcSub]
  /\ bcDelivery' = [bcDelivery EXCEPT ![sv] = Find(sv)]
  /\ bcPc' = "update"
  /\ UNCHANGED <<modelVars, subVars, lastStates, toBroadcast, mgrVars, bcBatch,
                 bcSub, rqVars, feedVars>>

\* BuildCancelledStopVisit, BuildMonitoredStopVisit return nothing
NotBuilt(sv) == sv \in MayNotBuild

\* the early "continue"s: stop visit deleted, resource gone, nothing built
BroadcasterSkip(sv) ==
  /\ bcPc = "read" /\ sv \in bcTodo
  /\ stopVisits[sv] = NoState \/ ~HasResource(bcSub) \/ NotBuilt(sv)
  /\ bcTodo' = bcTodo \ {sv}
  /\ missed' = [missed EXCEPT ![bcSub] = @ \cup {sv}]
  /\ UNCHANGED <<modelVars, subVars, lastStates, toBroadcast, mgrVars, bcPc,
                 bcBatch, bcSub, bcSv, bcSeen, bcGen, bcDelivery, rqVars,
                 known>>

ToldReadAgain == stopVisits[bcSv] \* mutant

\* what the last state is updated with: the copy that was put in the delivery
Told == bcSeen

\* lastState.UpdateState, on the resource found by the read: a renewal may
\* have replaced it in between, and it may hold no last state
BroadcasterUpdate ==
  /\ bcPc = "update"
  /\ lastStates' = IF bcGen = gen[bcSub] /\ lastStates[bcSub][bcSv] # NoState
                   THEN [lastStates EXCEPT ![bcSub][bcSv] = Told]
                   ELSE lastStates
  /\ bcSeen' = NoState /\ bcGen' = 0
  /\ bcPc' = "read"
  /\ UNCHANGED <<modelVars, subVars, toBroadcast, mgrVars, bcBatch, bcSub,
                 bcSv, bcTodo, bcDelivery, rqVars, feedVars>>

Delivered == {sv \in StopVisits : bcDelivery[sv] # NoState}

\* sendNotification: nothing to send, the subscriber gets the delivery, or the
\* request fails, which is logged and nothing else
BroadcasterSend(ok) ==
  /\ bcPc = "read" /\ bcTodo = {}
  /\ IF ok
     THEN /\ known' = [known EXCEPT ![bcSub] = [sv \in StopVisits |->
                        IF sv \in Delivered THEN bcDelivery[sv]
                                            ELSE known[bcSub][sv]]]
          /\ missed' = [missed EXCEPT ![bcSub] = @ \ Delivered]
     ELSE /\ missed' = [missed EXCEPT ![bcSub] = @ \cup Delivered]
          /\ UNCHANGED known
  /\ bcDelivery' = Nothing
  /\ bcPc' = "visit"
  /\ UNCHANGED <<modelVars, subVars, lastStates, toBroadcast, mgrVars, bcBatch,
                 bcSub, bcSv, bcSeen, bcGen, bcTodo, rqVars>>

-----------------------------------------------------------------------------
(* HandleSubscriptionRequest: one entry, for a new or a known subscription. *)

\* New or FindByExternalId, then CreateAddNewResource: the resource has no
\* last state, replaces the one of a renewed subscription, and is visible
RequestResource(s, line) ==
  /\ rqPc = "idle" /\ gen[s] < MaxGen
  /\ subStatus[s] \in {"none", "live", "expired"}
  /\ subStatus' = [subStatus EXCEPT ![s] = "live"]
  /\ gen' = [gen EXCEPT ![s] = @ + 1]
  /\ lastStates' = [lastStates EXCEPT ![s] = Nothing]
  /\ known' = [known EXCEPT ![s] = Nothing]
  /\ missed' = [missed EXCEPT ![s] = {}]
  /\ rqSub' = s /\ rqLine' = line /\ rqPc' = "options"
  /\ UNCHANGED <<modelVars, lineRef, grdExpired, toBroadcast, mgrVars, bcVars,
                 rqSnapshot, rqSv>>

\* fillOptions and the LineRef option, which a renewal without LineRef keeps
RequestOptions ==
  /\ rqPc = "options"
  /\ lineRef' = [lineRef EXCEPT ![rqSub] = @ \/ rqLine]
  /\ rqPc' = "list"
  /\ UNCHANGED <<modelVars, subStatus, gen, grdExpired, lastStates, toBroadcast,
                 mgrVars, bcVars, rqSub, rqLine, rqSnapshot, rqSv, feedVars>>

\* addStopAreaStopVisits: copies of the stop visits, taken under the mutex
RequestList ==
  /\ rqPc = "list"
  /\ rqSnapshot' = stopVisits
  /\ rqPc' = "check"
  /\ UNCHANGED <<modelVars, subVars, lastStates, toBroadcast, mgrVars, bcVars,
                 rqSub, rqLine, rqSv, feedVars>>

\* the next stop visit: skipped when filtered or when it has a last state
RequestCheck(sv) ==
  /\ rqPc = "check" /\ rqSnapshot[sv] # NoState
  /\ IF lastStates[rqSub][sv] # NoState \/ Filtered(rqSub, sv)
     THEN rqSnapshot' = [rqSnapshot EXCEPT ![sv] = NoState]
          /\ UNCHANGED <<rqPc, rqSv>>
     ELSE rqPc' = "set" /\ rqSv' = sv /\ UNCHANGED rqSnapshot
  /\ UNCHANGED <<modelVars, subVars, lastStates, toBroadcast, mgrVars, bcVars,
                 rqSub, rqLine, feedVars>>

\* InitState from the copy and SetLastState, whatever was set meanwhile
RequestSet ==
  /\ rqPc = "set"
  /\ lastStates' = [lastStates EXCEPT ![rqSub][rqSv] = rqSnapshot[rqSv]]
  /\ rqPc' = "add"
  /\ UNCHANGED <<modelVars, subVars, toBroadcast, mgrVars, bcVars, rqSub,
                 rqLine, rqSnapshot, rqSv, feedVars>>

RequestAdd ==
  /\ rqPc = "add"
  /\ toBroadcast' = [toBroadcast EXCEPT ![rqSub] = @ \cup {rqSv}]
  /\ rqSnapshot' = [rqSnapshot EXCEPT ![rqSv] = NoState]
  /\ rqPc' = "check"
  /\ UNCHANGED <<modelVars, subVars, lastStates, mgrVars, bcVars, rqSub,
                 rqLine, rqSv, feedVars>>

RequestDone ==
  /\ rqPc = "check" /\ rqSnapshot = Nothing
  /\ rqPc' = "idle"
  /\ UNCHANGED <<modelVars, subVars, lastStates, toBroadcast, mgrVars, bcVars,
                 rqSub, rqLine, rqSnapshot, rqSv, feedVars>>

-----------------------------------------------------------------------------
(* The end of a subscription.                                              *)

\* DeleteById or CancelBroadcastSubscriptions: a goroutine that holds the
\* *Subscription still finds its resource
Cancel(s) ==
  /\ Registered(s)
  /\ subStatus' = [subStatus EXCEPT ![s] = "cancelled"]
  /\ UNCHANGED <<modelVars, gen, lineRef, grdExpired, lastStates, toBroadcast,
                 mgrVars, bcVars, rqVars, feedVars>>

\* SubscribedUntil passes, which checkEvent sees before the guardian acts
Expire(s) ==
  /\ subStatus[s] = "live"
  /\ subStatus' = [subStatus EXCEPT ![s] = "expired"]
  /\ UNCHANGED <<modelVars, gen, lineRef, grdExpired, lastStates, toBroadcast,
                 mgrVars, bcVars, rqVars, feedVars>>

\* checkSubscriptionsTerminatedTime reads SubscribedUntil of the copied map ...
GuardianRead(s) ==
  /\ subStatus[s] = "expired" /\ s \notin grdExpired
  /\ grdExpired' = grdExpired \cup {s}
  /\ UNCHANGED <<modelVars, subStatus, gen, lineRef, lastStates, toBroadcast,
                 mgrVars, bcVars, rqVars, feedVars>>

\* ... and deletes by key, whatever resource has that key by now; the
\* subscription left empty is deleted too
GuardianDelete(s) ==
  /\ s \in grdExpired
  /\ grdExpired' = grdExpired \ {s}
  /\ subStatus' = [subStatus EXCEPT ![s] = "removed"]
  /\ UNCHANGED <<modelVars, gen, lineRef, lastStates, toBroadcast, mgrVars,
                 bcVars, rqVars, feedVars>>

-----------------------------------------------------------------------------
Environment ==
  \/ \E sv \in StopVisits, time \in Times, status \in Statuses :
       SaveStopVisit(sv, time, status)
  \/ \E sv \in StopVisits : DeleteStopVisit(sv)
  \/ \E s \in Subs, line \in LineFilters : RequestResource(s, line)
  \/ \E s \in Subs : Cancel(s) \/ Expire(s)
  \/ \E s \in Subs : GuardianRead(s) \/ GuardianDelete(s)

Manager ==
  \/ ManagerReceive \/ ManagerFind \/ ManagerList \/ ManagerAdd
  \/ \E s \in Subs : ManagerCheck(s)

Broadcaster ==
  \/ BroadcasterTick \/ BroadcasterDone \/ BroadcasterUpdate
  \/ \E s \in Subs : BroadcasterVisit(s)
  \/ \E sv \in StopVisits : BroadcasterRead(sv) \/ BroadcasterSkip(sv)
  \/ \E ok \in BOOLEAN : BroadcasterSend(ok)

Handler ==
  \/ RequestOptions \/ RequestList \/ RequestSet \/ RequestAdd \/ RequestDone
  \/ \E sv \in StopVisits : RequestCheck(sv)

Next == Environment \/ Manager \/ Broadcaster \/ Handler

\* the goroutines run: nothing forces an update, a request or an expiry
Fairness == WF_vars(Manager) /\ WF_vars(Broadcaster) /\ WF_vars(Handler)

Spec == Init /\ [][Next]_vars
FairSpec == Spec /\ Fairness

-----------------------------------------------------------------------------
TypeOK ==
  /\ stopVisits \in [StopVisits -> StopVisitOrNone]
  /\ version \in [StopVisits -> 0..MaxVersion]
  /\ smbEventChan \in Seq(StopVisits) /\ Len(smbEventChan) <= ChanCap
  /\ dropped \subseteq StopVisits
  /\ departure \in [StopVisits -> {"none", "announced", "withdrawn"}]
  /\ subStatus \in [Subs -> SubStatus]
  /\ gen \in [Subs -> 0..MaxGen]
  /\ lineRef \in [Subs -> BOOLEAN]
  /\ grdExpired \subseteq Subs
  /\ lastStates \in [Subs -> [StopVisits -> StopVisitOrNone]]
  /\ toBroadcast \in [Subs -> SUBSET StopVisits]
  /\ mgrPc \in {"idle", "find", "list", "check"}
  /\ mgrEvent \in StopVisits /\ mgrSeen \in StopVisitOrNone
  /\ mgrTodo \subseteq Subs /\ mgrFound \subseteq Subs
  /\ bcPc \in {"idle", "visit", "read", "update"}
  /\ bcBatch \in [Subs -> SUBSET StopVisits]
  /\ bcSub \in Subs /\ bcSv \in StopVisits /\ bcSeen \in StopVisitOrNone
  /\ bcGen \in 0..MaxGen /\ bcTodo \subseteq StopVisits
  /\ bcDelivery \in [StopVisits -> StopVisitOrNone]
  /\ rqPc \in {"idle", "options", "list", "check", "set", "add"}
  /\ rqSub \in Subs /\ rqLine \in BOOLEAN /\ rqSv \in StopVisits
  /\ rqSnapshot \in [StopVisits -> StopVisitOrNone]
  /\ known \in [Subs -> [StopVisits -> StopVisitOrNone]]
  /\ missed \in [Subs -> SUBSET StopVisits]

\* sv is queued for s, or about to be, behind the broadcaster's current batch
Queued(s, sv) ==
  \/ sv \in toBroadcast[s]
  \/ mgrPc = "check" /\ s \in mgrFound /\ sv = mgrEvent
  \/ rqPc = "add" /\ s = rqSub /\ sv = rqSv

\* sv is in the broadcaster's hands for s
InBatch(s, sv) ==
  \/ sv \in bcBatch[s]
  \/ bcPc \in {"read", "update"} /\ s = bcSub
     /\ (sv \in bcTodo \/ bcDelivery[sv] # NoState)

\* What Ara records as the last state a subscriber was told is what it was
\* told, unless an update is on its way or a delivery has been lost: the last
\* state, the pending lists and the subscriber's view are kept by three
\* goroutines (InitState and UpdateState before the notification is sent).
LastStateAccounted ==
  \A s \in Subs, sv \in StopVisits :
    Registered(s) /\ lastStates[s][sv] # NoState =>
      \/ Queued(s, sv) \/ InBatch(s, sv) \/ sv \in missed[s]
      \/ known[s][sv] = lastStates[s][sv]

\* The strengthening that makes LastStateAccounted inductive.  Between two
\* ticks the broadcaster holds nothing ...
BroadcasterEmpty ==
  /\ bcPc = "idle" => \A s \in Subs : bcBatch[s] = {}
  /\ bcPc \in {"idle", "visit"} => bcDelivery = Nothing
  /\ bcPc = "update" => bcSeen # NoState /\ bcDelivery[bcSv] = bcSeen

\* ... and what it is about to send is what the last state says, unless the
\* last state is about to be updated, or is newer and queued again
DeliveryAccounted ==
  bcPc \in {"read", "update"} =>
    \A sv \in StopVisits :
      Registered(bcSub) /\ bcDelivery[sv] # NoState
        /\ lastStates[bcSub][sv] # NoState =>
          \/ lastStates[bcSub][sv] = bcDelivery[sv] \/ Queued(bcSub, sv)
          \/ bcPc = "update" /\ sv = bcSv /\ bcGen = gen[bcSub]

\* no goroutine has anything left to do about sv for s
Settled(s, sv) ==
  /\ subStatus[s] = "live" /\ (rqSub = s => rqPc = "idle")
  /\ stopVisits[sv] # NoState
  /\ sv \notin Own /\ ~Filtered(s, sv)
  /\ sv \notin missed[s] /\ sv \notin dropped
  /\ \A i \in DOMAIN smbEventChan : smbEventChan[i] # sv
  /\ mgrEvent = sv => mgrPc = "idle"
  /\ ~Queued(s, sv) /\ ~InBatch(s, sv)

\* A departure is never lost: when a stop visit is departed, for good, and
\* everything has settled, the subscriber was told of the departure, whatever
\* was read, changed, deleted or renewed in between (checkEvent compares with
\* last states that the broadcaster and the handler write meanwhile).
DepartureNeverLost ==
  \A s \in Subs, sv \in StopVisits :
    Settled(s, sv) /\ Final(stopVisits[sv]) /\ departure[sv] = "announced" =>
      known[s][sv] # NoState /\ Final(known[s][sv])

\* The same for any change HasChanged calls one: settled means up to date.
Converged ==
  \A s \in Subs, sv \in StopVisits :
    Settled(s, sv) /\ lastStates[s][sv] # NoState =>
      ~HasChanged(s, stopVisits[sv], lastStates[s][sv])

\* A departure to tell is told, or its delivery is lost, or it is not to be
\* told any more: the goroutines do not leave it pending for ever.
DepartureTold ==
  \A s \in Subs, sv \in StopVisits :
    (/\ subStatus[s] = "live" /\ stopVisits[sv] # NoState
     /\ departure[sv] = "announced"
     /\ lastStates[s][sv] # NoState /\ sv \notin Own \cup OffLine)
    ~> \/ known[s][sv] # NoState /\ Final(known[s][sv])
       \/ sv \in missed[s] \cup dropped \/ subStatus[s] # "live"
       \/ stopVisits[sv] = NoState \/ departure[sv] # "announced"
       \/ lastStates[s][sv] = NoState
=============================================================================
