------------------------ MODULE CollectSubscriptions ------------------------
(***************************************************************************)
(* How Ara subscribes to the stop areas of one remote SIRI server, the      *)
(* partner, and keeps or gives up these subscriptions:                     *)
(*                                                                         *)
(*   ModelGuardian --RequestStopAreaUpdate--> Subscription, a resource     *)
(*     per stop area <-- SMSubscriber (every 5 s): SubscriptionRequest      *)
(*   PartnersGuardian (every 30 s): CheckStatus, cancels and expires       *)
(*   the partner: notifies, ends its subscriptions, restarts               *)
(*                                                                         *)
(* Each is a goroutine; the mutexes of MemorySubscriptions and of each      *)
(* Subscription are released between the actions below.                    *)
(***************************************************************************)
EXTENDS Integers, FiniteSets

CONSTANTS
  StopAreas,
  Ids,              \* ids of subscriptions, generated once each (UUIDs)
  None,             \* no stop area, no resource, no subscription
  MaxResources,     \* subscriptions.maximum_resources, 0 when not set
  MaxRetry,         \* a resource is requested while RetryCount <= MaxRetry
  Persistent,       \* collect.subscriptions.persistent
  BroadcastPersistent, \* broadcast.subscriptions.persistent
  CollectChildren,  \* the stop areas whose CollectChildren is true
  MaxTroubles       \* bound: restarts and outages of the partner's server,
                    \* and subscriptions it ends

Resource == [subscribed : BOOLEAN, lapsed : BOOLEAN, retry : 0..MaxRetry + 1]
Entry == Ids \X StopAreas

ASSUME BoundsAssumption ==
  MaxResources \in Nat /\ MaxRetry \in Nat /\ MaxTroubles \in Nat
ASSUME SettingsAssumption ==
  Persistent \in BOOLEAN /\ BroadcastPersistent \in BOOLEAN
    /\ CollectChildren \subseteq StopAreas
ASSUME NoneAssumption == None \notin StopAreas \cup Ids \cup Resource

VARIABLES
  \* the partner's MemorySubscriptions, of kind StopMonitoringCollect
  registered,   \* ids in byIdentifier
  created,      \* ids ever created
  resources,    \* [Ids -> [StopAreas -> Resource or None]]
  \* partner.PartnerStatus
  statusUp,     \* OperationnalStatus is UP
  startedAt,    \* ServiceStartedAt, 0 is the zero time
  parent,       \* [StopAreas -> ParentId]
  \* the remote server
  rmUp, rmStartedAt, rmSubs, rmTroubles, terminated, silentlyEnded, toCancel,
  \* RequestStopAreaUpdate
  coPc, coStopArea, coTodo,
  \* SMSubscriber
  sbPc, sbEntries, sbAccepted, sbRefused,
  \* PartnersGuardian
  gdPc, gdStartedAt, gdTodo, gdSub, gdKeys, gdKey

subVars == <<registered, created, resources>>
statusVars == <<statusUp, startedAt>>
rmVars == <<rmUp, rmStartedAt, rmSubs, rmTroubles, terminated, silentlyEnded,
            toCancel>>
coVars == <<coPc, coStopArea, coTodo>>
sbVars == <<sbPc, sbEntries, sbAccepted, sbRefused>>
gdVars == <<gdPc, gdStartedAt, gdTodo, gdSub, gdKeys, gdKey>>
vars == <<subVars, statusVars, parent, rmVars, coVars, sbVars, gdVars>>

NoResources == [sa \in StopAreas |-> None]
NewResource == [subscribed |-> FALSE, lapsed |-> FALSE, retry |-> 0]

\* subscription.resourcesByObjectID: its keys, its length
Keys(sub) == {sa \in StopAreas : resources[sub][sa] # None}
ResourcesLen(sub) == Cardinality(Keys(sub))

FindByResourceIdSubscribed(sa) ==
  {sub \in registered : \* mutant
     sa \in Keys(sub) /\ resources[sub][sa].subscribed}

\* MemorySubscriptions.FindByResourceId
FindByResourceId(sa) == {sub \in registered : sa \in Keys(sub)}

WithRoomOffByOne ==
  {sub \in registered : \* mutant
     MaxResources < 1 \/ ResourcesLen(sub) <= MaxResources}

\* what FindOrCreateByKind may return: one with room (a Go map: any of them),
\* a new one when there is none or when each stop area has its own
WithRoom ==
  IF MaxResources = 1 THEN {}
  ELSE {sub \in registered :
          MaxResources < 1 \/ ResourcesLen(sub) < MaxResources}

\* a subscription's UniqueResource, or the stop area the delivery names
Origin(sub, sa) == IF ResourcesLen(sub) = 1 THEN CHOOSE k \in Keys(sub) : TRUE
                   ELSE sa

Init ==
  /\ registered = {} /\ created = {}
  /\ resources = [sub \in Ids |-> NoResources]
  /\ statusUp = FALSE /\ startedAt = 0
  /\ parent = [sa \in StopAreas |-> None]
  /\ rmUp = TRUE /\ rmStartedAt = 1 /\ rmSubs = {} /\ rmTroubles = 0
  /\ terminated = {} /\ silentlyEnded = {} /\ toCancel = {}
  /\ coPc = "idle" /\ coStopArea = None /\ coTodo = {}
  /\ sbPc = "idle" /\ sbEntries = {} /\ sbAccepted = {} /\ sbRefused = {}
  /\ gdPc = "idle" /\ gdStartedAt = 0 /\ gdTodo = {}
  /\ gdSub = None /\ gdKeys = {} /\ gdKey = None

-----------------------------------------------------------------------------
(* The collect: ModelGuardian.refreshStopAreas, CollectManager and          *)
(* RequestStopAreaUpdate, one stop area at a time.                         *)

\* a child is left to its parent's collect, an unavailable partner is skipped
CollectStart(sa) ==
  /\ coPc = "idle"
  /\ parent[sa] \in CollectChildren \cup {None}
  /\ statusUp \/ Persistent
  /\ coStopArea' = sa /\ coPc' = "find"
  /\ UNCHANGED <<subVars, statusVars, parent, rmVars, coTodo, sbVars,
                 gdVars>>

CollectFind ==
  /\ coPc = "find"
  /\ coTodo' = FindByResourceId(coStopArea)
  /\ coPc' = IF coTodo' = {} THEN "create" ELSE "renew"
  /\ UNCHANGED <<subVars, statusVars, parent, rmVars, coStopArea, sbVars,
                 gdVars>>

CollectEnd == coTodo' = {} /\ coStopArea' = None /\ coPc' = "idle"

\* SubscribedUntil of a subscribed resource is put off; a resource deleted
\* since FindByResourceId ends the request ("Should never happen")
CollectRenew(sub) ==
  /\ coPc = "renew" /\ sub \in coTodo
  /\ resources[sub][coStopArea] # None
  /\ coTodo' = coTodo \ {sub}
  /\ resources' = [resources EXCEPT ![sub][coStopArea].lapsed =
                     @ /\ ~resources[sub][coStopArea].subscribed]
  /\ UNCHANGED <<registered, created, statusVars, parent, rmVars, coPc,
                 coStopArea, sbVars, gdVars>>

CollectRenewed ==
  /\ coPc = "renew"
  /\ coTodo = {} \/ \E sub \in coTodo : resources[sub][coStopArea] = None
  /\ CollectEnd
  /\ UNCHANGED <<subVars, statusVars, parent, rmVars, sbVars, gdVars>>

\* FindOrCreateByKind
CollectCreate(sub) ==
  /\ coPc = "create"
  /\ \/ sub \in WithRoom /\ UNCHANGED <<registered, created>>
     \/ /\ WithRoom = {} /\ sub \notin created
        /\ registered' = registered \cup {sub}
        /\ created' = created \cup {sub}
  /\ coTodo' = {sub} /\ coPc' = "add"
  /\ UNCHANGED <<resources, statusVars, parent, rmVars, coStopArea, sbVars,
                 gdVars>>

\* CreateAddNewResource, on a subscription that may be gone by now
CollectAdd(sub) ==
  /\ coPc = "add" /\ sub \in coTodo
  /\ resources' = [resources EXCEPT ![sub][coStopArea] = NewResource]
  /\ CollectEnd
  /\ UNCHANGED <<registered, created, statusVars, parent, rmVars, sbVars,
                 gdVars>>

-----------------------------------------------------------------------------
(* The subscriber loop: prepareSIRIStopMonitoringSubscriptionRequest.      *)

ToRequestForEver ==
  {e \in Entry : /\ e[1] \in registered /\ e[2] \in Keys(e[1])
                 /\ ~resources[e[1]][e[2]].subscribed} \* mutant

\* the resources without SubscribedAt of every subscription
ToRequest ==
  {e \in Entry : /\ e[1] \in registered /\ e[2] \in Keys(e[1])
                 /\ ~resources[e[1]][e[2]].subscribed
                 /\ resources[e[1]][e[2]].retry <= MaxRetry}

SubscriberTick ==
  /\ sbPc = "idle" /\ ToRequest # {}
  /\ sbEntries' = ToRequest /\ sbPc' = "request"
  /\ UNCHANGED <<subVars, statusVars, parent, rmVars, coVars, sbAccepted,
                 sbRefused, gdVars>>

\* the server accepts some entries, refuses some and may leave some without a
\* status
SubscriberRequest(accepted, refused) ==
  /\ sbPc = "request" /\ rmUp
  /\ accepted \cap refused = {}
  /\ rmSubs' = rmSubs \cup accepted
  /\ sbAccepted' = accepted /\ sbRefused' = refused
  /\ sbPc' = "answer"
  /\ UNCHANGED <<subVars, statusVars, parent, rmUp, rmStartedAt,
                 rmTroubles, terminated, silentlyEnded, toCancel, coVars,
                 sbEntries, gdVars>>

\* no answer: the request was lost, or its response after the server took it
SubscriberError(accepted) ==
  /\ sbPc = "request"
  /\ accepted # {} => rmUp
  /\ rmSubs' = rmSubs \cup accepted
  /\ sbPc' = "answer"
  /\ UNCHANGED <<subVars, statusVars, parent, rmUp, rmStartedAt,
                 rmTroubles, terminated, silentlyEnded, toCancel, coVars,
                 sbEntries, sbAccepted, sbRefused, gdVars>>

\* the subscription and the resource are looked up again for each entry
Found(e) == e[1] \in registered /\ e[2] \in Keys(e[1])
SetResource(e, r) == resources' = [resources EXCEPT ![e[1]][e[2]] = r]

RetriedForEver(r) == r \* mutant

\* RetryCount++
Retried(r) == [r EXCEPT !.retry = @ + 1]

\* SubscribedAt is set, RetryCount reset, SubscribedUntil left as it is
Accepted(r) == [subscribed |-> TRUE, lapsed |-> r.lapsed, retry |-> 0]

GrantedAlways(e) == TRUE \* mutant

\* responseStatus.Status()
Granted(e) == e \in sbAccepted

SubscriberAnswer(e) ==
  /\ sbPc = "answer" /\ e \in sbAccepted \cup sbRefused
  /\ sbEntries' = sbEntries \ {e}
  /\ sbAccepted' = sbAccepted \ {e} /\ sbRefused' = sbRefused \ {e}
  /\ LET r == resources[e[1]][e[2]] IN
     IF ~Found(e) THEN UNCHANGED resources
     ELSE IF Granted(e)
     THEN SetResource(e, Accepted(r))
     ELSE SetResource(e, Retried(r))
  /\ UNCHANGED <<registered, created, statusVars, parent, rmVars, coVars, sbPc,
                 gdVars>>

\* incrementRetryCountFromMap: the entries left without a status
SubscriberRetry(e) ==
  /\ sbPc = "answer" /\ sbAccepted = {} /\ sbRefused = {} /\ e \in sbEntries
  /\ sbEntries' = sbEntries \ {e}
  /\ IF Found(e) THEN SetResource(e, Retried(resources[e[1]][e[2]]))
                 ELSE UNCHANGED resources
  /\ UNCHANGED <<registered, created, statusVars, parent, rmVars, coVars, sbPc,
                 sbAccepted, sbRefused, gdVars>>

SubscriberDone ==
  /\ sbPc = "answer" /\ sbEntries = {}
  /\ sbPc' = "idle"
  /\ UNCHANGED <<subVars, statusVars, parent, rmVars, coVars, sbEntries,
                 sbAccepted, sbRefused, gdVars>>

-----------------------------------------------------------------------------
(* The guardian: checkPartnerStatus and checkSubscriptionsTerminatedTime.  *)

\* the answer to CheckStatus, 0 when there is none: the status is unknown
GuardianCheck ==
  /\ gdPc = "idle"
  /\ gdStartedAt' = IF rmUp THEN rmStartedAt ELSE 0
  /\ gdPc' = "apply"
  /\ UNCHANGED <<subVars, statusVars, parent, rmVars, coVars, sbVars, gdTodo,
                 gdSub, gdKeys, gdKey>>

GuardianUp == gdStartedAt # 0
Restarted == GuardianUp /\ gdStartedAt # startedAt

GuardianApply ==
  /\ gdPc = "apply"
  /\ statusUp' = GuardianUp
  /\ startedAt' = IF Restarted THEN gdStartedAt ELSE startedAt
  /\ gdPc' = CASE Restarted -> "cancelAll"
               [] ~GuardianUp /\ ~Persistent -> "cancelCollect"
               [] OTHER -> "list"
  /\ gdStartedAt' = 0
  /\ UNCHANGED <<subVars, parent, rmVars, coVars, sbVars, gdTodo, gdSub,
                 gdKeys, gdKey>>

\* CancelSubscriptions, CancelCollectSubscriptions: the same for this kind
GuardianCancel ==
  /\ gdPc \in {"cancelAll", "cancelCollect"}
  /\ registered' = {}
  /\ gdPc' = IF gdPc = "cancelCollect" /\ BroadcastPersistent THEN "list"
                                                              ELSE "idle"
  /\ UNCHANGED <<created, resources, statusVars, parent, rmVars, coVars,
                 sbVars, gdStartedAt, gdTodo, gdSub, gdKeys, gdKey>>

GuardianList ==
  /\ gdPc = "list"
  /\ gdTodo' = registered /\ gdPc' = "scan"
  /\ UNCHANGED <<subVars, statusVars, parent, rmVars, coVars, sbVars,
                 gdStartedAt, gdSub, gdKeys, gdKey>>

\* ResourcesByObjectIDCopy of the next subscription
GuardianCopy(sub) ==
  /\ gdPc = "scan" /\ sub \in gdTodo
  /\ gdTodo' = gdTodo \ {sub}
  /\ gdSub' = sub /\ gdKeys' = Keys(sub) /\ gdPc' = "keys"
  /\ UNCHANGED <<subVars, statusVars, parent, rmVars, coVars, sbVars,
                 gdStartedAt, gdKey>>

TerminatedUnsubscribed(r) == r.lapsed \* mutant

\* SubscribedUntil is in the past, and SubscribedAt is set
Terminated(r) == r.lapsed /\ r.subscribed

GuardianKey(sa) ==
  /\ gdPc = "keys" /\ sa \in gdKeys
  /\ gdKeys' = gdKeys \ {sa}
  /\ IF Terminated(resources[gdSub][sa])
     THEN gdKey' = sa /\ gdPc' = "delete"
     ELSE UNCHANGED <<gdKey, gdPc>>
  /\ UNCHANGED <<subVars, statusVars, parent, rmVars, coVars, sbVars,
                 gdStartedAt, gdTodo, gdSub>>

\* DeleteResource: the partner is not told, and goes on notifying
GuardianDelete ==
  /\ gdPc = "delete"
  /\ resources' = [resources EXCEPT ![gdSub][gdKey] = None]
  /\ gdKey' = None /\ gdPc' = "keys"
  /\ UNCHANGED <<registered, created, statusVars, parent, rmVars, coVars,
                 sbVars, gdStartedAt, gdTodo, gdSub, gdKeys>>

GuardianLength ==
  /\ gdPc = "keys" /\ gdKeys = {}
  /\ IF ResourcesLen(gdSub) = 0
     THEN gdPc' = "remove" /\ UNCHANGED gdSub
     ELSE gdPc' = "scan" /\ gdSub' = None
  /\ UNCHANGED <<subVars, statusVars, parent, rmVars, coVars, sbVars,
                 gdStartedAt, gdTodo, gdKeys, gdKey>>

GuardianRemove ==
  /\ gdPc = "remove"
  /\ registered' = registered \ {gdSub}
  /\ gdSub' = None /\ gdPc' = "scan"
  /\ UNCHANGED <<created, resources, statusVars, parent, rmVars, coVars,
                 sbVars, gdStartedAt, gdTodo, gdKeys, gdKey>>

GuardianDone ==
  /\ gdPc = "scan" /\ gdTodo = {}
  /\ gdPc' = "idle"
  /\ UNCHANGED <<subVars, statusVars, parent, rmVars, coVars, sbVars,
                 gdStartedAt, gdTodo, gdSub, gdKeys, gdKey>>

\* two minutes pass without a RequestStopAreaUpdate
Lapse(e) ==
  /\ Found(e) /\ ~resources[e[1]][e[2]].lapsed
  /\ SetResource(e, [resources[e[1]][e[2]] EXCEPT !.lapsed = TRUE])
  /\ UNCHANGED <<registered, created, statusVars, parent, rmVars, coVars,
                 sbVars, gdVars>>

-----------------------------------------------------------------------------
(* The partner's server, and Ara's handlers of what it sends.              *)

Of(sub) == {e \in Entry : e[1] = sub}

RemoteRestart ==
  /\ rmTroubles < MaxTroubles
  /\ rmTroubles' = rmTroubles + 1
  /\ rmStartedAt' = rmStartedAt + 1
  /\ rmSubs' = {}
  /\ UNCHANGED <<subVars, statusVars, parent, rmUp, terminated, silentlyEnded,
                 toCancel, coVars, sbVars, gdVars>>

\* the server, or the network, is down for a while
RemoteOutage ==
  /\ rmUp /\ rmTroubles < MaxTroubles
  /\ rmUp' = FALSE /\ rmTroubles' = rmTroubles + 1
  /\ UNCHANGED <<subVars, statusVars, parent, rmStartedAt, rmSubs, terminated,
                 silentlyEnded, toCancel, coVars, sbVars, gdVars>>

RemoteBack ==
  /\ ~rmUp /\ rmUp' = TRUE
  /\ UNCHANGED <<subVars, statusVars, parent, rmStartedAt, rmSubs, rmTroubles,
                 terminated, silentlyEnded, toCancel, coVars, sbVars, gdVars>>

\* the server ends a subscription, 48 h after its request for instance, and
\* may tell so
RemoteEnd(sub, told) ==
  /\ rmUp /\ rmTroubles < MaxTroubles /\ rmSubs \cap Of(sub) # {}
  /\ rmSubs' = rmSubs \ Of(sub) /\ rmTroubles' = rmTroubles + 1
  /\ IF told
     THEN terminated' = terminated \cup {sub} /\ UNCHANGED silentlyEnded
     ELSE silentlyEnded' = silentlyEnded \cup {sub} /\ UNCHANGED terminated
  /\ UNCHANGED <<subVars, statusVars, parent, rmUp, rmStartedAt, toCancel,
                 coVars, sbVars, gdVars>>

\* HandleSubscriptionTerminatedNotification, HandleNotifySubscriptionTerminated
HandleTerminated(sub) ==
  /\ sub \in terminated
  /\ terminated' = terminated \ {sub}
  /\ registered' = registered \ {sub}
  /\ UNCHANGED <<created, resources, statusVars, parent, rmUp, rmStartedAt,
                 rmSubs, rmTroubles, silentlyEnded, toCancel, coVars, sbVars,
                 gdVars>>

\* HandleNotifyStopMonitoring, with stop visits of e[2].  The subscription is
\* unknown: it is to be cancelled.  Otherwise the stop area becomes a child of
\* the delivery's origin, when this is another one (updateStopArea)
HandleNotify(e) ==
  /\ rmUp /\ e \in rmSubs
  /\ IF e[1] \notin registered
     THEN toCancel' = toCancel \cup {e[1]} /\ UNCHANGED parent
     ELSE /\ parent' = [parent EXCEPT ![e[2]] =
               IF @ = None /\ Origin(e[1], e[2]) # e[2]
               THEN Origin(e[1], e[2]) ELSE @]
          /\ UNCHANGED toCancel
  /\ UNCHANGED <<subVars, statusVars, rmUp, rmStartedAt, rmSubs, rmTroubles,
                 terminated, silentlyEnded, coVars, sbVars, gdVars>>

\* cancelSubscription: DeleteSubscription, whose failure is only logged
CancelSubscription(sub, ok) ==
  /\ sub \in toCancel /\ (ok => rmUp)
  /\ toCancel' = toCancel \ {sub}
  /\ rmSubs' = IF ok THEN rmSubs \ Of(sub) ELSE rmSubs
  /\ UNCHANGED <<subVars, statusVars, parent, rmUp, rmStartedAt,
                 rmTroubles, terminated, silentlyEnded, coVars, sbVars, gdVars>>

-----------------------------------------------------------------------------
Collector ==
  \/ CollectFind \/ CollectRenewed
  \/ \E sub \in Ids :
       CollectRenew(sub) \/ CollectCreate(sub) \/ CollectAdd(sub)

Subscriber ==
  \/ SubscriberTick \/ SubscriberDone
  \/ \E accepted, refused \in SUBSET sbEntries :
       SubscriberRequest(accepted, refused)
  \/ \E accepted \in SUBSET sbEntries : SubscriberError(accepted)
  \/ \E e \in Entry : SubscriberAnswer(e) \/ SubscriberRetry(e)

Guardian ==
  \/ GuardianCheck \/ GuardianApply \/ GuardianCancel \/ GuardianList
  \/ GuardianDelete \/ GuardianLength \/ GuardianRemove \/ GuardianDone
  \/ \E sub \in Ids : GuardianCopy(sub)
  \/ \E sa \in StopAreas : GuardianKey(sa)

Partner ==
  \/ RemoteRestart \/ RemoteOutage \/ RemoteBack
  \/ \E sub \in Ids, told \in BOOLEAN : RemoteEnd(sub, told)
  \/ \E sub \in Ids : HandleTerminated(sub)
  \/ \E e \in Entry : HandleNotify(e)
  \/ \E sub \in Ids, ok \in BOOLEAN : CancelSubscription(sub, ok)

Next ==
  \/ \E sa \in StopAreas : CollectStart(sa)
  \/ Collector \/ Subscriber \/ Guardian \/ Partner
  \/ \E e \in Entry : Lapse(e)

Spec == Init /\ [][Next]_vars

\* the three loops run, and refreshStopAreas reaches every stop area in turn;
\* nothing is assumed of the partner
Fairness ==
  /\ WF_vars(Collector) /\ WF_vars(Subscriber) /\ WF_vars(Guardian)
  /\ \A sa \in StopAreas : SF_vars(CollectStart(sa))

FairSpec == Spec /\ Fairness

-----------------------------------------------------------------------------
TypeOK ==
  /\ registered \subseteq created /\ created \subseteq Ids
  /\ resources \in [Ids -> [StopAreas -> Resource \cup {None}]]
  /\ statusUp \in BOOLEAN /\ startedAt \in 0..MaxTroubles + 1
  /\ parent \in [StopAreas -> StopAreas \cup {None}]
  /\ rmUp \in BOOLEAN /\ rmStartedAt \in 1..MaxTroubles + 1
  /\ rmSubs \subseteq Entry /\ rmTroubles \in 0..MaxTroubles
  /\ terminated \subseteq Ids /\ silentlyEnded \subseteq Ids
  /\ toCancel \subseteq Ids
  /\ coPc \in {"idle", "find", "renew", "create", "add"}
  /\ IF coPc = "idle" THEN coStopArea = None /\ coTodo = {}
     ELSE coStopArea \in StopAreas /\ coTodo \subseteq Ids
  /\ sbPc \in {"idle", "request", "answer"} /\ sbEntries \subseteq Entry
  /\ sbAccepted \subseteq sbEntries /\ sbRefused \subseteq sbEntries
  /\ sbPc = "idle" => sbEntries = {}
  /\ gdPc \in {"idle", "apply", "cancelAll", "cancelCollect", "list", "scan",
               "keys", "delete", "remove"}
  /\ gdStartedAt \in 0..MaxTroubles + 1
  /\ gdTodo \subseteq Ids /\ gdKeys \subseteq StopAreas
  /\ IF gdPc \in {"keys", "delete", "remove"} THEN gdSub \in Ids
                                              ELSE gdSub = None
  /\ IF gdPc = "delete" THEN gdKey \in StopAreas ELSE gdKey = None

\* A stop area is never subscribed to twice: at most one subscription Ara knows
\* has a resource for it (RequestStopAreaUpdate looks for one and creates one
\* in two steps, while others delete subscriptions and resources).
SubscribedOnce ==
  \A s1, s2 \in registered : Keys(s1) \cap Keys(s2) # {} => s1 = s2

\* Ara never believes it is subscribed when it is not: a subscribed resource is
\* one the server still has, unless the server has just restarted (the guardian
\* will see it and cancel) or has ended it (and Ara may not have been told).
SubscribedAtRemote ==
  \A e \in Entry : Found(e) /\ resources[e[1]][e[2]].subscribed =>
    \/ e \in rmSubs
    \/ startedAt # rmStartedAt \/ gdPc = "cancelAll"
    \/ e[1] \in terminated \cup silentlyEnded

\* "Should never happen" (siri_stop_monitoring_subscriber.go:190): a resource
\* whose request is in flight is not deleted while its subscription is known,
\* though the guardian deletes resources by key meanwhile.
InFlightKept ==
  \A e \in sbEntries : e[1] \in registered => Found(e)

\* Several stop areas in one subscription are told apart: the stop visits
\* notified for one of them never make it the child of another one.
NoFalseParent == \A sa \in StopAreas : parent[sa] = None

Held(sa) ==
  \E sub \in FindByResourceId(sa) : resources[sub][sa].subscribed
GivenUp(sa) ==
  \E sub \in FindByResourceId(sa) : resources[sub][sa].retry > MaxRetry

\* A stop area that is collected is subscribed to again and again, whatever
\* ended its subscription, unless the server is down, refused it or left it
\* unanswered more than MaxRetry times (or the model's ids are used up).
Resubscribed ==
  \A sa \in StopAreas :
    []<>(Held(sa) \/ GivenUp(sa) \/ ~rmUp \/ created = Ids
         \/ parent[sa] # None)
=============================================================================
