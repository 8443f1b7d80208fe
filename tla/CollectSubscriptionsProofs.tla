--------------------- MODULE CollectSubscriptionsProofs ---------------------
(***************************************************************************)
(* CollectSubscriptions for every value of its constants: any number of    *)
(* stop areas, subscriptions, retries and troubles of the partner.         *)
(***************************************************************************)
EXTENDS CollectSubscriptions, FiniteSetTheorems, TLAPS

USE BoundsAssumption, SettingsAssumption, NoneAssumption
USE DEF BoundsAssumption, SettingsAssumption, NoneAssumption

-----------------------------------------------------------------------------
(* The inductive invariant.                                                *)

\* An id has no resource, no entry and no cancellation before it is created.
IdsCreated ==
  /\ \A s \in Ids \ created : \A a \in StopAreas : resources[s][a] = None
  /\ \A e \in sbEntries \cup rmSubs : e[1] \in created
  /\ toCancel \subseteq created
  /\ coPc = "add" => coTodo \subseteq created

\* The server's start times are counted, and Ara's copies are not ahead.
Starts ==
  /\ rmStartedAt <= rmTroubles + 1
  /\ startedAt <= rmStartedAt /\ gdStartedAt <= rmStartedAt

\* A resource with a request in flight is neither subscribed nor given up.
InFlightOpen ==
  \A e \in sbEntries : Found(e) =>
    /\ ~resources[e[1]][e[2]].subscribed
    /\ resources[e[1]][e[2]].retry <= MaxRetry

\* Between FindByResourceId and CreateAddNewResource, nobody else adds the
\* stop area.
Collecting ==
  /\ coPc \in {"create", "add"} =>
       \A s \in registered : resources[s][coStopArea] = None
  /\ coPc = "add" => \A s \in coTodo : resources[s][coStopArea] = None

\* The guardian's copied keys are still there, and the one it is about to
\* delete is still subscribed.
Scanning ==
  /\ gdPc \in {"keys", "delete"} =>
       \A a \in gdKeys : resources[gdSub][a] # None
  /\ gdPc = "delete" =>
       /\ gdKey \notin gdKeys
       /\ resources[gdSub][gdKey] # None
       /\ resources[gdSub][gdKey].subscribed

\* What explains that a subscription is not, or may not be, the server's.
Excused(e) ==
  \/ e \in rmSubs
  \/ startedAt # rmStartedAt \/ gdPc = "cancelAll"
  \/ e[1] \in terminated \cup silentlyEnded

\* What the server accepted is its own until Ara notes it, and a subscription
\* to cancel is one Ara has forgotten.
AcceptedKept ==
  /\ \A e \in sbAccepted : e[1] \in registered => Excused(e)
  /\ toCancel \cap registered = {}

IInv ==
  /\ TypeOK /\ IdsCreated /\ Starts /\ InFlightOpen /\ Collecting /\ Scanning
  /\ SubscribedOnce /\ InFlightKept /\ SubscribedAtRemote /\ AcceptedKept

-----------------------------------------------------------------------------
(* What the actions do to resources, point by point.                       *)

\* An update of one resource keeps the type of resources.
LEMMA UpdateType ==
  ASSUME NEW V, NEW f \in [Ids -> [StopAreas -> V]],
         NEW s \in Ids, NEW a \in StopAreas, NEW v \in V
  PROVE  [f EXCEPT ![s][a] = v] \in [Ids -> [StopAreas -> V]]
OBVIOUS

\* An update of one resource changes that one only.
LEMMA UpdatePoint ==
  ASSUME NEW V, NEW f \in [Ids -> [StopAreas -> V]],
         NEW s \in Ids, NEW a \in StopAreas, NEW v,
         NEW t \in Ids, NEW b \in StopAreas
  PROVE  [f EXCEPT ![s][a] = v][t][b] =
           IF t = s /\ b = a THEN v ELSE f[t][b]
OBVIOUS

\* The fields of a resource, and those of a new one.
LEMMA ResourceFields ==
  /\ NewResource \in Resource
  /\ ~NewResource.subscribed /\ NewResource.retry = 0
  /\ \A r \in Resource : r.subscribed \in BOOLEAN /\ r.lapsed \in BOOLEAN
                         /\ r.retry \in 0..MaxRetry + 1
BY DEF Resource, NewResource

\* The parts of an entry of a request.
LEMMA EntryParts == \A e \in Entry : e[1] \in Ids /\ e[2] \in StopAreas
                                     /\ e = <<e[1], e[2]>>
BY DEF Entry

\* What the lookup of an entry says of resources.
LEMMA FoundMeans ==
  ASSUME TypeOK, NEW e \in Entry
  PROVE  /\ Found(e) <=> e[1] \in registered /\ resources[e[1]][e[2]] # None
         /\ Found(e) => resources[e[1]][e[2]] \in Resource
BY EntryParts DEF Found, Keys, TypeOK

\* CollectRenew puts off SubscribedUntil and nothing else
LEMMA RenewPoint ==
  ASSUME TypeOK, NEW sub \in Ids, CollectRenew(sub)
  PROVE  /\ resources' \in [Ids -> [StopAreas -> Resource \cup {None}]]
         /\ \A s \in Ids, a \in StopAreas :
              /\ resources'[s][a] = None <=> resources[s][a] = None
              /\ resources[s][a] # None =>
                   /\ resources'[s][a].subscribed = resources[s][a].subscribed
                   /\ resources'[s][a].retry = resources[s][a].retry
<1> DEFINE r == resources[sub][coStopArea]
           l == r.lapsed /\ ~r.subscribed
           v == [r EXCEPT !.lapsed = l]
<1>1. /\ resources \in [Ids -> [StopAreas -> Resource \cup {None}]]
      /\ coStopArea \in StopAreas
  BY DEF TypeOK, CollectRenew
<1>2. r \in Resource
  BY <1>1 DEF CollectRenew
<1>3. v \in Resource /\ v.subscribed = r.subscribed /\ v.retry = r.retry
  BY <1>2 DEF Resource
<1>4. resources' = [resources EXCEPT ![sub][coStopArea] = v]
  BY <1>1, <1>2 DEF CollectRenew, Resource
<1> HIDE DEF v
<1>5. \A s \in Ids, a \in StopAreas :
        resources'[s][a] = IF s = sub /\ a = coStopArea THEN v
                                                        ELSE resources[s][a]
  BY <1>1, <1>4
<1>6. resources' \in [Ids -> [StopAreas -> Resource \cup {None}]]
  BY <1>1, <1>3, <1>4
<1> QED
  BY <1>2, <1>3, <1>5, <1>6

\* CreateAddNewResource changes one resource.
LEMMA AddPoint ==
  ASSUME TypeOK, NEW sub \in Ids, CollectAdd(sub)
  PROVE  /\ resources' \in [Ids -> [StopAreas -> Resource \cup {None}]]
         /\ \A s \in Ids, a \in StopAreas :
              resources'[s][a] = IF s = sub /\ a = coStopArea
                                 THEN NewResource ELSE resources[s][a]
<1>1. /\ resources \in [Ids -> [StopAreas -> Resource \cup {None}]]
      /\ coStopArea \in StopAreas
      /\ resources' = [resources EXCEPT ![sub][coStopArea] = NewResource]
  BY DEF TypeOK, CollectAdd
<1> QED
  BY ONLY <1>1, sub \in Ids, UpdateType, UpdatePoint, ResourceFields

\* DeleteResource changes one resource.
LEMMA DeletePoint ==
  ASSUME TypeOK, GuardianDelete
  PROVE  /\ resources' \in [Ids -> [StopAreas -> Resource \cup {None}]]
         /\ gdSub \in Ids /\ gdKey \in StopAreas
         /\ \A s \in Ids, a \in StopAreas :
              resources'[s][a] = IF s = gdSub /\ a = gdKey
                                 THEN None ELSE resources[s][a]
<1>1. /\ resources \in [Ids -> [StopAreas -> Resource \cup {None}]]
      /\ gdSub \in Ids /\ gdKey \in StopAreas
      /\ resources' = [resources EXCEPT ![gdSub][gdKey] = None]
  BY DEF TypeOK, GuardianDelete
<1> QED
  BY ONLY <1>1, UpdateType, UpdatePoint

\* a resource set with SetResource is the only one that changes
LEMMA SetPoint ==
  ASSUME TypeOK, NEW e \in Entry, NEW r \in Resource, SetResource(e, r)
  PROVE  /\ resources' \in [Ids -> [StopAreas -> Resource \cup {None}]]
         /\ \A s \in Ids, a \in StopAreas :
              resources'[s][a] = IF s = e[1] /\ a = e[2]
                                 THEN r ELSE resources[s][a]
<1>1. /\ resources \in [Ids -> [StopAreas -> Resource \cup {None}]]
      /\ resources' = [resources EXCEPT ![e[1]][e[2]] = r]
      /\ e[1] \in Ids /\ e[2] \in StopAreas
  BY EntryParts DEF TypeOK, SetResource
<1> QED
  BY ONLY <1>1, r \in Resource, UpdateType, UpdatePoint

\* Lapse changes SubscribedUntil and nothing else.
LEMMA LapsePoint ==
  ASSUME TypeOK, NEW e \in Entry, Lapse(e)
  PROVE  /\ resources' \in [Ids -> [StopAreas -> Resource \cup {None}]]
         /\ \A s \in Ids, a \in StopAreas :
              /\ resources'[s][a] = None <=> resources[s][a] = None
              /\ resources[s][a] # None =>
                   /\ resources'[s][a].subscribed = resources[s][a].subscribed
                   /\ resources'[s][a].retry = resources[s][a].retry
<1> DEFINE r == resources[e[1]][e[2]]
           v == [r EXCEPT !.lapsed = TRUE]
<1>1. r \in Resource /\ r # None
  BY FoundMeans DEF Lapse
<1>2. v \in Resource /\ v.subscribed = r.subscribed /\ v.retry = r.retry
  BY <1>1 DEF Resource
<1>3. SetResource(e, v)
  BY DEF Lapse
<1> HIDE DEF v
<1>4. /\ resources' \in [Ids -> [StopAreas -> Resource \cup {None}]]
      /\ \A s \in Ids, a \in StopAreas :
           resources'[s][a] = IF s = e[1] /\ a = e[2]
                              THEN v ELSE resources[s][a]
  BY <1>2, <1>3, SetPoint
<1>5. v # None
  BY <1>2
<1> QED
  BY <1>1, <1>2, <1>4, <1>5

\* the answer to one entry changes its resource only, and subscribes it when
\* the server accepted it
LEMMA AnswerPoint ==
  ASSUME TypeOK, InFlightOpen, NEW e \in Entry,
         SubscriberAnswer(e) \/ SubscriberRetry(e)
  PROVE  /\ resources' \in [Ids -> [StopAreas -> Resource \cup {None}]]
         /\ \A s \in Ids, a \in StopAreas :
              /\ resources'[s][a] = None <=> resources[s][a] = None
              /\ ~(s = e[1] /\ a = e[2]) => resources'[s][a] = resources[s][a]
         /\ e \in sbEntries /\ sbEntries' = sbEntries \ {e}
         /\ IF Found(e)
            THEN resources'[e[1]][e[2]].subscribed => e \in sbAccepted
            ELSE UNCHANGED resources
<1> DEFINE r == resources[e[1]][e[2]]
<1>1. e \in sbEntries /\ sbEntries' = sbEntries \ {e}
  BY DEF SubscriberAnswer, SubscriberRetry, TypeOK
<1>2. CASE ~Found(e)
  BY <1>1, <1>2 DEF SubscriberAnswer, SubscriberRetry, TypeOK
<1>3. CASE Found(e)
  <2>1. r \in Resource /\ r # None /\ ~r.subscribed /\ r.retry \in 0..MaxRetry
    BY <1>1, <1>3, FoundMeans, ResourceFields DEF InFlightOpen
  <2>2. Accepted(r) \in Resource /\ Accepted(r) # None
    <3>1. r.lapsed \in BOOLEAN /\ 0 \in 0..MaxRetry + 1
      BY <2>1, ResourceFields
    <3>2. Accepted(r) \in Resource
      BY <3>1 DEF Resource, Accepted
    <3> QED
      BY <3>2
  <2>3. Retried(r) \in Resource /\ Retried(r) # None /\ ~Retried(r).subscribed
    BY <2>1 DEF Resource, Retried
  <2>4. \/ SetResource(e, Accepted(r)) /\ e \in sbAccepted
        \/ SetResource(e, Retried(r))
    BY <1>3 DEF SubscriberAnswer, SubscriberRetry, Granted
  <2>5. CASE SetResource(e, Accepted(r)) /\ e \in sbAccepted
    BY <1>1, <1>3, <2>1, <2>2, <2>5, SetPoint, EntryParts
  <2>6. CASE SetResource(e, Retried(r))
    BY <1>1, <1>3, <2>1, <2>3, <2>6, SetPoint, EntryParts
  <2> QED
    BY <2>4, <2>5, <2>6
<1> QED
  BY <1>2, <1>3
-----------------------------------------------------------------------------
(* Types.                                                                  *)

\* The origin of a delivery is its stop area or the only resource.
LEMMA OriginType ==
  ASSUME NEW sub \in Ids, NEW sa \in StopAreas
  PROVE  /\ Origin(sub, sa) \in StopAreas
         /\ Origin(sub, sa) # sa => Origin(sub, sa) \in Keys(sub)
<1>1. CASE ResourcesLen(sub) = 1
  <2>1. Keys(sub) # {}
    BY <1>1, FS_EmptySet DEF ResourcesLen
  <2>2. Origin(sub, sa) \in Keys(sub)
    BY <1>1, <2>1 DEF Origin
  <2> QED
    BY <2>2 DEF Keys
<1>2. CASE ResourcesLen(sub) # 1
  BY <1>2 DEF Origin
<1> QED
  BY <1>1, <1>2

\* Each process keeps the types: the collect,
LEMMA CollectorTypeOK ==
  ASSUME TypeOK, Collector \/ \E sa \in StopAreas : CollectStart(sa)
  PROVE  TypeOK'
<1> USE DEF TypeOK, subVars, statusVars, rmVars, coVars, sbVars, gdVars
<1>1. ASSUME NEW sa \in StopAreas, CollectStart(sa) PROVE TypeOK'
  BY <1>1 DEF CollectStart
<1>2. CASE CollectFind
  BY <1>2 DEF CollectFind, FindByResourceId
<1>3. CASE CollectRenewed
  BY <1>3 DEF CollectRenewed, CollectEnd
<1>4. ASSUME NEW sub \in Ids, CollectRenew(sub) PROVE TypeOK'
  BY <1>4, RenewPoint DEF CollectRenew
<1>5. ASSUME NEW sub \in Ids, CollectCreate(sub) PROVE TypeOK'
  BY <1>5 DEF CollectCreate
<1>6. ASSUME NEW sub \in Ids, CollectAdd(sub) PROVE TypeOK'
  BY <1>6, AddPoint DEF CollectAdd, CollectEnd
<1> QED
  BY <1>1, <1>2, <1>3, <1>4, <1>5, <1>6 DEF Collector

\* the subscriber loop (a resource in flight can be retried once more),
LEMMA SubscriberTypeOK ==
  ASSUME TypeOK, InFlightOpen, Subscriber
  PROVE  TypeOK'
<1> USE DEF TypeOK, subVars, statusVars, rmVars, coVars, sbVars, gdVars
<1>1. CASE SubscriberTick
  BY <1>1 DEF SubscriberTick, ToRequest
<1>2. CASE SubscriberDone
  BY <1>2 DEF SubscriberDone
<1>3. ASSUME NEW accepted \in SUBSET sbEntries,
             NEW refused \in SUBSET sbEntries,
             SubscriberRequest(accepted, refused)
      PROVE  TypeOK'
  BY <1>3 DEF SubscriberRequest
<1>4. ASSUME NEW accepted \in SUBSET sbEntries, SubscriberError(accepted)
      PROVE  TypeOK'
  BY <1>4 DEF SubscriberError
<1>5. ASSUME NEW e \in Entry, SubscriberAnswer(e) \/ SubscriberRetry(e)
      PROVE  TypeOK'
  <2>1. resources' \in [Ids -> [StopAreas -> Resource \cup {None}]]
    BY <1>5, AnswerPoint
  <2> QED
    BY <1>5, <2>1 DEF SubscriberAnswer, SubscriberRetry
<1> QED
  BY <1>1, <1>2, <1>3, <1>4, <1>5 DEF Subscriber

\* the guardian,
LEMMA GuardianTypeOK ==
  ASSUME TypeOK, Guardian
  PROVE  TypeOK'
<1> USE DEF TypeOK, subVars, statusVars, rmVars, coVars, sbVars, gdVars
<1>1. CASE GuardianCheck
  BY <1>1 DEF GuardianCheck
<1>2. CASE GuardianApply
  BY <1>2 DEF GuardianApply, GuardianUp
<1>3. CASE GuardianCancel
  BY <1>3 DEF GuardianCancel
<1>4. CASE GuardianList
  BY <1>4 DEF GuardianList
<1>5. CASE GuardianDelete
  BY <1>5, DeletePoint DEF GuardianDelete
<1>6. CASE GuardianLength
  BY <1>6 DEF GuardianLength
<1>7. CASE GuardianRemove
  BY <1>7 DEF GuardianRemove
<1>8. CASE GuardianDone
  BY <1>8 DEF GuardianDone
<1>9. ASSUME NEW sub \in Ids, GuardianCopy(sub) PROVE TypeOK'
  BY <1>9 DEF GuardianCopy, Keys
<1>10. ASSUME NEW sa \in StopAreas, GuardianKey(sa) PROVE TypeOK'
  BY <1>10 DEF GuardianKey
<1> QED
  BY <1>1, <1>2, <1>3, <1>4, <1>5, <1>6, <1>7, <1>8, <1>9, <1>10 DEF Guardian

\* and the partner (its start times are counted by its troubles).
LEMMA PartnerTypeOK ==
  ASSUME TypeOK, Starts, Partner \/ \E e \in Entry : Lapse(e)
  PROVE  TypeOK'
<1> USE DEF TypeOK, subVars, statusVars, rmVars, coVars, sbVars, gdVars
<1>1. CASE RemoteRestart
  BY <1>1 DEF RemoteRestart, Starts
<1>2. CASE RemoteOutage
  <2>1. /\ rmTroubles \in 0..MaxTroubles /\ rmTroubles < MaxTroubles
        /\ rmTroubles' = rmTroubles + 1
    BY <1>2, Zenon DEF RemoteOutage
  <2>2. rmTroubles' \in 0..MaxTroubles
    BY ONLY <2>1, BoundsAssumption DEF BoundsAssumption
  <2>3. rmUp' \in BOOLEAN
    BY <1>2, Zenon DEF RemoteOutage
  <2> QED
    BY <1>2, <2>2, <2>3, Zenon DEF RemoteOutage
<1>3. CASE RemoteBack
  BY <1>3 DEF RemoteBack
<1>4. ASSUME NEW sub \in Ids, NEW told \in BOOLEAN, RemoteEnd(sub, told)
      PROVE  TypeOK'
  BY <1>4 DEF RemoteEnd
<1>5. ASSUME NEW sub \in Ids, HandleTerminated(sub) PROVE TypeOK'
  BY <1>5 DEF HandleTerminated
<1>6. ASSUME NEW e \in Entry, HandleNotify(e) PROVE TypeOK'
  <2>1. parent' \in [StopAreas -> StopAreas \cup {None}]
    BY <1>6, EntryParts, OriginType DEF HandleNotify
  <2> QED
    BY <1>6, EntryParts, <2>1 DEF HandleNotify
<1>7. ASSUME NEW sub \in Ids, NEW ok \in BOOLEAN, CancelSubscription(sub, ok)
      PROVE  TypeOK'
  BY <1>7 DEF CancelSubscription
<1>8. ASSUME NEW e \in Entry, Lapse(e) PROVE TypeOK'
  BY <1>8, LapsePoint DEF Lapse
<1> QED
  BY <1>1, <1>2, <1>3, <1>4, <1>5, <1>6, <1>7, <1>8 DEF Partner

-----------------------------------------------------------------------------
(* The other parts of the invariant, one process at a time.                *)

Rest ==
  /\ IdsCreated /\ Starts /\ InFlightOpen /\ Collecting /\ Scanning
  /\ SubscribedOnce /\ InFlightKept /\ SubscribedAtRemote /\ AcceptedKept

\* The invariant holds initially.
LEMMA InitInv == Init => IInv
<1> SUFFICES ASSUME Init PROVE IInv
  OBVIOUS
<1>1. TypeOK
  <2>1. statusUp \in BOOLEAN /\ rmUp \in BOOLEAN
    BY Zenon DEF Init
  <2>2. /\ startedAt = 0 /\ rmStartedAt = 1 /\ rmTroubles = 0
        /\ gdStartedAt = 0
    BY Zenon DEF Init
  <2>3. /\ startedAt \in 0..MaxTroubles + 1 /\ rmTroubles \in 0..MaxTroubles
        /\ rmStartedAt \in 1..MaxTroubles + 1
        /\ gdStartedAt \in 0..MaxTroubles + 1
    BY ONLY <2>2, BoundsAssumption DEF BoundsAssumption
  <2>4. /\ resources \in [Ids -> [StopAreas -> Resource \cup {None}]]
        /\ parent \in [StopAreas -> StopAreas \cup {None}]
    BY DEF Init, NoResources
  <2>5. /\ registered = {} /\ created = {} /\ rmSubs = {} /\ terminated = {}
        /\ silentlyEnded = {} /\ toCancel = {} /\ coPc = "idle"
        /\ coStopArea = None /\ coTodo = {} /\ sbPc = "idle"
        /\ sbEntries = {} /\ sbAccepted = {} /\ sbRefused = {}
        /\ gdPc = "idle" /\ gdTodo = {} /\ gdSub = None /\ gdKeys = {}
        /\ gdKey = None
    BY Zenon DEF Init
  <2> QED
    BY <2>1, <2>3, <2>4, <2>5 DEF TypeOK
<1>2. IdsCreated
  BY DEF Init, IdsCreated, NoResources
<1>3. Starts
  BY DEF Init, Starts
<1>4. InFlightOpen /\ InFlightKept /\ SubscribedOnce
  BY DEF Init, InFlightOpen, InFlightKept, SubscribedOnce
<1>5. Collecting /\ Scanning
  BY DEF Init, Collecting, Scanning
<1>6. SubscribedAtRemote /\ AcceptedKept
  BY DEF Init, SubscribedAtRemote, AcceptedKept, Found
<1> QED
  BY <1>1, <1>2, <1>3, <1>4, <1>5, <1>6 DEF Rest, IInv

\* SubscribedUntil passes or is put off: nothing else changes, but coTodo.
LEMMA LapsedOnlyRest ==
  ASSUME TypeOK, TypeOK', Rest, coPc = "add" => UNCHANGED coTodo,
         \A s \in Ids, a \in StopAreas :
           /\ resources'[s][a] = None <=> resources[s][a] = None
           /\ resources[s][a] # None =>
                /\ resources'[s][a].subscribed = resources[s][a].subscribed
                /\ resources'[s][a].retry = resources[s][a].retry,
         UNCHANGED <<registered, created, statusVars, parent, rmVars, coPc,
                     coStopArea, sbVars, gdVars>>
  PROVE  Rest'
<1> USE DEF Rest, IdsCreated, Starts, InFlightOpen, Collecting, Scanning,
            SubscribedOnce, InFlightKept, SubscribedAtRemote, AcceptedKept,
            Excused, Found, Keys, statusVars, rmVars, sbVars, gdVars
<1>1. /\ registered \subseteq Ids /\ sbEntries \subseteq Entry
      /\ coPc \in {"create", "add"} =>
           coStopArea \in StopAreas /\ coTodo \subseteq Ids
      /\ gdPc \in {"keys", "delete"} => gdSub \in Ids
      /\ gdPc = "delete" => gdKey \in StopAreas
      /\ gdKeys \subseteq StopAreas
  BY DEF TypeOK
<1>2. IdsCreated' /\ Starts' /\ AcceptedKept'
  OBVIOUS
<1>3. InFlightOpen' /\ InFlightKept'
  BY <1>1, EntryParts
<1>4. Collecting'
  BY <1>1
<1>5. Scanning'
  BY <1>1
<1>6. SubscribedOnce'
  BY <1>1
<1>7. SubscribedAtRemote'
  BY <1>1, EntryParts
<1> QED
  BY <1>2, <1>3, <1>4, <1>5, <1>6, <1>7

\* FindByResourceId found none and nobody else adds the stop area: the new
\* resource is its only one.
LEMMA CollectorRest ==
  ASSUME TypeOK, TypeOK', Rest,
         Collector \/ \E sa \in StopAreas : CollectStart(sa)
  PROVE  Rest'
<1> USE DEF Rest, IdsCreated, Starts, InFlightOpen, Collecting, Scanning,
            SubscribedOnce, InFlightKept, SubscribedAtRemote, AcceptedKept,
            Excused, Found, Keys, subVars, statusVars, rmVars, coVars, sbVars,
            gdVars
<1>1. ASSUME NEW sa \in StopAreas, CollectStart(sa) PROVE Rest'
  BY <1>1 DEF CollectStart
<1>2. CASE CollectFind
  BY <1>2 DEF CollectFind, FindByResourceId, TypeOK
<1>3. CASE CollectRenewed
  BY <1>3 DEF CollectRenewed, CollectEnd
<1>4. ASSUME NEW sub \in Ids, CollectRenew(sub) PROVE Rest'
  BY <1>4, RenewPoint, LapsedOnlyRest DEF CollectRenew
<1>5. ASSUME NEW sub \in Ids, CollectCreate(sub) PROVE Rest'
  BY <1>5 DEF CollectCreate, WithRoom, TypeOK
<1>6. ASSUME NEW sub \in Ids, CollectAdd(sub) PROVE Rest'
  <2>1. /\ \A s \in Ids, a \in StopAreas :
             resources'[s][a] = IF s = sub /\ a = coStopArea
                                THEN NewResource ELSE resources[s][a]
        /\ NewResource # None /\ ~NewResource.subscribed
        /\ NewResource.retry = 0
    BY <1>6, AddPoint, ResourceFields
  <2>2. /\ coStopArea \in StopAreas /\ sub \in created
        /\ \A s \in registered \cup {sub} : resources[s][coStopArea] = None
        /\ UNCHANGED <<registered, created, statusVars, parent, rmVars, sbVars,
                       gdVars>>
        /\ coPc' = "idle"
    BY <1>6 DEF CollectAdd, CollectEnd, TypeOK
  <2>3. /\ registered \subseteq Ids /\ created \subseteq Ids
        /\ sbEntries \subseteq Entry /\ sbAccepted \subseteq sbEntries
        /\ gdPc \in {"keys", "delete"} => gdSub \in Ids
        /\ gdPc = "delete" => gdKey \in StopAreas
        /\ gdKeys \subseteq StopAreas
    BY DEF TypeOK
  <2>4. IdsCreated' /\ Starts'
    BY <2>1, <2>2, <2>3
  <2>5. InFlightOpen' /\ InFlightKept'
    BY <2>1, <2>2, <2>3, EntryParts
  <2>6. Collecting'
    BY <2>2
  <2>7. Scanning'
    BY <2>1, <2>2, <2>3
  <2>8. SubscribedOnce'
    BY <2>1, <2>2, <2>3
  <2>9. SubscribedAtRemote'
    BY <2>1, <2>2, EntryParts
  <2>10. AcceptedKept'
    BY <2>2
  <2> QED
    BY <2>4, <2>5, <2>6, <2>7, <2>8, <2>9, <2>10
<1> QED
  BY <1>1, <1>2, <1>3, <1>4, <1>5, <1>6 DEF Collector

\* An accepted entry is subscribed only after the server has it; a resource
\* the guardian is about to delete is subscribed, so it is not in flight.
LEMMA SubscriberRest ==
  ASSUME TypeOK, TypeOK', Rest, Subscriber
  PROVE  Rest'
<1> USE DEF Rest, IdsCreated, Starts, InFlightOpen, Collecting, Scanning,
            SubscribedOnce, InFlightKept, SubscribedAtRemote, AcceptedKept,
            Excused, Found, Keys, subVars, statusVars, rmVars, coVars, gdVars
<1>1. CASE SubscriberTick
  <2>1. sbEntries' = ToRequest
    BY <1>1 DEF SubscriberTick
  <2>2. UNCHANGED <<subVars, statusVars, rmVars, coVars, sbAccepted, gdVars>>
    BY <1>1 DEF SubscriberTick
  <2>3. ToRequest \subseteq Entry
    BY DEF ToRequest
  <2>4. \A e \in ToRequest :
          /\ Found(e) /\ e[1] \in registered
          /\ ~resources[e[1]][e[2]].subscribed
          /\ resources[e[1]][e[2]].retry <= MaxRetry
    BY DEF ToRequest
  <2>5. \A e \in ToRequest : e[1] \in created
    BY <2>3, <2>4, EntryParts
  <2>6. IdsCreated'
    BY <2>1, <2>2, <2>5
  <2>7. InFlightOpen' /\ InFlightKept'
    BY <2>1, <2>2, <2>4
  <2> QED
    BY <2>2, <2>6, <2>7
<1>2. CASE SubscriberDone
  BY <1>2 DEF SubscriberDone
<1>3. ASSUME NEW accepted \in SUBSET sbEntries,
             NEW refused \in SUBSET sbEntries,
             SubscriberRequest(accepted, refused)
      PROVE  Rest'
  BY <1>3 DEF SubscriberRequest
<1>4. ASSUME NEW accepted \in SUBSET sbEntries, SubscriberError(accepted)
      PROVE  Rest'
  BY <1>4 DEF SubscriberError
<1>5. ASSUME NEW e \in Entry, SubscriberAnswer(e) \/ SubscriberRetry(e)
      PROVE  Rest'
  <2>1. /\ \A s \in Ids, a \in StopAreas :
             /\ resources'[s][a] = None <=> resources[s][a] = None
             /\ ~(s = e[1] /\ a = e[2]) => resources'[s][a] = resources[s][a]
        /\ e \in sbEntries /\ sbEntries' = sbEntries \ {e}
        /\ IF Found(e)
           THEN resources'[e[1]][e[2]].subscribed => e \in sbAccepted
           ELSE UNCHANGED resources
    BY <1>5, AnswerPoint
  <2>2. /\ UNCHANGED <<registered, created, statusVars, parent, rmVars, coVars,
                       gdVars>>
        /\ sbAccepted' \subseteq sbAccepted
    BY <1>5 DEF SubscriberAnswer, SubscriberRetry
  <2>3. /\ registered \subseteq Ids /\ sbEntries \subseteq Entry
        /\ coPc \in {"create", "add"} =>
             coStopArea \in StopAreas /\ coTodo \subseteq Ids
        /\ gdPc \in {"keys", "delete"} => gdSub \in Ids
        /\ gdPc = "delete" => gdKey \in StopAreas
        /\ gdKeys \subseteq StopAreas
    BY DEF TypeOK
  <2>4. IdsCreated' /\ Starts'
    BY <2>1, <2>2
  <2>5. InFlightOpen' /\ InFlightKept'
    BY <2>1, <2>2, <2>3, EntryParts
  <2>6. Collecting'
    BY <2>1, <2>2, <2>3
  <2>7. Scanning'
    <3>1. gdPc = "delete" => resources'[gdSub][gdKey] = resources[gdSub][gdKey]
      <4> SUFFICES ASSUME gdPc = "delete"
                   PROVE  resources'[gdSub][gdKey] = resources[gdSub][gdKey]
        OBVIOUS
      <4>1. resources[gdSub][gdKey].subscribed
        OBVIOUS
      <4>2. Found(e) => ~resources[e[1]][e[2]].subscribed
        BY <2>1
      <4>3. Found(e) => ~(gdSub = e[1] /\ gdKey = e[2])
        BY <4>1, <4>2
      <4> QED
        BY <2>1, <2>3, <4>3
    <3> QED
      BY <2>1, <2>2, <2>3, <3>1
  <2>8. SubscribedOnce'
    BY <2>1, <2>2, <2>3
  <2>9. SubscribedAtRemote'
    BY <2>1, <2>2, <2>3, EntryParts
  <2>10. AcceptedKept'
    BY <2>2
  <2> QED
    BY <2>4, <2>5, <2>6, <2>7, <2>8, <2>9, <2>10
<1> QED
  BY <1>1, <1>2, <1>3, <1>4, <1>5 DEF Subscriber

\* A deleted resource is subscribed, so it is not in flight; a restart is
\* noted and the subscriptions cancelled in two steps of the guardian.
LEMMA GuardianRest ==
  ASSUME TypeOK, TypeOK', Rest, Guardian
  PROVE  Rest'
<1> USE DEF Rest, IdsCreated, Starts, InFlightOpen, Collecting, Scanning,
            SubscribedOnce, InFlightKept, SubscribedAtRemote, AcceptedKept,
            Excused, Found, Keys, subVars, statusVars, rmVars, coVars, sbVars
<1>1. CASE GuardianCheck
  BY <1>1 DEF GuardianCheck, TypeOK
<1>2. CASE GuardianApply
  BY <1>2 DEF GuardianApply, GuardianUp, Restarted, TypeOK
<1>3. CASE GuardianCancel
  BY <1>3 DEF GuardianCancel, TypeOK
<1>4. CASE GuardianList
  BY <1>4 DEF GuardianList
<1>5. CASE GuardianDelete
  BY <1>5, DeletePoint, EntryParts DEF GuardianDelete, TypeOK
<1>6. CASE GuardianLength
  BY <1>6 DEF GuardianLength
<1>7. CASE GuardianRemove
  BY <1>7 DEF GuardianRemove
<1>8. CASE GuardianDone
  BY <1>8 DEF GuardianDone
<1>9. ASSUME NEW sub \in Ids, GuardianCopy(sub) PROVE Rest'
  BY <1>9 DEF GuardianCopy
<1>10. ASSUME NEW sa \in StopAreas, GuardianKey(sa) PROVE Rest'
  BY <1>10 DEF GuardianKey, Terminated, TypeOK
<1> QED
  BY <1>1, <1>2, <1>3, <1>4, <1>5, <1>6, <1>7, <1>8, <1>9, <1>10 DEF Guardian

\* A restart makes the start times differ; only subscriptions Ara has
\* forgotten are cancelled at the server.
LEMMA PartnerRest ==
  ASSUME TypeOK, TypeOK', Rest, Partner \/ \E e \in Entry : Lapse(e)
  PROVE  Rest'
<1> USE DEF Rest, IdsCreated, Starts, InFlightOpen, Collecting, Scanning,
            SubscribedOnce, InFlightKept, SubscribedAtRemote, AcceptedKept,
            Excused, Found, Keys, subVars, statusVars, rmVars, coVars, sbVars,
            gdVars
<1>1. CASE RemoteRestart
  BY <1>1 DEF RemoteRestart, TypeOK
<1>2. CASE RemoteOutage
  BY <1>2 DEF RemoteOutage, TypeOK
<1>3. CASE RemoteBack
  BY <1>3 DEF RemoteBack
<1>4. ASSUME NEW sub \in Ids, NEW told \in BOOLEAN, RemoteEnd(sub, told)
      PROVE  Rest'
  BY <1>4, EntryParts DEF RemoteEnd, Of, TypeOK
<1>5. ASSUME NEW sub \in Ids, HandleTerminated(sub) PROVE Rest'
  BY <1>5 DEF HandleTerminated
<1>6. ASSUME NEW e \in Entry, HandleNotify(e) PROVE Rest'
  BY <1>6 DEF HandleNotify
<1>7. ASSUME NEW sub \in Ids, NEW ok \in BOOLEAN, CancelSubscription(sub, ok)
      PROVE  Rest'
  BY <1>7 DEF CancelSubscription, Of, TypeOK
<1>8. ASSUME NEW e \in Entry, Lapse(e) PROVE Rest'
  BY <1>8, LapsePoint, LapsedOnlyRest DEF Lapse
<1> QED
  BY <1>1, <1>2, <1>3, <1>4, <1>5, <1>6, <1>7, <1>8 DEF Partner

-----------------------------------------------------------------------------
(* The invariant is inductive, and what follows from it.                   *)

\* A stuttering step.
LEMMA StutterRest ==
  ASSUME TypeOK, Rest, UNCHANGED vars
  PROVE  TypeOK' /\ Rest'
<1> USE DEF vars, subVars, statusVars, rmVars, coVars, sbVars, gdVars
<1>1. TypeOK'
  BY DEF TypeOK
<1>2. Rest'
  BY DEF Rest, IdsCreated, Starts, InFlightOpen, Collecting, Scanning,
         SubscribedOnce, InFlightKept, SubscribedAtRemote, AcceptedKept,
         Excused, Found, Keys
<1> QED
  BY <1>1, <1>2

\* Every step keeps the invariant.
LEMMA NextInv == IInv /\ [Next]_vars => IInv'
<1> SUFFICES ASSUME TypeOK, Rest, [Next]_vars PROVE TypeOK' /\ Rest'
  BY DEF IInv, Rest
<1>1. CASE Collector \/ \E sa \in StopAreas : CollectStart(sa)
  BY <1>1, CollectorTypeOK, CollectorRest
<1>2. CASE Subscriber
  BY <1>2, SubscriberTypeOK, SubscriberRest DEF Rest
<1>3. CASE Guardian
  BY <1>3, GuardianTypeOK, GuardianRest
<1>4. CASE Partner \/ \E e \in Entry : Lapse(e)
  BY <1>4, PartnerTypeOK, PartnerRest DEF Rest
<1>5. CASE UNCHANGED vars
  BY <1>5, StutterRest
<1> QED
  BY <1>1, <1>2, <1>3, <1>4, <1>5 DEF Next

\* The inductive invariant holds in every state of the collect, the
\* subscriber loop, the guardian and the partner's server interleaved.
THEOREM Invariance == Spec => []IInv
BY InitInv, NextInv, PTL DEF Spec

\* A subscription that is registered was created, a retry count is never
\* incremented past MaxRetry + 1, and the guardian and the collect hold what
\* their step needs.
THEOREM TypeCorrect == Spec => []TypeOK
<1>1. IInv => TypeOK
  BY DEF IInv
<1> QED
  BY <1>1, Invariance, PTL

\* A stop area never has a resource in two subscriptions of the partner:
\* RequestStopAreaUpdate does not subscribe twice, though its search and its
\* creation are two steps.
THEOREM NeverSubscribedTwice == Spec => []SubscribedOnce
<1>1. IInv => SubscribedOnce
  BY DEF IInv
<1> QED
  BY <1>1, Invariance, PTL

\* checkSubscriptionsTerminatedTime never deletes a resource whose
\* SubscriptionRequest is in flight.
THEOREM InFlightNeverDeleted == Spec => []InFlightKept
<1>1. IInv => InFlightKept
  BY DEF IInv
<1> QED
  BY <1>1, Invariance, PTL

\* A resource has SubscribedAt set only when the server has the subscription,
\* unless it has restarted or ended it.
THEOREM NeverWronglySubscribed == Spec => []SubscribedAtRemote
<1>1. IInv => SubscribedAtRemote
  BY DEF IInv
<1> QED
  BY <1>1, Invariance, PTL

-----------------------------------------------------------------------------
(* With subscriptions.maximum_resources = 1, a subscription is about one    *)
(* stop area: its resource, its requests, what the server has of it.       *)

Paired(s, a) ==
  \/ resources[s][a] # None
  \/ <<s, a>> \in rmSubs \cup sbEntries
  \/ coPc = "add" /\ s \in coTodo /\ a = coStopArea

OneStopArea ==
  \A s \in Ids : \A a, b \in StopAreas : Paired(s, a) /\ Paired(s, b) => a = b

\* Only CollectCreate gives a stop area to a subscription.
LEMMA PairedBefore ==
  ASSUME IInv, [Next]_vars, \A sub \in Ids : ~CollectCreate(sub),
         NEW s \in Ids, NEW a \in StopAreas, Paired(s, a)'
  PROVE  Paired(s, a)
<1> USE DEF Paired, subVars, statusVars, rmVars, coVars, sbVars, gdVars
<1>0. TypeOK /\ InFlightOpen
  BY DEF IInv
<1>1. ASSUME NEW sa \in StopAreas, CollectStart(sa) PROVE Paired(s, a)
  BY <1>1 DEF CollectStart
<1>2. CASE CollectFind
  BY <1>2 DEF CollectFind
<1>3. CASE CollectRenewed
  BY <1>3 DEF CollectRenewed, CollectEnd
<1>4. ASSUME NEW sub \in Ids, CollectRenew(sub) PROVE Paired(s, a)
  BY <1>0, <1>4, RenewPoint DEF CollectRenew
<1>5. ASSUME NEW sub \in Ids, CollectAdd(sub) PROVE Paired(s, a)
  BY <1>0, <1>5, AddPoint DEF CollectAdd, CollectEnd
<1>6. CASE SubscriberTick
  BY <1>6 DEF SubscriberTick, ToRequest, Keys
<1>7. CASE SubscriberDone
  BY <1>7 DEF SubscriberDone
<1>8. ASSUME NEW accepted \in SUBSET sbEntries,
             NEW refused \in SUBSET sbEntries,
             SubscriberRequest(accepted, refused)
      PROVE  Paired(s, a)
  BY <1>8 DEF SubscriberRequest
<1>9. ASSUME NEW accepted \in SUBSET sbEntries, SubscriberError(accepted)
      PROVE  Paired(s, a)
  BY <1>9 DEF SubscriberError
<1>10. ASSUME NEW e \in Entry, SubscriberAnswer(e) \/ SubscriberRetry(e)
       PROVE  Paired(s, a)
  BY <1>0, <1>10, AnswerPoint DEF SubscriberAnswer, SubscriberRetry
<1>11. CASE Guardian
  <2>1. CASE GuardianDelete
    BY <1>0, <2>1, DeletePoint DEF GuardianDelete
  <2>2. CASE ~GuardianDelete
    BY <1>11, <2>2 DEF Guardian, GuardianCheck, GuardianApply,
       GuardianCancel, GuardianList, GuardianLength, GuardianRemove,
       GuardianDone, GuardianCopy, GuardianKey
  <2> QED
    BY <2>1, <2>2
<1>12. CASE Partner
  BY <1>12 DEF Partner, RemoteRestart, RemoteOutage, RemoteBack, RemoteEnd,
     HandleTerminated, HandleNotify, CancelSubscription
<1>13. ASSUME NEW e \in Entry, Lapse(e) PROVE Paired(s, a)
  BY <1>0, <1>13, LapsePoint DEF Lapse
<1>14. CASE UNCHANGED vars
  BY <1>14 DEF vars
<1> QED
  BY <1>1, <1>2, <1>3, <1>4, <1>5, <1>6, <1>7, <1>8, <1>9, <1>10, <1>11, <1>12,
     <1>13, <1>14 DEF Next, Collector, Subscriber

\* A new subscription has had no stop area before.
LEMMA OneStopAreaStep ==
  ASSUME MaxResources = 1, IInv, OneStopArea, [Next]_vars
  PROVE  OneStopArea'
<1>1. CASE \A sub \in Ids : ~CollectCreate(sub)
  BY <1>1, PairedBefore DEF OneStopArea
<1>2. ASSUME NEW sub \in Ids, CollectCreate(sub) PROVE OneStopArea'
  <2>1. /\ sub \notin created /\ coTodo' = {sub} /\ coPc' = "add"
        /\ coPc = "create"
        /\ UNCHANGED <<resources, rmSubs, sbEntries, coStopArea>>
    BY <1>2 DEF CollectCreate, WithRoom, rmVars, sbVars
  <2>2. \A a \in StopAreas : ~Paired(sub, a)
    BY <2>1 DEF IInv, IdsCreated, Paired
  <2>3. \A s \in Ids, a \in StopAreas :
          Paired(s, a)' => Paired(s, a) \/ (s = sub /\ a = coStopArea)
    BY <2>1 DEF Paired
  <2> QED
    BY <2>2, <2>3 DEF OneStopArea
<1> QED
  BY <1>1, <1>2

\* The only key of a subscription is the stop area it was asked for.
LEMMA NoFalseParentStep ==
  ASSUME IInv, OneStopArea, NoFalseParent, [Next]_vars
  PROVE  NoFalseParent'
<1>1. ASSUME NEW e \in Entry, HandleNotify(e) PROVE NoFalseParent'
  <2>1. e[1] \in Ids /\ e[2] \in StopAreas /\ <<e[1], e[2]>> \in rmSubs
    BY <1>1, EntryParts DEF HandleNotify
  <2>2. Origin(e[1], e[2]) = e[2]
    <3>1. Paired(e[1], e[2])
      BY <2>1 DEF Paired
    <3>2. \A k \in Keys(e[1]) : k \in StopAreas /\ Paired(e[1], k)
      BY DEF Keys, Paired
    <3>3. Origin(e[1], e[2]) # e[2] => Origin(e[1], e[2]) \in Keys(e[1])
      BY <2>1, OriginType
    <3> QED
      BY <2>1, <3>1, <3>2, <3>3 DEF OneStopArea
  <2> QED
    BY <1>1, <2>2 DEF HandleNotify, NoFalseParent, IInv, TypeOK
<1>2. CASE UNCHANGED parent
  BY <1>2 DEF NoFalseParent
<1>3. \/ \E e \in Entry : HandleNotify(e)
      \/ UNCHANGED parent
  BY DEF Next, Collector, Subscriber, Guardian, Partner, CollectStart,
     CollectFind, CollectRenewed, CollectRenew, CollectCreate, CollectAdd,
     SubscriberTick, SubscriberDone, SubscriberRequest, SubscriberError,
     SubscriberAnswer, SubscriberRetry, GuardianCheck, GuardianApply,
     GuardianCancel, GuardianList, GuardianDelete, GuardianLength,
     GuardianRemove, GuardianDone, GuardianCopy, GuardianKey, RemoteRestart,
     RemoteOutage, RemoteBack, RemoteEnd, HandleTerminated,
     CancelSubscription, Lapse, vars
<1> QED
  BY <1>1, <1>2, <1>3

\* When each stop area has a subscription of its own, a notified stop area is
\* never made the child of another one, whatever late notifications of
\* subscriptions Ara has forgotten arrive.
THEOREM NoFalseParentAlone ==
  ASSUME MaxResources = 1
  PROVE  Spec => []NoFalseParent
<1>1. Init => OneStopArea /\ NoFalseParent
  BY DEF Init, OneStopArea, Paired, NoFalseParent, NoResources
<1>2. IInv /\ OneStopArea /\ NoFalseParent /\ [Next]_vars
        => OneStopArea' /\ NoFalseParent'
  BY OneStopAreaStep, NoFalseParentStep
<1> QED
  BY <1>1, <1>2, Invariance, PTL DEF Spec
=============================================================================
