------------------------------ MODULE GMCollect ------------------------------
(***************************************************************************)
(* Which partners Ara subscribes to for the GeneralMessages of a line or a  *)
(* stop area, or for all of them, and for how long:                        *)
(*                                                                         *)
(*   ModelGuardian --> CollectManager.UpdateSituation --> the resource of   *)
(*     a partner's GeneralMessageCollect subscription, by priority          *)
(*   GMSubscriber of each partner (every 5 s): SubscriptionRequest          *)
(*   PartnersGuardian (every 30 s): status, cancels and expires             *)
(*                                                                         *)
(* The subscriptions are the ones of CollectSubscriptions, where their      *)
(* registry is modelled in detail; here a partner has one.  A partner with  *)
(* only a request collector has no resources: its answers are in            *)
(* Situations.                                                             *)
(***************************************************************************)
EXTENDS Integers, Sequences

CONSTANTS
  GcPriority,   \* the partners, FindAllByCollectPriority
  GcRequested,  \* lines and stop areas whose CollectGeneralMessages is set
  GcAll,        \* the request for all situations
  GcNone,       \* no resource
  GcFilters,    \* partners with collect.filter_general_messages
  GcSubscribes, \* partners with a GeneralMessageSubscriptionCollector
  GcAnswers,    \* partners with a GeneralMessageRequestCollector
  GcPersistent, \* partners with collect.subscriptions.persistent
  GcCollects,   \* [partner -> what CanCollectLine and CanCollect accept]
  GcMaxRetry    \* a resource is requested while RetryCount <= GcMaxRetry

GcPartners == {GcPriority[i] : i \in DOMAIN GcPriority}
GcResource == [subscribed : BOOLEAN, lapsed : BOOLEAN, retry : 0..GcMaxRetry + 1]

ASSUME GcAssumption ==
  /\ \A i, j \in DOMAIN GcPriority : GcPriority[i] = GcPriority[j] => i = j
  /\ GcAll \notin GcRequested
  /\ GcNone \notin GcResource \cup GcRequested \cup {GcAll}
  /\ GcMaxRetry \in Nat
  /\ GcCollects \in [GcPartners -> SUBSET GcRequested]

VARIABLES
  gcUp,        \* [GcPartners -> PartnerStatus is UP]
  gcResources, \* [GcPartners -> [objects -> GcResource or GcNone]]
  gcAsked      \* [GcPartners -> resourcesToRequest of the request under way,
               \* GcNone instead of those of a cancelled subscription]

gcVars == <<gcUp, gcResources, gcAsked>>

GcObjects == GcRequested \cup {GcAll}
GcNoResources == [o \in GcObjects |-> GcNone]
GcNew == [subscribed |-> FALSE, lapsed |-> FALSE, retry |-> 0]

GcInit ==
  /\ gcUp = [p \in GcPartners |-> FALSE]
  /\ gcResources = [p \in GcPartners |-> GcNoResources]
  /\ gcAsked = [p \in GcPartners |-> {}]

-----------------------------------------------------------------------------
(* The model guardian: refreshLines, refreshStopAreas, requestSituations.  *)

\* up, of the filter setting, with a connector
Available(p, filters) ==
  gcUp[p] /\ (p \in GcFilters) = filters /\ p \in GcSubscribes \cup GcAnswers

\* requestAllSituations: every partner that does not filter
RequestAllSituations == {p \in GcPartners : Available(p, FALSE)}

\* who a filtered request may go to
CanCollect(p, o) == Available(p, TRUE) /\ o \in GcCollects[p]

RequestEveryone(o) == {p \in GcPartners : CanCollect(p, o)} \* mutant

\* requestLineFilteredSituation, requestStopAreaFilteredSituation: the first
RequestFilteredSituation(o) ==
  {GcPriority[i] : i \in {j \in DOMAIN GcPriority :
     /\ CanCollect(GcPriority[j], o)
     /\ \A k \in 1..j - 1 : ~CanCollect(GcPriority[k], o)}}

\* RequestSituationUpdate: a resource that is there has its SubscribedUntil put
\* off once it is subscribed; else it is created
RequestSituationUpdate(r) ==
  IF r = GcNone THEN GcNew ELSE [r EXCEPT !.lapsed = @ /\ ~r.subscribed]

UpdateSituation(o, partners) ==
  /\ gcResources' = [p \in GcPartners |->
       IF p \in partners \cap GcSubscribes
       THEN [gcResources[p] EXCEPT ![o] = RequestSituationUpdate(@)]
       ELSE gcResources[p]]
  /\ UNCHANGED <<gcUp, gcAsked>>

RequestSituations == UpdateSituation(GcAll, RequestAllSituations)
RefreshLine(o) == UpdateSituation(o, RequestFilteredSituation(o))

\* two minutes without it
GcLapse(p, o) ==
  /\ gcResources[p][o] # GcNone /\ ~gcResources[p][o].lapsed
  /\ gcResources' = [gcResources EXCEPT ![p][o].lapsed = TRUE]
  /\ UNCHANGED <<gcUp, gcAsked>>

-----------------------------------------------------------------------------
(* The subscriber: prepareSIRIGeneralMessageSubscriptionRequest.           *)

GcToRequest(p) ==
  {o \in GcObjects : /\ gcResources[p][o] # GcNone
                     /\ ~gcResources[p][o].subscribed
                     /\ gcResources[p][o].retry <= GcMaxRetry}

GcPrepare(p) ==
  /\ gcAsked[p] = {} /\ GcToRequest(p) # {}
  /\ gcAsked' = [gcAsked EXCEPT ![p] = GcToRequest(p)]
  /\ UNCHANGED <<gcUp, gcResources>>

\* some are accepted; the others are refused, without a status or, when the
\* request failed, all of them: RetryCount++.  A resource gone since is skipped
GcAnswered(p, accepted) ==
  /\ gcAsked[p] # {} /\ accepted \subseteq gcAsked[p]
  /\ gcResources' = [gcResources EXCEPT ![p] = [o \in GcObjects |->
       CASE o \notin gcAsked[p] \/ @[o] = GcNone -> @[o]
         [] o \in accepted -> [@[o] EXCEPT !.subscribed = TRUE, !.retry = 0]
         [] OTHER -> [@[o] EXCEPT !.retry = @ + 1]]]
  /\ gcAsked' = [gcAsked EXCEPT ![p] = {}]
  /\ UNCHANGED gcUp

-----------------------------------------------------------------------------
(* The partners guardian.                                                  *)

\* CancelSubscriptions, CancelCollectSubscriptions: the answer to a request
\* under way will not find them, whatever is created meanwhile
GcCancel(p) ==
  /\ gcResources' = [gcResources EXCEPT ![p] = GcNoResources]
  /\ gcAsked' = [gcAsked EXCEPT ![p] = IF @ = {} THEN {} ELSE {GcNone}]

\* checkPartnerStatus: a partner that restarted has its subscriptions
\* cancelled, and one that is down unless they are persistent; one that is up
\* again without a restart keeps them
GcStatus(p, up, restarted) ==
  /\ restarted => up
  /\ restarted \/ up # gcUp[p]
  /\ gcUp' = [gcUp EXCEPT ![p] = up]
  /\ IF restarted \/ (~up /\ p \notin GcPersistent)
     THEN GcCancel(p)
     ELSE UNCHANGED <<gcResources, gcAsked>>

\* checkSubscriptionsTerminatedTime
GcTerminated(r) == r # GcNone /\ r.lapsed /\ r.subscribed

GcExpire(p) ==
  /\ gcUp[p] \/ p \in GcPersistent
  /\ \E o \in GcObjects : GcTerminated(gcResources[p][o])
  /\ gcResources' = [gcResources EXCEPT ![p] = [o \in GcObjects |->
       IF GcTerminated(@[o]) THEN GcNone ELSE @[o]]]
  /\ UNCHANGED <<gcUp, gcAsked>>

-----------------------------------------------------------------------------
GcNext ==
  \/ RequestSituations
  \/ \E o \in GcRequested : RefreshLine(o)
  \/ \E p \in GcPartners :
       \/ GcPrepare(p) \/ GcExpire(p)
       \/ \E o \in GcObjects : GcLapse(p, o)
       \/ \E accepted \in SUBSET gcAsked[p] : GcAnswered(p, accepted)
       \/ \E up, restarted \in BOOLEAN : GcStatus(p, up, restarted)

\* time passes, the loops go on; requests are answered or time out
GcFairness ==
  \A p \in GcPartners :
    /\ WF_gcVars(GcPrepare(p)) /\ WF_gcVars(GcExpire(p))
    /\ WF_gcVars(\E accepted \in SUBSET gcAsked[p] : GcAnswered(p, accepted))
    /\ \A o \in GcObjects : WF_gcVars(GcLapse(p, o))

GcSpec == GcInit /\ [][GcNext]_gcVars /\ GcFairness

-----------------------------------------------------------------------------
GcSubscribed(p, o) == gcResources[p][o] # GcNone /\ gcResources[p][o].subscribed

\* When a partner stays available for a line from some time on, the partners
\* after it in the order of priority end up without a subscription for it, for
\* good: what UpdateSituation does not renew is not subscribed for ever,
\* whatever was requested while the first partner was down.
GcHandedOver ==
  \A i \in DOMAIN GcPriority, o \in GcRequested :
    <>[]CanCollect(GcPriority[i], o) =>
      \A j \in i + 1..Len(GcPriority) : <>[]~GcSubscribed(GcPriority[j], o)
=============================================================================
