------------------------- MODULE BroadcastRegistry -------------------------
(***************************************************************************)
(* The subscriptions of one partner, MemorySubscriptions, as the requests   *)
(* of the partner, its cancellations, the API and the partners guardian     *)
(* change them.  A subscription is an object that its creator goes on       *)
(* filling after New has registered it: its ExternalId, its resources and a *)
(* last Save come later, each under a lock of its own.                      *)
(*                                                                         *)
(* The handlers of HTTP requests, RgThreads, and the guardian are           *)
(* concurrent.  A request has one entry: the entries of a request are       *)
(* handled like requests that follow one another.  A subscription has       *)
(* resources or has none; which ones matters to the broadcasters, see       *)
(* SMBroadcast, ETBroadcast and GMBroadcast.                               *)
(***************************************************************************)
EXTENDS Integers

CONSTANTS
  RgThreads,   \* handlers of HTTP requests
  RgExts,      \* SubscriptionIdentifiers the partner chooses
  RgIds,       \* ids Ara chooses (bound: subscriptions ever created)
  RgNone,      \* no subscription, no ExternalId
  RgConnectors,       \* the subscription broadcasters the partner has
  RgMaxRequests,      \* bound: requests, cancellations and API calls
  RgMaxVisits         \* bound: visits of the guardian

RgKinds == {"StopMonitoringBroadcast", "EstimatedTimeTableBroadcast",
            "GeneralMessageBroadcast"}
RgSubscription == [kind : RgKinds \cup {"StopMonitoringCollect"},
                   ext : RgExts \cup {RgNone}, resources : BOOLEAN]

ASSUME RgAssumption ==
  /\ RgNone \notin RgExts \cup RgIds \cup RgSubscription
  /\ RgConnectors \subseteq RgKinds
  /\ RgMaxRequests \in Nat /\ RgMaxVisits \in Nat

VARIABLES
  rgSubs,       \* [RgIds -> RgSubscription, or RgNone before New]
  rgRegistered, \* byIdentifier
  rgPc,         \* [RgThreads -> what the handler does next]
  rgKind, rgExt, rgSub, \* [RgThreads -> what it handles]
  rgRequests, rgVisits, \* counters of the bounds
  rgGdPc, rgGdTodo, rgGdSub, \* the guardian
  \* history
  rgAnswered,   \* <<ext, kind>> answered with Status true, not ended since
  rgEnded,      \* [RgThreads -> its subscription was ended meanwhile]
  rgSwept,      \* deleted as empty by the guardian, although not empty by then
  rgOverlapped  \* requests for these ExternalIds were handled concurrently

rgSubVars == <<rgSubs, rgRegistered>>
rgGdVars == <<rgVisits, rgGdPc, rgGdTodo, rgGdSub>>
rgVars == <<rgSubVars, rgPc, rgKind, rgExt, rgSub, rgRequests, rgGdVars,
            rgAnswered, rgEnded, rgSwept, rgOverlapped>>

RgInit ==
  /\ rgSubs = [s \in RgIds |-> RgNone] /\ rgRegistered = {}
  /\ rgPc = [t \in RgThreads |-> "idle"]
  /\ rgKind = [t \in RgThreads |-> RgNone]
  /\ rgExt = [t \in RgThreads |-> RgNone]
  /\ rgSub = [t \in RgThreads |-> RgNone]
  /\ rgRequests = 0 /\ rgVisits = 0
  /\ rgGdPc = "idle" /\ rgGdTodo = {} /\ rgGdSub = RgNone
  /\ rgAnswered = {} /\ rgEnded = [t \in RgThreads |-> FALSE]
  /\ rgSwept = {} /\ rgOverlapped = {}

RgFindByExternalIdKind(e, k) ==
  {s \in rgRegistered : rgSubs[s].ext = e /\ rgSubs[s].kind = k} \* mutant

\* FindByExternalId: a map is searched, any of them may be returned; the kind
\* is not looked at
FindByExternalId(e, k) == {s \in rgRegistered : rgSubs[s].ext = e}

FindBroadcast == {s \in rgRegistered : rgSubs[s].ext # RgNone}

\* the ids S leave the registry, which ends what was answered for them
Ends(S) ==
  /\ rgRegistered' = rgRegistered \ S
  /\ rgAnswered' = {a \in rgAnswered : \A s \in S : rgSubs[s].ext # a[1]}
  /\ rgEnded' = [t \in RgThreads |-> rgEnded[t] \/ rgSub[t] \in S]

-----------------------------------------------------------------------------
(* SIRISubscriptionRequestDispatcher.Dispatch and the HandleSubscription-   *)
(* Request of the broadcasters.                                            *)

\* a connector of that kind, and a stop area or lines that are known
Dispatch(t, k, e) ==
  /\ rgPc[t] = "idle" /\ rgRequests < RgMaxRequests /\ k \in RgConnectors
  /\ rgRequests' = rgRequests + 1
  /\ rgPc' = [rgPc EXCEPT ![t] = "find"]
  /\ rgKind' = [rgKind EXCEPT ![t] = k] /\ rgExt' = [rgExt EXCEPT ![t] = e]
  /\ rgEnded' = [rgEnded EXCEPT ![t] = FALSE]
  /\ rgOverlapped' = rgOverlapped \cup {x \in {e} : \E u \in RgThreads : rgExt[u] = x}
  /\ UNCHANGED <<rgSubVars, rgSub, rgGdVars, rgAnswered, rgSwept>>

RequestFind(t) ==
  /\ rgPc[t] = "find"
  /\ LET found == FindByExternalId(rgExt[t], rgKind[t]) IN
     \/ \E s \in found : /\ rgSub' = [rgSub EXCEPT ![t] = s]
                         /\ rgPc' = [rgPc EXCEPT ![t] = "fill"]
     \/ found = {} /\ rgPc' = [rgPc EXCEPT ![t] = "new"] /\ UNCHANGED rgSub
  /\ UNCHANGED <<rgSubVars, rgKind, rgExt, rgRequests, rgGdVars, rgAnswered,
                 rgEnded, rgSwept, rgOverlapped>>

\* MemorySubscriptions.New: a subscription of that kind is registered at once
RgNew(s, k, resources) ==
  /\ rgSubs[s] = RgNone
  /\ rgSubs' = [rgSubs EXCEPT ![s] =
       [kind |-> k, ext |-> RgNone, resources |-> resources]]
  /\ rgRegistered' = rgRegistered \cup {s}

RequestNew(t, s) ==
  /\ rgPc[t] = "new" /\ RgNew(s, rgKind[t], FALSE)
  /\ rgSub' = [rgSub EXCEPT ![t] = s]
  /\ rgPc' = [rgPc EXCEPT ![t] = "externalId"]
  /\ UNCHANGED <<rgKind, rgExt, rgRequests, rgGdVars, rgAnswered, rgEnded,
                 rgSwept, rgOverlapped>>

SetExternalId(t) ==
  /\ rgPc[t] = "externalId"
  /\ rgSubs' = [rgSubs EXCEPT ![rgSub[t]].ext = rgExt[t]]
  /\ rgPc' = [rgPc EXCEPT ![t] = "fill"]
  /\ UNCHANGED <<rgRegistered, rgKind, rgExt, rgSub, rgRequests, rgGdVars,
                 rgAnswered, rgEnded, rgSwept, rgOverlapped>>

\* CreateAddNewResource, AddNewResource
AddNewResource(t) ==
  /\ rgPc[t] = "fill"
  /\ rgSubs' = [rgSubs EXCEPT ![rgSub[t]].resources = TRUE]
  /\ rgPc' = [rgPc EXCEPT ![t] = "answer"]
  /\ UNCHANGED <<rgRegistered, rgKind, rgExt, rgSub, rgRequests, rgGdVars,
                 rgAnswered, rgEnded, rgSwept, rgOverlapped>>

SavedAtEndNever(t) == {} \* mutant

\* sub.Save() of the EstimatedTimetable and GeneralMessage broadcasters; the
\* StopMonitoring broadcaster does not save
SavedAtEnd(t) ==
  IF rgKind[t] = "StopMonitoringBroadcast" THEN {} ELSE {rgSub[t]}

\* the answer: Status is true
RequestAnswer(t) ==
  /\ rgPc[t] = "answer"
  /\ rgRegistered' = rgRegistered \cup SavedAtEnd(t)
  /\ rgSwept' = rgSwept \ SavedAtEnd(t)
  /\ rgAnswered' = IF rgEnded[t] THEN rgAnswered
                   ELSE rgAnswered \cup {<<rgExt[t], rgKind[t]>>}
  /\ rgPc' = [rgPc EXCEPT ![t] = "idle"]
  /\ rgKind' = [rgKind EXCEPT ![t] = RgNone]
  /\ rgExt' = [rgExt EXCEPT ![t] = RgNone]
  /\ rgSub' = [rgSub EXCEPT ![t] = RgNone]
  /\ UNCHANGED <<rgSubs, rgRequests, rgGdVars, rgEnded, rgOverlapped>>

-----------------------------------------------------------------------------
(* The ends of subscriptions, and those of other kinds.                    *)

RgCall ==
  /\ rgRequests < RgMaxRequests /\ rgRequests' = rgRequests + 1
  /\ UNCHANGED <<rgPc, rgKind, rgExt, rgSub, rgGdVars, rgSwept, rgOverlapped>>

\* CancelSubscription of one that is found
CancelSubscription(e) ==
  /\ RgCall
  /\ \E s \in FindByExternalId(e, RgNone) : Ends({s})
  /\ UNCHANGED rgSubs

\* CancelSubscription of all: CancelBroadcastSubscriptions
CancelAll == RgCall /\ Ends(FindBroadcast) /\ UNCHANGED rgSubs

\* HandleSubscriptionTerminatedNotification, HandleNotifySubscriptionTerminated
\* and the API's subscriptionsDelete: DeleteById
DeleteById(s) == RgCall /\ s \in rgRegistered /\ Ends({s}) /\ UNCHANGED rgSubs

\* subscriptionsCreate of the API: a kind, no ExternalId; references without
\* an ObjectId make no resources
SubscriptionsCreate(s, k, resources) ==
  /\ RgCall /\ RgNew(s, k, resources)
  /\ UNCHANGED <<rgAnswered, rgEnded>>

-----------------------------------------------------------------------------
(* The partners guardian: checkPartnerStatus, then, unless it cancelled     *)
(* everything, checkSubscriptionsTerminatedTime.                           *)

RgGuardian == UNCHANGED <<rgPc, rgKind, rgExt, rgSub, rgRequests, rgOverlapped>>

RgVisit ==
  /\ rgGdPc = "idle" /\ rgVisits < RgMaxVisits /\ rgVisits' = rgVisits + 1
  /\ RgGuardian /\ UNCHANGED <<rgSubs, rgGdTodo, rgGdSub, rgSwept>>

\* the partner has restarted: CancelSubscriptions
VisitRestarted == RgVisit /\ Ends(rgRegistered) /\ UNCHANGED rgGdPc

\* it is down: CancelCollectSubscriptions takes what has no ExternalId, also
\* what is still to get one, unless collect subscriptions are persistent
VisitDownCollect ==
  /\ RgVisit
  /\ rgRegistered' = FindBroadcast
  /\ rgGdPc' = "broadcast"
  /\ UNCHANGED <<rgAnswered, rgEnded>>

\* then CancelBroadcastSubscriptions, unless they are persistent
VisitDownBroadcast ==
  /\ rgGdPc = "broadcast"
  /\ Ends(FindBroadcast)
  /\ rgGdPc' = "idle"
  /\ RgGuardian /\ UNCHANGED <<rgSubs, rgVisits, rgGdTodo, rgGdSub, rgSwept>>

\* or only the collect ones are persistent
VisitDownCollectPersistent ==
  /\ RgVisit
  /\ Ends(FindBroadcast)
  /\ rgGdPc' = "list"

RgList == rgGdTodo' = rgRegistered /\ rgGdPc' = "scan"

\* one of the two settings is true
VisitDownPersistent ==
  /\ rgGdPc \in {"broadcast", "list"} /\ RgList
  /\ RgGuardian
  /\ UNCHANGED <<rgSubVars, rgVisits, rgGdSub, rgAnswered, rgEnded, rgSwept>>

VisitUp ==
  /\ rgGdPc = "idle" /\ rgVisits < RgMaxVisits /\ rgVisits' = rgVisits + 1
  /\ RgList /\ RgGuardian
  /\ UNCHANGED <<rgSubVars, rgGdSub, rgAnswered, rgEnded, rgSwept>>

\* the resources of one subscription: all past their SubscribedUntil or not
VisitResources(s, expired) ==
  /\ rgGdPc = "scan" /\ s \in rgGdTodo
  /\ expired => rgSubs[s].resources
  /\ rgGdTodo' = rgGdTodo \ {s}
  /\ rgSubs' = [rgSubs EXCEPT ![s].resources = @ /\ ~expired]
  /\ rgGdSub' = IF rgSubs'[s].resources THEN RgNone ELSE s
  /\ rgGdPc' = IF rgSubs'[s].resources THEN "scan" ELSE "delete"
  /\ IF expired
     THEN /\ rgAnswered' = {a \in rgAnswered : a[1] # rgSubs[s].ext}
          /\ rgEnded' = [t \in RgThreads |-> rgEnded[t] \/ rgSub[t] = s]
     ELSE UNCHANGED <<rgAnswered, rgEnded>>
  /\ RgGuardian /\ UNCHANGED <<rgRegistered, rgVisits, rgSwept>>

\* sub.Delete(), of one that had no resources
VisitDelete ==
  /\ rgGdPc = "delete"
  /\ rgRegistered' = rgRegistered \ {rgGdSub}
  /\ rgSwept' = rgSwept \cup {s \in {rgGdSub} : rgSubs[s].resources}
  /\ rgGdSub' = RgNone /\ rgGdPc' = "scan"
  /\ RgGuardian
  /\ UNCHANGED <<rgSubs, rgVisits, rgGdTodo, rgAnswered, rgEnded>>

VisitDone ==
  /\ rgGdPc = "scan" /\ rgGdTodo = {} /\ rgGdPc' = "idle"
  /\ RgGuardian
  /\ UNCHANGED <<rgSubVars, rgVisits, rgGdTodo, rgGdSub, rgAnswered, rgEnded,
                 rgSwept>>

-----------------------------------------------------------------------------
RgNext ==
  \/ \E t \in RgThreads :
       \/ \E k \in RgKinds, e \in RgExts : Dispatch(t, k, e)
       \/ RequestFind(t) \/ SetExternalId(t) \/ AddNewResource(t)
       \/ RequestAnswer(t) \/ \E s \in RgIds : RequestNew(t, s)
  \/ \E e \in RgExts : CancelSubscription(e)
  \/ CancelAll
  \/ \E s \in RgIds :
       \/ DeleteById(s)
       \/ \E k \in {"StopMonitoringCollect", "StopMonitoringBroadcast"},
             r \in BOOLEAN : SubscriptionsCreate(s, k, r)
       \/ \E expired \in BOOLEAN : VisitResources(s, expired)
  \/ VisitRestarted \/ VisitDownCollect \/ VisitDownBroadcast
  \/ VisitDownCollectPersistent \/ VisitDownPersistent \/ VisitUp \/ VisitDelete \/ VisitDone

RgSpec == RgInit /\ [][RgNext]_rgVars

-----------------------------------------------------------------------------
RgExtsOf(S) == {rgSubs[s].ext : s \in S}

\* An EstimatedTimetable or GeneralMessage subscription that was answered with
\* Status true and was neither ended nor expired since is registered, whatever
\* the guardian did while it was created, with one exception: the guardian saw
\* it before it had a resource and deletes it after its Save.  The Save at the
\* end of HandleSubscriptionRequest, of a subscription New has registered
\* already, is what this rests on.
RgServed ==
  \A a \in rgAnswered :
    a[2] # "StopMonitoringBroadcast" => a[1] \in RgExtsOf(rgRegistered \cup rgSwept)

\* Requests for a SubscriptionIdentifier that do not overlap share one
\* subscription, whatever their kinds: CancelSubscription, which deletes one,
\* ends them all.
RgUnique ==
  \A r, s \in rgRegistered :
    /\ rgSubs[r].ext = rgSubs[s].ext /\ rgSubs[r].ext \notin rgOverlapped \cup {RgNone}
    => r = s
=============================================================================
