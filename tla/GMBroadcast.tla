---------------------------- MODULE GMBroadcast ----------------------------
(***************************************************************************)
(* GeneralMessage subscriptions: the situations of the model, as messages,  *)
(* to one partner.  A subscription has one resource, "Situation", and       *)
(* filters on the channel and on the lines and stops of a situation, which  *)
(* only the message builder applies.  The last state of a situation is the  *)
(* RecordedAt it had when it was first queued; nothing updates it.          *)
(*                                                                         *)
(* The handler of a request, the broadcast manager, the broadcaster loop    *)
(* and the partners guardian run concurrently.  The event channel is the    *)
(* set of situations with an event in it, see ETBroadcast.                  *)
(***************************************************************************)
EXTENDS Integers, FiniteSets

CONSTANTS
  GmSubs,        \* subscriptions, by the SubscriptionIdentifier of the partner
  GmSituations,  \* ids of situations
  GmSaved,       \* what is saved of them, a subset of GmSituation
  GmFilters,     \* the filters of requests, a subset of GmFilter
  GmLines,       \* lines situations are about, with a code of the partner's
  GmNone,        \* no situation, no last state
  GmMaxRecorded, \* bound: saves of a situation, each recorded later
  GmMaxRequests, \* bound: requests for one subscription
  GmHorizon      \* bound: the clock

\* of another origin than this partner, or its own; lines: the LineRefs that
\* resolve, unresolved ones are left out of a message
GmSituation == [own : BOOLEAN, channel : {"Perturbation", "Commercial"},
                validUntil : 0..GmHorizon, lines : SUBSET GmLines]
GmFilter == [channels : SUBSET {"Perturbation", "Information"},
             lines : SUBSET GmLines]

ASSUME GmAssumption ==
  /\ GmSaved \subseteq GmSituation /\ GmFilters \subseteq GmFilter
  /\ GmNone \notin GmSituation /\ GmNone \notin GmSubs /\ GmNone \notin Nat
  /\ GmMaxRecorded \in Nat /\ GmMaxRequests \in Nat /\ GmHorizon \in Nat

VARIABLES
  gmNow,        \* the clock
  gmSituations, \* [GmSituations -> GmSituation or GmNone]
  gmRecorded,   \* [GmSituations -> RecordedAt]
  gmEvents,     \* the events of the channel
  gmEvent, gmSeen, gmFound, \* the one the broadcast manager handles
  gmUntil,      \* [GmSubs -> SubscribedUntil of its resource, or GmNone]
  gmOptions,    \* [GmSubs -> GmFilter]
  gmLast,       \* [GmSubs -> [GmSituations -> RecordedAt or GmNone]]
  gmPending,    \* [GmSubs -> SUBSET GmSituations], toBroadcast
  gmRequests,   \* [GmSubs -> number of requests]
  gmAdding,     \* [GmSubs -> the copies addSituations has still to queue]
  gmPc, gmBatch, gmSub, gmBuilder, gmTodo, gmMessages, \* the broadcaster loop
  gmKnown,      \* [GmSubs -> [GmSituations -> RecordedAt or GmNone]]
  gmMissed      \* [GmSubs -> SUBSET GmSituations], a notification that failed

gmModelVars == <<gmSituations, gmRecorded>>
gmMgrVars == <<gmEvents, gmEvent, gmSeen, gmFound>>
gmSubVars == <<gmUntil, gmOptions, gmRequests, gmAdding>>
gmLoopVars == <<gmPc, gmBatch, gmSub, gmBuilder, gmTodo, gmMessages>>
gmFeedVars == <<gmKnown, gmMissed>>
gmVars == <<gmNow, gmModelVars, gmMgrVars, gmSubVars, gmLast, gmPending,
            gmLoopVars, gmFeedVars>>

GmNothing == [x \in GmSituations |-> GmNone]
GmNoFilter == [channels |-> {}, lines |-> {}]
GmEmpty == [s \in GmSubs |-> {}]

-----------------------------------------------------------------------------
(* BroadcastGeneralMessageBuilder.                                         *)

CheckInfoChannelRef(f, x) == f.channels = {} \/ x.channel \in f.channels

CheckFilter(f, x) == f.lines = {} \/ f.lines \cap x.lines # {}

\* BuildGeneralMessage: whether a situation makes a message
BuildGeneralMessage(f, x) ==
  /\ ~x.own /\ x.channel # "Commercial" /\ x.validUntil >= gmNow
  /\ CheckInfoChannelRef(f, x) /\ CheckFilter(f, x)
  /\ x.lines # {}

-----------------------------------------------------------------------------
GmInit ==
  /\ gmNow = 0
  /\ gmSituations = GmNothing /\ gmRecorded = [x \in GmSituations |-> 0]
  /\ gmEvents = {} /\ gmEvent = GmNone /\ gmSeen = 0 /\ gmFound = {}
  /\ gmUntil = [s \in GmSubs |-> GmNone]
  /\ gmOptions = [s \in GmSubs |-> GmNoFilter]
  /\ gmLast = [s \in GmSubs |-> GmNothing]
  /\ gmPending = GmEmpty /\ gmAdding = GmEmpty
  /\ gmRequests = [s \in GmSubs |-> 0]
  /\ gmPc = "idle" /\ gmBatch = GmEmpty /\ gmSub = GmNone
  /\ gmBuilder = GmNoFilter /\ gmTodo = {} /\ gmMessages = GmNothing
  /\ gmKnown = [s \in GmSubs |-> GmNothing] /\ gmMissed = GmEmpty

\* MemorySituations.Save, with a later RecordedAt, and its event
GmSave(x, state) ==
  /\ gmRecorded[x] < GmMaxRecorded
  /\ gmRecorded' = [gmRecorded EXCEPT ![x] = @ + 1]
  /\ gmSituations' = [gmSituations EXCEPT ![x] = state]
  /\ gmEvents' = gmEvents \cup {x}
  /\ UNCHANGED <<gmNow, gmEvent, gmSeen, gmFound, gmSubVars, gmLast, gmPending,
                 gmLoopVars, gmFeedVars>>

GmTime ==
  /\ gmNow < GmHorizon
  /\ gmNow' = gmNow + 1
  /\ UNCHANGED <<gmModelVars, gmMgrVars, gmSubVars, gmLast, gmPending,
                 gmLoopVars, gmFeedVars>>

-----------------------------------------------------------------------------
(* HandleSubscriptionRequest, and the guardian.                            *)

\* a subscription found by its identifier or created; its options are set, its
\* resource created if there is none, and the situations of the model found
GmHandleSubscriptionRequest(s, f, until) ==
  /\ gmRequests[s] < GmMaxRequests /\ gmAdding[s] = {} /\ until >= gmNow
  /\ gmRequests' = [gmRequests EXCEPT ![s] = @ + 1]
  /\ gmOptions' = [gmOptions EXCEPT ![s] = f]
  /\ gmUntil' = [gmUntil EXCEPT ![s] = IF @ = GmNone THEN until ELSE @]
  /\ gmAdding' = [gmAdding EXCEPT ![s] =
       {<<x, gmRecorded[x]>> : x \in {y \in GmSituations :
          gmSituations[y] # GmNone /\ gmSituations[y].validUntil >= gmNow}}]
  /\ UNCHANGED <<gmNow, gmModelVars, gmMgrVars, gmLast, gmPending, gmLoopVars,
                 gmFeedVars>>

\* one situation of addSituations
GmAddSituation(s, copy) ==
  /\ copy \in gmAdding[s]
  /\ gmAdding' = [gmAdding EXCEPT ![s] = @ \ {copy}]
  /\ gmLast' = IF gmUntil[s] = GmNone THEN gmLast
               ELSE [gmLast EXCEPT ![s][copy[1]] = copy[2]]
  /\ gmPending' = [gmPending EXCEPT ![s] = @ \cup {copy[1]}]
  /\ UNCHANGED <<gmNow, gmModelVars, gmMgrVars, gmUntil, gmOptions, gmRequests,
                 gmLoopVars, gmFeedVars>>

GmExpired(s) == gmUntil[s] # GmNone /\ gmUntil[s] < gmNow

\* checkSubscriptionsTerminatedTime: the resource, then the subscription
GmGuardian(s) ==
  /\ GmExpired(s)
  /\ gmUntil' = [gmUntil EXCEPT ![s] = GmNone]
  /\ gmLast' = [gmLast EXCEPT ![s] = GmNothing]
  /\ UNCHANGED <<gmNow, gmModelVars, gmMgrVars, gmOptions, gmRequests,
                 gmAdding, gmPending, gmLoopVars, gmFeedVars>>

-----------------------------------------------------------------------------
(* HandleGeneralMessageBroadcastEvent, by the broadcast manager.           *)

\* checkEvent finds the situation, ignored when this partner provided it
GmFind(x) ==
  /\ gmFound = {} /\ x \in gmEvents
  /\ gmEvents' = gmEvents \ {x}
  /\ gmEvent' = x /\ gmSeen' = gmRecorded[x]
  /\ gmFound' = IF gmSituations[x].own THEN {}
                ELSE {s \in GmSubs : gmUntil[s] # GmNone}
  /\ UNCHANGED <<gmNow, gmModelVars, gmSubVars, gmLast, gmPending, gmLoopVars,
                 gmFeedVars>>

GmQueuesNew(s) == gmLast[s][gmEvent] = GmNone \* mutant

\* no last state, or Haschanged
GmQueues(s) == gmLast[s][gmEvent] # gmSeen

GmCheckEvent(s) ==
  /\ s \in gmFound
  /\ gmFound' = gmFound \ {s}
  /\ IF gmUntil[s] # GmNone /\ ~GmExpired(s) /\ GmQueues(s)
     THEN /\ gmPending' = [gmPending EXCEPT ![s] = @ \cup {gmEvent}]
          /\ gmLast' = [gmLast EXCEPT ![s][gmEvent] =
                          IF @ = GmNone THEN gmSeen ELSE @]
     ELSE UNCHANGED <<gmPending, gmLast>>
  /\ UNCHANGED <<gmNow, gmModelVars, gmEvents, gmEvent, gmSeen, gmSubVars,
                 gmLoopVars, gmFeedVars>>

-----------------------------------------------------------------------------
(* prepareSIRIGeneralMessageNotify, by the broadcaster loop.               *)

GmTick ==
  /\ gmPc = "idle" /\ \E s \in GmSubs : gmPending[s] # {}
  /\ gmBatch' = gmPending /\ gmPending' = GmEmpty
  /\ gmPc' = "batch"
  /\ UNCHANGED <<gmNow, gmModelVars, gmMgrVars, gmSubVars, gmLast, gmSub,
                 gmBuilder, gmTodo, gmMessages, gmFeedVars>>

\* a subscription that is gone is skipped; the builder gets its filters
GmVisitSub(s) ==
  /\ gmPc = "batch" /\ gmBatch[s] # {}
  /\ gmBatch' = [gmBatch EXCEPT ![s] = {}]
  /\ IF gmUntil[s] = GmNone
     THEN UNCHANGED <<gmSub, gmBuilder, gmTodo, gmPc>>
     ELSE /\ gmSub' = s /\ gmBuilder' = gmOptions[s]
          /\ gmTodo' = gmBatch[s] /\ gmPc' = "situations"
  /\ UNCHANGED <<gmNow, gmModelVars, gmMgrVars, gmSubVars, gmLast, gmPending,
                 gmMessages, gmFeedVars>>

GmBatchDone ==
  /\ gmPc = "batch" /\ \A s \in GmSubs : gmBatch[s] = {}
  /\ gmPc' = "idle" /\ gmSub' = GmNone
  /\ UNCHANGED <<gmNow, gmModelVars, gmMgrVars, gmSubVars, gmLast, gmPending,
                 gmBatch, gmBuilder, gmTodo, gmMessages, gmFeedVars>>

\* the situation is read from the live model and its message built, or not
GmBuild(x) ==
  /\ gmPc = "situations" /\ x \in gmTodo
  /\ gmTodo' = gmTodo \ {x}
  /\ gmMessages' = IF BuildGeneralMessage(gmBuilder, gmSituations[x])
                   THEN [gmMessages EXCEPT ![x] = gmRecorded[x]]
                   ELSE gmMessages
  /\ UNCHANGED <<gmNow, gmModelVars, gmMgrVars, gmSubVars, gmLast, gmPending,
                 gmPc, gmBatch, gmSub, gmBuilder, gmFeedVars>>

GmBuilt == {x \in GmSituations : gmMessages[x] # GmNone}

GmNotifyKept(ok) == \* mutant
  /\ gmPc = "situations" /\ gmTodo = {} /\ gmPc' = "batch"
  /\ gmKnown' = [gmKnown EXCEPT ![gmSub] = [x \in GmSituations |->
       IF ok /\ x \in GmBuilt THEN gmMessages[x] ELSE @[x]]]
  /\ UNCHANGED <<gmNow, gmModelVars, gmMgrVars, gmSubVars, gmLast, gmPending,
                 gmBatch, gmSub, gmBuilder, gmTodo, gmMessages, gmMissed>>

\* nothing is sent without messages; a failed request is only logged
GmNotify(ok) ==
  /\ gmPc = "situations" /\ gmTodo = {}
  /\ IF ok
     THEN /\ gmKnown' = [gmKnown EXCEPT ![gmSub] = [x \in GmSituations |->
               IF x \in GmBuilt THEN gmMessages[x] ELSE @[x]]]
          /\ gmMissed' = [gmMissed EXCEPT ![gmSub] = @ \ GmBuilt]
     ELSE /\ gmMissed' = [gmMissed EXCEPT ![gmSub] = @ \cup GmBuilt]
          /\ UNCHANGED gmKnown
  /\ gmMessages' = GmNothing /\ gmPc' = "batch"
  /\ UNCHANGED <<gmNow, gmModelVars, gmMgrVars, gmSubVars, gmLast, gmPending,
                 gmBatch, gmSub, gmBuilder, gmTodo>>

-----------------------------------------------------------------------------
GmNext ==
  \/ \E x \in GmSituations : \/ \E state \in GmSaved : GmSave(x, state)
                             \/ GmFind(x) \/ GmBuild(x)
  \/ \E s \in GmSubs :
       \/ \E f \in GmFilters, until \in 0..GmHorizon :
            GmHandleSubscriptionRequest(s, f, until)
       \/ \E copy \in gmAdding[s] : GmAddSituation(s, copy)
       \/ GmGuardian(s) \/ GmCheckEvent(s) \/ GmVisitSub(s)
  \/ GmTime \/ GmTick \/ GmBatchDone
  \/ \E ok \in BOOLEAN : GmNotify(ok)

GmSpec == GmInit /\ [][GmNext]_gmVars

-----------------------------------------------------------------------------
\* Types; the broadcaster loop starts every subscription with an empty
\* notification (notify is made anew for each subscription).
GmTypeOK ==
  /\ gmNow \in 0..GmHorizon
  /\ gmSituations \in [GmSituations -> GmSituation \cup {GmNone}]
  /\ gmRecorded \in [GmSituations -> 0..GmMaxRecorded]
  /\ gmEvents \subseteq GmSituations /\ gmFound \subseteq GmSubs
  /\ gmEvent \in GmSituations \cup {GmNone} /\ gmSeen \in 0..GmMaxRecorded
  /\ gmUntil \in [GmSubs -> 0..GmHorizon \cup {GmNone}]
  /\ gmOptions \in [GmSubs -> GmFilter]
  /\ gmLast \in [GmSubs -> [GmSituations -> 0..GmMaxRecorded \cup {GmNone}]]
  /\ gmPending \in [GmSubs -> SUBSET GmSituations]
  /\ gmRequests \in [GmSubs -> 0..GmMaxRequests]
  /\ gmAdding \in [GmSubs -> SUBSET (GmSituations \X (0..GmMaxRecorded))]
  /\ gmPc \in {"idle", "batch", "situations"}
  /\ gmBatch \in [GmSubs -> SUBSET GmSituations]
  /\ gmSub \in GmSubs \cup {GmNone} /\ gmTodo \subseteq GmSituations
  /\ gmBuilder \in GmFilter
  /\ gmMessages \in [GmSituations -> 0..GmMaxRecorded \cup {GmNone}]
  /\ gmKnown \in [GmSubs -> [GmSituations -> 0..GmMaxRecorded \cup {GmNone}]]
  /\ gmMissed \in [GmSubs -> SUBSET GmSituations]
  /\ gmPc \in {"idle", "batch"} => gmTodo = {} /\ gmMessages = GmNothing

\* on its way: an event, the manager, the request handler or the broadcaster
GmOnItsWay(s, x) ==
  \/ x \in gmEvents \cup gmPending[s] \cup gmBatch[s]
  \/ gmEvent = x /\ s \in gmFound
  \/ \E copy \in gmAdding[s] : copy[1] = x
  \/ gmSub = s /\ x \in gmTodo \cup GmBuilt

\* Every situation that makes a message for a live subscription is told as it
\* is, or is on its way, or its notification failed.  It holds although the
\* last states are never updated, because a RecordedAt is new at each save.
GmConverges ==
  \A s \in GmSubs, x \in GmSituations :
    (gmUntil[s] # GmNone /\ ~GmExpired(s) /\ gmSituations[x] # GmNone
       /\ BuildGeneralMessage(gmOptions[s], gmSituations[x]))
    => \/ gmKnown[s][x] = gmRecorded[x]
       \/ GmOnItsWay(s, x) \/ x \in gmMissed[s]
=============================================================================
