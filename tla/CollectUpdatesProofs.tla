------------------------ MODULE CollectUpdatesProofs ------------------------
(***************************************************************************)
(* CollectUpdates for any number of partners, stop areas, stop visits and  *)
(* answers.                                                                *)
(***************************************************************************)
EXTENDS CollectUpdates, TLAPS

-----------------------------------------------------------------------------
(* The inductive invariant.                                                *)

UcPcs == {"idle", "events", "commit", "areaCommit", "areaStatus",
          "visitStatus", "visitCommit"}

UcModelOK ==
  /\ areas \in [Stops -> Area \cup {Absent}]
  /\ lines \subseteq Lines
  /\ journeys \in [Journeys -> [monitored : BOOLEAN] \cup {Absent}]
  /\ visits \in [Visits -> Visit \cup {Absent}]

UcCollectorsOK ==
  /\ pc \in [Collectors -> UcPcs]
  /\ answer \in [Collectors -> Answer]
  /\ events \in [Collectors -> SUBSET Event]
  /\ event \in [Collectors -> Event \cup {NoEvent}]
  /\ held \in [Collectors -> SUBSET Write]
  /\ writes \in [Collectors -> SUBSET Write]
  /\ refs \in [Collectors -> SUBSET Stops]
  /\ monitored \in [Collectors -> SUBSET Visits]
  /\ answers \in [Collectors -> 0..MaxAnswers]

\* A stop visit is one of the partner it comes from.
UcOrigins == \A v \in Visits : visits[v] # Absent => v \in Provides(visits[v].origin)

\* Where a collector is in its transactions.
UcTransaction(p) ==
  /\ (held[p] # {}) = (pc[p] \in {"visitStatus", "visitCommit"})
  /\ (writes[p] # {}) = (pc[p] \in {"commit", "areaCommit", "visitCommit"})
  /\ pc[p] = "areaCommit" =>
       /\ event[p].kind = "area"
       /\ \A w \in writes[p] : w.kind = "area" /\ w.of = event[p].of
  /\ pc[p] = "areaStatus" =>
       event[p].kind = "area" /\ areas[event[p].of] # Absent
  /\ pc[p] = "visitStatus" =>
       event[p].kind = "visit" /\ areas[StopOf(event[p].of)] # Absent

UcApplied(e) ==
  \/ e.kind = "area" /\ areas[e.of] # Absent
  \/ e.kind = "line" /\ e.of \in lines
  \/ e.kind = "journey" /\ journeys[e.of] # Absent
  \/ e.kind = "visit" /\ visits[e.of] # Absent

\* What an answer says is still to come, in a transaction, or in the model.
UcKept(p) ==
  \A e \in BuildUpdateEvents(answer[p]) : e.kind # "notCollected" =>
    \/ e \in events[p] \/ UcApplied(e)
    \/ \E w \in writes[p] \cup held[p] : w.kind = e.kind /\ w.of = e.of

\* A collector works for its partner.
UcOwn(p) ==
  /\ answer[p].sent \cup answer[p].cancelled \subseteq Provides(p)
  /\ \A e \in events[p] :
       /\ e.kind # "notCollected" => e \in BuildUpdateEvents(answer[p])
       /\ e.kind = "notCollected" =>
            \/ e.of \in answer[p].cancelled
            \/ visits[e.of] # Absent /\ e.of \in Provides(p)
  /\ \A w \in writes[p] \cup held[p] :
       w.kind = "visit" => w.of \in Provides(w.val.origin)
  /\ \A v \in monitored[p] : visits[v] # Absent /\ v \in Provides(p)

UcInv ==
  /\ UcModelOK /\ UcCollectorsOK /\ UcOrigins
  /\ \A p \in Collectors : UcTransaction(p) /\ UcKept(p) /\ UcOwn(p)

-----------------------------------------------------------------------------
(* Events and writes.                                                      *)

\* Events and writes, by their kinds.
LEMMA UcKinds ==
  /\ \A e \in Event :
       \/ e.kind = "area" /\ e.of \in Stops
       \/ e.kind = "line" /\ e.of \in Lines
       \/ e.kind = "journey" /\ e.of \in Journeys
       \/ e.kind \in {"visit", "notCollected"} /\ e.of \in Visits
  /\ \A w \in Write :
       \/ w.kind = "area" /\ w.of \in Stops /\ w.val \in Area
       \/ w.kind = "line" /\ w.of \in Lines
       \/ w.kind = "journey" /\ w.of \in Journeys /\ w.val \in [monitored : BOOLEAN]
       \/ w.kind = "visit" /\ w.of \in Visits /\ w.val \in Visit
<1>1. ASSUME NEW e \in Event
      PROVE  \/ e.kind = "area" /\ e.of \in Stops
             \/ e.kind = "line" /\ e.of \in Lines
             \/ e.kind = "journey" /\ e.of \in Journeys
             \/ e.kind \in {"visit", "notCollected"} /\ e.of \in Visits
  BY DEF Event
<1>2. ASSUME NEW w \in Write
      PROVE  \/ w.kind = "area" /\ w.of \in Stops /\ w.val \in Area
             \/ w.kind = "line" /\ w.of \in Lines
             \/ w.kind = "journey" /\ w.of \in Journeys /\ w.val \in [monitored : BOOLEAN]
             \/ w.kind = "visit" /\ w.of \in Visits /\ w.val \in Visit
  BY DEF Write
<1> QED
  BY <1>1, <1>2

\* The events of an answer, by their kinds.
LEMMA UcBuilt ==
  ASSUME NEW ans \in Answer, NEW e \in BuildUpdateEvents(ans)
  PROVE  /\ e \in Event
         /\ \/ e.kind = "area" /\ \E v \in ans.sent : e.of = StopOf(v)
            \/ e.kind = "line" /\ \E v \in ans.sent : e.of = LineOf(JourneyOf(v))
            \/ e.kind = "journey" /\ \E v \in ans.sent : e.of = JourneyOf(v)
            \/ e.kind = "visit" /\ e.of \in ans.sent
            \/ e.kind = "notCollected" /\ e.of \in ans.cancelled
<1>1. ans.sent \subseteq Visits /\ ans.cancelled \subseteq Visits
  BY DEF Answer
<1>2. CASE \E v \in ans.sent : e = [kind |-> "area", of |-> StopOf(v)]
  BY <1>1, <1>2, UpdatesAssumption DEF Event, UpdatesAssumption
<1>3. CASE \E v \in ans.sent : e = [kind |-> "line", of |-> LineOf(JourneyOf(v))]
  BY <1>1, <1>3, UpdatesAssumption DEF Event, UpdatesAssumption
<1>4. CASE \E v \in ans.sent : e = [kind |-> "journey", of |-> JourneyOf(v)]
  BY <1>1, <1>4, UpdatesAssumption DEF Event, UpdatesAssumption
<1>5. CASE \E v \in ans.sent : e = [kind |-> "visit", of |-> v]
  BY <1>1, <1>5 DEF Event
<1>6. CASE \E v \in ans.cancelled : e = [kind |-> "notCollected", of |-> v]
  BY <1>1, <1>6 DEF Event
<1> QED
  BY <1>2, <1>3, <1>4, <1>5, <1>6 DEF BuildUpdateEvents, StopsOf

\* What an answer has an event for.
LEMMA UcBuilds ==
  ASSUME NEW ans, NEW v \in ans.sent
  PROVE  /\ [kind |-> "area", of |-> StopOf(v)] \in BuildUpdateEvents(ans)
         /\ [kind |-> "line", of |-> LineOf(JourneyOf(v))] \in BuildUpdateEvents(ans)
         /\ [kind |-> "journey", of |-> JourneyOf(v)] \in BuildUpdateEvents(ans)
         /\ [kind |-> "visit", of |-> v] \in BuildUpdateEvents(ans)
  BY DEF BuildUpdateEvents, StopsOf

\* An event of the answer that is not to come any more was applied.
LEMMA UcBefore ==
  ASSUME UcInv, NEW p \in Collectors, pc[p] = "events",
         NEW e \in BuildUpdateEvents(answer[p]), e.kind # "notCollected",
         e \notin events[p]
  PROVE  UcApplied(e)
  BY DEF UcInv, UcKept, UcTransaction

-----------------------------------------------------------------------------
(* The other collectors.                                                   *)

\* Nothing leaves the model.
UcGrows ==
  /\ \A s \in Stops : areas[s] # Absent => areas'[s] # Absent
  /\ lines \subseteq lines'
  /\ \A j \in Journeys : journeys[j] # Absent => journeys'[j] # Absent
  /\ \A v \in Visits : visits[v] # Absent => visits'[v] # Absent

UcSame(p) ==
  /\ pc'[p] = pc[p] /\ answer'[p] = answer[p] /\ events'[p] = events[p]
  /\ event'[p] = event[p] /\ held'[p] = held[p] /\ writes'[p] = writes[p]
  /\ monitored'[p] = monitored[p]

\* What was applied stays so.
LEMMA UcAppliedGrows ==
  ASSUME UcGrows, NEW e \in Event, UcApplied(e)
  PROVE  UcApplied(e)'
  BY UcKinds DEF UcGrows, UcApplied

\* A collector that does nothing keeps its part of the invariant.
LEMMA UcOthers ==
  ASSUME UcInv, UcGrows, NEW p \in Collectors, UcSame(p)
  PROVE  UcTransaction(p)' /\ UcKept(p)' /\ UcOwn(p)'
<1>1. /\ UcModelOK /\ UcCollectorsOK
      /\ UcTransaction(p) /\ UcKept(p) /\ UcOwn(p)
  BY DEF UcInv
<1>2. answer[p] \in Answer /\ event[p] \in Event \cup {NoEvent}
      /\ events[p] \subseteq Event /\ monitored[p] \subseteq Visits
  BY <1>1 DEF UcCollectorsOK
<1>3. UcTransaction(p)'
  <2>1. CASE pc[p] = "areaStatus"
    <3>1. event[p].of \in Stops
      BY <1>1, <1>2, <2>1, UcKinds DEF UcTransaction, NoEvent
    <3> QED
      BY <1>1, <2>1, <3>1 DEF UcTransaction, UcSame, UcGrows
  <2>2. CASE pc[p] = "visitStatus"
    <3>1. StopOf(event[p].of) \in Stops
      BY <1>1, <1>2, <2>2, UcKinds, UpdatesAssumption
         DEF UcTransaction, NoEvent, UpdatesAssumption
    <3> QED
      BY <1>1, <2>2, <3>1 DEF UcTransaction, UcSame, UcGrows
  <2>3. CASE pc[p] \notin {"areaStatus", "visitStatus"}
    BY <1>1, <2>3 DEF UcTransaction, UcSame
  <2> QED
    BY <2>1, <2>2, <2>3
<1>4. UcKept(p)'
  <2> SUFFICES ASSUME NEW e \in BuildUpdateEvents(answer[p]), e.kind # "notCollected"
               PROVE  \/ e \in events[p] \/ UcApplied(e)'
                      \/ \E w \in writes[p] \cup held[p] :
                           w.kind = e.kind /\ w.of = e.of
    BY DEF UcKept, UcSame
  <2>1. e \in Event
    BY <1>2, UcBuilt
  <2> QED
    BY <1>1, <2>1, UcAppliedGrows DEF UcKept
<1>5. UcOwn(p)'
  <2>1. \A e \in events[p] : e.kind = "notCollected" => e.of \in Visits
    BY <1>2, UcKinds
  <2> QED
    BY <1>1, <1>2, <2>1 DEF UcOwn, UcSame, UcGrows
<1> QED
  BY <1>3, <1>4, <1>5

\* A step of one collector.
LEMMA UcStep ==
  ASSUME UcInv, UcGrows, UcModelOK', UcCollectorsOK', UcOrigins',
         NEW p \in Collectors, \A u \in Collectors \ {p} : UcSame(u),
         UcTransaction(p)', UcKept(p)', UcOwn(p)'
  PROVE  UcInv'
<1>1. ASSUME NEW u \in Collectors
      PROVE  UcTransaction(u)' /\ UcKept(u)' /\ UcOwn(u)'
  BY UcOthers
<1> QED
  BY <1>1 DEF UcInv

\* A step of one collector that does not touch the model.
LEMMA UcCollectorStep ==
  ASSUME UcInv, UNCHANGED modelVars, UcCollectorsOK',
         NEW p \in Collectors, \A u \in Collectors \ {p} : UcSame(u),
         UcTransaction(p)', UcKept(p)', UcOwn(p)'
  PROVE  UcInv'
<1>1. UcGrows /\ UcModelOK' /\ UcOrigins'
  BY DEF UcInv, UcModelOK, UcOrigins, UcGrows, modelVars
<1> QED
  BY <1>1, UcStep

-----------------------------------------------------------------------------
(* An answer comes, and is dealt with.                                     *)

\* A delivery of the partner.
LEMMA UcReceiveStep ==
  ASSUME UcInv, NEW p \in Collectors, NEW ans \in Answer,
         ans.sent \cup ans.cancelled \subseteq Provides(p), Receive(p, ans)
  PROVE  UcInv'
<1>1. /\ UcModelOK /\ UcCollectorsOK
      /\ UcTransaction(p) /\ UcKept(p) /\ UcOwn(p)
  BY DEF UcInv
<1> DEFINE evs == BuildUpdateEvents(ans)
<1> DEFINE rs == IF ans.way = "request" THEN StopsOf(ans.sent) ELSE {}
<1>2. evs \subseteq Event
  BY UcBuilt
<1>3. rs \subseteq Stops
  BY UpdatesAssumption DEF StopsOf, Answer, UpdatesAssumption
<1>4. /\ pc[p] = "idle" /\ answers[p] < MaxAnswers
      /\ answers' = [answers EXCEPT ![p] = @ + 1]
      /\ answer' = [answer EXCEPT ![p] = ans]
      /\ events' = [events EXCEPT ![p] = evs] /\ refs' = [refs EXCEPT ![p] = rs]
      /\ monitored' = [monitored EXCEPT ![p] = {}]
      /\ pc' = [pc EXCEPT ![p] = "events"]
      /\ UNCHANGED <<event, held, writes>> /\ UNCHANGED modelVars
  BY DEF Receive, eventVars
<1> HIDE DEF evs, rs
<1>5. UcCollectorsOK'
  <2>1. answers' \in [Collectors -> 0..MaxAnswers]
    BY <1>1, <1>4, UpdatesAssumption DEF UcCollectorsOK, UpdatesAssumption
  <2>2. /\ answer' \in [Collectors -> Answer]
        /\ events' \in [Collectors -> SUBSET Event]
        /\ refs' \in [Collectors -> SUBSET Stops]
        /\ monitored' \in [Collectors -> SUBSET Visits]
        /\ pc' \in [Collectors -> UcPcs]
    BY <1>1, <1>2, <1>3, <1>4 DEF UcCollectorsOK, UcPcs
  <2> QED
    BY <1>1, <1>4, <2>1, <2>2 DEF UcCollectorsOK
<1>6. /\ pc'[p] = "events" /\ answer'[p] = ans /\ events'[p] = evs
      /\ monitored'[p] = {} /\ writes'[p] = {} /\ held'[p] = {}
  BY <1>1, <1>4 DEF UcCollectorsOK, UcTransaction
<1>7. \A u \in Collectors \ {p} : UcSame(u)
  BY <1>1, <1>4 DEF UcCollectorsOK, UcSame
<1>8. UcTransaction(p)'
  BY <1>6 DEF UcTransaction
<1>9. UcKept(p)'
  BY <1>6 DEF UcKept, evs
<1>10. UcOwn(p)'
  <2>1. \A e \in evs : e.kind = "notCollected" => e.of \in ans.cancelled
    BY UcBuilt DEF evs
  <2> QED
    BY <1>6, <2>1 DEF UcOwn, evs
<1> QED
  BY <1>4, <1>5, <1>7, <1>8, <1>9, <1>10, UcCollectorStep

\* Requests, notifications and pushes.
LEMMA UcCollectStep ==
  ASSUME UcInv, NEW p \in Collectors, Collect(p)
  PROVE  UcInv'
<1>1. PICK sent \in SUBSET Provides(p), mon \in Monitoring :
        \/ \E stop \in Requested : RequestStopAreaUpdate(p, stop, sent, mon)
        \/ \E root \in Requested, lost \in SUBSET Provides(p) :
             HandleNotifyStopMonitoring(p, root, sent, lost, mon)
        \/ HandlePushNotification(p, sent, mon)
  BY DEF Collect
<1>2. /\ Requested \subseteq Stops /\ Monitoring \subseteq BOOLEAN
      /\ Provides(p) \subseteq Visits
  BY UpdatesAssumption DEF UpdatesAssumption
<1>3. ASSUME NEW root \in Stops \cup {Absent}, NEW lost \in SUBSET Provides(p),
             NEW way \in {"request", "notify", "push"},
             Receive(p, [sent |-> sent, monitored |-> mon, cancelled |-> lost,
                         root |-> root, way |-> way])
      PROVE  UcInv'
  <2> DEFINE ans == [sent |-> sent, monitored |-> mon, cancelled |-> lost,
                     root |-> root, way |-> way]
  <2>1. ans \in Answer /\ ans.sent \cup ans.cancelled \subseteq Provides(p)
    BY <1>2 DEF Answer
  <2> HIDE DEF ans
  <2>2. Receive(p, ans)
    BY <1>3 DEF ans
  <2> QED
    BY <2>1, <2>2, UcReceiveStep
<1>4. ASSUME NEW stop \in Requested, RequestStopAreaUpdate(p, stop, sent, mon)
      PROVE  UcInv'
  BY <1>2, <1>3, <1>4 DEF RequestStopAreaUpdate
<1>5. ASSUME NEW root \in Requested, NEW lost \in SUBSET Provides(p),
             HandleNotifyStopMonitoring(p, root, sent, lost, mon)
      PROVE  UcInv'
  BY <1>2, <1>3, <1>5 DEF HandleNotifyStopMonitoring
<1>6. CASE HandlePushNotification(p, sent, mon)
  BY <1>2, <1>3, <1>6 DEF HandlePushNotification
<1> QED
  BY <1>1, <1>4, <1>5, <1>6

\* "Set all StopVisits not in the response not collected", of one stop area.
LEMMA UcNotInResponseStep ==
  ASSUME UcInv, NEW p \in Collectors, NEW s \in Stops, NotInResponse(p, s)
  PROVE  UcInv'
<1>1. /\ UcModelOK /\ UcCollectorsOK /\ UcOrigins
      /\ UcTransaction(p) /\ UcKept(p) /\ UcOwn(p)
  BY DEF UcInv
<1> DEFINE found == monitored[p] \cup FindMonitoredByOriginByStopAreaId(p, s)
<1> DEFINE left == found \ {v \in answer[p].sent : StopOf(v) = s}
<1> DEFINE evs == {[kind |-> "notCollected", of |-> v] : v \in left}
<1>2. /\ pc[p] = "events" /\ events[p] = {}
      /\ monitored' = [monitored EXCEPT ![p] = found]
      /\ events' = [events EXCEPT ![p] = evs]
      /\ refs' = [refs EXCEPT ![p] = @ \ {s}]
      /\ UNCHANGED modelVars
      /\ UNCHANGED <<pc, answer, event, held, writes, answers>>
  BY DEF NotInResponse, eventVars
<1>3. /\ found \subseteq Visits
      /\ \A v \in found : visits[v] # Absent /\ v \in Provides(p)
  BY <1>1
  DEF UcOwn, UcCollectorsOK, UcOrigins, FindMonitoredByOriginByStopAreaId
<1>4. /\ evs \subseteq Event
      /\ \A e \in evs : e.kind = "notCollected" /\ e.of \in found
  BY <1>3 DEF Event
<1> HIDE DEF found, left, evs
<1>5. UcCollectorsOK'
  <2>1. /\ events' \in [Collectors -> SUBSET Event]
        /\ refs' \in [Collectors -> SUBSET Stops]
        /\ monitored' \in [Collectors -> SUBSET Visits]
    BY <1>1, <1>2, <1>3, <1>4 DEF UcCollectorsOK
  <2> QED
    BY <1>1, <1>2, <2>1 DEF UcCollectorsOK
<1>6. events'[p] = evs /\ monitored'[p] = found
  BY <1>1, <1>2 DEF UcCollectorsOK
<1>7. \A u \in Collectors \ {p} : UcSame(u)
  BY <1>1, <1>2 DEF UcCollectorsOK, UcSame
<1>8. UcTransaction(p)'
  BY <1>1, <1>2 DEF UcTransaction, modelVars
<1>9. UcKept(p)'
  BY <1>1, <1>2 DEF UcKept, UcApplied, modelVars
<1>10. UcOwn(p)'
  BY <1>1, <1>2, <1>3, <1>4, <1>6 DEF UcOwn, modelVars
<1> QED
  BY <1>2, <1>5, <1>7, <1>8, <1>9, <1>10, UcCollectorStep

\* The answer is dealt with.
LEMMA UcHandledStep ==
  ASSUME UcInv, NEW p \in Collectors, Handled(p)
  PROVE  UcInv'
<1>1. /\ UcModelOK /\ UcCollectorsOK
      /\ UcTransaction(p) /\ UcKept(p) /\ UcOwn(p)
  BY DEF UcInv
<1>2. /\ pc[p] = "events" /\ events[p] = {}
      /\ pc' = [pc EXCEPT ![p] = "idle"]
      /\ answer' = [answer EXCEPT ![p] = NoAnswer]
      /\ monitored' = [monitored EXCEPT ![p] = {}]
      /\ UNCHANGED modelVars
      /\ UNCHANGED <<events, event, held, writes, refs, answers>>
  BY DEF Handled, eventVars
<1>3. NoAnswer \in Answer /\ NoAnswer.sent = {} /\ NoAnswer.cancelled = {}
  BY DEF NoAnswer, Answer
<1>4. UcCollectorsOK'
  BY <1>1, <1>2, <1>3 DEF UcCollectorsOK, UcPcs
<1>5. /\ pc'[p] = "idle" /\ answer'[p] = NoAnswer /\ monitored'[p] = {}
      /\ events'[p] = {} /\ writes'[p] = {} /\ held'[p] = {}
  BY <1>1, <1>2 DEF UcCollectorsOK, UcTransaction
<1>6. \A u \in Collectors \ {p} : UcSame(u)
  BY <1>1, <1>2 DEF UcCollectorsOK, UcSame
<1>7. UcTransaction(p)'
  BY <1>5 DEF UcTransaction
<1>8. UcKept(p)'
  <2>1. BuildUpdateEvents(NoAnswer) = {}
    BY <1>3 DEF BuildUpdateEvents, StopsOf
  <2> QED
    BY <1>5, <2>1 DEF UcKept
<1>9. UcOwn(p)'
  BY <1>3, <1>5 DEF UcOwn
<1> QED
  BY <1>2, <1>4, <1>6, <1>7, <1>8, <1>9, UcCollectorStep

-----------------------------------------------------------------------------
(* The update manager reads, and begins a transaction.                     *)

\* What is read of a stop area or a stop visit that exists.
LEMMA UcRead ==
  ASSUME UcInv
  PROVE  /\ \A s \in Stops : areas[s] # Absent => areas[s] \in Area
         /\ \A v \in Visits : visits[v] # Absent => visits[v] \in Visit
         /\ \A j \in Journeys : journeys[j] # Absent => journeys[j] \in [monitored : BOOLEAN]
         /\ NewArea \in Area /\ Absent \notin Area /\ Absent \notin Visit
         /\ Absent \notin [monitored : BOOLEAN]
<1>1. NewArea \in Area
  BY DEF NewArea, Area, PartnerStatus
<1> QED
  BY <1>1, AbsentAssumption DEF UcInv, UcModelOK, AbsentAssumption

\* What may follow an event: where the collector goes on, what it is to save now
\* and after it has updated the status.
UcMay(e, c, W, H) ==
  /\ c \in UcPcs \ {"areaStatus"} /\ W \subseteq Write /\ H \subseteq Write
  /\ H # {} <=> c \in {"visitStatus", "visitCommit"}
  /\ W # {} <=> c \in {"commit", "areaCommit", "visitCommit"}
  /\ c = "areaCommit" =>
       e.kind = "area" /\ \A w \in W : w.kind = "area" /\ w.of = e.of
  /\ c = "visitStatus" => e.kind = "visit" /\ areas[StopOf(e.of)] # Absent
  /\ e.kind # "notCollected" =>
       \E w \in W \cup H : w.kind = e.kind /\ w.of = e.of
  /\ \A w \in W \cup H : w.kind = "visit" => w.of \in Provides(w.val.origin)

\* An event is taken, and its object is to be saved.
LEMMA UcUpdate ==
  ASSUME UcInv, NEW p \in Collectors, NEW e \in events[p], Next1(p, e),
         NEW c, NEW W, NEW H, UcMay(e, c, W, H),
         pc' = [pc EXCEPT ![p] = c], writes' = [writes EXCEPT ![p] = W],
         held' = [held EXCEPT ![p] = H]
  PROVE  UcInv'
<1> USE DEF UcMay
<1>1. /\ UcCollectorsOK /\ UcTransaction(p) /\ UcKept(p) /\ UcOwn(p)
  BY DEF UcInv
<1>2. /\ pc[p] = "events" /\ events' = [events EXCEPT ![p] = @ \ {e}]
      /\ event' = [event EXCEPT ![p] = e]
      /\ UNCHANGED modelVars /\ UNCHANGED <<answer, refs, monitored, answers>>
  BY DEF Next1, loopVars
<1>3. e \in Event
  BY <1>1 DEF UcCollectorsOK
<1>4. UcCollectorsOK'
  <2>1. /\ events' \in [Collectors -> SUBSET Event]
        /\ event' \in [Collectors -> Event \cup {NoEvent}]
        /\ pc' \in [Collectors -> UcPcs]
    BY <1>1, <1>2, <1>3 DEF UcCollectorsOK
  <2>2. /\ held' \in [Collectors -> SUBSET Write]
        /\ writes' \in [Collectors -> SUBSET Write]
    BY <1>1 DEF UcCollectorsOK
  <2> QED
    BY <1>1, <1>2, <2>1, <2>2 DEF UcCollectorsOK
<1>5. /\ pc'[p] = c /\ events'[p] = events[p] \ {e} /\ event'[p] = e
      /\ writes'[p] = W /\ held'[p] = H
      /\ writes[p] = {} /\ held[p] = {}
  BY <1>1, <1>2 DEF UcCollectorsOK, UcTransaction
<1>6. \A u \in Collectors \ {p} : UcSame(u)
  BY <1>1, <1>2 DEF UcCollectorsOK, UcSame
<1>7. UcTransaction(p)'
  BY <1>2, <1>5 DEF UcTransaction, modelVars
<1>8. UcKept(p)'
  <2> SUFFICES ASSUME NEW f \in BuildUpdateEvents(answer[p]),
                      f.kind # "notCollected"
               PROVE  \/ f \in events[p] \ {e} \/ UcApplied(f)
                      \/ \E w \in W \cup H : w.kind = f.kind /\ w.of = f.of
    BY <1>2, <1>5 DEF UcKept, UcApplied, modelVars
  <2>1. f \in events[p] \/ UcApplied(f)
    BY <1>1, <1>5 DEF UcKept
  <2> QED
    BY <2>1
<1>9. UcOwn(p)'
  BY <1>1, <1>2, <1>5 DEF UcOwn, modelVars
<1> QED
  BY <1>2, <1>4, <1>6, <1>7, <1>8, <1>9, UcCollectorStep

\* The same, with one object to save.
LEMMA UcCommits ==
  ASSUME UcInv, NEW p \in Collectors, NEW e \in events[p], Next1(p, e),
         NEW w \in Write, w.kind = e.kind \/ e.kind = "notCollected", w.of = e.of,
         w.kind = "visit" => w.of \in Provides(w.val.origin),
         pc' = [pc EXCEPT ![p] = "commit"],
         writes' = [writes EXCEPT ![p] = {w}], held' = held
  PROVE  UcInv'
<1>1. held' = [held EXCEPT ![p] = {}]
  BY DEF UcInv, UcCollectorsOK, UcTransaction, Next1
<1>2. UcMay(e, "commit", {w}, {})
  BY DEF UcMay, UcPcs
<1> QED
  BY <1>1, <1>2, UcUpdate

\* updateStopArea.
LEMMA UcUpdateStopAreaStep ==
  ASSUME UcInv, NEW p \in Collectors, NEW e \in events[p], UpdateStopArea(p, e)
  PROVE  UcInv'
<1> DEFINE sa == IF areas[e.of] = Absent THEN NewArea ELSE areas[e.of]
<1> DEFINE new == [sa EXCEPT !.parent = IF @ = Absent THEN ParentOf(p, e.of)
                                                     ELSE @]
<1> DEFINE w == [kind |-> "area", of |-> e.of, val |-> new]
<1> DEFINE c == IF sa.origins[p] = "up" THEN "commit" ELSE "areaCommit"
<1>1. /\ e.kind = "area" /\ Next1(p, e) /\ held' = held
      /\ pc' = [pc EXCEPT ![p] = c] /\ writes' = [writes EXCEPT ![p] = {w}]
  BY DEF UpdateStopArea, Commits
<1>2. /\ UcCollectorsOK /\ UcTransaction(p) /\ pc[p] = "events"
  BY <1>1 DEF UcInv, Next1
<1>3. e.of \in Stops
  <2>1. e \in Event
    BY <1>2 DEF UcCollectorsOK
  <2> QED
    BY <1>1, <2>1, UcKinds
<1>4. ParentOf(p, e.of) \in Stops \cup {Absent}
  BY <1>2 DEF ParentOf, UcCollectorsOK, Answer
<1>5. sa \in Area
  BY <1>3, UcRead
<1> HIDE DEF sa
<1>6. new \in Area
  BY <1>4, <1>5 DEF Area
<1> HIDE DEF new
<1>7. w \in Write /\ w.kind = "area" /\ w.of = e.of
  BY <1>3, <1>6 DEF Write
<1> HIDE DEF w
<1>8. c \in {"commit", "areaCommit"}
  OBVIOUS
<1> HIDE DEF c
<1>9. held' = [held EXCEPT ![p] = {}]
  BY <1>1, <1>2 DEF UcCollectorsOK, UcTransaction
<1>10. UcMay(e, c, {w}, {})
  BY <1>1, <1>7, <1>8 DEF UcMay, UcPcs
<1> QED
  BY <1>1, <1>9, <1>10, UcUpdate

\* updateLine.
LEMMA UcUpdateLineStep ==
  ASSUME UcInv, NEW p \in Collectors, NEW e \in events[p], UpdateLine(p, e)
  PROVE  UcInv'
<1> DEFINE w == [kind |-> "line", of |-> e.of, val |-> TRUE]
<1>1. /\ e.kind = "line" /\ Next1(p, e) /\ held' = held
      /\ writes' = [writes EXCEPT ![p] = {w}] /\ pc' = [pc EXCEPT ![p] = "commit"]
  BY DEF UpdateLine, Commits
<1>2. e \in Event
  BY DEF UcInv, UcCollectorsOK
<1>3. w \in Write /\ w.kind = "line" /\ w.of = e.of
  BY <1>1, <1>2, UcKinds DEF Write
<1> HIDE DEF w
<1> QED
  BY <1>1, <1>3, UcCommits

\* The line of a vehicle journey is there before the vehicle journey.
LEMMA UcLineBefore ==
  ASSUME UcInv, NEW p \in Collectors, NEW e \in events[p], Next1(p, e),
         e.kind = "journey"
  PROVE  LineOf(e.of) \in lines
<1>1. /\ UcCollectorsOK /\ UcOwn(p) /\ pc[p] = "events"
      /\ \A f \in events[p] : BroadcastRank(e) <= BroadcastRank(f)
  BY DEF UcInv, Next1
<1>2. answer[p] \in Answer /\ e \in BuildUpdateEvents(answer[p])
  BY <1>1 DEF UcCollectorsOK, UcOwn
<1>3. PICK v \in answer[p].sent : e.of = JourneyOf(v)
  BY <1>2, UcBuilt
<1> DEFINE f == [kind |-> "line", of |-> LineOf(JourneyOf(v))]
<1>4. f \in BuildUpdateEvents(answer[p])
  BY UcBuilds
<1>5. f \notin events[p]
  BY <1>1 DEF BroadcastRank
<1>6. UcApplied(f)
  BY <1>1, <1>4, <1>5, UcBefore
<1> QED
  BY <1>3, <1>6 DEF UcApplied

\* updateVehicleJourney.
LEMMA UcUpdateVehicleJourneyStep ==
  ASSUME UcInv, NEW p \in Collectors, NEW e \in events[p],
         UpdateVehicleJourney(p, e)
  PROVE  UcInv'
<1> DEFINE up == answer[p].monitored /\ answer[p].way # "push"
<1> DEFINE w == [kind |-> "journey", of |-> e.of, val |-> [monitored |-> up]]
<1>1. e.kind = "journey" /\ Next1(p, e) /\ held' = held
  BY DEF UpdateVehicleJourney
<1>2. LineOf(e.of) \in lines
  BY <1>1, UcLineBefore
<1>3. writes' = [writes EXCEPT ![p] = {w}] /\ pc' = [pc EXCEPT ![p] = "commit"]
  BY <1>2 DEF UpdateVehicleJourney, Commits
<1>4. e \in Event
  BY DEF UcInv, UcCollectorsOK
<1>5. up \in BOOLEAN
  BY DEF UcInv, UcCollectorsOK, Answer
<1> HIDE DEF up
<1>6. w \in Write /\ w.kind = "journey" /\ w.of = e.of
  BY <1>1, <1>4, <1>5, UcKinds DEF Write
<1> HIDE DEF w
<1> QED
  BY <1>1, <1>3, <1>6, UcCommits

\* updateNotCollected.
LEMMA UcUpdateNotCollectedStep ==
  ASSUME UcInv, NEW p \in Collectors, NEW e \in events[p],
         UpdateNotCollected(p, e)
  PROVE  UcInv'
<1>1. /\ UcCollectorsOK /\ UcTransaction(p) /\ UcOrigins
  BY DEF UcInv
<1>2. e.kind = "notCollected" /\ Next1(p, e) /\ held' = held /\ pc[p] = "events"
  BY DEF UpdateNotCollected, Next1
<1>3. e.of \in Visits
  <2>1. e \in Event
    BY <1>1 DEF UcCollectorsOK
  <2> QED
    BY <1>2, <2>1, UcKinds
<1>4. CASE visits[e.of] = Absent
  <2>1. /\ pc' = [pc EXCEPT ![p] = "events"]
        /\ writes' = [writes EXCEPT ![p] = {}] /\ held' = [held EXCEPT ![p] = {}]
    BY <1>1, <1>2, <1>4 DEF UpdateNotCollected, UcCollectorsOK, UcTransaction
  <2>2. UcMay(e, "events", {}, {})
    BY <1>2 DEF UcMay, UcPcs
  <2> QED
    BY <1>2, <2>1, <2>2, UcUpdate
<1>5. CASE visits[e.of] # Absent
  <2> DEFINE new == [visits[e.of] EXCEPT !.collected = FALSE]
  <2> DEFINE w == [kind |-> "visit", of |-> e.of, val |-> new]
  <2>1. writes' = [writes EXCEPT ![p] = {w}] /\ pc' = [pc EXCEPT ![p] = "commit"]
    BY <1>5 DEF UpdateNotCollected, Commits
  <2>2. visits[e.of] \in Visit /\ e.of \in Provides(visits[e.of].origin)
    BY <1>1, <1>3, <1>5, UcRead DEF UcOrigins
  <2>3. new \in Visit /\ new.origin = visits[e.of].origin
    BY <2>2 DEF Visit
  <2> HIDE DEF new
  <2>4. w \in Write /\ w.kind = "visit" /\ w.of = e.of /\ w.val = new
    BY <1>3, <2>3 DEF Write
  <2> HIDE DEF w
  <2> QED
    BY <1>2, <2>1, <2>2, <2>3, <2>4, UcCommits
<1> QED
  BY <1>4, <1>5

\* The stop area and the vehicle journey of a stop visit are there before it.
LEMMA UcVisitBefore ==
  ASSUME UcInv, NEW p \in Collectors, NEW e \in events[p], Next1(p, e),
         e.kind = "visit"
  PROVE  /\ e.of \in Visits /\ e.of \in Provides(p)
         /\ areas[StopOf(e.of)] # Absent /\ journeys[JourneyOf(e.of)] # Absent
<1>1. /\ UcCollectorsOK /\ UcOwn(p) /\ pc[p] = "events"
      /\ \A f \in events[p] : BroadcastRank(e) <= BroadcastRank(f)
  BY DEF UcInv, Next1
<1>2. answer[p] \in Answer /\ e \in BuildUpdateEvents(answer[p])
  BY <1>1 DEF UcCollectorsOK, UcOwn
<1>3. e.of \in answer[p].sent
  BY <1>2, UcBuilt
<1>4. e.of \in Visits /\ e.of \in Provides(p)
  BY <1>1, <1>2, <1>3 DEF Answer, UcOwn
<1> DEFINE f == [kind |-> "area", of |-> StopOf(e.of)]
<1> DEFINE g == [kind |-> "journey", of |-> JourneyOf(e.of)]
<1>5. f \in BuildUpdateEvents(answer[p]) /\ g \in BuildUpdateEvents(answer[p])
  BY <1>3, UcBuilds
<1>6. f \notin events[p] /\ g \notin events[p]
  BY <1>1 DEF BroadcastRank
<1>7. UcApplied(f) /\ UcApplied(g)
  BY <1>1, <1>5, <1>6, UcBefore
<1> QED
  BY <1>4, <1>7 DEF UcApplied

\* What updateStopVisit saves.
LEMMA UcSavesOfVisit ==
  ASSUME UcInv, NEW p \in Collectors, NEW v \in Visits, v \in Provides(p),
         areas[StopOf(v)] # Absent
  PROVE  /\ SavesOfVisit(p, v) \subseteq Write
         /\ \E w \in SavesOfVisit(p, v) : w.kind = "visit" /\ w.of = v
         /\ \A w \in SavesOfVisit(p, v) :
              w.kind = "visit" => w.of \in Provides(w.val.origin)
<1>1. /\ StopOf(v) \in Stops /\ JourneyOf(v) \in Journeys
      /\ LineOf(JourneyOf(v)) \in Lines
  BY UpdatesAssumption DEF UpdatesAssumption
<1>2. answer[p].monitored \in BOOLEAN
  BY DEF UcInv, UcCollectorsOK, Answer
<1>3. StopAreaOfVisit(p, v) \subseteq Write
      /\ \A w \in StopAreaOfVisit(p, v) : w.kind = "area"
  <2> DEFINE new == [areas[StopOf(v)] EXCEPT !.lineIds = @ \cup {LineOf(JourneyOf(v))}]
  <2>1. areas[StopOf(v)] \in Area
    BY <1>1, UcRead
  <2>2. new \in Area
    BY <1>1, <2>1 DEF Area
  <2> HIDE DEF new
  <2> DEFINE w == [kind |-> "area", of |-> StopOf(v), val |-> new]
  <2>3. StopAreaOfVisit(p, v) \subseteq {w}
    BY DEF StopAreaOfVisit, new
  <2>4. w \in Write /\ w.kind = "area"
    BY <1>1, <2>2 DEF Write
  <2> HIDE DEF w
  <2> QED
    BY <2>3, <2>4
<1>4. JourneyOfVisit(p, v) \subseteq Write
      /\ \A w \in JourneyOfVisit(p, v) : w.kind = "journey"
  <2> DEFINE w == [kind |-> "journey", of |-> JourneyOf(v),
                   val |-> [monitored |-> answer[p].monitored]]
  <2>1. JourneyOfVisit(p, v) \subseteq {w}
    BY DEF JourneyOfVisit
  <2>2. w \in Write /\ w.kind = "journey"
    BY <1>1, <1>2 DEF Write
  <2> HIDE DEF w
  <2> QED
    BY <2>1, <2>2
<1> DEFINE from == IF visits[v] = Absent THEN p ELSE visits[v].origin
<1> DEFINE new == [origin |-> from, collected |-> TRUE]
<1> DEFINE w == [kind |-> "visit", of |-> v, val |-> new]
<1>5. from \in Collectors /\ v \in Provides(from)
  BY UcRead DEF UcInv, UcOrigins, Visit
<1>6. SavesOfVisit(p, v) = StopAreaOfVisit(p, v) \cup JourneyOfVisit(p, v) \cup {w}
  BY DEF SavesOfVisit
<1> HIDE DEF from
<1>7. new \in Visit /\ new.origin = from
  BY <1>5 DEF Visit
<1> HIDE DEF new
<1>8. w \in Write /\ w.kind = "visit" /\ w.of = v /\ w.val = new
  BY <1>7 DEF Write
<1> HIDE DEF w
<1> QED
  BY <1>3, <1>4, <1>5, <1>6, <1>7, <1>8

\* updateStopVisit.
LEMMA UcUpdateStopVisitStep ==
  ASSUME UcInv, NEW p \in Collectors, NEW e \in events[p], UpdateStopVisit(p, e)
  PROVE  UcInv'
<1>1. e.kind = "visit" /\ Next1(p, e)
  BY DEF UpdateStopVisit
<1>2. /\ e.of \in Visits /\ e.of \in Provides(p)
      /\ areas[StopOf(e.of)] # Absent /\ journeys[JourneyOf(e.of)] # Absent
  BY <1>1, UcVisitBefore
<1> DEFINE W == SavesOfVisit(p, e.of)
<1>3. /\ W \subseteq Write /\ \E w \in W : w.kind = "visit" /\ w.of = e.of
      /\ \A w \in W : w.kind = "visit" => w.of \in Provides(w.val.origin)
  BY <1>2, UcSavesOfVisit
<1>4. \/ /\ pc' = [pc EXCEPT ![p] = "commit"]
         /\ writes' = [writes EXCEPT ![p] = W] /\ held' = held
      \/ /\ pc' = [pc EXCEPT ![p] = "visitStatus"]
         /\ held' = [held EXCEPT ![p] = W] /\ writes' = writes
  BY <1>2 DEF UpdateStopVisit, Commits
<1> HIDE DEF W
<1>5. held = [held EXCEPT ![p] = {}] /\ writes = [writes EXCEPT ![p] = {}]
  BY <1>1 DEF UcInv, UcCollectorsOK, UcTransaction, Next1
<1>6. UcMay(e, "commit", W, {}) /\ UcMay(e, "visitStatus", {}, W)
  BY <1>1, <1>2, <1>3 DEF UcMay, UcPcs
<1> QED
  BY <1>1, <1>4, <1>5, <1>6, UcUpdate

\* A stop area that exists is one of its ascendants; they exist.
LEMMA UcAscendants ==
  /\ \A s \in Stops : areas[s] # Absent => s \in FindAscendants(s)
  /\ \A s \in Stops : \A a \in FindAscendants(s) : a \in Stops /\ areas[a] # Absent
  BY DEF FindAscendants

\* updateStatus and updateMonitoredStopArea.
LEMMA UcUpdateStatusStep ==
  ASSUME UcInv, NEW p \in Collectors, UpdateStatus(p)
  PROVE  UcInv'
<1>1. /\ UcModelOK /\ UcCollectorsOK
      /\ UcTransaction(p) /\ UcKept(p) /\ UcOwn(p)
  BY DEF UcInv
<1>2. PICK s \in {event[p].of, StopOf(event[p].of)}, up \in BOOLEAN,
           c \in {"commit", "visitCommit"} :
        /\ \/ pc[p] = "areaStatus" /\ s = event[p].of /\ c = "commit"
           \/ pc[p] = "visitStatus" /\ s = StopOf(event[p].of) /\ c = "visitCommit"
        /\ writes' = [writes EXCEPT ![p] = SetPartnerStatus(p, s, up)]
        /\ pc' = [pc EXCEPT ![p] = c]
  <2>1. answer[p].monitored \in BOOLEAN
    BY <1>1 DEF UcCollectorsOK, Answer
  <2>2. CASE pc[p] = "areaStatus"
    <3>1. /\ writes' = [writes EXCEPT ![p] = SetPartnerStatus(p, event[p].of, TRUE)]
          /\ pc' = [pc EXCEPT ![p] = "commit"]
      BY <2>2 DEF UpdateStatus, Commits
    <3> QED
      BY <2>2, <3>1
  <2>3. CASE pc[p] = "visitStatus"
    <3> DEFINE up == answer[p].monitored
    <3>1. /\ writes' = [writes EXCEPT
               ![p] = SetPartnerStatus(p, StopOf(event[p].of), up)]
          /\ pc' = [pc EXCEPT ![p] = "visitCommit"]
      BY <2>3 DEF UpdateStatus, Commits
    <3> HIDE DEF up
    <3> QED
      BY <2>1, <2>3, <3>1 DEF up
  <2> QED
    BY <2>2, <2>3 DEF UpdateStatus
<1>3. /\ UNCHANGED modelVars
      /\ UNCHANGED <<answer, events, event, held, refs, monitored, answers>>
  BY DEF UpdateStatus, loopVars
<1>4. s \in Stops /\ areas[s] # Absent
  <2>1. event[p] \in Event
    BY <1>1, <1>2 DEF UcCollectorsOK, UcTransaction, NoEvent
  <2> QED
    BY <1>1, <1>2, <2>1, UcKinds, UpdatesAssumption
       DEF UcTransaction, UpdatesAssumption
<1> DEFINE W == SetPartnerStatus(p, s, up)
<1>5. W \subseteq Write /\ W # {} /\ \A w \in W : w.kind = "area"
  <2> DEFINE write(a) == [kind |-> "area", of |-> a,
                          val |-> [areas[a] EXCEPT !.origins[p] = ToStatus(up)]]
  <2>1. ASSUME NEW a \in FindAscendants(s)
        PROVE  write(a) \in Write /\ write(a).kind = "area"
    <3>1. a \in Stops /\ areas[a] \in Area
      BY <1>4, UcAscendants, UcRead
    <3>2. [areas[a] EXCEPT !.origins[p] = ToStatus(up)] \in Area
      BY <3>1 DEF Area, ToStatus, PartnerStatus
    <3> QED
      BY <3>1, <3>2 DEF Write
  <2>2. W = {write(a) : a \in FindAscendants(s)} /\ s \in FindAscendants(s)
    BY <1>4, UcAscendants DEF SetPartnerStatus
  <2> HIDE DEF W, write
  <2> QED
    BY <2>1, <2>2
<1> HIDE DEF W
<1>6. UcCollectorsOK'
  <2>1. pc' \in [Collectors -> UcPcs] /\ writes' \in [Collectors -> SUBSET Write]
    BY <1>1, <1>2, <1>5 DEF UcCollectorsOK, UcPcs, W
  <2> QED
    BY <1>1, <1>3, <2>1 DEF UcCollectorsOK
<1>7. pc'[p] = c /\ writes'[p] = W /\ writes[p] = {}
  BY <1>1, <1>2 DEF UcCollectorsOK, UcTransaction, W
<1>8. \A u \in Collectors \ {p} : UcSame(u)
  BY <1>1, <1>2, <1>3 DEF UcCollectorsOK, UcSame
<1>9. UcTransaction(p)'
  BY <1>1, <1>2, <1>3, <1>5, <1>7 DEF UcTransaction
<1>10. UcKept(p)'
  BY <1>1, <1>3, <1>7 DEF UcKept, UcApplied, modelVars
<1>11. UcOwn(p)'
  BY <1>1, <1>3, <1>5, <1>7 DEF UcOwn, modelVars
<1> QED
  BY <1>3, <1>6, <1>8, <1>9, <1>10, <1>11, UcCollectorStep

-----------------------------------------------------------------------------
(* A transaction commits, one object after the other.                      *)

\* What a save does to the model.
LEMMA UcSaveModel ==
  ASSUME UcInv, NEW p \in Collectors, NEW w \in writes[p], CommitSave(p, w)
  PROVE  /\ UcModelOK' /\ UcGrows /\ UcOrigins'
         /\ \A e \in Event : e.kind = w.kind /\ e.of = w.of => UcApplied(e)'
<1>1. /\ UcModelOK /\ UcCollectorsOK /\ UcOrigins /\ UcOwn(p)
  BY DEF UcInv
<1>2. w \in Write
  BY <1>1 DEF UcCollectorsOK
<1>3. /\ areas' = IF w.kind = "area" THEN [areas EXCEPT ![w.of] = w.val] ELSE areas
      /\ lines' = IF w.kind = "line" THEN lines \cup {w.of} ELSE lines
      /\ journeys' = IF w.kind = "journey"
                     THEN [journeys EXCEPT ![w.of] = w.val] ELSE journeys
      /\ visits' = IF w.kind = "visit" THEN [visits EXCEPT ![w.of] = w.val]
                   ELSE visits
  BY DEF CommitSave
<1>4. Absent \notin Area /\ Absent \notin Visit /\ Absent \notin [monitored : BOOLEAN]
  BY UcRead
<1>5. CASE w.kind = "area"
  <2>1. /\ w.of \in Stops /\ w.val \in Area /\ w.val # Absent
        /\ areas' = [areas EXCEPT ![w.of] = w.val]
        /\ UNCHANGED <<lines, journeys, visits>>
    BY <1>2, <1>3, <1>4, <1>5, UcKinds
  <2>2. UcModelOK' /\ UcOrigins' /\ UcGrows
    BY <1>1, <2>1 DEF UcModelOK, UcOrigins, UcGrows
  <2>3. \A e : e.kind = w.kind /\ e.of = w.of => UcApplied(e)'
    BY <1>1, <1>5, <2>1 DEF UcModelOK, UcApplied
  <2> QED
    BY <2>2, <2>3
<1>6. CASE w.kind = "line"
  <2>1. /\ w.of \in Lines /\ lines' = lines \cup {w.of}
        /\ UNCHANGED <<areas, journeys, visits>>
    BY <1>2, <1>3, <1>6, UcKinds
  <2>2. UcModelOK' /\ UcOrigins' /\ UcGrows
    BY <1>1, <2>1 DEF UcModelOK, UcOrigins, UcGrows
  <2>3. \A e : e.kind = w.kind /\ e.of = w.of => UcApplied(e)'
    BY <1>6, <2>1 DEF UcApplied
  <2> QED
    BY <2>2, <2>3
<1>7. CASE w.kind = "journey"
  <2>1. /\ w.of \in Journeys /\ w.val \in [monitored : BOOLEAN] /\ w.val # Absent
        /\ journeys' = [journeys EXCEPT ![w.of] = w.val]
        /\ UNCHANGED <<areas, lines, visits>>
    BY <1>2, <1>3, <1>4, <1>7, UcKinds
  <2>2. UcModelOK' /\ UcOrigins' /\ UcGrows
    BY <1>1, <2>1 DEF UcModelOK, UcOrigins, UcGrows
  <2>3. \A e : e.kind = w.kind /\ e.of = w.of => UcApplied(e)'
    BY <1>1, <1>7, <2>1 DEF UcModelOK, UcApplied
  <2> QED
    BY <2>2, <2>3
<1>8. CASE w.kind = "visit"
  <2>1. /\ w.of \in Visits /\ w.val \in Visit /\ w.val # Absent
        /\ w.of \in Provides(w.val.origin)
        /\ visits' = [visits EXCEPT ![w.of] = w.val]
        /\ UNCHANGED <<areas, lines, journeys>>
    BY <1>1, <1>2, <1>3, <1>4, <1>8, UcKinds DEF UcOwn
  <2>2. UcModelOK' /\ UcGrows
    BY <1>1, <2>1 DEF UcModelOK, UcGrows
  <2>3. UcOrigins'
    BY <1>1, <2>1 DEF UcModelOK, UcOrigins
  <2>4. \A e : e.kind = w.kind /\ e.of = w.of => UcApplied(e)'
    BY <1>1, <1>8, <2>1 DEF UcModelOK, UcApplied
  <2> QED
    BY <2>2, <2>3, <2>4
<1> QED
  BY <1>2, <1>5, <1>6, <1>7, <1>8, UcKinds

\* What a save does to the collector.
LEMMA UcSaveCollector ==
  ASSUME UcInv, NEW p \in Collectors, NEW w \in writes[p], CommitSave(p, w)
  PROVE  /\ UcCollectorsOK' /\ \A u \in Collectors \ {p} : UcSame(u)
         /\ UNCHANGED <<answer, events, monitored>>
         /\ (writes[p] \cup held[p]) \ {w} \subseteq writes'[p] \cup held'[p]
         /\ writes'[p] \cup held'[p] \subseteq writes[p] \cup held[p]
         /\ (held'[p] # {}) = (pc'[p] \in {"visitStatus", "visitCommit"})
         /\ (writes'[p] # {}) = (pc'[p] \in {"commit", "areaCommit", "visitCommit"})
         /\ pc'[p] = "areaCommit" =>
              /\ pc[p] = "areaCommit" /\ event'[p] = event[p]
              /\ writes'[p] \subseteq writes[p]
         /\ pc'[p] = "areaStatus" => pc[p] = "areaCommit" /\ event'[p] = event[p]
         /\ pc'[p] # "visitStatus"
<1>1. UcCollectorsOK /\ UcTransaction(p)
  BY DEF UcInv
<1>2. /\ pc[p] \in {"commit", "areaCommit", "visitCommit"}
      /\ UNCHANGED <<answer, events, refs, monitored, answers>>
  BY DEF CommitSave, loopVars
<1>3. PICK c, n, W, H :
        /\ pc' = [pc EXCEPT ![p] = c] /\ event' = [event EXCEPT ![p] = n]
        /\ writes' = [writes EXCEPT ![p] = W] /\ held' = [held EXCEPT ![p] = H]
        /\ \/ /\ writes[p] # {w} /\ W = writes[p] \ {w}
              /\ c = pc[p] /\ n = event[p] /\ H = held[p]
           \/ /\ writes[p] = {w} /\ pc[p] = "commit"
              /\ c = "events" /\ n = NoEvent /\ W = {} /\ H = held[p]
           \/ /\ writes[p] = {w} /\ pc[p] = "areaCommit"
              /\ c = "areaStatus" /\ n = event[p] /\ W = {} /\ H = held[p]
           \/ /\ writes[p] = {w} /\ pc[p] = "visitCommit"
              /\ c = "commit" /\ n = event[p] /\ W = held[p] /\ H = {}
  <2>1. /\ pc = [pc EXCEPT ![p] = pc[p]] /\ event = [event EXCEPT ![p] = event[p]]
        /\ held = [held EXCEPT ![p] = held[p]]
    BY <1>1 DEF UcCollectorsOK
  <2>2. CASE writes[p] # {w}
    <3>1. /\ writes' = [writes EXCEPT ![p] = writes[p] \ {w}]
          /\ UNCHANGED <<pc, event, held>>
      BY <2>2 DEF CommitSave
    <3> QED
      BY <2>1, <2>2, <3>1
  <2>3. CASE writes[p] = {w} /\ pc[p] = "commit"
    <3>1. /\ pc' = [pc EXCEPT ![p] = "events"] /\ held' = held
          /\ event' = [event EXCEPT ![p] = NoEvent]
          /\ writes' = [writes EXCEPT ![p] = {}]
      BY <2>3 DEF CommitSave, CommitThen
    <3> QED
      BY <2>1, <2>3, <3>1
  <2>4. CASE writes[p] = {w} /\ pc[p] = "areaCommit"
    <3>1. /\ pc' = [pc EXCEPT ![p] = "areaStatus"]
          /\ writes' = [writes EXCEPT ![p] = {}] /\ UNCHANGED <<event, held>>
      BY <2>4 DEF CommitSave, CommitThen
    <3> QED
      BY <2>1, <2>4, <3>1
  <2>5. CASE writes[p] = {w} /\ pc[p] = "visitCommit"
    <3>1. /\ pc' = [pc EXCEPT ![p] = "commit"] /\ event' = event
          /\ writes' = [writes EXCEPT ![p] = held[p]]
          /\ held' = [held EXCEPT ![p] = {}]
      BY <2>5 DEF CommitSave, CommitThen
    <3> QED
      BY <2>1, <2>5, <3>1
  <2> QED
    BY <1>2, <2>2, <2>3, <2>4, <2>5
<1>4. /\ c \in UcPcs /\ n \in Event \cup {NoEvent}
      /\ W \subseteq Write /\ H \subseteq Write
  BY <1>1, <1>3 DEF UcCollectorsOK, UcPcs
<1>5. UcCollectorsOK'
  <2>1. /\ pc' \in [Collectors -> UcPcs]
        /\ event' \in [Collectors -> Event \cup {NoEvent}]
        /\ writes' \in [Collectors -> SUBSET Write]
        /\ held' \in [Collectors -> SUBSET Write]
    BY <1>1, <1>3, <1>4 DEF UcCollectorsOK
  <2> QED
    BY <1>1, <1>2, <2>1 DEF UcCollectorsOK
<1>6. /\ pc'[p] = c /\ event'[p] = n /\ writes'[p] = W /\ held'[p] = H
      /\ \A u \in Collectors \ {p} :
           /\ pc'[u] = pc[u] /\ event'[u] = event[u]
           /\ writes'[u] = writes[u] /\ held'[u] = held[u]
  BY <1>1, <1>3 DEF UcCollectorsOK
<1>7. \A u \in Collectors \ {p} : UcSame(u)
  BY <1>2, <1>6 DEF UcSame
<1> QED
  BY <1>1, <1>2, <1>3, <1>5, <1>6, <1>7 DEF UcTransaction

\* A save of a transaction.
LEMMA UcCommitSaveStep ==
  ASSUME UcInv, NEW p \in Collectors, NEW w \in writes[p], CommitSave(p, w)
  PROVE  UcInv'
<1>1. /\ UcCollectorsOK /\ UcTransaction(p) /\ UcKept(p) /\ UcOwn(p)
  BY DEF UcInv
<1>2. /\ UcModelOK' /\ UcGrows /\ UcOrigins'
      /\ \A e \in Event : e.kind = w.kind /\ e.of = w.of => UcApplied(e)'
  BY UcSaveModel
<1>3. /\ UcCollectorsOK' /\ \A u \in Collectors \ {p} : UcSame(u)
      /\ UNCHANGED <<answer, events, monitored>>
      /\ (writes[p] \cup held[p]) \ {w} \subseteq writes'[p] \cup held'[p]
      /\ writes'[p] \cup held'[p] \subseteq writes[p] \cup held[p]
  BY UcSaveCollector
<1>4. UcTransaction(p)'
  <2>1. /\ (held'[p] # {}) = (pc'[p] \in {"visitStatus", "visitCommit"})
        /\ (writes'[p] # {}) = (pc'[p] \in {"commit", "areaCommit", "visitCommit"})
        /\ pc'[p] = "areaCommit" =>
             /\ pc[p] = "areaCommit" /\ event'[p] = event[p]
             /\ writes'[p] \subseteq writes[p]
        /\ pc'[p] = "areaStatus" => pc[p] = "areaCommit" /\ event'[p] = event[p]
        /\ pc'[p] # "visitStatus"
    BY UcSaveCollector
  <2>2. ASSUME pc'[p] = "areaStatus"
        PROVE  event'[p].kind = "area" /\ areas'[event'[p].of] # Absent
    <3>1. /\ pc[p] = "areaCommit" /\ event'[p] = event[p]
          /\ event[p].kind = "area" /\ w.kind = "area" /\ w.of = event[p].of
      BY <1>1, <2>1, <2>2 DEF UcTransaction
    <3>2. event[p] \in Event
      BY <1>1, <3>1 DEF UcCollectorsOK, NoEvent
    <3>3. UcApplied(event[p])'
      BY <1>2, <3>1, <3>2
    <3> QED
      BY <3>1, <3>3 DEF UcApplied
  <2>3. pc'[p] = "areaCommit" =>
          /\ event'[p].kind = "area"
          /\ \A x \in writes'[p] : x.kind = "area" /\ x.of = event'[p].of
    BY <1>1, <2>1 DEF UcTransaction
  <2> QED
    BY <2>1, <2>2, <2>3 DEF UcTransaction
<1>5. UcKept(p)'
  <2> SUFFICES ASSUME NEW e \in BuildUpdateEvents(answer[p]), e.kind # "notCollected"
               PROVE  \/ e \in events[p] \/ UcApplied(e)'
                      \/ \E x \in writes'[p] \cup held'[p] :
                           x.kind = e.kind /\ x.of = e.of
    BY <1>3 DEF UcKept
  <2>1. e \in Event
    BY <1>1, UcBuilt DEF UcCollectorsOK
  <2>2. CASE UcApplied(e)
    BY <1>2, <2>1, <2>2, UcAppliedGrows
  <2>3. CASE \E x \in writes[p] \cup held[p] : x.kind = e.kind /\ x.of = e.of
    BY <1>2, <1>3, <2>1, <2>3
  <2> QED
    BY <1>1, <2>2, <2>3 DEF UcKept
<1>6. UcOwn(p)'
  <2>1. /\ \A e \in events[p] : e.kind = "notCollected" => e.of \in Visits
        /\ monitored[p] \subseteq Visits
    BY <1>1, UcKinds DEF UcCollectorsOK
  <2> QED
    BY <1>1, <1>2, <1>3, <2>1 DEF UcOwn, UcGrows
<1> QED
  BY <1>2, <1>3, <1>4, <1>5, <1>6, UcStep

-----------------------------------------------------------------------------
(* The theorems.                                                           *)

\* The reference data, and no answer.
LEMMA UcInitInv ==
  ASSUME UpdatesInit PROVE UcInv
<1>1. UcModelOK
  <2>1. NewArea \in Area
    BY DEF NewArea, Area, PartnerStatus
  <2> QED
    BY <2>1 DEF UpdatesInit, UcModelOK
<1>2. UcCollectorsOK
  <2>1. NoAnswer \in Answer
    BY DEF NoAnswer, Answer
  <2>2. answers \in [Collectors -> 0..MaxAnswers]
    BY UpdatesAssumption DEF UpdatesInit, UpdatesAssumption
  <2> QED
    BY <2>1, <2>2 DEF UpdatesInit, UcCollectorsOK, UcPcs
<1>3. UcOrigins
  BY DEF UpdatesInit, UcOrigins
<1>4. ASSUME NEW p \in Collectors
      PROVE  UcTransaction(p) /\ UcKept(p) /\ UcOwn(p)
  <2>1. /\ pc[p] = "idle" /\ answer[p] = NoAnswer /\ events[p] = {}
        /\ held[p] = {} /\ writes[p] = {} /\ monitored[p] = {}
    BY DEF UpdatesInit
  <2>2. NoAnswer.sent = {} /\ NoAnswer.cancelled = {}
    BY DEF NoAnswer
  <2>3. BuildUpdateEvents(NoAnswer) = {}
    BY <2>2 DEF BuildUpdateEvents, StopsOf
  <2> QED
    BY <2>1, <2>2, <2>3 DEF UcTransaction, UcKept, UcOwn
<1> QED
  BY <1>1, <1>2, <1>3, <1>4 DEF UcInv

\* Every step keeps the invariant.
LEMMA UcNextInv ==
  ASSUME UcInv, [UpdatesNext]_updatesVars PROVE UcInv'
<1>1. CASE UNCHANGED updatesVars
  <2>1. /\ UNCHANGED modelVars
        /\ UNCHANGED <<pc, answer, events, event, held, writes, refs, monitored,
                       answers>>
    BY <1>1 DEF updatesVars, eventVars, loopVars
  <2>2. UcCollectorsOK' /\ UcModelOK' /\ UcOrigins' /\ UcGrows
    BY <2>1 DEF UcInv, UcCollectorsOK, UcModelOK, UcOrigins, UcGrows, modelVars
  <2>3. ASSUME NEW p \in Collectors
        PROVE  UcTransaction(p)' /\ UcKept(p)' /\ UcOwn(p)'
    BY <2>1, <2>2, UcOthers DEF UcSame
  <2> QED
    BY <2>2, <2>3 DEF UcInv
<1>2. ASSUME NEW p \in Collectors,
             \/ Collect(p)
             \/ \E e \in events[p] : Update1(p, e)
             \/ UpdateStatus(p)
             \/ \E w \in writes[p] : CommitSave(p, w)
             \/ \E s \in Stops : NotInResponse(p, s)
             \/ Handled(p)
      PROVE  UcInv'
  <2>1. CASE \E e \in events[p] : Update1(p, e)
    BY <2>1, UcUpdateStopAreaStep, UcUpdateLineStep,
       UcUpdateVehicleJourneyStep, UcUpdateStopVisitStep,
       UcUpdateNotCollectedStep DEF Update1
  <2> QED
    BY <1>2, <2>1, UcCollectStep, UcUpdateStatusStep, UcCommitSaveStep,
       UcNotInResponseStep, UcHandledStep
<1> QED
  BY <1>1, <1>2 DEF UpdatesNext

\* The invariant of the collectors and of the update manager, for any number of
\* partners: answers, transactions and the model fit together although nothing
\* locks an object between its read and its save.
THEOREM UpdatesInvariance == UpdatesSpec => []UcInv
<1>1. UpdatesInit => UcInv
  BY UcInitInv
<1>2. UcInv /\ [UpdatesNext]_updatesVars => UcInv'
  BY UcNextInv
<1> QED
  BY <1>1, <1>2, PTL DEF UpdatesSpec

\* Types; the two transactions of updateStopVisit leave nothing behind.
THEOREM UpdatesTypeCorrect == UpdatesSpec => []UpdatesTypeOK
<1>1. UcInv => UpdatesTypeOK
  BY DEF UcInv, UcModelOK, UcCollectorsOK, UcPcs, UcTransaction, UpdatesTypeOK
<1> QED
  BY <1>1, UpdatesInvariance, PTL

\* Once the events of an answer were broadcast, in their order, every stop visit
\* of it is in the model: no event finds that its stop area, its line or its
\* vehicle journey is missing.
THEOREM NothingDropped == UpdatesSpec => []AnswerApplied
<1>1. ASSUME UcInv PROVE AnswerApplied
  <2> SUFFICES ASSUME NEW p \in Collectors, pc[p] = "events",
                      \A e \in events[p] : e.kind = "notCollected",
                      NEW v \in answer[p].sent
               PROVE  visits[v] # Absent
    BY DEF AnswerApplied
  <2> DEFINE e == [kind |-> "visit", of |-> v]
  <2>1. e \in BuildUpdateEvents(answer[p]) /\ e \notin events[p]
    BY UcBuilds
  <2>2. UcApplied(e)
    BY <1>1, <2>1, UcBefore
  <2> QED
    BY <2>2 DEF UcApplied
<1> QED
  BY <1>1, UpdatesInvariance, PTL

\* A collector withdraws the stop visits of its own partner only, or those its
\* partner cancelled.
THEOREM OwnWithdrawn == UpdatesSpec => []WithdrawsItsOwn
<1>1. ASSUME UcInv PROVE WithdrawsItsOwn
  <2> SUFFICES ASSUME NEW p \in Collectors, NEW v \in Visits,
                      [kind |-> "notCollected", of |-> v] \in events[p]
               PROVE  v \in answer[p].cancelled \/ visits[v].origin = p
    BY DEF WithdrawsItsOwn
  <2>1. v \in answer[p].cancelled \/ (visits[v] # Absent /\ v \in Provides(p))
    BY <1>1 DEF UcInv, UcOwn
  <2>2. ASSUME visits[v] # Absent, v \in Provides(p) PROVE visits[v].origin = p
    <3>1. visits[v].origin \in Collectors /\ v \in Provides(visits[v].origin)
      BY <1>1, <2>2, UcRead DEF UcInv, UcOrigins, Visit
    <3> QED
      BY <2>2, <3>1, UpdatesAssumption DEF UpdatesAssumption
  <2> QED
    BY <2>1, <2>2
<1> QED
  BY <1>1, UpdatesInvariance, PTL

-----------------------------------------------------------------------------
(* The parents of stop areas, when partners answer for at most one of the  *)
(* stop areas they are asked for with a stop visit of its own: the others   *)
(* they are asked for are above the stops of their stop visits.            *)

UcAnswers(s) == \E p \in Collectors : \E v \in Provides(p) : StopOf(v) = s
UcOneOfBoth ==
  \A r, s \in Requested : UcAnswers(r) /\ UcAnswers(s) => r = s

\* A stop area with a parent is one partners answer for, and its parent is
\* another one, that they are asked for.
UcParent(s, a) ==
  a # Absent /\ a.parent # Absent =>
    UcAnswers(s) /\ a.parent \in Requested \ {s}

UcParentsOf(p) ==
  /\ answer[p].root \in Requested \cup {Absent}
  /\ \A w \in writes[p] \cup held[p] : w.kind = "area" => UcParent(w.of, w.val)

UcParents ==
  /\ \A s \in Stops : UcParent(s, areas[s])
  /\ \A p \in Collectors : UcParentsOf(p)

\* The answers that come.
LEMMA UcRoots ==
  ASSUME UcInv, UcParents, NEW p \in Collectors, Collect(p)
  PROVE  UcParents'
<1>1. PICK sent \in SUBSET Provides(p), mon \in Monitoring :
        \/ \E stop \in Requested : RequestStopAreaUpdate(p, stop, sent, mon)
        \/ \E root \in Requested, lost \in SUBSET Provides(p) :
             HandleNotifyStopMonitoring(p, root, sent, lost, mon)
        \/ HandlePushNotification(p, sent, mon)
  BY DEF Collect
<1>2. PICK ans : /\ ans.root \in Requested \cup {Absent}
                 /\ answer' = [answer EXCEPT ![p] = ans]
  BY <1>1 DEF RequestStopAreaUpdate, HandleNotifyStopMonitoring,
              HandlePushNotification, Receive
<1>3. UNCHANGED <<areas, writes, held>>
  BY <1>1 DEF RequestStopAreaUpdate, HandleNotifyStopMonitoring,
              HandlePushNotification, Receive, modelVars, eventVars
<1>4. answer \in [Collectors -> Answer]
  BY DEF UcInv, UcCollectorsOK
<1>5. \A u \in Collectors : answer'[u].root \in Requested \cup {Absent}
  BY <1>2, <1>4 DEF UcParents, UcParentsOf
<1> QED
  BY <1>3, <1>5 DEF UcParents, UcParentsOf

\* The stop areas that are to be saved: as they were, or with a new parent.
LEMMA UcParentWrites ==
  ASSUME UcInv, UcParents, NEW p \in Collectors,
         \/ \E e \in events[p] : Update1(p, e)
         \/ UpdateStatus(p)
         \/ \E w \in writes[p] : CommitSave(p, w)
         \/ \E s \in Stops : NotInResponse(p, s)
         \/ Handled(p),
         NEW u \in Collectors, NEW w \in writes'[u] \cup held'[u], w.kind = "area"
  PROVE  UcParent(w.of, w.val)
<1>1. /\ UcModelOK /\ UcCollectorsOK
      /\ \A x \in Collectors : UcTransaction(x) /\ UcOwn(x)
  BY DEF UcInv
<1>2. /\ writes \in [Collectors -> SUBSET Write]
      /\ held \in [Collectors -> SUBSET Write]
  BY <1>1 DEF UcCollectorsOK
<1> DEFINE Goal == \/ w \in writes[u] \cup held[u]
                   \/ /\ w.of \in Stops /\ areas[w.of] # Absent
                      /\ w.val.parent = areas[w.of].parent
                   \/ UcParent(w.of, w.val)
<1>3. ASSUME NEW e \in events[p], UpdateStopArea(p, e) PROVE Goal
  <2> DEFINE sa == IF areas[e.of] = Absent THEN NewArea ELSE areas[e.of]
  <2> DEFINE parent == IF sa.parent = Absent THEN ParentOf(p, e.of) ELSE sa.parent
  <2> DEFINE new == [sa EXCEPT !.parent = parent]
  <2> DEFINE x == [kind |-> "area", of |-> e.of, val |-> new]
  <2>1. /\ writes' = [writes EXCEPT ![p] = {x}] /\ held' = held
        /\ e.kind = "area"
    BY <1>3 DEF UpdateStopArea, Commits
  <2>2. e.of \in Stops
    <3>1. e \in Event
      BY <1>1 DEF UcCollectorsOK
    <3> QED
      BY <2>1, <3>1, UcKinds
  <2>3. UcAnswers(e.of)
    <3>1. answer[p] \in Answer /\ e \in BuildUpdateEvents(answer[p])
      BY <1>1, <2>1 DEF UcOwn, UcCollectorsOK
    <3>2. PICK v \in answer[p].sent : e.of = StopOf(v)
      BY <2>1, <3>1, UcBuilt
    <3> QED
      BY <1>1, <3>2 DEF UcOwn, UcAnswers
  <2>4. sa \in Area
    BY <2>2, UcRead
  <2>5. parent \in Requested \ {e.of} \/ parent = Absent
    <3>1. CASE sa.parent # Absent
      BY <2>2, <3>1 DEF UcParents, UcParent, NewArea
    <3>2. CASE sa.parent = Absent
      BY <3>2 DEF UcParents, UcParentsOf, ParentOf
    <3> QED
      BY <3>1, <3>2
  <2> HIDE DEF sa, parent
  <2>6. new.parent = parent
    BY <2>4 DEF Area
  <2> HIDE DEF new
  <2>7. x.of = e.of /\ x.val = new
    OBVIOUS
  <2> HIDE DEF x
  <2>8. w = x \/ w \in writes[u] \cup held[u]
    BY <1>2, <2>1
  <2> QED
    BY <2>3, <2>5, <2>6, <2>7, <2>8 DEF UcParent
<1>4. ASSUME NEW e \in events[p],
             UpdateLine(p, e) \/ UpdateVehicleJourney(p, e) \/ UpdateNotCollected(p, e)
      PROVE  Goal
  <2>1. PICK x : /\ x.kind # "area" /\ held' = held
                 /\ writes' = [writes EXCEPT ![p] = {x}] \/ writes' = writes
    BY <1>4 DEF UpdateLine, UpdateVehicleJourney, UpdateNotCollected, Commits
  <2> QED
    BY <1>2, <2>1
<1>5. ASSUME NEW e \in events[p], UpdateStopVisit(p, e) PROVE Goal
  <2>1. /\ e.of \in Visits /\ e.of \in Provides(p) /\ areas[StopOf(e.of)] # Absent
    BY <1>5, UcVisitBefore DEF UpdateStopVisit
  <2>2. StopOf(e.of) \in Stops
    BY <2>1, UpdatesAssumption DEF UpdatesAssumption
  <2> DEFINE sa == areas[StopOf(e.of)]
  <2> DEFINE new == [sa EXCEPT !.lineIds = @ \cup {LineOf(JourneyOf(e.of))}]
  <2> DEFINE x == [kind |-> "area", of |-> StopOf(e.of), val |-> new]
  <2>3. \A y \in SavesOfVisit(p, e.of) : y = x \/ y.kind # "area"
    BY DEF SavesOfVisit, StopAreaOfVisit, JourneyOfVisit
  <2>4. new.parent = sa.parent /\ x.of = StopOf(e.of) /\ x.val = new
    <3>1. sa \in Area
      BY <2>1, <2>2, UcRead
    <3> QED
      BY <3>1 DEF Area
  <2> HIDE DEF x, new
  <2> DEFINE W == SavesOfVisit(p, e.of)
  <2>5. \/ writes' = [writes EXCEPT ![p] = W] /\ held' = held
        \/ held' = [held EXCEPT ![p] = W] /\ writes' = writes
        \/ held' = held /\ writes' = writes
    BY <1>5 DEF UpdateStopVisit, Commits
  <2> HIDE DEF W
  <2>6. w \in W \/ w \in writes[u] \cup held[u]
    BY <1>2, <2>5
  <2>7. w = x \/ w \in writes[u] \cup held[u]
    BY <2>3, <2>6 DEF W
  <2> QED
    BY <2>1, <2>2, <2>4, <2>7
<1>6. ASSUME UpdateStatus(p) PROVE Goal
  <2>1. PICK s \in {event[p].of, StopOf(event[p].of)}, up \in {TRUE, answer[p].monitored} :
          /\ writes' = [writes EXCEPT ![p] = SetPartnerStatus(p, s, up)]
          /\ held' = held
    BY <1>6 DEF UpdateStatus, Commits
  <2> DEFINE write(a) == [kind |-> "area", of |-> a,
                          val |-> [areas[a] EXCEPT !.origins[p] = ToStatus(up)]]
  <2>2. ASSUME NEW a \in FindAscendants(s)
        PROVE  /\ write(a).of \in Stops /\ areas[write(a).of] # Absent
               /\ write(a).val.parent = areas[write(a).of].parent
    <3>1. a \in Stops /\ areas[a] # Absent
      BY DEF FindAscendants
    <3>2. areas[a] \in Area
      BY <3>1, UcRead
    <3> QED
      BY <3>1, <3>2 DEF Area
  <2> DEFINE W == SetPartnerStatus(p, s, up)
  <2>3. W = {write(a) : a \in FindAscendants(s)}
    BY DEF SetPartnerStatus
  <2> HIDE DEF W, write
  <2>4. w \in W \/ w \in writes[u] \cup held[u]
    BY <1>2, <2>1 DEF W
  <2> QED
    BY <2>2, <2>3, <2>4
<1>7. ASSUME NEW x \in writes[p], CommitSave(p, x) PROVE Goal
  <2>1. /\ writes'[p] \cup held'[p] \subseteq writes[p] \cup held[p]
        /\ \A y \in Collectors \ {p} : UcSame(y)
    BY <1>7, UcSaveCollector
  <2> QED
    BY <2>1 DEF UcSame
<1>8. ASSUME (\E s \in Stops : NotInResponse(p, s)) \/ Handled(p) PROVE Goal
  BY <1>8 DEF NotInResponse, Handled, eventVars
<1>9. Goal
  BY <1>3, <1>4, <1>5, <1>6, <1>7, <1>8 DEF Update1
<1> QED
  BY <1>9 DEF UcParents, UcParentsOf, UcParent

\* Every step keeps the parents so.
LEMMA UcParentsStep ==
  ASSUME UcInv, UcParents, [UpdatesNext]_updatesVars PROVE UcParents'
<1>1. CASE UNCHANGED updatesVars
  BY <1>1
  DEF updatesVars, modelVars, eventVars, UcParents, UcParentsOf, UcParent
<1>2. ASSUME NEW p \in Collectors,
             \/ \E e \in events[p] : Update1(p, e)
             \/ UpdateStatus(p)
             \/ \E w \in writes[p] : CommitSave(p, w)
             \/ \E s \in Stops : NotInResponse(p, s)
             \/ Handled(p)
      PROVE  UcParents'
  <2>1. ASSUME NEW u \in Collectors PROVE answer'[u].root \in Requested \cup {Absent}
    <3>1. answer' = answer \/ answer' = [answer EXCEPT ![p] = NoAnswer]
      BY <1>2 DEF Update1, UpdateStopArea, UpdateLine, UpdateVehicleJourney,
                  UpdateStopVisit, UpdateNotCollected, Next1, UpdateStatus,
                  CommitSave, NotInResponse, Handled
    <3>2. answer \in [Collectors -> Answer] /\ NoAnswer.root = Absent
      BY DEF UcInv, UcCollectorsOK, NoAnswer
    <3> QED
      BY <3>1, <3>2 DEF UcParents, UcParentsOf
  <2>2. ASSUME NEW s \in Stops PROVE UcParent(s, areas'[s])
    <3>1. areas' = areas \/ \E w \in writes[p] : /\ w.kind = "area"
                                                /\ areas' = [areas EXCEPT ![w.of] = w.val]
      BY <1>2 DEF Update1, UpdateStopArea, UpdateLine, UpdateVehicleJourney,
                  UpdateStopVisit, UpdateNotCollected, Next1, UpdateStatus,
                  CommitSave, NotInResponse, Handled, modelVars
    <3>2. areas \in [Stops -> Area \cup {Absent}]
      BY DEF UcInv, UcModelOK
    <3> QED
      BY <3>1, <3>2 DEF UcParents, UcParentsOf
  <2>3. ASSUME NEW u \in Collectors, NEW w \in writes'[u] \cup held'[u],
               w.kind = "area"
        PROVE  UcParent(w.of, w.val)
    BY <1>2, <2>3, UcParentWrites
  <2> QED
    BY <2>1, <2>2, <2>3 DEF UcParents, UcParentsOf, UcParent
<1> QED
  BY <1>1, <1>2, UcRoots DEF UpdatesNext

\* The parents of stop areas make no cycle, and FindAscendants and FindFamily
\* end, as long as partners answer with stop visits of at most one of the stop
\* areas they are asked for.  updateStopArea alone does not see to it.
THEOREM NoCycle ==
  ASSUME UcOneOfBoth PROVE UpdatesSpec => []ParentsAcyclic
<1>1. UpdatesInit => UcParents
  <2>1. NewArea.parent = Absent /\ NoAnswer.root = Absent
    BY DEF NewArea, NoAnswer
  <2> QED
    BY <2>1 DEF UpdatesInit, UcParents, UcParentsOf, UcParent
<1>2. UcInv /\ UcParents /\ [UpdatesNext]_updatesVars => UcParents'
  BY UcParentsStep
<1>3. UcInv /\ UcParents => ParentsAcyclic
  <2> SUFFICES ASSUME UcInv, UcParents, NEW s \in Stops,
                      areas[s] # Absent, areas[s].parent # Absent
               PROVE  s \notin FindAscendants(areas[s].parent)
    BY DEF ParentsAcyclic
  <2> DEFINE r == areas[s].parent
  <2> DEFINE T == {x \in Stops : \/ x = r
                                 \/ areas[r] # Absent /\ x = areas[r].parent}
  <2>1. Requested \subseteq Stops /\ Absent \notin Stops
    BY UpdatesAssumption DEF UpdatesAssumption
  <2>2. UcAnswers(s) /\ r \in Requested \ {s}
    BY DEF UcParents, UcParent
  <2>3. ASSUME areas[r] # Absent, areas[r].parent # Absent
        PROVE  /\ areas[r].parent \in Requested \ {r}
               /\ ~UcAnswers(areas[r].parent) /\ UcAnswers(r)
    BY <2>1, <2>2, <2>3 DEF UcParents, UcParent, UcOneOfBoth
  <2>4. T \in ParentClosed
    BY <2>1, <2>3 DEF ParentClosed, UcParents, UcParent
  <2>5. r \in T /\ s \notin T
    BY <2>1, <2>2, <2>3
  <2> QED
    BY <2>4, <2>5 DEF FindAscendants
<1> QED
  BY <1>1, <1>2, <1>3, UpdatesInvariance, PTL DEF UpdatesSpec
=============================================================================
