-------------------------- MODULE CollectUpdates --------------------------
(***************************************************************************)
(* From a partner's answer to the model: a collector (StopMonitoring       *)
(* request, StopMonitoring notification or push) turns what the partner     *)
(* sent into update events and hands them one by one to the UpdateManager,  *)
(* which finds the object, changes a copy and commits it in a transaction.  *)
(* Several collectors run at the same time and nothing locks an object      *)
(* between the moment it is read and the moment its copy is saved.          *)
(*                                                                         *)
(* A stop visit is named by its ItemIdentifier, a stop area by its          *)
(* StopPointRef.  Each partner has its own kind of object ids: what two     *)
(* partners have in common are the stop areas of the reference data, which  *)
(* have both kinds, and no object is created twice (ModelStores is about    *)
(* that).  Nothing is deleted.  Names, times and attributes are left out,   *)
(* and so are the vehicles of push notifications and the referents of stop  *)
(* areas, which nothing here reads.                                        *)
(***************************************************************************)
EXTENDS Integers

CONSTANTS
  Collectors,      \* one connector of each partner, its Origin
  Stops, Visits, Journeys, Lines,
  StopOf(_),       \* StopPointRef of a monitored stop visit
  JourneyOf(_),    \* its DatedVehicleJourneyRef
  LineOf(_),       \* the LineRef of a vehicle journey
  Provides(_),     \* the stop visits of a partner
  Requested,       \* the stop areas collectors ask for (they exist)
  Absent,          \* no object, no parent
  Ways,            \* how they collect: "request", "notify", "push"
  Monitoring,      \* what partners say of their stop visits, in BOOLEAN
  MaxAnswers       \* bound: answers one collector handles

ASSUME UpdatesAssumption ==
  /\ \A v \in Visits : StopOf(v) \in Stops /\ JourneyOf(v) \in Journeys
  /\ \A j \in Journeys : LineOf(j) \in Lines
  /\ \A p \in Collectors : Provides(p) \subseteq Visits
  /\ \A p, q \in Collectors : p # q =>
       \A v \in Provides(p), w \in Provides(q) :
         /\ v # w /\ JourneyOf(v) # JourneyOf(w)
         /\ LineOf(JourneyOf(v)) # LineOf(JourneyOf(w))
         /\ StopOf(v) = StopOf(w) => StopOf(v) \in Requested
  /\ Requested \subseteq Stops /\ MaxAnswers \in Nat
  /\ Ways \subseteq {"request", "notify", "push"} /\ Monitoring \subseteq BOOLEAN
  /\ Absent \notin Stops

VARIABLES
  areas,     \* [Stops -> Area or Absent]
  lines,     \* SUBSET Lines
  journeys,  \* [Journeys -> [monitored : BOOLEAN] or Absent]
  visits,    \* [Visits -> Visit or Absent]
  \* of each collector
  pc,        \* where it is in the answer
  answer,    \* the answer it handles
  events,    \* the update events still to broadcast
  event,     \* the one the UpdateManager handles
  held,      \* what updateStopVisit saves in its transaction
  writes,    \* what the transaction that commits has still to save
  refs,      \* the StopPointRefs whose missing stop visits are to look for
  monitored, \* monitoredStopVisits: the ones found collected so far
  answers    \* answers handled so far

modelVars == <<areas, lines, journeys, visits>>
eventVars == <<event, held, writes>>
loopVars == <<refs, monitored>>
updatesVars == <<modelVars, pc, answer, events, eventVars, loopVars, answers>>

PartnerStatus == {"unset", "up", "down"}
Area == [parent : Stops \cup {Absent}, origins : [Collectors -> PartnerStatus],
         lineIds : SUBSET Lines]
Visit == [origin : Collectors, collected : BOOLEAN]
Event == [kind : {"area"}, of : Stops] \cup [kind : {"line"}, of : Lines]
           \cup [kind : {"journey"}, of : Journeys]
           \cup [kind : {"visit", "notCollected"}, of : Visits]
\* an object a transaction saves
Write == [kind : {"area"}, of : Stops, val : Area]
           \cup [kind : {"line"}, of : Lines, val : {TRUE}]
           \cup [kind : {"journey"}, of : Journeys, val : [monitored : BOOLEAN]]
           \cup [kind : {"visit"}, of : Visits, val : Visit]
\* which visits the partner sent, whether it monitors them, the ones it
\* cancelled, the stop area it was asked for, and how it was collected
Answer == [sent : SUBSET Visits, monitored : BOOLEAN,
           cancelled : SUBSET Visits, root : Stops \cup {Absent},
           way : {"request", "notify", "push"}]
NoAnswer == [sent |-> {}, monitored |-> FALSE, cancelled |-> {},
             root |-> Absent, way |-> "push"]
NoEvent == [kind |-> "line", of |-> Absent]

ASSUME AbsentAssumption == Absent \notin Area \cup Visit \cup [monitored : BOOLEAN]

ToStatus(up) == IF up THEN "up" ELSE "down"

-----------------------------------------------------------------------------
(* The events of an answer, and the order they are broadcast in.           *)

StopsOf(sent) == {StopOf(v) : v \in sent}

\* buildUpdateEvents: the first stop visit of a stop, a line or a vehicle
\* journey makes its event; SetStopVisitCancellationEvents
BuildUpdateEvents(ans) ==
  {[kind |-> "area", of |-> s] : s \in StopsOf(ans.sent)}
    \cup {[kind |-> "line", of |-> LineOf(JourneyOf(v))] : v \in ans.sent}
    \cup {[kind |-> "journey", of |-> JourneyOf(v)] : v \in ans.sent}
    \cup {[kind |-> "visit", of |-> v] : v \in ans.sent}
    \cup {[kind |-> "notCollected", of |-> v] : v \in ans.cancelled}

RankJourneysLast(e) == \* mutant
  CASE e.kind = "area" -> 1 [] e.kind = "line" -> 2
    [] e.kind = "visit" -> 3 [] e.kind = "journey" -> 4
    [] e.kind = "notCollected" -> 5

\* broadcastUpdateEvents: stop areas, lines, vehicle journeys, stop visits,
\* then cancellations; the maps in between in any order
BroadcastRank(e) ==
  CASE e.kind = "area" -> 1 [] e.kind = "line" -> 2
    [] e.kind = "journey" -> 3 [] e.kind = "visit" -> 4
    [] e.kind = "notCollected" -> 5

ParentOfAny(p, s) == \* mutant
  IF answer[p].root = Absent THEN Absent ELSE answer[p].root

\* the parent an event gives a stop area that is not the one asked for
ParentOf(p, s) ==
  IF answer[p].root \in {Absent, s} \/ areas[answer[p].root] = Absent
  THEN Absent ELSE answer[p].root

-----------------------------------------------------------------------------
NewArea == [parent |-> Absent, origins |-> [p \in Collectors |-> "unset"],
            lineIds |-> {}]

UpdatesInit ==
  /\ areas = [s \in Stops |-> IF s \in Requested THEN NewArea ELSE Absent]
  /\ lines = {}
  /\ journeys = [j \in Journeys |-> Absent]
  /\ visits = [v \in Visits |-> Absent]
  /\ pc = [p \in Collectors |-> "idle"]
  /\ answer = [p \in Collectors |-> NoAnswer]
  /\ events = [p \in Collectors |-> {}]
  /\ event = [p \in Collectors |-> NoEvent]
  /\ held = [p \in Collectors |-> {}]
  /\ writes = [p \in Collectors |-> {}]
  /\ refs = [p \in Collectors |-> {}]
  /\ monitored = [p \in Collectors |-> {}]
  /\ answers = [p \in Collectors |-> 0]

\* a delivery with a true Status, or several of them merged; one that is an
\* error, or whose Status is false, sends nothing
Receive(p, ans) ==
  /\ pc[p] = "idle" /\ answers[p] < MaxAnswers
  /\ answers' = [answers EXCEPT ![p] = @ + 1]
  /\ answer' = [answer EXCEPT ![p] = ans]
  /\ events' = [events EXCEPT ![p] = BuildUpdateEvents(ans)]
  /\ refs' = [refs EXCEPT ![p] =
       IF ans.way = "request" THEN StopsOf(ans.sent) ELSE {}]
  /\ monitored' = [monitored EXCEPT ![p] = {}]
  /\ pc' = [pc EXCEPT ![p] = "events"]
  /\ UNCHANGED <<modelVars, eventVars>>

\* SIRIStopMonitoringRequestCollector.RequestStopAreaUpdate
RequestStopAreaUpdate(p, stop, sent, mon) ==
  /\ areas[stop] # Absent
  /\ Receive(p, [sent |-> sent, monitored |-> mon, cancelled |-> {},
                 root |-> stop, way |-> "request"])

\* HandleNotifyStopMonitoring of the subscription collector
HandleNotifyStopMonitoring(p, root, sent, cancelled, mon) ==
  Receive(p, [sent |-> sent, monitored |-> mon, cancelled |-> cancelled,
              root |-> root, way |-> "notify"])

\* PushCollector.HandlePushNotification: its stop areas have no parent
HandlePushNotification(p, sent, mon) ==
  Receive(p, [sent |-> sent, monitored |-> mon, cancelled |-> {},
              root |-> Absent, way |-> "push"])

-----------------------------------------------------------------------------
(* The UpdateManager: read and change a copy ...                           *)

Next1(p, e) ==
  /\ pc[p] = "events" /\ e \in events[p]
  /\ \A f \in events[p] : BroadcastRank(e) <= BroadcastRank(f)
  /\ events' = [events EXCEPT ![p] = @ \ {e}]
  /\ event' = [event EXCEPT ![p] = e]
  /\ UNCHANGED <<modelVars, answer, loopVars, answers>>

\* the copy is saved in a transaction that commits
Commits(p, saves, then) ==
  /\ writes' = [writes EXCEPT ![p] = saves]
  /\ pc' = [pc EXCEPT ![p] = then]

UpdateStopArea(p, e) ==
  /\ e.kind = "area" /\ Next1(p, e)
  /\ LET sa == IF areas[e.of] = Absent THEN NewArea ELSE areas[e.of]
         new == [sa EXCEPT !.parent = IF @ = Absent THEN ParentOf(p, e.of)
                                                    ELSE @]
     IN  Commits(p, {[kind |-> "area", of |-> e.of, val |-> new]},
                 IF sa.origins[p] = "up" THEN "commit" ELSE "areaCommit")
  /\ UNCHANGED held

UpdateLine(p, e) ==
  /\ e.kind = "line" /\ Next1(p, e)
  /\ Commits(p, {[kind |-> "line", of |-> e.of, val |-> TRUE]}, "commit")
  /\ UNCHANGED held

\* without its line, a new vehicle journey is ignored
UpdateVehicleJourney(p, e) ==
  /\ e.kind = "journey" /\ Next1(p, e)
  /\ IF journeys[e.of] = Absent /\ LineOf(e.of) \notin lines
     THEN UNCHANGED <<writes, pc>>
     ELSE Commits(p, {[kind |-> "journey", of |-> e.of,
                       val |-> [monitored |-> answer[p].monitored
                                              /\ answer[p].way # "push"]]},
                  "commit")
  /\ UNCHANGED held

\* vj.Line() # nil adds the line to the copy of the stop area, which is saved
\* with the stop visit
StopAreaOfVisit(p, v) ==
  LET sa == areas[StopOf(v)]
      l == LineOf(JourneyOf(v))
  IN  IF l \in lines
      THEN {[kind |-> "area", of |-> StopOf(v),
             val |-> [sa EXCEPT !.lineIds = @ \cup {l}]]}
      ELSE {}

JourneyOfVisit(p, v) ==
  IF journeys[JourneyOf(v)].monitored = answer[p].monitored THEN {}
  ELSE {[kind |-> "journey", of |-> JourneyOf(v),
         val |-> [monitored |-> answer[p].monitored]]}

SavesOfVisit(p, v) ==
  StopAreaOfVisit(p, v) \cup JourneyOfVisit(p, v)
    \cup {[kind |-> "visit", of |-> v,
           val |-> [origin |-> IF visits[v] = Absent THEN p
                               ELSE visits[v].origin,
                    collected |-> TRUE]]}

\* an event without its stop area or its vehicle journey is dropped; when the
\* partner's status of the stop area changes, it is updated before the commit
UpdateStopVisit(p, e) ==
  /\ e.kind = "visit" /\ Next1(p, e)
  /\ IF areas[StopOf(e.of)] = Absent \/ journeys[JourneyOf(e.of)] = Absent
     THEN UNCHANGED <<writes, held, pc>>
     ELSE IF areas[StopOf(e.of)].origins[p] = ToStatus(answer[p].monitored)
     THEN Commits(p, SavesOfVisit(p, e.of), "commit") /\ UNCHANGED held
     ELSE /\ held' = [held EXCEPT ![p] = SavesOfVisit(p, e.of)]
          /\ pc' = [pc EXCEPT ![p] = "visitStatus"]
          /\ UNCHANGED writes

\* updateNotCollected: an unknown stop visit is ignored
UpdateNotCollected(p, e) ==
  /\ e.kind = "notCollected" /\ Next1(p, e)
  /\ IF visits[e.of] = Absent
     THEN UNCHANGED <<writes, pc>>
     ELSE Commits(p, {[kind |-> "visit", of |-> e.of,
                       val |-> [visits[e.of] EXCEPT !.collected = FALSE]]},
                  "commit")
  /\ UNCHANGED held

\* FindAscendants: a stop area and the ones above it, the least set that has it
\* and the parents of its own
ParentClosed ==
  {T \in SUBSET Stops : \A s \in T :
     areas[s] # Absent /\ areas[s].parent # Absent => areas[s].parent \in T}
FindAscendants(s) ==
  {a \in Stops : /\ areas[a] # Absent
                 /\ \A T \in ParentClosed : s \in T => a \in T}

\* updateStatus and updateMonitoredStopArea: SetPartnerStatus on every one
SetPartnerStatus(p, s, up) ==
  {[kind |-> "area", of |-> a,
    val |-> [areas[a] EXCEPT !.origins[p] = ToStatus(up)]]
   : a \in FindAscendants(s)}

UpdateStatus(p) ==
  /\ \/ pc[p] = "areaStatus"
        /\ Commits(p, SetPartnerStatus(p, event[p].of, TRUE), "commit")
     \/ pc[p] = "visitStatus"
        /\ Commits(p, SetPartnerStatus(p, StopOf(event[p].of),
                                       answer[p].monitored), "visitCommit")
  /\ UNCHANGED <<modelVars, answer, events, event, held, loopVars, answers>>

-----------------------------------------------------------------------------
(* ... and commit: object by object, stop areas, then stop visits, vehicle  *)
(* journeys and lines.                                                     *)

CommitRank(w) == CASE w.kind = "area" -> 1 [] w.kind = "visit" -> 2
                   [] w.kind = "journey" -> 3 [] w.kind = "line" -> 4

CommitThenNothing(p) == \* mutant
  /\ pc' = [pc EXCEPT ![p] = IF @ = "areaCommit" THEN "areaStatus" ELSE "events"]
  /\ writes' = [writes EXCEPT ![p] = {}]
  /\ UNCHANGED <<event, held>>

\* what follows the last save of a transaction: the next event, updateStatus,
\* or the transaction of updateStopVisit, with what it read before the status
\* changed
CommitThen(p) ==
  CASE pc[p] = "commit" ->
         /\ pc' = [pc EXCEPT ![p] = "events"]
         /\ event' = [event EXCEPT ![p] = NoEvent]
         /\ writes' = [writes EXCEPT ![p] = {}]
         /\ UNCHANGED held
    [] pc[p] = "areaCommit" ->
         /\ pc' = [pc EXCEPT ![p] = "areaStatus"]
         /\ writes' = [writes EXCEPT ![p] = {}]
         /\ UNCHANGED <<event, held>>
    [] pc[p] = "visitCommit" ->
         /\ pc' = [pc EXCEPT ![p] = "commit"]
         /\ writes' = [writes EXCEPT ![p] = held[p]]
         /\ held' = [held EXCEPT ![p] = {}]
         /\ UNCHANGED event

CommitSave(p, w) ==
  /\ pc[p] \in {"commit", "areaCommit", "visitCommit"} /\ w \in writes[p]
  /\ \A x \in writes[p] : CommitRank(w) <= CommitRank(x)
  /\ areas' = IF w.kind = "area" THEN [areas EXCEPT ![w.of] = w.val] ELSE areas
  /\ lines' = IF w.kind = "line" THEN lines \cup {w.of} ELSE lines
  /\ journeys' = IF w.kind = "journey"
                 THEN [journeys EXCEPT ![w.of] = w.val] ELSE journeys
  /\ visits' = IF w.kind = "visit" THEN [visits EXCEPT ![w.of] = w.val]
               ELSE visits
  /\ IF writes[p] = {w}
     THEN CommitThen(p)
     ELSE /\ writes' = [writes EXCEPT ![p] = @ \ {w}]
          /\ UNCHANGED <<pc, event, held>>
  /\ UNCHANGED <<answer, events, loopVars, answers>>

-----------------------------------------------------------------------------
(* "Set all StopVisits not in the response not collected".                 *)

AnyOrigin(p, s) == {v \in Visits : visits[v] # Absent /\ StopOf(v) = s
                                   /\ visits[v].collected} \* mutant

\* the stop visits of that stop area that the partner provided and provides
FindMonitoredByOriginByStopAreaId(p, s) ==
  {v \in Visits : /\ visits[v] # Absent /\ StopOf(v) = s
                  /\ visits[v].collected /\ visits[v].origin = p}

\* one turn of the loop over updateEvents.StopVisits: the stop visits found in
\* the earlier turns are still in the list
NotInResponse(p, s) ==
  /\ pc[p] = "events" /\ events[p] = {} /\ s \in refs[p]
  /\ areas[s] # Absent
  /\ LET found == monitored[p] \cup FindMonitoredByOriginByStopAreaId(p, s)
         ofStop == {v \in answer[p].sent : StopOf(v) = s}
     IN  /\ monitored' = [monitored EXCEPT ![p] = found]
         /\ events' = [events EXCEPT ![p] =
              {[kind |-> "notCollected", of |-> v] : v \in found \ ofStop}]
  /\ refs' = [refs EXCEPT ![p] = @ \ {s}]
  /\ UNCHANGED <<modelVars, pc, answer, eventVars, answers>>

\* the answer is dealt with
Handled(p) ==
  /\ pc[p] = "events" /\ events[p] = {} /\ refs[p] = {}
  /\ pc' = [pc EXCEPT ![p] = "idle"]
  /\ answer' = [answer EXCEPT ![p] = NoAnswer]
  /\ monitored' = [monitored EXCEPT ![p] = {}]
  /\ UNCHANGED <<modelVars, events, eventVars, refs, answers>>

-----------------------------------------------------------------------------
Collect(p) ==
  \E sent \in SUBSET Provides(p), mon \in Monitoring :
    \/ "request" \in Ways /\ \E stop \in Requested :
         RequestStopAreaUpdate(p, stop, sent, mon)
    \/ "notify" \in Ways /\ \E root \in Requested, lost \in SUBSET Provides(p) :
         HandleNotifyStopMonitoring(p, root, sent, lost, mon)
    \/ "push" \in Ways /\ HandlePushNotification(p, sent, mon)

Update1(p, e) ==
  \/ UpdateStopArea(p, e) \/ UpdateLine(p, e) \/ UpdateVehicleJourney(p, e)
  \/ UpdateStopVisit(p, e) \/ UpdateNotCollected(p, e)

UpdatesNext ==
  \E p \in Collectors :
    \/ Collect(p)
    \/ \E e \in events[p] : Update1(p, e)
    \/ UpdateStatus(p)
    \/ \E w \in writes[p] : CommitSave(p, w)
    \/ \E s \in Stops : NotInResponse(p, s)
    \/ Handled(p)

UpdatesSpec == UpdatesInit /\ [][UpdatesNext]_updatesVars

-----------------------------------------------------------------------------
\* Types; an update leaves nothing uncommitted behind, whichever of its two
\* transactions it is in (updateStopVisit).
UpdatesTypeOK ==
  /\ areas \in [Stops -> Area \cup {Absent}]
  /\ lines \subseteq Lines
  /\ journeys \in [Journeys -> [monitored : BOOLEAN] \cup {Absent}]
  /\ visits \in [Visits -> Visit \cup {Absent}]
  /\ pc \in [Collectors -> {"idle", "events", "commit", "areaCommit",
                            "areaStatus", "visitStatus", "visitCommit"}]
  /\ answer \in [Collectors -> Answer]
  /\ \A p \in Collectors :
       /\ events[p] \subseteq Event /\ event[p] \in Event \cup {NoEvent}
       /\ held[p] \subseteq Write /\ writes[p] \subseteq Write
       /\ refs[p] \subseteq Stops /\ monitored[p] \subseteq Visits
       /\ (held[p] # {}) = (pc[p] \in {"visitStatus", "visitCommit"})
       /\ (writes[p] # {}) =
            (pc[p] \in {"commit", "areaCommit", "visitCommit"})
  /\ answers \in [Collectors -> 0..MaxAnswers]

\* The parents of stop areas make no cycle, in which FindAscendants and
\* FindFamily would recurse for ever: updateStopArea sets a parent that is never
\* checked against the ones there are.  It holds as long as no partner answers
\* for one of two stop areas with the other, both ways round.
ParentsAcyclic ==
  \A s \in Stops : areas[s] # Absent /\ areas[s].parent # Absent =>
    s \notin FindAscendants(areas[s].parent)

\* Nothing a partner sends is dropped on the way: once the collector has
\* broadcast the events of an answer, every stop visit of it is in the model.
AnswerApplied ==
  \A p \in Collectors :
    (pc[p] = "events" /\ \A e \in events[p] : e.kind = "notCollected") =>
      \A v \in answer[p].sent : visits[v] # Absent

\* A collector withdraws (NotCollected) the stop visits of its own partner
\* only, or those its partner cancelled by name.
WithdrawsItsOwn ==
  \A p \in Collectors, v \in Visits :
    [kind |-> "notCollected", of |-> v] \in events[p] =>
      v \in answer[p].cancelled \/ visits[v].origin = p

\* "Set all StopVisits not in the response not collected": a stop visit that
\* is in the response is not withdrawn by it.
ResponseKept ==
  \A p \in Collectors, v \in Visits :
    answer[p].way = "request" /\ v \in answer[p].sent =>
      [kind |-> "notCollected", of |-> v] \notin events[p]
=============================================================================
