----------------------------- MODULE Situations -----------------------------
(***************************************************************************)
(* How the GeneralMessages of a partner become the situations of the model: *)
(* notifications, by SIRIGeneralMessageSubscriptionCollector, and answers   *)
(* to requests, by SIRIGeneralMessageRequestCollector, each in a goroutine  *)
(* of its own.  Both give events to SituationUpdateManager, which reads     *)
(* and changes copies of the situations in a transaction.                   *)
(*                                                                         *)
(* A situation is the object id the partner gives it and its RecordedAt;    *)
(* what else it says changes with its RecordedAt.                          *)
(***************************************************************************)
EXTENDS Integers, Sequences

CONSTANTS
  SiThreads,       \* goroutines that handle notifications and answers
  SiObjects,       \* InfoMessageIdentifiers, in the kind of the partner
  SiTimes,         \* RecordedAtTimes
  SiNotifications, \* what it notifies, sequences of SiDelivery
  SiAnswers,       \* what it answers, sequences of SiMessage
  SiNone,          \* not told of
  SiMaxReceived,   \* bound: notifications and answers
  SiMaxIds         \* bound: situations ever created

\* an XMLGeneralMessage; without a content it is ignored
SiMessage == [obj : SiObjects, rec : SiTimes, content : BOOLEAN]
\* an XMLGeneralMessageDelivery: whether its SubscriptionRef is registered, as
\* a GeneralMessageCollect
SiDelivery == [sub : {"collect", "other", "unknown"}, cancels : SUBSET SiObjects,
               messages : Seq(SiMessage)]

ASSUME SiAssumption ==
  /\ SiNotifications \subseteq Seq(SiDelivery) /\ SiAnswers \subseteq Seq(SiMessage)
  /\ SiNone \notin SiTimes /\ SiMaxReceived \in Nat /\ SiMaxIds \in Nat

SiSituation == [id : 1..SiMaxIds, obj : SiObjects, rec : SiTimes]

VARIABLES
  siSituations, \* the situations of the model
  siNextId,     \* ids are UUIDs: never the same twice
  siReceived,   \* counter of the bound
  siPc,         \* [SiThreads -> what it does next]
  siTodo,       \* [SiThreads -> the deliveries it has still to handle]
  siEvents,     \* [SiThreads -> the messages of its situationUpdateEvents]
  siLeft,       \* [SiThreads -> those SituationUpdater.Update has not seen]
  siSaved,      \* [SiThreads -> saved of TransactionalSituations]
  \* history
  siTold,       \* [SiObjects -> RecordedAt the partner told last, or SiNone]
  siDropped,    \* events Update returned before, situations a later delivery
                \* cancelled that its events bring back
  siRaced       \* told by two messages handled concurrently

siHandler == <<siPc, siTodo, siEvents, siLeft, siSaved>>
siVars == <<siSituations, siNextId, siReceived, siHandler, siTold, siDropped,
            siRaced>>

\* buildGeneralMessageUpdateEvent: the messages that give an event
Built(messages) == {i \in DOMAIN messages : messages[i].content}
Objects(messages) == {messages[i].obj : i \in Built(messages)}

SiInit ==
  /\ siSituations = {} /\ siNextId = 1 /\ siReceived = 0
  /\ siPc = [t \in SiThreads |-> "idle"]
  /\ siTodo = [t \in SiThreads |-> <<>>]
  /\ siEvents = [t \in SiThreads |-> <<>>]
  /\ siLeft = [t \in SiThreads |-> <<>>]
  /\ siSaved = [t \in SiThreads |-> {}]
  /\ siTold = [o \in SiObjects |-> SiNone] /\ siDropped = {} /\ siRaced = {}

-----------------------------------------------------------------------------
(* Reception.                                                              *)

ObjectsOf(deliveries) ==
  UNION {deliveries[i].cancels \cup Objects(deliveries[i].messages) :
           i \in DOMAIN deliveries}
Handled(t) == ObjectsOf(siTodo[t]) \cup Objects(siEvents[t])

Receive(t, objects) ==
  /\ siPc[t] = "idle" /\ siReceived < SiMaxReceived
  /\ siReceived' = siReceived + 1
  /\ siRaced' = siRaced \cup (objects \cap UNION {Handled(u) : u \in SiThreads})

\* HandleNotifyGeneralMessage
Notify(t, n) ==
  /\ Receive(t, ObjectsOf(n))
  /\ siPc' = [siPc EXCEPT ![t] = "delivery"]
  /\ siTodo' = [siTodo EXCEPT ![t] = n]
  /\ UNCHANGED <<siSituations, siNextId, siEvents, siLeft, siSaved, siTold,
                 siDropped>>

\* the RecordedAt told of an object by a sequence of messages, the last one
Latest(messages, o) ==
  LET at == {i \in Built(messages) : messages[i].obj = o} IN
  messages[CHOOSE i \in at : \A j \in at : j <= i].rec

\* RequestSituationUpdate of the request collector, answered
Answer(t, messages) ==
  /\ Receive(t, Objects(messages))
  /\ siEvents' = [siEvents EXCEPT ![t] = messages]
  /\ siLeft' = [siLeft EXCEPT ![t] = messages]
  /\ siTold' = [o \in SiObjects |-> IF o \in Objects(messages)
                                    THEN Latest(messages, o) ELSE siTold[o]]
  /\ siPc' = [siPc EXCEPT ![t] = "update"]
  /\ UNCHANGED <<siSituations, siNextId, siTodo, siSaved, siDropped>>

-----------------------------------------------------------------------------
(* The deliveries of a notification.                                       *)

\* Find of the subscription fails, or its kind is another: continue; unknown
\* ones are cancelled at the partner in the end
SkipDelivery(t) ==
  /\ siPc[t] = "delivery" /\ siTodo[t] # <<>>
  /\ Head(siTodo[t]).sub # "collect"
  /\ siTodo' = [siTodo EXCEPT ![t] = Tail(@)]
  /\ UNCHANGED <<siSituations, siNextId, siReceived, siPc, siEvents, siLeft,
                 siSaved, siTold, siDropped, siRaced>>

FindByObjectId(situations, o) == {x \in situations : x.obj = o}

\* cancelGeneralMessage: for each cancellation, one situation that is found
CancelGeneralMessage(cancels, deleted) ==
  /\ deleted \subseteq {x \in siSituations : x.obj \in cancels}
  /\ \A o \in cancels : LET found == FindByObjectId(siSituations, o) IN
       found # {} => \E x \in found : deleted \cap found = {x}
  /\ siSituations' = siSituations \ deleted

\* then its messages are added to the events of the deliveries before it, and
\* all of them are broadcast
HandleDelivery(t, deleted) ==
  /\ siPc[t] = "delivery" /\ siTodo[t] # <<>>
  /\ LET d == Head(siTodo[t])
         back == (d.cancels \cap Objects(siEvents[t])) \ Objects(d.messages)
     IN
     /\ d.sub = "collect"
     /\ CancelGeneralMessage(d.cancels, deleted)
     /\ siEvents' = [siEvents EXCEPT ![t] = @ \o d.messages]
     /\ siLeft' = [siLeft EXCEPT ![t] = siEvents[t] \o d.messages]
     /\ siTold' = [o \in SiObjects |->
          IF o \in Objects(d.messages) THEN Latest(d.messages, o)
          ELSE IF o \in d.cancels THEN SiNone ELSE siTold[o]]
     /\ siDropped' = siDropped \cup back
  /\ siTodo' = [siTodo EXCEPT ![t] = Tail(@)]
  /\ siPc' = [siPc EXCEPT ![t] = "update"]
  /\ UNCHANGED <<siNextId, siReceived, siSaved, siRaced>>

SiEnd(t) ==
  /\ siPc[t] = "delivery" /\ siTodo[t] = <<>>
  /\ siPc' = [siPc EXCEPT ![t] = "idle"]
  /\ siEvents' = [siEvents EXCEPT ![t] = <<>>]
  /\ UNCHANGED <<siSituations, siNextId, siReceived, siTodo, siLeft, siSaved,
                 siTold, siDropped, siRaced>>

-----------------------------------------------------------------------------
(* SituationUpdater.Update and the Commit of its transaction.              *)

\* TransactionalSituations.FindByObjectId: saved first
TxFound(t, o) ==
  LET saved == FindByObjectId(siSaved[t], o) IN
  IF saved # {} THEN saved ELSE FindByObjectId(siSituations, o)

UnchangedSince(x, e) == x.rec >= e.rec \* mutant

\* situation.RecordedAt == event.RecordedAt
UnchangedSituation(x, e) == x.rec = e.rec

SavedIn(t, x) ==
  siSaved' = [siSaved EXCEPT ![t] = {y \in @ : y.id # x.id} \cup {x}]

\* one event, a message without a content being none; an unchanged situation
\* returns from the loop over all of them
UpdateEvent(t) ==
  /\ siPc[t] = "update" /\ siLeft[t] # <<>>
  /\ LET e == Head(siLeft[t])
         found == TxFound(t, e.obj)
     IN
     \/ /\ ~e.content
        /\ siLeft' = [siLeft EXCEPT ![t] = Tail(@)]
        /\ UNCHANGED <<siSaved, siNextId, siDropped>>
     \/ /\ e.content /\ \E x \in found : UnchangedSituation(x, e)
        /\ siLeft' = [siLeft EXCEPT ![t] = <<>>]
        /\ siDropped' = siDropped \cup Objects(Tail(siLeft[t]))
        /\ UNCHANGED <<siSaved, siNextId>>
     \/ /\ e.content
        /\ \E x \in found : /\ ~UnchangedSituation(x, e)
                            /\ SavedIn(t, [x EXCEPT !.rec = e.rec])
        /\ siLeft' = [siLeft EXCEPT ![t] = Tail(@)]
        /\ UNCHANGED <<siNextId, siDropped>>
     \/ /\ e.content /\ found = {} /\ siNextId <= SiMaxIds
        /\ SavedIn(t, [id |-> siNextId, obj |-> e.obj, rec |-> e.rec])
        /\ siNextId' = siNextId + 1
        /\ siLeft' = [siLeft EXCEPT ![t] = Tail(@)]
        /\ UNCHANGED siDropped
  /\ UNCHANGED <<siSituations, siReceived, siPc, siTodo, siEvents, siTold,
                 siRaced>>

\* a situation deleted since it was read is there again
SiCommit(t) ==
  /\ siPc[t] = "update" /\ siLeft[t] = <<>>
  /\ siSituations' = {x \in siSituations : \A y \in siSaved[t] : y.id # x.id}
                       \cup siSaved[t]
  /\ siDropped' = {o \in siDropped :
       \A y \in siSaved[t] : y.obj = o => y.rec # siTold[o]}
  /\ siSaved' = [siSaved EXCEPT ![t] = {}]
  /\ siPc' = [siPc EXCEPT ![t] = "delivery"]
  /\ UNCHANGED <<siNextId, siReceived, siTodo, siEvents, siLeft, siTold,
                 siRaced>>

-----------------------------------------------------------------------------
SiNext ==
  \E t \in SiThreads :
    \/ \E n \in SiNotifications : Notify(t, n)
    \/ \E messages \in SiAnswers : Answer(t, messages)
    \/ SkipDelivery(t)
    \/ \E deleted \in SUBSET siSituations : HandleDelivery(t, deleted)
    \/ SiEnd(t) \/ UpdateEvent(t) \/ SiCommit(t)

SiSpec == SiInit /\ [][SiNext]_siVars

-----------------------------------------------------------------------------
\* What the model says of a situation when nothing is being handled is what
\* the partner told last, once, or nothing when it cancelled it, except for
\* the situations that HandleNotifyGeneralMessage and Update are known to get
\* wrong: events behind an unchanged one, which Update returns before; a
\* situation cancelled by a delivery after the one that told it, whose event is
\* applied again; and those told by messages that were handled concurrently.
SiAgrees ==
  (\A t \in SiThreads : siPc[t] = "idle") =>
    \A o \in SiObjects \ (siDropped \cup siRaced) :
      LET found == FindByObjectId(siSituations, o) IN
      IF siTold[o] = SiNone THEN found = {}
      ELSE \E x \in found : x.rec = siTold[o] /\ found = {x}
=============================================================================
