------------------------- MODULE SMBroadcastProofs -------------------------
(***************************************************************************)
(* SMBroadcast for every value of its constants: any number of             *)
(* subscriptions, stop visits, saves and renewals.                         *)
(***************************************************************************)
EXTENDS SMBroadcastMC, TLAPS

USE BoundsAssumption, ValuesAssumption, NoStateAssumption, SetsAssumption
USE DEF BoundsAssumption, ValuesAssumption, NoStateAssumption, SetsAssumption

-----------------------------------------------------------------------------
(* Types.                                                                  *)

\* An update of one value keeps the type of a function.
LEMMA ExceptType ==
  ASSUME NEW A, NEW V, NEW f \in [A -> V], NEW a \in A, NEW v \in V
  PROVE  [f EXCEPT ![a] = v] \in [A -> V]
OBVIOUS

\* The same for a function of functions.
LEMMA ExceptTwiceType ==
  ASSUME NEW A, NEW B, NEW V, NEW f \in [A -> [B -> V]],
         NEW a \in A, NEW b \in B, NEW v \in V
  PROVE  [f EXCEPT ![a][b] = v] \in [A -> [B -> V]]
OBVIOUS

\* The empty delivery, snapshot and last states.
LEMMA NothingType == Nothing \in [StopVisits -> StopVisitOrNone]
  BY DEF Nothing, StopVisitOrNone

\* The types hold initially.
LEMMA InitTypeOK == Init => TypeOK
<1> SUFFICES ASSUME Init PROVE TypeOK
  OBVIOUS
<1>1. smbEventChan \in Seq(StopVisits) /\ Len(smbEventChan) <= ChanCap
  BY DEF Init
<1>2. /\ bcGen \in 0..MaxGen /\ gen \in [Subs -> 0..MaxGen]
      /\ version \in [StopVisits -> 0..MaxVersion]
  BY DEF Init
<1>3. /\ lastStates \in [Subs -> [StopVisits -> StopVisitOrNone]]
      /\ known \in [Subs -> [StopVisits -> StopVisitOrNone]]
  BY NothingType DEF Init
<1> QED
  BY <1>1, <1>2, <1>3, NothingType DEF Init, TypeOK, StopVisitOrNone, SubStatus

\* Saves, requests and the ends of subscriptions keep the types.
LEMMA EnvironmentTypeOK == TypeOK /\ Environment => TypeOK'
<1> SUFFICES ASSUME TypeOK, Environment PROVE TypeOK'
  OBVIOUS
<1> USE DEF TypeOK, StopVisitOrNone, modelVars, subVars, mgrVars, bcVars,
            rqVars, feedVars
<1>1. ASSUME NEW sv \in StopVisits, NEW time \in Times,
             NEW status \in Statuses, SaveStopVisit(sv, time, status)
      PROVE  TypeOK'
  <2>1. stopVisits' \in [StopVisits -> StopVisitOrNone]
        /\ version' \in [StopVisits -> 0..MaxVersion]
    <3> DEFINE n == version[sv] + 1
               v == [ver |-> n, time |-> time, status |-> status]
    <3>1. n \in 0..MaxVersion /\ n \in 1..MaxVersion
      BY <1>1 DEF SaveStopVisit
    <3>2. v \in StopVisitOrNone
      BY <3>1 DEF StopVisit
    <3>3. /\ stopVisits' = [stopVisits EXCEPT ![sv] = v]
          /\ version' = [version EXCEPT ![sv] = n]
      BY <1>1 DEF SaveStopVisit
    <3>4. /\ stopVisits \in [StopVisits -> StopVisitOrNone]
          /\ version \in [StopVisits -> 0..MaxVersion]
      OBVIOUS
    <3> HIDE DEF StopVisitOrNone, v, n
    <3> QED
      BY ONLY <3>1, <3>2, <3>3, <3>4, ExceptType
  <2>2. smbEventChan' \in Seq(StopVisits) /\ Len(smbEventChan') <= ChanCap
        /\ dropped' \subseteq StopVisits
    <3>1. /\ smbEventChan \in Seq(StopVisits)
          /\ Len(smbEventChan) <= ChanCap /\ ChanCap \in Nat
      OBVIOUS
    <3>2. CASE Len(smbEventChan) < ChanCap
      <4>1. smbEventChan' = Append(smbEventChan, sv)
        BY <1>1, <3>2 DEF SaveStopVisit, HasRoom
      <4> HIDE DEF TypeOK
      <4> QED
        BY <1>1, <3>1, <3>2, <4>1 DEF SaveStopVisit, HasRoom, TypeOK
    <3>3. CASE ~(Len(smbEventChan) < ChanCap)
      BY <1>1, <3>1, <3>3 DEF SaveStopVisit, HasRoom
    <3> QED
      BY <3>2, <3>3
  <2>3. departure' \in [StopVisits -> {"none", "announced", "withdrawn"}]
    BY <1>1 DEF SaveStopVisit
  <2>4. UNCHANGED <<subVars, lastStates, toBroadcast, mgrVars, bcVars, rqVars,
                    feedVars>>
    BY <1>1 DEF SaveStopVisit
  <2> HIDE DEF StopVisitOrNone, BoundsAssumption, ValuesAssumption, NoStateAssumption,
               SetsAssumption
  <2> QED
    BY <2>1, <2>2, <2>3, <2>4
<1>2. ASSUME NEW sv \in StopVisits, DeleteStopVisit(sv) PROVE TypeOK'
  <2>1. stopVisits' \in [StopVisits -> StopVisitOrNone]
    BY <1>2 DEF DeleteStopVisit
  <2>2. UNCHANGED <<version, smbEventChan, dropped, departure, subVars, lastStates,
                    toBroadcast, mgrVars, bcVars, rqVars, feedVars>>
    BY <1>2 DEF DeleteStopVisit
  <2> QED
    BY <2>1, <2>2
<1>3. ASSUME NEW s \in Subs, NEW line \in LineFilters,
             RequestResource(s, line)
      PROVE  TypeOK'
  <2>1. /\ lastStates' \in [Subs -> [StopVisits -> StopVisitOrNone]]
        /\ known' \in [Subs -> [StopVisits -> StopVisitOrNone]]
    BY <1>3 DEF RequestResource, Nothing
  <2>2. /\ subStatus' \in [Subs -> SubStatus] /\ gen' \in [Subs -> 0..MaxGen]
        /\ missed' \in [Subs -> SUBSET StopVisits]
    BY <1>3 DEF RequestResource, SubStatus
  <2>3. rqSub' \in Subs /\ rqLine' \in BOOLEAN /\ rqPc' = "options"
    BY <1>3, SetsAssumption DEF RequestResource
  <2> QED
    BY <1>3, <2>1, <2>2, <2>3 DEF RequestResource
<1>4. ASSUME NEW s \in Subs, Cancel(s) \/ Expire(s) PROVE TypeOK'
  <2>1. subStatus' \in [Subs -> SubStatus]
    BY <1>4 DEF Cancel, Expire, SubStatus
  <2> QED
    BY <1>4, <2>1 DEF Cancel, Expire
<1>5. ASSUME NEW s \in Subs, GuardianRead(s) \/ GuardianDelete(s)
      PROVE  TypeOK'
  <2>1. subStatus' \in [Subs -> SubStatus] /\ grdExpired' \subseteq Subs
    BY <1>5 DEF GuardianRead, GuardianDelete, SubStatus
  <2> QED
    BY <1>5, <2>1 DEF GuardianRead, GuardianDelete
<1> QED
  BY <1>1, <1>2, <1>3, <1>4, <1>5 DEF Environment

\* The broadcast manager keeps the types.
LEMMA ManagerTypeOK == TypeOK /\ Manager => TypeOK'
<1> SUFFICES ASSUME TypeOK, Manager PROVE TypeOK'
  OBVIOUS
<1> USE DEF TypeOK, StopVisitOrNone, modelVars, subVars, mgrVars, bcVars,
            rqVars, feedVars
<1>1. CASE ManagerReceive
  <2>1. /\ smbEventChan \in Seq(StopVisits) /\ smbEventChan # <<>>
        /\ Len(smbEventChan) <= ChanCap /\ ChanCap \in Nat
    BY <1>1 DEF ManagerReceive
  <2>2. /\ Head(smbEventChan) \in StopVisits /\ Tail(smbEventChan) \in Seq(StopVisits)
        /\ Len(Tail(smbEventChan)) <= ChanCap
    BY ONLY <2>1
  <2> HIDE DEF StopVisitOrNone, BoundsAssumption, ValuesAssumption, NoStateAssumption,
               SetsAssumption
  <2> QED
    BY <1>1, <2>2 DEF ManagerReceive
<1>2. CASE ManagerFind
  BY <1>2 DEF ManagerFind
<1>3. CASE ManagerList
  BY <1>3 DEF ManagerList
<1>4. CASE ManagerAdd
  BY <1>4 DEF ManagerAdd
<1>5. ASSUME NEW s \in Subs, ManagerCheck(s) PROVE TypeOK'
  <2>1. mgrFound' \subseteq Subs /\ mgrTodo' \subseteq Subs
    BY <1>5 DEF ManagerCheck
  <2>2. lastStates' \in [Subs -> [StopVisits -> StopVisitOrNone]]
    <3>1. \/ lastStates' = lastStates
          \/ lastStates' = [lastStates EXCEPT ![s][mgrEvent] = mgrSeen]
      BY <1>5 DEF ManagerCheck
    <3>2. /\ lastStates \in [Subs -> [StopVisits -> StopVisitOrNone]]
          /\ mgrEvent \in StopVisits /\ mgrSeen \in StopVisitOrNone
          /\ s \in Subs
      OBVIOUS
    <3> HIDE DEF TypeOK, StopVisitOrNone
    <3>3. [lastStates EXCEPT ![s][mgrEvent] = mgrSeen]
            \in [Subs -> [StopVisits -> StopVisitOrNone]]
      BY ONLY <3>2, ExceptTwiceType
    <3> QED
      BY ONLY <3>1, <3>2, <3>3
  <2> QED
    BY <1>5, <2>1, <2>2 DEF ManagerCheck
<1> QED
  BY <1>1, <1>2, <1>3, <1>4, <1>5 DEF Manager

\* The broadcaster loop keeps the types.
LEMMA BroadcasterTypeOK == TypeOK /\ Broadcaster => TypeOK'
<1> SUFFICES ASSUME TypeOK, Broadcaster PROVE TypeOK'
  OBVIOUS
<1> USE DEF TypeOK, StopVisitOrNone, modelVars, subVars, mgrVars, bcVars,
            rqVars, feedVars
<1>1. CASE BroadcasterTick
  BY <1>1 DEF BroadcasterTick
<1>2. CASE BroadcasterDone
  BY <1>2 DEF BroadcasterDone
<1>3. CASE BroadcasterUpdate
  BY <1>3 DEF BroadcasterUpdate, Told
<1>4. ASSUME NEW s \in Subs, BroadcasterVisit(s) PROVE TypeOK'
  BY <1>4 DEF BroadcasterVisit
<1>5. ASSUME NEW sv \in StopVisits, BroadcasterRead(sv) PROVE TypeOK'
  BY <1>5 DEF BroadcasterRead, Find
<1>6. ASSUME NEW sv \in StopVisits, BroadcasterSkip(sv) PROVE TypeOK'
  BY <1>6 DEF BroadcasterSkip
<1>7. ASSUME NEW ok \in BOOLEAN, BroadcasterSend(ok) PROVE TypeOK'
  <2>1. known' \in [Subs -> [StopVisits -> StopVisitOrNone]]
    <3> DEFINE view == [sv \in StopVisits |-> IF sv \in Delivered
                                             THEN bcDelivery[sv]
                                             ELSE known[bcSub][sv]]
    <3>1. view \in [StopVisits -> StopVisitOrNone]
      OBVIOUS
    <3>2. known' = known \/ known' = [known EXCEPT ![bcSub] = view]
      BY <1>7 DEF BroadcasterSend
    <3>3. known \in [Subs -> [StopVisits -> StopVisitOrNone]] /\ bcSub \in Subs
      OBVIOUS
    <3> HIDE DEF view, StopVisitOrNone
    <3> QED
      BY ONLY <3>1, <3>2, <3>3, ExceptType
  <2>2. missed' \in [Subs -> SUBSET StopVisits]
    <3>1. \/ missed' = [missed EXCEPT ![bcSub] = @ \ Delivered]
          \/ missed' = [missed EXCEPT ![bcSub] = @ \cup Delivered]
      BY <1>7 DEF BroadcasterSend
    <3>2. /\ missed[bcSub] \ Delivered \subseteq StopVisits
          /\ missed[bcSub] \cup Delivered \subseteq StopVisits
      BY DEF Delivered
    <3>3. missed \in [Subs -> SUBSET StopVisits] /\ bcSub \in Subs
      OBVIOUS
    <3> QED
      BY ONLY <3>1, <3>2, <3>3, ExceptType
  <2> QED
    BY <1>7, <2>1, <2>2, NothingType DEF BroadcasterSend
<1> QED
  BY <1>1, <1>2, <1>3, <1>4, <1>5, <1>6, <1>7 DEF Broadcaster

\* The handler of subscription requests keeps the types.
LEMMA HandlerTypeOK == TypeOK /\ Handler => TypeOK'
<1> SUFFICES ASSUME TypeOK, Handler PROVE TypeOK'
  OBVIOUS
<1> USE DEF TypeOK, StopVisitOrNone, modelVars, subVars, mgrVars, bcVars,
            rqVars, feedVars
<1>1. CASE RequestOptions
  BY <1>1 DEF RequestOptions
<1>2. CASE RequestList
  BY <1>2 DEF RequestList
<1>3. ASSUME NEW sv \in StopVisits, RequestCheck(sv) PROVE TypeOK'
  BY <1>3 DEF RequestCheck
<1>4. CASE RequestSet
  BY <1>4 DEF RequestSet
<1>5. CASE RequestAdd
  BY <1>5 DEF RequestAdd
<1>6. CASE RequestDone
  BY <1>6 DEF RequestDone
<1> QED
  BY <1>1, <1>2, <1>3, <1>4, <1>5, <1>6 DEF Handler

\* Every variable keeps its type, and the event channel never holds more than
\* its capacity (broadcastSMEvent drops instead of blocking).
THEOREM TypeCorrect == Spec => []TypeOK
<1>1. TypeOK /\ [Next]_vars => TypeOK'
  <2> SUFFICES ASSUME TypeOK, [Next]_vars PROVE TypeOK'
    OBVIOUS
  <2>1. CASE Next
    BY <2>1, EnvironmentTypeOK, ManagerTypeOK, BroadcasterTypeOK,
       HandlerTypeOK DEF Next
  <2>2. CASE UNCHANGED vars
    BY <2>2 DEF vars, TypeOK, modelVars, subVars, mgrVars, bcVars, rqVars,
                feedVars
  <2> QED
    BY <2>1, <2>2
<1> QED
  BY InitTypeOK, <1>1, PTL DEF Spec

-----------------------------------------------------------------------------
(* What Ara believes it told a subscriber.                                 *)

Accounted == BroadcasterEmpty /\ DeliveryAccounted /\ LastStateAccounted

\* the broadcaster and the subscriptions stand still, nothing pending is
\* forgotten, and a last state that changes is queued to be sent
Frame ==
  /\ UNCHANGED <<subStatus, gen, bcVars, feedVars>>
  /\ \A s \in Subs, sv \in StopVisits : Queued(s, sv) => Queued(s, sv)'
  /\ \A s \in Subs, sv \in StopVisits :
       lastStates'[s][sv] = lastStates[s][sv] \/ Queued(s, sv)'

\* A step that touches none of the variables of the invariant keeps it.
LEMMA FrameAccounted == TypeOK /\ Accounted /\ Frame => Accounted'
<1> SUFFICES ASSUME TypeOK, Accounted, Frame PROVE Accounted'
  OBVIOUS
<1> USE DEF Accounted, Frame, bcVars, feedVars
<1>1. BroadcasterEmpty'
  BY DEF BroadcasterEmpty, Nothing
<1>2. DeliveryAccounted'
  <2>1. bcSub \in Subs /\ bcSub' = bcSub
    BY DEF TypeOK
  <2> QED
    BY <2>1 DEF DeliveryAccounted, Registered
<1>3. \A s \in Subs, sv \in StopVisits : InBatch(s, sv)' = InBatch(s, sv)
  BY DEF InBatch
<1>4. LastStateAccounted'
  BY <1>3 DEF LastStateAccounted, Registered
<1> QED
  BY <1>1, <1>2, <1>4

\* The inductive invariant holds initially.
LEMMA InitAccounted == Init => Accounted
  BY DEF Init, Accounted, BroadcasterEmpty, DeliveryAccounted,
         LastStateAccounted, Registered, Nothing

\* A renewal forgets the last states; the other steps leave them alone.
LEMMA EnvironmentAccounted ==
  TypeOK /\ Accounted /\ Environment => Accounted'
<1> SUFFICES ASSUME TypeOK, Accounted, Environment PROVE Accounted'
  OBVIOUS
<1> USE DEF Accounted, modelVars, subVars, mgrVars, bcVars, rqVars, feedVars
<1>1. ASSUME NEW sv \in StopVisits, NEW time \in Times,
             NEW status \in Statuses, SaveStopVisit(sv, time, status)
      PROVE  Accounted'
  BY <1>1, FrameAccounted DEF SaveStopVisit, Frame, Queued
<1>2. ASSUME NEW sv \in StopVisits, DeleteStopVisit(sv) PROVE Accounted'
  BY <1>2, FrameAccounted DEF DeleteStopVisit, Frame, Queued
<1>3. ASSUME NEW s \in Subs, NEW line \in LineFilters,
             RequestResource(s, line)
      PROVE  Accounted'
  <2>1. \A r \in Subs, sv \in StopVisits :
          /\ Queued(r, sv) => Queued(r, sv)'
          /\ InBatch(r, sv)' = InBatch(r, sv)
    BY <1>3 DEF RequestResource, Queued, InBatch
  <2>2. \A sv \in StopVisits : lastStates'[s][sv] = NoState
    BY <1>3 DEF RequestResource, Nothing, TypeOK
  <2>3. \A r \in Subs \ {s} :
          /\ lastStates'[r] = lastStates[r] /\ subStatus'[r] = subStatus[r]
          /\ gen'[r] = gen[r] /\ missed'[r] = missed[r]
          /\ known'[r] = known[r]
    BY <1>3 DEF RequestResource, TypeOK
  <2>4. LastStateAccounted'
    BY <2>1, <2>2, <2>3 DEF LastStateAccounted, Registered
  <2>5. DeliveryAccounted'
    BY <1>3, <2>1, <2>2, <2>3
       DEF RequestResource, DeliveryAccounted, Registered, TypeOK
  <2>6. BroadcasterEmpty'
    BY <1>3 DEF RequestResource, BroadcasterEmpty, Nothing
  <2> QED
    BY <2>4, <2>5, <2>6
<1>4. ASSUME NEW s \in Subs,
             Cancel(s) \/ Expire(s) \/ GuardianRead(s) \/ GuardianDelete(s)
      PROVE  Accounted'
  <2>1. \A r \in Subs : Registered(r)' => Registered(r)
    BY <1>4 DEF Cancel, Expire, GuardianRead, GuardianDelete, Registered,
                TypeOK
  <2>2. /\ UNCHANGED <<gen, lastStates, toBroadcast, bcVars, feedVars>>
        /\ \A r \in Subs, sv \in StopVisits :
             Queued(r, sv)' = Queued(r, sv) /\ InBatch(r, sv)' = InBatch(r, sv)
    BY <1>4 DEF Cancel, Expire, GuardianRead, GuardianDelete, Queued, InBatch
  <2>3. LastStateAccounted'
    BY <2>1, <2>2 DEF LastStateAccounted
  <2>4. DeliveryAccounted'
    BY <2>1, <2>2 DEF DeliveryAccounted, TypeOK
  <2>5. BroadcasterEmpty'
    BY <2>2 DEF BroadcasterEmpty, Nothing
  <2> QED
    BY <2>3, <2>4, <2>5
<1> QED
  BY <1>1, <1>2, <1>3, <1>4 DEF Environment

\* checkEvent sets a last state only when it will queue the stop visit.
LEMMA ManagerAccounted == TypeOK /\ Accounted /\ Manager => Accounted'
<1> SUFFICES ASSUME TypeOK, Accounted, Manager PROVE Accounted'
  OBVIOUS
<1> USE DEF modelVars, subVars, mgrVars, bcVars, rqVars, feedVars
<1>1. CASE ManagerReceive
  BY <1>1, FrameAccounted DEF ManagerReceive, Frame, Queued
<1>2. CASE ManagerFind
  BY <1>2, FrameAccounted DEF ManagerFind, Frame, Queued
<1>3. CASE ManagerList
  BY <1>3, FrameAccounted DEF ManagerList, Frame, Queued
<1>4. CASE ManagerAdd
  <2>1. \A s \in Subs, sv \in StopVisits : Queued(s, sv) => Queued(s, sv)'
    BY <1>4 DEF ManagerAdd, Queued, TypeOK
  <2> QED
    BY <1>4, <2>1, FrameAccounted DEF ManagerAdd, Frame
<1>5. ASSUME NEW s \in Subs, ManagerCheck(s) PROVE Accounted'
  <2>1. \A r \in Subs, sv \in StopVisits : Queued(r, sv) => Queued(r, sv)'
    BY <1>5 DEF ManagerCheck, Queued
  <2>2. ASSUME NEW r \in Subs, NEW sv \in StopVisits
        PROVE  lastStates'[r][sv] = lastStates[r][sv] \/ Queued(r, sv)'
    <3>1. CASE r = s /\ sv = mgrEvent
      BY <1>5, <3>1 DEF ManagerCheck, Queued
    <3>2. CASE ~(r = s /\ sv = mgrEvent)
      <4>1. lastStates \in [Subs -> [StopVisits -> StopVisitOrNone]]
        BY DEF TypeOK
      <4>2. \/ lastStates' = lastStates
            \/ lastStates' = [lastStates EXCEPT ![s][mgrEvent] = mgrSeen]
        BY <1>5 DEF ManagerCheck
      <4> QED
        BY <3>2, <4>1, <4>2
    <3> QED
      BY <3>1, <3>2
  <2> QED
    BY <1>5, <2>1, <2>2, FrameAccounted DEF ManagerCheck, Frame
<1> QED
  BY <1>1, <1>2, <1>3, <1>4, <1>5 DEF Manager

\* The handler sets a last state just before it queues the stop visit.
LEMMA HandlerAccounted == TypeOK /\ Accounted /\ Handler => Accounted'
<1> SUFFICES ASSUME TypeOK, Accounted, Handler PROVE Accounted'
  OBVIOUS
<1> USE DEF modelVars, subVars, mgrVars, bcVars, rqVars, feedVars
<1>1. CASE RequestOptions
  BY <1>1, FrameAccounted DEF RequestOptions, Frame, Queued
<1>2. CASE RequestList
  BY <1>2, FrameAccounted DEF RequestList, Frame, Queued
<1>3. ASSUME NEW sv \in StopVisits, RequestCheck(sv) PROVE Accounted'
  BY <1>3, FrameAccounted DEF RequestCheck, Frame, Queued
<1>4. CASE RequestSet
  <2>1. \A r \in Subs, sv \in StopVisits : Queued(r, sv) => Queued(r, sv)'
    BY <1>4 DEF RequestSet, Queued
  <2>2. \A r \in Subs, sv \in StopVisits :
          lastStates'[r][sv] = lastStates[r][sv] \/ Queued(r, sv)'
    BY <1>4 DEF RequestSet, Queued, TypeOK
  <2> QED
    BY <1>4, <2>1, <2>2, FrameAccounted DEF RequestSet, Frame
<1>5. CASE RequestAdd
  <2>1. \A r \in Subs, sv \in StopVisits : Queued(r, sv) => Queued(r, sv)'
    BY <1>5 DEF RequestAdd, Queued, TypeOK
  <2> QED
    BY <1>5, <2>1, FrameAccounted DEF RequestAdd, Frame
<1>6. CASE RequestDone
  BY <1>6, FrameAccounted DEF RequestDone, Frame, Queued
<1> QED
  BY <1>1, <1>2, <1>3, <1>4, <1>5, <1>6 DEF Handler

\* UpdateState records what is in the delivery, which is then sent or lost.
LEMMA BroadcasterAccounted == TypeOK /\ Accounted /\ Broadcaster => Accounted'
<1> SUFFICES ASSUME TypeOK, Accounted, Broadcaster PROVE Accounted'
  OBVIOUS
<1> USE DEF Accounted, modelVars, subVars, mgrVars, bcVars, rqVars, feedVars
<1>1. CASE BroadcasterTick
  <2>1. bcDelivery = Nothing /\ bcPc = "idle" /\ bcPc' = "visit"
    BY <1>1 DEF BroadcasterTick, BroadcasterEmpty
  <2>2. \A s \in Subs, sv \in StopVisits :
          Queued(s, sv) \/ InBatch(s, sv) => Queued(s, sv)' \/ InBatch(s, sv)'
    BY <1>1, <2>1 DEF BroadcasterTick, BroadcasterEmpty, Queued, InBatch
  <2>3. LastStateAccounted'
    BY <1>1, <2>2 DEF BroadcasterTick, LastStateAccounted, Registered
  <2>4. BroadcasterEmpty' /\ DeliveryAccounted'
    BY <1>1, <2>1 DEF BroadcasterTick, BroadcasterEmpty, DeliveryAccounted,
                      Nothing
  <2> QED
    BY <2>3, <2>4
<1>2. CASE BroadcasterDone
  <2>1. BroadcasterEmpty' /\ DeliveryAccounted'
    BY <1>2 DEF BroadcasterDone, BroadcasterEmpty, DeliveryAccounted, Nothing
  <2>2. LastStateAccounted'
    BY <1>2 DEF BroadcasterDone, LastStateAccounted, Registered, Queued,
                InBatch
  <2> QED
    BY <2>1, <2>2
<1>3. ASSUME NEW s \in Subs, BroadcasterVisit(s) PROVE Accounted'
  <2>1. bcDelivery = Nothing /\ bcDelivery' = bcDelivery /\ bcPc = "visit"
    BY <1>3 DEF BroadcasterVisit, BroadcasterEmpty
  <2>2. BroadcasterEmpty'
    BY <1>3, <2>1 DEF BroadcasterVisit, BroadcasterEmpty, Nothing
  <2>3. DeliveryAccounted'
    BY <1>3, <2>1 DEF BroadcasterVisit, DeliveryAccounted, Nothing
  <2>4. ASSUME NEW r \in Subs, NEW sv \in StopVisits, Registered(r)
        PROVE  /\ Queued(r, sv) => Queued(r, sv)'
               /\ InBatch(r, sv) => InBatch(r, sv)'
    BY <1>3, <2>1, <2>4 DEF BroadcasterVisit, Queued, InBatch, TypeOK
  <2>5. LastStateAccounted'
    BY <1>3, <2>4 DEF BroadcasterVisit, LastStateAccounted, Registered
  <2> QED
    BY <2>2, <2>3, <2>5
<1>4. ASSUME NEW sv \in StopVisits, BroadcasterRead(sv) PROVE Accounted'
  <2>1. BroadcasterEmpty'
    BY <1>4 DEF BroadcasterRead, BroadcasterEmpty, Nothing, TypeOK, Find
  <2>2. DeliveryAccounted'
    BY <1>4 DEF BroadcasterRead, DeliveryAccounted, TypeOK, Registered, Queued
  <2>3. \A s \in Subs, v \in StopVisits :
          /\ Queued(s, v) => Queued(s, v)'
          /\ InBatch(s, v) => InBatch(s, v)'
    BY <1>4 DEF BroadcasterRead, Queued, InBatch, TypeOK, Find
  <2>4. LastStateAccounted'
    BY <1>4, <2>3 DEF BroadcasterRead, LastStateAccounted, Registered
  <2> QED
    BY <2>1, <2>2, <2>4
<1>5. ASSUME NEW sv \in StopVisits, BroadcasterSkip(sv) PROVE Accounted'
  <2>1. BroadcasterEmpty'
    BY <1>5 DEF BroadcasterSkip, BroadcasterEmpty, Nothing
  <2>2. DeliveryAccounted'
    BY <1>5 DEF BroadcasterSkip, DeliveryAccounted, Registered, Queued, TypeOK
  <2>3. \A s \in Subs, v \in StopVisits :
          /\ Queued(s, v) => Queued(s, v)'
          /\ InBatch(s, v) => InBatch(s, v)' \/ v \in missed'[s]
          /\ v \in missed[s] => v \in missed'[s]
    BY <1>5 DEF BroadcasterSkip, Queued, InBatch, TypeOK
  <2>4. LastStateAccounted'
    BY <1>5, <2>3 DEF BroadcasterSkip, LastStateAccounted, Registered
  <2> QED
    BY <2>1, <2>2, <2>4
<1>6. CASE BroadcasterUpdate
  <2>1. BroadcasterEmpty'
    BY <1>6 DEF BroadcasterUpdate, BroadcasterEmpty, Nothing
  <2>2. /\ bcPc = "update" /\ bcPc' = "read" /\ bcSub \in Subs
        /\ bcSv \in StopVisits /\ bcSeen = bcDelivery[bcSv]
        /\ bcSeen # NoState
    BY <1>6 DEF BroadcasterUpdate, BroadcasterEmpty, TypeOK
  <2>3. ASSUME NEW s \in Subs, NEW sv \in StopVisits
        PROVE  /\ s = bcSub /\ sv = bcSv /\ bcGen = gen[bcSub]
                    /\ lastStates[s][sv] # NoState
                 => lastStates'[s][sv] = bcSeen
               /\ ~(s = bcSub /\ sv = bcSv /\ bcGen = gen[bcSub]
                    /\ lastStates[s][sv] # NoState)
                 => lastStates'[s][sv] = lastStates[s][sv]
    <3>1. lastStates \in [Subs -> [StopVisits -> StopVisitOrNone]]
      BY DEF TypeOK
    <3>2. lastStates' =
            IF bcGen = gen[bcSub] /\ lastStates[bcSub][bcSv] # NoState
            THEN [lastStates EXCEPT ![bcSub][bcSv] = bcSeen]
            ELSE lastStates
      BY <1>6 DEF BroadcasterUpdate, Told
    <3> QED
      BY <2>2, <3>1, <3>2
  <2>4. \A s \in Subs, sv \in StopVisits :
          Queued(s, sv)' = Queued(s, sv) /\ InBatch(s, sv)' = InBatch(s, sv)
    BY <1>6, <2>2 DEF BroadcasterUpdate, Queued, InBatch
  <2>5. DeliveryAccounted'
    BY <1>6, <2>2, <2>3, <2>4
       DEF BroadcasterUpdate, DeliveryAccounted, Registered
  <2>6. InBatch(bcSub, bcSv)
    BY <2>2 DEF InBatch
  <2>7. LastStateAccounted'
    BY <1>6, <2>3, <2>4, <2>6
       DEF BroadcasterUpdate, LastStateAccounted, Registered
  <2> QED
    BY <2>1, <2>5, <2>7
<1>7. ASSUME NEW ok \in BOOLEAN, BroadcasterSend(ok) PROVE Accounted'
  <2>1. BroadcasterEmpty' /\ DeliveryAccounted'
    BY <1>7 DEF BroadcasterSend, BroadcasterEmpty, DeliveryAccounted
  <2>2. \A s \in Subs, sv \in StopVisits :
          /\ Queued(s, sv)' = Queued(s, sv)
          /\ InBatch(s, sv) =>
               InBatch(s, sv)' \/ (s = bcSub /\ sv \in Delivered)
    BY <1>7 DEF BroadcasterSend, Queued, InBatch, Delivered
  <2>3. \A s \in Subs, sv \in StopVisits :
          IF s = bcSub /\ sv \in Delivered
          THEN sv \in missed'[s] \/ known'[s][sv] = bcDelivery[sv]
          ELSE known'[s][sv] = known[s][sv]
               /\ (sv \in missed[s] => sv \in missed'[s])
    <3>1. CASE ok
      BY <1>7, <3>1 DEF BroadcasterSend, TypeOK
    <3>2. CASE ~ok
      BY <1>7, <3>2 DEF BroadcasterSend, TypeOK
    <3> QED
      BY <3>1, <3>2
  <2>4. \A sv \in Delivered :
          Registered(bcSub) /\ lastStates[bcSub][sv] # NoState =>
            lastStates[bcSub][sv] = bcDelivery[sv] \/ Queued(bcSub, sv)
    BY <1>7 DEF BroadcasterSend, DeliveryAccounted, Delivered
  <2>5. LastStateAccounted'
    BY <1>7, <2>2, <2>3, <2>4
       DEF BroadcasterSend, LastStateAccounted, Registered, Delivered
  <2> QED
    BY <2>1, <2>5
<1> QED
  BY <1>1, <1>2, <1>3, <1>4, <1>5, <1>6, <1>7 DEF Broadcaster

\* The strengthening is inductive.
LEMMA AccountedAlways == Spec => []Accounted
<1>1. TypeOK /\ Accounted /\ [Next]_vars => Accounted'
  <2> SUFFICES ASSUME TypeOK, Accounted, [Next]_vars PROVE Accounted'
    OBVIOUS
  <2>1. CASE Next
    BY <2>1, EnvironmentAccounted, ManagerAccounted, BroadcasterAccounted,
       HandlerAccounted DEF Next
  <2>2. CASE UNCHANGED vars
    BY <2>2, FrameAccounted DEF vars, Frame, Queued, modelVars, subVars,
                                mgrVars, bcVars, rqVars, feedVars
  <2> QED
    BY <2>1, <2>2
<1> QED
  BY <1>1, InitAccounted, TypeCorrect, PTL DEF Spec

\* What the subscriptions' last states say a subscriber was told, it was told,
\* or an update is queued or being sent, or a delivery was lost: the resource's
\* LastState is written by checkEvent, addStopAreaStopVisits and the
\* broadcaster before anything reaches the subscriber.
THEOREM LastStatesAccounted == Spec => []LastStateAccounted
<1>1. Accounted => LastStateAccounted
  BY DEF Accounted
<1> QED
  BY <1>1, AccountedAlways, PTL

-----------------------------------------------------------------------------
(* No departure is lost.                                                   *)

IsDeparted(v) == v # NoState /\ Final(v)

\* Before a stop visit departs, nothing says that it has.
NotYetDeparted ==
  /\ mgrPc \in {"idle", "find"} => mgrSeen = NoState
  /\ \A sv \in StopVisits : departure[sv] = "none" =>
       /\ ~IsDeparted(stopVisits[sv]) /\ ~IsDeparted(rqSnapshot[sv])
       /\ ~IsDeparted(bcDelivery[sv])
       /\ mgrEvent = sv => ~IsDeparted(mgrSeen)
       /\ \A s \in Subs : /\ ~IsDeparted(lastStates[s][sv])
                          /\ ~IsDeparted(known[s][sv])

\* Once it has, for good, each state that is read has, and none that was read
\* before is sent after it: the broadcaster reads a stop visit once for a delivery.
NotTakenBack ==
  /\ \A sv \in bcTodo : bcDelivery[sv] = NoState
  /\ \A sv \in StopVisits : departure[sv] = "announced" =>
       /\ stopVisits[sv] # NoState => IsDeparted(stopVisits[sv])
       /\ IsDeparted(known[bcSub][sv]) /\ bcDelivery[sv] # NoState =>
            IsDeparted(bcDelivery[sv])

\* The departure of sv is not to be told to s, or its delivery was lost (which
\* a delivery that was read before the departure is not about to make good) ...
Missed(s, sv) ==
  /\ sv \in missed[s]
  /\ s = bcSub /\ bcDelivery[sv] # NoState => IsDeparted(bcDelivery[sv])
Excused(s, sv) ==
  subStatus[s] # "live" \/ Filtered(s, sv) \/ sv \in Own \/ Missed(s, sv)

\* ... or it will be told: sv will be read again, or was read departed ...
OnItsWay(s, sv) ==
  \/ Queued(s, sv) \/ sv \in bcBatch[s]
  \/ /\ bcPc \in {"read", "update"} /\ s = bcSub
     /\ sv \in bcTodo \/ IsDeparted(bcDelivery[sv])
  \/ IsDeparted(known[s][sv])

Sure(s, sv) == Excused(s, sv) \/ OnItsWay(s, sv)

\* ... or its event is still to be handled, or the subscription request.
EventComes(sv) ==
  \/ sv \in dropped \/ \E i \in DOMAIN smbEventChan : smbEventChan[i] = sv
  \/ mgrEvent = sv /\ mgrPc = "find"
ManagerComes(s, sv) ==
  /\ mgrEvent = sv /\ IsDeparted(mgrSeen)
  /\ mgrPc = "list" \/ (mgrPc = "check" /\ s \in mgrTodo)
HandlerComes(s, sv) ==
  /\ s = rqSub /\ lastStates[s][sv] = NoState
  /\ \/ rqPc \in {"options", "list"}
     \/ rqPc \in {"check", "set", "add"} /\ rqSnapshot[sv] # NoState

Comes(s, sv) == EventComes(sv) \/ ManagerComes(s, sv) \/ HandlerComes(s, sv)

DepartureFollowed ==
  \A s \in Subs, sv \in StopVisits : departure[sv] = "announced" =>
    /\ IsDeparted(lastStates[s][sv]) => Sure(s, sv)
    /\ stopVisits[sv] # NoState => Sure(s, sv) \/ Comes(s, sv)

Departures == NotYetDeparted /\ NotTakenBack /\ DepartureFollowed

\* Nothing has departed initially.
LEMMA InitDepartures == Init => Departures
<1> SUFFICES ASSUME Init PROVE Departures
  OBVIOUS
<1>1. ~IsDeparted(NoState)
  BY DEF IsDeparted
<1>2. NotYetDeparted
  BY <1>1 DEF Init, NotYetDeparted, Nothing
<1>3. bcTodo = {} /\ \A sv \in StopVisits : departure[sv] = "none"
  BY DEF Init
<1>4. NotTakenBack /\ DepartureFollowed
  BY <1>3 DEF NotTakenBack, DepartureFollowed
<1> QED
  BY <1>2, <1>4 DEF Departures

\* What is enough for a step that leaves the model alone.
LEMMA FollowedStep ==
  ASSUME DepartureFollowed, UNCHANGED <<stopVisits, departure>>,
         \A s \in Subs, sv \in StopVisits : departure[sv] = "announced" =>
           /\ Sure(s, sv) => Sure(s, sv)'
           /\ IsDeparted(lastStates'[s][sv]) =>
                IsDeparted(lastStates[s][sv]) \/ Sure(s, sv)'
           /\ stopVisits[sv] # NoState /\ Comes(s, sv) =>
                Comes(s, sv)' \/ Sure(s, sv) \/ Sure(s, sv)'
  PROVE  DepartureFollowed'
BY DEF DepartureFollowed

\* A save announces the departure with an event, or drops the event; a deletion
\* takes the stop visit away.
LEMMA ModelDepartures ==
  ASSUME TypeOK, Departures, NEW sv \in StopVisits,
         \/ \E time \in Times, status \in Statuses : SaveStopVisit(sv, time, status)
         \/ DeleteStopVisit(sv)
  PROVE  Departures'
<1>1. NotYetDeparted /\ NotTakenBack /\ DepartureFollowed
  BY DEF Departures
<1>2. UNCHANGED <<subStatus, lineRef, lastStates, toBroadcast, mgrVars, bcVars,
                  rqVars, feedVars>>
  BY DEF SaveStopVisit, DeleteStopVisit, subVars
<1>3. \A s \in Subs, v \in StopVisits :
        /\ Sure(s, v)' = Sure(s, v) /\ ManagerComes(s, v)' = ManagerComes(s, v)
        /\ HandlerComes(s, v)' = HandlerComes(s, v)
  BY <1>2 DEF Sure, Excused, Missed, OnItsWay, Queued, ManagerComes, HandlerComes,
              Filtered, mgrVars, bcVars, rqVars, feedVars
<1>4. ASSUME NEW time \in Times, NEW status \in Statuses,
             SaveStopVisit(sv, time, status)
      PROVE  Departures'
  <2> DEFINE new == [ver |-> version[sv] + 1, time |-> time, status |-> status]
  <2>1. /\ stopVisits' = [stopVisits EXCEPT ![sv] = new]
        /\ departure' = [departure EXCEPT ![sv] =
             IF IsFinal(status) THEN IF @ = "none" THEN "announced" ELSE @
                                ELSE IF @ = "none" THEN @ ELSE "withdrawn"]
        /\ IF HasRoom THEN smbEventChan' = Append(smbEventChan, sv)
                           /\ dropped' = dropped \ {sv}
                      ELSE dropped' = dropped \cup {sv} /\ UNCHANGED smbEventChan
    BY <1>4 DEF SaveStopVisit
  <2>2. new # NoState /\ (IsDeparted(new) <=> IsFinal(status))
    <3>1. new \in StopVisit
      <4>1. version[sv] + 1 \in 1..MaxVersion
        BY <1>4 DEF SaveStopVisit, TypeOK
      <4> QED
        BY <4>1 DEF StopVisit
    <3> QED
      BY <3>1 DEF IsDeparted, Final
  <2> HIDE DEF new
  <2>3. /\ stopVisits'[sv] = new
        /\ \A v \in StopVisits \ {sv} : /\ stopVisits'[v] = stopVisits[v]
                                        /\ departure'[v] = departure[v]
    BY <2>1 DEF TypeOK
  <2>4. departure'[sv] = IF IsFinal(status)
                         THEN IF departure[sv] = "none" THEN "announced" ELSE departure[sv]
                         ELSE IF departure[sv] = "none" THEN "none" ELSE "withdrawn"
    BY <2>1 DEF TypeOK
  <2>5. NotYetDeparted'
    BY <1>1, <1>2, <2>2, <2>3, <2>4
       DEF NotYetDeparted, mgrVars, bcVars, rqVars, feedVars
  <2>6. NotTakenBack'
    <3> SUFFICES ASSUME NEW v \in StopVisits, departure'[v] = "announced"
                 PROVE  /\ stopVisits'[v] # NoState => IsDeparted(stopVisits'[v])
                        /\ IsDeparted(known[bcSub][v]) /\ bcDelivery[v] # NoState =>
                             IsDeparted(bcDelivery[v])
      BY <1>1, <1>2 DEF NotTakenBack, bcVars, feedVars
    <3>1. bcSub \in Subs
      BY DEF TypeOK
    <3>2. CASE v = sv
      BY <1>1, <2>2, <2>3, <2>4, <3>1, <3>2 DEF NotTakenBack, NotYetDeparted
    <3>3. CASE v # sv
      BY <1>1, <2>3, <3>3 DEF NotTakenBack
    <3> QED
      BY <3>2, <3>3
  <2>7. EventComes(sv)' /\ \A v \in StopVisits \ {sv} : EventComes(v) => EventComes(v)'
    <3>1. CASE HasRoom
      <4>1. /\ smbEventChan' = Append(smbEventChan, sv) /\ dropped' = dropped \ {sv}
            /\ smbEventChan \in Seq(StopVisits)
        BY <2>1, <3>1 DEF TypeOK
      <4>2. /\ DOMAIN smbEventChan = 1..Len(smbEventChan) /\ Len(smbEventChan) \in Nat
            /\ DOMAIN smbEventChan' = 1..(Len(smbEventChan) + 1)
            /\ \A i \in 1..Len(smbEventChan) : smbEventChan'[i] = smbEventChan[i]
            /\ smbEventChan'[Len(smbEventChan) + 1] = sv
        BY <4>1
      <4>3. EventComes(sv)'
        BY <4>2 DEF EventComes
      <4>4. ASSUME NEW v \in StopVisits \ {sv}, EventComes(v) PROVE EventComes(v)'
        BY <1>2, <4>1, <4>2, <4>4 DEF EventComes, mgrVars
      <4> QED
        BY <4>3, <4>4
    <3>2. CASE ~HasRoom
      BY <1>2, <2>1, <3>2 DEF EventComes, mgrVars
    <3> QED
      BY <3>1, <3>2
  <2>8. DepartureFollowed'
    <3> SUFFICES ASSUME NEW s \in Subs, NEW v \in StopVisits, departure'[v] = "announced"
                 PROVE  /\ IsDeparted(lastStates[s][v]) => Sure(s, v)
                        /\ stopVisits'[v] # NoState => Sure(s, v)' \/ Comes(s, v)'
      BY <1>2, <1>3 DEF DepartureFollowed
    <3>1. CASE v = sv
      BY <1>1, <1>3, <2>2, <2>4, <2>7, <3>1
         DEF NotYetDeparted, DepartureFollowed, Comes
    <3>2. CASE v # sv
      BY <1>1, <1>3, <2>3, <2>7, <3>2 DEF DepartureFollowed, Comes
    <3> QED
      BY <3>1, <3>2
  <2> QED
    BY <2>5, <2>6, <2>8 DEF Departures
<1>5. CASE DeleteStopVisit(sv)
  <2>1. /\ UNCHANGED <<departure, smbEventChan, dropped>>
        /\ stopVisits' = [stopVisits EXCEPT ![sv] = NoState]
    BY <1>5 DEF DeleteStopVisit
  <2>2. \A v \in StopVisits : stopVisits'[v] = NoState \/ stopVisits'[v] = stopVisits[v]
    BY <2>1 DEF TypeOK
  <2>3. NotYetDeparted'
    BY <1>1, <1>2, <2>1, <2>2
       DEF NotYetDeparted, IsDeparted, mgrVars, bcVars, rqVars, feedVars
  <2>4. NotTakenBack'
    BY <1>1, <1>2, <2>1, <2>2 DEF NotTakenBack, bcVars, feedVars
  <2>5. \A v \in StopVisits : EventComes(v)' = EventComes(v)
    BY <1>2, <2>1 DEF EventComes, mgrVars
  <2>6. DepartureFollowed'
    BY <1>1, <1>2, <1>3, <2>1, <2>2, <2>5 DEF DepartureFollowed, Comes
  <2> QED
    BY <2>3, <2>4, <2>6 DEF Departures
<1> QED
  BY <1>4, <1>5

\* A new or renewed subscription forgets its last states, and what its
\* subscriber was told: the handler reads the stop visits afterwards.
LEMMA RequestDepartures ==
  ASSUME TypeOK, Departures, NEW s \in Subs, NEW line, RequestResource(s, line)
  PROVE  Departures'
<1>1. NotYetDeparted /\ NotTakenBack /\ DepartureFollowed
  BY DEF Departures
<1>2. /\ UNCHANGED <<stopVisits, departure, smbEventChan, dropped, lineRef,
                     toBroadcast, mgrVars, bcVars, rqSnapshot, rqSv>>
      /\ rqPc = "idle" /\ rqPc' = "options" /\ rqSub' = s
  BY DEF RequestResource, modelVars
<1>3. /\ \A sv \in StopVisits : lastStates'[s][sv] = NoState /\ known'[s][sv] = NoState
      /\ \A r \in Subs \ {s} :
           /\ subStatus'[r] = subStatus[r] /\ lastStates'[r] = lastStates[r]
           /\ known'[r] = known[r] /\ missed'[r] = missed[r]
  BY DEF RequestResource, TypeOK, Nothing
<1>4. ~IsDeparted(NoState)
  BY DEF IsDeparted
<1>5. ASSUME NEW r \in Subs, NEW sv \in StopVisits
      PROVE  IF r = s THEN lastStates'[r][sv] = NoState /\ known'[r][sv] = NoState
             ELSE lastStates'[r] = lastStates[r] /\ known'[r] = known[r]
  BY <1>3
<1>6. NotYetDeparted'
  BY <1>1, <1>2, <1>4, <1>5 DEF NotYetDeparted, mgrVars, bcVars
<1>7. NotTakenBack'
  <2>1. bcSub \in Subs
    BY DEF TypeOK
  <2> QED
    BY <1>1, <1>2, <1>4, <1>5, <2>1 DEF NotTakenBack, bcVars
<1>8. DepartureFollowed'
  <2>1. ASSUME NEW sv \in StopVisits PROVE HandlerComes(s, sv)'
    BY <1>2, <1>3 DEF HandlerComes
  <2>2. ASSUME NEW r \in Subs \ {s}, NEW sv \in StopVisits
        PROVE  /\ Sure(r, sv)' = Sure(r, sv)
               /\ Comes(r, sv) => Comes(r, sv)'
    <3>1. Excused(r, sv)' = Excused(r, sv)
      BY <1>2, <1>3 DEF Excused, Missed, Filtered, bcVars
    <3>2. OnItsWay(r, sv)' = OnItsWay(r, sv)
      BY <1>2, <1>3 DEF OnItsWay, Queued, mgrVars, bcVars
    <3>3. ~HandlerComes(r, sv)
      BY <1>2 DEF HandlerComes
    <3>4. ManagerComes(r, sv)' = ManagerComes(r, sv) /\ EventComes(sv)' = EventComes(sv)
      BY <1>2 DEF ManagerComes, EventComes, mgrVars
    <3> QED
      BY <3>1, <3>2, <3>3, <3>4 DEF Sure, Comes
  <2> QED
    BY <1>1, <1>2, <1>3, <1>4, <2>1, <2>2 DEF DepartureFollowed, Comes
<1> QED
  BY <1>6, <1>7, <1>8 DEF Departures

\* A subscription that ends is excused.
LEMMA EndDepartures ==
  ASSUME TypeOK, Departures, NEW s \in Subs,
         Cancel(s) \/ Expire(s) \/ GuardianRead(s) \/ GuardianDelete(s)
  PROVE  Departures'
<1>1. NotYetDeparted /\ NotTakenBack /\ DepartureFollowed
  BY DEF Departures
<1>2. UNCHANGED <<modelVars, lineRef, lastStates, toBroadcast, mgrVars, bcVars,
                  rqVars, feedVars>>
  BY DEF Cancel, Expire, GuardianRead, GuardianDelete
<1>3. \A r \in Subs : subStatus'[r] = "live" => subStatus[r] = "live"
  BY DEF Cancel, Expire, GuardianRead, GuardianDelete, TypeOK
<1>4. NotYetDeparted' /\ NotTakenBack'
  BY <1>1, <1>2 DEF NotYetDeparted, NotTakenBack, modelVars, mgrVars, bcVars,
                    rqVars, feedVars
<1>5. ASSUME NEW r \in Subs, NEW sv \in StopVisits
      PROVE  Sure(r, sv) => Sure(r, sv)'
  <2>1. OnItsWay(r, sv)' = OnItsWay(r, sv) /\ Comes(r, sv)' = Comes(r, sv)
    BY <1>2 DEF OnItsWay, Queued, Comes, EventComes, ManagerComes, HandlerComes,
                modelVars, mgrVars, bcVars, rqVars, feedVars
  <2>2. Excused(r, sv) => Excused(r, sv)'
    BY <1>2, <1>3 DEF Excused, Missed, Filtered, bcVars, feedVars
  <2> QED
    BY <2>1, <2>2 DEF Sure
<1>6. ASSUME NEW r \in Subs, NEW sv \in StopVisits
      PROVE  Comes(r, sv)' = Comes(r, sv)
  BY <1>2 DEF Comes, EventComes, ManagerComes, HandlerComes, modelVars, mgrVars,
              bcVars, rqVars, feedVars
<1>7. DepartureFollowed'
  BY <1>1, <1>2, <1>5, <1>6, FollowedStep DEF modelVars
<1> QED
  BY <1>4, <1>7 DEF Departures

\* The manager reads the stop visit after its event: a departed one is queued,
\* but for a last state that is departed already.
LEMMA ManagerDepartures ==
  ASSUME TypeOK, Departures, Manager PROVE Departures'
<1>1. NotYetDeparted /\ NotTakenBack /\ DepartureFollowed
  BY DEF Departures
<1>2. UNCHANGED <<stopVisits, departure, dropped, subVars, bcVars, rqVars, feedVars>>
  BY DEF Manager, ManagerReceive, ManagerFind, ManagerList, ManagerCheck, ManagerAdd,
         modelVars
<1>3. \A s \in Subs, sv \in StopVisits : Excused(s, sv)' = Excused(s, sv)
  BY <1>2 DEF Excused, Missed, Filtered, subVars, bcVars, feedVars
<1>4. NotTakenBack'
  BY <1>1, <1>2 DEF NotTakenBack, bcVars, feedVars
<1>5. ~IsDeparted(NoState)
  BY DEF IsDeparted
<1>6. CASE ManagerReceive
  <2>1. /\ UNCHANGED <<lastStates, toBroadcast, mgrSeen, mgrFound, mgrTodo>>
        /\ mgrPc = "idle" /\ mgrPc' = "find" /\ smbEventChan # <<>>
        /\ mgrEvent' = Head(smbEventChan) /\ smbEventChan' = Tail(smbEventChan)
    BY <1>6 DEF ManagerReceive
  <2>2. NotYetDeparted'
    BY <1>1, <1>2, <1>5, <2>1 DEF NotYetDeparted, bcVars, rqVars, feedVars
  <2>3. ASSUME NEW sv \in StopVisits, EventComes(sv) PROVE EventComes(sv)'
    <3>1. smbEventChan \in Seq(StopVisits) /\ Len(smbEventChan) \in Nat
      BY DEF TypeOK
    <3>2. ASSUME NEW i \in 1..Len(smbEventChan), smbEventChan[i] = sv
          PROVE  EventComes(sv)'
      <4>1. CASE i = 1
        BY <2>1, <3>1, <3>2, <4>1 DEF EventComes
      <4>2. CASE i # 1
        <5>1. i - 1 \in DOMAIN Tail(smbEventChan) /\ Tail(smbEventChan)[i - 1] = sv
          BY <2>1, <3>1, <3>2, <4>2
        <5> QED
          BY <2>1, <5>1 DEF EventComes
      <4> QED
        BY <4>1, <4>2
    <3>3. DOMAIN smbEventChan = 1..Len(smbEventChan)
      BY <3>1
    <3> QED
      BY <1>2, <2>1, <2>3, <3>2, <3>3 DEF EventComes
  <2>4. ASSUME NEW s \in Subs, NEW sv \in StopVisits
        PROVE  /\ OnItsWay(s, sv)' = OnItsWay(s, sv)
               /\ Comes(s, sv) => Comes(s, sv)'
    BY <1>2, <2>1, <2>3 DEF OnItsWay, Queued, Comes, ManagerComes, HandlerComes,
                            bcVars, rqVars, feedVars
  <2>5. DepartureFollowed'
    BY <1>1, <1>2, <1>3, <2>1, <2>4, FollowedStep DEF Sure
  <2> QED
    BY <1>4, <2>2, <2>5 DEF Departures
<1>7. CASE ManagerFind
  <2>1. /\ UNCHANGED <<smbEventChan, lastStates, toBroadcast, mgrEvent, mgrFound, mgrTodo>>
        /\ mgrPc = "find"
        /\ \/ /\ stopVisits[mgrEvent] = NoState \/ mgrEvent \in Own
              /\ mgrPc' = "idle" /\ mgrSeen' = mgrSeen
           \/ mgrPc' = "list" /\ mgrSeen' = stopVisits[mgrEvent]
    BY <1>7 DEF ManagerFind, modelVars
  <2>2. mgrEvent \in StopVisits
    BY DEF TypeOK
  <2>3. NotYetDeparted'
    BY <1>1, <1>2, <1>5, <2>1, <2>2 DEF NotYetDeparted, bcVars, rqVars, feedVars
  <2>4. ASSUME NEW s \in Subs, NEW sv \in StopVisits, departure[sv] = "announced",
               stopVisits[sv] # NoState, Comes(s, sv)
        PROVE  Comes(s, sv)' \/ Sure(s, sv)
    BY <1>1, <1>2, <2>1, <2>4 DEF NotTakenBack, Comes, EventComes, ManagerComes,
                                  HandlerComes, Sure, Excused, rqVars
  <2>5. \A s \in Subs, sv \in StopVisits : OnItsWay(s, sv)' = OnItsWay(s, sv)
    BY <1>2, <2>1 DEF OnItsWay, Queued, bcVars, rqVars, feedVars
  <2>6. DepartureFollowed'
    BY <1>1, <1>2, <1>3, <2>1, <2>4, <2>5, FollowedStep DEF Sure
  <2> QED
    BY <1>4, <2>3, <2>6 DEF Departures
<1>8. CASE ManagerList
  <2>1. /\ UNCHANGED <<smbEventChan, lastStates, toBroadcast, mgrEvent, mgrSeen, mgrFound>>
        /\ mgrPc = "list" /\ mgrPc' = "check"
        /\ mgrTodo' = {s \in Subs : Registered(s)}
    BY <1>8 DEF ManagerList, modelVars
  <2>2. NotYetDeparted'
    BY <1>1, <1>2, <2>1 DEF NotYetDeparted, bcVars, rqVars, feedVars
  <2>3. ASSUME NEW s \in Subs, NEW sv \in StopVisits
        PROVE  /\ OnItsWay(s, sv) => OnItsWay(s, sv)'
               /\ Comes(s, sv) => Comes(s, sv)' \/ Excused(s, sv)
    <3>1. OnItsWay(s, sv) => OnItsWay(s, sv)'
      BY <1>2, <2>1 DEF OnItsWay, Queued, bcVars, rqVars, feedVars
    <3>2. Comes(s, sv) => Comes(s, sv)' \/ Excused(s, sv)
      BY <1>2, <2>1 DEF Comes, EventComes, ManagerComes, HandlerComes, Excused,
                        Registered, rqVars
    <3> QED
      BY <3>1, <3>2
  <2>4. DepartureFollowed'
    BY <1>1, <1>2, <1>3, <2>1, <2>3, FollowedStep DEF Sure
  <2> QED
    BY <1>4, <2>2, <2>4 DEF Departures
<1>9. CASE ManagerAdd
  <2>1. /\ UNCHANGED <<smbEventChan, lastStates, mgrEvent, mgrTodo>>
        /\ mgrPc = "check" /\ mgrPc' = "idle" /\ mgrTodo = {} /\ mgrSeen' = NoState
        /\ \A s \in Subs : toBroadcast'[s] = IF s \in mgrFound
                                             THEN toBroadcast[s] \cup {mgrEvent}
                                             ELSE toBroadcast[s]
    BY <1>9 DEF ManagerAdd, modelVars
  <2>2. NotYetDeparted'
    BY <1>1, <1>2, <1>5, <2>1 DEF NotYetDeparted, bcVars, rqVars, feedVars
  <2>3. ASSUME NEW s \in Subs, NEW sv \in StopVisits
        PROVE  /\ OnItsWay(s, sv) => OnItsWay(s, sv)'
               /\ Comes(s, sv) => Comes(s, sv)'
    <3>1. Queued(s, sv) => Queued(s, sv)'
      BY <1>2, <2>1 DEF Queued, rqVars
    <3>2. OnItsWay(s, sv) => OnItsWay(s, sv)'
      BY <1>2, <3>1 DEF OnItsWay, bcVars, feedVars
    <3>3. Comes(s, sv) => Comes(s, sv)'
      BY <1>2, <2>1 DEF Comes, EventComes, ManagerComes, HandlerComes, rqVars
    <3> QED
      BY <3>2, <3>3
  <2>4. DepartureFollowed'
    BY <1>1, <1>2, <1>3, <2>1, <2>3, FollowedStep DEF Sure
  <2> QED
    BY <1>4, <2>2, <2>4 DEF Departures
<1>10. ASSUME NEW s \in Subs, ManagerCheck(s) PROVE Departures'
  <2>1. /\ UNCHANGED <<smbEventChan, toBroadcast, mgrPc, mgrEvent, mgrSeen>>
        /\ mgrPc = "check" /\ s \in mgrTodo /\ mgrTodo' = mgrTodo \ {s}
    BY <1>10 DEF ManagerCheck, modelVars
  <2>2. \/ Skips(s) /\ UNCHANGED <<lastStates, mgrFound>>
        \/ /\ ~Skips(s) /\ mgrFound' = mgrFound \cup {s}
           /\ lastStates' = IF lastStates[s][mgrEvent] = NoState
                            THEN [lastStates EXCEPT ![s][mgrEvent] = mgrSeen]
                            ELSE lastStates
    BY <1>10 DEF ManagerCheck
  <2>3. mgrFound \subseteq mgrFound' /\ (Skips(s) \/ s \in mgrFound')
    BY <2>2
  <2>4. ASSUME NEW r \in Subs, NEW sv \in StopVisits
        PROVE  \/ lastStates'[r][sv] = lastStates[r][sv]
               \/ /\ r = s /\ sv = mgrEvent /\ s \in mgrFound'
                  /\ lastStates'[r][sv] = mgrSeen
    BY <2>2 DEF TypeOK
  <2>5. NotYetDeparted'
    BY <1>1, <1>2, <2>1, <2>4 DEF NotYetDeparted, bcVars, rqVars, feedVars
  <2>6. ASSUME NEW r \in Subs, NEW sv \in StopVisits
        PROVE  OnItsWay(r, sv) => OnItsWay(r, sv)'
    BY <1>2, <2>1, <2>3 DEF OnItsWay, Queued, bcVars, rqVars, feedVars
  <2>7. ASSUME NEW r, NEW sv, r = s, sv = mgrEvent, s \in mgrFound'
        PROVE  OnItsWay(r, sv)'
    BY <2>1, <2>7 DEF OnItsWay, Queued
  <2>8. ASSUME Skips(s), IsDeparted(mgrSeen)
        PROVE  Excused(s, mgrEvent) \/ IsDeparted(lastStates[s][mgrEvent])
    <3>1. CASE ~HasResource(s) \/ subStatus[s] = "expired" \/ Filtered(s, mgrEvent)
      BY <3>1 DEF HasResource, Excused
    <3>2. CASE /\ lastStates[s][mgrEvent] # NoState
               /\ ~HasChanged(s, mgrSeen, lastStates[s][mgrEvent])
      BY <2>8, <3>2 DEF HasChanged, IsDeparted, Final, IsFinal, StatusChanged
    <3> QED
      BY <2>8, <3>1, <3>2 DEF Skips
  <2>9. ASSUME NEW r \in Subs, NEW sv \in StopVisits, departure[sv] = "announced",
               Comes(r, sv)
        PROVE  Comes(r, sv)' \/ Sure(r, sv) \/ Sure(r, sv)'
    <3>1. CASE EventComes(sv)
      BY <1>2, <2>1, <3>1 DEF Comes, EventComes
    <3>2. CASE ManagerComes(r, sv)
      <4>1. CASE r # s
        BY <2>1, <3>2, <4>1 DEF Comes, ManagerComes
      <4>2. CASE r = s
        <5>1. sv = mgrEvent /\ IsDeparted(mgrSeen)
          BY <3>2 DEF ManagerComes
        <5>2. CASE Skips(s)
          <6>1. Excused(s, sv) \/ IsDeparted(lastStates[s][sv])
            BY <2>8, <5>1, <5>2
          <6> QED
            BY <1>1, <2>9, <4>2, <6>1 DEF Sure, DepartureFollowed
        <5>3. CASE s \in mgrFound'
          BY <2>7, <4>2, <5>1, <5>3 DEF Sure
        <5> QED
          BY <2>3, <5>2, <5>3
      <4> QED
        BY <4>1, <4>2
    <3>3. CASE HandlerComes(r, sv)
      <4>1. CASE lastStates'[r][sv] = lastStates[r][sv]
        BY <1>2, <3>3, <4>1 DEF Comes, HandlerComes, rqVars
      <4>2. CASE r = s /\ sv = mgrEvent /\ s \in mgrFound'
        BY <2>7, <4>2 DEF Sure
      <4> QED
        BY <2>4, <4>1, <4>2
    <3> QED
      BY <2>9, <3>1, <3>2, <3>3 DEF Comes
  <2>10. ASSUME NEW r \in Subs, NEW sv \in StopVisits
         PROVE  /\ Sure(r, sv) => Sure(r, sv)'
                /\ IsDeparted(lastStates'[r][sv]) =>
                     IsDeparted(lastStates[r][sv]) \/ Sure(r, sv)'
    BY <1>3, <2>4, <2>6, <2>7 DEF Sure
  <2>11. DepartureFollowed'
    BY <1>1, <1>2, <2>9, <2>10, FollowedStep
  <2> QED
    BY <1>4, <2>5, <2>11 DEF Departures
<1> QED
  BY <1>6, <1>7, <1>8, <1>9, <1>10 DEF Manager

\* What the broadcaster leaves alone.
LEMMA BroadcasterLeaves ==
  ASSUME UNCHANGED <<modelVars, subVars, mgrVars, rqVars>>
  PROVE  /\ UNCHANGED <<stopVisits, departure>>
         /\ \A s, sv : /\ EventComes(sv)' = EventComes(sv)
                       /\ ManagerComes(s, sv)' = ManagerComes(s, sv)
                       /\ lastStates'[s][sv] = lastStates[s][sv] =>
                            HandlerComes(s, sv)' = HandlerComes(s, sv)
         /\ \A s, sv : (Missed(s, sv) => Missed(s, sv)') =>
                         (Excused(s, sv) => Excused(s, sv)')
<1>1. UNCHANGED <<stopVisits, departure>>
  BY DEF modelVars
<1>2. ASSUME NEW s, NEW sv
      PROVE  /\ EventComes(sv)' = EventComes(sv)
             /\ ManagerComes(s, sv)' = ManagerComes(s, sv)
             /\ lastStates'[s][sv] = lastStates[s][sv] =>
                  HandlerComes(s, sv)' = HandlerComes(s, sv)
  BY DEF EventComes, ManagerComes, HandlerComes, modelVars, mgrVars, rqVars
<1>3. ASSUME NEW s, NEW sv, Missed(s, sv) => Missed(s, sv)', Excused(s, sv)
      PROVE  Excused(s, sv)'
  BY <1>3 DEF Excused, Filtered, subVars
<1> QED
  BY <1>1, <1>2, <1>3

\* The batch is taken, and its subscriptions are visited.
LEMMA BatchDepartures ==
  ASSUME TypeOK, BroadcasterEmpty, Departures,
         \/ BroadcasterTick \/ BroadcasterDone
         \/ \E s \in Subs : BroadcasterVisit(s)
  PROVE  Departures'
<1>1. NotYetDeparted /\ NotTakenBack /\ DepartureFollowed
  BY DEF Departures
<1>2. UNCHANGED <<modelVars, subVars, lastStates, mgrVars, bcDelivery, rqVars, feedVars>>
  BY DEF BroadcasterTick, BroadcasterDone, BroadcasterVisit
<1>3. NotYetDeparted'
  BY <1>1, <1>2 DEF NotYetDeparted, modelVars, mgrVars, rqVars, feedVars
<1>4. bcDelivery = Nothing /\ bcPc \in {"idle", "visit"}
  BY DEF BroadcasterTick, BroadcasterDone, BroadcasterVisit, BroadcasterEmpty
<1>5. \A sv \in StopVisits : bcDelivery[sv] = NoState /\ bcDelivery'[sv] = NoState
  BY <1>2, <1>4 DEF Nothing
<1>51. bcTodo' \subseteq StopVisits
  BY DEF BroadcasterTick, BroadcasterDone, BroadcasterVisit, TypeOK
<1>52. NotTakenBack'
  BY <1>1, <1>2, <1>5, <1>51 DEF NotTakenBack, modelVars
<1>6. ASSUME NEW s \in Subs, NEW sv \in StopVisits, OnItsWay(s, sv)
      PROVE  OnItsWay(s, sv)' \/ subStatus[s] # "live"
  <2>1. CASE IsDeparted(known[s][sv])
    BY <1>2, <2>1 DEF OnItsWay, feedVars
  <2>2. CASE Queued(s, sv)
    <3>1. CASE BroadcasterTick
      BY <1>2, <2>2, <3>1 DEF BroadcasterTick, OnItsWay, Queued, mgrVars, rqVars
    <3>2. CASE BroadcasterDone \/ \E r \in Subs : BroadcasterVisit(r)
      BY <1>2, <2>2, <3>2 DEF BroadcasterDone, BroadcasterVisit, OnItsWay, Queued,
                              mgrVars, rqVars
    <3> QED
      BY <3>1, <3>2
  <2>3. CASE sv \in bcBatch[s]
    <3>1. CASE BroadcasterTick
      BY <2>3, <3>1 DEF BroadcasterTick, BroadcasterEmpty
    <3>2. CASE BroadcasterDone
      BY <2>3, <3>2 DEF BroadcasterDone
    <3>3. ASSUME NEW r \in Subs, BroadcasterVisit(r)
          PROVE  OnItsWay(s, sv)' \/ subStatus[s] # "live"
      <4>1. CASE r # s
        <5>1. bcBatch'[s] = bcBatch[s]
          BY <3>3, <4>1 DEF BroadcasterVisit, TypeOK
        <5> QED
          BY <2>3, <5>1 DEF OnItsWay
      <4>2. CASE r = s /\ Registered(s)
        <5>1. bcSub' = s /\ bcTodo' = bcBatch[s] /\ bcPc' = "read"
          BY <3>3, <4>2 DEF BroadcasterVisit
        <5> QED
          BY <2>3, <5>1 DEF OnItsWay
      <4>3. CASE ~Registered(s)
        BY <4>3 DEF Registered
      <4> QED
        BY <4>1, <4>2, <4>3
    <3> QED
      BY <3>1, <3>2, <3>3
  <2> QED
    BY <1>4, <1>6, <2>1, <2>2, <2>3 DEF OnItsWay
<1>7. \A s \in Subs, sv \in StopVisits :
        /\ Excused(s, sv)' = Excused(s, sv) /\ Comes(s, sv)' = Comes(s, sv)
  BY <1>2, <1>5 DEF Excused, Missed, Filtered, Comes, EventComes, ManagerComes,
                    HandlerComes, modelVars, subVars, mgrVars, rqVars, feedVars
<1>8. DepartureFollowed'
  <2>1. \A s \in Subs, sv \in StopVisits : Sure(s, sv) => Sure(s, sv)'
    BY <1>6, <1>7 DEF Sure, Excused
  <2> QED
    BY <1>1, <1>2, <1>7, <2>1, FollowedStep DEF modelVars
<1> QED
  BY <1>3, <1>52, <1>8 DEF Departures

\* A stop visit of the batch is read from the model, or skipped.
LEMMA ReadDepartures ==
  ASSUME TypeOK, BroadcasterEmpty, Departures, NEW sv \in StopVisits,
         BroadcasterRead(sv) \/ BroadcasterSkip(sv)
  PROVE  Departures'
<1>1. NotYetDeparted /\ NotTakenBack /\ DepartureFollowed
  BY DEF Departures
<1>2. /\ UNCHANGED <<modelVars, subVars, lastStates, toBroadcast, mgrVars, bcBatch,
                     bcSub, rqVars, known>>
      /\ bcPc = "read" /\ sv \in bcTodo /\ bcTodo' = bcTodo \ {sv}
      /\ bcSub \in Subs
  BY DEF BroadcasterRead, BroadcasterSkip, TypeOK, feedVars
<1>3. \/ /\ stopVisits[sv] # NoState /\ missed' = missed /\ bcPc' = "update"
         /\ bcDelivery' = [bcDelivery EXCEPT ![sv] = stopVisits[sv]]
      \/ /\ missed' = [missed EXCEPT ![bcSub] = @ \cup {sv}]
         /\ bcDelivery' = bcDelivery /\ bcPc' = bcPc
  BY DEF BroadcasterRead, BroadcasterSkip, Find, feedVars
<1>4. /\ \A s \in Subs : missed[s] \subseteq missed'[s]
      /\ bcPc' \in {"read", "update"}
      /\ \A v \in StopVisits : v # sv => bcDelivery'[v] = bcDelivery[v]
      /\ \/ bcDelivery'[sv] = stopVisits[sv] /\ stopVisits[sv] # NoState
         \/ /\ bcDelivery'[sv] = bcDelivery[sv] /\ bcDelivery[sv] = NoState
            /\ sv \in missed'[bcSub]
  <2>1. /\ missed \in [Subs -> SUBSET StopVisits]
        /\ bcDelivery \in [StopVisits -> StopVisitOrNone]
    BY DEF TypeOK
  <2>2. bcDelivery[sv] = NoState
    BY <1>1, <1>2 DEF NotTakenBack
  <2> QED
    BY <1>2, <1>3, <2>1, <2>2
<1>5. NotYetDeparted'
  BY <1>1, <1>2, <1>4 DEF NotYetDeparted, modelVars, mgrVars, rqVars
<1>6. NotTakenBack'
  <2>1. bcTodo' \subseteq StopVisits
    BY <1>2 DEF TypeOK
  <2> QED
    BY <1>1, <1>2, <1>4, <2>1 DEF NotTakenBack, modelVars
<1>7. ASSUME NEW s \in Subs, NEW v \in StopVisits, departure[v] = "announced"
      PROVE  /\ Excused(s, v) => Excused(s, v)'
             /\ Comes(s, v)' = Comes(s, v)
  <2>1. Missed(s, v) => Missed(s, v)'
    BY <1>1, <1>2, <1>4, <1>7 DEF NotTakenBack, Missed
  <2> QED
    BY <1>2, <2>1, BroadcasterLeaves DEF Comes
<1>8. ASSUME NEW s \in Subs, NEW v \in StopVisits, departure[v] = "announced",
             OnItsWay(s, v)
      PROVE  Sure(s, v)'
  <2>1. CASE Queued(s, v) \/ v \in bcBatch[s] \/ IsDeparted(known[s][v])
    BY <1>2, <2>1 DEF Sure, OnItsWay, Queued, mgrVars, rqVars
  <2>2. CASE s = bcSub /\ v # sv /\ (v \in bcTodo \/ IsDeparted(bcDelivery[v]))
    BY <1>2, <1>4, <2>2 DEF Sure, OnItsWay
  <2>3. CASE s = bcSub /\ v = sv
    <3>1. CASE bcDelivery'[sv] = stopVisits[sv] /\ stopVisits[sv] # NoState
      <4>1. IsDeparted(bcDelivery'[sv])
        BY <1>1, <1>8, <2>3, <3>1 DEF NotTakenBack
      <4> QED
        BY <1>2, <1>4, <2>3, <4>1 DEF Sure, OnItsWay
    <3>2. CASE sv \in missed'[bcSub] /\ bcDelivery'[sv] = NoState
      BY <2>3, <3>2 DEF Sure, Excused, Missed
    <3> QED
      BY <1>4, <3>1, <3>2
  <2> QED
    BY <1>8, <2>1, <2>2, <2>3 DEF OnItsWay
<1>9. DepartureFollowed'
  BY <1>1, <1>2, <1>7, <1>8, FollowedStep DEF Sure, modelVars
<1> QED
  BY <1>5, <1>6, <1>9 DEF Departures

\* The last state is updated with what is in the delivery.
LEMMA UpdateDepartures ==
  ASSUME TypeOK, BroadcasterEmpty, Departures, BroadcasterUpdate
  PROVE  Departures'
<1>1. NotYetDeparted /\ NotTakenBack /\ DepartureFollowed
  BY DEF Departures
<1>2. /\ UNCHANGED <<modelVars, subVars, toBroadcast, mgrVars, bcBatch, bcSub, bcTodo,
                     bcDelivery, rqVars, feedVars>>
      /\ bcPc = "update" /\ bcPc' = "read"
      /\ bcSeen # NoState /\ bcDelivery[bcSv] = bcSeen
      /\ bcSub \in Subs /\ bcSv \in StopVisits
  BY DEF BroadcasterUpdate, BroadcasterEmpty, TypeOK
<1>3. lastStates' = IF bcGen = gen[bcSub] /\ lastStates[bcSub][bcSv] # NoState
                    THEN [lastStates EXCEPT ![bcSub][bcSv] = bcSeen]
                    ELSE lastStates
  BY DEF BroadcasterUpdate, Told
<1>4. ASSUME NEW s \in Subs, NEW sv \in StopVisits
      PROVE  \/ lastStates'[s][sv] = lastStates[s][sv]
             \/ /\ s = bcSub /\ sv = bcSv /\ lastStates[s][sv] # NoState
                /\ lastStates'[s][sv] = bcDelivery[sv]
  BY <1>2, <1>3 DEF TypeOK
<1>5. NotYetDeparted'
  BY <1>1, <1>2, <1>4 DEF NotYetDeparted, modelVars, mgrVars, rqVars, feedVars
<1>6. NotTakenBack'
  BY <1>1, <1>2 DEF NotTakenBack, modelVars, feedVars
<1>7. ASSUME NEW s \in Subs, NEW sv \in StopVisits
      PROVE  /\ OnItsWay(s, sv)' = OnItsWay(s, sv)
             /\ Excused(s, sv) => Excused(s, sv)'
             /\ Comes(s, sv) => Comes(s, sv)'
  <2>1. OnItsWay(s, sv)' = OnItsWay(s, sv)
    BY <1>2 DEF OnItsWay, Queued, mgrVars, rqVars, feedVars
  <2>2. Excused(s, sv) => Excused(s, sv)'
    BY <1>2 DEF Excused, Missed, Filtered, subVars, feedVars
  <2>3. HandlerComes(s, sv) => lastStates'[s][sv] = lastStates[s][sv]
    BY <1>4 DEF HandlerComes
  <2>4. Comes(s, sv) => Comes(s, sv)'
    BY <1>2, <2>3, BroadcasterLeaves DEF Comes
  <2> QED
    BY <2>1, <2>2, <2>4
<1>8. ASSUME NEW s \in Subs, NEW sv \in StopVisits, IsDeparted(lastStates'[s][sv])
      PROVE  IsDeparted(lastStates[s][sv]) \/ OnItsWay(s, sv)
  BY <1>2, <1>4, <1>8 DEF OnItsWay
<1>9. DepartureFollowed'
  BY <1>1, <1>2, <1>7, <1>8, FollowedStep DEF Sure, modelVars
<1> QED
  BY <1>5, <1>6, <1>9 DEF Departures

\* The delivery is sent: the subscriber knows, or it is missed.
LEMMA SendDepartures ==
  ASSUME TypeOK, BroadcasterEmpty, Departures, NEW ok \in BOOLEAN, BroadcasterSend(ok)
  PROVE  Departures'
<1>1. NotYetDeparted /\ NotTakenBack /\ DepartureFollowed
  BY DEF Departures
<1>2. /\ UNCHANGED <<modelVars, subVars, lastStates, toBroadcast, mgrVars, bcBatch,
                     bcSub, bcTodo, rqVars>>
      /\ bcPc = "read" /\ bcPc' = "visit" /\ bcTodo = {} /\ bcDelivery' = Nothing
      /\ bcSub \in Subs
  BY DEF BroadcasterSend, TypeOK
<1>3. ASSUME NEW s \in Subs, NEW sv \in StopVisits
      PROVE  \/ /\ s = bcSub /\ bcDelivery[sv] # NoState
                /\ \/ known'[s][sv] = bcDelivery[sv]
                   \/ known'[s][sv] = known[s][sv] /\ sv \in missed'[s]
             \/ /\ ~(s = bcSub /\ bcDelivery[sv] # NoState)
                /\ known'[s][sv] = known[s][sv]
                /\ sv \in missed[s] => sv \in missed'[s]
  <2>1. CASE ok
    BY <2>1 DEF BroadcasterSend, Delivered, TypeOK
  <2>2. CASE ~ok
    BY <2>2 DEF BroadcasterSend, Delivered, TypeOK
  <2> QED
    BY <2>1, <2>2
<1>4. /\ \A sv \in StopVisits : bcDelivery'[sv] = NoState
      /\ ~IsDeparted(NoState)
  BY <1>2 DEF Nothing, IsDeparted
<1>5. NotYetDeparted'
  <2>1. \A s \in Subs, sv \in StopVisits : IsDeparted(known'[s][sv]) =>
          IsDeparted(known[s][sv]) \/ IsDeparted(bcDelivery[sv])
    BY <1>3
  <2> QED
    BY <1>1, <1>2, <1>4, <2>1 DEF NotYetDeparted, modelVars, mgrVars, rqVars
<1>6. NotTakenBack'
  BY <1>1, <1>2, <1>4 DEF NotTakenBack, modelVars
<1>7. ASSUME NEW s \in Subs, NEW sv \in StopVisits, departure[sv] = "announced",
             Sure(s, sv)
      PROVE  Sure(s, sv)'
  <2>1. CASE Queued(s, sv) \/ sv \in bcBatch[s]
    BY <1>2, <2>1 DEF Sure, OnItsWay, Queued, mgrVars, rqVars
  <2>2. CASE IsDeparted(known[s][sv])
    <3>1. CASE known'[s][sv] = known[s][sv]
      BY <2>2, <3>1 DEF Sure, OnItsWay
    <3>2. CASE s = bcSub /\ bcDelivery[sv] # NoState /\ known'[s][sv] = bcDelivery[sv]
      BY <1>1, <1>7, <2>2, <3>2 DEF NotTakenBack, Sure, OnItsWay
    <3> QED
      BY <1>3, <3>1, <3>2
  <2>3. CASE s = bcSub /\ IsDeparted(bcDelivery[sv])
    <3>1. bcDelivery[sv] # NoState
      BY <1>4, <2>3
    <3>2. known'[s][sv] = bcDelivery[sv] \/ sv \in missed'[s]
      BY <1>3, <2>3, <3>1
    <3> QED
      BY <1>4, <2>3, <3>2 DEF Sure, OnItsWay, Excused, Missed
  <2>4. CASE Missed(s, sv) /\ ~(s = bcSub /\ bcDelivery[sv] # NoState)
    BY <1>3, <1>4, <2>4 DEF Sure, Excused, Missed
  <2>5. CASE subStatus[s] # "live" \/ Filtered(s, sv) \/ sv \in Own
    BY <1>2, <2>5 DEF Sure, Excused, Filtered, subVars
  <2> QED
    BY <1>2, <1>7, <2>1, <2>2, <2>3, <2>4, <2>5
       DEF Sure, Excused, Missed, OnItsWay
<1>8. DepartureFollowed'
  <2>1. \A s \in Subs, sv \in StopVisits : Comes(s, sv)' = Comes(s, sv)
    BY <1>2, BroadcasterLeaves DEF Comes
  <2> QED
    BY <1>1, <1>2, <1>7, <2>1, FollowedStep DEF modelVars
<1> QED
  BY <1>5, <1>6, <1>8 DEF Departures

\* The broadcaster loses no departure.
LEMMA BroadcasterDepartures ==
  ASSUME TypeOK, BroadcasterEmpty, Departures, Broadcaster
  PROVE  Departures'
BY BatchDepartures, ReadDepartures, UpdateDepartures, SendDepartures DEF Broadcaster

\* The handler reads the stop visits after the resource is there: a departed one
\* is queued, or was told, or is filtered.
LEMMA HandlerDepartures ==
  ASSUME TypeOK, Departures, Handler PROVE Departures'
<1>1. NotYetDeparted /\ NotTakenBack /\ DepartureFollowed
  BY DEF Departures
<1>2. /\ UNCHANGED <<modelVars, subStatus, mgrVars, bcVars, rqSub, feedVars>>
      /\ rqSub \in Subs /\ rqSv \in StopVisits
  BY DEF Handler, RequestOptions, RequestList, RequestCheck, RequestSet, RequestAdd,
         RequestDone, subVars, TypeOK
<1>3. NotTakenBack'
  BY <1>1, <1>2 DEF NotTakenBack, modelVars, bcVars, feedVars
<1>4. ~IsDeparted(NoState)
  BY DEF IsDeparted
<1>5. ASSUME NEW s \in Subs, NEW sv \in StopVisits
      PROVE  /\ EventComes(sv)' = EventComes(sv)
             /\ ManagerComes(s, sv)' = ManagerComes(s, sv)
  BY <1>2 DEF EventComes, ManagerComes, modelVars, mgrVars
<1>6. \A s \in Subs : lineRef[s] => lineRef'[s]
  BY DEF Handler, RequestOptions, RequestList, RequestCheck, RequestSet, RequestAdd,
         RequestDone, subVars, TypeOK
<1>7. ASSUME NEW s \in Subs, NEW sv \in StopVisits
      PROVE  Excused(s, sv) => Excused(s, sv)'
  BY <1>2, <1>6 DEF Excused, Missed, Filtered, bcVars, feedVars
<1>8. ASSUME NEW s \in Subs, NEW sv \in StopVisits
      PROVE  /\ RequestAdd /\ s = rqSub /\ sv = rqSv => sv \in toBroadcast'[s]
             /\ Queued(s, sv) => Queued(s, sv)'
  <2>1. CASE RequestAdd
    <3>1. rqSv \in toBroadcast'[rqSub] /\ toBroadcast[s] \subseteq toBroadcast'[s]
      BY <1>2, <2>1 DEF RequestAdd, TypeOK
    <3> QED
      BY <1>2, <3>1 DEF Queued, mgrVars
  <2>2. CASE rqPc # "add" /\ toBroadcast' = toBroadcast
    BY <1>2, <2>2 DEF RequestAdd, Queued, mgrVars
  <2> QED
    BY <2>1, <2>2 DEF Handler, RequestOptions, RequestList, RequestCheck, RequestSet,
                      RequestDone
<1>9. ASSUME NEW s \in Subs, NEW sv \in StopVisits
      PROVE  Sure(s, sv) => Sure(s, sv)'
  BY <1>2, <1>7, <1>8 DEF Sure, OnItsWay, bcVars, feedVars
<1>10. ASSUME lastStates' = lastStates,
              \A sv \in StopVisits : departure[sv] = "none" => ~IsDeparted(rqSnapshot'[sv]),
              \A s \in Subs, sv \in StopVisits :
                stopVisits[sv] # NoState /\ HandlerComes(s, sv) =>
                  HandlerComes(s, sv)' \/ Sure(s, sv)'
       PROVE  Departures'
  <2>1. NotYetDeparted'
    BY <1>1, <1>2, <1>10 DEF NotYetDeparted, modelVars, mgrVars, bcVars, feedVars
  <2>2. \A s \in Subs, sv \in StopVisits :
          stopVisits[sv] # NoState /\ Comes(s, sv) => Comes(s, sv)' \/ Sure(s, sv)'
    BY <1>5, <1>10 DEF Comes
  <2>3. DepartureFollowed'
    BY <1>1, <1>2, <1>9, <1>10, <2>2, FollowedStep DEF modelVars
  <2> QED
    BY <1>3, <2>1, <2>3 DEF Departures
<1>11. CASE RequestOptions
  <2>1. /\ lastStates' = lastStates /\ rqSnapshot' = rqSnapshot
        /\ rqPc = "options" /\ rqPc' = "list"
    BY <1>11 DEF RequestOptions
  <2>2. \A s \in Subs, sv \in StopVisits : HandlerComes(s, sv) => HandlerComes(s, sv)'
    BY <1>2, <2>1 DEF HandlerComes
  <2> QED
    BY <1>1, <1>10, <2>1, <2>2 DEF NotYetDeparted
<1>12. CASE RequestList
  <2>1. /\ lastStates' = lastStates /\ rqSnapshot' = stopVisits
        /\ rqPc = "list" /\ rqPc' = "check"
    BY <1>12 DEF RequestList
  <2>2. \A s \in Subs, sv \in StopVisits :
          stopVisits[sv] # NoState /\ HandlerComes(s, sv) => HandlerComes(s, sv)'
    BY <1>2, <2>1 DEF HandlerComes
  <2> QED
    BY <1>1, <1>10, <2>1, <2>2 DEF NotYetDeparted
<1>13. ASSUME NEW v \in StopVisits, RequestCheck(v) PROVE Departures'
  <2>1. /\ lastStates' = lastStates /\ lineRef' = lineRef /\ rqPc = "check"
        /\ \/ /\ lastStates[rqSub][v] # NoState \/ Filtered(rqSub, v)
              /\ rqSnapshot' = [rqSnapshot EXCEPT ![v] = NoState] /\ rqPc' = rqPc
           \/ rqSnapshot' = rqSnapshot /\ rqPc' = "set"
    BY <1>13 DEF RequestCheck, subVars
  <2>2. \A sv \in StopVisits :
          /\ rqSnapshot'[sv] = NoState \/ rqSnapshot'[sv] = rqSnapshot[sv]
          /\ sv # v => rqSnapshot'[sv] = rqSnapshot[sv]
    BY <2>1 DEF TypeOK
  <2>3. ASSUME NEW s \in Subs, NEW sv \in StopVisits, HandlerComes(s, sv)
        PROVE  HandlerComes(s, sv)' \/ Sure(s, sv)'
    <3>1. CASE rqSnapshot'[sv] = rqSnapshot[sv]
      BY <1>2, <2>1, <2>3, <3>1 DEF HandlerComes
    <3>2. CASE sv = v /\ Filtered(rqSub, v)
      BY <2>1, <2>3, <3>2 DEF HandlerComes, Sure, Excused, Filtered
    <3> QED
      BY <2>1, <2>2, <2>3, <3>1, <3>2 DEF HandlerComes
  <2>4. \A sv \in StopVisits : departure[sv] = "none" => ~IsDeparted(rqSnapshot'[sv])
    BY <1>1, <1>4, <2>2 DEF NotYetDeparted
  <2> QED
    BY <1>10, <2>1, <2>3, <2>4
<1>14. CASE RequestSet
  <2>1. /\ rqSnapshot' = rqSnapshot /\ rqSv' = rqSv /\ rqPc = "set" /\ rqPc' = "add"
        /\ lastStates' = [lastStates EXCEPT ![rqSub][rqSv] = rqSnapshot[rqSv]]
    BY <1>14 DEF RequestSet
  <2>2. ASSUME NEW s \in Subs, NEW sv \in StopVisits
        PROVE  \/ lastStates'[s][sv] = lastStates[s][sv]
               \/ /\ s = rqSub /\ sv = rqSv
                  /\ lastStates'[s][sv] = rqSnapshot[sv]
    BY <2>1 DEF TypeOK
  <2>3. NotYetDeparted'
    BY <1>1, <1>2, <2>1, <2>2 DEF NotYetDeparted, modelVars, mgrVars, bcVars, feedVars
  <2>4. ASSUME NEW s \in Subs, NEW sv \in StopVisits, s = rqSub, sv = rqSv
        PROVE  Sure(s, sv)'
    BY <1>2, <2>1, <2>4 DEF Sure, OnItsWay, Queued
  <2>5. ASSUME NEW s \in Subs, NEW sv \in StopVisits,
               lastStates'[s][sv] = lastStates[s][sv], HandlerComes(s, sv)
        PROVE  HandlerComes(s, sv)'
    BY <1>2, <2>1, <2>5 DEF HandlerComes
  <2>6. ASSUME NEW s \in Subs, NEW sv \in StopVisits
        PROVE  /\ IsDeparted(lastStates'[s][sv]) =>
                    IsDeparted(lastStates[s][sv]) \/ Sure(s, sv)'
               /\ Comes(s, sv) => Comes(s, sv)' \/ Sure(s, sv)'
    <3>1. CASE lastStates'[s][sv] = lastStates[s][sv]
      BY <1>5, <2>5, <3>1 DEF Comes
    <3>2. CASE s = rqSub /\ sv = rqSv
      BY <2>4, <3>2
    <3> QED
      BY <2>2, <3>1, <3>2
  <2>7. DepartureFollowed'
    BY <1>1, <1>2, <1>9, <2>6, FollowedStep DEF modelVars
  <2> QED
    BY <1>3, <2>3, <2>7 DEF Departures
<1>15. CASE RequestAdd
  <2>1. /\ lastStates' = lastStates /\ rqPc = "add" /\ rqPc' = "check"
        /\ rqSnapshot' = [rqSnapshot EXCEPT ![rqSv] = NoState]
    BY <1>15 DEF RequestAdd
  <2>2. \A sv \in StopVisits :
          IF sv = rqSv THEN rqSnapshot'[sv] = NoState ELSE rqSnapshot'[sv] = rqSnapshot[sv]
    BY <2>1 DEF TypeOK
  <2>3. \A sv \in StopVisits : departure[sv] = "none" => ~IsDeparted(rqSnapshot'[sv])
    BY <1>1, <1>4, <2>2 DEF NotYetDeparted
  <2>4. ASSUME NEW s \in Subs, NEW sv \in StopVisits, HandlerComes(s, sv)
        PROVE  HandlerComes(s, sv)' \/ Sure(s, sv)'
    <3>1. CASE sv = rqSv
      BY <1>8, <2>1, <2>4, <3>1 DEF HandlerComes, Sure, OnItsWay, Queued
    <3>2. CASE sv # rqSv
      BY <1>2, <2>1, <2>2, <2>4, <3>2 DEF HandlerComes
    <3> QED
      BY <3>1, <3>2
  <2> QED
    BY <1>10, <2>1, <2>3, <2>4
<1>16. CASE RequestDone
  <2>1. /\ lastStates' = lastStates /\ rqSnapshot' = rqSnapshot
        /\ rqPc = "check" /\ rqSnapshot = Nothing
    BY <1>16 DEF RequestDone
  <2>2. \A s \in Subs, sv \in StopVisits : ~HandlerComes(s, sv)
    BY <2>1 DEF HandlerComes, Nothing
  <2> QED
    BY <1>1, <1>10, <2>1, <2>2 DEF NotYetDeparted
<1> QED
  BY <1>11, <1>12, <1>13, <1>14, <1>15, <1>16 DEF Handler

\* No step loses a departure.
LEMMA NextDepartures ==
  ASSUME TypeOK, BroadcasterEmpty, Departures, [Next]_vars PROVE Departures'
<1>1. CASE Environment
  <2>1. ASSUME NEW sv \in StopVisits, NEW time \in Times, NEW status \in Statuses,
               SaveStopVisit(sv, time, status)
        PROVE  Departures'
    BY <2>1, ModelDepartures
  <2>2. ASSUME NEW sv \in StopVisits, DeleteStopVisit(sv) PROVE Departures'
    BY <2>2, ModelDepartures
  <2>3. ASSUME NEW s \in Subs, NEW line \in LineFilters, RequestResource(s, line)
        PROVE  Departures'
    BY <2>3, RequestDepartures
  <2>4. ASSUME NEW s \in Subs, Cancel(s) \/ Expire(s) \/ GuardianRead(s) \/ GuardianDelete(s)
        PROVE  Departures'
    BY <2>4, EndDepartures
  <2> QED
    BY <1>1, <2>1, <2>2, <2>3, <2>4 DEF Environment
<1>2. CASE Manager
  BY <1>2, ManagerDepartures
<1>3. CASE Broadcaster
  BY <1>3, BroadcasterDepartures
<1>4. CASE Handler
  BY <1>4, HandlerDepartures
<1>5. CASE UNCHANGED vars
  <2>1. NotYetDeparted' = NotYetDeparted /\ NotTakenBack' = NotTakenBack
    BY <1>5 DEF NotYetDeparted, NotTakenBack, vars, modelVars, mgrVars, bcVars, rqVars,
                feedVars
  <2>2. \A s \in Subs, sv \in StopVisits :
          Sure(s, sv)' = Sure(s, sv) /\ Comes(s, sv)' = Comes(s, sv)
    BY <1>5 DEF Sure, Excused, Missed, Filtered, OnItsWay, Queued, Comes, EventComes,
                ManagerComes, HandlerComes, vars, modelVars, subVars, mgrVars, bcVars,
                rqVars, feedVars
  <2>3. DepartureFollowed' = DepartureFollowed
    BY <1>5, <2>2 DEF DepartureFollowed, vars, modelVars
  <2> QED
    BY <2>1, <2>3 DEF Departures
<1> QED
  BY <1>1, <1>2, <1>3, <1>4, <1>5 DEF Next

\* When everything has settled, what excuses an untold departure and what will
\* still tell it are gone: it has been told.
LEMMA SettledIsTold ==
  ASSUME TypeOK, BroadcasterEmpty, Departures PROVE DepartureNeverLost
<1> SUFFICES ASSUME NEW s \in Subs, NEW sv \in StopVisits, Settled(s, sv),
                    departure[sv] = "announced"
             PROVE  IsDeparted(known[s][sv])
  BY DEF DepartureNeverLost, IsDeparted
<1>1. Sure(s, sv) \/ Comes(s, sv)
  BY DEF Departures, DepartureFollowed, Settled
<1>2. ~Excused(s, sv)
  BY DEF Settled, Excused, Missed
<1>3. ~EventComes(sv) /\ ~ManagerComes(s, sv) /\ ~HandlerComes(s, sv)
  BY DEF Settled, EventComes, ManagerComes, HandlerComes
<1>4. ASSUME OnItsWay(s, sv) PROVE IsDeparted(known[s][sv])
  BY <1>4 DEF OnItsWay, Settled, InBatch, IsDeparted
<1> QED
  BY <1>1, <1>2, <1>3, <1>4 DEF Sure, Comes

\* The departure of a stop visit is never lost: when it is departed for good and
\* nothing is left to do about it, the subscriber was told (checkEvent, the
\* broadcaster loop and the subscription request handler, in any order).
THEOREM NoDepartureLost == Spec => []DepartureNeverLost
<1>1. Init => Departures
  BY InitDepartures
<1>2. TypeOK /\ BroadcasterEmpty /\ Departures /\ [Next]_vars => Departures'
  BY NextDepartures
<1>3. TypeOK /\ BroadcasterEmpty /\ Departures => DepartureNeverLost
  BY SettledIsTold
<1>4. Spec => []TypeOK
  BY TypeCorrect
<1>5. Spec => []BroadcasterEmpty
  <2>1. Accounted => BroadcasterEmpty
    BY DEF Accounted
  <2> QED
    BY <2>1, AccountedAlways, PTL
<1> QED
  BY <1>1, <1>2, <1>3, <1>4, <1>5, PTL DEF Spec

-----------------------------------------------------------------------------
(* The broadcast path implements the feed.                                 *)

\* The model holds the last state it had; a delivery holds one that it had, no
\* older than the one its subscription was told.
FeedInv ==
  \A sv \in StopVisits :
    /\ stopVisits[sv] # NoState => stopVisits[sv].ver = version[sv]
    /\ \A s \in Subs : VersionOf(known[s][sv]) <= version[sv]
    /\ bcDelivery[sv] # NoState =>
         VersionOf(known[bcSub][sv]) <= bcDelivery[sv].ver /\ bcDelivery[sv].ver <= version[sv]

\* A version is a number.
LEMMA VersionType ==
  /\ VersionOf(NoState) = 0
  /\ \A v \in StopVisitOrNone : v # NoState => VersionOf(v) = v.ver /\ v.ver \in 1..MaxVersion
  /\ \A v \in StopVisitOrNone : VersionOf(v) \in Nat
<1>1. \A v \in StopVisit : v.ver \in 1..MaxVersion
  BY DEF StopVisit
<1>2. \A v \in StopVisitOrNone : v # NoState => v \in StopVisit
  BY DEF StopVisitOrNone
<1>3. VersionOf(NoState) = 0
  BY DEF VersionOf
<1>4. \A v \in StopVisitOrNone : v # NoState => VersionOf(v) = v.ver
  BY DEF VersionOf
<1>5. \A v \in StopVisitOrNone : VersionOf(v) \in Nat
  BY <1>1, <1>2, <1>3, <1>4, BoundsAssumption
<1> QED
  BY <1>1, <1>2, <1>3, <1>4, <1>5

\* A notification tells what was in the delivery, or nothing.
LEMMA SendTells ==
  ASSUME TypeOK, NEW ok \in BOOLEAN, BroadcasterSend(ok)
  PROVE  /\ UNCHANGED <<version, stopVisits, bcSub>> /\ bcDelivery' = Nothing
         /\ \A s \in Subs, sv \in StopVisits :
              \/ known'[s][sv] = known[s][sv]
              \/ s = bcSub /\ bcDelivery[sv] # NoState /\ known'[s][sv] = bcDelivery[sv]
<1>1. UNCHANGED <<version, stopVisits, bcSub>> /\ bcDelivery' = Nothing
  BY DEF BroadcasterSend, modelVars
<1>2. CASE ok
  <2>1. known' = [known EXCEPT ![bcSub] = [sv \in StopVisits |->
                   IF sv \in Delivered THEN bcDelivery[sv] ELSE known[bcSub][sv]]]
    BY <1>2 DEF BroadcasterSend
  <2>2. known \in [Subs -> [StopVisits -> StopVisitOrNone]] /\ bcSub \in Subs
    BY DEF TypeOK
  <2> QED
    BY <1>1, <2>1, <2>2 DEF Delivered
<1>3. CASE ~ok
  BY <1>1, <1>3 DEF BroadcasterSend
<1> QED
  BY <1>2, <1>3

\* Each step keeps it: the broadcaster reads the model after what was told.
LEMMA FeedInductive ==
  ASSUME TypeOK, BroadcasterEmpty, FeedInv, [Next]_vars
  PROVE  FeedInv'
<1>1. /\ version \in [StopVisits -> Nat]
      /\ \A sv \in StopVisits : /\ stopVisits[sv] \in StopVisitOrNone
                                /\ bcDelivery[sv] \in StopVisitOrNone
      /\ \A s \in Subs, sv \in StopVisits : known[s][sv] \in StopVisitOrNone
      /\ bcSub \in Subs
  BY BoundsAssumption DEF TypeOK
<1>2. VersionOf(NoState) = 0
  BY VersionType
<1>3. ASSUME NEW sv \in StopVisits, NEW time, NEW status, SaveStopVisit(sv, time, status)
      PROVE  FeedInv'
  <2>1. /\ version' = [version EXCEPT ![sv] = @ + 1]
        /\ stopVisits' = [stopVisits EXCEPT ![sv] =
             [ver |-> version[sv] + 1, time |-> time, status |-> status]]
        /\ UNCHANGED <<known, bcSub, bcDelivery>>
    BY <1>3 DEF SaveStopVisit, bcVars, feedVars
  <2> SUFFICES ASSUME NEW v \in StopVisits
               PROVE  /\ stopVisits'[v] # NoState => stopVisits'[v].ver = version'[v]
                      /\ \A s \in Subs : VersionOf(known[s][v]) <= version'[v]
                      /\ bcDelivery[v] # NoState => bcDelivery[v].ver <= version'[v]
    BY <2>1 DEF FeedInv
  <2>2. version[v] \in Nat /\ \A s \in Subs : VersionOf(known[s][v]) \in Nat
    BY <1>1, VersionType
  <2>3. bcDelivery[v] # NoState => bcDelivery[v].ver \in Nat
    BY <1>1, VersionType, BoundsAssumption
  <2>4. version'[v] = IF v = sv THEN version[v] + 1 ELSE version[v]
    BY <1>1, <2>1
  <2>5. stopVisits'[v] # NoState => stopVisits'[v].ver = version'[v]
    <3>1. CASE v = sv
      BY <2>1, <2>4, <3>1 DEF TypeOK
    <3>2. CASE v # sv
      BY <2>1, <2>4, <3>2 DEF TypeOK, FeedInv
    <3> QED
      BY <3>1, <3>2
  <2>6. \A s \in Subs : VersionOf(known[s][v]) <= version[v]
    BY DEF FeedInv
  <2>7. bcDelivery[v] # NoState => bcDelivery[v].ver <= version[v]
    BY DEF FeedInv
  <2> QED
    BY <2>2, <2>3, <2>4, <2>5, <2>6, <2>7
<1>4. ASSUME NEW sv \in StopVisits, DeleteStopVisit(sv) PROVE FeedInv'
  <2>1. /\ UNCHANGED <<version, known, bcSub, bcDelivery>>
        /\ stopVisits' = [stopVisits EXCEPT ![sv] = NoState]
    BY <1>4 DEF DeleteStopVisit, bcVars, feedVars
  <2>2. \A v \in StopVisits : stopVisits'[v] = NoState \/ stopVisits'[v] = stopVisits[v]
    BY <2>1 DEF TypeOK
  <2> QED
    BY <2>1, <2>2 DEF FeedInv
<1>5. ASSUME NEW s \in Subs, NEW line, RequestResource(s, line) PROVE FeedInv'
  <2>1. /\ UNCHANGED <<version, stopVisits, bcSub, bcDelivery>>
        /\ known' = [known EXCEPT ![s] = Nothing]
    BY <1>5 DEF RequestResource, modelVars, bcVars
  <2>2. \A r \in Subs, v \in StopVisits :
          known'[r][v] = known[r][v] \/ known'[r][v] = NoState
    BY <2>1 DEF TypeOK, Nothing
  <2>3. \A v \in StopVisits : /\ 0 <= version[v]
                              /\ bcDelivery[v] # NoState => 0 <= bcDelivery[v].ver
    BY <1>1, VersionType, BoundsAssumption
  <2> QED
    BY <1>1, <1>2, <2>1, <2>2, <2>3 DEF FeedInv
<1>6. ASSUME UNCHANGED <<version, stopVisits, known, bcSub, bcDelivery>> PROVE FeedInv'
  BY <1>6 DEF FeedInv
<1>7. ASSUME NEW s \in Subs, BroadcasterVisit(s) PROVE FeedInv'
  <2>1. UNCHANGED <<version, stopVisits, known, bcDelivery>> /\ bcDelivery = Nothing
    BY <1>7 DEF BroadcasterVisit, BroadcasterEmpty, modelVars, feedVars
  <2> QED
    BY <2>1 DEF FeedInv, Nothing
<1>8. ASSUME NEW sv \in StopVisits, BroadcasterRead(sv) PROVE FeedInv'
  <2>1. /\ UNCHANGED <<version, stopVisits, known, bcSub>> /\ stopVisits[sv] # NoState
        /\ bcDelivery' = [bcDelivery EXCEPT ![sv] = stopVisits[sv]]
    BY <1>8 DEF BroadcasterRead, Find, modelVars, feedVars
  <2>2. \A v \in StopVisits : \/ bcDelivery'[v] = bcDelivery[v]
                              \/ bcDelivery'[v] = stopVisits[v] /\ stopVisits[v] # NoState
    BY <2>1 DEF TypeOK
  <2> QED
    BY <1>1, <2>1, <2>2 DEF FeedInv
<1>9. ASSUME NEW ok \in BOOLEAN, BroadcasterSend(ok) PROVE FeedInv'
  <2>1. UNCHANGED <<version, stopVisits, bcSub>> /\ bcDelivery' = Nothing
    BY <1>9, SendTells
  <2>2. \A s \in Subs, v \in StopVisits :
          \/ known'[s][v] = known[s][v]
          \/ s = bcSub /\ bcDelivery[v] # NoState /\ known'[s][v] = bcDelivery[v]
    BY <1>9, SendTells
  <2>3. \A v \in StopVisits : bcDelivery[v] # NoState => VersionOf(bcDelivery[v]) = bcDelivery[v].ver
    BY <1>1, VersionType
  <2> QED
    BY <2>1, <2>2, <2>3 DEF FeedInv, Nothing
<1>10. CASE Environment
  <2>1. ASSUME NEW s \in Subs, Cancel(s) \/ Expire(s) \/ GuardianRead(s) \/ GuardianDelete(s)
        PROVE  FeedInv'
    BY <1>6, <2>1 DEF Cancel, Expire, GuardianRead, GuardianDelete, modelVars, bcVars, feedVars
  <2> QED
    BY <1>3, <1>4, <1>5, <1>10, <2>1 DEF Environment
<1>11. CASE Manager
  BY <1>6, <1>11 DEF Manager, ManagerReceive, ManagerFind, ManagerList, ManagerCheck,
                     ManagerAdd, modelVars, bcVars, feedVars
<1>12. CASE Broadcaster
  <2>1. CASE BroadcasterTick \/ BroadcasterDone \/ BroadcasterUpdate
    BY <1>6, <2>1 DEF BroadcasterTick, BroadcasterDone, BroadcasterUpdate, modelVars, feedVars
  <2>2. ASSUME NEW sv \in StopVisits, BroadcasterSkip(sv) PROVE FeedInv'
    BY <1>6, <2>2 DEF BroadcasterSkip, modelVars
  <2> QED
    BY <1>7, <1>8, <1>9, <1>12, <2>1, <2>2 DEF Broadcaster
<1>13. CASE Handler
  BY <1>6, <1>13 DEF Handler, RequestOptions, RequestList, RequestCheck, RequestSet,
                     RequestAdd, RequestDone, modelVars, bcVars, feedVars
<1>14. CASE UNCHANGED vars
  BY <1>6, <1>14 DEF vars, modelVars, bcVars, feedVars
<1> QED
  BY <1>10, <1>11, <1>12, <1>13, <1>14 DEF Next

\* What the feed calls told.
ToldVersions == [s \in Subs |-> [sv \in StopVisits |-> VersionOf(known[s][sv])]]

\* Each step of the broadcast path is one of the feed: a save, a subscription, a
\* notification of states no older than those told and no newer than the model,
\* or nothing.
LEMMA FeedStep ==
  ASSUME TypeOK, BroadcasterEmpty, FeedInv, TypeOK', FeedInv', [Next]_vars
  PROVE  [Feed!Next]_(Feed!feed)
<1>1. ASSUME UNCHANGED <<version, known>> PROVE UNCHANGED Feed!feed
  BY <1>1 DEF Feed!feed
<1>2. ASSUME NEW sv \in StopVisits, NEW time, NEW status, SaveStopVisit(sv, time, status)
      PROVE  Feed!Next
  <2>1. version' = [version EXCEPT ![sv] = @ + 1] /\ known' = known
    BY <1>2 DEF SaveStopVisit, feedVars
  <2>2. Feed!Save(sv)
    BY <2>1 DEF Feed!Save
  <2> QED
    BY <2>2 DEF Feed!Next
<1>3. ASSUME NEW s \in Subs, NEW line, RequestResource(s, line) PROVE Feed!Next
  <2>1. version' = version /\ known' = [known EXCEPT ![s] = Nothing]
    BY <1>3 DEF RequestResource, modelVars
  <2>2. \A r \in Subs, sv \in StopVisits :
          VersionOf(known'[r][sv]) = IF r = s THEN 0 ELSE VersionOf(known[r][sv])
    BY <2>1, VersionType DEF TypeOK, Nothing
  <2>3. ToldVersions' = [ToldVersions EXCEPT ![s] = [sv \in StopVisits |-> 0]]
    BY <2>2 DEF ToldVersions
  <2>4. Feed!Subscribe(s)
    BY <2>1, <2>3 DEF Feed!Subscribe, ToldVersions
  <2> QED
    BY <2>4 DEF Feed!Next
<1>4. ASSUME NEW ok \in BOOLEAN, BroadcasterSend(ok) PROVE Feed!Next
  <2>1. version' = version /\ bcSub \in Subs
    BY <1>4, SendTells DEF TypeOK
  <2>2. \A s \in Subs, sv \in StopVisits :
          \/ known'[s][sv] = known[s][sv]
          \/ s = bcSub /\ bcDelivery[sv] # NoState /\ known'[s][sv] = bcDelivery[sv]
    BY <1>4, SendTells
  <2>3. /\ version \in [StopVisits -> Nat]
        /\ \A s \in Subs, sv \in StopVisits : /\ VersionOf(known[s][sv]) \in Nat
                                              /\ VersionOf(known'[s][sv]) \in Nat
    <3>1. \A s \in Subs, sv \in StopVisits : /\ known[s][sv] \in StopVisitOrNone
                                             /\ known'[s][sv] \in StopVisitOrNone
      BY DEF TypeOK
    <3>2. version \in [StopVisits -> Nat]
      BY BoundsAssumption DEF TypeOK
    <3> QED
      BY <3>1, <3>2, VersionType
  <2>4. \A sv \in StopVisits : bcDelivery[sv] # NoState =>
          VersionOf(bcDelivery[sv]) = bcDelivery[sv].ver
    BY VersionType DEF TypeOK
  <2>5. ASSUME NEW sv \in StopVisits
        PROVE  /\ VersionOf(known[bcSub][sv]) <= VersionOf(known'[bcSub][sv])
               /\ VersionOf(known'[bcSub][sv]) <= version[sv]
    BY <2>1, <2>2, <2>3, <2>4 DEF FeedInv
  <2>6. /\ \A s \in Subs, sv \in StopVisits : ToldVersions[s][sv] = VersionOf(known[s][sv])
        /\ \A s \in Subs, sv \in StopVisits : ToldVersions'[s][sv] = VersionOf(known'[s][sv])
    BY DEF ToldVersions
  <2>7. ToldVersions' \in [Subs -> [StopVisits -> Nat]]
    BY <2>3 DEF ToldVersions
  <2>8. \A sv \in StopVisits : ToldVersions'[bcSub][sv] \in ToldVersions[bcSub][sv]..version[sv]
    BY <2>1, <2>3, <2>5, <2>6
  <2>9. \A r \in Subs \ {bcSub} : ToldVersions'[r] = ToldVersions[r]
    BY <2>2 DEF ToldVersions
  <2>10. Feed!Notify(bcSub)
    BY <2>1, <2>7, <2>8, <2>9 DEF Feed!Notify, ToldVersions
  <2> QED
    BY <2>1, <2>10 DEF Feed!Next
<1>5. CASE Environment
  <2>1. ASSUME NEW s \in Subs, Cancel(s) \/ Expire(s) \/ GuardianRead(s) \/ GuardianDelete(s)
        PROVE  UNCHANGED <<version, known>>
    BY <2>1 DEF Cancel, Expire, GuardianRead, GuardianDelete, modelVars, feedVars
  <2>2. ASSUME NEW sv \in StopVisits, DeleteStopVisit(sv) PROVE UNCHANGED <<version, known>>
    BY <2>2 DEF DeleteStopVisit, feedVars
  <2> QED
    BY <1>1, <1>2, <1>3, <1>5, <2>1, <2>2 DEF Environment
<1>6. CASE Manager
  BY <1>1, <1>6 DEF Manager, ManagerReceive, ManagerFind, ManagerList, ManagerCheck,
                    ManagerAdd, modelVars, feedVars
<1>7. CASE Broadcaster
  <2>1. CASE \/ BroadcasterTick \/ BroadcasterDone \/ BroadcasterUpdate
             \/ \E s \in Subs : BroadcasterVisit(s)
             \/ \E sv \in StopVisits : BroadcasterRead(sv) \/ BroadcasterSkip(sv)
    BY <1>1, <2>1 DEF BroadcasterTick, BroadcasterDone, BroadcasterUpdate, BroadcasterVisit,
                      BroadcasterRead, BroadcasterSkip, modelVars, feedVars
  <2> QED
    BY <1>4, <1>7, <2>1 DEF Broadcaster
<1>8. CASE Handler
  BY <1>1, <1>8 DEF Handler, RequestOptions, RequestList, RequestCheck, RequestSet,
                    RequestAdd, RequestDone, modelVars, feedVars
<1>9. CASE UNCHANGED vars
  BY <1>1, <1>9 DEF vars, modelVars, feedVars
<1> QED
  BY <1>5, <1>6, <1>7, <1>8, <1>9 DEF Next

\* Every behaviour of the broadcast path is one of the feed: a subscriber is told
\* of states the model had, in the order it had them (the state read, recorded
\* and sent by the broadcaster loop while savers and handlers run).
THEOREM ImplementsFeed == Spec => FeedSpec
<1>1. Init => Feed!Init /\ FeedInv
  <2> SUFFICES ASSUME Init PROVE Feed!Init /\ FeedInv
    OBVIOUS
  <2>1. \A s \in Subs, sv \in StopVisits : known[s][sv] = NoState
    BY DEF Init, Nothing
  <2>2. \A s \in Subs, sv \in StopVisits : VersionOf(known[s][sv]) = 0
    BY <2>1, VersionType
  <2>3. Feed!Init
    BY <2>2 DEF Init, Feed!Init
  <2>4. FeedInv
    BY <2>2 DEF Init, FeedInv, Nothing
  <2> QED
    BY <2>3, <2>4
<1>2. TypeOK /\ BroadcasterEmpty /\ FeedInv /\ [Next]_vars => FeedInv'
  BY FeedInductive
<1>3. TypeOK /\ BroadcasterEmpty /\ FeedInv /\ TypeOK' /\ FeedInv' /\ [Next]_vars
      => [Feed!Next]_(Feed!feed)
  BY FeedStep
<1>4. Accounted => BroadcasterEmpty
  BY DEF Accounted
<1> QED
  BY <1>1, <1>2, <1>3, <1>4, TypeCorrect, AccountedAlways, PTL DEF Spec, FeedSpec, Feed!Spec
=============================================================================
