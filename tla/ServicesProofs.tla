--------------------------- MODULE ServicesProofs ---------------------------
(***************************************************************************)
(* BroadcastRegistry for any number of handlers, identifiers, requests and *)
(* visits of the guardian; Situations for any number of goroutines, object  *)
(* ids, times, notifications and answers.                                  *)
(***************************************************************************)
EXTENDS BroadcastRegistry, Situations, WellFoundedInduction, TLAPS

-----------------------------------------------------------------------------
(* The inductive invariant.                                                *)

\* What a handler of a request holds.
RgHeld == {"externalId", "fill", "answer"}

RgHandlerOK(t) ==
  /\ rgPc[t] \in {"idle", "find", "new"} \cup RgHeld
  /\ IF rgPc[t] = "idle" THEN rgExt[t] = RgNone
     ELSE rgExt[t] \in RgExts /\ rgKind[t] \in RgKinds
  /\ IF rgPc[t] \in RgHeld THEN rgSub[t] \in RgIds /\ rgSubs[rgSub[t]] # RgNone
     ELSE rgSub[t] = RgNone
  /\ rgPc[t] \in {"fill", "answer"} => rgSubs[rgSub[t]].ext = rgExt[t]
  /\ rgPc[t] = "externalId" =>
       /\ rgSubs[rgSub[t]].ext = RgNone
       /\ \A u \in RgThreads : rgSub[u] = rgSub[t] => u = t

\* Subscriptions that are registered, or known to the guardian, exist.
RgCreated == {s \in RgIds : rgSubs[s] # RgNone}

RgTypes ==
  /\ rgSubs \in [RgIds -> RgSubscription \cup {RgNone}]
  /\ rgPc \in [RgThreads -> {"idle", "find", "new"} \cup RgHeld]
  /\ rgKind \in [RgThreads -> RgKinds \cup {RgNone}]
  /\ rgExt \in [RgThreads -> RgExts \cup {RgNone}]
  /\ rgSub \in [RgThreads -> RgIds \cup {RgNone}]
  /\ rgEnded \in [RgThreads -> BOOLEAN]
  /\ rgRegistered \cup rgSwept \cup rgGdTodo \subseteq RgCreated
  /\ rgAnswered \subseteq RgExts \X RgKinds
  /\ rgGdPc = "delete" => rgGdSub \in RgCreated

\* Requests for an ExternalId that is not in rgOverlapped have one handler.
RgAlone ==
  \A t, u \in RgThreads :
    rgExt[t] = rgExt[u] /\ rgExt[t] \notin rgOverlapped \cup {RgNone} => t = u

\* The subscriptions that have the ExternalId a handler handles.
RgOwn(t) ==
  rgExt[t] \notin rgOverlapped \cup {RgNone} =>
    \A s \in rgRegistered : rgSubs[s].ext = rgExt[t] =>
      rgPc[t] = "find" \/ (rgPc[t] \in {"fill", "answer"} /\ s = rgSub[t])

\* A handler answers that there is a resource, unless it was ended meanwhile.
RgFilled(t) == rgPc[t] = "answer" /\ ~rgEnded[t] => rgSubs[rgSub[t]].resources

\* What was answered is registered, with a resource, or was swept with one.
RgServedBy(a) ==
  a[2] # "StopMonitoringBroadcast" =>
    \E s \in rgRegistered \cup rgSwept :
      rgSubs[s].ext = a[1] /\ rgSubs[s].resources

RgInv ==
  /\ RgTypes /\ RgAlone /\ RgUnique
  /\ \A t \in RgThreads : RgHandlerOK(t) /\ RgOwn(t) /\ RgFilled(t)
  /\ \A a \in rgAnswered : RgServedBy(a)

-----------------------------------------------------------------------------
(* Steps that only take subscriptions away.                                *)

\* Subscriptions leave the registry, and the rest stays as it is.
LEMMA RgShrink ==
  ASSUME RgInv,
         UNCHANGED <<rgSubs, rgPc, rgKind, rgExt, rgSub, rgOverlapped>>,
         rgRegistered' \subseteq rgRegistered,
         rgEnded' \in [RgThreads -> BOOLEAN],
         \A t \in RgThreads : rgEnded[t] => rgEnded'[t],
         rgSwept' \cup rgGdTodo' \subseteq RgCreated,
         rgGdPc' = "delete" => rgGdSub' \in RgCreated,
         rgAnswered' \subseteq rgAnswered,
         \A a \in rgAnswered' : RgServedBy(a)'
  PROVE  RgInv'
<1>1. RgTypes'
  BY DEF RgInv, RgTypes, RgCreated
<1>2. RgAlone' /\ RgUnique'
  BY DEF RgInv, RgAlone, RgUnique
<1>3. ASSUME NEW t \in RgThreads
      PROVE  RgHandlerOK(t)' /\ RgOwn(t)' /\ RgFilled(t)'
  <2>1. RgHandlerOK(t) /\ RgOwn(t) /\ RgFilled(t)
    BY DEF RgInv
  <2>2. RgHandlerOK(t)'
    BY <2>1 DEF RgHandlerOK
  <2>3. RgOwn(t)'
    BY <2>1 DEF RgOwn
  <2>4. RgFilled(t)'
    BY <2>1 DEF RgFilled
  <2> QED
    BY <2>2, <2>3, <2>4
<1> QED
  BY <1>1, <1>2, <1>3 DEF RgInv

\* What is left of the answers after Ends(S) has its subscriptions left.
LEMMA RgEndsServes ==
  ASSUME RgInv, NEW S, Ends(S), UNCHANGED <<rgSubs, rgSwept>>,
         NEW a \in rgAnswered'
  PROVE  RgServedBy(a)'
<1>1. a \in rgAnswered /\ \A s \in S : rgSubs[s].ext # a[1]
  BY DEF Ends
<1>2. RgServedBy(a)
  BY <1>1 DEF RgInv
<1> QED
  BY <1>1, <1>2 DEF RgServedBy, Ends

\* Ends(S), whatever the guardian does besides.
LEMMA RgEnds ==
  ASSUME RgInv, NEW S, Ends(S),
         UNCHANGED <<rgSubs, rgPc, rgKind, rgExt, rgSub, rgOverlapped, rgSwept,
                     rgGdTodo, rgGdSub>>,
         rgGdPc' = rgGdPc \/ rgGdPc' # "delete"
  PROVE  RgInv'
<1>1. /\ rgRegistered' \subseteq rgRegistered /\ rgAnswered' \subseteq rgAnswered
      /\ rgEnded' = [t \in RgThreads |-> rgEnded[t] \/ rgSub[t] \in S]
  BY DEF Ends
<1>2. /\ rgEnded' \in [RgThreads -> BOOLEAN]
      /\ \A t \in RgThreads : rgEnded[t] => rgEnded'[t]
  <2>1. rgEnded \in [RgThreads -> BOOLEAN]
    BY DEF RgInv, RgTypes
  <2> QED
    BY ONLY <1>1, <2>1
<1>3. /\ rgSwept' \cup rgGdTodo' \subseteq RgCreated
      /\ rgGdPc' = "delete" => rgGdSub' \in RgCreated
  BY DEF RgInv, RgTypes
<1> QED
  BY <1>1, <1>2, <1>3, RgEndsServes, RgShrink

\* Cancellations, deletions, and the restart or the end of a partner.
LEMMA RgEndStep ==
  ASSUME RgInv,
         \/ \E e \in RgExts : CancelSubscription(e)
         \/ CancelAll \/ VisitRestarted \/ VisitDownBroadcast
         \/ VisitDownCollectPersistent \/ \E s \in RgIds : DeleteById(s)
  PROVE  RgInv'
<1> USE DEF RgCall, RgVisit, RgGuardian, rgGdVars
<1>1. ASSUME NEW e \in RgExts, CancelSubscription(e) PROVE RgInv'
  <2>1. PICK s : Ends({s})
    BY <1>1 DEF CancelSubscription
  <2> QED
    BY <1>1, <2>1, RgEnds DEF CancelSubscription
<1>2. CASE CancelAll
  BY <1>2, RgEnds DEF CancelAll
<1>3. CASE VisitRestarted
  BY <1>3, RgEnds DEF VisitRestarted
<1>4. CASE VisitDownBroadcast
  BY <1>4, RgEnds DEF VisitDownBroadcast
<1>5. CASE VisitDownCollectPersistent
  BY <1>5, RgEnds DEF VisitDownCollectPersistent
<1>6. ASSUME NEW s \in RgIds, DeleteById(s) PROVE RgInv'
  BY <1>6, RgEnds DEF DeleteById
<1> QED
  BY <1>1, <1>2, <1>3, <1>4, <1>5, <1>6

\* The guardian takes the subscriptions without an ExternalId, lists the
\* registry, deletes one without resources, or is done.
LEMMA RgGuardianStep ==
  ASSUME RgInv,
         \/ VisitDownCollect \/ VisitDownPersistent \/ VisitUp
         \/ VisitDelete \/ VisitDone
  PROVE  RgInv'
<1> USE DEF RgVisit, RgGuardian, RgList, rgSubVars
<1>1. /\ rgEnded \in [RgThreads -> BOOLEAN]
      /\ rgRegistered \cup rgSwept \cup rgGdTodo \subseteq RgCreated
      /\ rgGdPc = "delete" => rgGdSub \in RgCreated
      /\ \A a \in rgAnswered : RgServedBy(a) /\ a[1] \in RgExts
      /\ RgNone \notin RgExts
  BY RgAssumption DEF RgInv, RgTypes, RgAssumption
<1>2. CASE VisitDownCollect
  <2>1. ASSUME NEW a \in rgAnswered' PROVE RgServedBy(a)'
    BY <1>1, <1>2 DEF VisitDownCollect, FindBroadcast, RgServedBy
  <2>2. rgRegistered' \subseteq rgRegistered
    BY <1>2 DEF VisitDownCollect, FindBroadcast
  <2> QED
    BY <1>1, <1>2, <2>1, <2>2, RgShrink DEF VisitDownCollect
<1>3. CASE VisitDownPersistent \/ VisitUp \/ VisitDone
  <2>1. /\ UNCHANGED <<rgSubs, rgPc, rgKind, rgExt, rgSub, rgOverlapped,
                       rgRegistered, rgEnded, rgSwept, rgAnswered>>
        /\ rgGdTodo' \in {rgGdTodo, rgRegistered} /\ rgGdPc' # "delete"
    BY <1>3 DEF VisitDownPersistent, VisitUp, VisitDone
  <2>2. ASSUME NEW a \in rgAnswered' PROVE RgServedBy(a)'
    BY <1>1, <2>1, <2>2 DEF RgServedBy
  <2> QED
    BY <1>1, <2>1, <2>2, RgShrink
<1>4. CASE VisitDelete
  <2>1. /\ UNCHANGED <<rgSubs, rgPc, rgKind, rgExt, rgSub, rgOverlapped,
                       rgEnded, rgAnswered, rgGdTodo>>
        /\ rgGdPc' # "delete" /\ rgGdSub \in RgCreated
        /\ rgRegistered' = rgRegistered \ {rgGdSub}
        /\ rgSwept' = rgSwept \cup {s \in {rgGdSub} : rgSubs[s].resources}
    BY <1>1, <1>4 DEF VisitDelete
  <2>2. ASSUME NEW a \in rgAnswered' PROVE RgServedBy(a)'
    BY <1>1, <2>1, <2>2 DEF RgServedBy
  <2> QED
    BY <1>1, <2>1, <2>2, RgShrink
<1> QED
  BY <1>2, <1>3, <1>4

-----------------------------------------------------------------------------
(* Steps that change subscriptions.                                        *)

\* A request comes.
LEMMA RgDispatchStep ==
  ASSUME RgInv, NEW t \in RgThreads, NEW k \in RgKinds, NEW e \in RgExts,
         Dispatch(t, k, e)
  PROVE  RgInv'
<1>1. /\ RgTypes /\ RgAlone /\ RgUnique /\ RgNone \notin RgExts
      /\ \A u \in RgThreads : RgHandlerOK(u) /\ RgOwn(u) /\ RgFilled(u)
      /\ \A a \in rgAnswered : RgServedBy(a)
  BY RgAssumption DEF RgInv, RgAssumption
<1>2. /\ rgPc[t] = "idle"
      /\ rgPc' = [rgPc EXCEPT ![t] = "find"]
      /\ rgKind' = [rgKind EXCEPT ![t] = k] /\ rgExt' = [rgExt EXCEPT ![t] = e]
      /\ rgEnded' = [rgEnded EXCEPT ![t] = FALSE]
      /\ rgOverlapped' = rgOverlapped \cup
           {x \in {e} : \E u \in RgThreads : rgExt[u] = x}
      /\ UNCHANGED <<rgSubs, rgRegistered, rgSub, rgGdPc, rgGdTodo, rgGdSub,
                     rgAnswered, rgSwept>>
  BY DEF Dispatch, rgSubVars, rgGdVars
<1>3. RgTypes'
  BY <1>1, <1>2 DEF RgTypes, RgCreated
<1>4. RgAlone'
  BY <1>1, <1>2 DEF RgAlone, RgTypes
<1>5. RgUnique'
  BY <1>1, <1>2 DEF RgUnique
<1>6. ASSUME NEW u \in RgThreads
      PROVE  RgHandlerOK(u)' /\ RgOwn(u)' /\ RgFilled(u)'
  <2>1. RgHandlerOK(u) /\ RgOwn(u) /\ RgFilled(u) /\ RgHandlerOK(t)
    BY <1>1
  <2>2. RgHandlerOK(u)'
    BY <1>1, <1>2, <2>1 DEF RgHandlerOK, RgTypes, RgHeld
  <2>3. RgOwn(u)'
    BY <1>1, <1>2, <2>1 DEF RgOwn, RgTypes
  <2>4. RgFilled(u)'
    BY <1>1, <1>2, <2>1 DEF RgFilled, RgTypes
  <2> QED
    BY <2>2, <2>3, <2>4
<1>7. ASSUME NEW a \in rgAnswered' PROVE RgServedBy(a)'
  BY <1>1, <1>2, <1>7 DEF RgServedBy
<1> QED
  BY <1>3, <1>4, <1>5, <1>6, <1>7 DEF RgInv

\* FindByExternalId.
LEMMA RgFindStep ==
  ASSUME RgInv, NEW t \in RgThreads, RequestFind(t)
  PROVE  RgInv'
<1>1. /\ RgTypes /\ RgAlone /\ RgUnique /\ RgNone \notin RgExts
      /\ \A u \in RgThreads : RgHandlerOK(u) /\ RgOwn(u) /\ RgFilled(u)
      /\ \A a \in rgAnswered : RgServedBy(a)
  BY RgAssumption DEF RgInv, RgAssumption
<1> DEFINE found == {s \in rgRegistered : rgSubs[s].ext = rgExt[t]}
<1>2. /\ rgPc[t] = "find"
      /\ \/ \E s \in found : /\ rgSub' = [rgSub EXCEPT ![t] = s]
                             /\ rgPc' = [rgPc EXCEPT ![t] = "fill"]
         \/ found = {} /\ rgPc' = [rgPc EXCEPT ![t] = "new"] /\ rgSub' = rgSub
      /\ UNCHANGED <<rgSubs, rgRegistered, rgKind, rgExt, rgGdPc, rgGdTodo,
                     rgGdSub, rgAnswered, rgEnded, rgSwept, rgOverlapped>>
  BY DEF RequestFind, FindByExternalId, rgSubVars, rgGdVars
<1>3. ASSUME NEW a \in rgAnswered' PROVE RgServedBy(a)'
  BY <1>1, <1>2, <1>3 DEF RgServedBy
<1>4. RgAlone' /\ RgUnique'
  BY <1>1, <1>2 DEF RgAlone, RgUnique
<1>5. CASE found = {} /\ rgPc' = [rgPc EXCEPT ![t] = "new"] /\ rgSub' = rgSub
  <2>1. RgTypes'
    BY <1>1, <1>2, <1>5 DEF RgTypes, RgCreated
  <2>2. ASSUME NEW u \in RgThreads
        PROVE  RgHandlerOK(u)' /\ RgOwn(u)' /\ RgFilled(u)'
    <3>1. RgHandlerOK(u) /\ RgOwn(u) /\ RgFilled(u) /\ RgHandlerOK(t)
      BY <1>1
    <3>2. RgHandlerOK(u)'
      BY <1>1, <1>2, <1>5, <3>1 DEF RgHandlerOK, RgTypes, RgHeld
    <3>3. RgOwn(u)'
      BY <1>1, <1>2, <1>5, <3>1 DEF RgOwn, RgTypes
    <3>4. RgFilled(u)'
      BY <1>1, <1>2, <1>5, <3>1 DEF RgFilled, RgTypes
    <3> QED
      BY <3>2, <3>3, <3>4
  <2> QED
    BY <1>3, <1>4, <2>1, <2>2 DEF RgInv
<1>6. ASSUME NEW s \in found, rgSub' = [rgSub EXCEPT ![t] = s],
             rgPc' = [rgPc EXCEPT ![t] = "fill"]
      PROVE  RgInv'
  <2>1. /\ s \in RgIds /\ rgSubs[s] # RgNone /\ rgSubs[s].ext = rgExt[t]
        /\ s \in rgRegistered /\ rgExt[t] \in RgExts
    BY <1>1, <1>2 DEF RgTypes, RgCreated, RgHandlerOK
  <2>2. RgTypes'
    BY <1>1, <1>2, <1>6, <2>1 DEF RgTypes, RgCreated, RgHeld
  <2>3. ASSUME NEW u \in RgThreads
        PROVE  RgHandlerOK(u)' /\ RgOwn(u)' /\ RgFilled(u)'
    <3>1. RgHandlerOK(u) /\ RgOwn(u) /\ RgFilled(u) /\ RgHandlerOK(t)
      BY <1>1
    <3>2. RgHandlerOK(u)'
      BY <1>1, <1>2, <1>6, <2>1, <3>1 DEF RgHandlerOK, RgTypes, RgHeld
    <3>3. RgOwn(u)'
      BY <1>1, <1>2, <1>6, <2>1, <3>1 DEF RgOwn, RgTypes, RgUnique
    <3>4. RgFilled(u)'
      BY <1>1, <1>2, <1>6, <3>1 DEF RgFilled, RgTypes
    <3> QED
      BY <3>2, <3>3, <3>4
  <2> QED
    BY <1>3, <1>4, <2>2, <2>3 DEF RgInv
<1> QED
  BY <1>2, <1>5, <1>6

\* MemorySubscriptions.New.
LEMMA RgNewStep ==
  ASSUME RgInv, NEW s \in RgIds, NEW k \in RgKinds \cup {"StopMonitoringCollect"},
         NEW r \in BOOLEAN, RgNew(s, k, r)
  PROVE  /\ rgSubs' \in [RgIds -> RgSubscription \cup {RgNone}]
         /\ rgSubs'[s].ext = RgNone /\ rgSubs'[s] # RgNone
         /\ \A i \in RgIds : i # s => rgSubs'[i] = rgSubs[i]
         /\ s \notin RgCreated /\ RgCreated' = RgCreated \cup {s}
         /\ rgRegistered' = rgRegistered \cup {s}
<1>1. /\ rgSubs \in [RgIds -> RgSubscription \cup {RgNone}]
      /\ RgNone \notin RgSubscription
  BY RgAssumption DEF RgInv, RgTypes, RgAssumption
<1> DEFINE new == [kind |-> k, ext |-> RgNone, resources |-> r]
<1>2. new \in RgSubscription
  BY DEF RgSubscription
<1>3. /\ rgSubs[s] = RgNone /\ rgSubs' = [rgSubs EXCEPT ![s] = new]
      /\ rgRegistered' = rgRegistered \cup {s}
  BY DEF RgNew
<1> HIDE DEF new
<1>4. /\ rgSubs' \in [RgIds -> RgSubscription \cup {RgNone}]
      /\ rgSubs'[s] = new /\ new # RgNone
      /\ \A i \in RgIds : i # s => rgSubs'[i] = rgSubs[i]
  BY ONLY <1>1, <1>2, <1>3
<1>5. s \notin RgCreated /\ RgCreated' = RgCreated \cup {s}
  BY <1>3, <1>4 DEF RgCreated
<1>6. new.ext = RgNone
  BY DEF new
<1> QED
  BY <1>3, <1>4, <1>5, <1>6

\* What New leaves of the invariant.
LEMMA RgNewKeeps ==
  ASSUME RgInv, NEW s \in RgIds, NEW k \in RgKinds \cup {"StopMonitoringCollect"},
         NEW r \in BOOLEAN, RgNew(s, k, r),
         UNCHANGED <<rgExt, rgOverlapped, rgSwept, rgAnswered>>
  PROVE  RgAlone' /\ RgUnique' /\ (\A a \in rgAnswered' : RgServedBy(a)')
<1>1. /\ RgTypes /\ RgAlone /\ RgUnique
      /\ \A a \in rgAnswered : RgServedBy(a)
  BY DEF RgInv
<1>2. /\ rgSubs'[s].ext = RgNone
      /\ \A i \in RgIds : i # s => rgSubs'[i] = rgSubs[i]
      /\ s \notin RgCreated
      /\ rgRegistered' = rgRegistered \cup {s}
  BY RgNewStep
<1>3. rgRegistered \cup rgSwept \subseteq RgCreated /\ RgCreated \subseteq RgIds
  BY <1>1 DEF RgTypes, RgCreated
<1>4. \A i \in rgRegistered \cup rgSwept : rgSubs'[i] = rgSubs[i]
  BY <1>2, <1>3
<1>5. RgAlone'
  BY <1>1 DEF RgAlone
<1>6. RgUnique'
  BY <1>1, <1>2, <1>4 DEF RgUnique
<1>7. ASSUME NEW a \in rgAnswered' PROVE RgServedBy(a)'
  <2>1. RgServedBy(a)
    BY <1>1, <1>7
  <2> QED
    BY <2>1, <1>2, <1>4 DEF RgServedBy
<1> QED
  BY <1>5, <1>6, <1>7

\* Create: a handler takes a new subscription.
LEMMA RgRequestNewStep ==
  ASSUME RgInv, NEW t \in RgThreads, NEW s \in RgIds, RequestNew(t, s)
  PROVE  RgInv'
<1>1. /\ RgTypes /\ RgAlone /\ RgUnique /\ RgNone \notin RgExts
      /\ RgNone \notin RgIds /\ RgNone \notin RgSubscription
      /\ \A u \in RgThreads : RgHandlerOK(u) /\ RgOwn(u) /\ RgFilled(u)
      /\ \A a \in rgAnswered : RgServedBy(a)
  BY RgAssumption DEF RgInv, RgAssumption
<1>2. /\ rgPc[t] = "new" /\ RgNew(s, rgKind[t], FALSE)
      /\ rgSub' = [rgSub EXCEPT ![t] = s]
      /\ rgPc' = [rgPc EXCEPT ![t] = "externalId"]
      /\ UNCHANGED <<rgKind, rgExt, rgGdPc, rgGdTodo, rgGdSub, rgAnswered,
                     rgEnded, rgSwept, rgOverlapped>>
  BY DEF RequestNew, rgGdVars
<1>3. rgKind[t] \in RgKinds
  BY <1>1, <1>2 DEF RgHandlerOK
<1>4. /\ rgSubs' \in [RgIds -> RgSubscription \cup {RgNone}]
      /\ rgSubs'[s].ext = RgNone /\ rgSubs'[s] # RgNone
      /\ \A i \in RgIds : i # s => rgSubs'[i] = rgSubs[i]
      /\ s \notin RgCreated /\ RgCreated' = RgCreated \cup {s}
      /\ rgRegistered' = rgRegistered \cup {s}
  BY <1>2, <1>3, RgNewStep
<1>5. RgAlone' /\ RgUnique' /\ \A a \in rgAnswered' : RgServedBy(a)'
  BY <1>2, <1>3, RgNewKeeps
<1>6. RgTypes'
  BY <1>1, <1>2, <1>4 DEF RgTypes, RgHeld
<1>7. ASSUME NEW u \in RgThreads
      PROVE  RgHandlerOK(u)' /\ RgOwn(u)' /\ RgFilled(u)'
  <2>1. RgHandlerOK(u) /\ RgOwn(u) /\ RgFilled(u) /\ RgHandlerOK(t)
    BY <1>1
  <2>2. \A v \in RgThreads : rgSub[v] # s
    BY <1>1, <1>4 DEF RgHandlerOK, RgCreated
  <2>3. rgSub \in [RgThreads -> RgIds \cup {RgNone}]
        /\ rgPc \in [RgThreads -> {"idle", "find", "new"} \cup RgHeld]
    BY <1>1 DEF RgTypes
  <2>4. CASE u = t
    <3>1. rgPc'[u] = "externalId" /\ rgSub'[u] = s /\ rgExt'[u] = rgExt[t]
      BY <1>2, <2>3, <2>4
    <3>2. \A v \in RgThreads : rgSub'[v] = rgSub'[u] => v = u
      BY <1>2, <2>2, <2>3, <2>4
    <3>3. RgHandlerOK(u)'
      BY <1>2, <1>3, <1>4, <2>1, <2>4, <3>1, <3>2 DEF RgHandlerOK, RgHeld
    <3>4. RgOwn(u)'
      BY <1>2, <1>4, <2>1, <2>4, <3>1, <1>1
      DEF RgOwn, RgTypes, RgCreated, RgHandlerOK
    <3>5. RgFilled(u)'
      BY <3>1 DEF RgFilled
    <3> QED
      BY <3>3, <3>4, <3>5
  <2>5. CASE u # t
    <3>1. /\ rgPc'[u] = rgPc[u] /\ rgSub'[u] = rgSub[u]
          /\ rgSub[u] \in RgIds => rgSubs'[rgSub[u]] = rgSubs[rgSub[u]]
      BY <1>2, <1>4, <2>2, <2>3, <2>5
    <3>2. \A v \in RgThreads : rgSub'[v] = rgSub[v] \/ rgSub'[v] = s
      BY <1>2, <2>3
    <3>3. RgHandlerOK(u)'
      BY <1>2, <2>1, <2>2, <3>1, <3>2 DEF RgHandlerOK, RgHeld
    <3>4. RgOwn(u)'
      BY <1>2, <1>4, <2>1, <3>1, <1>1
      DEF RgOwn, RgTypes, RgCreated, RgHandlerOK
    <3>5. RgFilled(u)'
      BY <1>2, <2>1, <3>1 DEF RgFilled, RgHandlerOK, RgHeld
    <3> QED
      BY <3>3, <3>4, <3>5
  <2> QED
    BY <2>4, <2>5
<1> QED
  BY <1>5, <1>6, <1>7 DEF RgInv

\* subscriptionsCreate of the API.
LEMMA RgCreateStep ==
  ASSUME RgInv, NEW s \in RgIds, NEW k \in RgKinds \cup {"StopMonitoringCollect"},
         NEW r \in BOOLEAN, SubscriptionsCreate(s, k, r)
  PROVE  RgInv'
<1>1. /\ RgTypes /\ RgAlone /\ RgUnique /\ RgNone \notin RgExts
      /\ RgNone \notin RgIds /\ RgNone \notin RgSubscription
      /\ \A u \in RgThreads : RgHandlerOK(u) /\ RgOwn(u) /\ RgFilled(u)
      /\ \A a \in rgAnswered : RgServedBy(a)
  BY RgAssumption DEF RgInv, RgAssumption
<1>2. /\ RgNew(s, k, r)
      /\ UNCHANGED <<rgPc, rgKind, rgExt, rgSub, rgGdPc, rgGdTodo, rgGdSub,
                     rgAnswered, rgEnded, rgSwept, rgOverlapped>>
  BY DEF SubscriptionsCreate, RgCall, rgGdVars
<1>4. /\ rgSubs' \in [RgIds -> RgSubscription \cup {RgNone}]
      /\ rgSubs'[s].ext = RgNone /\ rgSubs'[s] # RgNone
      /\ \A i \in RgIds : i # s => rgSubs'[i] = rgSubs[i]
      /\ s \notin RgCreated /\ RgCreated' = RgCreated \cup {s}
      /\ rgRegistered' = rgRegistered \cup {s}
  BY <1>2, RgNewStep
<1>5. RgAlone' /\ RgUnique' /\ \A a \in rgAnswered' : RgServedBy(a)'
  BY <1>2, RgNewKeeps
<1>6. RgTypes'
  BY <1>1, <1>2, <1>4 DEF RgTypes
<1>7. ASSUME NEW u \in RgThreads
      PROVE  RgHandlerOK(u)' /\ RgOwn(u)' /\ RgFilled(u)'
  <2>1. RgHandlerOK(u) /\ RgOwn(u) /\ RgFilled(u)
    BY <1>1
  <2>2. rgSub[u] # s
    BY <1>1, <1>4 DEF RgHandlerOK, RgCreated
  <2>3. rgSub[u] \in RgIds => rgSubs'[rgSub[u]] = rgSubs[rgSub[u]]
    BY <1>4, <2>2
  <2>4. RgHandlerOK(u)'
    BY <1>2, <2>1, <2>3 DEF RgHandlerOK, RgHeld
  <2>5. RgOwn(u)'
    BY <1>2, <1>4, <2>1, <1>1 DEF RgOwn, RgTypes, RgCreated, RgHandlerOK
  <2>6. RgFilled(u)'
    BY <1>2, <2>1, <2>3 DEF RgFilled, RgHandlerOK, RgHeld
  <2> QED
    BY <2>4, <2>5, <2>6
<1> QED
  BY <1>5, <1>6, <1>7 DEF RgInv

\* A subscription is filled: what its record becomes.
LEMMA RgFillType ==
  ASSUME RgInv, NEW s \in RgIds, rgSubs[s] # RgNone,
         NEW e \in RgExts \cup {RgNone}, NEW r \in BOOLEAN,
         \/ rgSubs' = [rgSubs EXCEPT ![s].ext = e] /\ r = rgSubs[s].resources
         \/ rgSubs' = [rgSubs EXCEPT ![s].resources = r] /\ e = rgSubs[s].ext
  PROVE  /\ rgSubs' \in [RgIds -> RgSubscription \cup {RgNone}]
         /\ rgSubs'[s].ext = e /\ rgSubs'[s].resources = r
         /\ rgSubs'[s] # RgNone
         /\ \A i \in RgIds : i # s => rgSubs'[i] = rgSubs[i]
         /\ RgCreated' = RgCreated
<1>1. /\ rgSubs \in [RgIds -> RgSubscription \cup {RgNone}]
      /\ RgNone \notin RgSubscription
  BY RgAssumption DEF RgInv, RgTypes, RgAssumption
<1> DEFINE new == [kind |-> rgSubs[s].kind, ext |-> e, resources |-> r]
<1>2. rgSubs[s] \in RgSubscription
  BY <1>1
<1>3. new \in RgSubscription /\ new.ext = e /\ new.resources = r
  BY <1>2 DEF RgSubscription
<1>4. rgSubs' = [rgSubs EXCEPT ![s] = new]
  <2>1. CASE rgSubs' = [rgSubs EXCEPT ![s].ext = e] /\ r = rgSubs[s].resources
    <3>1. [rgSubs[s] EXCEPT !.ext = e] = new
      BY <1>2, <2>1 DEF RgSubscription
    <3> QED
      BY <2>1, <3>1
  <2>2. CASE rgSubs' = [rgSubs EXCEPT ![s].resources = r] /\ e = rgSubs[s].ext
    <3>1. [rgSubs[s] EXCEPT !.resources = r] = new
      BY <1>2, <2>2 DEF RgSubscription
    <3> QED
      BY <2>2, <3>1
  <2> QED
    BY <2>1, <2>2
<1> HIDE DEF new
<1>5. /\ rgSubs' \in [RgIds -> RgSubscription \cup {RgNone}]
      /\ rgSubs'[s] = new /\ new # RgNone
      /\ \A i \in RgIds : i # s => rgSubs'[i] = rgSubs[i]
  BY ONLY <1>1, <1>3, <1>4
<1>6. RgCreated' = RgCreated
  BY <1>5 DEF RgCreated
<1> QED
  BY <1>3, <1>5, <1>6

\* SetExternalId.
LEMMA RgSetExternalIdStep ==
  ASSUME RgInv, NEW t \in RgThreads, SetExternalId(t)
  PROVE  RgInv'
<1>1. /\ RgTypes /\ RgAlone /\ RgUnique /\ RgNone \notin RgExts
      /\ RgNone \notin RgIds /\ RgNone \notin RgSubscription
      /\ \A u \in RgThreads : RgHandlerOK(u) /\ RgOwn(u) /\ RgFilled(u)
      /\ \A a \in rgAnswered : RgServedBy(a)
  BY RgAssumption DEF RgInv, RgAssumption
<1> DEFINE s == rgSub[t]
<1>2. /\ rgPc[t] = "externalId"
      /\ rgSubs' = [rgSubs EXCEPT ![s].ext = rgExt[t]]
      /\ rgPc' = [rgPc EXCEPT ![t] = "fill"]
      /\ UNCHANGED <<rgRegistered, rgKind, rgExt, rgSub, rgGdPc, rgGdTodo,
                     rgGdSub, rgAnswered, rgEnded, rgSwept, rgOverlapped>>
  BY DEF SetExternalId, rgGdVars
<1>3. /\ s \in RgIds /\ rgSubs[s] # RgNone /\ rgExt[t] \in RgExts
      /\ rgSubs[s].ext = RgNone
      /\ \A u \in RgThreads : rgSub[u] = s => u = t
  BY <1>1, <1>2 DEF RgHandlerOK, RgHeld
<1>4. rgSubs[s].resources \in BOOLEAN
  BY <1>1, <1>3 DEF RgTypes, RgSubscription
<1> HIDE DEF s
<1>5. /\ rgSubs' \in [RgIds -> RgSubscription \cup {RgNone}]
      /\ rgSubs'[s].ext = rgExt[t] /\ rgSubs'[s] # RgNone
      /\ \A i \in RgIds : i # s => rgSubs'[i] = rgSubs[i]
      /\ RgCreated' = RgCreated
  BY <1>2, <1>3, <1>4, RgFillType
<1>6. rgRegistered \cup rgSwept \subseteq RgIds
  BY <1>1 DEF RgTypes, RgCreated
<1>t. RgTypes'
  BY <1>1, <1>2, <1>5 DEF RgTypes, RgHeld
<1>a. RgAlone'
  BY <1>1, <1>2 DEF RgAlone
<1>u. RgUnique'
  <2>1. rgExt[t] \notin rgOverlapped \cup {RgNone} =>
          \A i \in rgRegistered : rgSubs[i].ext # rgExt[t]
    BY <1>1, <1>2 DEF RgOwn
  <2> QED
    BY <1>1, <1>2, <1>5, <1>6, <2>1 DEF RgUnique
<1>h. ASSUME NEW u \in RgThreads
      PROVE  RgHandlerOK(u)' /\ RgOwn(u)' /\ RgFilled(u)'
  <2>1. RgHandlerOK(u) /\ RgOwn(u) /\ RgFilled(u) /\ RgOwn(t)
    BY <1>1
  <2>2. rgPc \in [RgThreads -> {"idle", "find", "new"} \cup RgHeld]
    BY <1>1 DEF RgTypes
  <2>3. CASE u = t
    <3>1. rgPc'[u] = "fill" /\ rgSub'[u] = s /\ rgExt'[u] = rgExt[t]
          /\ rgKind'[u] = rgKind[t]
      BY <1>2, <2>2, <2>3 DEF s
    <3>2. RgHandlerOK(u)'
      BY <1>2, <1>3, <1>5, <2>1, <2>3, <3>1 DEF RgHandlerOK, RgHeld
    <3>3. RgOwn(u)'
      BY <1>2, <1>5, <1>6, <2>1, <2>3, <3>1 DEF RgOwn
    <3>4. RgFilled(u)'
      BY <3>1 DEF RgFilled
    <3> QED
      BY <3>2, <3>3, <3>4
  <2>4. CASE u # t
    <3>1. /\ rgPc'[u] = rgPc[u] /\ rgSub[u] # s
          /\ rgSub[u] \in RgIds => rgSubs'[rgSub[u]] = rgSubs[rgSub[u]]
      BY <1>2, <1>3, <1>5, <2>2, <2>4
    <3>2. RgHandlerOK(u)'
      BY <1>2, <2>1, <3>1 DEF RgHandlerOK, RgHeld
    <3>3. RgOwn(u)'
      <4>1. rgExt[u] \notin rgOverlapped \cup {RgNone} => rgExt[u] # rgExt[t]
        BY <1>1, <2>4 DEF RgAlone
      <4> QED
        BY <1>2, <1>5, <1>6, <2>1, <3>1, <4>1 DEF RgOwn
    <3>4. RgFilled(u)'
      BY <1>2, <2>1, <3>1 DEF RgFilled, RgHandlerOK, RgHeld
    <3> QED
      BY <3>2, <3>3, <3>4
  <2> QED
    BY <2>3, <2>4
<1>s. ASSUME NEW a \in rgAnswered' PROVE RgServedBy(a)'
  <2>1. RgServedBy(a) /\ a[1] \in RgExts
    BY <1>1, <1>2, <1>s DEF RgTypes
  <2> QED
    BY <1>1, <1>2, <1>3, <1>5, <1>6, <2>1 DEF RgServedBy
<1> QED
  BY <1>t, <1>a, <1>u, <1>h, <1>s DEF RgInv

\* AddNewResource.
LEMMA RgAddNewResourceStep ==
  ASSUME RgInv, NEW t \in RgThreads, AddNewResource(t)
  PROVE  RgInv'
<1>1. /\ RgTypes /\ RgAlone /\ RgUnique /\ RgNone \notin RgExts
      /\ RgNone \notin RgIds /\ RgNone \notin RgSubscription
      /\ \A u \in RgThreads : RgHandlerOK(u) /\ RgOwn(u) /\ RgFilled(u)
      /\ \A a \in rgAnswered : RgServedBy(a)
  BY RgAssumption DEF RgInv, RgAssumption
<1> DEFINE s == rgSub[t]
<1>2. /\ rgPc[t] = "fill"
      /\ rgSubs' = [rgSubs EXCEPT ![s].resources = TRUE]
      /\ rgPc' = [rgPc EXCEPT ![t] = "answer"]
      /\ UNCHANGED <<rgRegistered, rgKind, rgExt, rgSub, rgGdPc, rgGdTodo,
                     rgGdSub, rgAnswered, rgEnded, rgSwept, rgOverlapped>>
  BY DEF AddNewResource, rgGdVars
<1>3. s \in RgIds /\ rgSubs[s] # RgNone
  BY <1>1, <1>2 DEF RgHandlerOK, RgHeld
<1>4. rgSubs[s].ext \in RgExts \cup {RgNone}
  BY <1>1, <1>3 DEF RgTypes, RgSubscription
<1> HIDE DEF s
<1>5. /\ rgSubs' \in [RgIds -> RgSubscription \cup {RgNone}]
      /\ rgSubs'[s].ext = rgSubs[s].ext /\ rgSubs'[s].resources = TRUE
      /\ rgSubs'[s] # RgNone
      /\ \A i \in RgIds : i # s => rgSubs'[i] = rgSubs[i]
      /\ RgCreated' = RgCreated
  BY <1>2, <1>3, <1>4, RgFillType
<1>6. \A i \in RgIds : /\ rgSubs'[i].ext = rgSubs[i].ext
                       /\ rgSubs[i].resources => rgSubs'[i].resources
                       /\ rgSubs[i] # RgNone => rgSubs'[i] # RgNone
  BY <1>5
<1>7. rgRegistered \cup rgSwept \subseteq RgIds
  BY <1>1 DEF RgTypes, RgCreated
<1>t. RgTypes'
  BY <1>1, <1>2, <1>5 DEF RgTypes, RgHeld
<1>a. RgAlone'
  BY <1>1, <1>2 DEF RgAlone
<1>u. RgUnique'
  BY <1>1, <1>2, <1>6, <1>7 DEF RgUnique
<1>h. ASSUME NEW u \in RgThreads
      PROVE  RgHandlerOK(u)' /\ RgOwn(u)' /\ RgFilled(u)'
  <2>1. RgHandlerOK(u) /\ RgOwn(u) /\ RgFilled(u)
    BY <1>1
  <2>2. /\ rgPc \in [RgThreads -> {"idle", "find", "new"} \cup RgHeld]
        /\ rgPc'[u] = IF u = t THEN "answer" ELSE rgPc[u]
    BY <1>1, <1>2 DEF RgTypes
  <2>3. RgHandlerOK(u)'
    BY <1>2, <1>6, <2>1, <2>2 DEF RgHandlerOK, RgHeld
  <2>4. RgOwn(u)'
    BY <1>2, <1>6, <1>7, <2>1, <2>2 DEF RgOwn
  <2>5. RgFilled(u)'
    BY <1>2, <1>5, <1>6, <2>1, <2>2 DEF RgFilled, RgHandlerOK, RgHeld, s
  <2> QED
    BY <2>3, <2>4, <2>5
<1>s. ASSUME NEW a \in rgAnswered' PROVE RgServedBy(a)'
  <2>1. RgServedBy(a)
    BY <1>1, <1>2, <1>s
  <2> QED
    BY <1>2, <1>6, <1>7, <2>1 DEF RgServedBy
<1> QED
  BY <1>t, <1>a, <1>u, <1>h, <1>s DEF RgInv

\* The answer, and the Save before it.
LEMMA RgAnswerStep ==
  ASSUME RgInv, NEW t \in RgThreads, RequestAnswer(t)
  PROVE  RgInv'
<1>1. /\ RgTypes /\ RgAlone /\ RgUnique /\ RgNone \notin RgExts
      /\ RgNone \notin RgIds /\ RgNone \notin RgSubscription
      /\ \A u \in RgThreads : RgHandlerOK(u) /\ RgOwn(u) /\ RgFilled(u)
      /\ \A a \in rgAnswered : RgServedBy(a)
  BY RgAssumption DEF RgInv, RgAssumption
<1> DEFINE saved == SavedAtEnd(t)
<1>2. /\ rgPc[t] = "answer"
      /\ rgRegistered' = rgRegistered \cup saved /\ rgSwept' = rgSwept \ saved
      /\ rgAnswered' = IF rgEnded[t] THEN rgAnswered
                       ELSE rgAnswered \cup {<<rgExt[t], rgKind[t]>>}
      /\ rgPc' = [rgPc EXCEPT ![t] = "idle"]
      /\ rgKind' = [rgKind EXCEPT ![t] = RgNone]
      /\ rgExt' = [rgExt EXCEPT ![t] = RgNone]
      /\ rgSub' = [rgSub EXCEPT ![t] = RgNone]
      /\ UNCHANGED <<rgSubs, rgGdPc, rgGdTodo, rgGdSub, rgEnded, rgOverlapped>>
  BY DEF RequestAnswer, rgGdVars
<1>3. /\ rgSub[t] \in RgIds /\ rgSubs[rgSub[t]] # RgNone
      /\ rgSubs[rgSub[t]].ext = rgExt[t]
      /\ rgExt[t] \in RgExts /\ rgKind[t] \in RgKinds
      /\ ~rgEnded[t] => rgSubs[rgSub[t]].resources
  BY <1>1, <1>2 DEF RgHandlerOK, RgHeld, RgFilled
<1>4. /\ saved \subseteq {rgSub[t]}
      /\ rgKind[t] # "StopMonitoringBroadcast" => rgSub[t] \in saved
  BY DEF SavedAtEnd
<1> HIDE DEF saved
<1>5. rgExt[t] \notin rgOverlapped \cup {RgNone} =>
        \A i \in rgRegistered : rgSubs[i].ext = rgExt[t] => i = rgSub[t]
  BY <1>1, <1>2 DEF RgOwn
<1>6. \A u \in RgThreads :
        rgExt[u] = rgExt[t] /\ rgExt[u] \notin rgOverlapped \cup {RgNone} => u = t
  BY <1>1 DEF RgAlone
<1>7. /\ rgPc \in [RgThreads -> {"idle", "find", "new"} \cup RgHeld]
      /\ rgKind \in [RgThreads -> RgKinds \cup {RgNone}]
      /\ rgExt \in [RgThreads -> RgExts \cup {RgNone}]
      /\ rgSub \in [RgThreads -> RgIds \cup {RgNone}]
      /\ rgRegistered \cup rgSwept \cup rgGdTodo \subseteq RgCreated
      /\ rgAnswered \subseteq RgExts \X RgKinds
  BY <1>1 DEF RgTypes
<1>8. rgSub[t] \in RgCreated
  BY <1>3 DEF RgCreated
<1>t. RgTypes'
  <2>1. /\ rgPc' \in [RgThreads -> {"idle", "find", "new"} \cup RgHeld]
        /\ rgKind' \in [RgThreads -> RgKinds \cup {RgNone}]
        /\ rgExt' \in [RgThreads -> RgExts \cup {RgNone}]
        /\ rgSub' \in [RgThreads -> RgIds \cup {RgNone}]
    BY ONLY <1>2, <1>7
  <2>2. rgAnswered' \subseteq RgExts \X RgKinds
    BY <1>2, <1>3, <1>7
  <2>3. rgRegistered' \cup rgSwept' \subseteq RgCreated /\ RgCreated' = RgCreated
    BY <1>2, <1>4, <1>7, <1>8 DEF RgCreated
  <2> QED
    BY <1>1, <1>2, <2>1, <2>2, <2>3 DEF RgTypes
<1>a. RgAlone'
  BY <1>1, <1>2, <1>7 DEF RgAlone
<1>u. RgUnique'
  BY <1>1, <1>2, <1>3, <1>4, <1>5 DEF RgUnique
<1>h. ASSUME NEW u \in RgThreads
      PROVE  RgHandlerOK(u)' /\ RgOwn(u)' /\ RgFilled(u)'
  <2>1. RgHandlerOK(u) /\ RgOwn(u) /\ RgFilled(u)
    BY <1>1
  <2>2. CASE u = t
    <3>1. /\ rgPc'[u] = "idle" /\ rgExt'[u] = RgNone /\ rgSub'[u] = RgNone
      BY <1>2, <1>7, <2>2
    <3> QED
      BY <3>1 DEF RgHandlerOK, RgOwn, RgFilled, RgHeld
  <2>3. CASE u # t
    <3>1. /\ rgPc'[u] = rgPc[u] /\ rgExt'[u] = rgExt[u]
          /\ rgKind'[u] = rgKind[u] /\ rgSub'[u] = rgSub[u]
          /\ \A v \in RgThreads : rgSub'[v] \in {rgSub[v], RgNone}
      BY <1>2, <1>7, <2>3
    <3>2. RgHandlerOK(u)'
      BY <1>1, <1>2, <2>1, <3>1 DEF RgHandlerOK, RgHeld
    <3>3. RgOwn(u)'
      BY <1>2, <1>3, <1>4, <1>6, <2>1, <2>3, <3>1 DEF RgOwn
    <3>4. RgFilled(u)'
      BY <1>2, <2>1, <3>1 DEF RgFilled
    <3> QED
      BY <3>2, <3>3, <3>4
  <2> QED
    BY <2>2, <2>3
<1>s. ASSUME NEW a \in rgAnswered' PROVE RgServedBy(a)'
  <2>1. rgRegistered \cup rgSwept \subseteq rgRegistered' \cup rgSwept'
    BY <1>2
  <2>2. CASE a \in rgAnswered
    BY <1>1, <1>2, <2>1, <2>2 DEF RgServedBy
  <2>3. CASE a = <<rgExt[t], rgKind[t]>> /\ ~rgEnded[t]
    BY <1>2, <1>3, <1>4, <2>3 DEF RgServedBy
  <2> QED
    BY <1>2, <1>s, <2>2, <2>3
<1> QED
  BY <1>t, <1>a, <1>u, <1>h, <1>s DEF RgInv

\* The guardian looks at one subscription: it takes expired resources away.
LEMMA RgVisitResourcesStep ==
  ASSUME RgInv, NEW s \in RgIds, NEW expired \in BOOLEAN,
         VisitResources(s, expired)
  PROVE  RgInv'
<1>1. /\ RgTypes /\ RgAlone /\ RgUnique /\ RgNone \notin RgExts
      /\ RgNone \notin RgIds /\ RgNone \notin RgSubscription
      /\ \A u \in RgThreads : RgHandlerOK(u) /\ RgOwn(u) /\ RgFilled(u)
      /\ \A a \in rgAnswered : RgServedBy(a)
  BY RgAssumption DEF RgInv, RgAssumption
<1> DEFINE left == rgSubs[s].resources /\ ~expired
<1>2. /\ s \in rgGdTodo
      /\ rgGdTodo' = rgGdTodo \ {s}
      /\ rgSubs' = [rgSubs EXCEPT ![s].resources = left]
      /\ rgGdSub' \in {RgNone, s}
      /\ rgGdPc' = "delete" => rgGdSub' = s
      /\ expired => rgAnswered' = {a \in rgAnswered : a[1] # rgSubs[s].ext}
      /\ expired =>
           rgEnded' = [u \in RgThreads |-> rgEnded[u] \/ rgSub[u] = s]
      /\ ~expired => rgAnswered' = rgAnswered /\ rgEnded' = rgEnded
      /\ UNCHANGED <<rgRegistered, rgPc, rgKind, rgExt, rgSub, rgSwept,
                     rgOverlapped>>
  BY DEF VisitResources, RgGuardian
<1>3. rgSubs[s] # RgNone /\ s \in RgCreated
  BY <1>1, <1>2 DEF RgTypes, RgCreated
<1>4. rgSubs[s].ext \in RgExts \cup {RgNone} /\ left \in BOOLEAN
  BY <1>1, <1>3 DEF RgTypes, RgSubscription
<1>5. ~expired => left = rgSubs[s].resources
  BY <1>1, <1>3 DEF RgTypes, RgSubscription
<1> HIDE DEF left
<1>6. /\ rgSubs' \in [RgIds -> RgSubscription \cup {RgNone}]
      /\ rgSubs'[s].ext = rgSubs[s].ext /\ rgSubs'[s].resources = left
      /\ rgSubs'[s] # RgNone
      /\ \A i \in RgIds : i # s => rgSubs'[i] = rgSubs[i]
      /\ RgCreated' = RgCreated
  BY <1>2, <1>3, <1>4, RgFillType
<1>7. \A i \in RgIds :
        /\ rgSubs'[i].ext = rgSubs[i].ext
        /\ i # s \/ ~expired => rgSubs'[i].resources = rgSubs[i].resources
        /\ rgSubs[i] # RgNone => rgSubs'[i] # RgNone
  BY <1>5, <1>6
<1>8. rgRegistered \cup rgSwept \subseteq RgIds
  BY <1>1 DEF RgTypes, RgCreated
<1>9. /\ rgEnded' \in [RgThreads -> BOOLEAN] /\ rgAnswered' \subseteq rgAnswered
      /\ \A u \in RgThreads :
           /\ rgEnded[u] => rgEnded'[u]
           /\ expired /\ rgSub[u] = s => rgEnded'[u]
  <2>1. rgEnded \in [RgThreads -> BOOLEAN]
    BY <1>1 DEF RgTypes
  <2>2. CASE expired
    BY <1>2, <2>1, <2>2
  <2>3. CASE ~expired
    BY <1>2, <2>1, <2>3
  <2> QED
    BY <2>2, <2>3
<1>t. RgTypes'
  BY <1>1, <1>2, <1>3, <1>6, <1>9 DEF RgTypes
<1>a. RgAlone'
  BY <1>1, <1>2 DEF RgAlone
<1>u. RgUnique'
  BY <1>1, <1>2, <1>7, <1>8 DEF RgUnique
<1>h. ASSUME NEW u \in RgThreads
      PROVE  RgHandlerOK(u)' /\ RgOwn(u)' /\ RgFilled(u)'
  <2>1. RgHandlerOK(u) /\ RgOwn(u) /\ RgFilled(u)
    BY <1>1
  <2>2. RgHandlerOK(u)'
    BY <1>2, <1>7, <2>1 DEF RgHandlerOK, RgHeld
  <2>3. RgOwn(u)'
    BY <1>2, <1>7, <1>8, <2>1 DEF RgOwn
  <2>4. RgFilled(u)'
    BY <1>2, <1>7, <1>9, <2>1 DEF RgFilled, RgHandlerOK, RgHeld
  <2> QED
    BY <2>2, <2>3, <2>4
<1>s. ASSUME NEW a \in rgAnswered' PROVE RgServedBy(a)'
  <2>1. RgServedBy(a)
    BY <1>1, <1>9, <1>s
  <2>2. expired => rgSubs[s].ext # a[1]
    BY <1>2, <1>s
  <2> QED
    BY <1>2, <1>7, <1>8, <2>1, <2>2 DEF RgServedBy
<1> QED
  BY <1>t, <1>a, <1>u, <1>h, <1>s DEF RgInv

-----------------------------------------------------------------------------
(* The theorems.                                                           *)

\* No subscription, no request.
LEMMA RgInitInv ==
  ASSUME RgInit PROVE RgInv
<1>1. RgTypes /\ RgUnique
  BY DEF RgInit, RgTypes, RgUnique, RgCreated
<1>2. RgAlone
  BY DEF RgInit, RgAlone
<1>3. ASSUME NEW t \in RgThreads
      PROVE  RgHandlerOK(t) /\ RgOwn(t) /\ RgFilled(t)
  BY DEF RgInit, RgHandlerOK, RgHeld, RgOwn, RgFilled
<1> QED
  BY <1>1, <1>2, <1>3 DEF RgInv, RgInit

\* Every step keeps the invariant.
LEMMA RgNextInv ==
  ASSUME RgInv, [RgNext]_rgVars PROVE RgInv'
<1>1. CASE UNCHANGED rgVars
  BY <1>1 DEF rgVars, rgSubVars, rgGdVars, RgInv, RgTypes, RgAlone, RgUnique,
              RgHandlerOK, RgOwn, RgFilled, RgServedBy, RgCreated
<1>2. ASSUME NEW t \in RgThreads, NEW k \in RgKinds, NEW e \in RgExts,
             Dispatch(t, k, e)
      PROVE  RgInv'
  BY <1>2, RgDispatchStep
<1>3. ASSUME NEW t \in RgThreads,
             \/ RequestFind(t) \/ SetExternalId(t) \/ AddNewResource(t)
             \/ RequestAnswer(t) \/ \E s \in RgIds : RequestNew(t, s)
      PROVE  RgInv'
  BY <1>3, RgFindStep, RgSetExternalIdStep, RgAddNewResourceStep,
     RgAnswerStep, RgRequestNewStep
<1>4. CASE \/ \E e \in RgExts : CancelSubscription(e)
           \/ CancelAll \/ VisitRestarted \/ VisitDownBroadcast
           \/ VisitDownCollectPersistent \/ \E s \in RgIds : DeleteById(s)
  BY <1>4, RgEndStep
<1>5. CASE \/ VisitDownCollect \/ VisitDownPersistent \/ VisitUp
           \/ VisitDelete \/ VisitDone
  BY <1>5, RgGuardianStep
<1>6. ASSUME NEW s \in RgIds,
             NEW k \in {"StopMonitoringCollect", "StopMonitoringBroadcast"},
             NEW r \in BOOLEAN, SubscriptionsCreate(s, k, r)
      PROVE  RgInv'
  <2>1. k \in RgKinds \cup {"StopMonitoringCollect"}
    BY DEF RgKinds
  <2> QED
    BY <1>6, <2>1, RgCreateStep
<1>7. ASSUME NEW s \in RgIds, NEW expired \in BOOLEAN,
             VisitResources(s, expired)
      PROVE  RgInv'
  BY <1>7, RgVisitResourcesStep
<1> QED
  BY <1>1, <1>2, <1>3, <1>4, <1>5, <1>6, <1>7 DEF RgNext

\* The invariant of the registry: the handlers of requests and the guardian
\* interleave, and each holds what the others leave it.
THEOREM RegistryInvariance == RgSpec => []RgInv
<1>1. RgInit => RgInv
  BY RgInitInv
<1>2. RgInv /\ [RgNext]_rgVars => RgInv'
  BY RgNextInv
<1> QED
  BY <1>1, <1>2, PTL DEF RgSpec

\* What was answered with Status true and neither ended nor expired since is
\* registered, unless the guardian deleted it as empty: the Save at the end of
\* HandleSubscriptionRequest.
THEOREM AnsweredIsServed == RgSpec => []RgServed
<1>1. RgInv => RgServed
  BY DEF RgInv, RgServedBy, RgServed, RgExtsOf
<1> QED
  BY <1>1, RegistryInvariance, PTL

\* Requests for a SubscriptionIdentifier that do not overlap share one
\* subscription: FindByExternalId before New.
THEOREM OneForAnExternalId == RgSpec => []RgUnique
<1>1. RgInv => RgUnique
  BY DEF RgInv
<1> QED
  BY <1>1, RegistryInvariance, PTL

-----------------------------------------------------------------------------
(* What a sequence of messages tells.                                      *)

\* A set of naturals that is not empty has a least one.
LEMMA LeastNat == \A T \in SUBSET Nat : T # {} => \E x \in T : \A y \in T : x <= y
<1> SUFFICES ASSUME NEW T \in SUBSET Nat, T # {}
             PROVE  \E x \in T : \A y \in T : x <= y
  OBVIOUS
<1> DEFINE R == {ss \in Nat \X Nat : ss[1] < ss[2]}
<1>1. IsWellFoundedOn(R, Nat)
  <2>1. OpToRel(<, Nat) = R
    BY DEF OpToRel
  <2> QED
    BY <2>1, NatLessThanWellFounded
<1>2. \A x, y \in Nat : <<y, x>> \in R <=> y < x
  <2>1. \A x, y : <<y, x>>[1] = y /\ <<y, x>>[2] = x
    OBVIOUS
  <2> QED
    BY <2>1
<1> HIDE DEF R
<1>3. PICK x \in T : \A y \in T : ~(<<y, x>> \in R)
  BY <1>1, WFMin
<1>4. ASSUME NEW y \in T PROVE x <= y
  <2>1. x \in Nat /\ y \in Nat /\ ~(y < x)
    BY <1>2, <1>3
  <2> QED
    BY <2>1
<1> QED
  BY <1>4

\* The message at i is the last one that tells of o.
LastAt(s, o, i) ==
  /\ i \in Built(s) /\ s[i].obj = o
  /\ \A j \in Built(s) : s[j].obj = o => j <= i

\* What was told last is what the last message that tells of o says.
LEMMA LatestAt ==
  ASSUME NEW s \in Seq(SiMessage), NEW o, NEW i, LastAt(s, o, i)
  PROVE  /\ i \in 1..Len(s) /\ s[i].content /\ o \in Objects(s)
         /\ Latest(s, o) = s[i].rec
<1>1. i \in Built(s) /\ Built(s) \subseteq 1..Len(s) /\ s[i].content /\ s[i].obj = o
  BY DEF LastAt, Built
<1> DEFINE at == {j \in Built(s) : s[j].obj = o}
           c == CHOOSE j \in at : \A k \in at : k <= j
<1>2. i \in at /\ \A k \in at : k <= i
  BY DEF LastAt
<1>3. c \in at /\ \A k \in at : k <= c
  BY <1>2
<1>4. c = i
  <2>1. c <= i /\ i <= c /\ c \in Int /\ i \in Int
    BY <1>1, <1>2, <1>3
  <2> QED
    BY <2>1
<1>5. Latest(s, o) = s[c].rec
  BY DEF Latest
<1> QED
  BY <1>1, <1>4, <1>5 DEF Objects

\* There is such a message.
LEMMA LatestExists ==
  ASSUME NEW s \in Seq(SiMessage), NEW o \in Objects(s)
  PROVE  \E i \in 1..Len(s) : LastAt(s, o, i)
<1> DEFINE at == {j \in Built(s) : s[j].obj = o}
           T == {n \in Nat : Len(s) - n \in at}
<1>1. /\ Built(s) \subseteq 1..Len(s) /\ Len(s) \in Nat
      /\ \E i \in Built(s) : s[i].obj = o
  BY DEF Built, Objects
<1>2. T # {}
  <2>1. PICK i \in Built(s) : s[i].obj = o
    BY <1>1
  <2>2. Len(s) - i \in Nat /\ Len(s) - (Len(s) - i) = i
    BY <1>1, <2>1
  <2>3. Len(s) - i \in T
    BY <2>1, <2>2
  <2> QED
    BY <2>3
<1>3. PICK n \in T : \A m \in T : n <= m
  <2>1. T \in SUBSET Nat
    OBVIOUS
  <2> HIDE DEF T
  <2> QED
    BY <1>2, <2>1, LeastNat
<1>4. ASSUME NEW j \in at PROVE j <= Len(s) - n
  <2>1. j \in 1..Len(s) /\ Len(s) - j \in Nat /\ Len(s) - (Len(s) - j) = j
    BY <1>1
  <2>2. Len(s) - j \in T
    BY <2>1
  <2>3. n <= Len(s) - j /\ n \in Nat
    BY <1>3, <2>2
  <2> QED
    BY <1>1, <2>1, <2>3
<1>5. Len(s) - n \in at
  BY <1>3
<1>6. LastAt(s, o, Len(s) - n)
  BY <1>4, <1>5 DEF LastAt
<1> QED
  BY <1>1, <1>5, <1>6

\* The time told last is a time.
LEMMA LatestType ==
  ASSUME NEW s \in Seq(SiMessage)
  PROVE  Objects(s) \subseteq SiObjects /\ \A o \in Objects(s) : Latest(s, o) \in SiTimes
<1>1. \A i \in 1..Len(s) : s[i] \in SiMessage
  OBVIOUS
<1>2. Objects(s) \subseteq SiObjects
  BY <1>1 DEF Objects, Built, SiMessage
<1>3. ASSUME NEW o \in Objects(s) PROVE Latest(s, o) \in SiTimes
  <2>1. PICK i \in 1..Len(s) : LastAt(s, o, i)
    BY LatestExists
  <2>2. Latest(s, o) = s[i].rec
    BY <2>1, LatestAt
  <2> QED
    BY <1>1, <2>2 DEF SiMessage
<1> QED
  BY <1>2, <1>3

\* An empty sequence tells nothing.
LEMMA EmptyTells == Objects(<<>>) = {}
BY DEF Objects, Built

\* What the messages after the first one tell is told last; what they do not
\* tell is what the first one tells.
LEMMA TailTells ==
  ASSUME NEW s \in Seq(SiMessage), s # <<>>
  PROVE  /\ Head(s) \in SiMessage /\ Tail(s) \in Seq(SiMessage)
         /\ Objects(Tail(s)) \subseteq Objects(s)
         /\ Head(s).content => Head(s).obj \in Objects(s)
         /\ \A o \in Objects(Tail(s)) : Latest(Tail(s), o) = Latest(s, o)
         /\ \A o \in Objects(s) \ Objects(Tail(s)) :
              Head(s).content /\ Head(s).obj = o /\ Latest(s, o) = Head(s).rec
<1>1. /\ Len(s) \in Nat \ {0} /\ Head(s) = s[1] /\ Head(s) \in SiMessage
      /\ Tail(s) \in Seq(SiMessage) /\ Len(Tail(s)) = Len(s) - 1
      /\ \A i \in 1..(Len(s) - 1) : Tail(s)[i] = s[i + 1]
  OBVIOUS
<1>2. /\ \A i \in Built(Tail(s)) : i + 1 \in Built(s) /\ i \in Nat /\ Tail(s)[i] = s[i + 1]
      /\ \A i \in Built(s) : i = 1 \/ i - 1 \in Built(Tail(s))
      /\ \A i \in Built(s) : i \in Nat
  BY <1>1 DEF Built
<1>3. Objects(Tail(s)) \subseteq Objects(s)
  BY <1>2 DEF Objects
<1>4. Head(s).content => Head(s).obj \in Objects(s)
  <2>1. Head(s).content => 1 \in Built(s)
    BY <1>1 DEF Built
  <2> QED
    BY <1>1, <2>1 DEF Objects
<1>5. ASSUME NEW o \in Objects(Tail(s)) PROVE Latest(Tail(s), o) = Latest(s, o)
  <2>1. PICK i \in 1..Len(Tail(s)) : LastAt(Tail(s), o, i)
    BY <1>1, LatestExists
  <2>2. Latest(Tail(s), o) = Tail(s)[i].rec
    BY <1>1, <2>1, LatestAt
  <2>3. i \in Nat /\ i + 1 \in Built(s) /\ s[i + 1] = Tail(s)[i] /\ s[i + 1].obj = o
    BY <1>2, <2>1 DEF LastAt
  <2>4. ASSUME NEW j \in Built(s), s[j].obj = o PROVE j <= i + 1
    <3>1. CASE j = 1
      BY <2>3, <3>1
    <3>2. CASE j - 1 \in Built(Tail(s))
      <4>1. j \in Nat /\ j - 1 + 1 = j
        BY <1>2
      <4>2. Tail(s)[j - 1] = s[j]
        BY <1>2, <3>2, <4>1
      <4>3. j - 1 <= i
        BY <2>1, <2>4, <3>2, <4>2 DEF LastAt
      <4> QED
        BY <2>3, <4>1, <4>3
    <3> QED
      BY <1>2, <3>1, <3>2
  <2>5. LastAt(s, o, i + 1)
    BY <2>3, <2>4 DEF LastAt
  <2>6. Latest(s, o) = s[i + 1].rec
    BY <2>5, LatestAt
  <2> QED
    BY <2>2, <2>3, <2>6
<1>6. ASSUME NEW o \in Objects(s) \ Objects(Tail(s))
      PROVE  Head(s).content /\ Head(s).obj = o /\ Latest(s, o) = Head(s).rec
  <2>1. PICK i \in 1..Len(s) : LastAt(s, o, i)
    BY LatestExists
  <2>2. s[i].content /\ s[i].obj = o /\ Latest(s, o) = s[i].rec /\ i \in Built(s)
    BY <2>1, LatestAt DEF LastAt
  <2>3. i = 1
    <3>1. ASSUME i - 1 \in Built(Tail(s)) PROVE FALSE
      <4>1. i - 1 + 1 = i
        OBVIOUS
      <4>2. Tail(s)[i - 1] = s[i]
        BY <1>2, <3>1, <4>1
      <4> QED
        BY <1>6, <2>2, <3>1, <4>2 DEF Objects
    <3> QED
      BY <1>2, <2>2, <3>1
  <2> QED
    BY <1>1, <2>2, <2>3
<1> QED
  BY <1>1, <1>3, <1>4, <1>5, <1>6

\* Messages that are added tell last what they tell.
LEMMA ConcatTells ==
  ASSUME NEW s \in Seq(SiMessage), NEW u \in Seq(SiMessage)
  PROVE  /\ s \o u \in Seq(SiMessage)
         /\ Objects(s \o u) = Objects(s) \cup Objects(u)
         /\ \A o \in Objects(u) : Latest(s \o u, o) = Latest(u, o)
         /\ \A o \in Objects(s) \ Objects(u) : Latest(s \o u, o) = Latest(s, o)
<1> DEFINE c == s \o u
           n == Len(s)
<1>1. /\ n \in Nat /\ Len(u) \in Nat /\ c \in Seq(SiMessage) /\ Len(c) = n + Len(u)
      /\ \A i \in 1..n : c[i] = s[i]
      /\ \A i \in 1..Len(u) : c[n + i] = u[i]
  OBVIOUS
<1>2. DOMAIN c = 1..(n + Len(u)) /\ DOMAIN s = 1..n /\ DOMAIN u = 1..Len(u)
  BY <1>1
<1> HIDE DEF c, n
<1>3. /\ \A i \in Built(s) : i \in Built(c) /\ c[i] = s[i] /\ i \in 1..n
      /\ \A i \in Built(u) : n + i \in Built(c) /\ c[n + i] = u[i] /\ i \in Nat \ {0}
      /\ \A i \in Built(c) :
           \/ i \in Built(s) /\ i <= n
           \/ i > n /\ i - n \in Built(u) /\ c[i] = u[i - n]
      /\ \A i \in Built(c) : i \in Nat
  <2>1. ASSUME NEW i \in Built(c), i > n
        PROVE  i - n \in Built(u) /\ c[i] = u[i - n]
    <3>1. i - n \in 1..Len(u) /\ n + (i - n) = i
      BY <1>1, <1>2, <2>1 DEF Built
    <3> QED
      BY <1>1, <1>2, <3>1 DEF Built
  <2>2. ASSUME NEW i \in Built(s) PROVE i \in Built(c) /\ c[i] = s[i] /\ i \in 1..n
    BY <1>1, <1>2 DEF Built
  <2>3. ASSUME NEW i \in Built(u)
        PROVE  n + i \in Built(c) /\ c[n + i] = u[i] /\ i \in Nat \ {0}
    BY <1>1, <1>2 DEF Built
  <2>4. ASSUME NEW i \in Built(c), i <= n PROVE i \in Built(s)
    BY <1>1, <1>2, <2>4 DEF Built
  <2>5. \A i \in Built(c) : i \in Nat
    BY <1>1, <1>2 DEF Built
  <2> QED
    BY <1>1, <2>1, <2>2, <2>3, <2>4, <2>5
<1>4. Objects(c) = Objects(s) \cup Objects(u)
  <2>1. ASSUME NEW o \in Objects(c) PROVE o \in Objects(s) \cup Objects(u)
    <3>1. PICK i \in Built(c) : c[i].obj = o
      BY DEF Objects
    <3> QED
      BY <1>3, <3>1 DEF Objects
  <2>2. ASSUME NEW o \in Objects(s) PROVE o \in Objects(c)
    BY <1>3 DEF Objects
  <2>3. ASSUME NEW o \in Objects(u) PROVE o \in Objects(c)
    <3>1. PICK i \in Built(u) : u[i].obj = o
      BY DEF Objects
    <3>2. n + i \in Built(c) /\ c[n + i].obj = o
      BY <1>3, <3>1
    <3> QED
      BY <3>2 DEF Objects
  <2> QED
    BY <2>1, <2>2, <2>3
<1>5. ASSUME NEW o \in Objects(u) PROVE Latest(c, o) = Latest(u, o)
  <2>1. PICK i \in 1..Len(u) : LastAt(u, o, i)
    BY LatestExists
  <2>2. Latest(u, o) = u[i].rec
    BY <2>1, LatestAt
  <2>3. n + i \in Built(c) /\ c[n + i] = u[i] /\ u[i].obj = o
    BY <1>3, <2>1 DEF LastAt
  <2>4. ASSUME NEW j \in Built(c), c[j].obj = o PROVE j <= n + i
    <3>1. j \in Nat /\ i \in Nat
      BY <1>3
    <3>2. CASE j <= n
      BY <1>1, <3>1, <3>2
    <3>3. CASE j > n
      <4>1. j - n \in Built(u) /\ u[j - n].obj = o
        BY <1>1, <1>3, <2>4, <3>1, <3>3
      <4>2. j - n <= i
        BY <2>1, <4>1 DEF LastAt
      <4> QED
        BY <1>1, <3>1, <4>2
    <3> QED
      BY <1>1, <3>1, <3>2, <3>3
  <2>5. LastAt(c, o, n + i)
    BY <2>3, <2>4 DEF LastAt
  <2> QED
    BY <1>1, <2>2, <2>3, <2>5, LatestAt
<1>6. ASSUME NEW o \in Objects(s) \ Objects(u) PROVE Latest(c, o) = Latest(s, o)
  <2>1. PICK i \in 1..Len(s) : LastAt(s, o, i)
    BY LatestExists
  <2>2. Latest(s, o) = s[i].rec
    BY <2>1, LatestAt
  <2>3. i \in Built(c) /\ c[i] = s[i] /\ s[i].obj = o
    BY <1>3, <2>1 DEF LastAt
  <2>4. ASSUME NEW j \in Built(c), c[j].obj = o PROVE j <= i
    <3>1. CASE j \in Built(s)
      BY <1>3, <2>1, <2>4, <3>1 DEF LastAt
    <3>2. CASE j - n \in Built(u) /\ c[j] = u[j - n]
      BY <1>6, <2>4, <3>2 DEF Objects
    <3> QED
      BY <1>3, <3>1, <3>2
  <2>5. LastAt(c, o, i)
    BY <2>3, <2>4 DEF LastAt
  <2> QED
    BY <1>1, <2>2, <2>3, <2>5, LatestAt
<1> QED
  BY <1>1, <1>4, <1>5, <1>6 DEF c

-----------------------------------------------------------------------------
(* The inductive invariant of Situations.                                  *)

SiTypes ==
  /\ siSituations \subseteq SiSituation /\ siNextId \in Nat \ {0}
  /\ siPc \in [SiThreads -> {"idle", "delivery", "update"}]
  /\ siTodo \in [SiThreads -> Seq(SiDelivery)]
  /\ siEvents \in [SiThreads -> Seq(SiMessage)]
  /\ siLeft \in [SiThreads -> Seq(SiMessage)]
  /\ siSaved \in [SiThreads -> SUBSET SiSituation]
  /\ siTold \in [SiObjects -> SiTimes \cup {SiNone}]

\* What a goroutine holds: a transaction saves what its events tell of, and the
\* events left tell last what all of them do.
SiHandlerOK(t) ==
  /\ siPc[t] = "idle" => siTodo[t] = <<>> /\ siEvents[t] = <<>>
  /\ siPc[t] # "update" => siLeft[t] = <<>> /\ siSaved[t] = {}
  /\ \A x \in siSaved[t] : x.obj \in Objects(siEvents[t])
  /\ \A o \in Objects(siLeft[t]) :
       o \in Objects(siEvents[t]) /\ Latest(siLeft[t], o) = Latest(siEvents[t], o)

\* What is not in siRaced has one handler.
SiAlone ==
  \A t, u \in SiThreads : \A o \in SiObjects \ siRaced :
    o \in Handled(t) /\ o \in Handled(u) => t = u

\* Situations of the model and of the transactions: an id is of one object, and
\* but for siRaced an object has one id.
SiIdsOK(all) ==
  /\ \A x \in all : x.id < siNextId
  /\ \A x, y \in all : x.id = y.id => x.obj = y.obj
  /\ \A x, y \in all : x.obj = y.obj /\ x.obj \notin siRaced => x.id = y.id
OneOfEachId(situations) == \A x, y \in situations : x.id = y.id => x = y
SiAll == siSituations \cup UNION {siSaved[t] : t \in SiThreads}
SiIds ==
  /\ SiIdsOK(SiAll) /\ OneOfEachId(siSituations)
  /\ \A t \in SiThreads : OneOfEachId(siSaved[t])

\* What was told last is what the events tell last, unless it was cancelled.
SiTellsLast ==
  \A t \in SiThreads : \A o \in Objects(siEvents[t]) \ siRaced :
    siTold[o] = Latest(siEvents[t], o) \/ (siTold[o] = SiNone /\ o \in siDropped)

\* What was told last is still to be applied, or to be committed, or the model
\* says it.
SiApplied(o) ==
  /\ \A t \in SiThreads : \A y \in siSaved[t] : y.obj # o
  /\ IF siTold[o] = SiNone THEN \A x \in siSituations : x.obj # o
     ELSE \E x \in siSituations : x.obj = o /\ x.rec = siTold[o]
SiToCommit(o) ==
  \E t \in SiThreads : \E y \in siSaved[t] : y.obj = o /\ y.rec = siTold[o]
SiToApply(o) == \E t \in SiThreads : o \in Objects(siLeft[t])
SiFollowed ==
  \A o \in SiObjects \ (siDropped \cup siRaced) :
    SiToApply(o) \/ SiToCommit(o) \/ SiApplied(o)

SiInv ==
  /\ SiTypes /\ \A t \in SiThreads : SiHandlerOK(t)
  /\ SiAlone /\ SiIds /\ SiTellsLast /\ SiFollowed

\* What the deliveries left tell.
LEMMA TodoTells ==
  ASSUME NEW n \in Seq(SiDelivery), n # <<>>
  PROVE  /\ Head(n) \in SiDelivery /\ Tail(n) \in Seq(SiDelivery)
         /\ Head(n).cancels \subseteq SiObjects /\ Head(n).messages \in Seq(SiMessage)
         /\ ObjectsOf(Tail(n)) \subseteq ObjectsOf(n)
         /\ Head(n).cancels \cup Objects(Head(n).messages) \subseteq ObjectsOf(n)
<1>1. /\ Len(n) \in Nat \ {0} /\ Head(n) = n[1] /\ Head(n) \in SiDelivery
      /\ Tail(n) \in Seq(SiDelivery) /\ DOMAIN n = 1..Len(n)
      /\ DOMAIN Tail(n) = 1..(Len(n) - 1)
      /\ \A i \in 1..(Len(n) - 1) : Tail(n)[i] = n[i + 1] /\ i + 1 \in 1..Len(n)
  OBVIOUS
<1>2. Head(n).cancels \subseteq SiObjects /\ Head(n).messages \in Seq(SiMessage)
  BY <1>1 DEF SiDelivery
<1>3. ObjectsOf(Tail(n)) \subseteq ObjectsOf(n)
  BY <1>1 DEF ObjectsOf
<1>4. 1 \in DOMAIN n
  BY <1>1
<1>5. Head(n).cancels \cup Objects(Head(n).messages) \subseteq ObjectsOf(n)
  BY <1>1, <1>4 DEF ObjectsOf
<1> QED
  BY <1>1, <1>2, <1>3, <1>5

\* No deliveries, nothing told.
LEMMA NothingTold == ObjectsOf(<<>>) = {}
BY DEF ObjectsOf

\* Nothing is handled, and nothing was told, initially.
LEMMA InitSituations == SiInit => SiInv
<1> SUFFICES ASSUME SiInit PROVE SiInv
  OBVIOUS
<1>1. SiTypes
  BY DEF SiInit, SiTypes
<1>2. \A t \in SiThreads : SiHandlerOK(t) /\ Handled(t) = {}
  BY EmptyTells, NothingTold DEF SiInit, SiHandlerOK, Handled
<1>3. SiAlone
  BY <1>2 DEF SiAlone
<1>4. SiIds
  <2>1. SiAll = {} /\ siSituations = {} /\ \A t \in SiThreads : siSaved[t] = {}
    BY DEF SiInit, SiAll
  <2> QED
    BY <2>1 DEF SiIds, SiIdsOK, OneOfEachId
<1>5. SiTellsLast /\ SiFollowed
  BY EmptyTells DEF SiInit, SiTellsLast, SiFollowed, SiApplied
<1> QED
  BY <1>1, <1>2, <1>3, <1>4, <1>5 DEF SiInv

\* A goroutine is alone with what it goes on handling.
LEMMA StillAlone ==
  ASSUME SiAlone, siRaced' = siRaced,
         \A t \in SiThreads : Handled(t)' \subseteq Handled(t)
  PROVE  SiAlone'
<1> SUFFICES ASSUME NEW t \in SiThreads, NEW u \in SiThreads, NEW o \in SiObjects \ siRaced,
                    o \in Handled(t)', o \in Handled(u)'
             PROVE  t = u
  BY DEF SiAlone
<1> QED
  BY DEF SiAlone

\* A goroutine that receives something is alone with it, or it is in siRaced.
LEMMA ReceiveAlone ==
  ASSUME SiInv, NEW t \in SiThreads, NEW objects, Receive(t, objects),
         Handled(t)' \subseteq objects,
         \A u \in SiThreads \ {t} : Handled(u)' = Handled(u)
  PROVE  /\ SiAlone' /\ siRaced \subseteq siRaced'
         /\ \A u \in SiThreads \ {t} : \A o \in objects : o \in Handled(u) => o \in siRaced'
<1>1. siRaced' = siRaced \cup (objects \cap UNION {Handled(u) : u \in SiThreads})
  BY DEF Receive
<1>2. ASSUME NEW u \in SiThreads, NEW o \in objects, o \in Handled(u)
      PROVE  o \in siRaced'
  BY <1>1, <1>2
<1>3. ASSUME NEW r \in SiThreads, NEW u \in SiThreads, NEW o \in SiObjects \ siRaced',
             o \in Handled(r)', o \in Handled(u)'
      PROVE  r = u
  <2>1. CASE r = t /\ u # t
    BY <1>2, <1>3, <2>1
  <2>2. CASE r # t /\ u = t
    BY <1>2, <1>3, <2>2
  <2>3. CASE r # t /\ u # t
    BY <1>1, <1>3, <2>3 DEF SiInv, SiAlone
  <2> QED
    BY <2>1, <2>2, <2>3
<1>4. SiAlone'
  BY <1>3 DEF SiAlone
<1> QED
  BY <1>1, <1>2, <1>4

\* Ids do not change.
LEMMA SameIds ==
  ASSUME SiIds, UNCHANGED <<siSituations, siSaved, siNextId>>, siRaced \subseteq siRaced'
  PROVE  SiIds'
<1>1. SiAll' = SiAll
  BY DEF SiAll
<1>2. SiIdsOK(SiAll)'
  BY <1>1 DEF SiIds, SiIdsOK
<1> QED
  BY <1>2 DEF SiIds, OneOfEachId

\* A notification is received.
LEMMA NotifySituations ==
  ASSUME SiInv, NEW t \in SiThreads, NEW n \in SiNotifications, Notify(t, n)
  PROVE  SiInv'
<1>1. /\ UNCHANGED <<siSituations, siNextId, siEvents, siLeft, siSaved, siTold, siDropped>>
      /\ siPc[t] = "idle" /\ siPc' = [siPc EXCEPT ![t] = "delivery"]
      /\ siTodo' = [siTodo EXCEPT ![t] = n] /\ n \in Seq(SiDelivery)
      /\ Receive(t, ObjectsOf(n))
  BY SiAssumption DEF Notify, Receive
<1>2. SiTypes /\ \A u \in SiThreads : SiHandlerOK(u)
  BY DEF SiInv
<1>3. SiTypes'
  BY <1>1, <1>2 DEF SiTypes
<1>4. \A u \in SiThreads \ {t} : siPc'[u] = siPc[u] /\ siTodo'[u] = siTodo[u]
  BY <1>1, <1>2 DEF SiTypes
<1>5. siPc'[t] = "delivery" /\ siTodo'[t] = n
  BY <1>1, <1>2 DEF SiTypes
<1>6. \A u \in SiThreads : SiHandlerOK(u)'
  BY <1>1, <1>2, <1>4, <1>5 DEF SiHandlerOK
<1>7. SiAlone' /\ siRaced \subseteq siRaced'
  <2>1. siEvents[t] = <<>>
    BY <1>1, <1>2 DEF SiHandlerOK
  <2>2. Handled(t)' \subseteq ObjectsOf(n)
    BY <1>1, <1>5, <2>1, EmptyTells DEF Handled
  <2>3. \A u \in SiThreads \ {t} : Handled(u)' = Handled(u)
    BY <1>1, <1>4 DEF Handled
  <2> QED
    BY <1>1, <2>2, <2>3, ReceiveAlone
<1>8. SiIds'
  BY <1>1, <1>7, SameIds DEF SiInv
<1>9. SiTellsLast' /\ SiFollowed'
  BY <1>1, <1>7 DEF SiInv, SiTellsLast, SiFollowed, SiToApply, SiToCommit, SiApplied
<1> QED
  BY <1>3, <1>6, <1>7, <1>8, <1>9 DEF SiInv

\* An answer is received: its events are all left to apply.
LEMMA AnswerSituations ==
  ASSUME SiInv, NEW t \in SiThreads, NEW messages \in SiAnswers, Answer(t, messages)
  PROVE  SiInv'
<1>1. /\ UNCHANGED <<siSituations, siNextId, siTodo, siSaved, siDropped>>
      /\ siPc[t] = "idle" /\ siPc' = [siPc EXCEPT ![t] = "update"]
      /\ siEvents' = [siEvents EXCEPT ![t] = messages]
      /\ siLeft' = [siLeft EXCEPT ![t] = messages] /\ messages \in Seq(SiMessage)
      /\ siTold' = [o \in SiObjects |-> IF o \in Objects(messages)
                                        THEN Latest(messages, o) ELSE siTold[o]]
      /\ Receive(t, Objects(messages))
  BY SiAssumption DEF Answer, Receive
<1>2. SiTypes /\ \A u \in SiThreads : SiHandlerOK(u)
  BY DEF SiInv
<1>3. SiTypes'
  <2>1. siTold' \in [SiObjects -> SiTimes \cup {SiNone}]
    BY <1>1, <1>2, LatestType DEF SiTypes
  <2> QED
    BY <1>1, <1>2, <2>1 DEF SiTypes
<1>4. \A u \in SiThreads \ {t} :
        siPc'[u] = siPc[u] /\ siEvents'[u] = siEvents[u] /\ siLeft'[u] = siLeft[u]
  BY <1>1, <1>2 DEF SiTypes
<1>5. siPc'[t] = "update" /\ siEvents'[t] = messages /\ siLeft'[t] = messages
  BY <1>1, <1>2 DEF SiTypes
<1>6. siTodo[t] = <<>> /\ siSaved[t] = {} /\ siLeft[t] = <<>>
  BY <1>1, <1>2 DEF SiHandlerOK
<1>7. ASSUME NEW u \in SiThreads PROVE SiHandlerOK(u)'
  <2>1. CASE u = t
    BY <1>1, <1>5, <1>6, <2>1 DEF SiHandlerOK
  <2>2. CASE u # t
    BY <1>1, <1>2, <1>4, <2>2 DEF SiHandlerOK
  <2> QED
    BY <2>1, <2>2
<1>8. /\ SiAlone' /\ siRaced \subseteq siRaced'
      /\ \A u \in SiThreads \ {t} : \A o \in Objects(messages) : o \in Handled(u) => o \in siRaced'
  <2>1. Handled(t)' \subseteq Objects(messages)
    BY <1>1, <1>5, <1>6, NothingTold DEF Handled
  <2>2. \A u \in SiThreads \ {t} : Handled(u)' = Handled(u)
    BY <1>1, <1>4 DEF Handled
  <2> QED
    BY <1>1, <2>1, <2>2, ReceiveAlone
<1>9. SiIds'
  BY <1>1, <1>8, SameIds DEF SiInv
<1>10. Objects(messages) \subseteq SiObjects /\ \A u \in SiThreads : Objects(siEvents[u]) \subseteq SiObjects
  BY <1>1, <1>2, LatestType DEF SiTypes
<1>11. SiTellsLast'
  <2> SUFFICES ASSUME NEW u \in SiThreads, NEW o \in Objects(siEvents'[u]) \ siRaced'
               PROVE  siTold'[o] = Latest(siEvents'[u], o) \/ (siTold'[o] = SiNone /\ o \in siDropped)
    BY <1>1 DEF SiTellsLast
  <2>1. CASE u = t
    BY <1>1, <1>5, <1>10, <2>1
  <2>2. CASE u # t
    <3>1. o \in Handled(u) /\ o \in SiObjects
      BY <1>4, <1>10, <2>2 DEF Handled
    <3>2. siTold'[o] = siTold[o]
      BY <1>1, <1>8, <2>2, <3>1
    <3> QED
      BY <1>4, <1>8, <2>2, <3>2 DEF SiInv, SiTellsLast
  <2> QED
    BY <2>1, <2>2
<1>12. SiFollowed'
  <2> SUFFICES ASSUME NEW o \in SiObjects \ (siDropped \cup siRaced')
               PROVE  SiToApply(o)' \/ SiToCommit(o)' \/ SiApplied(o)'
    BY <1>1 DEF SiFollowed
  <2>1. CASE o \in Objects(messages)
    BY <1>5, <2>1 DEF SiToApply
  <2>2. CASE o \notin Objects(messages)
    <3>1. siTold'[o] = siTold[o]
      BY <1>1, <2>2
    <3>2. SiToApply(o) => SiToApply(o)'
      BY <1>4, <1>6, EmptyTells DEF SiToApply
    <3>3. SiToCommit(o)' = SiToCommit(o) /\ SiApplied(o)' = SiApplied(o)
      BY <1>1, <3>1 DEF SiToCommit, SiApplied
    <3> QED
      BY <1>8, <3>2, <3>3 DEF SiInv, SiFollowed
  <2> QED
    BY <2>1, <2>2
<1> QED
  BY <1>3, <1>7, <1>8, <1>9, <1>11, <1>12 DEF SiInv

\* A delivery is skipped, or the notification ends.
LEMMA EndSituations ==
  ASSUME SiInv, NEW t \in SiThreads, SkipDelivery(t) \/ SiEnd(t)
  PROVE  SiInv'
<1>1. SiTypes /\ \A u \in SiThreads : SiHandlerOK(u)
  BY DEF SiInv
<1>2. /\ UNCHANGED <<siSituations, siNextId, siLeft, siSaved, siTold, siDropped, siRaced>>
      /\ siPc[t] = "delivery"
      /\ \/ /\ siTodo[t] # <<>> /\ siTodo' = [siTodo EXCEPT ![t] = Tail(@)]
            /\ siPc' = siPc /\ siEvents' = siEvents
         \/ /\ siTodo[t] = <<>> /\ siTodo' = siTodo
            /\ siPc' = [siPc EXCEPT ![t] = "idle"]
            /\ siEvents' = [siEvents EXCEPT ![t] = <<>>]
  BY DEF SkipDelivery, SiEnd
<1>3. \A u \in SiThreads \ {t} :
        siPc'[u] = siPc[u] /\ siTodo'[u] = siTodo[u] /\ siEvents'[u] = siEvents[u]
  BY <1>1, <1>2 DEF SiTypes
<1>4. siLeft[t] = <<>> /\ siSaved[t] = {}
  BY <1>1, <1>2 DEF SiHandlerOK
<1>5. \/ /\ siPc'[t] = "delivery" /\ siEvents'[t] = siEvents[t] /\ siTodo[t] # <<>>
         /\ siTodo'[t] = Tail(siTodo[t])
      \/ siPc'[t] = "idle" /\ siEvents'[t] = <<>> /\ siTodo'[t] = <<>>
  BY <1>1, <1>2 DEF SiTypes
<1>6. siTodo[t] # <<>> => /\ Tail(siTodo[t]) \in Seq(SiDelivery)
                          /\ ObjectsOf(Tail(siTodo[t])) \subseteq ObjectsOf(siTodo[t])
  BY <1>1, TodoTells DEF SiTypes
<1>7. SiTypes'
  <2>1. siTodo' \in [SiThreads -> Seq(SiDelivery)]
    <3>1. siTodo \in [SiThreads -> Seq(SiDelivery)]
      BY <1>1 DEF SiTypes
    <3> QED
      BY <1>2, <1>6, <3>1
  <2>2. siEvents' \in [SiThreads -> Seq(SiMessage)]
    <3>1. siEvents \in [SiThreads -> Seq(SiMessage)] /\ <<>> \in Seq(SiMessage)
      BY <1>1 DEF SiTypes
    <3> QED
      BY <1>2, <3>1
  <2>3. siPc' \in [SiThreads -> {"idle", "delivery", "update"}]
    BY <1>1, <1>2 DEF SiTypes
  <2> QED
    BY <1>1, <1>2, <2>1, <2>2, <2>3 DEF SiTypes
<1>8. ASSUME NEW u \in SiThreads PROVE SiHandlerOK(u)'
  <2>1. CASE u = t
    BY <1>2, <1>4, <1>5, <2>1, EmptyTells DEF SiHandlerOK
  <2>2. CASE u # t
    BY <1>1, <1>2, <1>3, <2>2 DEF SiHandlerOK
  <2> QED
    BY <2>1, <2>2
<1>9. \A u \in SiThreads : Handled(u)' \subseteq Handled(u) /\ Objects(siEvents'[u]) \subseteq Objects(siEvents[u])
  <2>1. Handled(t)' \subseteq Handled(t) /\ Objects(siEvents'[t]) \subseteq Objects(siEvents[t])
    BY <1>5, <1>6, EmptyTells, NothingTold DEF Handled
  <2> QED
    BY <1>3, <2>1 DEF Handled
<1>10. SiAlone'
  BY <1>2, <1>9, StillAlone DEF SiInv
<1>11. SiIds'
  BY <1>2, SameIds DEF SiInv
<1>12. SiTellsLast'
  <2> SUFFICES ASSUME NEW u \in SiThreads, NEW o \in Objects(siEvents'[u]) \ siRaced
               PROVE  siTold[o] = Latest(siEvents'[u], o) \/ (siTold[o] = SiNone /\ o \in siDropped)
    BY <1>2 DEF SiTellsLast
  <2>1. siEvents'[u] = siEvents[u]
    BY <1>3, <1>5, EmptyTells
  <2> QED
    BY <2>1 DEF SiInv, SiTellsLast
<1>13. SiFollowed'
  BY <1>2 DEF SiInv, SiFollowed, SiToApply, SiToCommit, SiApplied
<1> QED
  BY <1>7, <1>8, <1>10, <1>11, <1>12, <1>13 DEF SiInv

\* A delivery: the situations it cancels are deleted, and its messages, behind
\* those of the deliveries before it, are left to apply.
LEMMA HandleSituations ==
  ASSUME SiInv, NEW t \in SiThreads, NEW deleted \in SUBSET siSituations,
         HandleDelivery(t, deleted)
  PROVE  SiInv'
<1> DEFINE d == Head(siTodo[t])
           m == d.messages
           before == siEvents[t]
<1>1. SiTypes /\ \A u \in SiThreads : SiHandlerOK(u)
  BY DEF SiInv
<1>2. /\ siPc[t] = "delivery" /\ siTodo[t] # <<>>
      /\ UNCHANGED <<siNextId, siSaved, siRaced>>
      /\ CancelGeneralMessage(d.cancels, deleted)
      /\ siPc' = [siPc EXCEPT ![t] = "update"]
      /\ siTodo' = [siTodo EXCEPT ![t] = Tail(siTodo[t])]
      /\ siEvents' = [siEvents EXCEPT ![t] = before \o m]
      /\ siLeft' = [siLeft EXCEPT ![t] = before \o m]
      /\ siTold' = [o \in SiObjects |-> IF o \in Objects(m) THEN Latest(m, o)
                                        ELSE IF o \in d.cancels THEN SiNone ELSE siTold[o]]
      /\ siDropped' = siDropped \cup ((d.cancels \cap Objects(before)) \ Objects(m))
  BY DEF HandleDelivery
<1>3. /\ d.cancels \subseteq SiObjects /\ m \in Seq(SiMessage) /\ before \in Seq(SiMessage)
      /\ Tail(siTodo[t]) \in Seq(SiDelivery)
      /\ ObjectsOf(Tail(siTodo[t])) \subseteq ObjectsOf(siTodo[t])
      /\ d.cancels \cup Objects(m) \subseteq Handled(t)
      /\ Objects(before) \subseteq Handled(t)
  BY <1>1, <1>2, TodoTells DEF SiTypes, Handled
<1> HIDE DEF d, m, before
<1>4. /\ before \o m \in Seq(SiMessage)
      /\ Objects(before \o m) = Objects(before) \cup Objects(m)
      /\ \A o \in Objects(m) : Latest(before \o m, o) = Latest(m, o)
      /\ \A o \in Objects(before) \ Objects(m) : Latest(before \o m, o) = Latest(before, o)
  BY <1>3, ConcatTells
<1>5. /\ Objects(m) \subseteq SiObjects /\ Objects(before) \subseteq SiObjects
      /\ \A o \in Objects(m) : Latest(m, o) \in SiTimes
  BY <1>3, LatestType
<1>6. \A u \in SiThreads \ {t} : /\ siPc'[u] = siPc[u] /\ siTodo'[u] = siTodo[u]
                                 /\ siEvents'[u] = siEvents[u] /\ siLeft'[u] = siLeft[u]
  BY <1>1, <1>2 DEF SiTypes
<1>7. /\ siPc'[t] = "update" /\ siTodo'[t] = Tail(siTodo[t])
      /\ siEvents'[t] = before \o m /\ siLeft'[t] = before \o m
  BY <1>1, <1>2 DEF SiTypes
<1>8. siSaved[t] = {} /\ siLeft[t] = <<>>
  BY <1>1, <1>2 DEF SiHandlerOK
<1>9. /\ siSituations' = siSituations \ deleted
      /\ deleted \subseteq {x \in siSituations : x.obj \in d.cancels}
      /\ \A o \in d.cancels : FindByObjectId(siSituations, o) # {} =>
           \E x \in FindByObjectId(siSituations, o) : deleted \cap FindByObjectId(siSituations, o) = {x}
  BY <1>2 DEF CancelGeneralMessage
<1>10. SiTypes'
  <2>1. siTold' \in [SiObjects -> SiTimes \cup {SiNone}]
    BY <1>1, <1>2, <1>5 DEF SiTypes
  <2>2. /\ siEvents' \in [SiThreads -> Seq(SiMessage)]
        /\ siLeft' \in [SiThreads -> Seq(SiMessage)]
    <3>1. /\ siEvents \in [SiThreads -> Seq(SiMessage)]
          /\ siLeft \in [SiThreads -> Seq(SiMessage)]
      BY <1>1 DEF SiTypes
    <3> QED
      BY <1>2, <1>4, <3>1
  <2>3. siTodo' \in [SiThreads -> Seq(SiDelivery)]
    <3>1. siTodo \in [SiThreads -> Seq(SiDelivery)]
      BY <1>1 DEF SiTypes
    <3> QED
      BY <1>2, <1>3, <3>1
  <2>4. siPc' \in [SiThreads -> {"idle", "delivery", "update"}]
    BY <1>1, <1>2 DEF SiTypes
  <2> QED
    BY <1>1, <1>2, <1>9, <2>1, <2>2, <2>3, <2>4 DEF SiTypes
<1>11. ASSUME NEW u \in SiThreads PROVE SiHandlerOK(u)'
  <2>1. CASE u = t
    BY <1>2, <1>7, <1>8, <2>1 DEF SiHandlerOK
  <2>2. CASE u # t
    BY <1>1, <1>2, <1>6, <2>2 DEF SiHandlerOK
  <2> QED
    BY <2>1, <2>2
<1>12. \A u \in SiThreads : Handled(u)' \subseteq Handled(u)
  <2>1. Handled(t)' \subseteq Handled(t)
    BY <1>3, <1>4, <1>7 DEF Handled
  <2> QED
    BY <1>6, <2>1 DEF Handled
<1>13. SiAlone'
  BY <1>2, <1>12, StillAlone DEF SiInv
<1>14. SiIds'
  <2>1. SiAll' \subseteq SiAll /\ siSituations' \subseteq siSituations
    BY <1>2, <1>9 DEF SiAll
  <2>2. SiIdsOK(SiAll)'
    BY <1>2, <2>1 DEF SiInv, SiIds, SiIdsOK
  <2> QED
    BY <1>2, <2>1, <2>2 DEF SiInv, SiIds, OneOfEachId
\* other goroutines handle nothing that this one tells or cancels
<1>15. ASSUME NEW u \in SiThreads \ {t}, NEW o \in SiObjects \ siRaced, o \in Handled(u)
       PROVE  o \notin Objects(m) /\ o \notin d.cancels /\ siTold'[o] = siTold[o]
  BY <1>2, <1>3, <1>15 DEF SiInv, SiAlone
<1>16. SiTellsLast'
  <2> SUFFICES ASSUME NEW u \in SiThreads, NEW o \in Objects(siEvents'[u]) \ siRaced
               PROVE  siTold'[o] = Latest(siEvents'[u], o) \/ (siTold'[o] = SiNone /\ o \in siDropped')
    BY <1>2 DEF SiTellsLast
  <2>1. CASE u # t
    <3>1. o \in SiObjects /\ o \in Handled(u)
      BY <1>1, <1>6, <2>1, LatestType DEF Handled, SiTypes
    <3>2. siTold'[o] = siTold[o]
      BY <1>15, <2>1, <3>1
    <3> QED
      BY <1>2, <1>6, <2>1, <3>2 DEF SiInv, SiTellsLast
  <2>2. CASE u = t /\ o \in Objects(m)
    BY <1>2, <1>4, <1>5, <1>7, <2>2
  <2>3. CASE u = t /\ o \notin Objects(m)
    <3>1. o \in Objects(before) /\ o \in SiObjects
      BY <1>4, <1>5, <1>7, <2>3
    <3>2. CASE o \in d.cancels
      BY <1>2, <2>3, <3>1, <3>2
    <3>3. CASE o \notin d.cancels
      <4>1. siTold'[o] = siTold[o]
        BY <1>2, <2>3, <3>1, <3>3
      <4>2. siTold[o] = Latest(before, o) \/ (siTold[o] = SiNone /\ o \in siDropped)
        BY <3>1 DEF SiInv, SiTellsLast, before
      <4> QED
        BY <1>2, <1>4, <1>7, <2>3, <3>1, <4>1, <4>2
    <3> QED
      BY <3>2, <3>3
  <2> QED
    BY <2>1, <2>2, <2>3
<1>17. SiFollowed'
  <2> SUFFICES ASSUME NEW o \in SiObjects \ (siDropped' \cup siRaced)
               PROVE  SiToApply(o)' \/ SiToCommit(o)' \/ SiApplied(o)'
    BY <1>2 DEF SiFollowed
  <2>1. CASE o \in Objects(before) \cup Objects(m)
    BY <1>4, <1>7, <2>1 DEF SiToApply
  <2>2. CASE o \notin Objects(before) \cup Objects(m) /\ o \in d.cancels
    <3>1. siTold'[o] = SiNone
      BY <1>2, <2>2
    <3>2. ASSUME NEW u \in SiThreads, NEW y \in siSaved[u], y.obj = o PROVE FALSE
      <4>1. u # t
        BY <1>8, <3>2
      <4>2. o \in Handled(u)
        BY <1>1, <3>2 DEF SiHandlerOK, Handled
      <4> QED
        BY <1>15, <2>2, <4>1, <4>2
    <3>3. ASSUME NEW x \in siSituations', x.obj = o PROVE FALSE
      <4>1. x \in FindByObjectId(siSituations, o) /\ x \notin deleted
        BY <1>9, <3>3 DEF FindByObjectId
      <4>2. PICK y \in FindByObjectId(siSituations, o) :
              deleted \cap FindByObjectId(siSituations, o) = {y}
        BY <1>9, <2>2, <4>1
      <4>3. y \in siSituations /\ y.obj = o /\ y \in deleted
        BY <4>2 DEF FindByObjectId
      <4>4. x \in SiAll /\ y \in SiAll /\ x \in siSituations
        BY <1>9, <4>3 DEF SiAll
      <4>5. x.id = y.id
        BY <1>2, <3>3, <4>3, <4>4 DEF SiInv, SiIds, SiIdsOK
      <4> QED
        BY <4>1, <4>3, <4>4, <4>5 DEF SiInv, SiIds, OneOfEachId
    <3> QED
      BY <1>2, <3>1, <3>2, <3>3 DEF SiApplied
  <2>3. CASE o \notin Objects(before) \cup Objects(m) /\ o \notin d.cancels
    <3>1. siTold'[o] = siTold[o] /\ o \notin siDropped
      BY <1>2, <2>3
    <3>2. SiToApply(o) => SiToApply(o)'
      BY <1>6, <1>8, EmptyTells DEF SiToApply
    <3>3. SiToCommit(o) => SiToCommit(o)'
      BY <1>2, <3>1 DEF SiToCommit
    <3>4. \A x \in siSituations : x.obj = o => x \in siSituations'
      BY <1>9, <2>3
    <3>5. SiApplied(o) => SiApplied(o)'
      BY <1>2, <1>9, <3>1, <3>4 DEF SiApplied
    <3> QED
      BY <1>2, <3>1, <3>2, <3>3, <3>5 DEF SiInv, SiFollowed
  <2> QED
    BY <2>1, <2>2, <2>3
<1> QED
  BY <1>10, <1>11, <1>13, <1>14, <1>16, <1>17 DEF SiInv

\* The commit of the transaction of an Update.
LEMMA CommitSituations ==
  ASSUME SiInv, NEW t \in SiThreads, SiCommit(t)
  PROVE  SiInv'
<1>1. SiTypes /\ \A u \in SiThreads : SiHandlerOK(u)
  BY DEF SiInv
<1>2. /\ UNCHANGED <<siNextId, siTodo, siEvents, siLeft, siTold, siRaced>>
      /\ siPc[t] = "update" /\ siLeft[t] = <<>>
      /\ siSituations' = {x \in siSituations : \A y \in siSaved[t] : y.id # x.id} \cup siSaved[t]
      /\ siDropped' = {o \in siDropped :
           \A y \in siSaved[t] : y.obj = o => y.rec # siTold[o]}
      /\ siSaved' = [siSaved EXCEPT ![t] = {}] /\ siPc' = [siPc EXCEPT ![t] = "delivery"]
  BY DEF SiCommit
<1>3. /\ siSaved'[t] = {} /\ siPc'[t] = "delivery"
      /\ \A u \in SiThreads \ {t} : siSaved'[u] = siSaved[u] /\ siPc'[u] = siPc[u]
  BY <1>1, <1>2 DEF SiTypes
<1>4. SiTypes'
  BY <1>1, <1>2 DEF SiTypes
<1>5. \A u \in SiThreads : SiHandlerOK(u)'
  BY <1>1, <1>2, <1>3 DEF SiHandlerOK
<1>6. SiAlone'
  <2>1. \A u \in SiThreads : Handled(u)' = Handled(u)
    BY <1>2 DEF Handled
  <2> QED
    BY <1>2, <2>1, StillAlone DEF SiInv
<1>7. SiIds'
  <2>1. SiAll' \subseteq SiAll
    BY <1>2, <1>3 DEF SiAll
  <2>2. SiIdsOK(SiAll)'
    BY <1>2, <2>1 DEF SiInv, SiIds, SiIdsOK
  <2>3. OneOfEachId(siSituations)'
    BY <1>2 DEF SiInv, SiIds, OneOfEachId
  <2>4. \A u \in SiThreads : OneOfEachId(siSaved'[u])
    BY <1>3 DEF SiInv, SiIds, OneOfEachId
  <2> QED
    BY <2>2, <2>3, <2>4 DEF SiIds, OneOfEachId
<1>8. \A u \in SiThreads : \A y \in siSaved[u] : y.rec \in SiTimes /\ y.rec # SiNone /\ y \in SiAll
  BY <1>1, SiAssumption DEF SiTypes, SiSituation, SiAll
<1>9. SiTellsLast'
  <2>1. \A o \in siDropped : siTold[o] = SiNone => o \in siDropped'
    BY <1>2, <1>8
  <2> QED
    BY <1>2, <2>1 DEF SiInv, SiTellsLast
<1>10. ASSUME NEW o \in SiObjects \ siRaced, NEW y \in siSaved[t], y.obj = o, y.rec = siTold[o]
       PROVE  SiApplied(o)'
  <2>1. ASSUME NEW u \in SiThreads, NEW z \in siSaved'[u], z.obj = o PROVE FALSE
    <3>1. u # t /\ z \in siSaved[u]
      BY <1>3, <2>1
    <3>2. o \in Handled(t) /\ o \in Handled(u)
      BY <1>1, <1>10, <2>1, <3>1 DEF SiHandlerOK, Handled
    <3> QED
      BY <3>1, <3>2 DEF SiInv, SiAlone
  <2>2. y \in siSituations' /\ siTold'[o] # SiNone
    BY <1>2, <1>8, <1>10
  <2> QED
    BY <1>2, <1>10, <2>1, <2>2 DEF SiApplied
<1>11. ASSUME NEW o \in SiObjects \ (siDropped \cup siRaced), \A y \in siSaved[t] : y.obj # o
       PROVE  SiToApply(o)' \/ SiToCommit(o)' \/ SiApplied(o)'
  <2>1. SiToApply(o) => SiToApply(o)'
    BY <1>2 DEF SiToApply
  <2>2. SiToCommit(o) => SiToCommit(o)'
    BY <1>2, <1>3, <1>11 DEF SiToCommit
  <2>3. ASSUME NEW x \in siSituations, x.obj = o PROVE x \in siSituations'
    <3>1. x \in SiAll
      BY DEF SiAll
    <3>2. \A y \in siSaved[t] : y.id # x.id
      BY <1>8, <1>11, <2>3, <3>1 DEF SiInv, SiIds, SiIdsOK
    <3> QED
      BY <1>2, <3>2
  <2>4. \A x \in siSituations' : x.obj = o => x \in siSituations
    BY <1>2, <1>11
  <2>5. \A u \in SiThreads : \A y \in siSaved'[u] : y \in siSaved[u]
    BY <1>3
  <2>6. SiApplied(o) => SiApplied(o)'
    BY <1>2, <2>3, <2>4, <2>5 DEF SiApplied
  <2> QED
    BY <2>1, <2>2, <2>6 DEF SiInv, SiFollowed
<1>12. SiFollowed'
  <2> SUFFICES ASSUME NEW o \in SiObjects \ (siDropped' \cup siRaced)
               PROVE  SiToApply(o)' \/ SiToCommit(o)' \/ SiApplied(o)'
    BY <1>2 DEF SiFollowed
  <2>1. CASE o \in siDropped
    BY <1>2, <1>10, <2>1
  <2>2. CASE o \notin siDropped /\ \A y \in siSaved[t] : y.obj # o
    BY <1>11, <2>2
  <2>3. CASE o \notin siDropped /\ \E y \in siSaved[t] : y.obj = o
    <3>1. CASE SiToApply(o)
      BY <1>2, <3>1 DEF SiToApply
    <3>2. CASE SiToCommit(o)
      <4>1. PICK u \in SiThreads : \E y \in siSaved[u] : y.obj = o /\ y.rec = siTold[o]
        BY <3>2 DEF SiToCommit
      <4>2. CASE u = t
        BY <1>10, <4>1, <4>2
      <4>3. CASE u # t
        BY <1>2, <1>3, <4>1, <4>3 DEF SiToCommit
      <4> QED
        BY <4>2, <4>3
    <3>3. ~SiApplied(o)
      BY <2>3 DEF SiApplied
    <3> QED
      BY <2>3, <3>1, <3>2, <3>3 DEF SiInv, SiFollowed
  <2> QED
    BY <2>1, <2>2, <2>3
<1> QED
  BY <1>4, <1>5, <1>6, <1>7, <1>9, <1>12 DEF SiInv

\* A situation that is saved has the id of those it replaces, or one of its own.
LEMMA SavedIds ==
  ASSUME SiInv, NEW t \in SiThreads, NEW z \in SiSituation, SavedIn(t, z),
         siSituations' = siSituations, siRaced' = siRaced,
         siNextId' \in Nat \ {0}, siNextId <= siNextId', z.id < siNextId',
         \A y \in SiAll : y.id = z.id => y.obj = z.obj,
         \A y \in SiAll : y.obj = z.obj /\ z.obj \notin siRaced => y.id = z.id
  PROVE  /\ SiIds' /\ siSaved' \in [SiThreads -> SUBSET SiSituation]
         /\ siSaved'[t] = {y \in siSaved[t] : y.id # z.id} \cup {z}
         /\ \A u \in SiThreads \ {t} : siSaved'[u] = siSaved[u]
<1>1. /\ SiTypes /\ SiIds /\ siSaved \in [SiThreads -> SUBSET SiSituation]
      /\ siNextId \in Nat \ {0}
  BY DEF SiInv, SiTypes
<1>2. /\ siSaved' \in [SiThreads -> SUBSET SiSituation]
      /\ siSaved'[t] = {y \in siSaved[t] : y.id # z.id} \cup {z}
      /\ \A u \in SiThreads \ {t} : siSaved'[u] = siSaved[u]
  BY <1>1 DEF SavedIn
<1>3. \A y \in SiAll' : y = z \/ y \in SiAll
  <2>1. SiAll' = siSituations \cup UNION {siSaved'[u] : u \in SiThreads}
    BY DEF SiAll
  <2> QED
    BY <1>2, <2>1 DEF SiAll
<1>4. \A y \in SiAll : y.id \in Nat /\ y.id < siNextId'
  <2>1. \A y \in SiAll : y \in SiSituation
    BY <1>1 DEF SiTypes, SiAll
  <2>2. \A y \in SiAll : y.id \in Nat
    BY <2>1, SiAssumption DEF SiSituation
  <2> QED
    BY <1>1, <2>2 DEF SiIds, SiIdsOK
<1>5. SiIdsOK(SiAll)'
  <2>1. \A y \in SiAll' : y.id < siNextId'
    BY <1>3, <1>4
  <2>2. \A y, w \in SiAll' : y.id = w.id => y.obj = w.obj
    BY <1>1, <1>3 DEF SiIds, SiIdsOK
  <2>3. \A y, w \in SiAll' : y.obj = w.obj /\ y.obj \notin siRaced => y.id = w.id
    BY <1>1, <1>3 DEF SiIds, SiIdsOK
  <2> QED
    BY <2>1, <2>2, <2>3 DEF SiIdsOK
<1>6. OneOfEachId(siSituations)'
  BY <1>1 DEF SiIds, OneOfEachId
<1>7. ASSUME NEW u \in SiThreads PROVE OneOfEachId(siSaved'[u])
  <2>1. OneOfEachId(siSaved[u])
    BY <1>1 DEF SiIds
  <2>2. CASE u = t
    BY <1>2, <2>1, <2>2 DEF OneOfEachId
  <2>3. CASE u # t
    BY <1>2, <2>1, <2>3
  <2> QED
    BY <2>2, <2>3
<1>8. SiIds'
  BY <1>5, <1>6, <1>7 DEF SiIds, OneOfEachId
<1> QED
  BY <1>2, <1>8

\* What an event of an Update does: nothing, without a content; an unchanged
\* situation drops those behind; else it is saved, and those behind are left.
UpdateDoes(t) ==
  LET e == Head(siLeft[t]) IN
  /\ siTold' = siTold /\ siRaced' = siRaced /\ siPc' = siPc /\ siTodo' = siTodo
  /\ siEvents' = siEvents /\ siSituations' = siSituations
  /\ siPc[t] = "update" /\ siLeft[t] # <<>>
  /\ \A u \in SiThreads \ {t} : siLeft'[u] = siLeft[u] /\ siSaved'[u] = siSaved[u]
  /\ \/ /\ ~e.content /\ siLeft'[t] = Tail(siLeft[t])
        /\ siSaved' = siSaved /\ siDropped' = siDropped
     \/ /\ e.content /\ \E x \in TxFound(t, e.obj) : x.rec = e.rec
        /\ siLeft'[t] = <<>> /\ siSaved' = siSaved
        /\ siDropped' = siDropped \cup Objects(Tail(siLeft[t]))
     \/ /\ e.content /\ siLeft'[t] = Tail(siLeft[t]) /\ siDropped' = siDropped
        /\ \E z \in SiSituation :
             /\ z.obj = e.obj /\ z.rec = e.rec
             /\ siSaved'[t] = {y \in siSaved[t] : y.id # z.id} \cup {z}
             /\ \A y \in siSaved[t] : y.id = z.id => y.obj = z.obj

\* It does, and ids stay ids.
LEMMA UpdateEffect ==
  ASSUME SiInv, NEW t \in SiThreads, UpdateEvent(t)
  PROVE  UpdateDoes(t) /\ SiTypes' /\ SiIds'
<1> DEFINE l == siLeft[t]
           e == Head(l)
<1>1. /\ SiTypes /\ SiIds /\ \A u \in SiThreads : SiHandlerOK(u)
      /\ siLeft \in [SiThreads -> Seq(SiMessage)]
      /\ siSaved \in [SiThreads -> SUBSET SiSituation] /\ siNextId \in Nat \ {0}
      /\ siSituations \subseteq SiSituation
  BY DEF SiInv, SiTypes
<1>2. /\ siTold' = siTold /\ siRaced' = siRaced /\ siPc' = siPc /\ siTodo' = siTodo
      /\ siEvents' = siEvents /\ siSituations' = siSituations
      /\ siPc[t] = "update" /\ l # <<>>
  BY DEF UpdateEvent
<1>3. l \in Seq(SiMessage) /\ e \in SiMessage /\ Tail(l) \in Seq(SiMessage)
  BY <1>1, <1>2, TailTells
<1>4. e.obj \in SiObjects /\ e.rec \in SiTimes
  BY <1>3 DEF SiMessage
<1>5. \A o : \A x \in TxFound(t, o) : x \in SiAll /\ x \in SiSituation /\ x.obj = o
  BY <1>1 DEF TxFound, FindByObjectId, SiAll
<1>6. \A s \in Seq(SiMessage) : siLeft' = [siLeft EXCEPT ![t] = s] =>
        /\ siLeft' \in [SiThreads -> Seq(SiMessage)] /\ siLeft'[t] = s
        /\ \A u \in SiThreads \ {t} : siLeft'[u] = siLeft[u]
  BY <1>1
<1>7. /\ siLeft' \in [SiThreads -> Seq(SiMessage)]
      /\ siSaved' \in [SiThreads -> SUBSET SiSituation] /\ siNextId' \in Nat \ {0}
      => SiTypes'
  BY <1>1, <1>2 DEF SiTypes
<1>8. CASE ~e.content /\ siLeft' = [siLeft EXCEPT ![t] = Tail(l)]
           /\ UNCHANGED <<siSaved, siNextId, siDropped>>
  <2>1. SiIds'
    BY <1>1, <1>2, <1>8, SameIds
  <2>2. UpdateDoes(t)
    BY <1>2, <1>3, <1>6, <1>8 DEF UpdateDoes
  <2> QED
    BY <1>1, <1>3, <1>6, <1>7, <1>8, <2>1, <2>2
<1>9. CASE /\ e.content /\ \E x \in TxFound(t, e.obj) : x.rec = e.rec
           /\ siLeft' = [siLeft EXCEPT ![t] = <<>>]
           /\ siDropped' = siDropped \cup Objects(Tail(l))
           /\ UNCHANGED <<siSaved, siNextId>>
  <2>1. SiIds'
    BY <1>1, <1>2, <1>9, SameIds
  <2>2. <<>> \in Seq(SiMessage)
    OBVIOUS
  <2>3. UpdateDoes(t)
    BY <1>2, <1>6, <1>9, <2>2 DEF UpdateDoes
  <2> QED
    BY <1>1, <1>6, <1>7, <1>9, <2>1, <2>2, <2>3
\* a situation that is found is saved with its RecordedAt
<1>10. ASSUME e.content, NEW x \in TxFound(t, e.obj), SavedIn(t, [x EXCEPT !.rec = e.rec]),
              siLeft' = [siLeft EXCEPT ![t] = Tail(l)], UNCHANGED <<siNextId, siDropped>>
       PROVE  UpdateDoes(t) /\ SiTypes' /\ SiIds'
  <2> DEFINE z == [x EXCEPT !.rec = e.rec]
  <2>1. z \in SiSituation /\ z.id = x.id /\ z.obj = x.obj /\ z.rec = e.rec /\ x.obj = e.obj
    BY <1>4, <1>5 DEF SiSituation
  <2> HIDE DEF z
  <2>2. /\ \A y \in SiAll : y.id = z.id => y.obj = z.obj
        /\ \A y \in SiAll : y.obj = z.obj /\ z.obj \notin siRaced => y.id = z.id
        /\ z.id < siNextId'
    BY <1>1, <1>5, <1>10, <2>1 DEF SiIds, SiIdsOK
  <2>3. SavedIn(t, z) /\ siNextId' \in Nat \ {0} /\ siNextId <= siNextId'
    BY <1>1, <1>10 DEF z
  <2>4. /\ SiIds' /\ siSaved' \in [SiThreads -> SUBSET SiSituation]
        /\ siSaved'[t] = {y \in siSaved[t] : y.id # z.id} \cup {z}
        /\ \A u \in SiThreads \ {t} : siSaved'[u] = siSaved[u]
    BY <1>2, <2>1, <2>2, <2>3, SavedIds
  <2>5. \A y \in siSaved[t] : y.id = z.id => y.obj = z.obj
    BY <2>2 DEF SiAll
  <2>6. UpdateDoes(t)
    <3>1. siLeft'[t] = Tail(l) /\ \A u \in SiThreads \ {t} : siLeft'[u] = siLeft[u]
      BY <1>3, <1>6, <1>10
    <3>2. z.obj = e.obj
      BY <2>1
    <3> QED
      BY <1>2, <1>10, <2>1, <2>4, <2>5, <3>1, <3>2 DEF UpdateDoes
  <2> QED
    BY <1>3, <1>6, <1>7, <1>10, <2>3, <2>4, <2>6
\* one that is not found is created with an id of its own
<1>11. ASSUME e.content, TxFound(t, e.obj) = {}, siNextId <= SiMaxIds,
              SavedIn(t, [id |-> siNextId, obj |-> e.obj, rec |-> e.rec]),
              siNextId' = siNextId + 1, siLeft' = [siLeft EXCEPT ![t] = Tail(l)],
              siDropped' = siDropped
       PROVE  UpdateDoes(t) /\ SiTypes' /\ SiIds'
  <2> DEFINE z == [id |-> siNextId, obj |-> e.obj, rec |-> e.rec]
  <2>1. siNextId \in 1..SiMaxIds
    BY <1>1, <1>11, SiAssumption DEF SiTypes
  <2>2. z \in SiSituation /\ z.id = siNextId /\ z.obj = e.obj /\ z.rec = e.rec
    BY <1>4, <2>1 DEF SiSituation
  <2> HIDE DEF z
  <2>3. \A y \in SiAll : y.id \in Nat /\ y.id < siNextId
    <3>1. \A y \in SiAll : y \in SiSituation
      BY <1>1 DEF SiAll
    <3>2. \A y \in SiAll : y.id \in Nat
      BY <3>1, SiAssumption DEF SiSituation
    <3> QED
      BY <1>1, <3>2 DEF SiIds, SiIdsOK
  <2>4. \A y \in SiAll : y.id # z.id
    BY <1>1, <2>2, <2>3
  <2>5. ASSUME NEW y \in SiAll, y.obj = z.obj PROVE z.obj \in siRaced
    <3>1. y \notin siSituations /\ y \notin siSaved[t]
      BY <1>11, <2>2, <2>5 DEF TxFound, FindByObjectId
    <3>2. PICK u \in SiThreads : y \in siSaved[u] /\ u # t
      BY <3>1 DEF SiAll
    <3>3. y.obj \in Handled(u)
      BY <1>1, <3>2 DEF SiHandlerOK, Handled
    <3>4. e.obj \in Handled(t)
      <4>1. e.obj \in Objects(l)
        BY <1>2, <1>3, <1>11, TailTells
      <4> QED
        BY <1>1, <4>1 DEF SiHandlerOK, Handled
    <3> QED
      BY <1>4, <2>2, <2>5, <3>2, <3>3, <3>4 DEF SiInv, SiAlone
  <2>6. SavedIn(t, z)
    BY <1>11 DEF z
  <2>7. siNextId' \in Nat \ {0} /\ siNextId <= siNextId' /\ z.id < siNextId'
    BY <1>1, <1>11, <2>2
  <2>8. /\ SiIds' /\ siSaved' \in [SiThreads -> SUBSET SiSituation]
        /\ siSaved'[t] = {y \in siSaved[t] : y.id # z.id} \cup {z}
        /\ \A u \in SiThreads \ {t} : siSaved'[u] = siSaved[u]
    BY <1>2, <2>2, <2>4, <2>5, <2>6, <2>7, SavedIds
  <2>9. \A y \in siSaved[t] : y.id = z.id => y.obj = z.obj
    BY <2>4 DEF SiAll
  <2>10. UpdateDoes(t)
    BY <1>2, <1>3, <1>6, <1>11, <2>2, <2>8, <2>9 DEF UpdateDoes
  <2> QED
    BY <1>3, <1>6, <1>7, <1>11, <2>7, <2>8, <2>10
<1> QED
  BY <1>8, <1>9, <1>10, <1>11 DEF UpdateEvent, UnchangedSituation

\* An event of an Update.
LEMMA UpdateSituations ==
  ASSUME SiInv, NEW t \in SiThreads, UpdateEvent(t)
  PROVE  SiInv'
<1> DEFINE l == siLeft[t]
           e == Head(l)
<1>1. /\ SiTypes /\ \A u \in SiThreads : SiHandlerOK(u)
      /\ siLeft \in [SiThreads -> Seq(SiMessage)]
      /\ siEvents \in [SiThreads -> Seq(SiMessage)]
      /\ siSaved \in [SiThreads -> SUBSET SiSituation]
  BY DEF SiInv, SiTypes
<1>2. UpdateDoes(t) /\ SiTypes' /\ SiIds'
  BY UpdateEffect
<1>3. /\ siTold' = siTold /\ siRaced' = siRaced /\ siPc' = siPc /\ siTodo' = siTodo
      /\ siEvents' = siEvents /\ siSituations' = siSituations
      /\ siPc[t] = "update" /\ l # <<>>
      /\ \A u \in SiThreads \ {t} : siLeft'[u] = siLeft[u] /\ siSaved'[u] = siSaved[u]
      /\ \/ /\ ~e.content /\ siLeft'[t] = Tail(l)
            /\ siSaved' = siSaved /\ siDropped' = siDropped
         \/ /\ e.content /\ \E x \in TxFound(t, e.obj) : x.rec = e.rec
            /\ siLeft'[t] = <<>> /\ siSaved' = siSaved
            /\ siDropped' = siDropped \cup Objects(Tail(l))
         \/ /\ e.content /\ siLeft'[t] = Tail(l) /\ siDropped' = siDropped
            /\ \E z \in SiSituation :
                 /\ z.obj = e.obj /\ z.rec = e.rec
                 /\ siSaved'[t] = {y \in siSaved[t] : y.id # z.id} \cup {z}
                 /\ \A y \in siSaved[t] : y.id = z.id => y.obj = z.obj
  BY <1>2 DEF UpdateDoes
<1>4. /\ l \in Seq(SiMessage) /\ e \in SiMessage /\ Tail(l) \in Seq(SiMessage)
      /\ Objects(Tail(l)) \subseteq Objects(l)
      /\ e.content => e.obj \in Objects(l)
      /\ \A o \in Objects(Tail(l)) : Latest(Tail(l), o) = Latest(l, o)
      /\ \A o \in Objects(l) \ Objects(Tail(l)) :
           e.content /\ e.obj = o /\ Latest(l, o) = e.rec
  BY <1>1, <1>3, TailTells
<1>5. \A o \in Objects(l) :
        o \in Objects(siEvents[t]) /\ Latest(l, o) = Latest(siEvents[t], o)
  BY <1>1 DEF SiHandlerOK
<1> HIDE DEF l, e
<1>6. siDropped \subseteq siDropped'
  BY <1>3
<1>7. siLeft'[t] = <<>> \/ siLeft'[t] = Tail(l)
  BY <1>3
<1>8. \A y \in siSaved'[t] : y \in siSaved[t] \/ (e.content /\ y.obj = e.obj)
  BY <1>3
<1>9. ASSUME NEW u \in SiThreads PROVE SiHandlerOK(u)'
  <2>1. CASE u = t
    <3>1. \A y \in siSaved'[t] : y.obj \in Objects(siEvents'[t])
      BY <1>1, <1>3, <1>4, <1>5, <1>8 DEF SiHandlerOK
    <3>2. \A o \in Objects(siLeft'[t]) : /\ o \in Objects(siEvents'[t])
                                         /\ Latest(siLeft'[t], o) = Latest(siEvents'[t], o)
      BY <1>3, <1>4, <1>5, <1>7, EmptyTells
    <3>3. siPc'[t] = "update"
      BY <1>3
    <3> QED
      BY <2>1, <3>1, <3>2, <3>3 DEF SiHandlerOK
  <2>2. CASE u # t
    BY <1>1, <1>3, <2>2 DEF SiHandlerOK
  <2> QED
    BY <2>1, <2>2
<1>10. SiAlone'
  <2>1. \A u \in SiThreads : Handled(u)' = Handled(u)
    BY <1>3 DEF Handled
  <2> QED
    BY <1>3, <2>1, StillAlone DEF SiInv
<1>11. SiTellsLast'
  BY <1>3, <1>6 DEF SiInv, SiTellsLast
\* what the first of those left tells last is applied by it
<1>12. ASSUME NEW o \in SiObjects \ (siDropped' \cup siRaced), o \in Objects(l)
       PROVE  SiToApply(o)' \/ SiToCommit(o)' \/ SiApplied(o)'
  <2>1. CASE o \in Objects(Tail(l))
    <3>1. siLeft'[t] = Tail(l)
      BY <1>3, <1>12, <2>1
    <3> QED
      BY <2>1, <3>1 DEF SiToApply
  <2>2. CASE o \notin Objects(Tail(l))
    <3>1. e.content /\ e.obj = o /\ Latest(l, o) = e.rec
      BY <1>4, <1>12, <2>2
    <3>2. siTold[o] = e.rec
      BY <1>5, <1>6, <1>12, <3>1 DEF SiInv, SiTellsLast
    <3>3. CASE \E z \in siSaved'[t] : z.obj = o /\ z.rec = e.rec
      BY <1>3, <3>2, <3>3 DEF SiToCommit
    <3>4. CASE \A z \in siSaved'[t] : ~(z.obj = o /\ z.rec = e.rec)
      <4>1. siSaved' = siSaved /\ \E x \in TxFound(t, o) : x.rec = e.rec
        BY <1>3, <3>1, <3>4
      <4>2. /\ \E x \in siSituations : x.obj = o /\ x.rec = e.rec
            /\ \A z \in siSaved[t] : z.obj # o
        BY <3>4, <4>1 DEF TxFound, FindByObjectId
      <4>3. ASSUME NEW u \in SiThreads, NEW y \in siSaved'[u], y.obj = o PROVE FALSE
        <5>1. u # t /\ y \in siSaved[u]
          BY <4>1, <4>2, <4>3
        <5>2. o \in Handled(u) /\ o \in Handled(t)
          BY <1>1, <1>5, <1>12, <4>3, <5>1 DEF SiHandlerOK, Handled
        <5> QED
          BY <1>12, <5>1, <5>2 DEF SiInv, SiAlone
      <4>4. siTold[o] # SiNone
        BY <1>4, <3>2, SiAssumption DEF SiMessage
      <4> QED
        BY <1>3, <3>2, <4>2, <4>3, <4>4 DEF SiApplied
    <3> QED
      BY <3>3, <3>4
  <2> QED
    BY <2>1, <2>2
\* what they do not tell is not changed by it
<1>13. ASSUME NEW o \in SiObjects \ (siDropped' \cup siRaced), o \notin Objects(l)
       PROVE  SiToApply(o)' \/ SiToCommit(o)' \/ SiApplied(o)'
  <2>1. e.content => e.obj # o
    BY <1>4, <1>13
  <2>2. \A y : y.obj = o => (y \in siSaved'[t] <=> y \in siSaved[t])
    BY <1>3, <2>1
  <2>3. \A u \in SiThreads : \A y : y.obj = o => (y \in siSaved'[u] <=> y \in siSaved[u])
    BY <1>3, <2>2
  <2>4. SiToApply(o) => SiToApply(o)'
    BY <1>3, <1>13 DEF SiToApply, l
  <2>5. SiToCommit(o) => SiToCommit(o)'
    BY <1>3, <2>3 DEF SiToCommit
  <2>6. SiApplied(o) => SiApplied(o)'
    BY <1>3, <2>3 DEF SiApplied
  <2>7. SiToApply(o) \/ SiToCommit(o) \/ SiApplied(o)
    BY <1>6, <1>13 DEF SiInv, SiFollowed
  <2> QED
    BY <2>4, <2>5, <2>6, <2>7
<1>14. SiFollowed'
  BY <1>3, <1>12, <1>13 DEF SiFollowed
<1> QED
  BY <1>2, <1>9, <1>10, <1>11, <1>14 DEF SiInv

\* The invariant holds in every state.
THEOREM SituationsInvariance == SiSpec => []SiInv
<1>1. SiInit => SiInv
  BY InitSituations
<1>2. SiInv /\ [SiNext]_siVars => SiInv'
  <2> SUFFICES ASSUME SiInv, [SiNext]_siVars
               PROVE  SiInv'
    OBVIOUS
  <2>1. ASSUME NEW t \in SiThreads, NEW n \in SiNotifications, Notify(t, n)
        PROVE  SiInv'
    BY <2>1, NotifySituations
  <2>2. ASSUME NEW t \in SiThreads, NEW messages \in SiAnswers, Answer(t, messages)
        PROVE  SiInv'
    BY <2>2, AnswerSituations
  <2>3. ASSUME NEW t \in SiThreads, SkipDelivery(t) \/ SiEnd(t)
        PROVE  SiInv'
    BY <2>3, EndSituations
  <2>4. ASSUME NEW t \in SiThreads, NEW deleted \in SUBSET siSituations,
               HandleDelivery(t, deleted)
        PROVE  SiInv'
    BY <2>4, HandleSituations
  <2>5. ASSUME NEW t \in SiThreads, UpdateEvent(t)
        PROVE  SiInv'
    BY <2>5, UpdateSituations
  <2>6. ASSUME NEW t \in SiThreads, SiCommit(t)
        PROVE  SiInv'
    BY <2>6, CommitSituations
  <2>7. CASE UNCHANGED siVars
    <3>1. UNCHANGED <<siSituations, siNextId, siPc, siTodo, siEvents, siLeft, siSaved,
                      siTold, siDropped, siRaced>>
      BY <2>7 DEF siVars, siHandler
    <3>2. SiTypes' /\ \A t \in SiThreads : SiHandlerOK(t)'
      BY <3>1 DEF SiInv, SiTypes, SiHandlerOK
    <3>3. SiAlone' /\ SiTellsLast'
      BY <3>1 DEF SiInv, SiAlone, Handled, SiTellsLast
    <3>4. SiIds'
      BY <3>1, SameIds DEF SiInv
    <3>5. SiFollowed'
      BY <3>1 DEF SiInv, SiFollowed, SiToApply, SiToCommit, SiApplied
    <3> QED
      BY <3>2, <3>3, <3>4, <3>5 DEF SiInv
  <2> QED
    BY <2>1, <2>2, <2>3, <2>4, <2>5, <2>6, <2>7 DEF SiNext
<1> QED
  BY <1>1, <1>2, PTL DEF SiSpec

\* SiAgrees: once every notification and answer is handled, the model says of
\* a situation what the partner told last, and once, but for events that Update
\* returned before, those a cancellation came before, and those handled at once.
THEOREM SituationsAgree == SiSpec => []SiAgrees
<1>1. SiInv => SiAgrees
  <2> SUFFICES ASSUME SiInv, \A t \in SiThreads : siPc[t] = "idle",
                      NEW o \in SiObjects \ (siDropped \cup siRaced)
               PROVE  LET found == FindByObjectId(siSituations, o) IN
                      IF siTold[o] = SiNone THEN found = {}
                      ELSE \E x \in found : x.rec = siTold[o] /\ found = {x}
    BY DEF SiAgrees
  <2>1. \A t \in SiThreads : siLeft[t] = <<>> /\ siSaved[t] = {}
    BY DEF SiInv, SiHandlerOK
  <2>2. SiApplied(o)
    BY <2>1, EmptyTells DEF SiInv, SiFollowed, SiToApply, SiToCommit
  <2>3. \A x, y \in FindByObjectId(siSituations, o) : x = y
    <3>1. \A x \in FindByObjectId(siSituations, o) :
            x \in siSituations /\ x \in SiAll /\ x.obj = o
      BY DEF FindByObjectId, SiAll
    <3>2. \A x, y \in FindByObjectId(siSituations, o) : x.id = y.id
      BY <3>1 DEF SiInv, SiIds, SiIdsOK
    <3> QED
      BY <3>1, <3>2 DEF SiInv, SiIds, OneOfEachId
  <2>4. CASE siTold[o] = SiNone
    BY <2>2, <2>4 DEF SiApplied, FindByObjectId
  <2>5. CASE siTold[o] # SiNone
    <3>1. PICK x \in siSituations : x.obj = o /\ x.rec = siTold[o]
      BY <2>2, <2>5 DEF SiApplied
    <3>2. x \in FindByObjectId(siSituations, o)
      BY <3>1 DEF FindByObjectId
    <3>3. FindByObjectId(siSituations, o) = {x}
      BY <2>3, <3>2
    <3> QED
      BY <2>5, <3>1, <3>2, <3>3
  <2> QED
    BY <2>4, <2>5
<1> QED
  BY <1>1, SituationsInvariance, PTL
=============================================================================
