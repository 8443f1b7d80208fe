----------------------------- MODULE ServicesMC -----------------------------
(***************************************************************************)
(* Three parts that share no state in these models: the registry of         *)
(* broadcast subscriptions, the collect of GeneralMessages and what becomes *)
(* of them.  A behaviour runs one of them, chosen initially, and the others *)
(* stay as they are.                                                       *)
(***************************************************************************)
EXTENDS BroadcastRegistry, GMCollect, Situations, TLC

CONSTANTS p1, p2, p3, l1, l2, a, b

VARIABLE part

SvInit ==
  RgInit /\ GcInit /\ SiInit /\ part \in {"registry", "collect", "situations"}

SvNext ==
  /\ UNCHANGED part
  /\ \/ part = "registry" /\ RgNext /\ UNCHANGED <<gcVars, siVars>>
     \/ part = "collect" /\ GcNext /\ UNCHANGED <<rgVars, siVars>>
     \/ part = "situations" /\ SiNext /\ UNCHANGED <<rgVars, gcVars>>

SvSpec == SvInit /\ [][SvNext]_<<part, rgVars, gcVars, siVars>> /\ GcFairness

SvPriority == <<p1, p2, p3>>
SvCollects == [p \in GcPartners |-> IF p = p1 THEN {l1} ELSE {l1, l2}]

SvMessage(o, r) == [obj |-> o, rec |-> r, content |-> TRUE]
SvDelivery(c, m) == [sub |-> "collect", cancels |-> c, messages |-> m]
SvA1 == SvDelivery({}, <<SvMessage(a, 1)>>)
SvA2 == SvDelivery({}, <<SvMessage(a, 2)>>)
SvB2 == SvDelivery({}, <<SvMessage(b, 2)>>)

\* one message; two; two deliveries; a later delivery that cancels; deliveries
\* for other subscriptions
SvNotifications ==
  {<<SvA1>>, <<SvDelivery({}, <<SvMessage(a, 1), SvMessage(b, 1)>>)>>,
   <<SvA2, SvB2>>, <<SvA2, [SvB2 EXCEPT !.cancels = {a}]>>,
   <<[SvA2 EXCEPT !.sub = "unknown"],
     [SvDelivery({a}, <<>>) EXCEPT !.sub = "other"], SvDelivery({b}, <<>>)>>}
SvAnswers ==
  {<<SvMessage(b, 2), [SvMessage(a, 2) EXCEPT !.content = FALSE]>>,
   <<SvMessage(b, 1)>>}
=============================================================================
