--------------------------- MODULE StopVisitFeed ---------------------------
(***************************************************************************)
(* What a SIRI subscriber is promised, whatever goroutines, queues and      *)
(* records Ara uses: each notification carries, for each stop visit, a      *)
(* state the model has really had, and never an older one than a state the  *)
(* same subscription request has been told before.                         *)
(***************************************************************************)
EXTENDS Integers

CONSTANTS Subs, StopVisits

VARIABLES
  version,  \* [StopVisits -> number of states it has had]
  told      \* [Subs -> [StopVisits -> the state last told, 0 for none]]

feed == <<version, told>>

Init ==
  /\ version = [sv \in StopVisits |-> 0]
  /\ told = [s \in Subs |-> [sv \in StopVisits |-> 0]]

Save(sv) ==
  /\ version' = [version EXCEPT ![sv] = @ + 1]
  /\ UNCHANGED told

\* a new or renewed subscription starts from nothing
Subscribe(s) ==
  /\ told' = [told EXCEPT ![s] = [sv \in StopVisits |-> 0]]
  /\ UNCHANGED version

\* one notification: it may skip states, and repeat the last one
Notify(s) ==
  /\ told' \in [Subs -> [StopVisits -> Nat]]
  /\ \A sv \in StopVisits : told'[s][sv] \in told[s][sv]..version[sv]
  /\ \A r \in Subs \ {s} : told'[r] = told[r]
  /\ UNCHANGED version

Next ==
  \/ \E sv \in StopVisits : Save(sv)
  \/ \E s \in Subs : Subscribe(s) \/ Notify(s)

Spec == Init /\ [][Next]_feed
=============================================================================
