--------------------------- MODULE SMBroadcastMC ---------------------------
(* SMBroadcast and what it promises its subscribers, for TLC.              *)
EXTENDS SMBroadcast

\* the version of a state, 0 for none
VersionOf(v) == IF v = NoState THEN 0 ELSE v.ver

Feed == INSTANCE StopVisitFeed WITH
  told <- [s \in Subs |-> [sv \in StopVisits |-> VersionOf(known[s][sv])]]

\* Every behaviour of the broadcast path is one of StopVisitFeed: subscribers
\* are told of states the model had, in the order it had them, although a state
\* is read, recorded and sent by three unsynchronised goroutines.
FeedSpec == Feed!Spec
=============================================================================
