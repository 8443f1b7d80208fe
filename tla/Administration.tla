--------------------------- MODULE Administration ---------------------------
(***************************************************************************)
(* The partners of a referential, their credentials and connectors, and the *)
(* goroutines of all that is started and stopped with them.                 *)
(*                                                                         *)
(* Each request of the administration API (create, update or delete a       *)
(* partner, reload the model) is a goroutine that goes through a list of    *)
(* steps; the model guardian runs the same reload at the hour of the night. *)
(* Nothing serialises them.  What they start is a loop that waits for its   *)
(* timer or for its stop channel, and reads the field with the channel anew *)
(* at each turn: a loop at work when Stop closes the channel and Start      *)
(* replaces it goes on with the new one.                                    *)
(***************************************************************************)
EXTENDS Integers, Sequences, FiniteSets

CONSTANTS
  PtIds,        \* partners, by id; a partner object is never reused
  PtSlugs,      \* slugs
  PtCreds,      \* local credentials
  PtDefs,       \* the definitions requests come with, a subset of PtDef
  PtShared,     \* the loops of the referential, a subset of PtAllShared
  PtThreads,    \* the goroutines that serve the API
  PtNone,       \* no partner, no definition
  PtMaxRequests \* bound: requests and reloads

\* connector types: a subscription broadcaster, which has a loop, a connector
\* without one, and the dispatcher that broadcasters create for themselves
PtTypes == {"broadcaster", "plain", "dispatcher"}
PtDef == [slug : PtSlugs, creds : SUBSET PtCreds, types : SUBSET PtTypes]

\* the two guardians and the broadcast manager
PtAllShared == {"modelGuardian", "partnersGuardian", "broadcastManager"}

ASSUME PtAssumption ==
  /\ PtShared \subseteq PtAllShared /\ PtShared \cap PtIds = {}
  /\ PtDefs \subseteq PtDef /\ PtNone \notin PtIds /\ PtNone \notin PtDef
  /\ "guardian" \notin PtThreads
  /\ PtMaxRequests \in Nat

\* what has a loop: those, and the broadcaster of each partner
PtOwners == PtShared \cup PtIds
PtActors == PtThreads \cup {"guardian"}

VARIABLES
  ptById,        \* SUBSET PtIds: PartnerManager.byId
  ptDefs,        \* [PtIds -> PtDef or PtNone]: of the partner objects
  ptConnectors,  \* [PtIds -> SUBSET PtTypes]
  ptByCredentials, ptByIdentifier, \* LocalCredentialsIndex
  ptStop,        \* [PtOwners -> "nil", "open" or "closed"]: the stop channel
  ptLoops,       \* [PtOwners -> Loops]
  ptTodo,        \* [PtActors -> Seq(Step)]: what a request has still to do
  ptNew,         \* [PtActors -> PtDef or PtNone]: its definition
  ptRequests,    \* requests so far
  ptCrashed,     \* a goroutine without recover panicked
  ptRaced        \* history: two requests were under way at the same time

ptIndexVars == <<ptByCredentials, ptByIdentifier>>
ptLoopVars == <<ptStop, ptLoops>>
ptVars == <<ptById, ptDefs, ptConnectors, ptIndexVars, ptLoopVars, ptTodo,
            ptNew, ptRequests, ptCrashed, ptRaced>>

\* the goroutines of a loop: at work, waiting on the current channel, on one
\* that is closed, on one that was replaced without having been closed
Loops == [busy : Nat, waiting : Nat, doomed : Nat, orphan : Nat]
NoLoop == [busy |-> 0, waiting |-> 0, doomed |-> 0, orphan |-> 0]
Step == [op : {"validate", "stop", "define", "save", "start", "delete"},
         of : PtIds]
          \cup [op : {"stop", "start"}, of : PtOwners \ PtIds]
          \cup [op : {"stopPartners", "startPartners", "return"},
                of : {PtNone}]
Do(op, of) == [op |-> op, of |-> of]

-----------------------------------------------------------------------------
(* LocalCredentialsIndex.                                                  *)

UniqCredentials(id, creds) ==
  \A c \in creds : ptByCredentials[c] \in {PtNone, id}

IndexWithoutObsolete(id, creds) == \* mutant
  /\ ptByCredentials' = [c \in PtCreds |->
       IF c \in creds THEN id ELSE ptByCredentials[c]]
  /\ ptByIdentifier' = [ptByIdentifier EXCEPT ![id] = creds]

\* credentials the partner has no more leave the index, whoever has them now
Index(id, creds) ==
  /\ ptByCredentials' = [c \in PtCreds |->
       IF c \in creds THEN id
       ELSE IF c \in ptByIdentifier[id] THEN PtNone ELSE ptByCredentials[c]]
  /\ ptByIdentifier' = [ptByIdentifier EXCEPT ![id] = creds]

Unindex(id) ==
  /\ ptByCredentials' = [c \in PtCreds |->
       IF c \in ptByIdentifier[id] THEN PtNone ELSE ptByCredentials[c]]
  /\ ptByIdentifier' = [ptByIdentifier EXCEPT ![id] = {}]

-----------------------------------------------------------------------------
(* Loops.                                                                  *)

StopForgets(o) == \* mutant
  ptStop' = [ptStop EXCEPT ![o] = "nil"] /\ UNCHANGED ptLoops

\* close(stop): the loops that wait on it are on their way out.  Those at work
\* are not, except the broadcast manager's, which is made anew at each Start
StopLoop(o) ==
  LET l == ptLoops[o]
      own == o = "broadcastManager"
  IN  /\ ptStop' = [ptStop EXCEPT ![o] = IF @ = "nil" THEN "nil" ELSE "closed"]
      /\ ptLoops' = [ptLoops EXCEPT ![o] =
           IF ptStop[o] = "nil" THEN @
           ELSE [l EXCEPT !.waiting = 0,
                          !.busy = IF own THEN 0 ELSE @,
                          !.doomed = @ + l.waiting + IF own THEN l.busy ELSE 0]]

StartReusing(o) == \* mutant
  /\ ptStop' = [ptStop EXCEPT ![o] = IF @ = "nil" THEN "open" ELSE @]
  /\ ptLoops' = [ptLoops EXCEPT ![o].busy = @ + 1]

\* stop = make(chan struct{}); go run()
StartLoop(o) ==
  LET l == ptLoops[o]
  IN  /\ ptStop' = [ptStop EXCEPT ![o] = "open"]
      /\ ptLoops' = [ptLoops EXCEPT ![o] =
           [l EXCEPT !.waiting = 0, !.busy = @ + 1,
                     !.orphan = IF ptStop[o] = "open" THEN @ + l.waiting
                                ELSE @]]

\* the connector object goes, with the channel: its loops are the old ones
DropLoop(o) ==
  LET l == ptLoops[o]
      closed == ptStop[o] # "open"
  IN  /\ ptStop' = [ptStop EXCEPT ![o] = "nil"]
      /\ ptLoops' = [ptLoops EXCEPT ![o] =
           [busy |-> 0, waiting |-> 0,
            doomed |-> l.doomed + IF closed THEN l.busy ELSE 0,
            orphan |-> l.orphan + IF closed THEN 0 ELSE l.busy + l.waiting]]

\* a loop begins its next turn: select reads the channel there is now
Select(o) ==
  LET l == ptLoops[o]
  IN  /\ l.busy > (IF o = "modelGuardian" /\ ptTodo["guardian"] # <<>> THEN 1
                   ELSE 0)
      /\ ptLoops' = [ptLoops EXCEPT ![o] =
           IF ptStop[o] = "open"
           THEN [l EXCEPT !.busy = @ - 1, !.waiting = @ + 1]
           ELSE [l EXCEPT !.busy = @ - 1, !.doomed = @ + 1]]
      /\ UNCHANGED <<ptById, ptDefs, ptConnectors, ptIndexVars, ptStop, ptTodo,
                     ptNew, ptRequests, ptCrashed, ptRaced>>

\* its timer: it is at work until its next turn
Tick(o) ==
  /\ ptLoops[o].waiting > 0
  /\ ptLoops' = [ptLoops EXCEPT ![o].waiting = @ - 1, ![o].busy = @ + 1]
  /\ UNCHANGED <<ptById, ptDefs, ptConnectors, ptIndexVars, ptStop, ptTodo,
                 ptNew, ptRequests, ptCrashed, ptRaced>>

\* <-stop: return
Leave(o) ==
  /\ ptLoops[o].doomed > 0
  /\ ptLoops' = [ptLoops EXCEPT ![o].doomed = @ - 1]
  /\ UNCHANGED <<ptById, ptDefs, ptConnectors, ptIndexVars, ptStop, ptTodo,
                 ptNew, ptRequests, ptCrashed, ptRaced>>

-----------------------------------------------------------------------------
\* Load: the partners of the database, with their connectors, are indexed; then
\* everything is started
Loaded(id, def) ==
  /\ ptById = {id}
  /\ ptDefs = [i \in PtIds |-> IF i = id THEN def ELSE PtNone]
  /\ ptConnectors = [i \in PtIds |-> IF i # id THEN {} ELSE def.types \cup
       IF "broadcaster" \in def.types THEN {"dispatcher"} ELSE {}]
  /\ ptByCredentials = [c \in PtCreds |-> IF c \in def.creds THEN id ELSE PtNone]
  /\ ptByIdentifier = [i \in PtIds |-> IF i = id THEN def.creds ELSE {}]

NothingLoaded ==
  /\ ptById = {} /\ ptDefs = [i \in PtIds |-> PtNone]
  /\ ptConnectors = [i \in PtIds |-> {}]
  /\ ptByCredentials = [c \in PtCreds |-> PtNone]
  /\ ptByIdentifier = [i \in PtIds |-> {}]

HasLoop(o) == o \notin PtIds \/ "broadcaster" \in ptConnectors[o]

PtInit ==
  /\ NothingLoaded \/ \E id \in PtIds, def \in PtDefs : Loaded(id, def)
  /\ ptStop = [o \in PtOwners |-> IF HasLoop(o) THEN "open" ELSE "nil"]
  /\ ptLoops = [o \in PtOwners |-> IF HasLoop(o) THEN [NoLoop EXCEPT !.busy = 1]
                                   ELSE NoLoop]
  /\ ptTodo = [a \in PtActors |-> <<>>]
  /\ ptNew = [a \in PtActors |-> PtNone]
  /\ ptRequests = 0 /\ ptCrashed = FALSE /\ ptRaced = FALSE

UnderWay == {a \in PtActors : ptTodo[a] # <<>>}

Request1(a, steps, def) ==
  /\ ptTodo[a] = <<>> /\ ptRequests < PtMaxRequests
  /\ ptTodo' = [ptTodo EXCEPT ![a] = steps]
  /\ ptNew' = [ptNew EXCEPT ![a] = def]
  /\ ptRequests' = ptRequests + 1
  /\ ptRaced' = (ptRaced \/ UnderWay # {})
  /\ UNCHANGED <<ptById, ptDefs, ptConnectors, ptIndexVars, ptStop, ptCrashed>>

\* PartnerController
Create(a, id, def) ==
  /\ ptDefs[id] = PtNone /\ a \in PtThreads
  /\ \A b \in UnderWay : \A n \in 1..Len(ptTodo[b]) : ptTodo[b][n].of # id
  /\ Request1(a, <<Do("validate", id), Do("define", id), Do("save", id),
                   Do("start", id)>>, def)
  /\ UNCHANGED ptLoops

UpdateDefinesFirst(a, id, def) == \* mutant
  /\ id \in ptById /\ a \in PtThreads
  /\ Request1(a, <<Do("validate", id), Do("define", id), Do("stop", id),
                   Do("save", id), Do("start", id)>>, def)
  /\ UNCHANGED ptLoops

UpdateStopsLast(a, id, def) == \* mutant
  /\ id \in ptById /\ a \in PtThreads
  /\ Request1(a, <<Do("validate", id), Do("define", id), Do("save", id),
                   Do("start", id), Do("stop", id)>>, def)
  /\ UNCHANGED ptLoops

Update(a, id, def) ==
  /\ id \in ptById /\ a \in PtThreads
  /\ Request1(a, <<Do("validate", id), Do("stop", id), Do("define", id),
                   Do("save", id), Do("start", id)>>, def)
  /\ UNCHANGED ptLoops

Delete(a, id) ==
  /\ id \in ptById /\ a \in PtThreads
  /\ Request1(a, <<Do("stop", id), Do("delete", id)>>, PtNone)
  /\ UNCHANGED ptLoops

IfThere(do, o) == IF o \in PtShared THEN <<Do(do, o)>> ELSE <<>>

\* Referential.Stop and Start: the guardian of the partners, every partner, the
\* model guardian, the broadcast manager
EachLoop(do, each) ==
  IfThere(do, "partnersGuardian") \o <<Do(each, PtNone)>>
    \o IfThere(do, "modelGuardian") \o IfThere(do, "broadcastManager")

\* Referential.ReloadModel: Stop, the other model, Start
ReloadModel == EachLoop("stop", "stopPartners")
                 \o EachLoop("start", "startPartners")

\* the API's reload, and the model guardian's checkReloadModel, whose loop ends
Reload(a) ==
  /\ a \in PtThreads /\ Request1(a, ReloadModel, PtNone)
  /\ UNCHANGED ptLoops

CheckReloadModel ==
  /\ "modelGuardian" \in PtShared /\ ptLoops["modelGuardian"].waiting > 0
  /\ ptLoops' = [ptLoops EXCEPT !["modelGuardian"].waiting = @ - 1,
                                !["modelGuardian"].busy = @ + 1]
  /\ Request1("guardian", Append(ReloadModel, Do("return", PtNone)), PtNone)

-----------------------------------------------------------------------------
(* The steps of a request.                                                 *)

Head1(a, op, of) ==
  /\ ptTodo[a] # <<>> /\ Head(ptTodo[a]) = Do(op, of)
  /\ UNCHANGED <<ptRequests, ptRaced>>
Then(a, steps) ==
  /\ ptTodo' = [ptTodo EXCEPT ![a] = steps]
  /\ UNCHANGED ptNew
Advance(a) == Then(a, Tail(ptTodo[a]))

\* APIPartner.Validate: slug and credentials, against the partners there are
Validate(a, id) ==
  /\ Head1(a, "validate", id)
  /\ LET d == ptNew[a]
         ok == /\ \A i \in ptById \ {id} : ptDefs[i].slug # d.slug
               /\ UniqCredentials(id, d.creds)
     IN  Then(a, IF ok THEN Tail(ptTodo[a]) ELSE <<>>)
  /\ UNCHANGED <<ptById, ptDefs, ptConnectors, ptIndexVars, ptLoopVars,
                 ptCrashed>>

CleanAll(connectors, types) == {connectors \cap types} \* mutant

\* cleanConnectors, over a map: the dispatcher stays as long as a broadcaster
\* is there, which it may no longer be when its turn comes
CleanConnectors(connectors, types) ==
  LET kept == connectors \cap types
  IN  IF "dispatcher" \in connectors \ types /\ "broadcaster" \in connectors
      THEN {kept \cup {"dispatcher"}} \cup
             IF "broadcaster" \in kept THEN {} ELSE {kept}
      ELSE {kept}

\* SetDefinition: a broadcaster's factory makes the dispatcher
SetDefinition(a, id) ==
  /\ Head1(a, "define", id)
  /\ ptDefs' = [ptDefs EXCEPT ![id] = ptNew[a]]
  /\ LET types == ptNew[a].types
         made == ptConnectors[id] \cup types \cup
                   IF "broadcaster" \in types \ ptConnectors[id]
                   THEN {"dispatcher"} ELSE {}
     IN  \E cs \in CleanConnectors(made, types) :
           /\ ptConnectors' = [ptConnectors EXCEPT ![id] = cs]
           /\ IF "broadcaster" \in ptConnectors[id] \ cs
              THEN DropLoop(id) ELSE UNCHANGED ptLoopVars
  /\ Advance(a)
  /\ UNCHANGED <<ptById, ptIndexVars, ptCrashed>>

\* PartnerManager.Save and Delete
Save(a, id) ==
  /\ Head1(a, "save", id) /\ Advance(a)
  /\ ptById' = ptById \cup {id}
  /\ Index(id, ptDefs[id].creds)
  /\ UNCHANGED <<ptDefs, ptConnectors, ptLoopVars, ptCrashed>>

Remove(a, id) ==
  /\ Head1(a, "delete", id) /\ Advance(a)
  /\ ptById' = ptById \ {id}
  /\ Unindex(id)
  /\ UNCHANGED <<ptDefs, ptConnectors, ptLoopVars, ptCrashed>>

\* close of a closed channel panics: the request ends there, and the process
\* when it is the guardian's
Panics(a) ==
  /\ Then(a, <<>>)
  /\ ptCrashed' = (a = "guardian")
  /\ UNCHANGED ptLoopVars

StopStep(a, o) ==
  /\ Head1(a, "stop", o)
  /\ IF ~HasLoop(o) THEN Advance(a) /\ UNCHANGED <<ptLoopVars, ptCrashed>>
     ELSE IF ptStop[o] = "closed" THEN Panics(a)
     ELSE Advance(a) /\ StopLoop(o) /\ UNCHANGED ptCrashed
  /\ UNCHANGED <<ptById, ptDefs, ptConnectors, ptIndexVars>>

StartStep(a, o) ==
  /\ Head1(a, "start", o) /\ Advance(a)
  /\ IF HasLoop(o) THEN StartLoop(o) ELSE UNCHANGED ptLoopVars
  /\ UNCHANGED <<ptById, ptDefs, ptConnectors, ptIndexVars, ptCrashed>>

\* PartnerManager.Stop and Start: the partners of byId, in any order
EachPartner(a, all, each) ==
  /\ Head1(a, all, PtNone)
  /\ \E order \in {s \in [1..Cardinality(ptById) -> ptById] :
                     \A i \in ptById : \E n \in DOMAIN s : s[n] = i} :
       Then(a, [n \in DOMAIN order |-> Do(each, order[n])]
                 \o Tail(ptTodo[a]))
  /\ UNCHANGED <<ptById, ptDefs, ptConnectors, ptIndexVars, ptLoopVars,
                 ptCrashed>>

\* the loop of a guardian that reloaded
Return(a) ==
  /\ Head1(a, "return", PtNone) /\ Advance(a)
  /\ ptLoops' = [ptLoops EXCEPT !["modelGuardian"].busy = @ - 1]
  /\ UNCHANGED <<ptById, ptDefs, ptConnectors, ptIndexVars, ptStop, ptCrashed>>

-----------------------------------------------------------------------------
PtRequests(a) ==
  \/ \E id \in PtIds : \/ \E def \in PtDefs : Create(a, id, def)
                                              \/ Update(a, id, def)
                       \/ Delete(a, id)
  \/ Reload(a)

PtStep(a) ==
  \/ \E id \in PtIds : Validate(a, id) \/ SetDefinition(a, id) \/ Save(a, id)
                       \/ Remove(a, id)
  \/ \E o \in PtOwners : StopStep(a, o) \/ StartStep(a, o)
  \/ EachPartner(a, "stopPartners", "stop")
  \/ EachPartner(a, "startPartners", "start")
  \/ Return(a)

PtLoop(o) == Select(o) \/ Tick(o) \/ Leave(o)

PtNext ==
  /\ ~ptCrashed
  /\ \/ \E a \in PtActors : PtRequests(a) \/ PtStep(a)
     \/ CheckReloadModel
     \/ \E o \in PtOwners : PtLoop(o)

\* a request goes on, a loop's work ends, a loop that sees its channel closed
\* returns
PtFairness ==
  /\ \A a \in PtActors : WF_ptVars(~ptCrashed /\ PtStep(a))
  /\ \A o \in PtOwners : /\ WF_ptVars(~ptCrashed /\ Select(o))
                         /\ WF_ptVars(~ptCrashed /\ Leave(o))

PtSpec == PtInit /\ [][PtNext]_ptVars /\ PtFairness

-----------------------------------------------------------------------------
\* Types; a loop waits on a channel that is there and open, and only what was
\* started has one (the Start and Stop of every loop).
PtTypeOK ==
  /\ ptById \subseteq PtIds
  /\ ptDefs \in [PtIds -> PtDef \cup {PtNone}]
  /\ ptConnectors \in [PtIds -> SUBSET PtTypes]
  /\ ptByCredentials \in [PtCreds -> PtIds \cup {PtNone}]
  /\ ptByIdentifier \in [PtIds -> SUBSET PtCreds]
  /\ ptStop \in [PtOwners -> {"nil", "open", "closed"}]
  /\ ptLoops \in [PtOwners -> Loops]
  /\ \A a \in PtActors : \A n \in 1..Len(ptTodo[a]) : ptTodo[a][n] \in Step
  /\ ptNew \in [PtActors -> PtDef \cup {PtNone}]
  /\ ptRequests \in 0..PtMaxRequests
  /\ ptCrashed \in BOOLEAN /\ ptRaced \in BOOLEAN
  /\ \A o \in PtOwners : /\ ptLoops[o].waiting > 0 => ptStop[o] = "open"
                         /\ ptStop[o] = "nil" => ptLoops[o].busy = 0

\* The credentials a partner was saved with find that partner and no other:
\* FindByCredential never gives a partner that is gone, even when requests
\* overlap, and finds every saved one as long as they did not.
CredentialsFound ==
  /\ \A c \in PtCreds : ptByCredentials[c] # PtNone =>
       /\ ptByCredentials[c] \in ptById
       /\ c \in ptByIdentifier[ptByCredentials[c]]
  /\ ~ptRaced => \A id \in PtIds : \A c \in ptByIdentifier[id] :
                   ptByCredentials[c] = id

\* A partner with a subscription broadcaster has the dispatcher that hands it
\* its requests, whatever the order of definitions it went through and of the
\* map that cleanConnectors goes over.
DispatcherPresent ==
  \A id \in PtIds : "broadcaster" \in ptConnectors[id] =>
    "dispatcher" \in ptConnectors[id]

Alive(o) == /\ ptStop[o] = "open"
            /\ ptLoops[o].busy + ptLoops[o].waiting > 0

\* Whenever no request is under way, what is registered runs: neither an
\* update nor a reload, nor a loop that leaves, takes the last goroutine with
\* it, unless requests overlapped.
StartedRuns ==
  UnderWay = {} /\ ~ptRaced =>
    \A o \in PtOwners : (o \in PtIds => o \in ptById) /\ HasLoop(o) => Alive(o)

\* A close of a closed channel, which ends the process when the guardian does
\* it, needs overlapping requests.
CrashNeedsRace == ptCrashed => ptRaced

\* The loops of a deleted partner end, unless requests overlapped: also one at
\* work while its channel was closed and replaced.
DeletedLoopsEnd ==
  UnderWay = {} ~>
    \/ UnderWay # {} \/ ptRaced
    \/ \A id \in PtIds \ ptById : ptLoops[id] = NoLoop
=============================================================================
