------------------------ MODULE AdministrationProofs ------------------------
(***************************************************************************)
(* Administration for any number of partners, credentials, requests and    *)
(* goroutines: connectors and credentials, and, as long as requests do not  *)
(* overlap, that everything registered runs and no channel is closed twice. *)
(***************************************************************************)
EXTENDS Administration, FiniteSetTheorems, TLAPS

-----------------------------------------------------------------------------
(* What a request has still to do.                                         *)

In(s, step) == \E n \in 1..Len(s) : s[n] = step

Validates(id) == {<<Do("validate", id), Do("define", id), Do("save", id),
                    Do("start", id)>>,
                  <<Do("validate", id), Do("stop", id), Do("define", id),
                    Do("save", id), Do("start", id)>>}
Defines(id) == {<<Do("define", id), Do("save", id), Do("start", id)>>,
                <<Do("stop", id), Do("define", id), Do("save", id),
                  Do("start", id)>>}
Saves(id) == {<<Do("save", id), Do("start", id)>>}
Deletes(id) == {<<Do("stop", id), Do("delete", id)>>, <<Do("delete", id)>>}
Starts(id) == {<<Do("start", id)>>}

\* a request about a partner, at each of its steps
PartnerTodo(id) ==
  Validates(id) \cup Defines(id) \cup Saves(id) \cup Deletes(id) \cup Starts(id)

Starting == {"start", "startPartners"}
Stopping == {"stop", "stopPartners"}
ReloadOps == Starting \cup Stopping \cup {"return"}

\* a reload: each stop comes once, before any start, and what is stopped is
\* started; the partners' stops come one by one or all at once
StopsFirst(s) ==
  \A m, n \in 1..Len(s) : m < n /\ s[m].op \in Starting =>
                            s[n].op \notin Stopping
StopsOnce(s) ==
  \A m, n \in 1..Len(s) : s[m] = s[n] /\ s[m].op \in Stopping => m = n
StartsAgain(s) ==
  /\ \A o \in PtShared : In(s, Do("stop", o)) => In(s, Do("start", o))
  /\ In(s, Do("stopPartners", PtNone)) => In(s, Do("startPartners", PtNone))
  /\ \A id \in PtIds : In(s, Do("stop", id)) =>
       /\ In(s, Do("startPartners", PtNone))
       /\ ~In(s, Do("stopPartners", PtNone))
ReturnsLast(s) ==
  \A n \in 1..Len(s) : s[n].op = "return" => n = Len(s)

ReloadTodo(s) ==
  /\ s \in Seq(Step) /\ \A n \in 1..Len(s) : s[n].op \in ReloadOps
  /\ StopsFirst(s) /\ StopsOnce(s) /\ StartsAgain(s) /\ ReturnsLast(s)

Shapes ==
  /\ \A a \in PtThreads :
       \/ \E id \in PtIds : ptTodo[a] \in PartnerTodo(id)
       \/ ReloadTodo(ptTodo[a]) /\ ~In(ptTodo[a], Do("return", PtNone))
  /\ ReloadTodo(ptTodo["guardian"])

-----------------------------------------------------------------------------
(* The inductive invariant.                                                *)

\* The definition a request comes with, until it is the partner's.
Definitions ==
  \A a \in PtActors, id \in PtIds :
    /\ ptTodo[a] \in Validates(id) \cup Defines(id) => ptNew[a] \in PtDef
    /\ ptTodo[a] \in Saves(id) => ptDefs[id] \in PtDef

\* The guardian's goroutine is at work while it reloads.
GuardianBusy ==
  ptTodo["guardian"] # <<>> =>
    "modelGuardian" \in PtShared /\ ptLoops["modelGuardian"].busy > 0

CredentialsKnown ==
  \A c \in PtCreds : ptByCredentials[c] # PtNone =>
    /\ ptByCredentials[c] \in ptById
    /\ c \in ptByIdentifier[ptByCredentials[c]]

\* What does not depend on whether requests overlapped.
Always ==
  /\ PtTypeOK /\ ptTodo \in [PtActors -> Seq(Step)] /\ IsFiniteSet(ptById)
  /\ Shapes /\ Definitions /\ GuardianBusy
  /\ CredentialsKnown /\ DispatcherPresent

Alone == \A a, b \in UnderWay : a = b

\* The credentials of every partner find it, and those that were validated
\* still can be saved.
CredentialsUnique ==
  /\ \A id \in PtIds : \A c \in ptByIdentifier[id] : ptByCredentials[c] = id
  /\ \A a \in PtActors, id \in PtIds :
       /\ ptTodo[a] \in Defines(id) \cup Saves(id) =>
            UniqCredentials(id, ptNew[a].creds)
       /\ ptTodo[a] \in Saves(id) => ptDefs[id] = ptNew[a]

\* What is registered and has a loop.
Registered(o) == (o \in PtIds => o \in ptById) /\ HasLoop(o)

\* A start of o is still to come, or o is about to be no longer registered.
StartComes(s, o) ==
  \/ In(s, Do("start", o)) \/ In(s, Do("delete", o))
  \/ o \in PtIds /\ In(s, Do("startPartners", PtNone))

\* What is registered runs, or is about to be started ...
RunsOrStarts ==
  \A o \in PtOwners : Registered(o) =>
    Alive(o) \/ \E a \in UnderWay : StartComes(ptTodo[a], o)

\* ... and runs while a request may still be refused.
RunsWhileValidating ==
  \A a \in UnderWay, id \in PtIds : ptTodo[a] \in Validates(id) =>
    \A o \in PtOwners : Registered(o) => Alive(o)

\* What is about to be stopped is open.
StopsOpen ==
  \A a \in UnderWay :
    /\ \A o \in PtOwners : In(ptTodo[a], Do("stop", o)) /\ HasLoop(o) =>
                             ptStop[o] = "open"
    /\ In(ptTodo[a], Do("stopPartners", PtNone)) =>
         \A id \in ptById : HasLoop(id) => ptStop[id] = "open"

\* Once started again, the model guardian has a loop besides the one that
\* reloads, which ends.
GuardianTwice ==
  ptTodo["guardian"] # <<>>
    /\ ~In(ptTodo["guardian"], Do("start", "modelGuardian")) =>
      /\ ptStop["modelGuardian"] = "open"
      /\ ptLoops["modelGuardian"].busy + ptLoops["modelGuardian"].waiting > 1

\* What holds as long as no two requests overlapped.
Undisturbed ==
  /\ Alone /\ CredentialsUnique /\ RunsOrStarts /\ RunsWhileValidating
  /\ StopsOpen /\ GuardianTwice /\ ~ptCrashed

PtInv == Always /\ (~ptRaced => Undisturbed)

-----------------------------------------------------------------------------
(* Sequences of steps.                                                     *)

\* What is in a sequence is its first element or in the rest.
LEMMA InTail ==
  ASSUME NEW S, NEW s \in Seq(S), s # <<>>, NEW x
  PROVE  In(s, x) <=> Head(s) = x \/ In(Tail(s), x)
<1>1. /\ Len(s) \in Nat /\ Len(s) > 0 /\ Len(Tail(s)) = Len(s) - 1
      /\ Head(s) = s[1]
      /\ \A n \in 1..Len(s) - 1 : Tail(s)[n] = s[n + 1]
  OBVIOUS
<1>2. ASSUME In(s, x), Head(s) # x PROVE In(Tail(s), x)
  <2>1. PICK n \in 1..Len(s) : s[n] = x
    BY <1>2 DEF In
  <2>2. n - 1 \in 1..Len(s) - 1 /\ (n - 1) + 1 = n
    BY <1>1, <1>2, <2>1
  <2>3. Tail(s)[n - 1] = x
    BY <1>1, <2>1, <2>2
  <2> QED
    BY <1>1, <2>2, <2>3 DEF In
<1>3. ASSUME In(Tail(s), x) PROVE In(s, x)
  <2>1. PICK n \in 1..Len(s) - 1 : Tail(s)[n] = x
    BY <1>1, <1>3 DEF In
  <2>2. n + 1 \in 1..Len(s) /\ s[n + 1] = x
    BY <1>1, <2>1
  <2> QED
    BY <2>2 DEF In
<1>4. ASSUME Head(s) = x PROVE In(s, x)
  BY <1>1, <1>4 DEF In
<1> QED
  BY <1>2, <1>3, <1>4

\* What is in a concatenation is in one of its parts.
LEMMA InConcat ==
  ASSUME NEW S, NEW s \in Seq(S), NEW t \in Seq(S), NEW x
  PROVE  In(s \o t, x) <=> In(s, x) \/ In(t, x)
<1>1. /\ Len(s) \in Nat /\ Len(t) \in Nat /\ Len(s \o t) = Len(s) + Len(t)
      /\ \A n \in 1..Len(s) : (s \o t)[n] = s[n]
      /\ \A n \in 1..Len(t) : (s \o t)[Len(s) + n] = t[n]
  OBVIOUS
<1>2. ASSUME NEW n \in 1..Len(s \o t), (s \o t)[n] = x
      PROVE  In(s, x) \/ In(t, x)
  <2>1. CASE n <= Len(s)
    BY <1>1, <1>2, <2>1 DEF In
  <2>2. CASE n > Len(s)
    <3>1. n - Len(s) \in 1..Len(t) /\ Len(s) + (n - Len(s)) = n
      BY <1>1, <2>2
    <3>2. t[n - Len(s)] = x
      BY <1>1, <1>2, <3>1
    <3> QED
      BY <3>1, <3>2 DEF In
  <2> QED
    BY <1>1, <2>1, <2>2
<1>3. ASSUME NEW n \in 1..Len(s), s[n] = x PROVE In(s \o t, x)
  <2>1. n \in 1..Len(s \o t) /\ (s \o t)[n] = x
    BY <1>1, <1>3
  <2> QED
    BY <2>1 DEF In
<1>4. ASSUME NEW n \in 1..Len(t), t[n] = x PROVE In(s \o t, x)
  <2>1. Len(s) + n \in 1..Len(s \o t) /\ (s \o t)[Len(s) + n] = x
    BY <1>1, <1>4
  <2> QED
    BY <2>1 DEF In
<1> QED
  BY <1>2, <1>3, <1>4 DEF In

\* A sequence of one step.
LEMMA InOne ==
  ASSUME NEW x, NEW y
  PROVE  (In(<<y>>, x) <=> x = y) /\ ~In(<<>>, x)
BY DEF In

\* The order of the steps of a concatenation.
LEMMA StopsFirstConcat ==
  ASSUME NEW s \in Seq(Step), NEW t \in Seq(Step), StopsFirst(s),
         StopsFirst(t),
         \/ \A n \in 1..Len(s) : s[n].op \notin Starting
         \/ \A n \in 1..Len(t) : t[n].op \notin Stopping
  PROVE  StopsFirst(s \o t)
<1>1. /\ Len(s) \in Nat /\ Len(t) \in Nat /\ Len(s \o t) = Len(s) + Len(t)
      /\ \A n \in 1..Len(s) : (s \o t)[n] = s[n]
      /\ \A n \in Len(s) + 1..Len(s) + Len(t) : (s \o t)[n] = t[n - Len(s)]
  OBVIOUS
<1> SUFFICES ASSUME NEW m \in 1..Len(s) + Len(t), NEW n \in 1..Len(s) + Len(t),
                    m < n, (s \o t)[m].op \in Starting,
                    (s \o t)[n].op \in Stopping
             PROVE  FALSE
  BY <1>1 DEF StopsFirst
<1>2. CASE n <= Len(s)
  <2>1. /\ m \in 1..Len(s) /\ n \in 1..Len(s)
        /\ s[m].op \in Starting /\ s[n].op \in Stopping
    BY <1>1, <1>2
  <2> QED
    BY <2>1 DEF StopsFirst
<1>3. CASE m > Len(s)
  <2>1. /\ m - Len(s) \in 1..Len(t) /\ n - Len(s) \in 1..Len(t)
        /\ m - Len(s) < n - Len(s)
        /\ t[m - Len(s)].op \in Starting /\ t[n - Len(s)].op \in Stopping
    BY <1>1, <1>3
  <2> QED
    BY <2>1 DEF StopsFirst
<1>4. CASE m <= Len(s) /\ n > Len(s)
  <2>1. m \in 1..Len(s) /\ s[m].op \in Starting
    BY <1>1, <1>4
  <2>2. n - Len(s) \in 1..Len(t) /\ t[n - Len(s)].op \in Stopping
    BY <1>1, <1>4
  <2> QED
    BY <2>1, <2>2
<1> QED
  BY <1>1, <1>2, <1>3, <1>4

\* A stop that is not in both parts is once in a concatenation.
LEMMA StopsOnceConcat ==
  ASSUME NEW s \in Seq(Step), NEW t \in Seq(Step), StopsOnce(s), StopsOnce(t),
         \A x \in Step : x.op \in Stopping => ~(In(s, x) /\ In(t, x))
  PROVE  StopsOnce(s \o t)
<1>1. /\ Len(s) \in Nat /\ Len(t) \in Nat /\ Len(s \o t) = Len(s) + Len(t)
      /\ \A n \in 1..Len(s) : (s \o t)[n] = s[n] /\ s[n] \in Step
      /\ \A n \in Len(s) + 1..Len(s) + Len(t) :
           (s \o t)[n] = t[n - Len(s)] /\ n - Len(s) \in 1..Len(t)
  OBVIOUS
<1> SUFFICES ASSUME NEW m \in 1..Len(s) + Len(t), NEW n \in 1..Len(s) + Len(t),
                    (s \o t)[m] = (s \o t)[n], (s \o t)[m].op \in Stopping,
                    m < n
             PROVE  FALSE
  BY <1>1 DEF StopsOnce
<1>2. CASE n <= Len(s)
  BY <1>1, <1>2 DEF StopsOnce
<1>3. CASE m > Len(s)
  <2>1. /\ m - Len(s) \in 1..Len(t) /\ n - Len(s) \in 1..Len(t)
        /\ m - Len(s) # n - Len(s)
        /\ t[m - Len(s)] = t[n - Len(s)] /\ t[m - Len(s)].op \in Stopping
    BY <1>1, <1>3
  <2> QED
    BY <2>1 DEF StopsOnce
<1>4. CASE m <= Len(s) /\ n > Len(s)
  <2>1. m \in 1..Len(s) /\ s[m] \in Step /\ s[m].op \in Stopping
    BY <1>1, <1>4
  <2>2. n - Len(s) \in 1..Len(t) /\ t[n - Len(s)] = s[m]
    BY <1>1, <1>4
  <2>3. In(s, s[m]) /\ In(t, s[m])
    BY <2>1, <2>2 DEF In
  <2> QED
    BY <2>1, <2>3
<1> QED
  BY <1>1, <1>2, <1>3, <1>4

\* The rest of a reload is a reload.
LEMMA TailReload ==
  ASSUME NEW s, ReloadTodo(s), s # <<>>
  PROVE  /\ ReloadTodo(Tail(s))
         /\ Head(s) \in Step /\ Head(s).op \in ReloadOps
         /\ Head(s).op \in Starting =>
              \A x : x.op \in Stopping => ~In(Tail(s), x)
         /\ Head(s).op \in Stopping => ~In(Tail(s), Head(s))
         /\ Head(s).op = "return" => Tail(s) = <<>>
<1> DEFINE t == Tail(s)
<1>1. /\ s \in Seq(Step) /\ Len(s) \in Nat /\ Len(s) > 0
      /\ t \in Seq(Step) /\ Len(t) = Len(s) - 1
      /\ Head(s) = s[1]
      /\ \A n \in 1..Len(t) : t[n] = s[n + 1] /\ n + 1 \in 1..Len(s)
  BY DEF ReloadTodo
<1>2. Head(s) \in Step /\ Head(s).op \in ReloadOps
  BY <1>1 DEF ReloadTodo
<1>3. \A x : In(s, x) <=> Head(s) = x \/ In(t, x)
  BY <1>1, InTail
<1>4. ASSUME NEW x, In(t, x)
      PROVE  /\ Head(s).op \in Starting => x.op \notin Stopping
             /\ Head(s) = x => x.op \notin Stopping
             /\ Head(s).op # "return"
  <2>1. PICK n \in 1..Len(t) : t[n] = x
    BY <1>4 DEF In
  <2>2. s[n + 1] = x /\ n + 1 \in 1..Len(s) /\ 1 < n + 1 /\ 1 \in 1..Len(s)
    BY <1>1, <2>1
  <2>3. Head(s).op \in Starting => x.op \notin Stopping
    BY <1>1, <2>2 DEF ReloadTodo, StopsFirst
  <2>4. Head(s) = x => x.op \notin Stopping
    BY <1>1, <2>2 DEF ReloadTodo, StopsOnce
  <2>5. Head(s).op # "return"
    <3>1. s[1].op = "return" => 1 = Len(s)
      BY <2>2 DEF ReloadTodo, ReturnsLast
    <3>2. Len(s) # 1
      BY ONLY <1>1, <2>2
    <3> QED
      BY ONLY <1>1, <3>1, <3>2
  <2> QED
    BY <2>3, <2>4, <2>5
<1> HIDE DEF t
<1>5. StopsFirst(t)
  BY <1>1 DEF StopsFirst, ReloadTodo
<1>6. StopsOnce(t)
  BY <1>1 DEF StopsOnce, ReloadTodo
<1>7. ReturnsLast(t) /\ \A n \in 1..Len(t) : t[n].op \in ReloadOps
  <2>1. /\ \A n \in 1..Len(s) : s[n].op = "return" => n = Len(s)
        /\ \A n \in 1..Len(s) : s[n].op \in ReloadOps
    BY DEF ReturnsLast, ReloadTodo
  <2>2. ReturnsLast(t)
    BY ONLY <1>1, <2>1 DEF ReturnsLast
  <2>3. \A n \in 1..Len(t) : t[n].op \in ReloadOps
    BY ONLY <1>1, <2>1
  <2> QED
    BY ONLY <2>2, <2>3
<1>8. StartsAgain(t)
  <2>1. ASSUME NEW o, In(t, Do("stop", o))
        PROVE  Head(s).op \notin Starting
    BY <1>4, <2>1 DEF Do, Stopping
  <2>2. ASSUME In(t, Do("stopPartners", PtNone))
        PROVE  Head(s).op \notin Starting
    BY <1>4, <2>2 DEF Do, Stopping
  <2>3. \A o : Do("start", o).op \in Starting /\ Do("startPartners", o).op \in Starting
    BY DEF Do, Starting
  <2>4. StartsAgain(s)
    BY DEF ReloadTodo
  <2>5. ASSUME NEW o \in PtShared, In(t, Do("stop", o))
        PROVE  In(t, Do("start", o))
    BY <1>3, <2>1, <2>3, <2>4, <2>5 DEF StartsAgain
  <2>6. ASSUME In(t, Do("stopPartners", PtNone))
        PROVE  In(t, Do("startPartners", PtNone))
    BY <1>3, <2>2, <2>3, <2>4, <2>6 DEF StartsAgain
  <2>7. ASSUME NEW id \in PtIds, In(t, Do("stop", id))
        PROVE  /\ In(t, Do("startPartners", PtNone))
               /\ ~In(t, Do("stopPartners", PtNone))
    BY <1>3, <2>1, <2>3, <2>4, <2>7 DEF StartsAgain
  <2> QED
    BY <2>5, <2>6, <2>7 DEF StartsAgain
<1>9. Head(s).op = "return" => t = <<>>
  <2>1. SUFFICES ASSUME Head(s).op = "return", t # <<>> PROVE FALSE
    OBVIOUS
  <2>2. In(t, Head(t))
    BY <1>1, <2>1 DEF In
  <2> QED
    BY <1>4, <2>1, <2>2
<1> QED
  BY <1>1, <1>2, <1>4, <1>5, <1>6, <1>7, <1>8, <1>9 DEF ReloadTodo, t

\* The operations of the steps of a concatenation.
LEMMA OpsConcat ==
  ASSUME NEW O, NEW s \in Seq(Step), NEW t \in Seq(Step),
         \A n \in 1..Len(s) : s[n].op \in O,
         \A n \in 1..Len(t) : t[n].op \in O
  PROVE  \A n \in 1..Len(s \o t) : (s \o t)[n].op \in O
<1>1. /\ Len(s) \in Nat /\ Len(t) \in Nat /\ Len(s \o t) = Len(s) + Len(t)
      /\ \A n \in 1..Len(s) : (s \o t)[n] = s[n]
      /\ \A n \in Len(s) + 1..Len(s) + Len(t) :
           (s \o t)[n] = t[n - Len(s)] /\ n - Len(s) \in 1..Len(t)
  OBVIOUS
<1> QED
  BY <1>1

\* Without returns in its first part, a concatenation returns last.
LEMMA ReturnsLastConcat ==
  ASSUME NEW s \in Seq(Step), NEW t \in Seq(Step), ReturnsLast(t),
         \A n \in 1..Len(s) : s[n].op # "return"
  PROVE  ReturnsLast(s \o t)
<1>1. /\ Len(s) \in Nat /\ Len(t) \in Nat /\ Len(s \o t) = Len(s) + Len(t)
      /\ \A n \in 1..Len(s) : (s \o t)[n] = s[n]
      /\ \A n \in Len(s) + 1..Len(s) + Len(t) :
           (s \o t)[n] = t[n - Len(s)] /\ n - Len(s) \in 1..Len(t)
  OBVIOUS
<1> SUFFICES ASSUME NEW n \in 1..Len(s) + Len(t),
                    (s \o t)[n].op = "return"
             PROVE  n = Len(s) + Len(t)
  BY <1>1 DEF ReturnsLast
<1>2. n > Len(s)
  BY <1>1
<1>3. n - Len(s) \in 1..Len(t) /\ t[n - Len(s)].op = "return"
  BY <1>1, <1>2
<1>4. n - Len(s) = Len(t)
  BY <1>3 DEF ReturnsLast
<1> QED
  BY ONLY <1>1, <1>4, n \in 1..Len(s) + Len(t)

\* Partners in any order, and the steps of one kind for each of them.
Orders(P) == {order \in [1..Cardinality(P) -> P] :
                \A i \in P : \E n \in DOMAIN order : order[n] = i}
StepsOfEach(op, order) == [n \in DOMAIN order |-> Do(op, order[n])]
OncePerPartner(s, op, P) ==
  /\ s \in Seq(Step) /\ \A n \in 1..Len(s) : s[n].op = op
  /\ \A x : In(s, x) <=> \E i \in P : x = Do(op, i)
  /\ StopsFirst(s) /\ StopsOnce(s)

\* PartnerManager.Stop and Start: one step for each partner of byId, once.
LEMMA EachOfPartners ==
  ASSUME NEW P \in SUBSET PtIds, IsFiniteSet(P), NEW op \in {"stop", "start"},
         NEW order \in Orders(P)
  PROVE  OncePerPartner(StepsOfEach(op, order), op, P)
<1> DEFINE k == Cardinality(P)
           s == StepsOfEach(op, order)
<1>1. k \in Nat /\ IsFiniteSet(1..k) /\ Cardinality(1..k) = k
  <2>1. k \in Nat
    BY FS_CardinalityType, IsFiniteSet(P)
  <2> HIDE DEF k
  <2>2. IsFiniteSet(1..k) /\ Cardinality(1..k) = IF 1 > k THEN 0 ELSE k - 1 + 1
    BY ONLY <2>1, FS_Interval
  <2> QED
    BY ONLY <2>1, <2>2
<1>2. order \in Surjection(1..k, P)
  BY DEF Surjection, Orders
<1>3. order \in Injection(1..k, P)
  BY <1>1, <1>2, FS_SurjSameCardinalityImpliesInj
<1>4. \A m, n \in 1..k : order[m] = order[n] => m = n
  BY <1>3 DEF Injection, IsInjective
<1>5. \A i \in PtIds : Do(op, i) \in Step /\ Do(op, i).op = op
  BY DEF Do, Step
<1>6. /\ DOMAIN order = 1..k /\ \A n \in 1..k : order[n] \in P
      /\ \A i \in P : \E n \in 1..k : order[n] = i
  BY DEF Orders
<1>7. s \in Seq(Step) /\ Len(s) = k
  BY <1>1, <1>5, <1>6 DEF StepsOfEach
<1>8. \A n \in 1..k : s[n] = Do(op, order[n])
  BY <1>6 DEF StepsOfEach
<1> HIDE DEF s, k
<1>9. \A n \in 1..Len(s) : s[n].op = op
  BY <1>5, <1>6, <1>7, <1>8
<1>10. \A x : In(s, x) <=> \E i \in P : x = Do(op, i)
  BY <1>6, <1>7, <1>8 DEF In
<1>11. StopsFirst(s)
  BY <1>9 DEF StopsFirst, Starting, Stopping
<1>12. StopsOnce(s)
  <2>1. \A i, j : Do(op, i) = Do(op, j) => i = j
    BY DEF Do
  <2> QED
    BY <1>4, <1>7, <1>8, <2>1 DEF StopsOnce
<1> QED
  BY <1>7, <1>9, <1>10, <1>11, <1>12 DEF s, OncePerPartner

\* One loop of a reload, if the referential has it.
LEMMA IfThereSteps ==
  ASSUME NEW do \in {"stop", "start"}, NEW o
  PROVE  /\ IfThere(do, o) \in Seq(Step) /\ StopsOnce(IfThere(do, o))
         /\ \A n \in 1..Len(IfThere(do, o)) : IfThere(do, o)[n].op = do
         /\ \A x : In(IfThere(do, o), x) <=> o \in PtShared /\ x = Do(do, o)
<1>1. CASE o \in PtShared
  <2>1. Do(do, o) \in Step /\ Do(do, o).op = do
    BY <1>1, PtAssumption DEF PtAssumption, Do, Step, PtOwners
  <2>2. IfThere(do, o) = <<Do(do, o)>>
    BY <1>1 DEF IfThere
  <2> QED
    BY <1>1, <2>1, <2>2 DEF In, StopsOnce
<1>2. CASE o \notin PtShared
  <2>1. IfThere(do, o) = <<>>
    BY <1>2 DEF IfThere
  <2> QED
    BY <1>2, <2>1 DEF In, StopsOnce
<1> QED
  BY <1>1, <1>2

\* Referential.Stop and Start: every shared loop, and the partners.
LEMMA EachLoopSteps ==
  ASSUME NEW do, NEW each,
         \/ do = "stop" /\ each = "stopPartners"
         \/ do = "start" /\ each = "startPartners"
  PROVE  LET s == EachLoop(do, each)
         IN  /\ s \in Seq(Step) /\ StopsOnce(s)
             /\ \A n \in 1..Len(s) : s[n].op \in {do, each}
             /\ \A x : In(s, x) <=> \/ x = Do(each, PtNone)
                                    \/ \E o \in PtShared : x = Do(do, o)
<1> DEFINE A == IfThere(do, "partnersGuardian")
           B == <<Do(each, PtNone)>>
           C == IfThere(do, "modelGuardian")
           D == IfThere(do, "broadcastManager")
<1>1. EachLoop(do, each) = A \o B \o C \o D
  BY DEF EachLoop
<1>2. do \in {"stop", "start"}
  OBVIOUS
<1>3. /\ A \in Seq(Step) /\ StopsOnce(A)
      /\ \A n \in 1..Len(A) : A[n].op \in {do, each}
      /\ \A x : In(A, x) <=> /\ "partnersGuardian" \in PtShared
                             /\ x = Do(do, "partnersGuardian")
  BY <1>2, IfThereSteps
<1>4. /\ C \in Seq(Step) /\ StopsOnce(C)
      /\ \A n \in 1..Len(C) : C[n].op \in {do, each}
      /\ \A x : In(C, x) <=> /\ "modelGuardian" \in PtShared
                             /\ x = Do(do, "modelGuardian")
  BY <1>2, IfThereSteps
<1>5. /\ D \in Seq(Step) /\ StopsOnce(D)
      /\ \A n \in 1..Len(D) : D[n].op \in {do, each}
      /\ \A x : In(D, x) <=> /\ "broadcastManager" \in PtShared
                             /\ x = Do(do, "broadcastManager")
  BY <1>2, IfThereSteps
<1>6. /\ B \in Seq(Step) /\ StopsOnce(B)
      /\ \A n \in 1..Len(B) : B[n].op \in {do, each}
      /\ \A x : In(B, x) <=> x = Do(each, PtNone)
  <2>1. Do(each, PtNone) \in Step /\ Do(each, PtNone).op = each
    BY DEF Do, Step
  <2> QED
    BY <2>1 DEF In, StopsOnce
<1>7. \A o, q : /\ Do(do, o) # Do(each, q)
                /\ Do(do, o) = Do(do, q) => o = q
  BY DEF Do
<1> HIDE DEF A, B, C, D
<1>a. /\ \A x : In(A, x) => x = Do(do, "partnersGuardian")
      /\ \A x : In(B, x) => x = Do(each, PtNone)
      /\ \A x : In(C, x) => x = Do(do, "modelGuardian")
      /\ \A x : In(D, x) => x = Do(do, "broadcastManager")
  BY <1>3, <1>4, <1>5, <1>6
<1>8. /\ A \o B \in Seq(Step) /\ StopsOnce(A \o B)
      /\ \A n \in 1..Len(A \o B) : (A \o B)[n].op \in {do, each}
      /\ \A x : In(A \o B, x) <=> In(A, x) \/ In(B, x)
  <2>1. A \o B \in Seq(Step)
    BY <1>3, <1>6
  <2>2. \A x : In(A \o B, x) <=> In(A, x) \/ In(B, x)
    BY ONLY <1>3, <1>6, InConcat
  <2>3. \A x \in Step : x.op \in Stopping => ~(In(A, x) /\ In(B, x))
    BY <1>3, <1>6, <1>7
  <2>4. StopsOnce(A \o B)
    BY ONLY <1>3, <1>6, <2>3, StopsOnceConcat
  <2>5. \A n \in 1..Len(A \o B) : (A \o B)[n].op \in {do, each}
    BY ONLY <1>3, <1>6, OpsConcat
  <2> QED
    BY <2>1, <2>2, <2>4, <2>5
<1> DEFINE E == A \o B
<1> HIDE DEF E
<1>9. /\ E \o C \in Seq(Step) /\ StopsOnce(E \o C)
      /\ \A n \in 1..Len(E \o C) : (E \o C)[n].op \in {do, each}
      /\ \A x : In(E \o C, x) <=> In(E, x) \/ In(C, x)
  <2>1. /\ E \in Seq(Step) /\ StopsOnce(E)
        /\ \A n \in 1..Len(E) : E[n].op \in {do, each}
        /\ \A x : In(E, x) <=> In(A, x) \/ In(B, x)
    BY <1>8 DEF E
  <2>2. E \o C \in Seq(Step)
    BY <1>4, <2>1
  <2>3. \A x : In(E \o C, x) <=> In(E, x) \/ In(C, x)
    BY ONLY <1>4, <2>1, InConcat
  <2>4. \A x \in Step : x.op \in Stopping => ~(In(E, x) /\ In(C, x))
    <3>1. \A x : In(E, x) => In(A, x) \/ In(B, x)
      BY ONLY <2>1
    <3> QED
      BY ONLY <1>7, <1>a, <3>1, "modelGuardian" # "partnersGuardian"
  <2>5. StopsOnce(E \o C)
    BY ONLY <1>4, <2>1, <2>4, StopsOnceConcat
  <2>6. \A n \in 1..Len(E \o C) : (E \o C)[n].op \in {do, each}
    BY ONLY <1>4, <2>1, OpsConcat
  <2> QED
    BY <2>2, <2>3, <2>5, <2>6
<1> DEFINE F == E \o C
<1> HIDE DEF F
<1>10. /\ F \o D \in Seq(Step) /\ StopsOnce(F \o D)
       /\ \A n \in 1..Len(F \o D) : (F \o D)[n].op \in {do, each}
       /\ \A x : In(F \o D, x) <=> In(F, x) \/ In(D, x)
  <2>1. /\ F \in Seq(Step) /\ StopsOnce(F)
        /\ \A n \in 1..Len(F) : F[n].op \in {do, each}
        /\ \A x : In(F, x) <=> In(E, x) \/ In(C, x)
    BY <1>9 DEF F
  <2>2. F \o D \in Seq(Step)
    BY <1>5, <2>1
  <2>3. \A x : In(F \o D, x) <=> In(F, x) \/ In(D, x)
    BY ONLY <1>5, <2>1, InConcat
  <2>4. \A x \in Step : x.op \in Stopping => ~(In(F, x) /\ In(D, x))
    <3>1. \A x : In(E, x) => In(A, x) \/ In(B, x)
      BY <1>8 DEF E
    <3>2. \A x : In(F, x) => In(E, x) \/ In(C, x)
      BY ONLY <2>1
    <3> QED
      BY ONLY <1>7, <1>a, <3>1, <3>2, "broadcastManager" # "partnersGuardian",
              "broadcastManager" # "modelGuardian"
  <2>5. StopsOnce(F \o D)
    BY ONLY <1>5, <2>1, <2>4, StopsOnceConcat
  <2>6. \A n \in 1..Len(F \o D) : (F \o D)[n].op \in {do, each}
    BY ONLY <1>5, <2>1, OpsConcat
  <2> QED
    BY <2>2, <2>3, <2>5, <2>6
<1>11. EachLoop(do, each) = F \o D
  BY <1>1 DEF E, F
<1>12. \A x : In(F \o D, x) <=> In(A, x) \/ In(B, x) \/ In(C, x) \/ In(D, x)
  BY <1>8, <1>9, <1>10 DEF E, F
<1>13. \A x : In(F \o D, x) <=> \/ x = Do(each, PtNone)
                                \/ \E o \in PtShared : x = Do(do, o)
  BY ONLY <1>3, <1>4, <1>5, <1>6, <1>12, PtAssumption
     DEF PtAssumption, PtAllShared
<1> QED
  BY ONLY <1>10, <1>11, <1>13

\* Steps differ by what they do and by what they are about.
LEMMA Steps ==
  /\ \A do, o : Do(do, o).op = do /\ Do(do, o).of = o
  /\ \A do, o, do2, o2 : Do(do, o) = Do(do2, o2) <=> do = do2 /\ o = o2
<1>1. \A do, o : Do(do, o).op = do /\ Do(do, o).of = o
  BY DEF Do
<1> QED
  BY <1>1

\* What a sequence is made of has the operations of its elements.
LEMMA OpsIn ==
  ASSUME NEW O, NEW s \in Seq(Step)
  PROVE  (\A n \in 1..Len(s) : s[n].op \in O) <=> \A x : In(s, x) => x.op \in O
<1>1. ASSUME \A n \in 1..Len(s) : s[n].op \in O, NEW x, In(s, x)
      PROVE  x.op \in O
  BY <1>1 DEF In
<1>2. ASSUME \A x : In(s, x) => x.op \in O, NEW n \in 1..Len(s)
      PROVE  s[n].op \in O
  BY <1>2 DEF In
<1> QED
  BY <1>1, <1>2

\* What a reload does: every loop and the partners, stopped then started.
LEMMA ReloadModelSteps ==
  /\ ReloadTodo(ReloadModel)
  /\ \A x : In(ReloadModel, x) <=>
       \/ x \in {Do("stopPartners", PtNone), Do("startPartners", PtNone)}
       \/ \E o \in PtShared : x \in {Do("stop", o), Do("start", o)}
<1> DEFINE S == EachLoop("stop", "stopPartners")
           T == EachLoop("start", "startPartners")
<1>1. /\ S \in Seq(Step) /\ StopsOnce(S)
      /\ \A n \in 1..Len(S) : S[n].op \in {"stop", "stopPartners"}
      /\ \A x : In(S, x) <=> \/ x = Do("stopPartners", PtNone)
                             \/ \E o \in PtShared : x = Do("stop", o)
  BY EachLoopSteps
<1>2. /\ T \in Seq(Step) /\ StopsOnce(T)
      /\ \A n \in 1..Len(T) : T[n].op \in {"start", "startPartners"}
      /\ \A x : In(T, x) <=> \/ x = Do("startPartners", PtNone)
                             \/ \E o \in PtShared : x = Do("start", o)
  BY EachLoopSteps
<1>3. ReloadModel = S \o T
  BY DEF ReloadModel
<1> HIDE DEF S, T
<1>4. StopsFirst(S) /\ StopsFirst(T)
  BY <1>1, <1>2 DEF StopsFirst, Starting, Stopping
<1>5. StopsFirst(S \o T)
  <2>1. \A n \in 1..Len(S) : S[n].op \notin Starting
    BY <1>1 DEF Starting
  <2> QED
    BY ONLY <1>1, <1>2, <1>4, <2>1, StopsFirstConcat
<1>6. StopsOnce(S \o T)
  <2>1. \A x : In(S, x) => x.op \in {"stop", "stopPartners"}
    BY ONLY <1>1, OpsIn
  <2>2. \A x : In(T, x) => x.op \in {"start", "startPartners"}
    BY ONLY <1>2, OpsIn
  <2>3. \A x \in Step : x.op \in Stopping => ~(In(S, x) /\ In(T, x))
    BY <2>1, <2>2
  <2> QED
    BY ONLY <1>1, <1>2, <2>3, StopsOnceConcat
<1>7. S \o T \in Seq(Step) /\ \A x : In(S \o T, x) <=> In(S, x) \/ In(T, x)
  <2>1. S \o T \in Seq(Step)
    BY <1>1, <1>2
  <2> QED
    BY ONLY <1>1, <1>2, <2>1, InConcat
<1>8. \A x : In(S \o T, x) <=>
        \/ x \in {Do("stopPartners", PtNone), Do("startPartners", PtNone)}
        \/ \E o \in PtShared : x \in {Do("stop", o), Do("start", o)}
  BY <1>1, <1>2, <1>7
<1>9. \A n \in 1..Len(S \o T) : (S \o T)[n].op \in Starting \cup Stopping
  <2>1. \A n \in 1..Len(S) : S[n].op \in Starting \cup Stopping
    BY <1>1 DEF Stopping
  <2>2. \A n \in 1..Len(T) : T[n].op \in Starting \cup Stopping
    BY <1>2 DEF Starting
  <2> QED
    BY ONLY <1>1, <1>2, <2>1, <2>2, OpsConcat
<1>10. StartsAgain(S \o T)
  <2>1. ASSUME NEW id \in PtIds PROVE ~In(S \o T, Do("stop", id))
    BY <1>8, Steps, PtAssumption DEF PtAssumption
  <2> QED
    BY <1>8, <2>1 DEF StartsAgain
<1>11. ReturnsLast(S \o T) /\ \A n \in 1..Len(S \o T) : (S \o T)[n].op \in ReloadOps
  BY <1>9 DEF ReturnsLast, ReloadOps, Starting, Stopping
<1> QED
  BY <1>3, <1>5, <1>6, <1>7, <1>8, <1>10, <1>11 DEF ReloadTodo

\* The guardian's reload ends with its return.
LEMMA CheckReloadSteps ==
  LET s == Append(ReloadModel, Do("return", PtNone))
  IN  ReloadTodo(s) /\ \A x : In(s, x) <=> \/ In(ReloadModel, x)
                                           \/ x = Do("return", PtNone)
<1> DEFINE R == <<Do("return", PtNone)>>
<1>1. ReloadTodo(ReloadModel) /\ ReloadModel \in Seq(Step)
  BY ReloadModelSteps DEF ReloadTodo
<1>2. R \in Seq(Step) /\ Len(R) = 1 /\ R[1] = Do("return", PtNone)
  <2>1. Do("return", PtNone) \in Step
    BY DEF Do, Step
  <2> QED
    BY <2>1
<1>3. Append(ReloadModel, Do("return", PtNone)) = ReloadModel \o R
  BY <1>1, <1>2
<1> HIDE DEF R
<1> DEFINE s == ReloadModel \o R
<1>4. s \in Seq(Step) /\ \A x : In(s, x) <=> In(ReloadModel, x) \/ In(R, x)
  BY <1>1, <1>2, InConcat
<1>5. \A x : In(R, x) <=> x = Do("return", PtNone)
  BY <1>2 DEF In
<1>6. StopsFirst(R) /\ StopsOnce(R) /\ ReturnsLast(R)
  BY <1>2 DEF StopsFirst, StopsOnce, ReturnsLast
<1>7. StopsFirst(s)
  <2>1. \A n \in 1..Len(R) : R[n].op \notin Stopping
    BY <1>2, Steps DEF Stopping
  <2>2. StopsFirst(ReloadModel)
    BY <1>1 DEF ReloadTodo
  <2> QED
    BY ONLY <1>1, <1>2, <1>6, <2>1, <2>2, StopsFirstConcat
<1>8. StopsOnce(s)
  <2>1. \A x \in Step : x.op \in Stopping => ~(In(ReloadModel, x) /\ In(R, x))
    BY <1>5, Steps DEF Stopping
  <2>2. StopsOnce(ReloadModel)
    BY <1>1 DEF ReloadTodo
  <2> QED
    BY ONLY <1>1, <1>2, <1>6, <2>1, <2>2, StopsOnceConcat
<1>9. \A x : In(ReloadModel, x) => x.op \in Starting \cup Stopping
  BY ReloadModelSteps, Steps DEF Starting, Stopping
<1>10. ReturnsLast(s)
  <2>1. \A n \in 1..Len(ReloadModel) : ReloadModel[n].op \in Starting \cup Stopping
    BY ONLY <1>1, <1>9, OpsIn
  <2>2. \A n \in 1..Len(ReloadModel) : ReloadModel[n].op # "return"
    BY <2>1 DEF Starting, Stopping
  <2> QED
    BY ONLY <1>1, <1>2, <1>6, <2>2, ReturnsLastConcat
<1>11. \A n \in 1..Len(s) : s[n].op \in ReloadOps
  <2>1. \A x : In(s, x) => x.op \in ReloadOps
    BY <1>4, <1>5, <1>9, Steps DEF ReloadOps
  <2> HIDE DEF s
  <2> QED
    BY ONLY <1>4, <2>1, OpsIn
<1>12. StartsAgain(s)
  <2>1. \A do, o : do # "return" =>
          (In(s, Do(do, o)) <=> In(ReloadModel, Do(do, o)))
    BY <1>4, <1>5, Steps
  <2>2. StartsAgain(ReloadModel)
    BY <1>1 DEF ReloadTodo
  <2> HIDE DEF s
  <2> QED
    BY ONLY <2>1, <2>2 DEF StartsAgain
<1> QED
  BY <1>3, <1>4, <1>5, <1>7, <1>8, <1>10, <1>11, <1>12 DEF ReloadTodo

\* A step for all the partners, and the one for each of them.
AllAndEach(all, each) == \/ all = "stopPartners" /\ each = "stop"
                         \/ all = "startPartners" /\ each = "start"

\* A reload that goes over the partners is still one.
LEMMA EachPartnerReload ==
  ASSUME NEW s, ReloadTodo(s), s # <<>>, NEW all, NEW each,
         AllAndEach(all, each), Head(s) = Do(all, PtNone),
         NEW P \in SUBSET PtIds, NEW t, OncePerPartner(t, each, P)
  PROVE  /\ ReloadTodo(t \o Tail(s))
         /\ \A x : In(t \o Tail(s), x) <=>
                     In(Tail(s), x) \/ \E i \in P : x = Do(each, i)
<1>a. /\ t \in Seq(Step) /\ \A n \in 1..Len(t) : t[n].op = each
      /\ \A x : In(t, x) <=> \E i \in P : x = Do(each, i)
      /\ StopsFirst(t) /\ StopsOnce(t)
  BY DEF OncePerPartner
<1>b. \/ all = "stopPartners" /\ each = "stop"
      \/ all = "startPartners" /\ each = "start"
  BY DEF AllAndEach
<1> DEFINE r == Tail(s)
           u == t \o r
<1>1. /\ ReloadTodo(r) /\ r \in Seq(Step)
      /\ all = "startPartners" => \A x : x.op \in Stopping => ~In(r, x)
      /\ all = "stopPartners" => ~In(r, Do("stopPartners", PtNone))
  BY TailReload, Steps DEF ReloadTodo, Starting, Stopping
<1>2. \A x : In(s, x) <=> x = Do(all, PtNone) \/ In(r, x)
  <2>1. s \in Seq(Step)
    BY DEF ReloadTodo
  <2>2. \A x : In(s, x) <=> Head(s) = x \/ In(Tail(s), x)
    BY ONLY <2>1, s # <<>>, InTail
  <2> QED
    BY <2>2
<1> HIDE DEF r
<1>3. u \in Seq(Step) /\ \A x : In(u, x) <=> In(t, x) \/ In(r, x)
  BY <1>a, <1>1, InConcat
<1>4. StopsFirst(u)
  <2>1. ASSUME all = "stopPartners"
        PROVE  \A n \in 1..Len(t) : t[n].op \notin Starting
    BY <1>a, <1>b, <1>a, <2>1 DEF Starting
  <2>2. ASSUME all = "startPartners"
        PROVE  \A n \in 1..Len(r) : r[n].op \notin Stopping
    BY <1>1, <2>2 DEF In
  <2>3. StopsFirst(r)
    BY <1>1 DEF ReloadTodo
  <2>4. \/ \A n \in 1..Len(t) : t[n].op \notin Starting
        \/ \A n \in 1..Len(r) : r[n].op \notin Stopping
    BY <1>b, <2>1, <2>2
  <2> QED
    BY ONLY <1>1, <1>a, <2>3, <2>4, StopsFirstConcat
<1>5. StopsOnce(u)
  <2>1. ASSUME NEW i \in P PROVE ~(Do(each, i).op \in Stopping /\ In(r, Do(each, i)))
    <3>1. CASE all = "stopPartners"
      <4>1. In(s, Do("stopPartners", PtNone))
        BY <1>2, <3>1
      <4>2. ~In(s, Do("stop", i))
        BY <4>1 DEF ReloadTodo, StartsAgain
      <4> QED
        BY <1>a, <1>b, <1>2, <3>1, <4>2
    <3>2. CASE all = "startPartners"
      BY <1>1, <3>2
    <3> QED
      BY <1>b, <3>1, <3>2
  <2>2. \A x \in Step : x.op \in Stopping => ~(In(t, x) /\ In(r, x))
    BY <1>a, <2>1
  <2>3. StopsOnce(r)
    BY <1>1 DEF ReloadTodo
  <2> QED
    BY ONLY <1>1, <1>a, <2>2, <2>3, StopsOnceConcat
<1>6. ReturnsLast(u)
  <2>1. ReturnsLast(r)
    BY <1>1 DEF ReloadTodo
  <2>2. \A n \in 1..Len(t) : t[n].op # "return"
    BY <1>a, <1>b
  <2> QED
    BY ONLY <1>a, <1>1, <2>1, <2>2, ReturnsLastConcat
<1>7. \A n \in 1..Len(u) : u[n].op \in ReloadOps
  <2>1. \A n \in 1..Len(r) : r[n].op \in ReloadOps
    BY <1>1 DEF ReloadTodo
  <2>2. \A n \in 1..Len(t) : t[n].op \in ReloadOps
    BY <1>a, <1>b DEF ReloadOps, Starting, Stopping
  <2> QED
    BY ONLY <1>a, <1>1, <2>1, <2>2, OpsConcat
<1>8. \A x : In(u, x) <=> In(r, x) \/ \E i \in P : x = Do(each, i)
  BY <1>a, <1>3
<1> HIDE DEF u
<1>9. StartsAgain(u)
  <2>1. StartsAgain(s) /\ StartsAgain(r)
    BY <1>1 DEF ReloadTodo
  <2>2. CASE all = "stopPartners"
    <3>1. In(r, Do("startPartners", PtNone))
      <4>1. In(s, Do("startPartners", PtNone))
        BY <1>2, <2>1, <2>2 DEF StartsAgain
      <4> QED
        BY <1>2, <2>2, <4>1, Steps
    <3>2. ~In(u, Do("stopPartners", PtNone))
      BY <1>a, <1>b, <1>1, <1>8, <2>2, Steps
    <3>3. ASSUME NEW o \in PtShared, In(u, Do("stop", o))
          PROVE  In(u, Do("start", o))
      <4>1. In(r, Do("stop", o))
        BY <1>8, <3>3, Steps, PtAssumption DEF PtAssumption
      <4> QED
        BY <1>8, <2>1, <4>1 DEF StartsAgain
    <3> QED
      BY <1>8, <3>1, <3>2, <3>3 DEF StartsAgain
  <2>3. CASE all = "startPartners"
    <3>1. \A x : x.op \in Stopping => ~In(u, x)
      BY <1>a, <1>b, <1>1, <1>8, <2>3, Steps DEF Stopping
    <3> QED
      BY <3>1, Steps DEF StartsAgain, Stopping
  <2> QED
    BY <1>b, <2>2, <2>3
<1> QED
  BY <1>3, <1>4, <1>5, <1>6, <1>7, <1>8, <1>9 DEF ReloadTodo, u, r

-----------------------------------------------------------------------------
(* Loops.                                                                  *)

LoopsOK ==
  /\ ptStop \in [PtOwners -> {"nil", "open", "closed"}]
  /\ ptLoops \in [PtOwners -> Loops]
  /\ \A o \in PtOwners : /\ ptLoops[o].waiting > 0 => ptStop[o] = "open"
                         /\ ptStop[o] = "nil" => ptLoops[o].busy = 0

\* Nothing changes for the loops but o's.
OnlyLoop(o) ==
  \A p \in PtOwners \ {o} : ptStop'[p] = ptStop[p] /\ ptLoops'[p] = ptLoops[p]

\* The channel and the goroutines of one loop are all an operation changes.
LEMMA LoopChanged ==
  ASSUME LoopsOK, NEW o \in PtOwners, NEW c \in {"nil", "open", "closed"},
         NEW l \in Loops, l.waiting > 0 => c = "open", c = "nil" => l.busy = 0,
         ptStop' = [ptStop EXCEPT ![o] = c],
         ptLoops' = [ptLoops EXCEPT ![o] = l]
  PROVE  LoopsOK' /\ OnlyLoop(o) /\ ptStop'[o] = c /\ ptLoops'[o] = l
<1>1. /\ ptStop \in [PtOwners -> {"nil", "open", "closed"}]
      /\ ptLoops \in [PtOwners -> Loops]
  BY DEF LoopsOK
<1>2. /\ ptStop' \in [PtOwners -> {"nil", "open", "closed"}]
      /\ \A p \in PtOwners : ptStop'[p] = IF p = o THEN c ELSE ptStop[p]
  BY <1>1
<1>3. /\ ptLoops' \in [PtOwners -> Loops]
      /\ \A p \in PtOwners : ptLoops'[p] = IF p = o THEN l ELSE ptLoops[p]
  BY <1>1
<1>4. ASSUME NEW p \in PtOwners
      PROVE  /\ ptLoops'[p].waiting > 0 => ptStop'[p] = "open"
             /\ ptStop'[p] = "nil" => ptLoops'[p].busy = 0
  <2>1. CASE p = o
    BY <1>2, <1>3, <2>1
  <2>2. CASE p # o
    BY <1>2, <1>3, <2>2 DEF LoopsOK
  <2> QED
    BY <2>1, <2>2
<1>5. LoopsOK'
  BY <1>2, <1>3, <1>4 DEF LoopsOK
<1> QED
  BY <1>2, <1>3, <1>5 DEF OnlyLoop

\* The goroutines of a loop are counted.
LEMMA LoopFields ==
  ASSUME LoopsOK, NEW o \in PtOwners
  PROVE  /\ ptLoops[o] \in Loops
         /\ ptLoops[o].busy \in Nat /\ ptLoops[o].waiting \in Nat
         /\ ptLoops[o].doomed \in Nat /\ ptLoops[o].orphan \in Nat
<1>1. ptLoops[o] \in Loops
  BY DEF LoopsOK
<1> QED
  BY <1>1 DEF Loops

\* What Stop does.
LEMMA StopLoopDoes ==
  ASSUME LoopsOK, NEW o \in PtOwners, ptStop[o] = "open", StopLoop(o)
  PROVE  /\ LoopsOK' /\ OnlyLoop(o) /\ ptStop'[o] = "closed"
         /\ o # "broadcastManager" => ptLoops'[o].busy = ptLoops[o].busy
<1> DEFINE l == ptLoops[o]
           own == o = "broadcastManager"
           b == IF own THEN 0 ELSE l.busy
           d == l.doomed + l.waiting + IF own THEN l.busy ELSE 0
           m == [l EXCEPT !.waiting = 0, !.busy = b, !.doomed = d]
<1>1. /\ l \in Loops /\ l.busy \in Nat /\ l.waiting \in Nat /\ l.doomed \in Nat
      /\ b \in Nat /\ d \in Nat
  BY LoopFields
<1>2. /\ ptStop' = [ptStop EXCEPT ![o] = "closed"]
      /\ ptLoops' = [ptLoops EXCEPT ![o] = m]
  BY DEF StopLoop, LoopsOK
<1> HIDE DEF l, b, d
<1>3. m \in Loops /\ m.busy = b /\ m.waiting = 0
  BY ONLY <1>1 DEF Loops
<1> HIDE DEF m
<1>4. m.waiting > 0 => "closed" = "open"
  BY ONLY <1>3
<1>5. LoopsOK' /\ OnlyLoop(o) /\ ptStop'[o] = "closed" /\ ptLoops'[o] = m
  <2>1. "closed" # "nil" /\ "closed" \in {"nil", "open", "closed"}
    OBVIOUS
  <2> QED
    BY ONLY LoopsOK, o \in PtOwners, <1>2, <1>3, <1>4, <2>1, LoopChanged
<1> QED
  BY ONLY <1>3, <1>5 DEF b, l, own

\* What Start does.
LEMMA StartLoopDoes ==
  ASSUME LoopsOK, NEW o \in PtOwners, StartLoop(o)
  PROVE  /\ LoopsOK' /\ OnlyLoop(o) /\ ptStop'[o] = "open"
         /\ ptLoops'[o].busy = ptLoops[o].busy + 1
<1> DEFINE l == ptLoops[o]
           b == l.busy + 1
           q == IF ptStop[o] = "open" THEN l.orphan + l.waiting ELSE l.orphan
           m == [l EXCEPT !.waiting = 0, !.busy = b, !.orphan = q]
<1>1. l \in Loops /\ b \in Nat /\ q \in Nat
  BY LoopFields
<1>2. /\ ptStop' = [ptStop EXCEPT ![o] = "open"]
      /\ ptLoops' = [ptLoops EXCEPT ![o] = m]
  BY DEF StartLoop
<1> HIDE DEF l, b, q
<1>3. m \in Loops /\ m.busy = b /\ m.waiting = 0
  BY ONLY <1>1 DEF Loops
<1> HIDE DEF m
<1>4. /\ m.waiting > 0 => "open" = "open"
      /\ "open" # "nil" /\ "open" \in {"nil", "open", "closed"}
  OBVIOUS
<1>5. LoopsOK' /\ OnlyLoop(o) /\ ptStop'[o] = "open" /\ ptLoops'[o] = m
  BY ONLY LoopsOK, o \in PtOwners, <1>2, <1>3, <1>4, LoopChanged
<1> QED
  BY ONLY <1>3, <1>5 DEF b, l

\* The loops of a connector that goes.
LEMMA DropLoopDoes ==
  ASSUME LoopsOK, NEW o \in PtOwners, DropLoop(o)
  PROVE  LoopsOK' /\ OnlyLoop(o)
<1> DEFINE l == ptLoops[o]
           closed == ptStop[o] # "open"
           d == l.doomed + IF closed THEN l.busy ELSE 0
           q == l.orphan + IF closed THEN 0 ELSE l.busy + l.waiting
           m == [busy |-> 0, waiting |-> 0, doomed |-> d, orphan |-> q]
<1>1. d \in Nat /\ q \in Nat
  BY LoopFields
<1>2. /\ ptStop' = [ptStop EXCEPT ![o] = "nil"]
      /\ ptLoops' = [ptLoops EXCEPT ![o] = m]
  BY DEF DropLoop
<1> HIDE DEF d, q
<1>3. m \in Loops /\ m.waiting = 0 /\ m.busy = 0
  BY <1>1 DEF Loops
<1> HIDE DEF m
<1>4. m.waiting > 0 => "nil" = "open"
  BY <1>3
<1> QED
  BY ONLY LoopsOK, o \in PtOwners, <1>2, <1>3, <1>4, LoopChanged

\* A loop whose timer fires, the guardian that reloads included.
LEMMA TurnBegins ==
  ASSUME LoopsOK, NEW o \in PtOwners, ptLoops[o].waiting > 0,
         ptLoops' = [ptLoops EXCEPT ![o].waiting = @ - 1, ![o].busy = @ + 1],
         ptStop' = ptStop
  PROVE  /\ LoopsOK' /\ OnlyLoop(o) /\ ptStop[o] = "open"
         /\ ptLoops'[o].busy + ptLoops'[o].waiting =
              ptLoops[o].busy + ptLoops[o].waiting
         /\ ptLoops'[o].busy > 0
<1> DEFINE l == ptLoops[o]
           b == l.busy + 1
           w == l.waiting - 1
           m == [l EXCEPT !.waiting = w, !.busy = b]
<1>1. /\ l \in Loops /\ l.busy \in Nat /\ l.waiting \in Nat
      /\ l.doomed \in Nat /\ l.orphan \in Nat
  BY LoopFields
<1>2. /\ ptStop[o] = "open" /\ "open" # "nil"
      /\ ptStop' = [ptStop EXCEPT ![o] = "open"]
  BY DEF LoopsOK
<1>3. /\ b \in Nat /\ w \in Nat /\ b > 0 /\ b + w = l.busy + l.waiting
  BY <1>1
<1>4. ptLoops' = [ptLoops EXCEPT ![o] = m]
  <2>1. ptLoops' = [ptLoops EXCEPT ![o].waiting = w, ![o].busy = b]
    OBVIOUS
  <2> QED
    BY <1>1, <2>1 DEF LoopsOK, Loops
<1> HIDE DEF l, b, w
<1>5. m \in Loops /\ m.busy = b /\ m.waiting = w
  BY ONLY <1>1, <1>3 DEF Loops
<1> HIDE DEF m
<1>6. LoopsOK' /\ OnlyLoop(o) /\ ptLoops'[o] = m
  <2>1. /\ m.waiting > 0 => "open" = "open" /\ "open" \in {"nil", "open", "closed"}
        /\ "open" = "nil" => m.busy = 0
    BY ONLY <1>2
  <2> QED
    BY ONLY LoopsOK, o \in PtOwners, <1>2, <1>4, <1>5, <2>1, LoopChanged
<1> QED
  BY ONLY <1>2, <1>3, <1>5, <1>6 DEF l

\* A loop that goes on keeps its goroutines as long as its channel is open.
LEMMA LoopGoesOn ==
  ASSUME LoopsOK, NEW o \in PtOwners, PtLoop(o)
  PROVE  /\ LoopsOK' /\ OnlyLoop(o) /\ ptStop' = ptStop
         /\ ptStop[o] = "open" =>
              ptLoops'[o].busy + ptLoops'[o].waiting =
              ptLoops[o].busy + ptLoops[o].waiting
         /\ /\ ptTodo["guardian"] # <<>> /\ o = "modelGuardian"
            /\ ptLoops[o].busy > 0
            => ptLoops'[o].busy > 0
<1> DEFINE l == ptLoops[o]
<1>1. /\ l \in Loops /\ l.busy \in Nat /\ l.waiting \in Nat
      /\ l.doomed \in Nat /\ l.orphan \in Nat
  BY LoopFields
<1>2. /\ ptStop[o] \in {"nil", "open", "closed"}
      /\ ptStop = [ptStop EXCEPT ![o] = ptStop[o]]
      /\ l.waiting > 0 => ptStop[o] = "open"
      /\ ptStop[o] = "nil" => l.busy = 0
  BY DEF LoopsOK
<1>3. ASSUME NEW m \in Loops, m.waiting > 0 => ptStop[o] = "open",
             ptStop[o] = "nil" => m.busy = 0,
             ptStop' = ptStop, ptLoops' = [ptLoops EXCEPT ![o] = m]
      PROVE  LoopsOK' /\ OnlyLoop(o) /\ ptLoops'[o] = m
  <2>1. ptStop' = [ptStop EXCEPT ![o] = ptStop[o]]
    BY <1>2, <1>3
  <2> QED
    BY ONLY LoopsOK, o \in PtOwners, <1>2, <1>3, <2>1, LoopChanged
<1>4. CASE Select(o) /\ ptStop[o] = "open"
  <2> DEFINE b == l.busy - 1
             w == l.waiting + 1
             m == [l EXCEPT !.busy = b, !.waiting = w]
  <2>a. /\ ptStop' = ptStop
        /\ l.busy > IF o = "modelGuardian" /\ ptTodo["guardian"] # <<>>
                    THEN 1 ELSE 0
    BY <1>4 DEF Select
  <2>b. b = l.busy - 1 /\ w = l.waiting + 1
    OBVIOUS
  <2>c. b \in Nat /\ (ptTodo["guardian"] # <<>> /\ o = "modelGuardian" => b > 0)
    <3> HIDE DEF l, b, w
    <3> QED
      BY ONLY <1>1, <2>a, <2>b
  <2>1. /\ ptStop' = ptStop /\ b \in Nat /\ w \in Nat /\ b = l.busy - 1
        /\ b + w = l.busy + l.waiting
        /\ ptTodo["guardian"] # <<>> /\ o = "modelGuardian" => b > 0
    <3> HIDE DEF l, b, w
    <3>1. w \in Nat /\ b + w = l.busy + l.waiting
      BY ONLY <1>1, <2>b
    <3> QED
      BY ONLY <2>a, <2>b, <2>c, <3>1
  <2>2. ptLoops' = [ptLoops EXCEPT ![o] = m]
    BY <1>4 DEF Select
  <2> HIDE DEF l, b, w
  <2>3. m \in Loops /\ m.busy = b /\ m.waiting = w
    BY ONLY <1>1, <2>1 DEF Loops
  <2> HIDE DEF m
  <2>4. LoopsOK' /\ OnlyLoop(o) /\ ptLoops'[o] = m
    <3>1. ptStop[o] = "open" /\ "open" # "nil"
      BY <1>4
    <3> QED
      BY ONLY <1>3, <2>1, <2>2, <2>3, <3>1
  <2> QED
    BY ONLY <2>1, <2>3, <2>4 DEF l
<1>5. CASE Select(o) /\ ptStop[o] # "open"
  <2> DEFINE b == l.busy - 1
             d == l.doomed + 1
             m == [l EXCEPT !.busy = b, !.doomed = d]
  <2>a. /\ ptStop' = ptStop
        /\ l.busy > IF o = "modelGuardian" /\ ptTodo["guardian"] # <<>>
                    THEN 1 ELSE 0
    BY <1>5 DEF Select
  <2>1. /\ ptStop' = ptStop /\ b \in Nat /\ d \in Nat /\ l.busy # 0
        /\ ptTodo["guardian"] # <<>> /\ o = "modelGuardian" => b > 0
    BY ONLY <1>1, <2>a
  <2>2. ptLoops' = [ptLoops EXCEPT ![o] = m]
    BY <1>5 DEF Select
  <2> HIDE DEF l, b, d
  <2>3. m \in Loops /\ m.busy = b /\ m.waiting = l.waiting
    BY ONLY <1>1, <2>1 DEF Loops
  <2> HIDE DEF m
  <2>4. LoopsOK' /\ OnlyLoop(o) /\ ptLoops'[o] = m
    <3>1. (m.waiting > 0 => ptStop[o] = "open") /\ ptStop[o] # "nil"
      BY ONLY <1>2, <2>1, <2>3
    <3> QED
      BY ONLY <1>3, <2>1, <2>2, <2>3, <3>1
  <2>5. ptStop[o] # "open"
    BY <1>5
  <2> QED
    BY ONLY <2>1, <2>3, <2>4, <2>5 DEF l
<1>6. CASE Tick(o)
  <2>1. /\ ptLoops[o].waiting > 0 /\ ptStop' = ptStop
        /\ ptLoops' = [ptLoops EXCEPT ![o].waiting = @ - 1, ![o].busy = @ + 1]
    BY <1>6 DEF Tick
  <2> QED
    BY ONLY LoopsOK, o \in PtOwners, <2>1, TurnBegins
<1>7. CASE Leave(o)
  <2> DEFINE d == l.doomed - 1
             m == [l EXCEPT !.doomed = d]
  <2>1. ptStop' = ptStop /\ d \in Nat
    BY <1>1, <1>7 DEF Leave
  <2>2. ptLoops' = [ptLoops EXCEPT ![o] = m]
    BY <1>7 DEF Leave
  <2> HIDE DEF l, d
  <2>3. m \in Loops /\ m.busy = l.busy /\ m.waiting = l.waiting
    BY ONLY <1>1, <2>1 DEF Loops
  <2> HIDE DEF m
  <2>4. LoopsOK' /\ OnlyLoop(o) /\ ptLoops'[o] = m
    <3>1. /\ m.waiting > 0 => ptStop[o] = "open"
          /\ ptStop[o] = "nil" => m.busy = 0
      BY ONLY <1>2, <2>3
    <3> QED
      BY ONLY <1>3, <2>1, <2>2, <2>3, <3>1
  <2> QED
    BY ONLY <2>1, <2>3, <2>4 DEF l
<1> QED
  BY <1>4, <1>5, <1>6, <1>7 DEF PtLoop

-----------------------------------------------------------------------------
(* The steps of a request about a partner.                                 *)

\* What is in a short sequence.
LEMMA InFew ==
  /\ \A a, x : In(<<a>>, x) <=> x = a
  /\ \A a, b, x : In(<<a, b>>, x) <=> x \in {a, b}
  /\ \A a, b, c, x : In(<<a, b, c>>, x) <=> x \in {a, b, c}
  /\ \A a, b, c, d, x : In(<<a, b, c, d>>, x) <=> x \in {a, b, c, d}
  /\ \A a, b, c, d, e, x :
       In(<<a, b, c, d, e>>, x) <=> x \in {a, b, c, d, e}
<1>1. ASSUME NEW a, NEW x PROVE In(<<a>>, x) <=> x = a
  <2> DEFINE s == <<a>>
  <2>1. Len(s) = 1 /\ s[1] = a
    OBVIOUS
  <2> HIDE DEF s
  <2>2. In(s, x) <=> x = a
    BY <2>1 DEF In
  <2> QED
    BY <2>2 DEF s
<1>2. ASSUME NEW a, NEW b, NEW x PROVE In(<<a, b>>, x) <=> x \in {a, b}
  <2> DEFINE s == <<a, b>>
  <2>1. Len(s) = 2 /\ s[1] = a /\ s[2] = b
    OBVIOUS
  <2> HIDE DEF s
  <2>2. In(s, x) <=> x \in {a, b}
    BY <2>1 DEF In
  <2> QED
    BY <2>2 DEF s
<1>3. ASSUME NEW a, NEW b, NEW c, NEW x PROVE In(<<a, b, c>>, x) <=> x \in {a, b, c}
  <2> DEFINE s == <<a, b, c>>
  <2>1. Len(s) = 3 /\ s[1] = a /\ s[2] = b /\ s[3] = c
    OBVIOUS
  <2> HIDE DEF s
  <2>2. In(s, x) <=> x \in {a, b, c}
    BY <2>1 DEF In
  <2> QED
    BY <2>2 DEF s
<1>4. ASSUME NEW a, NEW b, NEW c, NEW d, NEW x PROVE In(<<a, b, c, d>>, x) <=> x \in {a, b, c, d}
  <2> DEFINE s == <<a, b, c, d>>
  <2>1. Len(s) = 4 /\ s[1] = a /\ s[2] = b /\ s[3] = c /\ s[4] = d
    OBVIOUS
  <2> HIDE DEF s
  <2>2. In(s, x) <=> x \in {a, b, c, d}
    BY <2>1 DEF In
  <2> QED
    BY <2>2 DEF s
<1>5. ASSUME NEW a, NEW b, NEW c, NEW d, NEW e, NEW x PROVE In(<<a, b, c, d, e>>, x) <=> x \in {a, b, c, d, e}
  <2> DEFINE s == <<a, b, c, d, e>>
  <2>1. Len(s) = 5 /\ s[1] = a /\ s[2] = b /\ s[3] = c /\ s[4] = d /\ s[5] = e
    OBVIOUS
  <2> HIDE DEF s
  <2>2. In(s, x) <=> x \in {a, b, c, d, e}
    BY <2>1 DEF In
  <2> QED
    BY <2>2 DEF s
<1> QED
  BY <1>1, <1>2, <1>3, <1>4, <1>5

\* Each step of a request about a partner, and what remains after it.
LEMMA PartnerHeads ==
  ASSUME NEW id
  PROVE  /\ \A s \in Validates(id) :
              /\ s # <<>> /\ Head(s) = Do("validate", id)
              /\ Tail(s) \in Defines(id)
         /\ \A s \in Defines(id) :
              /\ s # <<>>
              /\ \/ Head(s) = Do("stop", id) /\ Tail(s) \in Defines(id)
                      /\ ~In(Tail(s), Do("stop", id))
                 \/ Head(s) = Do("define", id) /\ Tail(s) \in Saves(id)
         /\ \A s \in Saves(id) : /\ s # <<>> /\ Head(s) = Do("save", id)
                                 /\ Tail(s) \in Starts(id)
         /\ \A s \in Starts(id) : /\ s # <<>> /\ Head(s) = Do("start", id)
                                  /\ Tail(s) = <<>>
         /\ \A s \in Deletes(id) :
              /\ s # <<>>
              /\ \/ Head(s) = Do("stop", id) /\ Tail(s) \in Deletes(id)
                      /\ ~In(Tail(s), Do("stop", id))
                 \/ Head(s) = Do("delete", id) /\ Tail(s) = <<>>
<1> DEFINE v == Do("validate", id)
           p == Do("stop", id)
           d == Do("define", id)
           v1 == Do("save", id)
           t == Do("start", id)
           r == Do("delete", id)
<1>1. p # d /\ p # v1 /\ p # t /\ p # r
  BY DEF Do
<1>2. /\ Validates(id) = {<<v, d, v1, t>>, <<v, p, d, v1, t>>}
      /\ Defines(id) = {<<d, v1, t>>, <<p, d, v1, t>>}
      /\ Saves(id) = {<<v1, t>>} /\ Starts(id) = {<<t>>}
      /\ Deletes(id) = {<<p, r>>, <<r>>}
  BY DEF Validates, Defines, Saves, Starts, Deletes
<1> HIDE DEF v, p, d, v1, t, r
<1>3. /\ Head(<<v, d, v1, t>>) = v /\ Tail(<<v, d, v1, t>>) = <<d, v1, t>>
      /\ Head(<<v, p, d, v1, t>>) = v
      /\ Tail(<<v, p, d, v1, t>>) = <<p, d, v1, t>>
      /\ <<v, d, v1, t>> # <<>> /\ <<v, p, d, v1, t>> # <<>>
  OBVIOUS
<1>4. /\ Head(<<d, v1, t>>) = d /\ Tail(<<d, v1, t>>) = <<v1, t>>
      /\ Head(<<p, d, v1, t>>) = p /\ Tail(<<p, d, v1, t>>) = <<d, v1, t>>
      /\ <<d, v1, t>> # <<>> /\ <<p, d, v1, t>> # <<>>
  OBVIOUS
<1>5. /\ Head(<<v1, t>>) = v1 /\ Tail(<<v1, t>>) = <<t>> /\ <<v1, t>> # <<>>
      /\ Head(<<t>>) = t /\ Tail(<<t>>) = <<>> /\ <<t>> # <<>>
  OBVIOUS
<1>6. /\ Head(<<p, r>>) = p /\ Tail(<<p, r>>) = <<r>> /\ <<p, r>> # <<>>
      /\ Head(<<r>>) = r /\ Tail(<<r>>) = <<>> /\ <<r>> # <<>>
  OBVIOUS
<1>7. ~In(<<d, v1, t>>, p) /\ ~In(<<r>>, p)
  <2>1. In(<<d, v1, t>>, p) <=> p \in {d, v1, t}
    BY ONLY InFew
  <2>2. In(<<r>>, p) <=> p = r
    BY ONLY InFew
  <2> QED
    BY ONLY <1>1, <2>1, <2>2
<1>8. \A s \in Validates(id) : s # <<>> /\ Head(s) = v /\ Tail(s) \in Defines(id)
  BY ONLY <1>2, <1>3
<1>9. \A s \in Defines(id) :
        /\ s # <<>>
        /\ \/ Head(s) = p /\ Tail(s) \in Defines(id) /\ ~In(Tail(s), p)
           \/ Head(s) = d /\ Tail(s) \in Saves(id)
  BY ONLY <1>2, <1>4, <1>7
<1>10. \A s \in Saves(id) : s # <<>> /\ Head(s) = v1 /\ Tail(s) \in Starts(id)
  BY ONLY <1>2, <1>5
<1>11. \A s \in Starts(id) : s # <<>> /\ Head(s) = t /\ Tail(s) = <<>>
  BY ONLY <1>2, <1>5
<1>12. \A s \in Deletes(id) :
         /\ s # <<>>
         /\ \/ Head(s) = p /\ Tail(s) \in Deletes(id) /\ ~In(Tail(s), p)
            \/ Head(s) = r /\ Tail(s) = <<>>
  BY ONLY <1>2, <1>6, <1>7
<1> QED
  BY ONLY <1>8, <1>9, <1>10, <1>11, <1>12 DEF v, p, d, v1, t, r

\* Which steps are in a request about a partner.
LEMMA PartnerIn ==
  ASSUME NEW id \in PtIds
  PROVE  /\ \A s \in PartnerTodo(id) :
              /\ s \in Seq(Step)
              /\ \A x : In(s, x) =>
                   /\ x.of = id
                   /\ x.op \in {"validate", "stop", "define", "save", "start",
                                "delete"}
         /\ \A s \in PartnerTodo(id) \ Validates(id) :
              \A x : In(s, x) => x.op # "validate"
         /\ \A s \in Defines(id) \cup Saves(id) \cup Starts(id) \cup Validates(id) :
              In(s, Do("start", id)) /\ ~In(s, Do("delete", id))
         /\ \A s \in Deletes(id) : In(s, Do("delete", id))
         /\ \A s \in Defines(id) : In(s, Do("define", id))
         /\ \A s \in Saves(id) \cup Starts(id) : ~In(s, Do("stop", id))
<1> DEFINE v == Do("validate", id)
           p == Do("stop", id)
           d == Do("define", id)
           v1 == Do("save", id)
           t == Do("start", id)
           r == Do("delete", id)
<1>1. /\ v \in Step /\ p \in Step /\ d \in Step /\ v1 \in Step /\ t \in Step
      /\ r \in Step
  BY DEF Do, Step, PtOwners
<1>2. \A x \in {v, p, d, v1, t, r} :
        /\ x.of = id
        /\ x.op \in {"validate", "stop", "define", "save", "start", "delete"}
        /\ x # v => x.op # "validate"
  BY DEF Do
<1>3. /\ p # v /\ p # v1 /\ p # t /\ r # v /\ r # d /\ r # v1 /\ r # t
      /\ r # p /\ d # v /\ v1 # v /\ t # v
  BY DEF Do
<1>4. /\ Validates(id) = {<<v, d, v1, t>>, <<v, p, d, v1, t>>}
      /\ Defines(id) = {<<d, v1, t>>, <<p, d, v1, t>>}
      /\ Saves(id) = {<<v1, t>>} /\ Starts(id) = {<<t>>}
      /\ Deletes(id) = {<<p, r>>, <<r>>}
  BY DEF Validates, Defines, Saves, Starts, Deletes
<1> HIDE DEF v, p, d, v1, t, r
<1>5. /\ \A x : In(<<v, d, v1, t>>, x) <=> x \in {v, d, v1, t}
      /\ \A x : In(<<v, p, d, v1, t>>, x) <=> x \in {v, p, d, v1, t}
      /\ \A x : In(<<d, v1, t>>, x) <=> x \in {d, v1, t}
      /\ \A x : In(<<p, d, v1, t>>, x) <=> x \in {p, d, v1, t}
      /\ \A x : In(<<v1, t>>, x) <=> x \in {v1, t}
      /\ \A x : In(<<t>>, x) <=> x = t
      /\ \A x : In(<<p, r>>, x) <=> x \in {p, r}
      /\ \A x : In(<<r>>, x) <=> x = r
  <2>1. \A x : In(<<v, d, v1, t>>, x) <=> x \in {v, d, v1, t}
    BY ONLY InFew, SMT
  <2>2. \A x : In(<<v, p, d, v1, t>>, x) <=> x \in {v, p, d, v1, t}
    BY ONLY InFew, SMT
  <2>3. \A x : In(<<d, v1, t>>, x) <=> x \in {d, v1, t}
    BY ONLY InFew, SMT
  <2>4. \A x : In(<<p, d, v1, t>>, x) <=> x \in {p, d, v1, t}
    BY ONLY InFew, SMT
  <2>5. \A x : In(<<v1, t>>, x) <=> x \in {v1, t}
    BY ONLY InFew, SMT
  <2>6. \A x : In(<<t>>, x) <=> x = t
    BY ONLY InFew, SMT
  <2>7. \A x : In(<<p, r>>, x) <=> x \in {p, r}
    BY ONLY InFew, SMT
  <2>8. \A x : In(<<r>>, x) <=> x = r
    BY ONLY InFew, SMT
  <2> QED
    BY ONLY <2>1, <2>2, <2>3, <2>4, <2>5, <2>6, <2>7, <2>8
<1>6. /\ <<v, d, v1, t>> \in Seq(Step) /\ <<v, p, d, v1, t>> \in Seq(Step)
      /\ <<d, v1, t>> \in Seq(Step) /\ <<p, d, v1, t>> \in Seq(Step)
      /\ <<v1, t>> \in Seq(Step) /\ <<t>> \in Seq(Step)
      /\ <<p, r>> \in Seq(Step) /\ <<r>> \in Seq(Step)
  BY ONLY <1>1
<1>7. \A s \in PartnerTodo(id) : s \in Seq(Step)
  BY ONLY <1>4, <1>6 DEF PartnerTodo
<1>8. \A s \in PartnerTodo(id) : \A x : In(s, x) => x \in {v, p, d, v1, t, r}
  <2> SUFFICES ASSUME NEW s \in PartnerTodo(id), NEW x, In(s, x)
               PROVE  x \in {v, p, d, v1, t, r}
    OBVIOUS
  <2>1. s \in {<<v, d, v1, t>>, <<v, p, d, v1, t>>, <<d, v1, t>>,
               <<p, d, v1, t>>, <<v1, t>>, <<t>>, <<p, r>>, <<r>>}
    BY ONLY <1>4, s \in PartnerTodo(id) DEF PartnerTodo
  <2> QED
    BY ONLY <1>5, <2>1, In(s, x), Zenon
<1>9. \A s \in PartnerTodo(id) \ Validates(id) : \A x : In(s, x) => x # v
  <2> SUFFICES ASSUME NEW s \in PartnerTodo(id) \ Validates(id), In(s, v)
               PROVE  FALSE
    OBVIOUS
  <2>1. s \in {<<d, v1, t>>, <<p, d, v1, t>>, <<v1, t>>, <<t>>, <<p, r>>, <<r>>}
    BY ONLY <1>4, s \in PartnerTodo(id) \ Validates(id) DEF PartnerTodo
  <2>2. v \notin {p, d, v1, t, r}
    BY ONLY <1>3
  <2>3. v \in {p, d, v1, t, r}
    BY ONLY <1>5, <2>1, In(s, v), Zenon
  <2> QED
    BY ONLY <2>2, <2>3
<1>10. /\ \A s \in Defines(id) \cup Saves(id) \cup Starts(id) \cup Validates(id) :
            In(s, t) /\ ~In(s, r)
       /\ \A s \in Deletes(id) : In(s, r)
       /\ \A s \in Defines(id) : In(s, d)
       /\ \A s \in Saves(id) \cup Starts(id) : ~In(s, p)
  <2>1. ASSUME NEW s \in Defines(id) \cup Saves(id) \cup Starts(id)
                           \cup Validates(id)
        PROVE  In(s, t) /\ ~In(s, r)
    <3>1. s \in {<<v, d, v1, t>>, <<v, p, d, v1, t>>, <<d, v1, t>>,
                 <<p, d, v1, t>>, <<v1, t>>, <<t>>}
      BY ONLY <1>4, <2>1
    <3>2. In(s, t)
      BY ONLY <1>5, <3>1, Zenon
    <3>3. r \notin {v, p, d, v1, t}
      BY ONLY <1>3
    <3>4. In(s, r) => r \in {v, p, d, v1, t}
      BY ONLY <1>5, <3>1, Zenon
    <3> QED
      BY ONLY <3>2, <3>3, <3>4
  <2>2. ASSUME NEW s \in Deletes(id) PROVE In(s, r)
    <3>1. s \in {<<p, r>>, <<r>>}
      BY ONLY <1>4, <2>2
    <3> QED
      BY ONLY <1>5, <3>1, Zenon
  <2>3. ASSUME NEW s \in Saves(id) \cup Starts(id) PROVE ~In(s, p)
    <3>1. s \in {<<v1, t>>, <<t>>}
      BY ONLY <1>4, <2>3
    <3>2. p \notin {v1, t}
      BY ONLY <1>3
    <3>3. In(s, p) => p \in {v1, t}
      BY ONLY <1>5, <3>1, Zenon
    <3> QED
      BY ONLY <3>2, <3>3
  <2>4. ASSUME NEW s \in Defines(id) PROVE In(s, d)
    <3>1. s \in {<<d, v1, t>>, <<p, d, v1, t>>}
      BY ONLY <1>4, <2>4
    <3> QED
      BY ONLY <1>5, <3>1, Zenon
  <2> QED
    BY ONLY <2>1, <2>2, <2>3, <2>4
<1>11. \A s \in PartnerTodo(id) : \A x : In(s, x) =>
         /\ x.of = id
         /\ x.op \in {"validate", "stop", "define", "save", "start", "delete"}
  BY ONLY <1>2, <1>8
<1>12. \A s \in PartnerTodo(id) \ Validates(id) : \A x : In(s, x) => x.op # "validate"
  BY ONLY <1>2, <1>8, <1>9
<1> QED
  BY ONLY <1>7, <1>10, <1>11, <1>12 DEF t, r, p, d

-----------------------------------------------------------------------------
(* The shapes of what requests have still to do.                           *)

Shape(a, s) ==
  \/ ReloadTodo(s) /\ (a # "guardian" => ~In(s, Do("return", PtNone)))
  \/ a # "guardian" /\ \E id \in PtIds : s \in PartnerTodo(id)

\* Shapes, actor by actor.
LEMMA ShapesOfActors == Shapes <=> \A a \in PtActors : Shape(a, ptTodo[a])
<1>1. \A a \in PtThreads : a \in PtActors /\ a # "guardian"
  BY PtAssumption DEF PtAssumption, PtActors
<1>2. "guardian" \in PtActors
      /\ \A a \in PtActors : a # "guardian" => a \in PtThreads
  BY DEF PtActors
<1>3. ASSUME Shapes, NEW a \in PtActors PROVE Shape(a, ptTodo[a])
  <2>1. CASE a = "guardian"
    BY <1>3, <2>1 DEF Shapes, Shape
  <2>2. CASE a # "guardian"
    BY <1>2, <1>3, <2>2 DEF Shapes, Shape
  <2> QED
    BY <2>1, <2>2
<1>4. ASSUME \A a \in PtActors : Shape(a, ptTodo[a]) PROVE Shapes
  <2>1. ReloadTodo(ptTodo["guardian"])
    BY <1>2, <1>4 DEF Shape
  <2>2. ASSUME NEW a \in PtThreads
        PROVE  \/ \E id \in PtIds : ptTodo[a] \in PartnerTodo(id)
               \/ ReloadTodo(ptTodo[a]) /\ ~In(ptTodo[a], Do("return", PtNone))
    BY <1>1, <1>4 DEF Shape
  <2> QED
    BY <2>1, <2>2 DEF Shapes
<1> QED
  BY <1>3, <1>4

\* A request that is done.
LEMMA NothingToDo == ReloadTodo(<<>>) /\ \A x : ~In(<<>>, x)
<1>1. <<>> \in Seq(Step) /\ Len(<<>>) = 0
  OBVIOUS
<1>2. \A x : ~In(<<>>, x)
  BY <1>1 DEF In
<1> QED
  BY <1>1, <1>2 DEF ReloadTodo, StopsFirst, StopsOnce, StartsAgain, ReturnsLast

NoValidate(s) == \A x : In(s, x) => x.op # "validate"

\* The kind of a request's next step tells which request it is, and what
\* remains after it is again the rest of one.
LEMMA Heads ==
  ASSUME NEW a, NEW s, Shape(a, s), s # <<>>,
         NEW op, NEW o, Head(s) = Do(op, o)
  PROVE  /\ op = "validate" => s \in Validates(o) /\ Tail(s) \in Defines(o)
         /\ op = "define" => s \in Defines(o) /\ Tail(s) \in Saves(o)
         /\ op = "save" => s \in Saves(o) /\ Tail(s) \in Starts(o)
         /\ op = "delete" => s \in Deletes(o) /\ Tail(s) = <<>>
         /\ op = "stop" => \/ s \in Defines(o) /\ Tail(s) \in Defines(o)
                           \/ s \in Deletes(o) /\ Tail(s) \in Deletes(o)
                           \/ ReloadTodo(s)
         /\ op = "start" => s \in Starts(o) \/ ReloadTodo(s)
         /\ op \in {"stopPartners", "startPartners", "return"} => ReloadTodo(s)
         /\ op = "return" => a = "guardian" /\ Tail(s) = <<>>
         /\ op \in {"validate", "define", "save", "delete"} =>
              a # "guardian" /\ o \in PtIds
         /\ s \in Seq(Step) /\ Do(op, o) \in Step /\ In(s, Do(op, o))
         /\ Shape(a, Tail(s)) /\ Tail(s) \in Seq(Step)
         /\ \A x : In(s, x) <=> x = Do(op, o) \/ In(Tail(s), x)
         /\ NoValidate(Tail(s))
         /\ op = "stop" => ~In(Tail(s), Do("stop", o))
<1>1. Do(op, o).op = op /\ Do(op, o).of = o
  BY Steps
<1>2. s \in Seq(Step)
  BY PartnerIn DEF Shape, ReloadTodo
<1>3. Tail(s) \in Seq(Step) /\ Do(op, o) \in Step
  BY <1>2
<1>4. \A x : In(s, x) <=> x = Do(op, o) \/ In(Tail(s), x)
  <2>1. \A x : In(s, x) <=> Head(s) = x \/ In(Tail(s), x)
    BY ONLY <1>2, s # <<>>, InTail
  <2> QED
    BY <2>1
<1>5. CASE ReloadTodo(s) /\ (a # "guardian" => ~In(s, Do("return", PtNone)))
  <2>1. /\ ReloadTodo(Tail(s)) /\ op \in ReloadOps
        /\ op \in Stopping => ~In(Tail(s), Do(op, o))
        /\ op = "return" => Tail(s) = <<>>
    BY <1>1, <1>5, TailReload
  <2>2. Shape(a, Tail(s))
    BY <1>4, <1>5, <2>1 DEF Shape
  <2>3. op = "return" => a = "guardian"
    <3>1. ASSUME op = "return" PROVE Do(op, o) = Do("return", PtNone)
      BY <1>1, <1>3, <3>1 DEF Step, Do
    <3> QED
      BY <1>4, <1>5, <3>1
  <2>4. \A x : In(Tail(s), x) => x.op \in ReloadOps
    BY <2>1, OpsIn DEF ReloadTodo
  <2>5. op \in {"start", "startPartners", "stop", "stopPartners", "return"}
    BY <2>1 DEF ReloadOps, Starting, Stopping
  <2>6. op = "stop" => ~In(Tail(s), Do("stop", o))
    BY <2>1 DEF Stopping
  <2>7. \A x : In(Tail(s), x) => x.op # "validate"
    BY <2>4 DEF ReloadOps, Starting, Stopping
  <2> QED
    BY <1>2, <1>3, <1>4, <1>5, <2>1, <2>2, <2>3, <2>5, <2>6, <2>7
       DEF NoValidate
<1>6. CASE a # "guardian" /\ \E id \in PtIds : s \in PartnerTodo(id)
  <2>1. PICK id \in PtIds : s \in PartnerTodo(id)
    BY <1>6
  <2>2. a # "guardian" /\ op \notin {"stopPartners", "startPartners", "return"}
        /\ o = id
    BY <1>1, <1>4, <1>6, <2>1, PartnerIn
  <2>3. \A p, q : Do(op, o) = Do(p, q) => op = p /\ o = q
    BY Steps
  <2>4. CASE s \in Validates(id)
    <3>1. op = "validate" /\ Tail(s) \in Defines(id)
      BY <2>3, <2>4, PartnerHeads
    <3>2. Tail(s) \notin Validates(id)
      BY <3>1, PartnerHeads, Steps
    <3> QED
      BY <1>2, <1>3, <1>4, <2>1, <2>2, <2>4, <3>1, <3>2, PartnerIn
         DEF Shape, PartnerTodo, NoValidate
  <2>5. CASE s \in Defines(id)
    <3>1. \/ op = "stop" /\ Tail(s) \in Defines(id)
               /\ ~In(Tail(s), Do("stop", id))
          \/ op = "define" /\ Tail(s) \in Saves(id)
      BY <2>3, <2>5, PartnerHeads
    <3>2. Tail(s) \notin Validates(id)
      BY <3>1, PartnerHeads, Steps
    <3> QED
      BY <1>2, <1>3, <1>4, <2>1, <2>2, <2>5, <3>1, <3>2, PartnerIn
         DEF Shape, PartnerTodo, NoValidate
  <2>6. CASE s \in Saves(id)
    <3>1. op = "save" /\ Tail(s) \in Starts(id)
      BY <2>3, <2>6, PartnerHeads
    <3>2. Tail(s) \notin Validates(id)
      BY <3>1, PartnerHeads, Steps
    <3> QED
      BY <1>2, <1>3, <1>4, <2>1, <2>2, <2>6, <3>1, <3>2, PartnerIn
         DEF Shape, PartnerTodo, NoValidate
  <2>7. CASE s \in Starts(id)
    <3>1. op = "start" /\ Tail(s) = <<>>
      BY <2>3, <2>7, PartnerHeads
    <3>2. Shape(a, Tail(s)) /\ \A x : ~In(Tail(s), x)
      BY <3>1, NothingToDo DEF Shape
    <3> QED
      BY <1>2, <1>3, <1>4, <2>1, <2>2, <2>7, <3>1, <3>2
       DEF NoValidate
  <2>8. CASE s \in Deletes(id)
    <3>1. CASE op = "stop" /\ Tail(s) \in Deletes(id)
                 /\ ~In(Tail(s), Do("stop", id))
      <4>1. Tail(s) \notin Validates(id)
        BY <3>1, PartnerHeads, Steps
      <4> QED
        BY <1>2, <1>3, <1>4, <2>1, <2>2, <2>8, <3>1, <4>1, PartnerIn
           DEF Shape, PartnerTodo, NoValidate
    <3>2. CASE op = "delete" /\ Tail(s) = <<>>
      <4>1. Shape(a, Tail(s)) /\ \A x : ~In(Tail(s), x)
        BY <3>2, NothingToDo DEF Shape
      <4> QED
        BY <1>2, <1>3, <1>4, <2>1, <2>2, <2>8, <3>2, <4>1
         DEF NoValidate
    <3> QED
      BY <2>3, <2>8, <3>1, <3>2, PartnerHeads
  <2> QED
    BY <2>1, <2>4, <2>5, <2>6, <2>7, <2>8 DEF PartnerTodo
<1> QED
  BY <1>5, <1>6 DEF Shape

\* A request is of one kind, and about one partner.
LEMMA Kinds ==
  ASSUME NEW id \in PtIds, NEW i \in PtIds, NEW s
  PROVE  /\ s \in Validates(id) => s \notin Defines(i) \cup Saves(i)
         /\ s \in Defines(id) => s \notin Saves(i) \cup Validates(i)
         /\ s \in Saves(id) => s \notin Defines(i) \cup Validates(i)
         /\ s \in Starts(id) \cup Deletes(id) =>
              s \notin Validates(i) \cup Defines(i) \cup Saves(i)
         /\ s \in Validates(id) \cap Validates(i) => id = i
         /\ s \in Saves(id) \cap Saves(i) => id = i
         /\ s \in Defines(id) \cap Defines(i) => id = i
         /\ ReloadTodo(s) => s \notin Validates(id) \cup Defines(id) \cup Saves(id)
<1>1. \A j \in PtIds : s \in PartnerTodo(j) => s # <<>>
  BY PartnerHeads DEF PartnerTodo
<1>2. \A j \in PtIds :
        /\ s \in Validates(j) => Head(s) = Do("validate", j)
        /\ s \in Defines(j) => Head(s) \in {Do("stop", j), Do("define", j)}
        /\ s \in Saves(j) => Head(s) = Do("save", j)
        /\ s \in Starts(j) => Head(s) = Do("start", j)
        /\ s \in Deletes(j) => Head(s) \in {Do("stop", j), Do("delete", j)}
  BY PartnerHeads, Zenon
<1>3. \A j \in PtIds :
        /\ s \in Validates(j) => Head(s).op = "validate" /\ Head(s).of = j
        /\ s \in Defines(j) => Head(s).op \in {"stop", "define"} /\ Head(s).of = j
        /\ s \in Saves(j) => Head(s).op = "save" /\ Head(s).of = j
        /\ s \in Starts(j) => Head(s).op = "start"
        /\ s \in Deletes(j) => Head(s).op \in {"stop", "delete"}
  BY ONLY <1>2, Steps
<1>4. \A j \in PtIds : s \in Defines(j) =>
        In(s, Do("define", j)) /\ \A k \in PtIds : ~In(s, Do("delete", k))
  BY PartnerIn, Steps DEF PartnerTodo
<1>5. \A j \in PtIds : s \in Deletes(j) => In(s, Do("delete", j))
  BY PartnerIn
<1>6. ReloadTodo(s) => \A x : In(s, x) => x.op \in ReloadOps
  BY OpsIn DEF ReloadTodo
<1>7. ReloadTodo(s) => \A j \in PtIds : ~In(s, Do("define", j))
  BY <1>6, Steps DEF ReloadOps, Starting, Stopping
<1>8. ReloadTodo(s) /\ s # <<>> => Head(s).op \in ReloadOps
  BY TailReload
<1>9. ReloadTodo(s) => s \notin Validates(id) \cup Defines(id) \cup Saves(id)
  BY <1>1, <1>3, <1>4, <1>7, <1>8
     DEF ReloadOps, Starting, Stopping, PartnerTodo
<1> QED
  BY <1>3, <1>4, <1>5, <1>9

-----------------------------------------------------------------------------
(* Preservation of what holds whether or not requests overlap.             *)

Data ==
  /\ ptById \subseteq PtIds /\ IsFiniteSet(ptById)
  /\ ptDefs \in [PtIds -> PtDef \cup {PtNone}]
  /\ ptConnectors \in [PtIds -> SUBSET PtTypes]
  /\ ptByCredentials \in [PtCreds -> PtIds \cup {PtNone}]
  /\ ptByIdentifier \in [PtIds -> SUBSET PtCreds]
  /\ CredentialsKnown /\ DispatcherPresent

Counts ==
  /\ ptRequests \in 0..PtMaxRequests
  /\ ptCrashed \in BOOLEAN /\ ptRaced \in BOOLEAN

Todos ==
  /\ ptTodo \in [PtActors -> Seq(Step)]
  /\ ptNew \in [PtActors -> PtDef \cup {PtNone}]
  /\ \A a \in PtActors : Shape(a, ptTodo[a])
  /\ Definitions

\* Always, by what its parts are about.
LEMMA AlwaysParts == Always <=> Data /\ Counts /\ Todos /\ LoopsOK /\ GuardianBusy
<1>1. ASSUME ptTodo \in [PtActors -> Seq(Step)]
      PROVE  \A a \in PtActors : \A n \in 1..Len(ptTodo[a]) : ptTodo[a][n] \in Step
  BY <1>1
<1> QED
  BY <1>1, ShapesOfActors
     DEF Always, PtTypeOK, Data, Counts, Todos, LoopsOK

\* One request goes on, or begins, with what it has then to do.
LEMMA TodosChange ==
  ASSUME Todos, NEW a \in PtActors, NEW s \in Seq(Step), Shape(a, s),
         ptTodo' = [ptTodo EXCEPT ![a] = s],
         ptNew' \in [PtActors -> PtDef \cup {PtNone}],
         \A b \in PtActors \ {a} : ptNew'[b] = ptNew[b],
         \A id \in PtIds :
           /\ ptDefs[id] \in PtDef => ptDefs'[id] \in PtDef
           /\ s \in Validates(id) \cup Defines(id) => ptNew'[a] \in PtDef
           /\ s \in Saves(id) => ptDefs'[id] \in PtDef
  PROVE  /\ Todos' /\ ptTodo'[a] = s
         /\ \A b \in PtActors \ {a} : ptTodo'[b] = ptTodo[b]
<1>1. /\ ptTodo' \in [PtActors -> Seq(Step)]
      /\ \A b \in PtActors : ptTodo'[b] = IF b = a THEN s ELSE ptTodo[b]
  BY DEF Todos
<1>2. \A b \in PtActors : Shape(b, ptTodo[b])
  BY DEF Todos
<1>3. \A b \in PtActors : Shape(b, ptTodo'[b])
  BY <1>1, <1>2
<1>4. Definitions'
  <2> SUFFICES ASSUME NEW b \in PtActors, NEW id \in PtIds
               PROVE  /\ ptTodo'[b] \in Validates(id) \cup Defines(id) =>
                           ptNew'[b] \in PtDef
                      /\ ptTodo'[b] \in Saves(id) => ptDefs'[id] \in PtDef
    BY DEF Definitions
  <2>1. CASE b = a
    BY <1>1, <2>1
  <2>2. CASE b # a
    <3>1. ptTodo'[b] = ptTodo[b] /\ ptNew'[b] = ptNew[b]
      BY <1>1, <2>2
    <3>2. /\ ptTodo[b] \in Validates(id) \cup Defines(id) => ptNew[b] \in PtDef
          /\ ptTodo[b] \in Saves(id) => ptDefs[id] \in PtDef
      BY DEF Todos, Definitions
    <3> QED
      BY <3>1, <3>2
  <2> QED
    BY <2>1, <2>2
<1> QED
  BY <1>1, <1>3, <1>4 DEF Todos

\* A step of a request that leaves its definition alone.
LEMMA StepTodos ==
  ASSUME Todos, NEW a \in PtActors, NEW op, NEW o, Head1(a, op, o),
         Advance(a) \/ Then(a, <<>>),
         \A id \in PtIds : ptDefs[id] \in PtDef => ptDefs'[id] \in PtDef,
         op = "define" => ptDefs'[o] \in PtDef
  PROVE  /\ Todos' /\ UNCHANGED ptNew
         /\ \A b \in PtActors \ {a} : ptTodo'[b] = ptTodo[b]
         /\ Advance(a) => ptTodo'[a] = Tail(ptTodo[a])
         /\ Then(a, <<>>) => ptTodo'[a] = <<>>
<1> DEFINE t == ptTodo[a]
<1>1. /\ Shape(a, t) /\ t # <<>> /\ Head(t) = Do(op, o)
      /\ t \in Seq(Step)
  BY DEF Todos, Head1
<1>2. /\ op = "validate" => t \in Validates(o) /\ Tail(t) \in Defines(o)
      /\ op = "define" => t \in Defines(o) /\ Tail(t) \in Saves(o)
      /\ op = "save" => t \in Saves(o) /\ Tail(t) \in Starts(o)
      /\ op = "delete" => t \in Deletes(o) /\ Tail(t) = <<>>
      /\ op = "stop" => \/ t \in Defines(o) /\ Tail(t) \in Defines(o)
                        \/ t \in Deletes(o) /\ Tail(t) \in Deletes(o)
                        \/ ReloadTodo(t)
      /\ op = "start" => t \in Starts(o) \/ ReloadTodo(t)
      /\ op \in {"stopPartners", "startPartners", "return"} => ReloadTodo(t)
      /\ Shape(a, Tail(t)) /\ Tail(t) \in Seq(Step) /\ Do(op, o) \in Step
  <2> HIDE DEF t
  <2> QED
    BY ONLY <1>1, Heads
<1>3. ptNew' = ptNew
  BY DEF Advance, Then
<1>4. ptNew \in [PtActors -> PtDef \cup {PtNone}]
  BY DEF Todos
<1>5. CASE Advance(a)
  <2>1. op \in {"validate", "define", "save", "delete", "stop", "start",
                "stopPartners", "startPartners", "return"}
    BY <1>2, Steps DEF Step
  <2>2. \A id \in PtIds : o \in PtIds /\ t \in Validates(o) \cup Defines(o) =>
                            ptNew[a] \in PtDef
    BY DEF Todos, Definitions
  <2>3. ASSUME NEW id \in PtIds
        PROVE  /\ Tail(t) \in Validates(id) \cup Defines(id) => ptNew[a] \in PtDef
               /\ Tail(t) \in Saves(id) => ptDefs'[id] \in PtDef
    <3>1. CASE ReloadTodo(t)
      <4>1. ReloadTodo(Tail(t))
        BY <1>1, <3>1, TailReload
      <4> QED
        BY <4>1, Kinds
    <3>2. CASE ~ReloadTodo(t)
      <4>1. o \in PtIds
        <5>1. \E i \in PtIds : t \in PartnerTodo(i)
          BY <1>1, <3>2 DEF Shape
        <5>2. PICK i \in PtIds : t \in PartnerTodo(i)
          BY <5>1
        <5>3. In(t, Do(op, o))
          BY ONLY <1>1, Heads
        <5>4. Do(op, o).of = i
          BY <5>2, <5>3, PartnerIn
        <5> QED
          BY <5>4, Steps
      <4>2. CASE Tail(t) \in Defines(o) /\ t \in Validates(o) \cup Defines(o)
        BY <2>2, <4>1, <4>2, Kinds
      <4>3. CASE Tail(t) \in Saves(o) /\ op = "define"
        <5>1. Tail(t) \notin Validates(id) \cup Defines(id)
          BY <4>1, <4>3, Kinds
        <5>2. Tail(t) \in Saves(id) => id = o
          BY <4>1, <4>3, Kinds
        <5> QED
          BY <4>3, <5>1, <5>2
      <4>4. CASE Tail(t) \in Starts(o) \cup Deletes(o)
        BY <4>1, <4>4, Kinds
      <4>5. CASE Tail(t) = <<>>
        BY <4>5, NothingToDo, Kinds
      <4>6. t \in Starts(o) => Tail(t) = <<>>
        BY PartnerHeads
      <4> QED
        BY <1>2, <2>1, <3>2, <4>2, <4>3, <4>4, <4>5, <4>6
    <3> QED
      BY <3>1, <3>2
  <2>4. ptTodo' = [ptTodo EXCEPT ![a] = Tail(t)]
    BY <1>5 DEF Advance, Then
  <2>5. ptTodo'[a] = Tail(t)
    BY <2>4 DEF Todos
  <2> HIDE DEF t
  <2>6. Todos' /\ \A b \in PtActors \ {a} : ptTodo'[b] = ptTodo[b]
    <3>1. Tail(t) \in Seq(Step) /\ Shape(a, Tail(t))
      BY ONLY <1>2
    <3>2. /\ ptNew' \in [PtActors -> PtDef \cup {PtNone}]
          /\ \A b \in PtActors \ {a} : ptNew'[b] = ptNew[b]
      BY ONLY <1>3, <1>4
    <3>3. \A id \in PtIds :
            /\ ptDefs[id] \in PtDef => ptDefs'[id] \in PtDef
            /\ Tail(t) \in Validates(id) \cup Defines(id) => ptNew'[a] \in PtDef
            /\ Tail(t) \in Saves(id) => ptDefs'[id] \in PtDef
      BY ONLY <1>3, <2>3,
         \A id \in PtIds : ptDefs[id] \in PtDef => ptDefs'[id] \in PtDef
    <3> QED
      BY ONLY Todos, a \in PtActors, <2>4, <3>1, <3>2, <3>3, TodosChange
  <2>7. Then(a, <<>>) => ptTodo'[a] = <<>>
    BY DEF Then, Todos
  <2> QED
    BY <1>3, <2>5, <2>6, <2>7 DEF t
<1>6. CASE Then(a, <<>>)
  <2>1. ptTodo' = [ptTodo EXCEPT ![a] = <<>>]
    BY <1>6 DEF Then
  <2>2. ptTodo'[a] = <<>>
    BY <2>1 DEF Todos
  <2>3. Todos' /\ \A b \in PtActors \ {a} : ptTodo'[b] = ptTodo[b]
    <3>1. <<>> \in Seq(Step) /\ Shape(a, <<>>)
      BY NothingToDo DEF Shape
    <3>2. \A id \in PtIds : <<>> \notin Validates(id) \cup Defines(id) \cup Saves(id)
      BY NothingToDo, Kinds
    <3> QED
      BY <1>3, <1>4, <2>1, <3>1, <3>2, TodosChange
  <2>4. Advance(a) => ptTodo'[a] = Tail(t)
    BY DEF Advance, Then, Todos
  <2> QED
    BY <1>3, <2>2, <2>3, <2>4
<1> QED
  BY <1>5, <1>6

\* What does not touch the partners, or the loops, keeps what is known of them.
LEMMA Unchanged ==
  /\ Data /\ UNCHANGED <<ptById, ptDefs, ptConnectors, ptIndexVars>> => Data'
  /\ LoopsOK /\ UNCHANGED ptLoopVars => LoopsOK'
  /\ Counts /\ UNCHANGED <<ptRequests, ptCrashed, ptRaced>> => Counts'
<1>1. ASSUME Data, UNCHANGED <<ptById, ptDefs, ptConnectors, ptIndexVars>>
      PROVE  Data'
  BY <1>1 DEF Data, CredentialsKnown, DispatcherPresent, ptIndexVars
<1>2. ASSUME LoopsOK, UNCHANGED ptLoopVars PROVE LoopsOK'
  BY <1>2 DEF LoopsOK, ptLoopVars
<1>3. ASSUME Counts, UNCHANGED <<ptRequests, ptCrashed, ptRaced>> PROVE Counts'
  BY <1>3 DEF Counts
<1> QED
  BY <1>1, <1>2, <1>3

\* The beginning of a request.
LEMMA RequestBegins ==
  ASSUME Todos, Counts, NEW a \in PtActors, NEW s \in Seq(Step), Shape(a, s),
         NEW def \in PtDef \cup {PtNone}, Request1(a, s, def),
         \A id \in PtIds : /\ s \notin Defines(id) \cup Saves(id)
                           /\ s \in Validates(id) => def \in PtDef
  PROVE  /\ Todos' /\ Counts' /\ ptTodo'[a] = s
         /\ \A b \in PtActors \ {a} : ptTodo'[b] = ptTodo[b]
<1>1. /\ ptTodo' = [ptTodo EXCEPT ![a] = s]
      /\ ptNew' = [ptNew EXCEPT ![a] = def]
      /\ ptDefs' = ptDefs
  BY DEF Request1
<1>2. /\ ptNew' \in [PtActors -> PtDef \cup {PtNone}] /\ ptNew'[a] = def
      /\ \A b \in PtActors \ {a} : ptNew'[b] = ptNew[b]
  BY <1>1 DEF Todos
<1>3. Counts'
  BY PtAssumption DEF Counts, Request1, PtAssumption
<1>4. \A id \in PtIds :
        /\ ptDefs[id] \in PtDef => ptDefs'[id] \in PtDef
        /\ s \in Validates(id) \cup Defines(id) => ptNew'[a] \in PtDef
        /\ s \in Saves(id) => ptDefs'[id] \in PtDef
  BY <1>1, <1>2
<1> QED
  BY ONLY Todos, a \in PtActors, s \in Seq(Step), Shape(a, s), <1>1, <1>2, <1>3,
          <1>4, TodosChange

\* The requests of the API.
LEMMA ApiRequests ==
  ASSUME Always, NEW a \in PtActors, PtRequests(a)
  PROVE  /\ Always' /\ UNCHANGED ptLoops
         /\ \A b \in PtActors \ {a} : ptTodo'[b] = ptTodo[b]
         /\ a # "guardian"
         /\ \E s, def : /\ Request1(a, s, def) /\ ptTodo'[a] = s
                        /\ \/ \E id \in PtIds : s \in Validates(id)
                                /\ (In(s, Do("stop", id)) => id \in ptById)
                           \/ \E id \in ptById : s \in Deletes(id)
                           \/ s = ReloadModel
<1>1. Data /\ Counts /\ Todos /\ LoopsOK /\ GuardianBusy
  BY AlwaysParts
<1>2. PtDefs \subseteq PtDef /\ PtDef \subseteq PtDef \cup {PtNone}
      /\ ("guardian" \notin PtThreads) /\ "guardian" \in PtActors
  BY PtAssumption DEF PtAssumption, PtActors
<1>3. ASSUME NEW s \in Seq(Step), Shape(a, s), a \in PtThreads,
             NEW def \in PtDef \cup {PtNone}, Request1(a, s, def),
             UNCHANGED ptLoops,
             \A id \in PtIds : /\ s \notin Defines(id) \cup Saves(id)
                               /\ s \in Validates(id) => def \in PtDef
      PROVE  /\ Always' /\ ptTodo'[a] = s /\ a # "guardian"
             /\ \A b \in PtActors \ {a} : ptTodo'[b] = ptTodo[b]
  <2>1. /\ Todos' /\ Counts' /\ ptTodo'[a] = s
        /\ \A b \in PtActors \ {a} : ptTodo'[b] = ptTodo[b]
    BY ONLY <1>1, <1>3, a \in PtActors, RequestBegins
  <2>2. Data'
    BY <1>1, <1>3, Unchanged DEF Request1
  <2>3. LoopsOK'
    BY <1>1, <1>3, Unchanged DEF Request1, ptLoopVars
  <2>4. a # "guardian" /\ GuardianBusy'
    BY <1>1, <1>2, <1>3, <2>1 DEF GuardianBusy
  <2>5. Always'
    BY <2>1, <2>2, <2>3, <2>4, AlwaysParts, PTL
  <2> QED
    BY <2>1, <2>4, <2>5
<1>4. ASSUME NEW id \in PtIds, NEW def \in PtDefs, NEW s \in Validates(id),
             a \in PtThreads, Request1(a, s, def), UNCHANGED ptLoops
      PROVE  /\ Always' /\ ptTodo'[a] = s /\ a # "guardian"
             /\ \A b \in PtActors \ {a} : ptTodo'[b] = ptTodo[b]
  <2>1. s \in Seq(Step) /\ Shape(a, s)
    BY <1>2, <1>4, PartnerIn DEF Shape, PartnerTodo
  <2>2. def \in PtDef \cup {PtNone}
    BY <1>2
  <2>3. \A i \in PtIds : /\ s \notin Defines(i) \cup Saves(i)
                         /\ s \in Validates(i) => def \in PtDef
    BY <1>2, Kinds
  <2> QED
    BY ONLY <1>3, <1>4, <2>1, <2>2, <2>3
<1>5. ASSUME NEW id \in PtIds, NEW def \in PtDefs, Create(a, id, def)
      PROVE  /\ Always' /\ UNCHANGED ptLoops /\ a # "guardian"
             /\ \A b \in PtActors \ {a} : ptTodo'[b] = ptTodo[b]
             /\ \E s \in Validates(id) : /\ Request1(a, s, def) /\ ptTodo'[a] = s
                                         /\ ~In(s, Do("stop", id))
  <2> DEFINE s == <<Do("validate", id), Do("define", id), Do("save", id),
                    Do("start", id)>>
  <2>1. s \in Validates(id) /\ Request1(a, s, def) /\ UNCHANGED ptLoops
        /\ a \in PtThreads
    BY <1>5 DEF Create, Validates
  <2>2. In(s, Do("stop", id)) <=>
          Do("stop", id) \in {Do("validate", id), Do("define", id),
                              Do("save", id), Do("start", id)}
    BY ONLY InFew, SMT
  <2>3. ~In(s, Do("stop", id))
    BY <2>2, Steps
  <2> HIDE DEF s
  <2>4. /\ Always' /\ ptTodo'[a] = s /\ a # "guardian"
        /\ \A b \in PtActors \ {a} : ptTodo'[b] = ptTodo[b]
    BY ONLY <1>4, <2>1, id \in PtIds, def \in PtDefs
  <2> QED
    BY <2>1, <2>3, <2>4
<1>6. ASSUME NEW id \in PtIds, NEW def \in PtDefs, Update(a, id, def)
      PROVE  /\ Always' /\ UNCHANGED ptLoops /\ a # "guardian" /\ id \in ptById
             /\ \A b \in PtActors \ {a} : ptTodo'[b] = ptTodo[b]
             /\ \E s \in Validates(id) : Request1(a, s, def) /\ ptTodo'[a] = s
  <2> DEFINE s == <<Do("validate", id), Do("stop", id), Do("define", id),
                    Do("save", id), Do("start", id)>>
  <2>1. s \in Validates(id) /\ Request1(a, s, def) /\ UNCHANGED ptLoops
        /\ a \in PtThreads /\ id \in ptById
    BY <1>6 DEF Update, Validates
  <2> HIDE DEF s
  <2>2. /\ Always' /\ ptTodo'[a] = s /\ a # "guardian"
        /\ \A b \in PtActors \ {a} : ptTodo'[b] = ptTodo[b]
    BY ONLY <1>4, <2>1, id \in PtIds, def \in PtDefs
  <2> QED
    BY <2>1, <2>2
<1>7. ASSUME NEW id \in PtIds, Delete(a, id)
      PROVE  /\ Always' /\ UNCHANGED ptLoops /\ a # "guardian" /\ id \in ptById
             /\ \A b \in PtActors \ {a} : ptTodo'[b] = ptTodo[b]
             /\ \E s \in Deletes(id) : Request1(a, s, PtNone) /\ ptTodo'[a] = s
  <2> DEFINE s == <<Do("stop", id), Do("delete", id)>>
  <2>1. s \in Deletes(id) /\ Request1(a, s, PtNone) /\ UNCHANGED ptLoops
        /\ a \in PtThreads /\ id \in ptById
    BY <1>7 DEF Delete, Deletes
  <2> HIDE DEF s
  <2>2. s \in Seq(Step) /\ Shape(a, s)
    BY <1>2, <2>1, PartnerIn DEF Shape, PartnerTodo
  <2>3. \A i \in PtIds : /\ s \notin Defines(i) \cup Saves(i)
                         /\ s \in Validates(i) => PtNone \in PtDef
    BY <2>1, Kinds
  <2>4. /\ Always' /\ ptTodo'[a] = s
        /\ \A b \in PtActors \ {a} : ptTodo'[b] = ptTodo[b]
    <3>1. PtNone \in PtDef \cup {PtNone}
      OBVIOUS
    <3> QED
      BY ONLY <1>3, <2>1, <2>2, <2>3, <3>1
  <2> QED
    BY <1>2, <2>1, <2>4
<1>8. ASSUME Reload(a)
      PROVE  /\ Always' /\ UNCHANGED ptLoops /\ a # "guardian"
             /\ \A b \in PtActors \ {a} : ptTodo'[b] = ptTodo[b]
             /\ Request1(a, ReloadModel, PtNone) /\ ptTodo'[a] = ReloadModel
  <2>1. Request1(a, ReloadModel, PtNone) /\ UNCHANGED ptLoops /\ a \in PtThreads
    BY <1>8 DEF Reload
  <2>2. ReloadTodo(ReloadModel) /\ ~In(ReloadModel, Do("return", PtNone))
    BY ReloadModelSteps, Steps
  <2>3. ReloadModel \in Seq(Step) /\ Shape(a, ReloadModel)
    BY <2>2 DEF ReloadTodo, Shape
  <2>4. \A i \in PtIds : /\ ReloadModel \notin Defines(i) \cup Saves(i)
                         /\ ReloadModel \in Validates(i) => PtNone \in PtDef
    BY <2>2, Kinds
  <2>5. /\ Always' /\ ptTodo'[a] = ReloadModel
        /\ \A b \in PtActors \ {a} : ptTodo'[b] = ptTodo[b]
    <3>1. PtNone \in PtDef \cup {PtNone}
      OBVIOUS
    <3> QED
      BY ONLY <1>3, <2>1, <2>3, <2>4, <3>1
  <2> QED
    BY <1>2, <2>1, <2>5
<1> DEFINE Begun == \E s, def :
             /\ Request1(a, s, def) /\ ptTodo'[a] = s
             /\ \/ \E id \in PtIds : s \in Validates(id)
                                       /\ (In(s, Do("stop", id)) => id \in ptById)
                \/ \E id \in ptById : s \in Deletes(id)
                \/ s = ReloadModel
           Goal == /\ Always' /\ UNCHANGED ptLoops
                   /\ \A b \in PtActors \ {a} : ptTodo'[b] = ptTodo[b]
                   /\ a # "guardian" /\ Begun
<1>9. CASE \E id \in PtIds, def \in PtDefs : Create(a, id, def)
  <2>1. PICK id \in PtIds, def \in PtDefs : Create(a, id, def)
    BY <1>9
  <2>2. Begun
    BY <1>5, <2>1
  <2> QED
    BY <1>5, <2>1, <2>2
<1>10. CASE \E id \in PtIds, def \in PtDefs : Update(a, id, def)
  <2>1. PICK id \in PtIds, def \in PtDefs : Update(a, id, def)
    BY <1>10
  <2>2. Begun
    BY <1>6, <2>1
  <2> QED
    BY <1>6, <2>1, <2>2
<1>11. CASE \E id \in PtIds : Delete(a, id)
  <2>1. PICK id \in PtIds : Delete(a, id)
    BY <1>11
  <2>2. Begun
    BY <1>7, <2>1
  <2> QED
    BY <1>7, <2>1, <2>2
<1>12. CASE Reload(a)
  <2>1. Begun
    BY <1>8, <1>12
  <2> QED
    BY <1>8, <1>12, <2>1
<1> QED
  BY <1>9, <1>10, <1>11, <1>12 DEF PtRequests

\* The reload of the model guardian.
LEMMA GuardianRequest ==
  ASSUME Always, CheckReloadModel
  PROVE  LET s == Append(ReloadModel, Do("return", PtNone))
             g == "modelGuardian"
         IN  /\ Always' /\ Request1("guardian", s, PtNone)
             /\ ptTodo'["guardian"] = s
             /\ \A b \in PtActors \ {"guardian"} : ptTodo'[b] = ptTodo[b]
             /\ g \in PtShared /\ g \in PtOwners
             /\ OnlyLoop(g) /\ ptStop' = ptStop
             /\ ptLoops'[g].busy + ptLoops'[g].waiting =
                  ptLoops[g].busy + ptLoops[g].waiting
<1> DEFINE s == Append(ReloadModel, Do("return", PtNone))
           g == "modelGuardian"
<1>1. Data /\ Counts /\ Todos /\ LoopsOK /\ GuardianBusy
  BY AlwaysParts
<1>2. /\ g \in PtShared /\ g \in PtOwners /\ "guardian" \in PtActors
      /\ Request1("guardian", s, PtNone) /\ ptStop' = ptStop
      /\ ptLoops[g].waiting > 0
      /\ ptLoops' = [ptLoops EXCEPT ![g].waiting = @ - 1, ![g].busy = @ + 1]
  BY DEF CheckReloadModel, Request1, PtOwners, PtActors
<1>3. /\ LoopsOK' /\ OnlyLoop(g)
      /\ ptLoops'[g].busy + ptLoops'[g].waiting =
           ptLoops[g].busy + ptLoops[g].waiting
      /\ ptLoops'[g].busy > 0
  <2> HIDE DEF g
  <2> QED
    BY ONLY <1>1, <1>2, TurnBegins
<1>4. ReloadTodo(s)
  BY CheckReloadSteps
<1>5. /\ s \in Seq(Step) /\ Shape("guardian", s)
      /\ \A i \in PtIds : /\ s \notin Defines(i) \cup Saves(i)
                          /\ s \in Validates(i) => PtNone \in PtDef
      /\ PtNone \in PtDef \cup {PtNone}
  BY <1>4, Kinds DEF ReloadTodo, Shape
<1> HIDE DEF s
<1>6. /\ Todos' /\ Counts' /\ ptTodo'["guardian"] = s
      /\ \A b \in PtActors \ {"guardian"} : ptTodo'[b] = ptTodo[b]
  BY ONLY <1>1, <1>2, <1>5, RequestBegins
<1>7. Data'
  BY <1>1, <1>2, Unchanged DEF Request1
<1>8. GuardianBusy'
  BY <1>2, <1>3 DEF GuardianBusy
<1>9. Always'
  BY <1>3, <1>6, <1>7, <1>8, AlwaysParts, PTL
<1> QED
  BY <1>2, <1>3, <1>6, <1>9 DEF s, g

\* The guardian's goroutine remains at work as long as its reload goes on.
LEMMA BusyKept ==
  ASSUME Todos, GuardianBusy, NEW a \in PtActors, ptTodo[a] # <<>>,
         \A b \in PtActors \ {a} : ptTodo'[b] = ptTodo[b],
         "modelGuardian" \in PtShared =>
           (ptLoops["modelGuardian"].busy > 0 =>
              ptLoops'["modelGuardian"].busy > 0)
  PROVE  GuardianBusy'
<1>1. ptTodo'["guardian"] # <<>> => ptTodo["guardian"] # <<>>
  <2>1. CASE a = "guardian"
    BY <2>1
  <2>2. CASE a # "guardian"
    BY <2>2 DEF PtActors
  <2> QED
    BY <2>1, <2>2
<1> QED
  BY <1>1 DEF GuardianBusy

\* A step that leaves the partners and the loops alone.
LEMMA QuietStep ==
  ASSUME Always, NEW a \in PtActors, ptTodo[a] # <<>>, Todos',
         \A b \in PtActors \ {a} : ptTodo'[b] = ptTodo[b],
         UNCHANGED <<ptById, ptDefs, ptConnectors, ptIndexVars, ptLoopVars,
                     ptRequests, ptCrashed, ptRaced>>
  PROVE  Always'
<1>1. Data /\ Counts /\ Todos /\ LoopsOK /\ GuardianBusy
  BY AlwaysParts
<1>2. Data' /\ Counts' /\ LoopsOK'
  <2>1. /\ UNCHANGED <<ptById, ptDefs, ptConnectors, ptIndexVars>>
        /\ UNCHANGED ptLoopVars /\ UNCHANGED <<ptRequests, ptCrashed, ptRaced>>
    OBVIOUS
  <2> QED
    BY ONLY <1>1, <2>1, Unchanged
<1>3. GuardianBusy'
  <2>1. ptLoops' = ptLoops
    BY DEF ptLoopVars
  <2> QED
    BY <1>1, <2>1, BusyKept
<1> QED
  BY <1>2, <1>3, AlwaysParts, PTL

\* A partner's definition is validated.
LEMMA ValidateAlways ==
  ASSUME Always, NEW a \in PtActors, NEW id \in PtIds, Validate(a, id)
  PROVE  /\ Always' /\ \A b \in PtActors \ {a} : ptTodo'[b] = ptTodo[b]
         /\ UNCHANGED ptNew
         /\ \/ ptTodo'[a] = <<>>
            \/ /\ ptTodo'[a] = Tail(ptTodo[a])
               /\ UniqCredentials(id, ptNew[a].creds)
<1>1. Todos
  BY AlwaysParts
<1>2. /\ Head1(a, "validate", id)
      /\ UNCHANGED <<ptById, ptDefs, ptConnectors, ptIndexVars, ptLoopVars,
                     ptRequests, ptCrashed, ptRaced>>
      /\ \/ Then(a, <<>>)
         \/ Advance(a) /\ UniqCredentials(id, ptNew[a].creds)
  BY DEF Validate, Head1, Advance
<1>3. \A i \in PtIds : ptDefs[i] \in PtDef => ptDefs'[i] \in PtDef
  BY <1>2
<1>4. /\ Todos' /\ UNCHANGED ptNew
      /\ \A b \in PtActors \ {a} : ptTodo'[b] = ptTodo[b]
      /\ Advance(a) => ptTodo'[a] = Tail(ptTodo[a])
      /\ Then(a, <<>>) => ptTodo'[a] = <<>>
  <2>1. (Advance(a) \/ Then(a, <<>>)) /\ "validate" # "define"
    BY <1>2
  <2> QED
    BY ONLY <1>1, <1>2, <1>3, <2>1, a \in PtActors, StepTodos
<1>5. Always'
  <2>1. ptTodo[a] # <<>>
    BY <1>2 DEF Head1
  <2> QED
    BY ONLY Always, a \in PtActors, <1>2, <1>4, <2>1, QuietStep
<1> QED
  BY <1>2, <1>4, <1>5

\* cleanConnectors leaves no broadcaster without the dispatcher.
LEMMA CleanKeepsDispatcher ==
  ASSUME NEW had \in SUBSET PtTypes, NEW types \in SUBSET PtTypes,
         "broadcaster" \in had => "dispatcher" \in had
  PROVE  LET made == had \cup types \cup
                       IF "broadcaster" \in types \ had THEN {"dispatcher"}
                       ELSE {}
         IN  \A cs \in CleanConnectors(made, types) :
               /\ cs \in SUBSET PtTypes
               /\ "broadcaster" \in cs => "dispatcher" \in cs
BY DEF CleanConnectors, PtTypes

\* A partner is given its new definition.
LEMMA SetDefinitionAlways ==
  ASSUME Always, NEW a \in PtActors, NEW id \in PtIds, SetDefinition(a, id)
  PROVE  /\ Always' /\ \A b \in PtActors \ {a} : ptTodo'[b] = ptTodo[b]
         /\ ptTodo'[a] = Tail(ptTodo[a]) /\ UNCHANGED ptNew
         /\ OnlyLoop(id)
         /\ \A i \in PtIds \ {id} : ptConnectors'[i] = ptConnectors[i]
         /\ ptDefs' = [ptDefs EXCEPT ![id] = ptNew[a]]
<1>1. Data /\ Counts /\ Todos /\ LoopsOK /\ GuardianBusy
  BY AlwaysParts
<1>2. Head1(a, "define", id) /\ Advance(a)
      /\ ptDefs' = [ptDefs EXCEPT ![id] = ptNew[a]]
      /\ UNCHANGED <<ptById, ptIndexVars, ptRequests, ptCrashed, ptRaced>>
      /\ ptTodo[a] # <<>>
  BY DEF SetDefinition, Head1
<1>3. ptNew[a] \in PtDef
  <2>1. ptTodo[a] \in Defines(id)
    <3>1. Shape(a, ptTodo[a]) /\ Head(ptTodo[a]) = Do("define", id)
      BY <1>1, <1>2 DEF Todos, Head1
    <3> QED
      BY ONLY <1>2, <3>1, Heads
  <2> QED
    BY <1>1, <2>1 DEF Todos, Definitions
<1>4. /\ ptDefs' \in [PtIds -> PtDef \cup {PtNone}]
      /\ \A i \in PtIds : ptDefs[i] \in PtDef => ptDefs'[i] \in PtDef
      /\ ptDefs'[id] \in PtDef
  BY <1>1, <1>2, <1>3 DEF Data
<1>5. /\ Todos' /\ UNCHANGED ptNew
      /\ \A b \in PtActors \ {a} : ptTodo'[b] = ptTodo[b]
      /\ ptTodo'[a] = Tail(ptTodo[a])
  BY ONLY <1>1, <1>2, <1>4, a \in PtActors, StepTodos
<1> DEFINE types == ptNew[a].types
           made == ptConnectors[id] \cup types \cup
                     IF "broadcaster" \in types \ ptConnectors[id]
                     THEN {"dispatcher"} ELSE {}
<1>6. PICK cs \in CleanConnectors(made, types) :
        /\ ptConnectors' = [ptConnectors EXCEPT ![id] = cs]
        /\ IF "broadcaster" \in ptConnectors[id] \ cs
           THEN DropLoop(id) ELSE UNCHANGED ptLoopVars
  BY DEF SetDefinition
<1>7. cs \in SUBSET PtTypes /\ ("broadcaster" \in cs => "dispatcher" \in cs)
  <2>1. /\ ptConnectors[id] \in SUBSET PtTypes
        /\ "broadcaster" \in ptConnectors[id] => "dispatcher" \in ptConnectors[id]
    BY <1>1 DEF Data, DispatcherPresent
  <2>2. types \in SUBSET PtTypes
    BY <1>3 DEF PtDef
  <2> HIDE DEF types
  <2> QED
    BY <2>1, <2>2, CleanKeepsDispatcher
<1>8. /\ ptConnectors' \in [PtIds -> SUBSET PtTypes]
      /\ \A i \in PtIds :
           ptConnectors'[i] = IF i = id THEN cs ELSE ptConnectors[i]
  BY <1>1, <1>6, <1>7 DEF Data
<1>9. Data'
  <2>1. CredentialsKnown'
    BY <1>1, <1>2 DEF Data, CredentialsKnown, ptIndexVars
  <2>2. DispatcherPresent'
    BY <1>1, <1>7, <1>8 DEF Data, DispatcherPresent
  <2> QED
    BY <1>1, <1>2, <1>4, <1>8, <2>1, <2>2 DEF Data, ptIndexVars
<1>10. LoopsOK' /\ OnlyLoop(id)
  <2>1. id \in PtOwners
    BY DEF PtOwners
  <2>2. CASE DropLoop(id)
    BY <1>1, <2>1, <2>2, DropLoopDoes
  <2>3. CASE UNCHANGED ptLoopVars
    BY <1>1, <2>3, Unchanged DEF OnlyLoop, ptLoopVars
  <2> QED
    BY <1>6, <2>2, <2>3
<1>11. GuardianBusy'
  <2>1. "modelGuardian" \in PtShared => ptLoops'["modelGuardian"] =
                                          ptLoops["modelGuardian"]
    BY <1>10, PtAssumption DEF OnlyLoop, PtOwners, PtAssumption
  <2> QED
    BY ONLY <1>1, <1>2, <1>5, <2>1, a \in PtActors, BusyKept
<1>12. Counts'
  BY <1>1, <1>2, Unchanged
<1>13. Always'
  BY <1>5, <1>9, <1>10, <1>11, <1>12, AlwaysParts, PTL
<1> QED
  BY <1>2, <1>5, <1>8, <1>10, <1>13

\* A partner is saved: its credentials, and no others, find it.
LEMMA SaveAlways ==
  ASSUME Always, NEW a \in PtActors, NEW id \in PtIds, Save(a, id)
  PROVE  /\ Always' /\ \A b \in PtActors \ {a} : ptTodo'[b] = ptTodo[b]
         /\ ptTodo'[a] = Tail(ptTodo[a]) /\ UNCHANGED ptNew
         /\ ptDefs[id] \in PtDef
<1>1. Data /\ Counts /\ Todos /\ LoopsOK /\ GuardianBusy
  BY AlwaysParts
<1>2. /\ Head1(a, "save", id) /\ Advance(a)
      /\ ptById' = ptById \cup {id} /\ Index(id, ptDefs[id].creds)
      /\ UNCHANGED <<ptDefs, ptConnectors, ptLoopVars, ptCrashed>>
      /\ UNCHANGED <<ptRequests, ptRaced>> /\ ptTodo[a] # <<>>
  BY DEF Save, Head1
<1>3. ptDefs[id] \in PtDef
  <2>1. ptTodo[a] \in Saves(id)
    <3>1. Shape(a, ptTodo[a]) /\ Head(ptTodo[a]) = Do("save", id)
      BY <1>1, <1>2 DEF Todos, Head1
    <3> QED
      BY ONLY <1>2, <3>1, Heads
  <2> QED
    BY <1>1, <2>1 DEF Todos, Definitions
<1>4. /\ Todos' /\ UNCHANGED ptNew
      /\ \A b \in PtActors \ {a} : ptTodo'[b] = ptTodo[b]
      /\ ptTodo'[a] = Tail(ptTodo[a])
  <2>1. "save" # "define"
        /\ \A i \in PtIds : ptDefs[i] \in PtDef => ptDefs'[i] \in PtDef
    BY <1>2
  <2> QED
    BY ONLY <1>1, <1>2, <2>1, a \in PtActors, StepTodos
<1> DEFINE creds == ptDefs[id].creds
<1>5. creds \in SUBSET PtCreds
  BY <1>3 DEF PtDef
<1> HIDE DEF creds
<1>6. /\ ptByCredentials' = [c \in PtCreds |->
           IF c \in creds THEN id
           ELSE IF c \in ptByIdentifier[id] THEN PtNone ELSE ptByCredentials[c]]
      /\ ptByIdentifier' = [ptByIdentifier EXCEPT ![id] = creds]
  BY <1>2 DEF Index, creds
<1>7. /\ ptByIdentifier' \in [PtIds -> SUBSET PtCreds]
      /\ \A i \in PtIds :
           ptByIdentifier'[i] = IF i = id THEN creds ELSE ptByIdentifier[i]
      /\ ptByCredentials' \in [PtCreds -> PtIds \cup {PtNone}]
  BY <1>1, <1>5, <1>6 DEF Data
<1>8. CredentialsKnown'
  <2> SUFFICES ASSUME NEW c \in PtCreds, ptByCredentials'[c] # PtNone
               PROVE  /\ ptByCredentials'[c] \in ptById'
                      /\ c \in ptByIdentifier'[ptByCredentials'[c]]
    BY DEF CredentialsKnown
  <2>1. CASE c \in creds
    BY <1>2, <1>6, <1>7, <2>1
  <2>2. CASE c \notin creds
    <3>1. ptByCredentials'[c] = ptByCredentials[c] /\ c \notin ptByIdentifier[id]
          /\ ptByCredentials[c] # PtNone /\ ptByCredentials[c] \in PtIds
      BY <1>1, <1>6, <2>2 DEF Data
    <3>2. /\ ptByCredentials[c] \in ptById
          /\ c \in ptByIdentifier[ptByCredentials[c]]
      BY <1>1, <3>1 DEF Data, CredentialsKnown
    <3> QED
      BY <1>2, <1>7, <3>1, <3>2
  <2> QED
    BY <2>1, <2>2
<1>9. Data'
  <2>1. IsFiniteSet(ptById') /\ ptById' \subseteq PtIds
    BY <1>1, <1>2, FS_AddElement DEF Data
  <2>2. DispatcherPresent'
    BY <1>1, <1>2 DEF Data, DispatcherPresent
  <2> QED
    BY <1>1, <1>2, <1>7, <1>8, <2>1, <2>2 DEF Data
<1>10. LoopsOK' /\ Counts'
  BY <1>1, <1>2, Unchanged
<1>11. GuardianBusy'
  <2>1. ptLoops' = ptLoops
    BY <1>2 DEF ptLoopVars
  <2> QED
    BY <1>1, <1>2, <1>4, <2>1, BusyKept
<1>12. Always'
  BY <1>4, <1>9, <1>10, <1>11, AlwaysParts, PTL
<1> QED
  BY <1>3, <1>4, <1>12

\* A partner is deleted: no credential finds it any more.
LEMMA RemoveAlways ==
  ASSUME Always, NEW a \in PtActors, NEW id \in PtIds, Remove(a, id)
  PROVE  /\ Always' /\ \A b \in PtActors \ {a} : ptTodo'[b] = ptTodo[b]
         /\ ptTodo'[a] = Tail(ptTodo[a]) /\ UNCHANGED ptNew
<1>1. Data /\ Counts /\ Todos /\ LoopsOK /\ GuardianBusy
  BY AlwaysParts
<1>2. /\ Head1(a, "delete", id) /\ Advance(a)
      /\ ptById' = ptById \ {id} /\ Unindex(id)
      /\ UNCHANGED <<ptDefs, ptConnectors, ptLoopVars, ptCrashed>>
      /\ UNCHANGED <<ptRequests, ptRaced>> /\ ptTodo[a] # <<>>
  BY DEF Remove, Head1
<1>3. /\ Todos' /\ UNCHANGED ptNew
      /\ \A b \in PtActors \ {a} : ptTodo'[b] = ptTodo[b]
      /\ ptTodo'[a] = Tail(ptTodo[a])
  <2>1. "delete" # "define"
        /\ \A i \in PtIds : ptDefs[i] \in PtDef => ptDefs'[i] \in PtDef
    BY <1>2
  <2> QED
    BY ONLY <1>1, <1>2, <2>1, a \in PtActors, StepTodos
<1>4. /\ ptByCredentials' = [c \in PtCreds |->
           IF c \in ptByIdentifier[id] THEN PtNone ELSE ptByCredentials[c]]
      /\ ptByIdentifier' = [ptByIdentifier EXCEPT ![id] = {}]
  BY <1>2 DEF Unindex
<1>5. /\ ptByIdentifier' \in [PtIds -> SUBSET PtCreds]
      /\ \A i \in PtIds :
           ptByIdentifier'[i] = IF i = id THEN {} ELSE ptByIdentifier[i]
      /\ ptByCredentials' \in [PtCreds -> PtIds \cup {PtNone}]
  BY <1>1, <1>4 DEF Data
<1>6. CredentialsKnown'
  <2> SUFFICES ASSUME NEW c \in PtCreds, ptByCredentials'[c] # PtNone
               PROVE  /\ ptByCredentials'[c] \in ptById'
                      /\ c \in ptByIdentifier'[ptByCredentials'[c]]
    BY DEF CredentialsKnown
  <2>1. ptByCredentials'[c] = ptByCredentials[c] /\ c \notin ptByIdentifier[id]
        /\ ptByCredentials[c] # PtNone /\ ptByCredentials[c] \in PtIds
    BY <1>1, <1>4 DEF Data
  <2>2. /\ ptByCredentials[c] \in ptById
        /\ c \in ptByIdentifier[ptByCredentials[c]]
    BY <1>1, <2>1 DEF Data, CredentialsKnown
  <2> QED
    BY <1>2, <1>5, <2>1, <2>2
<1>7. Data'
  <2>1. IsFiniteSet(ptById') /\ ptById' \subseteq PtIds
    BY <1>1, <1>2, FS_RemoveElement DEF Data
  <2>2. DispatcherPresent'
    BY <1>1, <1>2 DEF Data, DispatcherPresent
  <2> QED
    BY <1>1, <1>2, <1>5, <1>6, <2>1, <2>2 DEF Data
<1>8. LoopsOK' /\ Counts'
  BY <1>1, <1>2, Unchanged
<1>9. GuardianBusy'
  <2>1. ptLoops' = ptLoops
    BY <1>2 DEF ptLoopVars
  <2> QED
    BY <1>1, <1>2, <1>3, <2>1, BusyKept
<1>10. Always'
  BY <1>3, <1>7, <1>8, <1>9, AlwaysParts, PTL
<1> QED
  BY <1>3, <1>10

\* A loop is stopped, or the goroutine panics.
LEMMA StopAlways ==
  ASSUME Always, NEW a \in PtActors, NEW o \in PtOwners, StopStep(a, o)
  PROVE  /\ Always' /\ \A b \in PtActors \ {a} : ptTodo'[b] = ptTodo[b]
         /\ UNCHANGED ptNew
         /\ \/ /\ ptTodo'[a] = Tail(ptTodo[a]) /\ UNCHANGED ptCrashed
               /\ \/ ~HasLoop(o) /\ UNCHANGED ptLoopVars
                  \/ HasLoop(o) /\ ptStop[o] # "closed" /\ OnlyLoop(o)
            \/ HasLoop(o) /\ ptStop[o] = "closed" /\ ptTodo'[a] = <<>>
                 /\ UNCHANGED ptLoopVars
<1>1. Data /\ Counts /\ Todos /\ LoopsOK /\ GuardianBusy
  BY AlwaysParts
<1>2. /\ Head1(a, "stop", o)
      /\ UNCHANGED <<ptById, ptDefs, ptConnectors, ptIndexVars>>
      /\ UNCHANGED <<ptRequests, ptRaced>> /\ ptTodo[a] # <<>>
      /\ \/ /\ ~HasLoop(o) /\ Advance(a) /\ UNCHANGED <<ptLoopVars, ptCrashed>>
         \/ /\ HasLoop(o) /\ ptStop[o] = "closed" /\ Panics(a)
         \/ /\ HasLoop(o) /\ ptStop[o] # "closed" /\ Advance(a) /\ StopLoop(o)
            /\ UNCHANGED ptCrashed
  BY DEF StopStep, Head1
<1>3. Advance(a) \/ Then(a, <<>>)
  BY <1>2 DEF Panics
<1>4. /\ Todos' /\ UNCHANGED ptNew
      /\ \A b \in PtActors \ {a} : ptTodo'[b] = ptTodo[b]
      /\ Advance(a) => ptTodo'[a] = Tail(ptTodo[a])
      /\ Then(a, <<>>) => ptTodo'[a] = <<>>
  <2>1. "stop" # "define"
        /\ \A i \in PtIds : ptDefs[i] \in PtDef => ptDefs'[i] \in PtDef
    BY <1>2
  <2> QED
    BY ONLY <1>1, <1>2, <1>3, <2>1, a \in PtActors, StepTodos
<1>5. Data' /\ Counts'
  <2>1. ptCrashed' \in BOOLEAN
    BY <1>1, <1>2 DEF Counts, Panics
  <2> QED
    BY <1>1, <1>2, <2>1, Unchanged DEF Counts
<1>6. CASE HasLoop(o) /\ ptStop[o] # "closed" /\ Advance(a) /\ StopLoop(o)
             /\ UNCHANGED ptCrashed
  <2>1. /\ LoopsOK' /\ OnlyLoop(o)
        /\ o # "broadcastManager" => ptLoops'[o].busy = ptLoops[o].busy
    <3>1. CASE ptStop[o] = "open"
      BY <1>1, <1>6, <3>1, StopLoopDoes
    <3>2. CASE ptStop[o] = "nil"
      <4>1. ptStop' = ptStop /\ ptLoops' = ptLoops
        BY <1>1, <1>6, <3>2 DEF StopLoop, LoopsOK
      <4> QED
        BY <1>1, <4>1, Unchanged DEF OnlyLoop, ptLoopVars
    <3> QED
      BY <1>1, <1>6, <3>1, <3>2 DEF LoopsOK
  <2>2. GuardianBusy'
    <3>1. "modelGuardian" \in PtShared =>
            ptLoops'["modelGuardian"].busy = ptLoops["modelGuardian"].busy
      BY <2>1 DEF OnlyLoop, PtOwners
    <3> QED
      BY <1>1, <1>2, <1>4, <3>1, BusyKept
  <2>3. Always'
    BY <1>4, <1>5, <2>1, <2>2, AlwaysParts, PTL
  <2> QED
    BY <1>4, <1>6, <2>1, <2>3
<1>7. CASE UNCHANGED ptLoopVars
  <2>1. LoopsOK'
    BY <1>1, <1>7, Unchanged
  <2>2. GuardianBusy'
    <3>1. ptLoops' = ptLoops
      BY <1>7 DEF ptLoopVars
    <3> QED
      BY <1>1, <1>2, <1>4, <3>1, BusyKept
  <2>3. Always'
    BY <1>4, <1>5, <2>1, <2>2, AlwaysParts, PTL
  <2>4. CASE ~HasLoop(o) /\ Advance(a) /\ UNCHANGED <<ptLoopVars, ptCrashed>>
    BY <1>4, <2>3, <2>4
  <2>5. CASE HasLoop(o) /\ ptStop[o] = "closed" /\ Panics(a)
    BY <1>4, <1>7, <2>3, <2>5 DEF Panics
  <2>6. CASE HasLoop(o) /\ ptStop[o] # "closed" /\ Advance(a) /\ StopLoop(o)
               /\ UNCHANGED ptCrashed
    BY <1>6, <2>6
  <2> QED
    BY <1>2, <2>4, <2>5, <2>6
<1> QED
  BY <1>2, <1>6, <1>7 DEF Panics

\* A loop is started.
LEMMA StartAlways ==
  ASSUME Always, NEW a \in PtActors, NEW o \in PtOwners, StartStep(a, o)
  PROVE  /\ Always' /\ \A b \in PtActors \ {a} : ptTodo'[b] = ptTodo[b]
         /\ ptTodo'[a] = Tail(ptTodo[a]) /\ UNCHANGED <<ptNew, ptCrashed>>
         /\ OnlyLoop(o)
         /\ HasLoop(o) => /\ ptStop'[o] = "open"
                          /\ ptLoops'[o].busy = ptLoops[o].busy + 1
         /\ ~HasLoop(o) => UNCHANGED ptLoopVars
<1>1. Data /\ Counts /\ Todos /\ LoopsOK /\ GuardianBusy
  BY AlwaysParts
<1>2. /\ Head1(a, "start", o) /\ Advance(a)
      /\ UNCHANGED <<ptById, ptDefs, ptConnectors, ptIndexVars>>
      /\ UNCHANGED <<ptRequests, ptCrashed, ptRaced>> /\ ptTodo[a] # <<>>
      /\ IF HasLoop(o) THEN StartLoop(o) ELSE UNCHANGED ptLoopVars
  BY DEF StartStep, Head1
<1>3. /\ Todos' /\ UNCHANGED ptNew
      /\ \A b \in PtActors \ {a} : ptTodo'[b] = ptTodo[b]
      /\ ptTodo'[a] = Tail(ptTodo[a])
  <2>1. "start" # "define"
        /\ \A i \in PtIds : ptDefs[i] \in PtDef => ptDefs'[i] \in PtDef
    BY <1>2
  <2> QED
    BY ONLY <1>1, <1>2, <2>1, a \in PtActors, StepTodos
<1>4. Data' /\ Counts'
  BY <1>1, <1>2, Unchanged
<1>5. /\ LoopsOK' /\ OnlyLoop(o)
      /\ HasLoop(o) => /\ ptStop'[o] = "open"
                       /\ ptLoops'[o].busy = ptLoops[o].busy + 1
      /\ ~HasLoop(o) => UNCHANGED ptLoopVars
  <2>1. CASE HasLoop(o)
    BY <1>1, <1>2, <2>1, StartLoopDoes
  <2>2. CASE ~HasLoop(o)
    BY <1>1, <1>2, <2>2, Unchanged DEF OnlyLoop, ptLoopVars
  <2> QED
    BY <2>1, <2>2
<1>6. GuardianBusy'
  <2>1. "modelGuardian" \in PtShared =>
          ptLoops'["modelGuardian"].busy >= ptLoops["modelGuardian"].busy
    <3> SUFFICES ASSUME "modelGuardian" \in PtShared
                 PROVE  ptLoops'["modelGuardian"].busy >=
                          ptLoops["modelGuardian"].busy
      OBVIOUS
    <3>1. "modelGuardian" \in PtOwners /\ HasLoop("modelGuardian")
          /\ ptLoops["modelGuardian"].busy \in Nat
      BY <1>1, LoopFields, PtAssumption DEF PtOwners, HasLoop, PtAssumption
    <3> QED
      BY <1>5, <3>1 DEF OnlyLoop
  <2>2. "modelGuardian" \in PtShared =>
          (ptLoops["modelGuardian"].busy > 0 =>
             ptLoops'["modelGuardian"].busy > 0)
    <3> SUFFICES ASSUME "modelGuardian" \in PtShared
                 PROVE  ptLoops["modelGuardian"].busy > 0 =>
                          ptLoops'["modelGuardian"].busy > 0
      OBVIOUS
    <3>1. "modelGuardian" \in PtOwners
      BY DEF PtOwners
    <3>2. /\ ptLoops["modelGuardian"].busy \in Nat
          /\ ptLoops'["modelGuardian"].busy \in Nat
      BY <1>1, <1>5, <3>1 DEF LoopsOK, Loops
    <3> QED
      BY <2>1, <3>2
  <2> QED
    BY ONLY <1>1, <1>2, <1>3, <2>2, a \in PtActors, BusyKept
<1>7. Always'
  BY <1>3, <1>4, <1>5, <1>6, AlwaysParts, PTL
<1> QED
  BY <1>2, <1>3, <1>5, <1>7

\* The partners are stopped, or started, one by one.
LEMMA EachPartnerAlways ==
  ASSUME Always, NEW a \in PtActors, NEW all, NEW each,
         AllAndEach(all, each), EachPartner(a, all, each)
  PROVE  /\ Always' /\ \A b \in PtActors \ {a} : ptTodo'[b] = ptTodo[b]
         /\ UNCHANGED ptNew /\ ReloadTodo(ptTodo[a]) /\ ReloadTodo(ptTodo'[a])
         /\ \A x : In(ptTodo'[a], x) <=>
                     In(Tail(ptTodo[a]), x) \/ \E i \in ptById : x = Do(each, i)
<1>1. Data /\ Counts /\ Todos /\ LoopsOK /\ GuardianBusy
  BY AlwaysParts
<1>a. \/ all = "stopPartners" /\ each = "stop"
      \/ all = "startPartners" /\ each = "start"
  BY DEF AllAndEach
<1>2. /\ Head1(a, all, PtNone) /\ ptTodo[a] # <<>>
      /\ UNCHANGED <<ptById, ptDefs, ptConnectors, ptIndexVars, ptLoopVars,
                     ptRequests, ptCrashed, ptRaced>>
  BY DEF EachPartner, Head1
<1>3. PICK order \in [1..Cardinality(ptById) -> ptById] :
        /\ \A i \in ptById : \E n \in DOMAIN order : order[n] = i
        /\ Then(a, [n \in DOMAIN order |-> Do(each, order[n])]
                     \o Tail(ptTodo[a]))
  BY DEF EachPartner
<1> DEFINE t == StepsOfEach(each, order)
           r == ptTodo[a]
<1>4. /\ Shape(a, r) /\ r # <<>> /\ Head(r) = Do(all, PtNone)
  BY <1>1, <1>2 DEF Todos, Head1
<1>5. /\ ReloadTodo(r) /\ Shape(a, Tail(r)) /\ Tail(r) \in Seq(Step)
      /\ \A x : In(r, x) <=> x = Do(all, PtNone) \/ In(Tail(r), x)
  <2>1. all \in {"stopPartners", "startPartners", "return"}
    BY <1>a
  <2> HIDE DEF r
  <2> QED
    BY ONLY <1>4, <2>1, Heads
<1>6. ptById \in SUBSET PtIds /\ OncePerPartner(t, each, ptById)
  <2>1. /\ ptById \in SUBSET PtIds /\ IsFiniteSet(ptById)
        /\ each \in {"stop", "start"} /\ order \in Orders(ptById)
    BY <1>1, <1>3, <1>a DEF Data, Orders
  <2> QED
    BY ONLY <2>1, EachOfPartners
<1>7. ptTodo' = [ptTodo EXCEPT ![a] = t \o Tail(r)] /\ ptNew' = ptNew
  BY <1>3 DEF Then, StepsOfEach
<1> HIDE DEF t, r
<1>8. /\ ReloadTodo(t \o Tail(r))
      /\ \A x : In(t \o Tail(r), x) <=>
                  In(Tail(r), x) \/ \E i \in ptById : x = Do(each, i)
  <2>1. ReloadTodo(r) /\ r # <<>> /\ Head(r) = Do(all, PtNone)
    BY <1>4, <1>5
  <2> QED
    BY ONLY AllAndEach(all, each), <1>6, <2>1, EachPartnerReload
<1> DEFINE u == t \o Tail(r)
<1>9. u \in Seq(Step) /\ Shape(a, u)
  <2>1. u \in Seq(Step)
    BY <1>8 DEF ReloadTodo
  <2>2. a # "guardian" => ~In(u, Do("return", PtNone))
    <3>1. ASSUME a # "guardian", In(u, Do("return", PtNone)) PROVE FALSE
      <4>1. In(Tail(r), Do("return", PtNone))
        BY <1>8, <1>a, <3>1, Steps
      <4>2. In(r, Do("return", PtNone))
        BY <1>5, <4>1
      <4>3. \E id \in PtIds : r \in PartnerTodo(id)
        BY <1>4, <3>1, <4>2 DEF Shape
      <4> QED
        BY <4>2, <4>3, PartnerIn, Steps
    <3> QED
      BY <3>1
  <2> QED
    BY <1>8, <2>1, <2>2 DEF Shape
<1>10. /\ Todos' /\ ptTodo'[a] = u
       /\ \A b \in PtActors \ {a} : ptTodo'[b] = ptTodo[b]
  <2>1. ReloadTodo(u)
    BY <1>8
  <2> HIDE DEF u
  <2>2. \A id \in PtIds :
          /\ ptDefs[id] \in PtDef => ptDefs'[id] \in PtDef
          /\ u \in Validates(id) \cup Defines(id) => ptNew'[a] \in PtDef
          /\ u \in Saves(id) => ptDefs'[id] \in PtDef
    BY <1>2, <2>1, Kinds
  <2>3. /\ ptNew' \in [PtActors -> PtDef \cup {PtNone}]
        /\ \A b \in PtActors \ {a} : ptNew'[b] = ptNew[b]
    BY <1>1, <1>7 DEF Todos
  <2>4. ptTodo' = [ptTodo EXCEPT ![a] = u]
    BY <1>7 DEF u
  <2> QED
    BY ONLY <1>1, <1>9, <2>2, <2>3, <2>4, a \in PtActors, TodosChange
<1>11. Always'
  BY ONLY Always, a \in PtActors, <1>2, <1>10, QuietStep
<1> QED
  BY <1>5, <1>7, <1>8, <1>10, <1>11 DEF r

\* The loop of the guardian, after its reload.
LEMMA ReturnAlways ==
  ASSUME Always, NEW a \in PtActors, Return(a)
  PROVE  LET g == "modelGuardian"
         IN  /\ Always' /\ \A b \in PtActors \ {a} : ptTodo'[b] = ptTodo[b]
             /\ a = "guardian" /\ ptTodo[a] # <<>> /\ ptTodo'[a] = <<>>
             /\ UNCHANGED ptNew
             /\ \A x : In(ptTodo[a], x) => x = Do("return", PtNone)
             /\ g \in PtShared /\ g \in PtOwners
             /\ ptStop' = ptStop /\ OnlyLoop(g)
             /\ ptLoops[g].busy > 0
             /\ ptLoops'[g].busy = ptLoops[g].busy - 1
             /\ ptLoops'[g].waiting = ptLoops[g].waiting
<1> DEFINE g == "modelGuardian"
<1>1. Data /\ Counts /\ Todos /\ LoopsOK /\ GuardianBusy
  BY AlwaysParts
<1>2. /\ Head1(a, "return", PtNone) /\ Advance(a) /\ ptTodo[a] # <<>>
      /\ ptLoops' = [ptLoops EXCEPT ![g].busy = @ - 1]
      /\ UNCHANGED <<ptById, ptDefs, ptConnectors, ptIndexVars>>
      /\ UNCHANGED <<ptRequests, ptCrashed, ptRaced>> /\ ptStop' = ptStop
  BY DEF Return, Head1
<1>3. /\ a = "guardian" /\ Tail(ptTodo[a]) = <<>>
      /\ \A x : In(ptTodo[a], x) => x = Do("return", PtNone)
  <2>1. Shape(a, ptTodo[a]) /\ Head(ptTodo[a]) = Do("return", PtNone)
    BY <1>1, <1>2 DEF Todos, Head1
  <2>2. /\ a = "guardian" /\ Tail(ptTodo[a]) = <<>>
        /\ \A x : In(ptTodo[a], x) <=>
                    x = Do("return", PtNone) \/ In(Tail(ptTodo[a]), x)
    BY ONLY <1>2, <2>1, Heads
  <2> QED
    BY <2>2, NothingToDo
<1>4. /\ Todos' /\ UNCHANGED ptNew
      /\ \A b \in PtActors \ {a} : ptTodo'[b] = ptTodo[b]
      /\ ptTodo'[a] = Tail(ptTodo[a])
  <2>1. "return" # "define"
        /\ \A i \in PtIds : ptDefs[i] \in PtDef => ptDefs'[i] \in PtDef
    BY <1>2
  <2> QED
    BY ONLY <1>1, <1>2, <2>1, a \in PtActors, StepTodos
<1>5. g \in PtShared /\ g \in PtOwners /\ ptLoops[g].busy > 0
  BY <1>1, <1>2, <1>3 DEF GuardianBusy, PtOwners
<1> DEFINE l == ptLoops[g]
           b == l.busy - 1
           m == [l EXCEPT !.busy = b]
<1>6. /\ l \in Loops /\ b \in Nat /\ l.waiting \in Nat
      /\ ptLoops' = [ptLoops EXCEPT ![g] = m]
      /\ l.waiting > 0 => ptStop[g] = "open"
      /\ ptStop[g] # "nil" /\ ptStop[g] \in {"nil", "open", "closed"}
      /\ ptStop' = [ptStop EXCEPT ![g] = ptStop[g]]
  <2>1. l \in Loops /\ l.busy \in Nat /\ l.waiting \in Nat
    BY <1>1, <1>5, LoopFields
  <2> QED
    BY <1>1, <1>2, <1>5, <2>1 DEF LoopsOK
<1> HIDE DEF l, b, g
<1>7. m \in Loops /\ m.busy = b /\ m.waiting = l.waiting
  BY ONLY <1>6 DEF Loops
<1> HIDE DEF m
<1>8. LoopsOK' /\ OnlyLoop(g) /\ ptLoops'[g] = m
  <2>1. (m.waiting > 0 => ptStop[g] = "open") /\ (ptStop[g] = "nil" => m.busy = 0)
    BY ONLY <1>6, <1>7
  <2> QED
    BY ONLY <1>1, <1>5, <1>6, <1>7, <2>1, LoopChanged
<1>9. GuardianBusy'
  BY <1>3, <1>4 DEF GuardianBusy
<1>10. Data' /\ Counts'
  BY <1>1, <1>2, Unchanged
<1>11. Always'
  BY <1>4, <1>8, <1>9, <1>10, AlwaysParts, PTL
<1> QED
  BY <1>2, <1>3, <1>4, <1>5, <1>7, <1>8, <1>11 DEF g, l, b

\* A loop goes on.
LEMMA LoopAlways ==
  ASSUME Always, NEW o \in PtOwners, PtLoop(o)
  PROVE  /\ Always' /\ OnlyLoop(o) /\ ptStop' = ptStop
         /\ ptStop[o] = "open" =>
              ptLoops'[o].busy + ptLoops'[o].waiting =
              ptLoops[o].busy + ptLoops[o].waiting
         /\ UNCHANGED <<ptById, ptDefs, ptConnectors, ptIndexVars, ptTodo,
                        ptNew, ptRequests, ptCrashed, ptRaced>>
<1>1. Data /\ Counts /\ Todos /\ LoopsOK /\ GuardianBusy
  BY AlwaysParts
<1>2. UNCHANGED <<ptById, ptDefs, ptConnectors, ptIndexVars, ptTodo,
                  ptNew, ptRequests, ptCrashed, ptRaced>>
  BY DEF PtLoop, Select, Tick, Leave
<1>3. /\ LoopsOK' /\ OnlyLoop(o) /\ ptStop' = ptStop
      /\ ptStop[o] = "open" =>
           ptLoops'[o].busy + ptLoops'[o].waiting =
           ptLoops[o].busy + ptLoops[o].waiting
      /\ /\ ptTodo["guardian"] # <<>> /\ o = "modelGuardian"
         /\ ptLoops[o].busy > 0
         => ptLoops'[o].busy > 0
  BY ONLY <1>1, o \in PtOwners, PtLoop(o), LoopGoesOn
<1>4. Todos'
  BY <1>1, <1>2 DEF Todos, Definitions
<1>5. GuardianBusy'
  BY <1>1, <1>2, <1>3 DEF GuardianBusy, OnlyLoop, PtOwners
<1>6. Data' /\ Counts'
  BY <1>1, <1>2, Unchanged
<1>7. Always'
  BY <1>3, <1>4, <1>5, <1>6, AlwaysParts, PTL
<1> QED
  BY <1>2, <1>3, <1>7

-----------------------------------------------------------------------------
(* Preservation of what holds as long as no two requests overlapped.       *)

CredentialsFind ==
  \A id \in PtIds : \A c \in ptByIdentifier[id] : ptByCredentials[c] = id

\* The loops an operation does not touch go on.
LEMMA OthersAlive ==
  ASSUME NEW o, OnlyLoop(o), NEW p \in PtOwners \ {o}
  PROVE  (Alive(p)' <=> Alive(p)) /\ ptStop'[p] = ptStop[p]
BY DEF OnlyLoop, Alive

\* While one request is under way, no other is.
LEMMA Before ==
  ASSUME Undisturbed, NEW a \in PtActors, ptTodo[a] # <<>>
  PROVE  /\ \A b \in PtActors \ {a} : ptTodo[b] = <<>>
         /\ \A o \in PtOwners : Registered(o) =>
                                  Alive(o) \/ StartComes(ptTodo[a], o)
         /\ \A o \in PtOwners : In(ptTodo[a], Do("stop", o)) /\ HasLoop(o) =>
                                  ptStop[o] = "open"
         /\ In(ptTodo[a], Do("stopPartners", PtNone)) =>
              \A id \in ptById : HasLoop(id) => ptStop[id] = "open"
<1>1. a \in UnderWay
  BY DEF UnderWay
<1>2. \A b \in PtActors \ {a} : ptTodo[b] = <<>>
  BY <1>1 DEF Undisturbed, Alone, UnderWay
<1>3. \A b \in UnderWay : b = a
  BY <1>1 DEF Undisturbed, Alone
<1> QED
  BY <1>1, <1>2, <1>3 DEF Undisturbed, RunsOrStarts, StopsOpen

\* What a step of the only request under way has to keep.
LEMMA OneRequest ==
  ASSUME Undisturbed, NEW a \in PtActors, ptTodo[a] # <<>>,
         \A b \in PtActors \ {a} : ptTodo'[b] = ptTodo[b],
         CredentialsFind',
         \A id \in PtIds :
           /\ ptTodo'[a] \in Defines(id) \cup Saves(id) =>
                UniqCredentials(id, ptNew[a].creds)'
           /\ ptTodo'[a] \in Saves(id) => ptDefs'[id] = ptNew'[a],
         \A o \in PtOwners : Registered(o)' =>
                               Alive(o)' \/ StartComes(ptTodo'[a], o),
         \A x : In(ptTodo'[a], x) => x.op # "validate",
         \A o \in PtOwners : In(ptTodo'[a], Do("stop", o)) /\ HasLoop(o)' =>
                               ptStop'[o] = "open",
         In(ptTodo'[a], Do("stopPartners", PtNone)) =>
           \A id \in ptById' : HasLoop(id)' => ptStop'[id] = "open",
         a = "guardian" => GuardianTwice', ~ptCrashed'
  PROVE  Undisturbed'
<1>1. \A b \in PtActors \ {a} : ptTodo'[b] = <<>>
  BY Before
<1>2. \A b \in UnderWay' : b = a
  BY <1>1 DEF UnderWay
<1>3. Alone'
  BY <1>2 DEF Alone
<1>4. \A id \in PtIds : <<>> \notin Defines(id) \cup Saves(id)
  BY NothingToDo, Kinds
<1>5. CredentialsUnique'
  BY <1>1, <1>4 DEF CredentialsUnique, CredentialsFind, UniqCredentials
<1>6. RunsOrStarts'
  <2> SUFFICES ASSUME NEW o \in PtOwners, Registered(o)', ~Alive(o)'
               PROVE  \E b \in UnderWay' : StartComes(ptTodo'[b], o)
    BY DEF RunsOrStarts
  <2>1. StartComes(ptTodo'[a], o)
    OBVIOUS
  <2>2. ptTodo'[a] # <<>>
    BY <2>1, NothingToDo DEF StartComes
  <2> QED
    BY <2>1, <2>2 DEF UnderWay
<1>7. RunsWhileValidating'
  <2>1. ASSUME NEW id \in PtIds, ptTodo'[a] \in Validates(id) PROVE FALSE
    <3>1. /\ ptTodo'[a] # <<>> /\ ptTodo'[a] \in Seq(Step)
          /\ Head(ptTodo'[a]) = Do("validate", id)
      BY <2>1, PartnerHeads, PartnerIn DEF PartnerTodo
    <3>2. In(ptTodo'[a], Do("validate", id))
      <4> DEFINE s == ptTodo'[a]
      <4>1. s # <<>> /\ s \in Seq(Step) /\ Head(s) = Do("validate", id)
        BY <3>1
      <4> HIDE DEF s
      <4>2. In(s, Do("validate", id))
        BY ONLY <4>1, InTail
      <4> QED
        BY <4>2 DEF s
    <3> QED
      BY <3>2, Steps
  <2> QED
    BY <1>2, <2>1 DEF RunsWhileValidating
<1>8. StopsOpen'
  BY <1>2 DEF StopsOpen
<1>9. GuardianTwice'
  <2>1. CASE a # "guardian"
    BY <1>1, <2>1 DEF GuardianTwice, PtActors
  <2> QED
    BY <2>1
<1> QED
  BY <1>3, <1>5, <1>6, <1>7, <1>8, <1>9 DEF Undisturbed

\* The beginning of a request, when no other is under way.
LEMMA RequestUndisturbed ==
  ASSUME Always, Undisturbed, NEW a \in PtActors, NEW s, NEW def,
         Request1(a, s, def), ~ptRaced', ptTodo'[a] = s,
         \A b \in PtActors \ {a} : ptTodo'[b] = ptTodo[b],
         \A o \in PtOwners : Alive(o) => Alive(o)',
         \/ \E id \in PtIds : s \in Validates(id)
              /\ (In(s, Do("stop", id)) => id \in ptById)
         \/ \E id \in ptById : s \in Deletes(id)
         \/ \A x : In(s, x) => In(ReloadModel, x) \/ x = Do("return", PtNone),
         \A id \in PtIds : s \notin Defines(id) \cup Saves(id),
         a = "guardian" => In(s, Do("start", "modelGuardian"))
  PROVE  Undisturbed'
<1>1. Data
  BY AlwaysParts
<1>2. /\ UnderWay = {} /\ ~ptRaced
      /\ UNCHANGED <<ptById, ptDefs, ptConnectors, ptIndexVars, ptStop, ptCrashed>>
  BY DEF Request1
<1>3. \A o \in PtOwners : Registered(o) => Alive(o)
  BY <1>2 DEF Undisturbed, RunsOrStarts
<1>4. \A o : (Registered(o)' <=> Registered(o)) /\ (HasLoop(o)' <=> HasLoop(o))
  BY <1>2 DEF Registered, HasLoop
<1>5. /\ \A b \in PtActors \ {a} : ptTodo'[b] = <<>>
      /\ \A b \in UnderWay' : b = a
  BY <1>2 DEF UnderWay
<1>6. Alone'
  BY <1>5 DEF Alone
<1>7. CredentialsUnique'
  <2>1. \A b \in PtActors, id \in PtIds : ptTodo'[b] \notin Defines(id) \cup Saves(id)
    BY <1>5, NothingToDo, Kinds
  <2> QED
    BY <1>2, <2>1 DEF Undisturbed, CredentialsUnique, ptIndexVars
<1>8. RunsOrStarts' /\ RunsWhileValidating'
  BY <1>3, <1>4 DEF RunsOrStarts, RunsWhileValidating
<1>9. StopsOpen'
  <2>1. ASSUME NEW o \in PtOwners, Registered(o) PROVE ptStop'[o] = "open"
    BY <1>2, <1>3, <2>1 DEF Alive
  <2>2. ASSUME NEW o \in PtOwners, In(s, Do("stop", o)) PROVE o \in PtIds => o \in ptById
    <3>1. CASE \E id \in PtIds : s \in Validates(id)
                 /\ (In(s, Do("stop", id)) => id \in ptById)
      BY <2>2, <3>1, PartnerIn, Steps DEF PartnerTodo
    <3>2. CASE \E id \in ptById : s \in Deletes(id)
      BY <1>1, <2>2, <3>2, PartnerIn, Steps DEF PartnerTodo, Data
    <3>3. CASE \A x : In(s, x) => In(ReloadModel, x) \/ x = Do("return", PtNone)
      <4>1. In(ReloadModel, Do("stop", o))
        BY <2>2, <3>3, Steps
      <4>2. o \in PtShared
        BY <4>1, ReloadModelSteps, Steps
      <4> QED
        BY <4>2, PtAssumption DEF PtAssumption
    <3> QED
      BY <3>1, <3>2, <3>3
  <2>3. \A o \in PtOwners : In(s, Do("stop", o)) /\ HasLoop(o)' => ptStop'[o] = "open"
    BY <1>4, <2>1, <2>2 DEF Registered
  <2>4. \A id \in ptById' : HasLoop(id)' => ptStop'[id] = "open"
    BY <1>1, <1>2, <1>4, <2>1 DEF Registered, Data, PtOwners
  <2> QED
    BY <1>5, <2>3, <2>4 DEF StopsOpen
<1>10. GuardianTwice'
  BY <1>5 DEF GuardianTwice, PtActors
<1>11. ~ptCrashed'
  BY <1>2 DEF Undisturbed
<1> QED
  BY <1>6, <1>7, <1>8, <1>9, <1>10, <1>11 DEF Undisturbed

\* What the next step of a request tells of it, when it is about a partner.
LEMMA Whose ==
  ASSUME NEW a, NEW s, Shape(a, s), s # <<>>, NEW op, NEW o,
         Head(s) = Do(op, o), ~ReloadTodo(s)
  PROVE  o \in PtIds /\ s \in PartnerTodo(o)
<1>1. PICK i \in PtIds : s \in PartnerTodo(i)
  BY DEF Shape
<1>2. In(s, Do(op, o))
  BY ONLY Shape(a, s), s # <<>>, Head(s) = Do(op, o), Heads
<1>3. Do(op, o).of = i
  BY <1>1, <1>2, PartnerIn
<1> QED
  BY <1>1, <1>3, Steps

\* A request about a partner starts no other.
LEMMA StartsItsOwn ==
  ASSUME NEW id \in PtIds, NEW s \in PartnerTodo(id), NEW o, o # id
  PROVE  ~StartComes(s, o)
<1>1. \A x : In(s, x) => x.of = id /\ x.op # "startPartners"
  BY PartnerIn
<1> QED
  BY <1>1, Steps DEF StartComes

\* What an action that takes a step of a request finds.
LEMMA AtStep ==
  ASSUME Always, Undisturbed, NEW a \in PtActors, NEW op, NEW o,
         Head1(a, op, o)
  PROVE  LET t == ptTodo[a]
         IN  /\ Data /\ LoopsOK /\ GuardianBusy
             /\ Shape(a, t) /\ t # <<>> /\ Head(t) = Do(op, o)
             /\ Shape(a, Tail(t))
             /\ \A x : In(t, x) <=> x = Do(op, o) \/ In(Tail(t), x)
             /\ \A x : In(Tail(t), x) => x.op # "validate"
             /\ CredentialsFind /\ ~ptCrashed
<1>1. Data /\ LoopsOK /\ GuardianBusy /\ Todos
  BY AlwaysParts
<1> DEFINE t == ptTodo[a]
<1>2. Shape(a, t) /\ t # <<>> /\ Head(t) = Do(op, o)
  BY <1>1 DEF Todos, Head1
<1>3. CredentialsFind /\ ~ptCrashed
  BY DEF Undisturbed, CredentialsUnique, CredentialsFind
<1> HIDE DEF t
<1>4. /\ Shape(a, Tail(t))
      /\ \A x : In(t, x) <=> x = Do(op, o) \/ In(Tail(t), x)
      /\ \A x : In(Tail(t), x) => x.op # "validate"
  <2>1. Shape(a, Tail(t))
    BY ONLY <1>2, Heads
  <2>2. \A x : In(t, x) <=> x = Do(op, o) \/ In(Tail(t), x)
    BY ONLY <1>2, Heads
  <2>3. NoValidate(Tail(t))
    BY ONLY <1>2, Heads
  <2> QED
    BY ONLY <2>1, <2>2, <2>3 DEF NoValidate
<1> QED
  BY <1>1, <1>2, <1>3, <1>4 DEF t

\* A definition that is refused, or accepted.
LEMMA ValidateUndisturbed ==
  ASSUME Always, Undisturbed, NEW a \in PtActors, NEW id \in PtIds,
         Validate(a, id)
  PROVE  Undisturbed'
<1> DEFINE t == ptTodo[a]
<1>1. /\ Head1(a, "validate", id)
      /\ UNCHANGED <<ptById, ptDefs, ptConnectors, ptIndexVars, ptLoopVars,
                     ptRequests, ptCrashed, ptRaced>>
  BY DEF Validate, Head1
<1>2. /\ Shape(a, t) /\ t # <<>> /\ Head(t) = Do("validate", id)
      /\ \A x : In(t, x) <=> x = Do("validate", id) \/ In(Tail(t), x)
      /\ \A x : In(Tail(t), x) => x.op # "validate"
      /\ CredentialsFind /\ ~ptCrashed
  BY <1>1, AtStep
<1>3. t \in Validates(id) /\ Tail(t) \in Defines(id) /\ a # "guardian"
  <2> HIDE DEF t
  <2> QED
    BY ONLY <1>2, Heads
<1>4. /\ \A b \in PtActors \ {a} : ptTodo'[b] = ptTodo[b]
      /\ UNCHANGED ptNew
      /\ \/ ptTodo'[a] = <<>>
         \/ ptTodo'[a] = Tail(t) /\ UniqCredentials(id, ptNew[a].creds)
  BY ValidateAlways
<1>5. \A o \in PtOwners : Registered(o) => Alive(o)
  BY <1>2, <1>3 DEF Undisturbed, RunsWhileValidating, UnderWay
<1>6. /\ \A o : (Registered(o)' <=> Registered(o)) /\ (HasLoop(o)' <=> HasLoop(o))
      /\ \A o : Alive(o)' <=> Alive(o)
      /\ ptStop' = ptStop /\ ptById' = ptById /\ ~ptCrashed'
      /\ CredentialsFind'
  BY <1>1, <1>2
     DEF Registered, HasLoop, Alive, ptLoopVars, CredentialsFind, ptIndexVars
<1>7. \A x : In(ptTodo'[a], x) => In(Tail(t), x)
  BY <1>4, NothingToDo
<1>8. /\ \A o \in PtOwners : In(t, Do("stop", o)) /\ HasLoop(o) =>
                               ptStop[o] = "open"
      /\ In(t, Do("stopPartners", PtNone)) =>
           \A i \in ptById : HasLoop(i) => ptStop[i] = "open"
  BY <1>2, Before
<1>9. ASSUME NEW i \in PtIds
      PROVE  /\ ptTodo'[a] \in Defines(i) \cup Saves(i) =>
                  UniqCredentials(i, ptNew[a].creds)'
             /\ ptTodo'[a] \in Saves(i) => ptDefs'[i] = ptNew'[a]
  <2>1. CASE ptTodo'[a] = <<>>
    BY <2>1, NothingToDo, Kinds
  <2>2. CASE ptTodo'[a] = Tail(t) /\ UniqCredentials(id, ptNew[a].creds)
    <3>1. Tail(t) \notin Saves(i) /\ (Tail(t) \in Defines(i) => i = id)
      BY <1>3, Kinds
    <3> QED
      BY <1>1, <1>4, <2>2, <3>1 DEF UniqCredentials, ptIndexVars
  <2> QED
    BY <1>4, <2>1, <2>2
<1>10. /\ \A x : In(ptTodo'[a], x) => x.op # "validate"
       /\ \A o \in PtOwners : In(ptTodo'[a], Do("stop", o)) /\ HasLoop(o)' =>
                               ptStop'[o] = "open"
       /\ In(ptTodo'[a], Do("stopPartners", PtNone)) =>
            \A i \in ptById' : HasLoop(i)' => ptStop'[i] = "open"
  BY <1>2, <1>6, <1>7, <1>8
<1>11. \A o \in PtOwners : Registered(o)' =>
                             Alive(o)' \/ StartComes(ptTodo'[a], o)
  BY <1>5, <1>6
<1> QED
  BY ONLY Undisturbed, a \in PtActors, <1>2, <1>3, <1>4, <1>6, <1>9, <1>10, <1>11,
          OneRequest

\* A definition that replaces the partner's, whose start is still to come.
LEMMA SetDefinitionUndisturbed ==
  ASSUME Always, Undisturbed, NEW a \in PtActors, NEW id \in PtIds,
         SetDefinition(a, id)
  PROVE  Undisturbed'
<1> DEFINE t == ptTodo[a]
           r == Tail(t)
<1>1. /\ Head1(a, "define", id)
      /\ UNCHANGED <<ptById, ptIndexVars, ptRequests, ptCrashed, ptRaced>>
  BY DEF SetDefinition, Head1
<1>2. /\ Data /\ Shape(a, t) /\ t # <<>> /\ Head(t) = Do("define", id)
      /\ \A x : In(r, x) => x.op # "validate"
      /\ CredentialsFind /\ ~ptCrashed
  BY <1>1, AtStep
<1>3. t \in Defines(id) /\ r \in Saves(id) /\ a # "guardian"
  <2> HIDE DEF t
  <2> QED
    BY ONLY <1>2, Heads
<1>4. /\ \A b \in PtActors \ {a} : ptTodo'[b] = ptTodo[b]
      /\ ptTodo'[a] = r /\ UNCHANGED ptNew /\ OnlyLoop(id)
      /\ \A i \in PtIds \ {id} : ptConnectors'[i] = ptConnectors[i]
      /\ ptDefs' = [ptDefs EXCEPT ![id] = ptNew[a]]
  BY SetDefinitionAlways
<1>5. ASSUME NEW i \in PtIds
      PROVE  /\ r \in Defines(i) \cup Saves(i) =>
                  UniqCredentials(i, ptNew[a].creds)'
             /\ r \in Saves(i) => ptDefs'[i] = ptNew'[a]
  <2>1. r \notin Defines(i) /\ (r \in Saves(i) => i = id)
    BY <1>3, Kinds
  <2>2. UniqCredentials(id, ptNew[a].creds)
    BY <1>3 DEF Undisturbed, CredentialsUnique
  <2>3. ptDefs'[id] = ptNew[a]
    BY <1>2, <1>4 DEF Data
  <2> QED
    BY <1>1, <1>4, <2>1, <2>2, <2>3 DEF UniqCredentials, ptIndexVars
<1>6. /\ t \in PartnerTodo(id) /\ r \in PartnerTodo(id)
      /\ In(r, Do("start", id)) /\ ~In(r, Do("stop", id))
  BY <1>3, PartnerIn DEF PartnerTodo
<1>7. ASSUME NEW o \in PtOwners, Registered(o)'
      PROVE  Alive(o)' \/ StartComes(r, o)
  <2>1. CASE o = id
    BY <1>6, <2>1 DEF StartComes
  <2>2. CASE o # id
    <3>1. Registered(o)
      BY <1>1, <1>4, <1>7, <2>2 DEF Registered, HasLoop
    <3>2. ~StartComes(t, o)
      BY <1>6, <2>2, StartsItsOwn
    <3>3. Alive(o)
      BY <1>2, <3>1, <3>2, Before
    <3> QED
      BY <1>4, <2>2, <3>3, OthersAlive
  <2> QED
    BY <2>1, <2>2
<1>8. /\ \A o \in PtOwners : ~In(r, Do("stop", o))
      /\ ~In(r, Do("stopPartners", PtNone))
  BY <1>6, PartnerIn, Steps
<1>9. CredentialsFind' /\ ~ptCrashed'
  BY <1>1, <1>2 DEF CredentialsFind, ptIndexVars
<1> QED
  BY ONLY Undisturbed, a \in PtActors, <1>2, <1>3, <1>4, <1>5, <1>7, <1>8, <1>9,
          OneRequest

\* Credentials that were validated are no other partner's when they are saved.
LEMMA SaveUndisturbed ==
  ASSUME Always, Undisturbed, NEW a \in PtActors, NEW id \in PtIds, Save(a, id)
  PROVE  Undisturbed'
<1> DEFINE t == ptTodo[a]
           r == Tail(t)
           creds == ptDefs[id].creds
<1>1. /\ Head1(a, "save", id) /\ ptById' = ptById \cup {id}
      /\ Index(id, creds)
      /\ UNCHANGED <<ptDefs, ptConnectors, ptLoopVars, ptCrashed>>
  BY DEF Save
<1>2. /\ Data /\ Shape(a, t) /\ t # <<>> /\ Head(t) = Do("save", id)
      /\ \A x : In(r, x) => x.op # "validate"
      /\ CredentialsFind /\ ~ptCrashed
  BY <1>1, AtStep
<1>3. t \in Saves(id) /\ r \in Starts(id) /\ a # "guardian"
  <2> HIDE DEF t
  <2> QED
    BY ONLY <1>2, Heads
<1>4. /\ \A b \in PtActors \ {a} : ptTodo'[b] = ptTodo[b]
      /\ ptTodo'[a] = r /\ UNCHANGED ptNew
      /\ creds \in SUBSET PtCreds
  BY SaveAlways DEF PtDef
<1>5. \A i \in PtIds : r \notin Defines(i) \cup Saves(i)
  BY <1>3, Kinds
<1>6. \A c \in creds : ptByCredentials[c] \in {PtNone, id}
  BY <1>3 DEF Undisturbed, CredentialsUnique, UniqCredentials
<1>7. CredentialsFind'
  <2> SUFFICES ASSUME NEW i \in PtIds, NEW c \in ptByIdentifier'[i]
               PROVE  ptByCredentials'[c] = i
    BY DEF CredentialsFind
  <2>1. /\ ptByIdentifier \in [PtIds -> SUBSET PtCreds] /\ PtNone \notin PtIds
        /\ ptByIdentifier' = [ptByIdentifier EXCEPT ![id] = creds]
        /\ ptByCredentials' = [e \in PtCreds |->
             IF e \in creds THEN id
             ELSE IF e \in ptByIdentifier[id] THEN PtNone ELSE ptByCredentials[e]]
    BY <1>1, <1>2, PtAssumption DEF Data, Index, PtAssumption
  <2>2. CASE i = id
    <3>1. c \in creds /\ c \in PtCreds
      BY <1>4, <2>1, <2>2
    <3> QED
      BY <2>1, <2>2, <3>1
  <2>3. CASE i # id
    <3>1. c \in ptByIdentifier[i] /\ c \in PtCreds
      BY <2>1, <2>3
    <3>2. ptByCredentials[c] = i /\ (c \in ptByIdentifier[id] => ptByCredentials[c] = id)
      BY <1>2, <3>1 DEF CredentialsFind
    <3>3. c \notin creds /\ c \notin ptByIdentifier[id]
      BY <1>6, <2>1, <2>3, <3>2
    <3> QED
      BY <2>1, <3>1, <3>2, <3>3
  <2> QED
    BY <2>2, <2>3
<1>8. /\ t \in PartnerTodo(id) /\ r \in PartnerTodo(id)
      /\ In(r, Do("start", id)) /\ ~In(r, Do("stop", id))
  BY <1>3, PartnerIn DEF PartnerTodo
<1>9. ASSUME NEW o \in PtOwners, Registered(o)'
      PROVE  Alive(o)' \/ StartComes(r, o)
  <2>1. CASE o = id
    BY <1>8, <2>1 DEF StartComes
  <2>2. CASE o # id
    <3>1. Registered(o)
      BY <1>1, <1>9, <2>2 DEF Registered, HasLoop
    <3>2. ~StartComes(t, o)
      BY <1>8, <2>2, StartsItsOwn
    <3>3. Alive(o)
      BY <1>2, <3>1, <3>2, Before
    <3> QED
      BY <1>1, <3>3 DEF Alive, ptLoopVars
  <2> QED
    BY <2>1, <2>2
<1>10. /\ \A o \in PtOwners : ~In(r, Do("stop", o))
       /\ ~In(r, Do("stopPartners", PtNone))
  BY <1>8, PartnerIn, Steps
<1>11. ~ptCrashed'
  BY <1>1, <1>2
<1> QED
  BY ONLY Undisturbed, a \in PtActors, <1>2, <1>3, <1>4, <1>5, <1>7, <1>9, <1>10,
          <1>11, OneRequest

\* A partner goes, and the credentials that found it.
LEMMA RemoveUndisturbed ==
  ASSUME Always, Undisturbed, NEW a \in PtActors, NEW id \in PtIds, Remove(a, id)
  PROVE  Undisturbed'
<1> DEFINE t == ptTodo[a]
<1>1. /\ Head1(a, "delete", id) /\ ptById' = ptById \ {id} /\ Unindex(id)
      /\ UNCHANGED <<ptDefs, ptConnectors, ptLoopVars, ptCrashed>>
  BY DEF Remove
<1>2. /\ Data /\ Shape(a, t) /\ t # <<>> /\ Head(t) = Do("delete", id)
      /\ CredentialsFind /\ ~ptCrashed
  BY <1>1, AtStep
<1>3. t \in Deletes(id) /\ Tail(t) = <<>> /\ a # "guardian"
  <2> HIDE DEF t
  <2> QED
    BY ONLY <1>2, Heads
<1>4. /\ \A b \in PtActors \ {a} : ptTodo'[b] = ptTodo[b]
      /\ ptTodo'[a] = <<>>
  BY <1>3, RemoveAlways
<1>5. CredentialsFind'
  <2> SUFFICES ASSUME NEW i \in PtIds, NEW c \in ptByIdentifier'[i]
               PROVE  ptByCredentials'[c] = i
    BY DEF CredentialsFind
  <2>1. /\ ptByIdentifier \in [PtIds -> SUBSET PtCreds]
        /\ ptByIdentifier' = [ptByIdentifier EXCEPT ![id] = {}]
        /\ ptByCredentials' = [e \in PtCreds |->
             IF e \in ptByIdentifier[id] THEN PtNone ELSE ptByCredentials[e]]
    BY <1>1, <1>2 DEF Data, Unindex
  <2>2. i # id /\ c \in ptByIdentifier[i] /\ c \in PtCreds
    BY <2>1
  <2>3. ptByCredentials[c] = i /\ c \notin ptByIdentifier[id]
    BY <1>2, <2>2 DEF CredentialsFind
  <2> QED
    BY <2>1, <2>2, <2>3
<1>6. t \in PartnerTodo(id)
  BY <1>3 DEF PartnerTodo
<1>7. ASSUME NEW o \in PtOwners, Registered(o)'
      PROVE  Alive(o)' \/ StartComes(<<>>, o)
  <2>1. o # id /\ Registered(o)
    BY <1>1, <1>7 DEF Registered, HasLoop
  <2>2. ~StartComes(t, o)
    BY <1>6, <2>1, StartsItsOwn
  <2>3. Alive(o)
    BY <1>2, <2>1, <2>2, Before
  <2> QED
    BY <1>1, <2>3 DEF Alive, ptLoopVars
<1>8. /\ \A x : ~In(<<>>, x)
      /\ \A i \in PtIds : <<>> \notin Defines(i) \cup Saves(i)
  BY NothingToDo, Kinds
<1>9. ~ptCrashed'
  BY <1>1, <1>2
<1> QED
  BY ONLY Undisturbed, a \in PtActors, <1>2, <1>3, <1>4, <1>5, <1>7, <1>8, <1>9,
          OneRequest

\* What is stopped is open, so that nothing panics, and is started again.
LEMMA StopUndisturbed ==
  ASSUME Always, Undisturbed, NEW a \in PtActors, NEW o \in PtOwners,
         StopStep(a, o)
  PROVE  Undisturbed'
<1> DEFINE t == ptTodo[a]
           r == Tail(t)
<1>1. /\ Head1(a, "stop", o)
      /\ UNCHANGED <<ptById, ptDefs, ptConnectors, ptIndexVars>>
  BY DEF StopStep
<1>2. /\ Data /\ GuardianBusy /\ Shape(a, t) /\ t # <<>>
      /\ Head(t) = Do("stop", o)
      /\ \A x : In(t, x) <=> x = Do("stop", o) \/ In(r, x)
      /\ \A x : In(r, x) => x.op # "validate"
      /\ CredentialsFind /\ ~ptCrashed
  BY <1>1, AtStep
<1>3. /\ \/ t \in Defines(o) /\ r \in Defines(o)
         \/ t \in Deletes(o) /\ r \in Deletes(o)
         \/ ReloadTodo(t)
      /\ ~In(r, Do("stop", o))
  <2> HIDE DEF t
  <2> QED
    BY ONLY <1>2, Heads
<1>4. /\ \A p \in PtOwners : Registered(p) => Alive(p) \/ StartComes(t, p)
      /\ \A p \in PtOwners : In(t, Do("stop", p)) /\ HasLoop(p) =>
                               ptStop[p] = "open"
      /\ In(t, Do("stopPartners", PtNone)) =>
           \A i \in ptById : HasLoop(i) => ptStop[i] = "open"
  BY <1>2, Before
<1>5. HasLoop(o) => ptStop[o] = "open"
  BY <1>2, <1>4
<1>6. /\ \A b \in PtActors \ {a} : ptTodo'[b] = ptTodo[b]
      /\ ptTodo'[a] = r /\ UNCHANGED <<ptNew, ptCrashed>> /\ OnlyLoop(o)
  <2>1. /\ \A b \in PtActors \ {a} : ptTodo'[b] = ptTodo[b]
        /\ UNCHANGED ptNew
        /\ \/ /\ ptTodo'[a] = r /\ UNCHANGED ptCrashed
              /\ \/ ~HasLoop(o) /\ UNCHANGED ptLoopVars
                 \/ HasLoop(o) /\ ptStop[o] # "closed" /\ OnlyLoop(o)
           \/ HasLoop(o) /\ ptStop[o] = "closed" /\ ptTodo'[a] = <<>>
                /\ UNCHANGED ptLoopVars
    BY StopAlways
  <2>2. UNCHANGED ptLoopVars => OnlyLoop(o)
    BY DEF OnlyLoop, ptLoopVars
  <2> QED
    BY <1>5, <2>1, <2>2
<1>7. \/ o \in PtIds /\ t \in Defines(o) /\ r \in Defines(o)
      \/ o \in PtIds /\ t \in Deletes(o) /\ r \in Deletes(o)
      \/ ReloadTodo(t) /\ ReloadTodo(r)
  <2>1. ReloadTodo(t) => ReloadTodo(r)
    BY <1>2, TailReload
  <2>2. ~ReloadTodo(t) => o \in PtIds
    <3> HIDE DEF t
    <3> QED
      BY ONLY <1>2, Whose
  <2> QED
    BY <1>3, <2>1, <2>2
<1>8. StartComes(r, o)
  <2>1. CASE o \in PtIds /\ t \in Defines(o) /\ r \in Defines(o)
    BY <2>1, PartnerIn DEF StartComes
  <2>2. CASE o \in PtIds /\ t \in Deletes(o) /\ r \in Deletes(o)
    BY <2>2, PartnerIn DEF StartComes
  <2>3. CASE ReloadTodo(t)
    <3>1. In(t, Do("stop", o)) /\ StartsAgain(t)
      BY <1>2, <2>3 DEF ReloadTodo
    <3>2. CASE o \in PtShared
      BY <1>2, <3>1, <3>2, Steps DEF StartsAgain, StartComes
    <3>3. CASE o \in PtIds
      BY <1>2, <3>1, <3>3, Steps DEF StartsAgain, StartComes
    <3> QED
      BY <3>2, <3>3 DEF PtOwners
  <2> QED
    BY <1>7, <2>1, <2>2, <2>3
<1>9. ASSUME NEW i \in PtIds
      PROVE  /\ r \in Defines(i) \cup Saves(i) =>
                  UniqCredentials(i, ptNew[a].creds)'
             /\ r \in Saves(i) => ptDefs'[i] = ptNew'[a]
  <2>1. CASE o \in PtIds /\ t \in Defines(o) /\ r \in Defines(o)
    <3>1. r \notin Saves(i) /\ (r \in Defines(i) => i = o)
      BY <2>1, Kinds
    <3>2. UniqCredentials(o, ptNew[a].creds)
      BY <2>1 DEF Undisturbed, CredentialsUnique
    <3> QED
      BY <1>1, <1>6, <3>1, <3>2 DEF UniqCredentials, ptIndexVars
  <2>2. CASE o \in PtIds /\ t \in Deletes(o) /\ r \in Deletes(o)
    BY <2>2, Kinds
  <2>3. CASE ReloadTodo(r)
    BY <2>3, Kinds
  <2> QED
    BY <1>7, <2>1, <2>2, <2>3
<1>10. \A p : (Registered(p)' <=> Registered(p)) /\ (HasLoop(p)' <=> HasLoop(p))
  BY <1>1 DEF Registered, HasLoop
<1>11. ASSUME NEW p \in PtOwners, Registered(p)'
       PROVE  Alive(p)' \/ StartComes(r, p)
  <2>1. CASE p = o
    BY <1>8, <2>1
  <2>2. CASE p # o
    <3>1. Alive(p) \/ StartComes(t, p)
      BY <1>4, <1>10, <1>11
    <3>2. StartComes(t, p) => StartComes(r, p)
      BY <1>2, Steps DEF StartComes
    <3> QED
      BY <1>6, <2>2, <3>1, <3>2, OthersAlive
  <2> QED
    BY <2>1, <2>2
<1>12. ASSUME NEW p \in PtOwners, In(r, Do("stop", p)), HasLoop(p)'
       PROVE  ptStop'[p] = "open"
  <2>1. p # o /\ ptStop[p] = "open"
    BY <1>2, <1>3, <1>4, <1>10, <1>12
  <2> QED
    BY <1>6, <2>1 DEF OnlyLoop
<1>13. ASSUME In(r, Do("stopPartners", PtNone)), NEW i \in ptById', HasLoop(i)'
       PROVE  ptStop'[i] = "open"
  <2>1. i \in ptById /\ i \in PtIds /\ i \in PtOwners /\ ptStop[i] = "open"
    BY <1>1, <1>2, <1>4, <1>10, <1>13 DEF Data, PtOwners
  <2>2. i # o
    <3>1. CASE ReloadTodo(t)
      BY <1>2, <1>13, <2>1, <3>1 DEF ReloadTodo, StartsAgain
    <3>2. CASE o \in PtIds /\ r \in PartnerTodo(o)
      BY <1>13, <3>2, PartnerIn, Steps
    <3> QED
      BY <1>7, <3>1, <3>2 DEF PartnerTodo
  <2> QED
    BY <1>6, <2>1, <2>2 DEF OnlyLoop
<1>14. ASSUME a = "guardian" PROVE GuardianTwice'
  <2> DEFINE g == "modelGuardian"
  <2>1. g \in PtShared /\ g \in PtOwners /\ g \notin PtIds
    BY <1>2, <1>14, PtAssumption DEF GuardianBusy, PtOwners, PtAssumption
  <2>2. SUFFICES ASSUME ~In(r, Do("start", g))
                 PROVE  /\ ptStop'[g] = "open"
                        /\ ptLoops'[g].busy + ptLoops'[g].waiting > 1
    BY <1>6, <1>14 DEF GuardianTwice
  <2>3. ~In(t, Do("start", g))
    BY <1>2, <2>2, Steps
  <2>4. ptStop[g] = "open" /\ ptLoops[g].busy + ptLoops[g].waiting > 1
    BY <1>2, <1>14, <2>3 DEF Undisturbed, GuardianTwice
  <2>5. o # g
    <3> SUFFICES ASSUME o = g PROVE FALSE
      OBVIOUS
    <3>1. ReloadTodo(r) /\ StartComes(r, g)
      BY <1>7, <1>8, <2>1
    <3>2. In(r, Do("delete", g))
      BY <2>1, <2>2, <3>1 DEF StartComes
    <3>3. \A x : In(r, x) => x.op \in ReloadOps
      BY <3>1, OpsIn DEF ReloadTodo
    <3>4. "delete" \in ReloadOps
      BY <3>2, <3>3, Steps
    <3> QED
      BY <3>4 DEF ReloadOps, Starting, Stopping
  <2> QED
    BY <1>6, <2>1, <2>4, <2>5 DEF OnlyLoop
<1>15. CredentialsFind' /\ ~ptCrashed'
  BY <1>1, <1>2, <1>6 DEF CredentialsFind, ptIndexVars
<1> QED
  BY ONLY Undisturbed, a \in PtActors, <1>2, <1>6, <1>9, <1>11, <1>12, <1>13,
          <1>14, <1>15, OneRequest

\* What is started runs.
LEMMA StartUndisturbed ==
  ASSUME Always, Undisturbed, NEW a \in PtActors, NEW o \in PtOwners,
         StartStep(a, o)
  PROVE  Undisturbed'
<1> DEFINE t == ptTodo[a]
           r == Tail(t)
<1>1. /\ Head1(a, "start", o)
      /\ UNCHANGED <<ptById, ptDefs, ptConnectors, ptIndexVars>>
  BY DEF StartStep
<1>2. /\ Data /\ LoopsOK /\ GuardianBusy /\ Shape(a, t) /\ t # <<>>
      /\ Head(t) = Do("start", o)
      /\ \A x : In(t, x) <=> x = Do("start", o) \/ In(r, x)
      /\ \A x : In(r, x) => x.op # "validate"
      /\ CredentialsFind /\ ~ptCrashed
  BY <1>1, AtStep
<1>3. t \in Starts(o) \/ ReloadTodo(t)
  <2> HIDE DEF t
  <2> QED
    BY ONLY <1>2, Heads
<1>4. /\ \A p \in PtOwners : Registered(p) => Alive(p) \/ StartComes(t, p)
      /\ \A p \in PtOwners : In(t, Do("stop", p)) /\ HasLoop(p) =>
                               ptStop[p] = "open"
      /\ In(t, Do("stopPartners", PtNone)) =>
           \A i \in ptById : HasLoop(i) => ptStop[i] = "open"
  BY <1>2, Before
<1>5. /\ Always' /\ \A b \in PtActors \ {a} : ptTodo'[b] = ptTodo[b]
      /\ ptTodo'[a] = r /\ UNCHANGED <<ptNew, ptCrashed>>
      /\ OnlyLoop(o)
      /\ HasLoop(o) => /\ ptStop'[o] = "open"
                       /\ ptLoops'[o].busy = ptLoops[o].busy + 1
  BY StartAlways
<1>6. \A i \in PtIds : r \notin Defines(i) \cup Saves(i)
  <2>1. CASE ReloadTodo(t)
    <3>1. ReloadTodo(r)
      BY <1>2, <2>1, TailReload
    <3> QED
      BY <3>1, Kinds
  <2>2. CASE t \in Starts(o)
    <3>1. r = <<>>
      BY <2>2, PartnerHeads
    <3> QED
      BY <3>1, NothingToDo, Kinds
  <2> QED
    BY <1>3, <2>1, <2>2
<1>7. \A p : (Registered(p)' <=> Registered(p)) /\ (HasLoop(p)' <=> HasLoop(p))
  BY <1>1 DEF Registered, HasLoop
<1>8. /\ ptLoops[o].busy \in Nat /\ ptLoops'[o].busy \in Nat
      /\ ptLoops'[o].waiting \in Nat
  <2>1. LoopsOK'
    BY <1>5, AlwaysParts, PTL
  <2> QED
    BY <1>2, <2>1 DEF LoopsOK, Loops
<1>9. HasLoop(o) => Alive(o)'
  <2>1. HasLoop(o) => ptLoops'[o].busy + ptLoops'[o].waiting > 0
    BY <1>5, <1>8
  <2> QED
    BY <1>5, <2>1 DEF Alive
<1>10. ASSUME NEW p \in PtOwners, Registered(p)'
       PROVE  Alive(p)' \/ StartComes(r, p)
  <2>1. CASE p = o
    BY <1>7, <1>9, <1>10, <2>1 DEF Registered
  <2>2. CASE p # o
    <3>1. Alive(p) \/ StartComes(t, p)
      BY <1>4, <1>7, <1>10
    <3>2. StartComes(t, p) => StartComes(r, p)
      BY <1>2, <2>2, Steps DEF StartComes
    <3> QED
      BY <1>5, <2>2, <3>1, <3>2, OthersAlive
  <2> QED
    BY <2>1, <2>2
<1>11. ASSUME NEW p \in PtOwners, In(r, Do("stop", p)), HasLoop(p)'
       PROVE  ptStop'[p] = "open"
  <2>1. HasLoop(p) /\ ptStop[p] = "open"
    BY <1>2, <1>4, <1>7, <1>11
  <2> QED
    BY <1>5, <2>1 DEF OnlyLoop
<1>12. ASSUME In(r, Do("stopPartners", PtNone)), NEW i \in ptById', HasLoop(i)'
       PROVE  ptStop'[i] = "open"
  <2>1. i \in PtOwners /\ HasLoop(i) /\ ptStop[i] = "open"
    BY <1>1, <1>2, <1>4, <1>7, <1>12 DEF Data, PtOwners
  <2> QED
    BY <1>5, <2>1 DEF OnlyLoop
<1>13. ASSUME a = "guardian" PROVE GuardianTwice'
  <2> DEFINE g == "modelGuardian"
  <2>1. g \in PtShared /\ g \in PtOwners /\ g \notin PtIds /\ ptLoops[g].busy > 0
    BY <1>2, <1>13, PtAssumption DEF GuardianBusy, PtOwners, PtAssumption
  <2>2. SUFFICES ASSUME ~In(r, Do("start", g))
                 PROVE  /\ ptStop'[g] = "open"
                        /\ ptLoops'[g].busy + ptLoops'[g].waiting > 1
    BY <1>5, <1>13 DEF GuardianTwice
  <2>3. CASE o = g
    <3>1. HasLoop(o)
      BY <2>1, <2>3 DEF HasLoop
    <3>2. ptLoops'[g].busy = ptLoops[g].busy + 1 /\ ptStop'[g] = "open"
      BY <1>5, <2>3, <3>1
    <3> QED
      BY <1>8, <2>1, <2>3, <3>2
  <2>4. CASE o # g
    <3>1. ~In(t, Do("start", g))
      BY <1>2, <2>2, <2>4, Steps
    <3>2. ptStop[g] = "open" /\ ptLoops[g].busy + ptLoops[g].waiting > 1
      BY <1>2, <1>13, <3>1 DEF Undisturbed, GuardianTwice
    <3> QED
      BY <1>5, <2>1, <2>4, <3>2 DEF OnlyLoop
  <2> QED
    BY <2>3, <2>4
<1>14. CredentialsFind' /\ ~ptCrashed'
  BY <1>1, <1>2, <1>5 DEF CredentialsFind, ptIndexVars
<1> QED
  BY ONLY Undisturbed, a \in PtActors, <1>2, <1>5, <1>6, <1>10, <1>11, <1>12,
          <1>13, <1>14, OneRequest

\* The partners are stopped, or started, one by one.
LEMMA EachPartnerUndisturbed ==
  ASSUME Always, Undisturbed, NEW a \in PtActors, NEW all, NEW each,
         AllAndEach(all, each), EachPartner(a, all, each)
  PROVE  Undisturbed'
<1> DEFINE t == ptTodo[a]
           r == Tail(t)
           u == ptTodo'[a]
<1>1. /\ Head1(a, all, PtNone)
      /\ UNCHANGED <<ptById, ptDefs, ptConnectors, ptIndexVars, ptLoopVars,
                     ptCrashed>>
  BY DEF EachPartner
<1>2. /\ Data /\ Shape(a, t) /\ t # <<>>
      /\ \A x : In(t, x) <=> x = Do(all, PtNone) \/ In(r, x)
      /\ CredentialsFind /\ ~ptCrashed
  BY <1>1, AtStep
<1>3. /\ \A p \in PtOwners : Registered(p) => Alive(p) \/ StartComes(t, p)
      /\ \A p \in PtOwners : In(t, Do("stop", p)) /\ HasLoop(p) =>
                               ptStop[p] = "open"
      /\ In(t, Do("stopPartners", PtNone)) =>
           \A i \in ptById : HasLoop(i) => ptStop[i] = "open"
  BY <1>2, Before
<1>4. /\ \A b \in PtActors \ {a} : ptTodo'[b] = ptTodo[b]
      /\ ReloadTodo(u)
      /\ \A x : In(u, x) <=> In(r, x) \/ \E i \in ptById : x = Do(each, i)
  BY EachPartnerAlways
<1>5. \/ all = "stopPartners" /\ each = "stop"
      \/ all = "startPartners" /\ each = "start"
  BY DEF AllAndEach
<1>6. /\ \A p : (Registered(p)' <=> Registered(p)) /\ (HasLoop(p)' <=> HasLoop(p))
      /\ \A p : Alive(p)' <=> Alive(p)
      /\ ptStop' = ptStop /\ ptLoops' = ptLoops /\ ptById' = ptById
      /\ CredentialsFind' /\ ~ptCrashed'
  BY <1>1, <1>2
     DEF Registered, HasLoop, Alive, ptLoopVars, CredentialsFind, ptIndexVars
<1> HIDE DEF u, r, t
<1>7. \A i \in PtIds : u \notin Defines(i) \cup Saves(i)
  BY <1>4, Kinds
<1>8. \A x : In(u, x) => x.op # "validate"
  <2>1. \A x : In(u, x) => x.op \in ReloadOps
    BY <1>4, OpsIn DEF ReloadTodo
  <2> QED
    BY <2>1 DEF ReloadOps, Starting, Stopping
<1>9. ASSUME NEW p \in PtOwners, Registered(p)'
      PROVE  Alive(p)' \/ StartComes(u, p)
  <2>1. CASE In(t, Do("start", p)) \/ In(t, Do("delete", p))
    <3>1. In(r, Do("start", p)) \/ In(r, Do("delete", p))
      BY <1>2, <1>5, <2>1, Steps
    <3> QED
      BY <1>4, <3>1 DEF StartComes
  <2>2. CASE p \in PtIds /\ In(t, Do("startPartners", PtNone))
    <3>1. CASE all = "startPartners"
      <4>1. p \in ptById /\ each = "start"
        BY <1>5, <1>6, <1>9, <2>2, <3>1 DEF Registered
      <4> QED
        BY <1>4, <4>1 DEF StartComes
    <3>2. CASE all # "startPartners"
      <4>1. In(r, Do("startPartners", PtNone))
        BY <1>2, <2>2, <3>2, Steps
      <4> QED
        BY <1>4, <2>2, <4>1 DEF StartComes
    <3> QED
      BY <3>1, <3>2
  <2>3. CASE Alive(p)
    BY <1>6, <2>3
  <2> QED
    BY <1>3, <1>6, <1>9, <2>1, <2>2, <2>3 DEF StartComes
<1>10. ASSUME NEW p \in PtOwners, In(u, Do("stop", p)), HasLoop(p)'
       PROVE  ptStop'[p] = "open"
  <2>1. CASE In(r, Do("stop", p))
    BY <1>2, <1>3, <1>6, <1>10, <2>1
  <2>2. CASE \E i \in ptById : Do("stop", p) = Do(each, i)
    <3>1. p \in ptById /\ each = "stop"
      BY <2>2, Steps
    <3>2. In(t, Do("stopPartners", PtNone))
      BY <1>2, <1>5, <3>1
    <3> QED
      BY <1>3, <1>6, <1>10, <3>1, <3>2
  <2> QED
    BY <1>4, <1>10, <2>1, <2>2
<1>11. In(u, Do("stopPartners", PtNone)) => In(t, Do("stopPartners", PtNone))
  BY <1>2, <1>4, <1>5, Steps
<1>12. In(u, Do("stopPartners", PtNone)) =>
         \A i \in ptById' : HasLoop(i)' => ptStop'[i] = "open"
  BY <1>3, <1>6, <1>11
<1>13. ASSUME a = "guardian" PROVE GuardianTwice'
  <2> DEFINE g == "modelGuardian"
  <2>1. SUFFICES ASSUME ~In(u, Do("start", g))
                 PROVE  /\ ptStop'[g] = "open"
                        /\ ptLoops'[g].busy + ptLoops'[g].waiting > 1
    BY <1>13 DEF GuardianTwice, u
  <2>2. ~In(t, Do("start", g))
    BY <1>2, <1>4, <1>5, <2>1, Steps
  <2>3. ptStop[g] = "open" /\ ptLoops[g].busy + ptLoops[g].waiting > 1
    BY <1>2, <1>13, <2>2 DEF Undisturbed, GuardianTwice, t
  <2> QED
    BY <1>6, <2>3
<1>14. ptTodo'[a] = u /\ ptTodo[a] = t
  BY DEF u, t
<1> QED
  BY ONLY Undisturbed, a \in PtActors, <1>2, <1>4, <1>6, <1>7, <1>8, <1>9, <1>10,
          <1>12, <1>13, <1>14, OneRequest

\* The loop that reloaded is not the last one of the model guardian.
LEMMA ReturnUndisturbed ==
  ASSUME Always, Undisturbed, NEW a \in PtActors, Return(a)
  PROVE  Undisturbed'
<1> DEFINE t == ptTodo[a]
           g == "modelGuardian"
<1>1. /\ Head1(a, "return", PtNone)
      /\ UNCHANGED <<ptById, ptDefs, ptConnectors, ptIndexVars, ptCrashed>>
  BY DEF Return
<1>2. /\ Data /\ LoopsOK /\ t # <<>> /\ CredentialsFind /\ ~ptCrashed
  BY <1>1, AtStep
<1>3. /\ \A b \in PtActors \ {a} : ptTodo'[b] = ptTodo[b]
      /\ a = "guardian" /\ ptTodo'[a] = <<>>
      /\ \A x : In(t, x) => x = Do("return", PtNone)
      /\ g \in PtOwners /\ ptStop' = ptStop /\ OnlyLoop(g)
      /\ ptLoops'[g].busy = ptLoops[g].busy - 1
      /\ ptLoops'[g].waiting = ptLoops[g].waiting
  BY ReturnAlways
<1>4. Alive(g)'
  <2>1. ~In(t, Do("start", g))
    BY <1>3, Steps
  <2>2. ptStop[g] = "open" /\ ptLoops[g].busy + ptLoops[g].waiting > 1
    BY <1>2, <1>3, <2>1 DEF Undisturbed, GuardianTwice
  <2>3. ptLoops[g].busy \in Nat /\ ptLoops[g].waiting \in Nat
    BY <1>2, <1>3, LoopFields
  <2>4. ptLoops'[g].busy + ptLoops'[g].waiting > 0
    BY <1>3, <2>2, <2>3
  <2> QED
    BY <1>3, <2>2, <2>4 DEF Alive
<1>5. ASSUME NEW p \in PtOwners, Registered(p)'
      PROVE  Alive(p)' \/ StartComes(<<>>, p)
  <2>1. CASE p = g
    BY <1>4, <2>1
  <2>2. CASE p # g
    <3>1. Registered(p)
      BY <1>1, <1>5 DEF Registered, HasLoop
    <3>2. ~StartComes(t, p)
      BY <1>3, Steps DEF StartComes
    <3>3. Alive(p)
      BY <1>2, <3>1, <3>2, Before
    <3> QED
      BY <1>3, <2>2, <3>3, OthersAlive
  <2> QED
    BY <2>1, <2>2
<1>6. /\ \A x : ~In(<<>>, x)
      /\ \A i \in PtIds : <<>> \notin Defines(i) \cup Saves(i)
  BY NothingToDo, Kinds
<1>7. CredentialsFind' /\ ~ptCrashed' /\ GuardianTwice'
  BY <1>1, <1>2, <1>3 DEF CredentialsFind, ptIndexVars, GuardianTwice
<1> QED
  BY ONLY Undisturbed, a \in PtActors, <1>2, <1>3, <1>5, <1>6, <1>7, OneRequest

\* A loop that goes on, and that no close made leave, goes on.
LEMMA LoopUndisturbed ==
  ASSUME Always, Undisturbed, NEW o \in PtOwners, PtLoop(o)
  PROVE  Undisturbed'
<1>1. /\ OnlyLoop(o) /\ ptStop' = ptStop
      /\ ptStop[o] = "open" =>
           ptLoops'[o].busy + ptLoops'[o].waiting =
           ptLoops[o].busy + ptLoops[o].waiting
      /\ UNCHANGED <<ptById, ptDefs, ptConnectors, ptIndexVars, ptTodo,
                     ptNew, ptRequests, ptCrashed, ptRaced>>
  BY LoopAlways
<1>2. \A p \in PtOwners : Alive(p) => Alive(p)'
  <2> SUFFICES ASSUME NEW p \in PtOwners, Alive(p) PROVE Alive(p)'
    OBVIOUS
  <2>1. CASE p = o
    BY <1>1, <2>1 DEF Alive
  <2>2. CASE p # o
    BY <1>1, <2>2, OthersAlive
  <2> QED
    BY <2>1, <2>2
<1>3. UnderWay' = UnderWay
      /\ \A p : (Registered(p)' <=> Registered(p)) /\ (HasLoop(p)' <=> HasLoop(p))
  BY <1>1 DEF UnderWay, Registered, HasLoop
<1>4. Alone' /\ CredentialsUnique' /\ ~ptCrashed'
  BY <1>1, <1>3
     DEF Undisturbed, Alone, CredentialsUnique, UniqCredentials, ptIndexVars
<1>5. RunsOrStarts'
  BY <1>1, <1>2, <1>3 DEF Undisturbed, RunsOrStarts
<1>6. RunsWhileValidating'
  BY <1>1, <1>2, <1>3 DEF Undisturbed, RunsWhileValidating
<1>7. StopsOpen'
  BY <1>1, <1>3 DEF Undisturbed, StopsOpen
<1>8. GuardianTwice'
  <2> DEFINE g == "modelGuardian"
  <2>1. SUFFICES ASSUME ptTodo["guardian"] # <<>>,
                        ~In(ptTodo["guardian"], Do("start", g))
                 PROVE  /\ ptStop'[g] = "open"
                        /\ ptLoops'[g].busy + ptLoops'[g].waiting > 1
    BY <1>1 DEF GuardianTwice
  <2>2. ptStop[g] = "open" /\ ptLoops[g].busy + ptLoops[g].waiting > 1
    BY <2>1 DEF Undisturbed, GuardianTwice
  <2>3. g \in PtOwners
    BY <2>1, AlwaysParts DEF GuardianBusy, PtOwners
  <2>4. CASE o = g
    BY <1>1, <2>2, <2>4
  <2>5. CASE o # g
    BY <1>1, <2>2, <2>3, <2>5 DEF OnlyLoop
  <2> QED
    BY <2>4, <2>5
<1> QED
  BY <1>4, <1>5, <1>6, <1>7, <1>8 DEF Undisturbed

-----------------------------------------------------------------------------
(* The invariant.                                                          *)

\* Nothing is under way, and what was loaded runs.
LEMMA InvInit ==
  ASSUME PtInit
  PROVE  Always /\ Undisturbed
<1>1. /\ ptStop = [o \in PtOwners |-> IF HasLoop(o) THEN "open" ELSE "nil"]
      /\ ptLoops = [o \in PtOwners |-> IF HasLoop(o)
                                       THEN [NoLoop EXCEPT !.busy = 1]
                                       ELSE NoLoop]
      /\ ptTodo = [a \in PtActors |-> <<>>]
      /\ ptNew = [a \in PtActors |-> PtNone]
      /\ ptRequests = 0 /\ ptCrashed = FALSE /\ ptRaced = FALSE
  BY DEF PtInit
<1>2. \A a \in PtActors : ptTodo[a] = <<>>
  BY <1>1
<1>3. /\ NoLoop \in Loops /\ [NoLoop EXCEPT !.busy = 1] \in Loops
      /\ NoLoop.busy = 0 /\ NoLoop.waiting = 0
      /\ [NoLoop EXCEPT !.busy = 1].busy = 1
      /\ [NoLoop EXCEPT !.busy = 1].waiting = 0
  BY DEF NoLoop, Loops
<1>4. LoopsOK /\ \A o \in PtOwners : HasLoop(o) => Alive(o)
  <2> DEFINE one == [NoLoop EXCEPT !.busy = 1]
             none == NoLoop
  <2>1. /\ ptLoops = [o \in PtOwners |-> IF HasLoop(o) THEN one ELSE none]
        /\ one \in Loops /\ none \in Loops
        /\ one.busy = 1 /\ one.waiting = 0 /\ none.busy = 0 /\ none.waiting = 0
    BY <1>1, <1>3
  <2> HIDE DEF one, none
  <2>2. /\ ptStop \in [PtOwners -> {"nil", "open", "closed"}]
        /\ ptLoops \in [PtOwners -> Loops]
    BY <1>1, <2>1
  <2>3. ASSUME NEW o \in PtOwners
        PROVE  /\ ptLoops[o].waiting > 0 => ptStop[o] = "open"
               /\ ptStop[o] = "nil" => ptLoops[o].busy = 0
               /\ HasLoop(o) => Alive(o)
    <3>1. CASE HasLoop(o)
      <4>1. ptStop[o] = "open" /\ ptLoops[o] = one
        BY <1>1, <2>1, <3>1
      <4>2. ptLoops[o].busy + ptLoops[o].waiting > 0
        BY ONLY <2>1, <4>1
      <4> QED
        BY <4>1, <4>2 DEF Alive
    <3>2. CASE ~HasLoop(o)
      <4>1. ptStop[o] = "nil" /\ ptLoops[o] = none
        BY <1>1, <2>1, <3>2
      <4> QED
        BY <2>1, <3>2, <4>1
    <3> QED
      BY <3>1, <3>2
  <2> QED
    BY <2>2, <2>3 DEF LoopsOK
<1>5. Data /\ CredentialsFind
  <2>1. CASE NothingLoaded
    <3>1. IsFiniteSet(ptById)
      BY <2>1, FS_EmptySet DEF NothingLoaded
    <3> QED
      BY <2>1, <3>1
         DEF NothingLoaded, Data, CredentialsKnown, DispatcherPresent,
             CredentialsFind
  <2>2. CASE \E id \in PtIds, def \in PtDefs : Loaded(id, def)
    <3>1. PICK id \in PtIds, def \in PtDefs : Loaded(id, def)
      BY <2>2
    <3>2. /\ def \in PtDef /\ def.creds \in SUBSET PtCreds
          /\ def.types \in SUBSET PtTypes /\ PtNone \notin PtIds
      BY PtAssumption DEF PtAssumption, PtDef
    <3>3. IsFiniteSet(ptById) /\ ptById \subseteq PtIds
      BY <3>1, FS_Singleton DEF Loaded
    <3>4. /\ ptDefs \in [PtIds -> PtDef \cup {PtNone}]
          /\ ptByCredentials \in [PtCreds -> PtIds \cup {PtNone}]
          /\ ptByIdentifier \in [PtIds -> SUBSET PtCreds]
      BY <3>1, <3>2 DEF Loaded
    <3>5. ptConnectors \in [PtIds -> SUBSET PtTypes] /\ DispatcherPresent
      BY <3>1, <3>2 DEF Loaded, PtTypes, DispatcherPresent
    <3>6. CredentialsKnown /\ CredentialsFind
      BY <3>1, <3>2 DEF Loaded, CredentialsKnown, CredentialsFind
    <3> QED
      BY <3>3, <3>4, <3>5, <3>6 DEF Data
  <2> QED
    BY <2>1, <2>2 DEF PtInit
<1>6. Todos /\ GuardianBusy
  <2>1. <<>> \in Seq(Step) /\ \A a : Shape(a, <<>>)
    BY NothingToDo DEF Shape
  <2>2. \A i \in PtIds : <<>> \notin Validates(i) \cup Defines(i) \cup Saves(i)
    BY NothingToDo, Kinds
  <2>3. ptTodo \in [PtActors -> Seq(Step)]
        /\ ptNew \in [PtActors -> PtDef \cup {PtNone}]
    BY <1>1, <2>1
  <2>4. Definitions
    BY <1>2, <2>2 DEF Definitions
  <2>5. GuardianBusy
    BY <1>2 DEF GuardianBusy, PtActors
  <2> QED
    BY <1>2, <2>1, <2>3, <2>4, <2>5 DEF Todos
<1>7. Counts
  <2>1. PtMaxRequests \in Nat
    BY PtAssumption DEF PtAssumption
  <2>2. 0 \in 0..PtMaxRequests
    BY ONLY <2>1
  <2> QED
    BY <1>1, <2>2 DEF Counts
<1>8. Always
  BY <1>4, <1>5, <1>6, <1>7, AlwaysParts
<1>9. UnderWay = {}
  BY <1>2 DEF UnderWay
<1>10. CredentialsUnique
  <2>1. \A i \in PtIds : <<>> \notin Defines(i) \cup Saves(i)
    BY NothingToDo, Kinds
  <2> QED
    BY <1>2, <1>5, <2>1 DEF CredentialsUnique, CredentialsFind
<1>11. Undisturbed
  <2>1. RunsOrStarts
    BY <1>4 DEF RunsOrStarts, Registered
  <2>2. Alone /\ RunsWhileValidating /\ StopsOpen
    BY <1>9 DEF Alone, RunsWhileValidating, StopsOpen
  <2>3. GuardianTwice
    BY <1>2 DEF GuardianTwice, PtActors
  <2> QED
    BY <1>1, <1>10, <2>1, <2>2, <2>3 DEF Undisturbed
<1> QED
  BY <1>8, <1>11

\* A request of the API, when no other is under way.
LEMMA ApiUndisturbed ==
  ASSUME Always, Undisturbed, NEW a \in PtActors, PtRequests(a), ~ptRaced'
  PROVE  Undisturbed'
<1>1. /\ ptLoops' = ptLoops
      /\ \A b \in PtActors \ {a} : ptTodo'[b] = ptTodo[b]
      /\ a # "guardian"
      /\ \E s, def : /\ Request1(a, s, def) /\ ptTodo'[a] = s
                     /\ \/ \E id \in PtIds : s \in Validates(id)
                             /\ (In(s, Do("stop", id)) => id \in ptById)
                        \/ \E id \in ptById : s \in Deletes(id)
                        \/ s = ReloadModel
  BY ApiRequests
<1>2. PICK s, def : /\ Request1(a, s, def) /\ ptTodo'[a] = s
                    /\ \/ \E id \in PtIds : s \in Validates(id)
                            /\ (In(s, Do("stop", id)) => id \in ptById)
                       \/ \E id \in ptById : s \in Deletes(id)
                       \/ s = ReloadModel
  BY <1>1
<1>3. \A o \in PtOwners : Alive(o) => Alive(o)'
  BY <1>1, <1>2 DEF Alive, Request1
<1>4. \/ \E id \in PtIds : s \in Validates(id)
           /\ (In(s, Do("stop", id)) => id \in ptById)
      \/ \E id \in ptById : s \in Deletes(id)
      \/ \A x : In(s, x) => In(ReloadModel, x) \/ x = Do("return", PtNone)
  BY <1>2
<1>5. \A i \in PtIds : s \notin Defines(i) \cup Saves(i)
  <2>1. CASE \E id \in PtIds : s \in Validates(id)
    BY <2>1, Kinds
  <2>2. CASE \E id \in ptById : s \in Deletes(id)
    <3>1. ptById \subseteq PtIds
      BY AlwaysParts DEF Data
    <3> QED
      BY <2>2, <3>1, Kinds
  <2>3. CASE s = ReloadModel
    BY <2>3, ReloadModelSteps, Kinds
  <2> QED
    BY <1>2, <2>1, <2>2, <2>3
<1> QED
  BY ONLY Always, Undisturbed, a \in PtActors, ~ptRaced', <1>1, <1>2, <1>3, <1>4,
          <1>5, RequestUndisturbed

\* The reload of the model guardian, when no other request is under way.
LEMMA GuardianUndisturbed ==
  ASSUME Always, Undisturbed, CheckReloadModel, ~ptRaced'
  PROVE  Undisturbed'
<1> DEFINE s == Append(ReloadModel, Do("return", PtNone))
           g == "modelGuardian"
<1>1. /\ Request1("guardian", s, PtNone) /\ ptTodo'["guardian"] = s
      /\ \A b \in PtActors \ {"guardian"} : ptTodo'[b] = ptTodo[b]
      /\ g \in PtShared /\ g \in PtOwners /\ OnlyLoop(g) /\ ptStop' = ptStop
      /\ ptLoops'[g].busy + ptLoops'[g].waiting =
           ptLoops[g].busy + ptLoops[g].waiting
  BY GuardianRequest
<1>2. \A o \in PtOwners : Alive(o) => Alive(o)'
  <2> SUFFICES ASSUME NEW o \in PtOwners, Alive(o) PROVE Alive(o)'
    OBVIOUS
  <2>1. CASE o = g
    BY <1>1, <2>1 DEF Alive
  <2>2. CASE o # g
    BY <1>1, <2>2, OthersAlive
  <2> QED
    BY <2>1, <2>2
<1>3. /\ ReloadTodo(s)
      /\ \A x : In(s, x) <=> In(ReloadModel, x) \/ x = Do("return", PtNone)
  BY CheckReloadSteps
<1> HIDE DEF s
<1>4. \A i \in PtIds : s \notin Defines(i) \cup Saves(i)
  BY <1>3, Kinds
<1>5. In(s, Do("start", "modelGuardian"))
  BY <1>1, <1>3, ReloadModelSteps
<1>6. "guardian" \in PtActors
  BY DEF PtActors
<1> QED
  BY ONLY Always, Undisturbed, ~ptRaced', <1>1, <1>2, <1>3, <1>4, <1>5, <1>6,
          RequestUndisturbed

\* A step of a request.
LEMMA StepInv ==
  ASSUME Always, NEW a \in PtActors, PtStep(a)
  PROVE  Always' /\ (Undisturbed => Undisturbed') /\ UNCHANGED ptRaced
<1>1. ASSUME NEW id \in PtIds, Validate(a, id)
      PROVE  Always' /\ (Undisturbed => Undisturbed') /\ UNCHANGED ptRaced
  BY <1>1, ValidateAlways, ValidateUndisturbed DEF Validate, Head1
<1>2. ASSUME NEW id \in PtIds, SetDefinition(a, id)
      PROVE  Always' /\ (Undisturbed => Undisturbed') /\ UNCHANGED ptRaced
  BY <1>2, SetDefinitionAlways, SetDefinitionUndisturbed DEF SetDefinition, Head1
<1>3. ASSUME NEW id \in PtIds, Save(a, id)
      PROVE  Always' /\ (Undisturbed => Undisturbed') /\ UNCHANGED ptRaced
  BY <1>3, SaveAlways, SaveUndisturbed DEF Save, Head1
<1>4. ASSUME NEW id \in PtIds, Remove(a, id)
      PROVE  Always' /\ (Undisturbed => Undisturbed') /\ UNCHANGED ptRaced
  BY <1>4, RemoveAlways, RemoveUndisturbed DEF Remove, Head1
<1>5. ASSUME NEW o \in PtOwners, StopStep(a, o)
      PROVE  Always' /\ (Undisturbed => Undisturbed') /\ UNCHANGED ptRaced
  BY <1>5, StopAlways, StopUndisturbed DEF StopStep, Head1
<1>6. ASSUME NEW o \in PtOwners, StartStep(a, o)
      PROVE  Always' /\ (Undisturbed => Undisturbed') /\ UNCHANGED ptRaced
  BY <1>6, StartAlways, StartUndisturbed DEF StartStep, Head1
<1>7. ASSUME NEW all, NEW each, AllAndEach(all, each), EachPartner(a, all, each)
      PROVE  Always' /\ (Undisturbed => Undisturbed') /\ UNCHANGED ptRaced
  BY <1>7, EachPartnerAlways, EachPartnerUndisturbed DEF EachPartner, Head1
<1>8. ASSUME Return(a)
      PROVE  Always' /\ (Undisturbed => Undisturbed') /\ UNCHANGED ptRaced
  BY <1>8, ReturnAlways, ReturnUndisturbed DEF Return, Head1
<1>9. /\ AllAndEach("stopPartners", "stop")
      /\ AllAndEach("startPartners", "start")
  BY DEF AllAndEach
<1> QED
  BY <1>1, <1>2, <1>3, <1>4, <1>5, <1>6, <1>7, <1>8, <1>9 DEF PtStep

\* Every step keeps the invariant.
LEMMA InvNext ==
  ASSUME PtInv, [PtNext]_ptVars
  PROVE  PtInv'
<1>1. Always /\ (~ptRaced => Undisturbed)
  BY DEF PtInv
<1>2. ASSUME NEW a \in PtActors, PtRequests(a) PROVE PtInv'
  <2>1. Always'
    BY <1>1, <1>2, ApiRequests
  <2>2. ~ptRaced' => ~ptRaced
    <3>1. PICK s, def : Request1(a, s, def)
      BY <1>1, <1>2, ApiRequests
    <3> QED
      BY <3>1 DEF Request1
  <2>3. ~ptRaced' => Undisturbed'
    BY <1>1, <1>2, <2>2, ApiUndisturbed
  <2> QED
    BY <2>1, <2>3 DEF PtInv
<1>3. ASSUME NEW a \in PtActors, PtStep(a) PROVE PtInv'
  BY <1>1, <1>3, StepInv DEF PtInv
<1>4. ASSUME CheckReloadModel PROVE PtInv'
  <2>1. Always'
    BY <1>1, <1>4, GuardianRequest
  <2>2. ~ptRaced' => ~ptRaced
    BY <1>4 DEF CheckReloadModel, Request1
  <2>3. ~ptRaced' => Undisturbed'
    BY <1>1, <1>4, <2>2, GuardianUndisturbed
  <2> QED
    BY <2>1, <2>3 DEF PtInv
<1>5. ASSUME NEW o \in PtOwners, PtLoop(o) PROVE PtInv'
  <2>1. Always' /\ ptRaced' = ptRaced
    BY <1>1, <1>5, LoopAlways
  <2>2. ~ptRaced => Undisturbed'
    BY <1>1, <1>5, LoopUndisturbed
  <2> QED
    BY <2>1, <2>2 DEF PtInv
<1>6. ASSUME UNCHANGED ptVars PROVE PtInv'
  <2>1. UNCHANGED <<ptById, ptDefs, ptConnectors, ptIndexVars>>
        /\ UNCHANGED ptLoopVars /\ UNCHANGED <<ptRequests, ptCrashed, ptRaced>>
        /\ ptTodo' = ptTodo /\ ptNew' = ptNew
    BY <1>6 DEF ptVars
  <2>2. Data /\ Counts /\ Todos /\ LoopsOK /\ GuardianBusy
    BY <1>1, AlwaysParts
  <2>3. Data' /\ Counts' /\ LoopsOK'
    BY <2>1, <2>2, Unchanged
  <2>4. Todos' /\ GuardianBusy'
    BY <2>1, <2>2 DEF Todos, Definitions, GuardianBusy, ptLoopVars
  <2>5. Always'
    BY <2>3, <2>4, AlwaysParts, PTL
  <2>6. Undisturbed => Undisturbed'
    <3>1. /\ UnderWay' = UnderWay
          /\ \A p : /\ (Registered(p)' <=> Registered(p))
                    /\ (HasLoop(p)' <=> HasLoop(p)) /\ (Alive(p)' <=> Alive(p))
      BY <2>1 DEF UnderWay, Registered, HasLoop, Alive, ptLoopVars
    <3>2. Alone => Alone'
      BY <3>1 DEF Alone
    <3>3. CredentialsUnique => CredentialsUnique'
      BY <2>1 DEF CredentialsUnique, UniqCredentials, ptIndexVars
    <3>4. /\ RunsOrStarts => RunsOrStarts'
          /\ RunsWhileValidating => RunsWhileValidating'
      BY <2>1, <3>1 DEF RunsOrStarts, RunsWhileValidating
    <3>5. StopsOpen => StopsOpen'
      BY <2>1, <3>1 DEF StopsOpen, ptLoopVars
    <3>6. GuardianTwice => GuardianTwice'
      BY <2>1 DEF GuardianTwice, ptLoopVars
    <3> QED
      BY <2>1, <3>2, <3>3, <3>4, <3>5, <3>6 DEF Undisturbed
  <2> QED
    BY <1>1, <2>1, <2>5, <2>6 DEF PtInv
<1> QED
  BY <1>2, <1>3, <1>4, <1>5, <1>6 DEF PtNext

\* The invariant holds: what does not depend on overlapping requests always,
\* the rest as long as no two requests overlapped.
THEOREM AdministrationInvariance == PtSpec => []PtInv
<1>1. PtInit => PtInv
  BY InvInit DEF PtInv
<1>2. PtInv /\ [PtNext]_ptVars => PtInv'
  BY InvNext
<1> QED
  BY <1>1, <1>2, PTL DEF PtSpec

\* The types, and what a loop may wait on: Start and Stop of every loop.
THEOREM AdministrationTypeCorrect == PtSpec => []PtTypeOK
<1>1. PtInv => PtTypeOK
  BY DEF PtInv, Always
<1> QED
  BY <1>1, AdministrationInvariance, PTL

\* FindByCredential never gives a partner that is gone, and finds every saved
\* one as long as requests did not overlap: LocalCredentialsIndex.
THEOREM CredentialsAlwaysFound == PtSpec => []CredentialsFound
<1>1. PtInv => CredentialsFound
  BY DEF PtInv, Always, CredentialsKnown, Undisturbed, CredentialsUnique,
         CredentialsFound
<1> QED
  BY <1>1, AdministrationInvariance, PTL

\* No broadcaster is without its dispatcher: SetDefinition, cleanConnectors.
THEOREM DispatcherAlwaysPresent == PtSpec => []DispatcherPresent
<1>1. PtInv => DispatcherPresent
  BY DEF PtInv, Always
<1> QED
  BY <1>1, AdministrationInvariance, PTL

\* Between requests that did not overlap, everything registered runs: update,
\* delete, reload, and the guardian that reloads from its own loop.
THEOREM RegisteredRuns == PtSpec => []StartedRuns
<1>1. PtInv => StartedRuns
  BY DEF PtInv, Undisturbed, RunsOrStarts, Registered, StartedRuns
<1> QED
  BY <1>1, AdministrationInvariance, PTL

\* Only overlapping requests close a channel twice in the guardian's goroutine.
THEOREM NoCrashAlone == PtSpec => []CrashNeedsRace
<1>1. PtInv => CrashNeedsRace
  BY DEF PtInv, Undisturbed, CrashNeedsRace
<1> QED
  BY <1>1, AdministrationInvariance, PTL
=============================================================================
