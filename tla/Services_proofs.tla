---------------------------- MODULE Services_proofs ----------------------------
(***************************************************************************)
(* Two components of MCHost that run a list of steps any of which may be   *)
(* the last: the service manager, for any services and ports and any hooks *)
(* that are killed, and Ceph's pools, for any cluster, any request and any *)
(* commands that fail.  Each in the behaviours in which it takes the steps.*)
(***************************************************************************)
EXTENDS MCHost, ScriptLemmas

-----------------------------------------------------------------------------
\* Services: what a hook still has to do for a service, and what it has done already, make
\* up what is wanted of the service.

ServiceNames == Manager!Names
AnyPort == Ports \cup {0}
HookWorld == [ready : SUBSET ServiceNames, version : {1, 2}, port : AnyPort]
StoredStep == <<"stored", "">>
OfReady == {"data_ready", "restart", "ports", "save_ready"}
OfLost == {"was_ready", "data_lost", "ports", "stop", "save_lost"}
OfStop == {"ports", "stop"}
ServiceSteps(at, ready) ==
    {StoredStep} \cup
    {c \in (OfReady \cup OfLost) \X ServiceNames :
        c[1] \in IF at = "stop" THEN OfStop ELSE IF c[2] \in ready THEN OfReady ELSE OfLost}

SavedStates ==
    [ready : {Torn} \cup SUBSET ServiceNames, ports : [ServiceNames -> AnyPort],
     stored : {Torn} \cup Nat, rendered : [ServiceNames -> 0..2]]
HookStates(at, ready) ==
    [at : {"none", "any", "stop"}, again : {"none", "any", "stop"}, world : HookWorld,
     todo : Seq(ServiceSteps(at, ready)), open : SUBSET (ServiceNames \X AnyPort)]
EventStates ==
    [sent : [ServiceNames -> {"none", "ready", "lost"}], passwords : SUBSET Nat, generated : Nat,
     unsaved : SUBSET ServiceNames, ahead : BOOLEAN, current : BOOLEAN, stopped : BOOLEAN]
ServiceTypeOK ==
    /\ world \in [ready : SUBSET ServiceNames, version : {1, 2}, port : Ports]
    /\ saved \in SavedStates
    /\ juju \in [open : SUBSET (ServiceNames \X AnyPort), told : SUBSET ServiceNames]
    /\ started \in [ServiceNames -> 0..2]
    /\ handling \in HookStates(handling.at, handling.world.ready)
    /\ handling.at = "none" => handling.todo = <<>>
    /\ events \in EventStates

\* The hook has not read the stored context yet, so it has not done anything.
AtStart == handling.todo # <<>> /\ Head(handling.todo) = StoredStep
StoredFirst == \A i \in 2..Len(handling.todo) : handling.todo[i] # StoredStep

\* The password that is stored is the one that is used, once there is one.
Password ==
    /\ saved.stored \in {0, Torn} => events.passwords = {}
    /\ events.passwords \subseteq {saved.stored}
    /\ handling.at # "none" /\ ~AtStart => saved.stored \notin {0, Torn}

\* A hook that is left in a data_ready has saved what it has sent before.
SavedAfter(s) ==
    \E i \in 1..Len(handling.todo) :
        /\ handling.todo[i] = <<"save_ready", s>>
        /\ \A j \in 1..i : handling.todo[j][1] # "data_ready"
Saves(X) == {cs \in Seq(X) :
            \A i \in 1..Len(cs) : \A s \in ServiceNames : cs[i] = <<"data_ready", s>> =>
                \E k \in i + 1..Len(cs) :
                    cs[k] = <<"save_ready", s>> /\ \A j \in i + 1..k : cs[j][1] # "data_ready"}
\* data_lost comes before it is forgotten that the service was ready.
LostFirst ==
    \A s \in ServiceNames : NeverAfter(<<"save_lost", s>>, <<"data_lost", s>>, handling.todo)
ReadyKnown ==
    /\ handling.todo \in Saves(ServiceSteps(handling.at, handling.world.ready))
    /\ saved.ready # Torn =>
         \A s \in ServiceNames \ events.unsaved :
            events.sent[s] = "ready" /\ s \notin saved.ready =>
                handling.at # "none" /\ ~AtStart /\ SavedAfter(s)

\* What has been done for a service that starts, and for one that does not.
Starts(s) == handling.at = "any" /\ s \in handling.world.ready
Pending(what, s) == Occurs(<<what, s>>, handling.todo)
Started(s) ==
    /\ ~Pending("data_ready", s) =>
          saved.rendered[s] = handling.world.version /\ events.sent[s] = "ready"
    /\ \/ LastOf({<<"data_ready", s>>}, <<"restart", s>>, handling.todo)
       \/ ~Pending("data_ready", s) /\ started[s] = handling.world.version
    /\ ~Pending("save_ready", s) => saved.ready # Torn
Ended(s) ==
    /\ ~Pending("stop", s) => started[s] = 0
    /\ handling.at = "any" =>
          /\ ~Pending("data_lost", s) /\ saved.ready # Torn /\ s \notin events.unsaved =>
                events.sent[s] # "ready"
          /\ ~Pending("save_lost", s) => saved.ready # Torn
PortDone(s) ==
    ~Pending("ports", s) /\ ~events.ahead =>
        \A p \in AnyPort :
            <<s, p>> \in handling.open <=> Starts(s) /\ p = handling.world.port
Progress ==
    handling.at # "none" =>
        /\ \A s \in ServiceNames : IF Starts(s) THEN Started(s) ELSE Ended(s)
        /\ \A s \in ServiceNames : PortDone(s)
        /\ ~events.stopped

\* The port files are not ahead of Juju.
FilesMatch ==
    ~events.ahead =>
        /\ handling.at # "none" =>
              \A s \in ServiceNames, p \in AnyPort :
                  <<s, p>> \in handling.open => p = saved.ports[s]
        /\ handling.at = "none" \/ AtStart =>
              \A s \in ServiceNames, p \in AnyPort : <<s, p>> \in juju.open => p = saved.ports[s]

\* What holds after a hook that has succeeded with the data of now.
Good ==
    /\ \A s \in ServiceNames :
          started[s] = IF s \in world.ready /\ ~events.stopped THEN world.version ELSE 0
    /\ ~events.ahead =>
          juju.open = IF events.stopped THEN {} ELSE world.ready \X {world.port}
    /\ ~events.stopped =>
          /\ juju.told = {s \in ServiceNames : started[s] # 0}
          /\ \A s \in ServiceNames \ events.unsaved : events.sent[s] = "ready" <=> s \in world.ready
          /\ saved.ready = Torn => ServiceNames = {}
Settling == events.current /\ (handling.at = "none" \/ AtStart) => Good
Hurt == saved.ready = Torn /\ events.current => events.stopped \/ ServiceNames = {}

ServicesInv ==
    /\ ServiceTypeOK /\ StoredFirst /\ LostFirst /\ Password /\ ReadyKnown
    /\ Progress /\ FilesMatch /\ Settling /\ Hurt

LEMMA ManagerOperators ==
  /\ \A ss : Manager!FlattenSeq(ss) = FlattenSeq(ss)
  /\ \A s, e : Manager!Contains(s, e) <=> Occurs(e, s)
  /\ ServiceNames = {Order[i] : i \in 1..Len(Order)}
  /\ Torn \notin Nat /\ Torn \notin SUBSET ServiceNames
<1>1. \A ss : Manager!FlattenSeq(ss) = FlattenSeq(ss)
  BY DEF Manager!FlattenSeq, FlattenSeq
<1>2. \A s, e : Manager!Contains(s, e) <=> Occurs(e, s)
  BY DEF Manager!Contains, Occurs
<1>3. DOMAIN Order = 1..Len(Order)
  BY OrderAssumption, LenProperties
<1>4. ServiceNames = {Order[i] : i \in 1..Len(Order)}
  BY <1>3 DEF ServiceNames, Manager!Names, Manager!ToSet
<1>5. Torn \notin Nat /\ Torn \notin SUBSET ServiceNames
  BY OrderAssumption DEF ServiceNames
<1> QED BY <1>1, <1>2, <1>4, <1>5

\* A hook has made its next step.
LEMMA AfterStep ==
  ASSUME ServicesInv, handling.at # "none", handling.todo # <<>>,
         handling'.at = handling.at, handling'.world = handling.world,
         handling'.todo = Tail(handling.todo)
  PROVE  LET c == Head(handling.todo) IN
         /\ c \in ServiceSteps(handling.at, handling.world.ready)
         /\ handling'.todo \in Seq(ServiceSteps(handling'.at, handling'.world.ready))
         /\ handling'.todo \in Saves(ServiceSteps(handling'.at, handling'.world.ready))
         /\ StoredFirst' /\ ~AtStart' /\ LostFirst'
         /\ \A s \in ServiceNames : c = <<"save_lost", s>> => ~Pending("data_lost", s)'
         /\ \A what, s : Pending(what, s) <=> c = <<what, s>> \/ Pending(what, s)'
         /\ \A s \in ServiceNames : SavedAfter(s) => /\ c[1] # "data_ready"
                                                     /\ SavedAfter(s)' \/ c = <<"save_ready", s>>
         /\ \A s \in ServiceNames : c = <<"data_ready", s>> => SavedAfter(s)'
         /\ \A s \in ServiceNames :
               LastOf({<<"data_ready", s>>}, <<"restart", s>>, handling.todo) =>
                  \/ LastOf({<<"data_ready", s>>}, <<"restart", s>>, handling'.todo)
                  \/ c = <<"restart", s>> /\ ~Pending("data_ready", s)'
         /\ \A s : Starts(s)' <=> Starts(s)
<1> DEFINE X == ServiceSteps(handling.at, handling.world.ready)
           t == handling.todo
           r == Tail(handling.todo)
           c == Head(handling.todo)
<1>1. t \in Seq(X)
  BY DEF ServicesInv, ServiceTypeOK, HookStates
<1>2. /\ c = t[1] /\ c \in X /\ r \in Seq(X) /\ Len(t) \in Nat /\ Len(r) = Len(t) - 1
      /\ \A i \in 1..Len(r) : r[i] = t[i + 1]
      /\ \A x : Occurs(x, t) <=> x = c \/ Occurs(x, r)
      /\ \A B, x : LastOf(B, x, t) => LastOf(B, x, r) \/ (x = c /\ Without(B, r))
  <2>1. t # <<>>
    OBVIOUS
  <2> HIDE DEF X
  <2>2. ASSUME NEW q \in Seq(X), q # <<>>
        PROVE  /\ Head(q) = q[1] /\ Head(q) \in X /\ Tail(q) \in Seq(X) /\ Len(q) \in Nat
               /\ Len(Tail(q)) = Len(q) - 1
               /\ \A i \in 1..Len(Tail(q)) : Tail(q)[i] = q[i + 1]
               /\ \A x : Occurs(x, q) <=> x = Head(q) \/ Occurs(x, Tail(q))
               /\ \A B, x : LastOf(B, x, q) => LastOf(B, x, Tail(q)) \/ (x = Head(q) /\ Without(B, Tail(q)))
    BY ONLY <2>2, AfterHead
  <2>3. r = Tail(t) /\ c = Head(t)
    OBVIOUS
  <2> HIDE DEF t, r, c
  <2> QED BY <1>1, <2>1, <2>2, <2>3, Zenon
<1>3. X' = X
  BY DEF X
<1>4. t \in Saves(X) /\ StoredFirst
  BY DEF ServicesInv, ReadyKnown
<1> HIDE DEF X, t, r, c
<1>5. Saves(X) = {cs \in Seq(X) :
            \A i \in 1..Len(cs) : \A s \in ServiceNames : cs[i] = <<"data_ready", s>> =>
                \E k \in i + 1..Len(cs) :
                    cs[k] = <<"save_ready", s>> /\ \A j \in i + 1..k : cs[j][1] # "data_ready"}
  BY Zenon DEF Saves
<1>7. ASSUME NEW i \in 1..Len(r), NEW s \in ServiceNames, r[i] = <<"data_ready", s>>
      PROVE  \E k \in i + 1..Len(r) :
                r[k] = <<"save_ready", s>> /\ \A j \in i + 1..k : r[j][1] # "data_ready"
  <2>1. i + 1 \in 1..Len(t) /\ t[i + 1] = <<"data_ready", s>>
    BY <1>2, <1>7
  <2>2. PICK k \in (i + 1) + 1..Len(t) :
           t[k] = <<"save_ready", s>> /\ \A j \in (i + 1) + 1..k : t[j][1] # "data_ready"
    BY <1>4, <1>5, <2>1
  <2>3. k - 1 \in i + 1..Len(r) /\ k - 1 \in 1..Len(r) /\ (k - 1) + 1 = k
    BY <1>2
  <2>4. r[k - 1] = <<"save_ready", s>>
    BY <1>2, <2>2, <2>3
  <2>5. ASSUME NEW j \in i + 1..k - 1 PROVE r[j][1] # "data_ready"
    <3>1. j + 1 \in (i + 1) + 1..k /\ j \in 1..Len(r)
      BY <1>2, <2>3
    <3> QED BY <1>2, <2>2, <3>1
  <2> QED BY <2>3, <2>4, <2>5
<1>8. r \in Saves(X)
  BY <1>2, <1>5, <1>7
<1>9. \A i \in 1..Len(r) : r[i] # StoredStep
  <2>1. \A i \in 1..Len(r) : i + 1 \in 2..Len(t)
    BY <1>2
  <2> QED BY <1>2, <1>4, <2>1 DEF StoredFirst, t
<1>10. StoredFirst' /\ ~AtStart'
  <2>1. handling'.todo = r /\ \A i \in 2..Len(r) : i \in 1..Len(r)
    BY <1>2 DEF r
  <2>2. StoredFirst'
    BY <1>9, <2>1 DEF StoredFirst, StoredStep
  <2>3. r # <<>> => 1 \in 1..Len(r) /\ Head(r) = r[1]
    BY <1>2, AfterHead, EmptySeq, LenProperties
  <2> QED BY <1>9, <2>1, <2>2, <2>3 DEF AtStart, StoredStep
<1>11. \A what, s : Pending(what, s) <=> c = <<what, s>> \/ Pending(what, s)'
  BY <1>2 DEF Pending, t, r
<1>12. ASSUME NEW s \in ServiceNames, SavedAfter(s)
       PROVE  c[1] # "data_ready" /\ (SavedAfter(s)' \/ c = <<"save_ready", s>>)
  <2>1. PICK i \in 1..Len(t) :
          t[i] = <<"save_ready", s>> /\ \A j \in 1..i : t[j][1] # "data_ready"
    BY <1>12 DEF SavedAfter, t
  <2>2. 1 \in 1..i
    BY <1>2
  <2>3. CASE i = 1
    BY <1>2, <2>1, <2>2, <2>3
  <2>4. CASE i # 1
    <3>1. i - 1 \in 1..Len(r) /\ (i - 1) + 1 = i
      BY <1>2, <2>4
    <3>2. r[i - 1] = <<"save_ready", s>>
      BY <1>2, <2>1, <3>1
    <3>3. ASSUME NEW j \in 1..i - 1 PROVE r[j][1] # "data_ready"
      <4>1. j + 1 \in 1..i /\ j \in 1..Len(r)
        BY <1>2, <3>1
      <4> QED BY <1>2, <2>1, <4>1
    <3>4. SavedAfter(s)'
      BY <3>1, <3>2, <3>3 DEF SavedAfter, r
    <3> QED BY <1>2, <2>1, <2>2, <3>4
  <2> QED BY <2>3, <2>4
<1>13. ASSUME NEW s \in ServiceNames, c = <<"data_ready", s>> PROVE SavedAfter(s)'
  <2>1. 1 \in 1..Len(t) /\ t[1] = <<"data_ready", s>> /\ 1 + 1 = 2
    <3>1. Len(t) # 0
      BY <1>1, EmptySeq, LenProperties DEF t
    <3> QED BY <1>2, <1>13, <3>1
  <2>2. PICK k \in 2..Len(t) :
           t[k] = <<"save_ready", s>> /\ \A j \in 2..k : t[j][1] # "data_ready"
    BY <1>4, <1>5, <2>1
  <2>3. k - 1 \in 1..Len(r) /\ (k - 1) + 1 = k
    BY <1>2
  <2>4. r[k - 1] = <<"save_ready", s>>
    BY <1>2, <2>2, <2>3
  <2>5. ASSUME NEW j \in 1..k - 1 PROVE r[j][1] # "data_ready"
    <3>1. j + 1 \in 2..k /\ j \in 1..Len(r)
      BY <1>2, <2>3
    <3> QED BY <1>2, <2>2, <3>1
  <2> QED BY <2>3, <2>4, <2>5 DEF SavedAfter, r
<1>14. ASSUME NEW s \in ServiceNames, LastOf({<<"data_ready", s>>}, <<"restart", s>>, t)
       PROVE  \/ LastOf({<<"data_ready", s>>}, <<"restart", s>>, r)
              \/ c = <<"restart", s>> /\ ~Pending("data_ready", s)'
  <2>1. Without({<<"data_ready", s>>}, r) => ~Pending("data_ready", s)'
    BY DEF Without, Pending, Occurs, r
  <2> QED BY <1>2, <1>14, <2>1
<1>15. \A s : Starts(s)' <=> Starts(s)
  BY DEF Starts
<1>16. ASSUME NEW s \in ServiceNames
       PROVE  /\ NeverAfter(<<"save_lost", s>>, <<"data_lost", s>>, r)
              /\ c = <<"save_lost", s>> => ~Pending("data_lost", s)'
  <2>1. NeverAfter(<<"save_lost", s>>, <<"data_lost", s>>, t)
    BY DEF ServicesInv, LostFirst, t
  <2>2. t # <<>>
    BY DEF t
  <2>3. r = Tail(t) /\ c = Head(t)
    BY DEF t, r, c
  <2>4. /\ NeverAfter(<<"save_lost", s>>, <<"data_lost", s>>, Tail(t))
        /\ <<"save_lost", s>> = Head(t) => ~Occurs(<<"data_lost", s>>, Tail(t))
    BY <1>1, <2>1, <2>2, OrderAfterHead
  <2>5. Pending("data_lost", s)' => Occurs(<<"data_lost", s>>, r)
    BY DEF Pending, r
  <2> QED BY <2>3, <2>4, <2>5, Zenon
<1>17. LostFirst'
  <2>1. handling'.todo = r
    BY DEF r
  <2>2. ServiceNames' = ServiceNames
    BY DEF ServiceNames
  <2> QED BY <1>16, <2>1, <2>2, Zenon DEF LostFirst
<1> QED BY <1>2, <1>3, <1>8, <1>10, <1>11, <1>12, <1>13, <1>14, <1>15, <1>16, <1>17 DEF X, t, r, c

-----------------------------------------------------------------------------
\* What manage puts together.
LEMMA SavesJoined ==
  ASSUME NEW X
  PROVE  /\ Saves(X) \in SUBSET Seq(X)
         /\ \A s, t \in Saves(X) : s \o t \in Saves(X)
         /\ \A s \in Seq(X) : (\A i \in 1..Len(s) : s[i][1] # "data_ready") => s \in Saves(X)
         /\ <<>> \in Saves(X)
<1>1. Saves(X) \in SUBSET Seq(X)
  BY DEF Saves
<1>2. ASSUME NEW s \in Saves(X), NEW t \in Saves(X) PROVE s \o t \in Saves(X)
  <2> DEFINE st == s \o t
  <2>1. s \in Seq(X) /\ t \in Seq(X)
    BY <1>1
  <2>2. /\ st \in Seq(X) /\ Len(st) = Len(s) + Len(t) /\ Len(s) \in Nat /\ Len(t) \in Nat
        /\ \A i \in 1..Len(s) : st[i] = s[i]
        /\ \A i \in 1..Len(t) : st[Len(s) + i] = t[i]
    BY <2>1, ConcatProperties, LenProperties
  <2>. DEFINE After(cs, i, a) ==
                  \E k \in i + 1..Len(cs) :
                     cs[k] = <<"save_ready", a>> /\ \A j \in i + 1..k : cs[j][1] # "data_ready"
  <2>5. ASSUME NEW cs \in Saves(X), NEW i \in 1..Len(cs), NEW a \in ServiceNames,
               cs[i] = <<"data_ready", a>>
        PROVE  After(cs, i, a)
    BY <2>5, Zenon DEF Saves
  <2> HIDE DEF st, After
  <2>3. ASSUME NEW i \in 1..Len(st), NEW a \in ServiceNames, st[i] = <<"data_ready", a>>
        PROVE  \E k \in i + 1..Len(st) :
                  st[k] = <<"save_ready", a>> /\ \A j \in i + 1..k : st[j][1] # "data_ready"
    <3>1. CASE i \in 1..Len(s)
      <4>1. PICK k \in i + 1..Len(s) :
               s[k] = <<"save_ready", a>> /\ \A j \in i + 1..k : s[j][1] # "data_ready"
        <5>1. s[i] = <<"data_ready", a>>
          BY <2>2, <2>3, <3>1
        <5>2. After(s, i, a)
          BY <2>5, <3>1, <5>1
        <5> QED BY <5>2 DEF After
      <4>2. k \in i + 1..Len(st) /\ k \in 1..Len(s) /\ \A j \in i + 1..k : j \in 1..Len(s)
        BY <2>2, <3>1
      <4>3. st[k] = <<"save_ready", a>> /\ \A j \in i + 1..k : st[j][1] # "data_ready"
        BY <2>2, <4>1, <4>2
      <4> QED BY <4>2, <4>3
    <3>2. CASE i \notin 1..Len(s)
      <4>1. PICK h \in 1..Len(t) : i = Len(s) + h
        <5>1. i - Len(s) \in 1..Len(t) /\ i = Len(s) + (i - Len(s))
          BY <2>2, <3>2
        <5> QED BY <5>1
      <4>2. PICK k \in h + 1..Len(t) :
               t[k] = <<"save_ready", a>> /\ \A j \in h + 1..k : t[j][1] # "data_ready"
        <5>1. t[h] = <<"data_ready", a>>
          BY <2>2, <2>3, <4>1
        <5>2. After(t, h, a)
          BY <2>5, <5>1
        <5> QED BY <5>2 DEF After
      <4>3. Len(s) + k \in i + 1..Len(st) /\ k \in 1..Len(t)
        BY <2>2, <4>1
      <4>4. ASSUME NEW j \in i + 1..Len(s) + k PROVE st[j][1] # "data_ready"
        <5>1. j - Len(s) \in h + 1..k /\ j - Len(s) \in 1..Len(t) /\ Len(s) + (j - Len(s)) = j
          BY <2>2, <4>1, <4>3
        <5>2. st[j] = t[j - Len(s)]
          BY <2>2, <5>1
        <5>3. t[j - Len(s)][1] # "data_ready"
          BY <4>2, <5>1
        <5> QED BY <5>2, <5>3
      <4>5. st[Len(s) + k] = <<"save_ready", a>>
        BY <2>2, <4>2, <4>3
      <4> QED BY <4>3, <4>4, <4>5
    <3> QED BY <3>1, <3>2
  <2>4. st \in Saves(X)
    BY <2>2, <2>3 DEF Saves
  <2> QED BY <2>4 DEF st
<1>3. ASSUME NEW s \in Seq(X), \A i \in 1..Len(s) : s[i][1] # "data_ready"
      PROVE  s \in Saves(X)
  <2>1. \A i \in 1..Len(s) : \A a \in ServiceNames : s[i] # <<"data_ready", a>>
    BY <1>3
  <2> QED BY <2>1 DEF Saves
<1>4. <<>> \in Saves(X)
  <2>1. <<>> \in Seq(X) /\ \A i \in 1..Len(<<>>) : FALSE
    OBVIOUS
  <2> QED BY <1>3, <2>1
<1> QED BY <1>1, <1>2, <1>3, <1>4

\* The commands for one service.
ForOne(s, cs) == \A i \in 1..Len(cs) : cs[i][2] = s
LEMMA ReadyCommands ==
  ASSUME NEW X, NEW s, OfReady \X {s} \subseteq X
  PROVE  LET cs == Manager!Ready(s)
         IN  /\ cs \in Saves(X) /\ ForOne(s, cs)
             /\ \A what \in OfReady : Occurs(<<what, s>>, cs)
             /\ LastOf({<<"data_ready", s>>}, <<"restart", s>>, cs)
             /\ NeverAfter(<<"save_lost", s>>, <<"data_lost", s>>, cs)
<1> DEFINE cs == Manager!Ready(s)
<1>1. cs = << <<"data_ready", s>>, <<"restart", s>>, <<"ports", s>>, <<"save_ready", s>> >>
  BY DEF Manager!Ready, Manager!Step
<1>2. /\ <<"data_ready", s>> \in X /\ <<"restart", s>> \in X
      /\ <<"ports", s>> \in X /\ <<"save_ready", s>> \in X
  BY DEF OfReady
<1> HIDE DEF cs
<1>3. cs \in Seq(X) /\ Len(cs) = 4
  BY <1>1, <1>2
<1>4. /\ cs[1] = <<"data_ready", s>> /\ cs[2] = <<"restart", s>>
      /\ cs[3] = <<"ports", s>> /\ cs[4] = <<"save_ready", s>>
  BY <1>1
<1>5. \A i \in 1..4 : i = 1 \/ i = 2 \/ i = 3 \/ i = 4
  OBVIOUS
<1>6. ForOne(s, cs)
  BY <1>3, <1>4, <1>5 DEF ForOne
<1>7. \A i \in 1..4 : i # 1 => cs[i][1] # "data_ready"
  BY <1>4, <1>5
<1>8. cs \in Saves(X)
  <2>1. ASSUME NEW i \in 1..Len(cs), NEW a \in ServiceNames, cs[i] = <<"data_ready", a>>
        PROVE  \E k \in i + 1..Len(cs) :
                  cs[k] = <<"save_ready", a>> /\ \A j \in i + 1..k : cs[j][1] # "data_ready"
    <3>1. i = 1
      BY <1>3, <1>7, <2>1
    <3>2. a = s
      BY <1>4, <2>1, <3>1
    <3>3. 4 \in i + 1..Len(cs) /\ \A j \in i + 1..4 : j \in 1..4 /\ j # 1
      BY <1>3, <3>1
    <3> QED BY <1>4, <1>7, <3>2, <3>3
  <2> QED BY <1>3, <2>1 DEF Saves
<1>9. \A what \in OfReady : Occurs(<<what, s>>, cs)
  <2>1. 1 \in 1..Len(cs) /\ 2 \in 1..Len(cs) /\ 3 \in 1..Len(cs) /\ 4 \in 1..Len(cs)
    BY <1>3
  <2> QED BY <1>4, <2>1 DEF Occurs, OfReady
<1>10. LastOf({<<"data_ready", s>>}, <<"restart", s>>, cs)
  <2>1. 2 \in 1..Len(cs) /\ \A j \in 2+1..Len(cs) : j \in 1..4 /\ j # 1
    BY <1>3
  <2>2. \A j \in 2+1..Len(cs) : cs[j] \notin {<<"data_ready", s>>}
    BY <1>7, <2>1
  <2> QED BY <1>4, <2>1, <2>2 DEF LastOf
<1>11. NeverAfter(<<"save_lost", s>>, <<"data_lost", s>>, cs)
  BY <1>3, <1>4, <1>5 DEF NeverAfter
<1> QED BY <1>6, <1>8, <1>9, <1>10, <1>11 DEF cs

LEMMA LostCommands ==
  ASSUME NEW X, NEW s, OfLost \X {s} \subseteq X
  PROVE  LET cs == Manager!Lost(s)
         IN  /\ cs \in Saves(X) /\ ForOne(s, cs)
             /\ \A what \in {"ports", "stop", "save_lost"} : Occurs(<<what, s>>, cs)
             /\ saved.ready # Torn /\ s \in saved.ready => Occurs(<<"data_lost", s>>, cs)
             /\ NeverAfter(<<"save_lost", s>>, <<"data_lost", s>>, cs)
<1> DEFINE cs == Manager!Lost(s)
           Y == OfLost \X {s}
           a == << <<"was_ready", s>> >>
           b == IF saved.ready # Torn /\ s \in saved.ready THEN << <<"data_lost", s>> >> ELSE <<>>
           c == << <<"ports", s>>, <<"stop", s>>, <<"save_lost", s>> >>
<1>1. cs = (a \o b) \o c
  BY DEF Manager!Lost, Manager!Step
<1>2. /\ <<"was_ready", s>> \in Y /\ <<"data_lost", s>> \in Y
      /\ <<"ports", s>> \in Y /\ <<"stop", s>> \in Y /\ <<"save_lost", s>> \in Y
  BY DEF OfLost
<1>3. \A x \in Y : x \in X /\ x[2] = s /\ x[1] # "data_ready"
  BY DEF OfLost
<1> HIDE DEF Y, cs
<1>4. a \in Seq(Y) /\ b \in Seq(Y) /\ c \in Seq(Y)
  BY <1>2
<1>5. \A what \in {"ports", "stop", "save_lost"} : Occurs(<<what, s>>, c)
  <2>1. Len(c) = 3 /\ c[1] = <<"ports", s>> /\ c[2] = <<"stop", s>> /\ c[3] = <<"save_lost", s>>
    OBVIOUS
  <2>2. 1 \in 1..3 /\ 2 \in 1..3 /\ 3 \in 1..3
    OBVIOUS
  <2> HIDE DEF c
  <2> QED BY <2>1, <2>2 DEF Occurs
<1>6. saved.ready # Torn /\ s \in saved.ready => Occurs(<<"data_lost", s>>, b)
  BY Small
<1>12. ~Occurs(<<"save_lost", s>>, a) /\ ~Occurs(<<"save_lost", s>>, b)
  BY Small
<1>13. ~Occurs(<<"data_lost", s>>, c)
  <2>1. Len(c) = 3 /\ c[1] = <<"ports", s>> /\ c[2] = <<"stop", s>> /\ c[3] = <<"save_lost", s>>
    OBVIOUS
  <2>2. \A i \in 1..3 : i = 1 \/ i = 2 \/ i = 3
    OBVIOUS
  <2> HIDE DEF c
  <2> QED BY <2>1, <2>2 DEF Occurs
<1> HIDE DEF a, b, c
<1>14. NeverAfter(<<"save_lost", s>>, <<"data_lost", s>>, cs)
  <2>1. ~Occurs(<<"save_lost", s>>, a \o b) /\ a \o b \in Seq(Y)
    BY <1>4, <1>12, Joined
  <2>2. /\ NeverAfter(<<"save_lost", s>>, <<"data_lost", s>>, a \o b)
        /\ NeverAfter(<<"save_lost", s>>, <<"data_lost", s>>, c)
    BY <1>13, <2>1 DEF NeverAfter, Occurs
  <2> QED BY <1>1, <1>4, <2>1, <2>2, NeverAfterJoined
<1>7. a \o b \in Seq(Y) /\ \A x : Occurs(x, b) => Occurs(x, a \o b)
  BY <1>4, Joined
<1>8. cs \in Seq(Y) /\ \A x : Occurs(x, a \o b) \/ Occurs(x, c) => Occurs(x, cs)
  BY <1>1, <1>4, <1>7, Joined
<1>9. \A i \in 1..Len(cs) : cs[i] \in Y
  BY <1>8, ElementOfSeq
<1>10. cs \in Seq(X)
  BY <1>3, <1>8, <1>9, SeqDef, LenProperties
<1>11. cs \in Saves(X) /\ ForOne(s, cs)
  BY <1>3, <1>9, <1>10, SavesJoined DEF ForOne
<1> QED BY <1>5, <1>6, <1>7, <1>8, <1>11, <1>14 DEF cs

LEMMA StopCommands ==
  ASSUME NEW X, NEW s, OfStop \X {s} \subseteq X
  PROVE  LET cs == << <<"ports", s>>, <<"stop", s>> >>
         IN  /\ cs \in Saves(X) /\ ForOne(s, cs)
             /\ \A what \in OfStop : Occurs(<<what, s>>, cs)
             /\ NeverAfter(<<"save_lost", s>>, <<"data_lost", s>>, cs)
<1> DEFINE cs == << <<"ports", s>>, <<"stop", s>> >>
<1>1. <<"ports", s>> \in X /\ <<"stop", s>> \in X
  BY DEF OfStop
<1>2. cs \in Seq(X) /\ Len(cs) = 2 /\ cs[1] = <<"ports", s>> /\ cs[2] = <<"stop", s>>
  BY <1>1
<1>3. 1 \in 1..2 /\ 2 \in 1..2 /\ \A i \in 1..2 : i = 1 \/ i = 2
  OBVIOUS
<1> HIDE DEF cs
<1>4. \A i \in 1..Len(cs) : cs[i][1] # "data_ready" /\ cs[i][2] = s
  BY <1>2, <1>3
<1>5. cs \in Saves(X) /\ ForOne(s, cs)
  BY <1>2, <1>4, SavesJoined DEF ForOne
<1>6. \A what \in OfStop : Occurs(<<what, s>>, cs)
  BY <1>2, <1>3 DEF Occurs, OfStop
<1>7. NeverAfter(<<"save_lost", s>>, <<"data_lost", s>>, cs)
  BY <1>2, <1>3 DEF NeverAfter
<1> QED BY <1>5, <1>6, <1>7 DEF cs

\* The commands for all of them, one service after the other.
LEMMA AllCommands ==
  ASSUME NEW X, NEW ss \in [1..Len(Order) -> Saves(X)],
         \A k \in 1..Len(Order) : ForOne(Order[k], ss[k])
  PROVE  LET all == FlattenSeq(ss)
         IN  /\ all \in Saves(X)
             /\ \A k \in 1..Len(Order) : \A x : Occurs(x, ss[k]) => Occurs(x, all)
             /\ \A k \in 1..Len(Order) : \A a, x :
                   a[2] = Order[k] /\ LastOf({a}, x, ss[k]) => LastOf({a}, x, all)
             /\ \A k \in 1..Len(Order) : \A a, b :
                   a[2] = Order[k] /\ b[2] = Order[k] /\ NeverAfter(a, b, ss[k]) => NeverAfter(a, b, all)
<1> DEFINE n == Len(Order)
           all == FlattenSeq(ss)
<1>1. n \in Nat
  BY OrderAssumption, LenProperties
<1>2. ss \in Seq(Seq(X)) /\ Len(ss) = n
  <2>1. ss \in [1..n -> Seq(X)]
    BY SavesJoined
  <2> HIDE DEF n
  <2> QED BY <1>1, <2>1, SeqDef, LenProperties
<1>3. \A k \in 1..n : ss[k] \in Saves(X)
  OBVIOUS
<1>4. all \in Saves(X)
  BY <1>2, <1>3, FlattenedIn, SavesJoined
<1>5. \A x : Occurs(x, all) <=> \E k \in 1..n : Occurs(x, ss[k])
  BY <1>2, Flattened
<1>6. ASSUME NEW k \in 1..n, NEW a, NEW x, a[2] = Order[k], LastOf({a}, x, ss[k])
      PROVE  LastOf({a}, x, all)
  <2>1. ASSUME NEW j \in 1..n, j > k PROVE Without({a}, ss[j])
    <3>1. Order[j] # Order[k]
      BY <1>1, <2>1, OrderAssumption
    <3>2. \A i \in 1..Len(ss[j]) : ss[j][i][2] = Order[j]
      BY DEF ForOne
    <3> QED BY <1>6, <3>1, <3>2 DEF Without
  <2> QED BY <1>2, <1>6, <2>1, Flattened
<1>7. ASSUME NEW k \in 1..n, NEW a, NEW b, a[2] = Order[k], b[2] = Order[k], NeverAfter(a, b, ss[k])
      PROVE  NeverAfter(a, b, all)
  <2>1. ASSUME NEW j \in 1..n, j # k PROVE ~Occurs(a, ss[j]) /\ ~Occurs(b, ss[j])
    <3>1. Order[j] # Order[k]
      BY <1>1, <2>1, OrderAssumption
    <3>2. \A i \in 1..Len(ss[j]) : ss[j][i][2] = Order[j]
      BY DEF ForOne
    <3> QED BY <1>7, <3>1, <3>2 DEF Occurs
  <2> HIDE DEF n, all
  <2>2. /\ ss \in Seq(Seq(X)) /\ k \in 1..Len(ss)
        /\ \A j \in 1..Len(ss) : j # k => ~Occurs(a, ss[j]) /\ ~Occurs(b, ss[j])
    BY <1>2, <2>1
  <2> QED BY <1>7, <2>2, FlattenedOrder DEF all
<1> QED BY <1>4, <1>5, <1>6, <1>7

LEMMA ManageCommands ==
  ASSUME NEW n \in {"any", "stop"}, world.ready \in SUBSET ServiceNames
  PROVE  LET X == ServiceSteps(n, world.ready)
             cs == << <<"stored", "">> >> \o
                     (IF n = "stop" THEN Manager!stop_services ELSE Manager!reconfigure_services)
         IN  /\ cs \in Seq(X) /\ cs \in Saves(X)
             /\ cs # <<>> /\ Head(cs) = StoredStep /\ \A i \in 2..Len(cs) : cs[i] # StoredStep
             /\ \A s \in ServiceNames :
                   /\ NeverAfter(<<"save_lost", s>>, <<"data_lost", s>>, cs)
                   /\ Occurs(<<"ports", s>>, cs)
                   /\ n = "any" /\ s \in world.ready =>
                         /\ Occurs(<<"data_ready", s>>, cs) /\ Occurs(<<"save_ready", s>>, cs)
                         /\ LastOf({<<"data_ready", s>>}, <<"restart", s>>, cs)
                   /\ ~(n = "any" /\ s \in world.ready) => Occurs(<<"stop", s>>, cs)
                   /\ n = "any" /\ s \notin world.ready =>
                         /\ Occurs(<<"save_lost", s>>, cs)
                         /\ saved.ready # Torn /\ s \in saved.ready =>
                               Occurs(<<"data_lost", s>>, cs)
<1> DEFINE X == ServiceSteps(n, world.ready)
           Y == X \ {StoredStep}
           ss == [i \in DOMAIN Order |->
                     IF n = "stop" THEN << <<"ports", Order[i]>>, <<"stop", Order[i]>> >>
                     ELSE IF Order[i] \in world.ready THEN Manager!Ready(Order[i])
                     ELSE Manager!Lost(Order[i])]
           all == FlattenSeq(ss)
           head == << <<"stored", "">> >>
           cs == head \o all
<1>1. DOMAIN Order = 1..Len(Order)
  BY OrderAssumption, LenProperties
<1>2. (IF n = "stop" THEN Manager!stop_services ELSE Manager!reconfigure_services) = all
  <2>1. CASE n = "stop"
    BY <2>1, ManagerOperators DEF Manager!stop_services, Manager!Step
  <2>2. CASE n = "any"
    BY <2>2, ManagerOperators DEF Manager!reconfigure_services
  <2> QED BY <2>1, <2>2
<1>3. ASSUME NEW s \in ServiceNames
      PROVE  (IF n = "stop" THEN OfStop ELSE IF s \in world.ready THEN OfReady ELSE OfLost) \X {s} \subseteq Y
  <2>1. ASSUME NEW x \in (OfReady \cup OfLost) \X {s} PROVE x # StoredStep /\ x[1] \in OfReady \cup OfLost
    <3>1. x[1] # "stored" /\ x[1] \in OfReady \cup OfLost
      BY DEF OfReady, OfLost
    <3>2. StoredStep[1] = "stored"
      BY DEF StoredStep
    <3> QED BY <3>1, <3>2
  <2>2. CASE n = "stop"
    <3>1. OfStop \subseteq OfLost
      BY DEF OfStop, OfLost
    <3> QED BY <2>1, <2>2, <3>1 DEF ServiceSteps
  <2>3. CASE n = "any" /\ s \in world.ready
    BY <2>1, <2>3 DEF ServiceSteps
  <2>4. CASE n = "any" /\ s \notin world.ready
    BY <2>1, <2>4 DEF ServiceSteps
  <2> QED BY <2>2, <2>3, <2>4
<1>4. ASSUME NEW k \in 1..Len(Order)
      PROVE  Order[k] \in ServiceNames /\ ss[k] \in Saves(Y) /\ ForOne(Order[k], ss[k])
  <2>1. Order[k] \in ServiceNames
    BY ManagerOperators
  <2> HIDE DEF Y
  <2>2. CASE n = "stop"
    BY <1>1, <1>3, <2>1, <2>2, StopCommands
  <2>3. CASE n = "any" /\ Order[k] \in world.ready
    BY <1>1, <1>3, <2>1, <2>3, ReadyCommands
  <2>4. CASE n = "any" /\ Order[k] \notin world.ready
    BY <1>1, <1>3, <2>1, <2>4, LostCommands
  <2> QED BY <2>1, <2>2, <2>3, <2>4
<1>5. ss \in [1..Len(Order) -> Saves(Y)]
  BY <1>1, <1>4
<1>6. /\ all \in Saves(Y)
      /\ \A k \in 1..Len(Order) : \A x : Occurs(x, ss[k]) => Occurs(x, all)
      /\ \A k \in 1..Len(Order) : \A a, x :
            a[2] = Order[k] /\ LastOf({a}, x, ss[k]) => LastOf({a}, x, all)
      /\ \A k \in 1..Len(Order) : \A a, b :
            a[2] = Order[k] /\ b[2] = Order[k] /\ NeverAfter(a, b, ss[k]) => NeverAfter(a, b, all)
  <2> HIDE DEF ss, Y
  <2> QED BY <1>4, <1>5, AllCommands
<1>7. StoredStep \in X /\ StoredStep[1] # "data_ready" /\ head = <<StoredStep>>
  BY DEF StoredStep, ServiceSteps
<1> HIDE DEF X, ss, all, head
<1>8. all \in Saves(X) /\ all \in Seq(Y) /\ all \in Seq(X)
  <2>1. all \in Seq(Y)
    BY <1>6, SavesJoined
  <2>2. Seq(Y) \subseteq Seq(X)
    <3>1. Y \subseteq X
      OBVIOUS
    <3> HIDE DEF Y
    <3> QED BY <3>1, SeqDef, LenProperties
  <2>3. all \in Saves(X)
    BY <1>6, <2>1, <2>2 DEF Saves
  <2> QED BY <2>1, <2>2, <2>3
<1>9. head \in Seq(X) /\ Len(head) = 1 /\ head[1] = StoredStep
  BY <1>7
<1>10. head \in Saves(X)
  <2>1. \A i \in 1..Len(head) : head[i][1] # "data_ready"
    <3>1. \A i \in 1..Len(head) : i = 1
      BY <1>9
    <3> QED BY <1>7, <1>9, <3>1
  <2> QED BY <1>9, <2>1, SavesJoined
<1> HIDE DEF Y
<1>11. cs \in Saves(X) /\ cs \in Seq(X)
  BY <1>8, <1>9, <1>10, Joined, SavesJoined
<1>12. /\ Len(cs) = 1 + Len(all) /\ Len(all) \in Nat
       /\ cs[1] = StoredStep
       /\ \A i \in 1..Len(all) : cs[1 + i] = all[i]
  <2>1. Len(cs) = Len(head) + Len(all) /\ Len(all) \in Nat
    BY <1>8, <1>9, ConcatProperties, LenProperties
  <2>2. \A i \in 1..Len(head) + Len(all) :
           cs[i] = IF i <= Len(head) THEN head[i] ELSE all[i - Len(head)]
    BY <1>8, <1>9, ConcatProperties
  <2> HIDE DEF cs
  <2>3. 1 \in 1..Len(cs) /\ \A i \in 1..Len(all) : 1 + i \in 1..Len(cs) /\ (1 + i) - 1 = i /\ ~(1 + i <= 1)
    BY <1>9, <2>1
  <2>4. \A i \in 1..Len(all) : cs[1 + i] = all[i]
    BY <1>9, <2>1, <2>2, <2>3
  <2> QED BY <1>9, <2>1, <2>2, <2>3, <2>4
<1>13. \A x : Occurs(x, all) => Occurs(x, cs)
  BY <1>8, <1>9, Joined
<1>14. \A a, x : LastOf({a}, x, all) => LastOf({a}, x, cs)
  BY <1>8, <1>9, Joined
<1> HIDE DEF cs
<1>15. cs # <<>> /\ Head(cs) = StoredStep
  <2>1. cs # <<>>
    BY <1>12
  <2> QED BY <1>11, <1>12, <2>1, AfterHead
<1>16. \A i \in 2..Len(cs) : cs[i] # StoredStep
  <2>1. ASSUME NEW i \in 2..Len(cs) PROVE cs[i] # StoredStep
    <3>1. i - 1 \in 1..Len(all) /\ 1 + (i - 1) = i
      BY <1>12
    <3>2. all[i - 1] \in Y
      BY <1>8, <3>1, ElementOfSeq
    <3> QED BY <1>12, <3>1, <3>2 DEF Y
  <2> QED BY <2>1
<1>18. ASSUME NEW s \in ServiceNames
       PROVE  NeverAfter(<<"save_lost", s>>, <<"data_lost", s>>, cs)
  <2>1. PICK k \in 1..Len(Order) : s = Order[k]
    BY ManagerOperators
  <2>2. NeverAfter(<<"save_lost", s>>, <<"data_lost", s>>, ss[k])
    BY <1>1, <1>3, <2>1, StopCommands, ReadyCommands, LostCommands DEF ss
  <2>3. NeverAfter(<<"save_lost", s>>, <<"data_lost", s>>, all)
    BY <1>6, <2>1, <2>2
  <2>4. /\ NeverAfter(<<"save_lost", s>>, <<"data_lost", s>>, head)
        /\ ~Occurs(<<"save_lost", s>>, head)
    <3>1. StoredStep # <<"save_lost", s>>
      BY DEF StoredStep
    <3>2. \A i \in 1..Len(head) : i = 1
      BY <1>9
    <3> QED BY <1>9, <3>1, <3>2 DEF NeverAfter, Occurs
  <2> QED BY <1>8, <1>9, <2>3, <2>4, NeverAfterJoined DEF cs
<1>17. ASSUME NEW s \in ServiceNames
       PROVE  /\ Occurs(<<"ports", s>>, cs)
              /\ n = "any" /\ s \in world.ready =>
                    /\ Occurs(<<"data_ready", s>>, cs) /\ Occurs(<<"save_ready", s>>, cs)
                    /\ LastOf({<<"data_ready", s>>}, <<"restart", s>>, cs)
              /\ ~(n = "any" /\ s \in world.ready) => Occurs(<<"stop", s>>, cs)
              /\ n = "any" /\ s \notin world.ready =>
                    /\ Occurs(<<"save_lost", s>>, cs)
                    /\ saved.ready # Torn /\ s \in saved.ready =>
                          Occurs(<<"data_lost", s>>, cs)
  <2>1. PICK k \in 1..Len(Order) : s = Order[k]
    BY ManagerOperators
  <2>2. <<"data_ready", s>>[2] = Order[k]
    BY <2>1
  <2>3. CASE n = "stop"
    <3>1. Occurs(<<"ports", s>>, ss[k]) /\ Occurs(<<"stop", s>>, ss[k])
      BY <1>1, <1>3, <2>1, <2>3, StopCommands DEF ss, OfStop
    <3> QED BY <1>6, <1>13, <2>3, <3>1
  <2>4. CASE n = "any" /\ s \in world.ready
    <3>1. /\ \A what \in OfReady : Occurs(<<what, s>>, ss[k])
          /\ LastOf({<<"data_ready", s>>}, <<"restart", s>>, ss[k])
      BY <1>1, <1>3, <2>1, <2>4, ReadyCommands DEF ss
    <3>2. /\ Occurs(<<"ports", s>>, ss[k]) /\ Occurs(<<"data_ready", s>>, ss[k])
          /\ Occurs(<<"save_ready", s>>, ss[k])
      BY <3>1 DEF OfReady
    <3> QED BY <1>6, <1>13, <1>14, <2>2, <2>4, <3>1, <3>2
  <2>5. CASE n = "any" /\ s \notin world.ready
    <3>1. /\ \A what \in {"ports", "stop", "save_lost"} : Occurs(<<what, s>>, ss[k])
          /\ saved.ready # Torn /\ s \in saved.ready => Occurs(<<"data_lost", s>>, ss[k])
      BY <1>1, <1>3, <2>1, <2>5, LostCommands DEF ss
    <3>2. /\ Occurs(<<"ports", s>>, ss[k]) /\ Occurs(<<"stop", s>>, ss[k])
          /\ Occurs(<<"save_lost", s>>, ss[k])
      BY <3>1
    <3> QED BY <1>6, <1>13, <2>5, <3>1, <3>2
  <2> QED BY <2>3, <2>4, <2>5
<1> QED BY <1>2, <1>11, <1>15, <1>16, <1>17, <1>18 DEF X, cs, head

-----------------------------------------------------------------------------
\* What no step of a hook but PortManager touches.
LEMMA StepKeeps ==
  ASSUME ServicesInv, handling.at # "none", handling.todo # <<>>,
         handling' = [handling EXCEPT !.todo = Tail(@)],
         world' = world, juju' = juju, saved'.ports = saved.ports,
         saved'.ready = Torn => saved.ready = Torn,
         events'.ahead = events.ahead, events'.current = events.current,
         events'.stopped = events.stopped
  PROVE  /\ handling' \in HookStates(handling'.at, handling'.world.ready)
         /\ handling'.at = handling.at /\ handling'.world = handling.world
         /\ handling'.todo = Tail(handling.todo) /\ handling'.open = handling.open
         /\ handling'.at # "none" /\ ~AtStart'
         /\ handling'.todo \in Saves(ServiceSteps(handling'.at, handling'.world.ready))
         /\ StoredFirst' /\ LostFirst' /\ FilesMatch' /\ Settling' /\ Hurt'
         /\ Head(handling.todo)[1] # "ports" => \A s \in ServiceNames : PortDone(s)'
         /\ ~events'.stopped
<1>1. /\ handling \in HookStates(handling.at, handling.world.ready)
      /\ \A s \in ServiceNames : PortDone(s)
      /\ ~events.stopped /\ FilesMatch /\ Hurt
  BY DEF ServicesInv, ServiceTypeOK, Progress
<1>2. /\ handling'.at = handling.at /\ handling'.world = handling.world
      /\ handling'.todo = Tail(handling.todo) /\ handling'.open = handling.open
      /\ handling'.again = handling.again
  BY <1>1 DEF HookStates
<1>3. /\ handling'.todo \in Seq(ServiceSteps(handling'.at, handling'.world.ready))
      /\ handling'.todo \in Saves(ServiceSteps(handling'.at, handling'.world.ready))
      /\ StoredFirst' /\ ~AtStart' /\ LostFirst'
      /\ \A what, s : Pending(what, s) <=> Head(handling.todo) = <<what, s>> \/ Pending(what, s)'
      /\ \A s : Starts(s)' <=> Starts(s)
  BY <1>2, AfterStep
<1>4. handling' \in HookStates(handling'.at, handling'.world.ready)
  BY <1>1, <1>2, <1>3 DEF HookStates
<1>5. ServiceNames' = ServiceNames /\ AnyPort' = AnyPort
  BY DEF ServiceNames, AnyPort
<1>6. FilesMatch'
  BY <1>1, <1>2, <1>3, <1>5 DEF FilesMatch
<1>7. Settling' /\ Hurt'
  BY <1>1, <1>2, <1>3, <1>5 DEF Settling, Hurt
<1>8. ASSUME NEW s \in ServiceNames, Head(handling.todo)[1] # "ports" PROVE PortDone(s)'
  <2>1. Pending("ports", s) <=> Pending("ports", s)'
    BY <1>3, <1>8
  <2> QED BY <1>1, <1>2, <1>3, <1>5, <2>1 DEF PortDone
<1> QED BY <1>1, <1>2, <1>3, <1>4, <1>6, <1>7, <1>8

\* A step that does nothing for a service.
LEMMA OthersKeep ==
  ASSUME ServicesInv, handling.at # "none", handling.todo # <<>>,
         handling'.at = handling.at, handling'.world = handling.world,
         handling'.todo = Tail(handling.todo),
         saved'.ready = Torn <=> saved.ready = Torn,
         NEW s \in ServiceNames,
         saved'.rendered[s] = saved.rendered[s], started'[s] = started[s],
         events'.sent[s] = events.sent[s],
         ~Starts(s) /\ s \in events.unsaved => s \in events'.unsaved,
         \A what \in {"data_ready", "restart", "save_ready", "stop", "data_lost", "save_lost"} :
            Head(handling.todo) # <<what, s>> \/ (what \in {"save_ready", "save_lost"} /\ saved.ready # Torn)
  PROVE  IF Starts(s)' THEN Started(s)' ELSE Ended(s)'
<1>1. /\ \A what, t : Pending(what, t) <=> Head(handling.todo) = <<what, t>> \/ Pending(what, t)'
      /\ LastOf({<<"data_ready", s>>}, <<"restart", s>>, handling.todo) =>
            \/ LastOf({<<"data_ready", s>>}, <<"restart", s>>, handling'.todo)
            \/ Head(handling.todo) = <<"restart", s>> /\ ~Pending("data_ready", s)'
      /\ Starts(s)' <=> Starts(s)
  BY AfterStep
<1>2. IF Starts(s) THEN Started(s) ELSE Ended(s)
  BY DEF ServicesInv, Progress
<1>3. /\ Pending("data_ready", s)' <=> Pending("data_ready", s)
      /\ Pending("stop", s)' <=> Pending("stop", s)
      /\ Pending("data_lost", s)' <=> Pending("data_lost", s)
      /\ (Pending("save_ready", s)' <=> Pending("save_ready", s)) \/ saved.ready # Torn
      /\ (Pending("save_lost", s)' <=> Pending("save_lost", s)) \/ saved.ready # Torn
      /\ Head(handling.todo) # <<"restart", s>>
  BY <1>1
<1>4. CASE Starts(s)
  <2>1. Started(s)'
    BY <1>1, <1>2, <1>3, <1>4 DEF Started
  <2> QED BY <1>1, <1>4, <2>1
<1>5. CASE ~Starts(s)
  <2>1. Ended(s)'
    BY <1>1, <1>2, <1>3, <1>5 DEF Ended
  <2> QED BY <1>1, <1>5, <2>1
<1> QED BY <1>4, <1>5

-----------------------------------------------------------------------------
\* The steps of the service manager.
LEMMA ServicesStart == Manager!Init => ServicesInv
<1> SUFFICES ASSUME Manager!Init PROVE ServicesInv
  OBVIOUS
<1>1. /\ world \in [ready : {{}}, version : {1}, port : Ports]
      /\ saved = [ready |-> {}, ports |-> [s \in ServiceNames |-> 0], stored |-> 0,
                  rendered |-> [s \in ServiceNames |-> 0]]
      /\ juju = [open |-> {}, told |-> {}]
      /\ started = [s \in ServiceNames |-> 0]
      /\ handling = [at |-> "none", again |-> "none",
                     world |-> [ready |-> {}, version |-> 1, port |-> 0], todo |-> <<>>, open |-> {}]
      /\ events = [sent |-> [s \in ServiceNames |-> "none"], passwords |-> {}, generated |-> 0,
                   unsaved |-> {}, ahead |-> FALSE, current |-> FALSE, stopped |-> FALSE]
  BY DEF Manager!Init, Manager!NoHook, Manager!NoPort, Manager!NoEvents, ServiceNames
<1>2. /\ handling.at = "none" /\ handling.todo = <<>> /\ ~events.current /\ events.passwords = {}
      /\ juju.open = {} /\ saved.ready = {} /\ \A s \in ServiceNames : events.sent[s] = "none"
  BY <1>1
<1>3. ServiceTypeOK
  BY <1>1 DEF ServiceTypeOK, HookWorld, AnyPort, SavedStates, HookStates, EventStates
<1>4. <<>> \in Saves(ServiceSteps(handling.at, handling.world.ready))
  BY SavesJoined
<1>5. StoredFirst /\ LostFirst
  <2>1. \A i \in 1..Len(<<>>) : FALSE
    OBVIOUS
  <2>2. \A i \in 2..Len(<<>>) : FALSE
    OBVIOUS
  <2> QED BY <1>2, <2>1, <2>2 DEF StoredFirst, LostFirst, NeverAfter
<1>6. Password /\ ReadyKnown /\ Progress /\ FilesMatch /\ Settling /\ Hurt
  BY <1>2, <1>4 DEF Password, ReadyKnown, Progress, FilesMatch, Settling, Hurt
<1> QED BY <1>3, <1>5, <1>6 DEF ServicesInv

LEMMA ServicesChange == ServicesInv /\ Manager!Change => ServicesInv'
<1> SUFFICES ASSUME ServicesInv, Manager!Change PROVE ServicesInv'
  OBVIOUS
<1>1. /\ \/ \E s \in ServiceNames : world' = [world EXCEPT !.ready = IF s \in @ THEN @ \ {s} ELSE @ \cup {s}]
         \/ world' = [world EXCEPT !.version = 3 - @]
         \/ \E p \in Ports : world' = [world EXCEPT !.port = p]
      /\ events' = [events EXCEPT !.current = FALSE]
      /\ UNCHANGED <<saved, juju, started, handling>>
  BY DEF Manager!Change, ServiceNames
<1>2. /\ world \in [ready : SUBSET ServiceNames, version : {1, 2}, port : Ports]
      /\ events \in EventStates
  BY DEF ServicesInv, ServiceTypeOK
<1>3. world' \in [ready : SUBSET ServiceNames, version : {1, 2}, port : Ports]
  <2>1. ASSUME NEW s \in ServiceNames,
               world' = [world EXCEPT !.ready = IF s \in @ THEN @ \ {s} ELSE @ \cup {s}]
        PROVE  world' \in [ready : SUBSET ServiceNames, version : {1, 2}, port : Ports]
    BY <1>2, <2>1
  <2>2. CASE world' = [world EXCEPT !.version = 3 - @]
    BY <1>2, <2>2
  <2>3. CASE \E p \in Ports : world' = [world EXCEPT !.port = p]
    BY <1>2, <2>3
  <2> QED BY <1>1, <2>1, <2>2, <2>3
<1>4. /\ events' \in EventStates
      /\ ~events'.current /\ events'.passwords = events.passwords /\ events'.sent = events.sent
      /\ events'.unsaved = events.unsaved /\ events'.ahead = events.ahead
      /\ events'.stopped = events.stopped
  BY <1>1, <1>2 DEF EventStates
<1>5. /\ ServiceTypeOK /\ StoredFirst /\ LostFirst /\ Password /\ ReadyKnown
      /\ Progress /\ FilesMatch
  BY DEF ServicesInv
<1>10. /\ ServiceNames' = ServiceNames /\ AnyPort' = AnyPort /\ HookWorld' = HookWorld
       /\ ServiceSteps(handling.at, handling.world.ready)' = ServiceSteps(handling.at, handling.world.ready)
       /\ Saves(ServiceSteps(handling.at, handling.world.ready))'
            = Saves(ServiceSteps(handling.at, handling.world.ready))
       /\ SavedStates' = SavedStates /\ EventStates' = EventStates
       /\ HookStates(handling.at, handling.world.ready)' = HookStates(handling.at, handling.world.ready)
       /\ handling' = handling /\ saved' = saved /\ juju' = juju /\ started' = started
  BY <1>1 DEF ServiceNames, AnyPort, HookWorld, ServiceSteps, Saves, SavedStates, EventStates, HookStates
<1>6. ServiceTypeOK'
  <2>1. /\ saved' \in SavedStates
        /\ juju' \in [open : SUBSET (ServiceNames \X AnyPort), told : SUBSET ServiceNames]
        /\ started' \in [ServiceNames -> 0..2]
        /\ handling' \in HookStates(handling.at, handling.world.ready)
        /\ handling'.at = "none" => handling'.todo = <<>>
    BY <1>5, <1>10 DEF ServiceTypeOK
  <2> QED BY <1>3, <1>4, <1>10, <2>1 DEF ServiceTypeOK
<1>7. StoredFirst' /\ LostFirst' /\ Password' /\ ReadyKnown' /\ FilesMatch'
  <2>1. StoredFirst' /\ LostFirst'
    BY <1>5, <1>10 DEF StoredFirst, LostFirst
  <2>2. Password'
    BY <1>4, <1>5, <1>10 DEF Password, AtStart
  <2>3. ReadyKnown'
    <3>1. handling'.todo \in Saves(ServiceSteps(handling.at, handling.world.ready))'
      BY <1>5, <1>10, Zenon DEF ReadyKnown
    <3>2. /\ AtStart' <=> AtStart
          /\ \A s \in ServiceNames : SavedAfter(s)' <=> SavedAfter(s)
      BY <1>10 DEF AtStart, SavedAfter
    <3>3. saved'.ready # Torn =>
             \A s \in ServiceNames \ events'.unsaved :
                events'.sent[s] = "ready" /\ s \notin saved'.ready =>
                    handling'.at # "none" /\ ~AtStart' /\ SavedAfter(s)'
      BY <1>4, <1>5, <1>10, <3>2 DEF ReadyKnown
    <3> QED BY <1>10, <3>1, <3>3 DEF ReadyKnown
  <2>4. FilesMatch'
    BY <1>4, <1>5, <1>10 DEF FilesMatch, AtStart
  <2> QED BY <2>1, <2>2, <2>3, <2>4
<1>8. Progress'
  BY <1>1, <1>4, <1>5 DEF Progress, Started, Ended, Starts, PortDone, Pending, ServiceNames, AnyPort
<1>9. Settling' /\ Hurt'
  BY <1>4 DEF Settling, Hurt
<1> QED BY <1>6, <1>7, <1>8, <1>9 DEF ServicesInv

\* What a hook does next, and for which service.
LEMMA InStep ==
  ASSUME ServicesInv, NEW what, Manager!Does(what)
  PROVE  LET c == Head(handling.todo) IN
         /\ handling.at \in {"any", "stop"} /\ handling.todo # <<>> /\ c[1] = what
         /\ what = "stored" => c = StoredStep /\ AtStart
         /\ what # "stored" => c = <<what, c[2]>> /\ c[2] \in ServiceNames /\ ~AtStart
         /\ what \in {"data_ready", "restart", "save_ready"} => Starts(c[2])
         /\ what \in {"was_ready", "data_lost", "stop", "save_lost"} => ~Starts(c[2])
<1> DEFINE c == Head(handling.todo)
           X == ServiceSteps(handling.at, handling.world.ready)
<1>1. handling.at # "none" /\ handling.todo # <<>> /\ c[1] = what
  BY DEF Manager!Does, Manager!Now
<1>2. handling \in HookStates(handling.at, handling.world.ready)
  BY DEF ServicesInv, ServiceTypeOK
<1>3. handling.at \in {"any", "stop"} /\ handling.todo \in Seq(X)
  BY <1>1, <1>2 DEF HookStates
<1>4. c \in X
  <2>1. \A s \in Seq(X) : s # <<>> => Head(s) \in X
    BY AfterHead
  <2> HIDE DEF X
  <2> QED BY <1>1, <1>3, <2>1
<1>5. StoredStep[1] = "stored"
  BY DEF StoredStep
<1>6. \/ c = StoredStep
      \/ /\ c \in (OfReady \cup OfLost) \X ServiceNames
         /\ c[1] \in IF handling.at = "stop" THEN OfStop
                     ELSE IF c[2] \in handling.world.ready THEN OfReady ELSE OfLost
  BY <1>4 DEF ServiceSteps
<1>7. CASE c = StoredStep
  BY <1>1, <1>3, <1>5, <1>7 DEF AtStart
<1>8. CASE c # StoredStep
  <2>1. c = <<c[1], c[2]>> /\ c[2] \in ServiceNames /\ c[1] \in OfReady \cup OfLost
    BY <1>6, <1>8
  <2>2. c[1] # "stored"
    BY <2>1 DEF OfReady, OfLost
  <2>3. ~AtStart
    BY <1>8 DEF AtStart
  <2>4. what \in {"data_ready", "restart", "save_ready"} => Starts(c[2])
    BY <1>1, <1>3, <1>6, <1>8 DEF Starts, OfReady, OfLost, OfStop
  <2>5. what \in {"was_ready", "data_lost", "stop", "save_lost"} => ~Starts(c[2])
    BY <1>1, <1>3, <1>6, <1>8 DEF Starts, OfReady, OfLost, OfStop
  <2> QED BY <1>1, <1>3, <2>1, <2>2, <2>3, <2>4, <2>5
<1> QED BY <1>7, <1>8

\* The stop hook touches services and ports only.
LEMMA OnlyStops ==
  ASSUME ServicesInv, NEW what, Manager!Does(what), handling.at = "stop"
  PROVE  what \in OfStop \cup {"stored"}
<1> DEFINE c == Head(handling.todo)
           X == ServiceSteps("stop", handling.world.ready)
<1>1. handling.todo # <<>> /\ c[1] = what
  BY InStep
<1>2. handling.todo \in Seq(X)
  BY DEF ServicesInv, ServiceTypeOK, HookStates
<1>3. c \in X
  <2>1. \A s \in Seq(X) : s # <<>> => Head(s) \in X
    BY AfterHead
  <2> HIDE DEF X
  <2> QED BY <1>1, <1>2, <2>1
<1>4. StoredStep[1] = "stored"
  BY DEF StoredStep
<1>5. c = StoredStep \/ c[1] \in OfStop
  BY <1>3 DEF ServiceSteps
<1> QED BY <1>1, <1>4, <1>5

\* What is left to show of a step of a hook.
LEMMA StepTogether ==
  ASSUME ServicesInv, handling.at # "none", handling.todo # <<>>,
         handling' = [handling EXCEPT !.todo = Tail(@)],
         world' = world, juju' = juju, saved'.ports = saved.ports,
         saved'.ready = Torn => saved.ready = Torn,
         events'.ahead = events.ahead, events'.current = events.current,
         events'.stopped = events.stopped,
         Head(handling.todo)[1] # "ports",
         saved' \in SavedStates, started' \in [ServiceNames -> 0..2], events' \in EventStates,
         Password',
         ASSUME saved'.ready # Torn, NEW s \in ServiceNames \ events'.unsaved,
                events'.sent[s] = "ready", s \notin saved'.ready
         PROVE  SavedAfter(s)',
         ASSUME NEW s \in ServiceNames
         PROVE  IF Starts(s)' THEN Started(s)' ELSE Ended(s)'
  PROVE  ServicesInv'
<1>1. /\ ServiceNames' = ServiceNames /\ AnyPort' = AnyPort
      /\ SavedStates' = SavedStates /\ EventStates' = EventStates
      /\ HookStates(handling.at, handling.world.ready)'
            = HookStates(handling'.at, handling'.world.ready)
      /\ Saves(ServiceSteps(handling.at, handling.world.ready))'
            = Saves(ServiceSteps(handling'.at, handling'.world.ready))
  BY DEF ServiceNames, AnyPort, HookWorld, ServiceSteps, Saves, SavedStates, EventStates, HookStates
<1>2. /\ handling' \in HookStates(handling'.at, handling'.world.ready)
      /\ handling'.at # "none" /\ ~AtStart'
      /\ handling'.todo \in Saves(ServiceSteps(handling'.at, handling'.world.ready))
      /\ StoredFirst' /\ LostFirst' /\ FilesMatch' /\ Settling' /\ Hurt'
      /\ \A s \in ServiceNames : PortDone(s)'
      /\ ~events'.stopped
  BY StepKeeps
<1>3. ServiceTypeOK'
  <2>1. ServiceTypeOK
    BY DEF ServicesInv
  <2> QED BY <1>1, <1>2, <2>1 DEF ServiceTypeOK
<1>4. ReadyKnown'
  <2>1. handling'.todo \in Saves(ServiceSteps(handling.at, handling.world.ready))'
    BY <1>1, <1>2, Zenon
  <2> QED BY <1>1, <1>2, <2>1 DEF ReadyKnown
<1>5. Progress'
  BY <1>1, <1>2 DEF Progress
<1> QED BY <1>2, <1>3, <1>4, <1>5 DEF ServicesInv

LEMMA ServicesManage ==
  ASSUME ServicesInv, NEW n \in {"any", "stop"}, Manager!manage(n)
  PROVE  ServicesInv'
<1> DEFINE X == ServiceSteps(n, world.ready)
           cs == << <<"stored", "">> >> \o
                     (IF n = "stop" THEN Manager!stop_services ELSE Manager!reconfigure_services)
<1>1. /\ handling.at = "none" /\ ~events.stopped
      /\ handling' = [at |-> n, again |-> n, world |-> world, open |-> juju.open, todo |-> cs]
      /\ UNCHANGED <<world, saved, juju, started, events>>
  BY DEF Manager!manage, Manager!Step
<1>2. /\ ServiceTypeOK /\ Password /\ ReadyKnown /\ FilesMatch /\ Settling /\ Hurt
  BY DEF ServicesInv
<1>3. /\ world \in [ready : SUBSET ServiceNames, version : {1, 2}, port : Ports]
      /\ juju \in [open : SUBSET (ServiceNames \X AnyPort), told : SUBSET ServiceNames]
  BY <1>2 DEF ServiceTypeOK
<1>4. /\ cs \in Seq(X) /\ cs \in Saves(X)
      /\ cs # <<>> /\ Head(cs) = StoredStep /\ \A i \in 2..Len(cs) : cs[i] # StoredStep
      /\ \A s \in ServiceNames :
            /\ NeverAfter(<<"save_lost", s>>, <<"data_lost", s>>, cs)
            /\ Occurs(<<"ports", s>>, cs)
            /\ n = "any" /\ s \in world.ready =>
                  /\ Occurs(<<"data_ready", s>>, cs) /\ Occurs(<<"save_ready", s>>, cs)
                  /\ LastOf({<<"data_ready", s>>}, <<"restart", s>>, cs)
            /\ ~(n = "any" /\ s \in world.ready) => Occurs(<<"stop", s>>, cs)
            /\ n = "any" /\ s \notin world.ready =>
                  /\ Occurs(<<"save_lost", s>>, cs)
                  /\ saved.ready # Torn /\ s \in saved.ready => Occurs(<<"data_lost", s>>, cs)
  BY <1>3, ManageCommands
<1> HIDE DEF cs
<1>5. /\ handling'.at = n /\ handling'.again = n /\ handling'.world = world
      /\ handling'.open = juju.open /\ handling'.todo = cs
  BY <1>1
<1>6. /\ ServiceNames' = ServiceNames /\ AnyPort' = AnyPort
      /\ SavedStates' = SavedStates /\ EventStates' = EventStates
      /\ HookStates(handling.at, handling.world.ready)' = HookStates(n, world.ready)
      /\ Saves(ServiceSteps(handling.at, handling.world.ready))' = Saves(X)
  BY <1>5 DEF ServiceNames, AnyPort, HookWorld, ServiceSteps, Saves, SavedStates, EventStates, HookStates
<1>7. handling' \in HookStates(n, world.ready)
  <2>1. world \in HookWorld
    BY <1>3 DEF HookWorld, AnyPort
  <2> QED BY <1>1, <1>3, <1>4, <2>1 DEF HookStates
<1>8. ServiceTypeOK'
  BY <1>1, <1>2, <1>5, <1>6, <1>7 DEF ServiceTypeOK
<1>9. AtStart' /\ StoredFirst' /\ LostFirst'
  BY <1>4, <1>5, <1>6 DEF AtStart, StoredFirst, LostFirst, StoredStep
<1>10. Password'
  BY <1>1, <1>2, <1>9 DEF Password
<1>11. ReadyKnown'
  <2>1. handling'.todo \in Saves(ServiceSteps(handling.at, handling.world.ready))'
    BY <1>4, <1>5, <1>6, Zenon
  <2>2. saved'.ready # Torn =>
           \A s \in ServiceNames \ events'.unsaved :
              ~(events'.sent[s] = "ready" /\ s \notin saved'.ready)
    BY <1>1, <1>2 DEF ReadyKnown
  <2> QED BY <1>6, <2>1, <2>2 DEF ReadyKnown
<1>12. Progress'
  <2>1. ASSUME NEW s \in ServiceNames PROVE IF Starts(s)' THEN Started(s)' ELSE Ended(s)'
    <3>1. Starts(s)' <=> n = "any" /\ s \in world.ready
      BY <1>5 DEF Starts
    <3>2. \A what : Pending(what, s)' <=> Occurs(<<what, s>>, cs)
      BY <1>5 DEF Pending
    <3>3. CASE Starts(s)'
      <4>1. Started(s)'
        BY <1>4, <1>5, <3>1, <3>2, <3>3 DEF Started
      <4> QED BY <3>3, <4>1
    <3>4. CASE ~Starts(s)'
      <4>1. saved.ready # Torn /\ s \notin events.unsaved /\ s \notin saved.ready => events.sent[s] # "ready"
        BY <1>1, <1>2 DEF ReadyKnown
      <4>2. Ended(s)'
        BY <1>1, <1>4, <1>5, <3>1, <3>2, <3>4, <4>1 DEF Ended
      <4> QED BY <3>4, <4>2
    <3> QED BY <3>3, <3>4
  <2>2. \A s \in ServiceNames : PortDone(s)'
    BY <1>4, <1>5 DEF PortDone, Pending
  <2> QED BY <1>1, <1>6, <2>1, <2>2 DEF Progress
<1>13. FilesMatch'
  BY <1>1, <1>2, <1>5, <1>6 DEF FilesMatch
<1>14. Settling' /\ Hurt'
  BY <1>1, <1>2, <1>6 DEF Settling, Hurt, Good
<1> QED BY <1>8, <1>9, <1>10, <1>11, <1>12, <1>13, <1>14 DEF ServicesInv

\* A hook that has ended without success.
LEMMA EndsHook ==
  ASSUME ServicesInv, handling.at # "none",
         NEW again \in {"none", "any", "stop"},
         handling' = [Manager!NoHook EXCEPT !.again = again], world' = world,
         juju' \in [open : SUBSET (ServiceNames \X AnyPort), told : SUBSET ServiceNames],
         saved' \in SavedStates, started' \in [ServiceNames -> 0..2], events' \in EventStates,
         saved'.ports = saved.ports,
         saved'.stored \in {0, Torn} => events'.passwords = {},
         events'.passwords \subseteq {saved'.stored},
         ~events'.ahead => \A s \in ServiceNames, p \in AnyPort : <<s, p>> \in juju'.open => p = saved.ports[s],
         ASSUME saved'.ready # Torn, NEW s \in ServiceNames \ events'.unsaved,
                events'.sent[s] = "ready", s \notin saved'.ready
         PROVE  FALSE,
         events'.current => Good' /\ Hurt'
  PROVE  ServicesInv'
<1>1. /\ handling' = [at |-> "none", again |-> again,
                      world |-> [ready |-> {}, version |-> 1, port |-> 0], todo |-> <<>>, open |-> {}]
      /\ handling'.at = "none" /\ handling'.todo = <<>>
  BY DEF Manager!NoHook, Manager!NoPort
<1>2. /\ ServiceNames' = ServiceNames /\ AnyPort' = AnyPort
      /\ SavedStates' = SavedStates /\ EventStates' = EventStates
      /\ HookStates(handling.at, handling.world.ready)' = HookStates(handling'.at, handling'.world.ready)
      /\ Saves(ServiceSteps(handling.at, handling.world.ready))'
            = Saves(ServiceSteps(handling'.at, handling'.world.ready))
  BY DEF ServiceNames, AnyPort, HookWorld, ServiceSteps, Saves, SavedStates, EventStates, HookStates
<1>3. ServiceTypeOK'
  <2>1. ServiceTypeOK
    BY DEF ServicesInv
  <2>2. handling' \in HookStates(handling'.at, handling'.world.ready)
    <3> DEFINE X == ServiceSteps(handling'.at, handling'.world.ready)
               w == [ready |-> {}, version |-> 1, port |-> 0]
    <3>1. w \in HookWorld
      BY DEF HookWorld, AnyPort
    <3>3. again \in {"none", "any", "stop"}
      OBVIOUS
    <3>4. handling' = [at |-> "none", again |-> again, world |-> w, todo |-> <<>>, open |-> {}]
      BY <1>1
    <3> HIDE DEF X, w
    <3>2. handling' \in [at : {"none", "any", "stop"}, again : {"none", "any", "stop"},
                        world : HookWorld, todo : Seq(X), open : SUBSET (ServiceNames \X AnyPort)]
      BY ONLY <3>1, <3>3, <3>4
    <3> QED BY <3>2 DEF HookStates, X
  <2> QED BY <1>1, <1>2, <2>1, <2>2 DEF ServiceTypeOK
<1>4. StoredFirst' /\ LostFirst'
  <2>1. \A i \in 1..Len(<<>>) : FALSE
    OBVIOUS
  <2>2. \A i \in 2..Len(<<>>) : FALSE
    OBVIOUS
  <2> QED BY <1>1, <2>1, <2>2 DEF StoredFirst, LostFirst, NeverAfter
<1>5. Password' /\ Progress' /\ FilesMatch'
  BY <1>1, <1>2 DEF Password, Progress, FilesMatch
<1>6. ReadyKnown'
  <2>1. <<>> \in Saves(ServiceSteps(handling'.at, handling'.world.ready))
    BY SavesJoined
  <2>2. handling'.todo \in Saves(ServiceSteps(handling.at, handling.world.ready))'
    BY <1>1, <1>2, <2>1, Zenon
  <2> QED BY <1>2, <2>2 DEF ReadyKnown
<1>7. Settling' /\ Hurt'
  BY DEF Settling, Hurt
<1> QED BY <1>3, <1>4, <1>5, <1>6, <1>7 DEF ServicesInv

LEMMA ServicesStored == ServicesInv /\ Manager!StoredContext => ServicesInv'
<1> SUFFICES ASSUME ServicesInv, Manager!StoredContext PROVE ServicesInv'
  OBVIOUS
<1> DEFINE c == Head(handling.todo)
<1>1. /\ handling.at \in {"any", "stop"} /\ handling.at # "none" /\ handling.todo # <<>>
      /\ c = StoredStep /\ AtStart
  BY InStep DEF Manager!StoredContext
<1>2. UNCHANGED <<world, juju, started>>
  BY DEF Manager!StoredContext
<1>3. /\ ServiceTypeOK /\ Password /\ ReadyKnown /\ FilesMatch /\ Settling /\ Hurt
  BY DEF ServicesInv
<1>4. /\ saved \in SavedStates /\ events \in EventStates /\ started' \in [ServiceNames -> 0..2]
      /\ juju \in [open : SUBSET (ServiceNames \X AnyPort), told : SUBSET ServiceNames]
      /\ handling.again \in {"none", "any", "stop"}
  BY <1>2, <1>3 DEF ServiceTypeOK, HookStates
<1>5. ASSUME NEW s \in ServiceNames \ events.unsaved, saved.ready # Torn,
             events.sent[s] = "ready", s \notin saved.ready
      PROVE  FALSE
  BY <1>1, <1>3, <1>5 DEF ReadyKnown
<1>6. CASE saved.stored = Torn
  <2>1. /\ handling' = [Manager!NoHook EXCEPT !.again = handling.again]
        /\ saved' = saved /\ events' = events
    BY <1>6 DEF Manager!StoredContext, Manager!Fails
  <2>2. events.passwords = {}
    BY <1>3, <1>6 DEF Password
  <2>3. ~events.ahead => \A s \in ServiceNames, p \in AnyPort : <<s, p>> \in juju.open => p = saved.ports[s]
    BY <1>1, <1>3 DEF FilesMatch
  <2>4. events'.current => Good' /\ Hurt'
    <3>1. events.current => Good /\ Hurt
      BY <1>1, <1>3 DEF Settling
    <3>2. (Good' <=> Good) /\ (Hurt' <=> Hurt)
      BY <1>2, <2>1 DEF Good, Hurt, ServiceNames
    <3> QED BY <2>1, <3>1, <3>2
  <2> HIDE DEF c
  <2> QED BY <1>1, <1>2, <1>4, <1>5, <2>1, <2>2, <2>3, <2>4, EndsHook
<1>7. CASE saved.stored # Torn
  <2>1. /\ handling' = [handling EXCEPT !.todo = Tail(@)]
        /\ saved' = [saved EXCEPT !.stored = IF @ = 0 THEN events.generated + 1 ELSE @]
        /\ events' = [events EXCEPT !.generated = IF saved.stored = 0 THEN @ + 1 ELSE @]
    BY <1>7 DEF Manager!StoredContext, Manager!Done
  <2>2. /\ saved' \in SavedStates /\ events' \in EventStates
    BY <1>4, <1>7, <2>1 DEF SavedStates, EventStates
  <2>3. /\ saved'.ports = saved.ports /\ saved'.ready = saved.ready /\ saved'.rendered = saved.rendered
        /\ events'.ahead = events.ahead /\ events'.current = events.current
        /\ events'.stopped = events.stopped /\ events'.sent = events.sent
        /\ events'.unsaved = events.unsaved /\ events'.passwords = events.passwords
        /\ saved'.stored = IF saved.stored = 0 THEN events.generated + 1 ELSE saved.stored
    BY <1>4, <2>1 DEF SavedStates, EventStates
  <2>4. /\ Torn \notin Nat /\ events.generated \in Nat
    BY <1>4, ManagerOperators DEF EventStates
  <2>5. Password'
    <3>1. saved'.stored \notin {0, Torn}
      BY <1>7, <2>3, <2>4
    <3>2. saved.stored = 0 => events.passwords = {}
      BY <1>3 DEF Password
    <3>3. events'.passwords \subseteq {saved'.stored}
      BY <1>3, <2>3, <3>2 DEF Password
    <3> QED BY <3>1, <3>3 DEF Password
  <2>6. /\ handling'.at = handling.at /\ handling'.world = handling.world
        /\ handling'.todo = Tail(handling.todo)
    BY <1>3, <2>1 DEF ServiceTypeOK, HookStates
  <2>7. ASSUME NEW s \in ServiceNames PROVE IF Starts(s)' THEN Started(s)' ELSE Ended(s)'
    <3>1. \A what \in {"data_ready", "restart", "save_ready", "stop", "data_lost", "save_lost"} :
             Head(handling.todo) # <<what, s>>
      <4>1. StoredStep[1] = "stored"
        BY DEF StoredStep
      <4> QED BY <1>1, <4>1
    <3> HIDE DEF c
    <3> QED BY <1>1, <1>2, <2>3, <2>6, <3>1, OthersKeep
  <2>8. c[1] # "ports"
    <3>1. StoredStep[1] = "stored"
      BY DEF StoredStep
    <3> QED BY <1>1, <3>1
  <2>9. ASSUME saved'.ready # Torn, NEW s \in ServiceNames \ events'.unsaved,
               events'.sent[s] = "ready", s \notin saved'.ready
        PROVE  SavedAfter(s)'
    BY <1>5, <2>3, <2>9
  <2>10. saved'.ready = Torn => saved.ready = Torn
    BY <2>3
  <2> QED
    BY <1>1, <1>2, <1>4, <2>1, <2>2, <2>3, <2>5, <2>7, <2>8, <2>9, <2>10, StepTogether
<1> QED BY <1>6, <1>7

LEMMA ServicesDataReady == ServicesInv /\ Manager!data_ready => ServicesInv'
<1> SUFFICES ASSUME ServicesInv, Manager!data_ready PROVE ServicesInv'
  OBVIOUS
<1> DEFINE c == Head(handling.todo)
<1>0. /\ handling.at \in {"any", "stop"} /\ handling.at # "none" /\ handling.todo # <<>>
      /\ c = <<"data_ready", c[2]>> /\ c[2] \in ServiceNames /\ ~AtStart /\ Starts(c[2])
  BY InStep DEF Manager!data_ready
<1>1. PICK t \in ServiceNames :
         /\ handling.at \in {"any", "stop"} /\ handling.at # "none" /\ handling.todo # <<>>
         /\ c = <<"data_ready", t>> /\ ~AtStart /\ Starts(t)
  BY <1>0
<1>2. /\ UNCHANGED <<world, juju, started>>
      /\ handling' = [handling EXCEPT !.todo = Tail(@)]
      /\ saved' = [saved EXCEPT !.rendered[t] = handling.world.version]
      /\ events' = [events EXCEPT !.sent[t] = "ready", !.passwords = @ \cup {saved.stored}]
  <2>1. Manager!Now[2] = t
    BY <1>1 DEF Manager!Now
  <2> QED BY <2>1 DEF Manager!data_ready, Manager!Done
<1>3. /\ ServiceTypeOK /\ Password /\ ReadyKnown
      /\ \A s \in ServiceNames : IF Starts(s) THEN Started(s) ELSE Ended(s)
  BY <1>1 DEF ServicesInv, Progress
<1> HIDE DEF c
<1>4. /\ saved \in SavedStates /\ events \in EventStates /\ started' \in [ServiceNames -> 0..2]
      /\ handling \in HookStates(handling.at, handling.world.ready)
      /\ handling.world.version \in {1, 2}
      /\ saved.stored \notin {0, Torn} /\ saved.stored \in Nat
  BY <1>1, <1>2, <1>3 DEF ServiceTypeOK, HookStates, HookWorld, Password, SavedStates
<1>5. saved' \in SavedStates /\ events' \in EventStates
  <2>1. handling.world.version \in 0..2
    BY <1>4
  <2>2. saved' \in SavedStates
    BY <1>1, <1>2, <1>4, <2>1 DEF SavedStates
  <2>3. events' \in EventStates
    BY <1>1, <1>2, <1>4 DEF EventStates
  <2> QED BY <2>2, <2>3
<1>6. /\ saved'.ports = saved.ports /\ saved'.ready = saved.ready
      /\ saved'.rendered = [saved.rendered EXCEPT ![t] = handling.world.version]
      /\ saved'.stored = saved.stored
      /\ events'.ahead = events.ahead /\ events'.current = events.current
      /\ events'.stopped = events.stopped /\ events'.sent = [events.sent EXCEPT ![t] = "ready"]
      /\ events'.unsaved = events.unsaved /\ events'.passwords = events.passwords \cup {saved.stored}
  BY <1>2, <1>4 DEF SavedStates, EventStates
<1>7. /\ saved'.rendered[t] = handling.world.version /\ events'.sent[t] = "ready"
      /\ \A s \in ServiceNames : s # t =>
            saved'.rendered[s] = saved.rendered[s] /\ events'.sent[s] = events.sent[s]
  BY <1>1, <1>4, <1>6 DEF SavedStates, EventStates
<1>8. Password'
  BY <1>3, <1>4, <1>6 DEF Password
<1>9. /\ handling'.at = handling.at /\ handling'.world = handling.world
      /\ handling'.todo = Tail(handling.todo)
  BY <1>2, <1>4 DEF HookStates
<1>10. c = Head(handling.todo)
  BY DEF c
<1>11. /\ \A what, s : Pending(what, s) <=> c = <<what, s>> \/ Pending(what, s)'
       /\ \A s \in ServiceNames : SavedAfter(s) => /\ c[1] # "data_ready"
                                                   /\ SavedAfter(s)' \/ c = <<"save_ready", s>>
       /\ \A s \in ServiceNames : c = <<"data_ready", s>> => SavedAfter(s)'
       /\ \A s \in ServiceNames :
             LastOf({<<"data_ready", s>>}, <<"restart", s>>, handling.todo) =>
                \/ LastOf({<<"data_ready", s>>}, <<"restart", s>>, handling'.todo)
                \/ c = <<"restart", s>> /\ ~Pending("data_ready", s)'
       /\ \A s : Starts(s)' <=> Starts(s)
  BY <1>1, <1>9, AfterStep DEF c
<1>12. ASSUME saved'.ready # Torn, NEW s \in ServiceNames \ events'.unsaved,
              events'.sent[s] = "ready", s \notin saved'.ready
       PROVE  SavedAfter(s)'
  <2>1. CASE s = t
    BY <1>1, <1>11, <2>1
  <2>2. CASE s # t
    <3>1. SavedAfter(s)
      BY <1>3, <1>6, <1>7, <1>12, <2>2 DEF ReadyKnown
    <3>2. c[1] = "data_ready"
      BY <1>1
    <3> QED BY <1>11, <3>1, <3>2
  <2> QED BY <2>1, <2>2
<1>13. ASSUME NEW s \in ServiceNames PROVE IF Starts(s)' THEN Started(s)' ELSE Ended(s)'
  <2>1. CASE s = t
    <3>1. Started(t)
      BY <1>1, <1>3
    <3>2. /\ Pending("data_ready", t)
          /\ Pending("save_ready", t)' <=> Pending("save_ready", t)
          /\ c # <<"restart", t>>
      BY <1>1, <1>11
    <3>3. Started(t)'
      BY <1>1, <1>6, <1>7, <1>9, <1>11, <3>1, <3>2 DEF Started
    <3> QED BY <1>1, <1>11, <2>1, <3>3
  <2>2. CASE s # t
    <3>1. \A what : Head(handling.todo) # <<what, s>>
      BY <1>1, <1>10, <2>2
    <3> QED BY <1>1, <1>2, <1>6, <1>7, <1>9, <2>2, <3>1, OthersKeep
  <2> QED BY <2>1, <2>2
<1>14. Head(handling.todo)[1] # "ports" /\ (saved'.ready = Torn => saved.ready = Torn)
  BY <1>1, <1>6, <1>10
<1> QED BY <1>1, <1>2, <1>4, <1>5, <1>6, <1>8, <1>12, <1>13, <1>14, StepTogether

LEMMA ServicesDataLost == ServicesInv /\ Manager!data_lost => ServicesInv'
<1> SUFFICES ASSUME ServicesInv, Manager!data_lost PROVE ServicesInv'
  OBVIOUS
<1> DEFINE c == Head(handling.todo)
<1>0. /\ handling.at \in {"any", "stop"} /\ handling.at # "none" /\ handling.todo # <<>>
      /\ c = <<"data_lost", c[2]>> /\ c[2] \in ServiceNames /\ ~AtStart /\ ~Starts(c[2])
  BY InStep DEF Manager!data_lost
<1>1. PICK t \in ServiceNames :
         /\ handling.at \in {"any", "stop"} /\ handling.at # "none" /\ handling.todo # <<>>
         /\ c = <<"data_lost", t>> /\ ~AtStart /\ ~Starts(t)
  BY <1>0
<1>2. /\ UNCHANGED <<world, saved, juju, started>>
      /\ handling' = [handling EXCEPT !.todo = Tail(@)]
      /\ events' = [events EXCEPT !.sent[t] = "lost"]
  <2>1. Manager!Now[2] = t
    BY <1>1 DEF Manager!Now
  <2> QED BY <2>1 DEF Manager!data_lost, Manager!Done
<1>3. /\ ServiceTypeOK /\ Password /\ ReadyKnown
      /\ \A s \in ServiceNames : IF Starts(s) THEN Started(s) ELSE Ended(s)
  BY <1>1 DEF ServicesInv, Progress
<1> HIDE DEF c
<1>4. /\ saved' \in SavedStates /\ events \in EventStates /\ started' \in [ServiceNames -> 0..2]
      /\ handling \in HookStates(handling.at, handling.world.ready)
  BY <1>2, <1>3 DEF ServiceTypeOK
<1>5. events' \in EventStates
  BY <1>1, <1>2, <1>4 DEF EventStates
<1>6. /\ events'.ahead = events.ahead /\ events'.current = events.current
      /\ events'.stopped = events.stopped /\ events'.sent = [events.sent EXCEPT ![t] = "lost"]
      /\ events'.unsaved = events.unsaved /\ events'.passwords = events.passwords
  BY <1>2, <1>4 DEF EventStates
<1>7. /\ events'.sent[t] = "lost"
      /\ \A s \in ServiceNames : s # t => events'.sent[s] = events.sent[s]
  BY <1>1, <1>4, <1>6 DEF EventStates
<1>8. Password'
  BY <1>1, <1>2, <1>3, <1>6 DEF Password
<1>9. /\ handling'.at = handling.at /\ handling'.world = handling.world
      /\ handling'.todo = Tail(handling.todo)
  BY <1>2, <1>4 DEF HookStates
<1>10. c = Head(handling.todo)
  BY DEF c
<1>11. /\ \A what, s : Pending(what, s) <=> c = <<what, s>> \/ Pending(what, s)'
       /\ \A s \in ServiceNames : SavedAfter(s) => SavedAfter(s)' \/ c = <<"save_ready", s>>
       /\ \A s : Starts(s)' <=> Starts(s)
  BY <1>1, <1>9, AfterStep DEF c
<1>12. ASSUME saved'.ready # Torn, NEW s \in ServiceNames \ events'.unsaved,
              events'.sent[s] = "ready", s \notin saved'.ready
       PROVE  SavedAfter(s)'
  <2>1. s # t
    BY <1>7, <1>12
  <2>2. SavedAfter(s)
    BY <1>2, <1>3, <1>6, <1>7, <1>12, <2>1 DEF ReadyKnown
  <2> QED BY <1>1, <1>11, <2>2
<1>13. ASSUME NEW s \in ServiceNames PROVE IF Starts(s)' THEN Started(s)' ELSE Ended(s)'
  <2>1. CASE s = t
    <3>1. Ended(t)
      BY <1>1, <1>3
    <3>2. /\ Pending("stop", t)' <=> Pending("stop", t)
          /\ Pending("save_lost", t)' <=> Pending("save_lost", t)
      BY <1>1, <1>11
    <3>3. Ended(t)'
      BY <1>2, <1>7, <1>9, <3>1, <3>2 DEF Ended
    <3> QED BY <1>1, <1>11, <2>1, <3>3
  <2>2. CASE s # t
    <3>1. \A what : Head(handling.todo) # <<what, s>>
      BY <1>1, <1>10, <2>2
    <3> QED BY <1>1, <1>2, <1>6, <1>7, <1>9, <2>2, <3>1, OthersKeep
  <2> QED BY <2>1, <2>2
<1>14. Head(handling.todo)[1] # "ports" /\ (saved'.ready = Torn => saved.ready = Torn)
  BY <1>1, <1>2, <1>10
<1> QED BY <1>1, <1>2, <1>4, <1>5, <1>6, <1>8, <1>12, <1>13, <1>14, StepTogether

LEMMA ServicesRestart == ServicesInv /\ Manager!service_restart => ServicesInv'
<1> SUFFICES ASSUME ServicesInv, Manager!service_restart PROVE ServicesInv'
  OBVIOUS
<1> DEFINE c == Head(handling.todo)
<1>0. /\ handling.at \in {"any", "stop"} /\ handling.at # "none" /\ handling.todo # <<>>
      /\ c = <<"restart", c[2]>> /\ c[2] \in ServiceNames /\ ~AtStart /\ Starts(c[2])
  BY InStep DEF Manager!service_restart
<1>1. PICK t \in ServiceNames :
         /\ handling.at \in {"any", "stop"} /\ handling.at # "none" /\ handling.todo # <<>>
         /\ c = <<"restart", t>> /\ ~AtStart /\ Starts(t)
  BY <1>0
<1>2. /\ UNCHANGED <<world, saved, juju, events>>
      /\ handling' = [handling EXCEPT !.todo = Tail(@)]
      /\ started' = [started EXCEPT ![t] = saved.rendered[t]]
  <2>1. Manager!Now[2] = t
    BY <1>1 DEF Manager!Now
  <2> QED BY <2>1 DEF Manager!service_restart, Manager!Done
<1>3. /\ ServiceTypeOK /\ Password /\ ReadyKnown
      /\ \A s \in ServiceNames : IF Starts(s) THEN Started(s) ELSE Ended(s)
  BY <1>1 DEF ServicesInv, Progress
<1> HIDE DEF c
<1>4. /\ saved' \in SavedStates /\ events' \in EventStates /\ started \in [ServiceNames -> 0..2]
      /\ handling \in HookStates(handling.at, handling.world.ready)
      /\ saved.rendered \in [ServiceNames -> 0..2]
  BY <1>2, <1>3 DEF ServiceTypeOK, SavedStates
<1>5. started' \in [ServiceNames -> 0..2]
  BY <1>1, <1>2, <1>4
<1>7. /\ started'[t] = saved.rendered[t]
      /\ \A s \in ServiceNames : s # t => started'[s] = started[s]
  BY <1>1, <1>2, <1>4
<1>8. Password'
  BY <1>1, <1>2, <1>3 DEF Password
<1>9. /\ handling'.at = handling.at /\ handling'.world = handling.world
      /\ handling'.todo = Tail(handling.todo)
  BY <1>2, <1>4 DEF HookStates
<1>10. c = Head(handling.todo)
  BY DEF c
<1>11. /\ \A what, s : Pending(what, s) <=> c = <<what, s>> \/ Pending(what, s)'
       /\ \A s \in ServiceNames : SavedAfter(s) => SavedAfter(s)' \/ c = <<"save_ready", s>>
       /\ \A s \in ServiceNames :
             LastOf({<<"data_ready", s>>}, <<"restart", s>>, handling.todo) =>
                \/ LastOf({<<"data_ready", s>>}, <<"restart", s>>, handling'.todo)
                \/ c = <<"restart", s>> /\ ~Pending("data_ready", s)'
       /\ \A s : Starts(s)' <=> Starts(s)
  BY <1>1, <1>9, AfterStep DEF c
<1>12. ASSUME saved'.ready # Torn, NEW s \in ServiceNames \ events'.unsaved,
              events'.sent[s] = "ready", s \notin saved'.ready
       PROVE  SavedAfter(s)'
  <2>1. SavedAfter(s)
    BY <1>2, <1>3, <1>12 DEF ReadyKnown
  <2> QED BY <1>1, <1>11, <2>1
<1>13. ASSUME NEW s \in ServiceNames PROVE IF Starts(s)' THEN Started(s)' ELSE Ended(s)'
  <2>1. CASE s = t
    <3>1. Started(t)
      BY <1>1, <1>3
    <3>2. /\ Pending("data_ready", t)' <=> Pending("data_ready", t)
          /\ Pending("save_ready", t)' <=> Pending("save_ready", t)
      BY <1>1, <1>11
    <3>3. \/ LastOf({<<"data_ready", t>>}, <<"restart", t>>, handling'.todo)
          \/ ~Pending("data_ready", t)' /\ started'[t] = handling.world.version
      BY <1>7, <1>11, <3>1, <3>2 DEF Started
    <3>4. Started(t)'
      BY <1>2, <1>7, <1>9, <3>1, <3>2, <3>3 DEF Started
    <3> QED BY <1>1, <1>11, <2>1, <3>4
  <2>2. CASE s # t
    <3>1. \A what : Head(handling.todo) # <<what, s>>
      BY <1>1, <1>10, <2>2
    <3> QED BY <1>1, <1>2, <1>7, <1>9, <2>2, <3>1, OthersKeep
  <2> QED BY <2>1, <2>2
<1>14. Head(handling.todo)[1] # "ports" /\ (saved'.ready = Torn => saved.ready = Torn)
  BY <1>1, <1>2, <1>10
<1> QED BY <1>1, <1>2, <1>4, <1>5, <1>8, <1>12, <1>13, <1>14, StepTogether

LEMMA ServicesStop == ServicesInv /\ Manager!service_stop => ServicesInv'
<1> SUFFICES ASSUME ServicesInv, Manager!service_stop PROVE ServicesInv'
  OBVIOUS
<1> DEFINE c == Head(handling.todo)
<1>0. /\ handling.at \in {"any", "stop"} /\ handling.at # "none" /\ handling.todo # <<>>
      /\ c = <<"stop", c[2]>> /\ c[2] \in ServiceNames /\ ~AtStart /\ ~Starts(c[2])
  BY InStep DEF Manager!service_stop
<1>1. PICK t \in ServiceNames :
         /\ handling.at \in {"any", "stop"} /\ handling.at # "none" /\ handling.todo # <<>>
         /\ c = <<"stop", t>> /\ ~AtStart /\ ~Starts(t)
  BY <1>0
<1>2. /\ UNCHANGED <<world, saved, juju, events>>
      /\ handling' = [handling EXCEPT !.todo = Tail(@)]
      /\ started' = [started EXCEPT ![t] = 0]
  <2>1. Manager!Now[2] = t
    BY <1>1 DEF Manager!Now
  <2> QED BY <2>1 DEF Manager!service_stop, Manager!Done
<1>3. /\ ServiceTypeOK /\ Password /\ ReadyKnown
      /\ \A s \in ServiceNames : IF Starts(s) THEN Started(s) ELSE Ended(s)
  BY <1>1 DEF ServicesInv, Progress
<1> HIDE DEF c
<1>4. /\ saved' \in SavedStates /\ events' \in EventStates /\ started \in [ServiceNames -> 0..2]
      /\ handling \in HookStates(handling.at, handling.world.ready)
  BY <1>2, <1>3 DEF ServiceTypeOK
<1>5. started' \in [ServiceNames -> 0..2]
  BY <1>1, <1>2, <1>4
<1>7. /\ started'[t] = 0
      /\ \A s \in ServiceNames : s # t => started'[s] = started[s]
  BY <1>1, <1>2, <1>4
<1>8. Password'
  BY <1>1, <1>2, <1>3 DEF Password
<1>9. /\ handling'.at = handling.at /\ handling'.world = handling.world
      /\ handling'.todo = Tail(handling.todo)
  BY <1>2, <1>4 DEF HookStates
<1>10. c = Head(handling.todo)
  BY DEF c
<1>11. /\ \A what, s : Pending(what, s) <=> c = <<what, s>> \/ Pending(what, s)'
       /\ \A s \in ServiceNames : SavedAfter(s) => SavedAfter(s)' \/ c = <<"save_ready", s>>
       /\ \A s : Starts(s)' <=> Starts(s)
  BY <1>1, <1>9, AfterStep DEF c
<1>12. ASSUME saved'.ready # Torn, NEW s \in ServiceNames \ events'.unsaved,
              events'.sent[s] = "ready", s \notin saved'.ready
       PROVE  SavedAfter(s)'
  <2>1. SavedAfter(s)
    BY <1>2, <1>3, <1>12 DEF ReadyKnown
  <2> QED BY <1>1, <1>11, <2>1
<1>13. ASSUME NEW s \in ServiceNames PROVE IF Starts(s)' THEN Started(s)' ELSE Ended(s)'
  <2>1. CASE s = t
    <3>1. Ended(t)
      BY <1>1, <1>3
    <3>2. /\ Pending("data_lost", t)' <=> Pending("data_lost", t)
          /\ Pending("save_lost", t)' <=> Pending("save_lost", t)
      BY <1>1, <1>11
    <3>3. Ended(t)'
      BY <1>2, <1>7, <1>9, <3>1, <3>2 DEF Ended
    <3> QED BY <1>1, <1>11, <2>1, <3>3
  <2>2. CASE s # t
    <3>1. \A what : Head(handling.todo) # <<what, s>>
      BY <1>1, <1>10, <2>2
    <3> QED BY <1>1, <1>2, <1>7, <1>9, <2>2, <3>1, OthersKeep
  <2> QED BY <2>1, <2>2
<1>14. Head(handling.todo)[1] # "ports" /\ (saved'.ready = Torn => saved.ready = Torn)
  BY <1>1, <1>2, <1>10
<1> QED BY <1>1, <1>2, <1>4, <1>5, <1>8, <1>12, <1>13, <1>14, StepTogether

LEMMA ServicesPorts == ServicesInv /\ Manager!PortManager => ServicesInv'
<1> SUFFICES ASSUME ServicesInv, Manager!PortManager PROVE ServicesInv'
  OBVIOUS
<1> DEFINE c == Head(handling.todo)
<1>0. /\ handling.at \in {"any", "stop"} /\ handling.at # "none" /\ handling.todo # <<>>
      /\ c = <<"ports", c[2]>> /\ c[2] \in ServiceNames /\ ~AtStart
  BY InStep DEF Manager!PortManager
<1>1. PICK t \in ServiceNames :
         /\ handling.at \in {"any", "stop"} /\ handling.at # "none" /\ handling.todo # <<>>
         /\ c = <<"ports", t>> /\ ~AtStart
  BY <1>0
<1> DEFINE port == handling.world.port
           rest == handling.open \ {<<t, saved.ports[t]>>, <<t, port>>}
           left == IF Starts(t) THEN rest \cup {<<t, port>>} ELSE rest
<1>2. /\ UNCHANGED <<world, juju, started, events>>
      /\ saved' = [saved EXCEPT !.ports[t] = port]
      /\ handling' = [handling EXCEPT !.todo = Tail(@), !.open = left]
  <2>1. Manager!Now[2] = t
    BY <1>1 DEF Manager!Now
  <2>2. Starts(t) <=> handling.at # "stop" /\ t \in handling.world.ready
    BY <1>1 DEF Starts
  <2> QED BY <2>1, <2>2 DEF Manager!PortManager
<1>3. /\ ServiceTypeOK /\ Password /\ ReadyKnown /\ FilesMatch
      /\ \A s \in ServiceNames : IF Starts(s) THEN Started(s) ELSE Ended(s)
      /\ \A s \in ServiceNames : PortDone(s)
      /\ ~events.stopped
  BY <1>1 DEF ServicesInv, Progress
<1> HIDE DEF c
<1>4. /\ saved \in SavedStates /\ events \in EventStates /\ started \in [ServiceNames -> 0..2]
      /\ handling \in HookStates(handling.at, handling.world.ready)
      /\ handling.open \in SUBSET (ServiceNames \X AnyPort) /\ port \in AnyPort
  BY <1>3 DEF ServiceTypeOK, HookStates, HookWorld
<1>5. left \in SUBSET (ServiceNames \X AnyPort)
  BY <1>4
<1> HIDE DEF left
<1>6. /\ saved' \in SavedStates
      /\ saved'.ready = saved.ready /\ saved'.stored = saved.stored
      /\ saved'.rendered = saved.rendered /\ saved'.ports = [saved.ports EXCEPT ![t] = port]
  BY <1>1, <1>2, <1>4 DEF SavedStates
<1>7. /\ saved'.ports[t] = port
      /\ \A s \in ServiceNames : s # t => saved'.ports[s] = saved.ports[s]
  BY <1>1, <1>4, <1>6 DEF SavedStates
<1>8. /\ handling'.at = handling.at /\ handling'.world = handling.world
      /\ handling'.todo = Tail(handling.todo) /\ handling'.open = left
      /\ handling'.again = handling.again
  BY <1>2, <1>4 DEF HookStates
<1>9. /\ handling'.todo \in Seq(ServiceSteps(handling'.at, handling'.world.ready))
      /\ handling'.todo \in Saves(ServiceSteps(handling'.at, handling'.world.ready))
      /\ StoredFirst' /\ ~AtStart' /\ LostFirst'
      /\ \A what, s : Pending(what, s) <=> c = <<what, s>> \/ Pending(what, s)'
      /\ \A s \in ServiceNames : SavedAfter(s) => SavedAfter(s)' \/ c = <<"save_ready", s>>
      /\ \A s : Starts(s)' <=> Starts(s)
  BY <1>1, <1>8, AfterStep DEF c
<1>10. /\ ServiceNames' = ServiceNames /\ AnyPort' = AnyPort
       /\ SavedStates' = SavedStates /\ EventStates' = EventStates
       /\ HookStates(handling.at, handling.world.ready)'
             = HookStates(handling'.at, handling'.world.ready)
       /\ Saves(ServiceSteps(handling.at, handling.world.ready))'
             = Saves(ServiceSteps(handling'.at, handling'.world.ready))
  BY DEF ServiceNames, AnyPort, HookWorld, ServiceSteps, Saves, SavedStates, EventStates, HookStates
<1>11. ServiceTypeOK'
  <2>1. handling' \in HookStates(handling'.at, handling'.world.ready)
    BY <1>2, <1>4, <1>5, <1>8, <1>9 DEF HookStates
  <2>2. handling'.at # "none"
    BY <1>1, <1>8
  <2> QED BY <1>2, <1>3, <1>6, <1>10, <2>1, <2>2 DEF ServiceTypeOK
<1>12. Password'
  BY <1>1, <1>2, <1>3, <1>6 DEF Password
<1>13. ReadyKnown'
  <2>1. handling'.todo \in Saves(ServiceSteps(handling.at, handling.world.ready))'
    BY <1>9, <1>10, Zenon
  <2>2. saved'.ready # Torn =>
           \A s \in ServiceNames \ events'.unsaved :
              events'.sent[s] = "ready" /\ s \notin saved'.ready => SavedAfter(s)'
    BY <1>1, <1>2, <1>3, <1>6, <1>9 DEF ReadyKnown
  <2>3. handling'.at # "none"
    BY <1>1, <1>8
  <2> QED BY <1>9, <1>10, <2>1, <2>2, <2>3 DEF ReadyKnown
<1>14. \A s \in ServiceNames, p \in AnyPort : s # t => (<<s, p>> \in left <=> <<s, p>> \in handling.open)
  BY DEF left
<1>15. ~events.ahead => \A p \in AnyPort : <<t, p>> \in left <=> Starts(t) /\ p = port
  <2>1. ~events.ahead => \A p \in AnyPort : <<t, p>> \in handling.open => p = saved.ports[t]
    BY <1>1, <1>3 DEF FilesMatch
  <2>2. ~events.ahead => \A p \in AnyPort : <<t, p>> \notin rest
    BY <2>1
  <2>3. \A p : <<t, p>> = <<t, port>> <=> p = port
    OBVIOUS
  <2> HIDE DEF rest, port
  <2> QED BY <2>2, <2>3 DEF left
<1>16. Progress'
  <2>1. ASSUME NEW s \in ServiceNames PROVE IF Starts(s)' THEN Started(s)' ELSE Ended(s)'
    <3>1. \A what \in {"data_ready", "restart", "save_ready", "stop", "data_lost", "save_lost"} :
             Head(handling.todo) # <<what, s>>
      BY <1>1 DEF c
    <3> QED BY <1>1, <1>2, <1>6, <1>8, <3>1, OthersKeep
  <2>2. ASSUME NEW s \in ServiceNames PROVE PortDone(s)'
    <3>1. CASE s = t
      BY <1>2, <1>8, <1>9, <1>10, <1>15, <3>1 DEF PortDone
    <3>2. CASE s # t
      <4>1. Pending("ports", s)' <=> Pending("ports", s)
        BY <1>1, <1>9, <3>2
      <4> QED BY <1>2, <1>3, <1>8, <1>9, <1>10, <1>14, <3>2, <4>1 DEF PortDone
    <3> QED BY <3>1, <3>2
  <2> QED BY <1>2, <1>3, <1>10, <2>1, <2>2 DEF Progress
<1>17. FilesMatch'
  <2>1. ASSUME ~events.ahead, NEW s \in ServiceNames, NEW p \in AnyPort, <<s, p>> \in left
        PROVE  p = saved'.ports[s]
    <3>1. CASE s = t
      BY <1>7, <1>15, <2>1, <3>1
    <3>2. CASE s # t
      BY <1>1, <1>3, <1>7, <1>14, <2>1, <3>2 DEF FilesMatch
    <3> QED BY <3>1, <3>2
  <2>2. handling'.at # "none"
    BY <1>1, <1>8
  <2> QED BY <1>2, <1>8, <1>9, <1>10, <2>1, <2>2 DEF FilesMatch
<1>18. Settling' /\ Hurt'
  <2>1. handling'.at # "none" /\ Hurt
    BY <1>1, <1>8 DEF ServicesInv
  <2> QED BY <1>2, <1>6, <1>9, <1>10, <2>1 DEF Settling, Hurt
<1> QED BY <1>9, <1>11, <1>12, <1>13, <1>16, <1>17, <1>18 DEF ServicesInv

LEMMA ServicesReadyFile == ServicesInv /\ Manager!ReadyFile => ServicesInv'
<1> SUFFICES ASSUME ServicesInv, Manager!ReadyFile PROVE ServicesInv'
  OBVIOUS
<1> DEFINE c == Head(handling.todo)
<1>0. PICK what \in {"was_ready", "save_ready", "save_lost"} : Manager!Does(what)
  BY DEF Manager!ReadyFile, Manager!LoadReady
<1>1. PICK t \in ServiceNames :
         /\ handling.at \in {"any", "stop"} /\ handling.at # "none" /\ handling.todo # <<>>
         /\ c = <<what, t>> /\ ~AtStart
         /\ what = "save_ready" <=> Starts(t)
  BY <1>0, InStep
<1>2. UNCHANGED <<world, juju, started>>
  BY DEF Manager!ReadyFile
<1>3. /\ ServiceTypeOK /\ Password /\ ReadyKnown /\ FilesMatch /\ Hurt
      /\ \A s \in ServiceNames : IF Starts(s) THEN Started(s) ELSE Ended(s)
      /\ ~events.stopped
  BY <1>1 DEF ServicesInv, Progress
<1> HIDE DEF c
<1>4. /\ saved \in SavedStates /\ events \in EventStates /\ started' \in [ServiceNames -> 0..2]
      /\ handling \in HookStates(handling.at, handling.world.ready)
      /\ juju \in [open : SUBSET (ServiceNames \X AnyPort), told : SUBSET ServiceNames]
      /\ handling.again \in {"none", "any", "stop"}
  BY <1>2, <1>3 DEF ServiceTypeOK, HookStates
<1>5. CASE saved.ready = Torn
  <2>1. /\ handling' = [Manager!NoHook EXCEPT !.again = handling.again] /\ saved' = saved
        /\ events' = [events EXCEPT !.ahead = Manager!Ahead]
    BY <1>5 DEF Manager!ReadyFile, Manager!Fails
  <2>2. /\ events' \in EventStates /\ events'.current = events.current
        /\ events'.passwords = events.passwords
        /\ events'.ahead <=> Manager!Ahead
    <3>1. Manager!Ahead \in BOOLEAN
      <4>1. events.ahead \in BOOLEAN
        BY <1>4 DEF EventStates
      <4> QED BY <4>1 DEF Manager!Ahead
    <3> HIDE DEF Manager!Ahead
    <3> QED BY <1>4, <2>1, <3>1 DEF EventStates
  <2>3. ~events.current
    BY <1>3, <1>5 DEF Hurt
  <2>4. ~events'.ahead => \A s \in ServiceNames, p \in AnyPort : <<s, p>> \in juju'.open => p = saved.ports[s]
    BY <1>2, <2>2 DEF Manager!Ahead
  <2>5. /\ saved'.stored \in {0, Torn} => events'.passwords = {}
        /\ events'.passwords \subseteq {saved'.stored}
    BY <1>3, <2>1, <2>2 DEF Password
  <2> QED BY <1>1, <1>2, <1>4, <1>5, <2>1, <2>2, <2>3, <2>4, <2>5, EndsHook
<1>6. CASE saved.ready # Torn
  <2>1. /\ handling' = [handling EXCEPT !.todo = Tail(@)]
        /\ saved' = [saved EXCEPT !.ready = CASE what = "save_ready" -> @ \cup {t}
                                              [] what = "save_lost" -> @ \ {t}
                                              [] OTHER -> @]
        /\ events' = [events EXCEPT !.unsaved = IF what = "save_ready" THEN @ \ {t} ELSE @]
    <3>1. Manager!Now[2] = t /\ \A w : Manager!Does(w) <=> w = what
      BY <1>0, <1>1 DEF Manager!Now, Manager!Does, c
    <3> QED BY <1>6, <3>1 DEF Manager!ReadyFile, Manager!Done
  <2>2. saved.ready \in SUBSET ServiceNames /\ Torn \notin SUBSET ServiceNames
    BY <1>4, <1>6, ManagerOperators DEF SavedStates
  <2>3. /\ saved'.ready = CASE what = "save_ready" -> saved.ready \cup {t}
                            [] what = "save_lost" -> saved.ready \ {t}
                            [] OTHER -> saved.ready
        /\ saved'.ports = saved.ports /\ saved'.rendered = saved.rendered
        /\ saved'.stored = saved.stored
    BY <1>4, <2>1 DEF SavedStates
  <2>4. saved'.ready \in SUBSET ServiceNames
    BY <2>2, <2>3
  <2>5. /\ saved' \in SavedStates /\ saved'.ready # Torn
    <3>1. saved' = [saved EXCEPT !.ready = saved'.ready]
      BY <1>4, <2>1, <2>3 DEF SavedStates
    <3> QED BY <1>4, <2>2, <2>4, <3>1 DEF SavedStates
  <2>6. /\ events' \in EventStates
        /\ events'.ahead = events.ahead /\ events'.current = events.current
        /\ events'.stopped = events.stopped /\ events'.sent = events.sent
        /\ events'.passwords = events.passwords
        /\ events'.unsaved = IF what = "save_ready" THEN events.unsaved \ {t} ELSE events.unsaved
    BY <1>4, <2>1 DEF EventStates
  <2>7. Password'
    BY <1>1, <1>3, <2>3, <2>6 DEF Password
  <2>8. /\ handling'.at = handling.at /\ handling'.world = handling.world
        /\ handling'.todo = Tail(handling.todo)
    BY <1>4, <2>1 DEF HookStates
  <2>9. /\ \A w, s : Pending(w, s) <=> c = <<w, s>> \/ Pending(w, s)'
        /\ \A s \in ServiceNames : SavedAfter(s) => SavedAfter(s)' \/ c = <<"save_ready", s>>
        /\ \A s \in ServiceNames : c = <<"save_lost", s>> => ~Pending("data_lost", s)'
        /\ \A s : Starts(s)' <=> Starts(s)
    BY <1>1, <2>8, AfterStep DEF c
  <2>10. ASSUME saved'.ready # Torn, NEW s \in ServiceNames \ events'.unsaved,
                events'.sent[s] = "ready", s \notin saved'.ready
         PROVE  SavedAfter(s)'
    <3>1. CASE s = t /\ what = "save_ready"
      BY <2>3, <2>10, <3>1
    <3>2. CASE s = t /\ what = "save_lost"
      <4>1. ~Pending("data_lost", t)
        BY <1>1, <2>9, <3>2
      <4>2. Ended(t)
        BY <1>1, <1>3, <3>2
      <4>3. handling.at = "any"
        <5>1. "save_lost" \notin OfStop \cup {"stored"}
          BY DEF OfStop
        <5> QED BY <1>0, <1>1, <3>2, <5>1, OnlyStops
      <4>4. events.sent[t] # "ready"
        BY <1>6, <2>6, <2>10, <3>2, <4>1, <4>2, <4>3 DEF Ended
      <4> QED BY <2>6, <2>10, <3>2, <4>4
    <3>3. CASE s # t \/ what = "was_ready"
      <4>1. s \notin saved.ready /\ s \notin events.unsaved /\ events.sent[s] = "ready"
        BY <2>3, <2>6, <2>10, <3>3
      <4>2. SavedAfter(s)
        BY <1>3, <1>6, <4>1 DEF ReadyKnown
      <4> QED BY <1>1, <2>9, <3>3, <4>2
    <3> QED BY <3>1, <3>2, <3>3
  <2>11. ASSUME NEW s \in ServiceNames PROVE IF Starts(s)' THEN Started(s)' ELSE Ended(s)'
    <3>1. \A w \in {"data_ready", "restart", "save_ready", "stop", "data_lost", "save_lost"} :
             Head(handling.todo) # <<w, s>> \/ (w \in {"save_ready", "save_lost"} /\ saved.ready # Torn)
      BY <1>1, <1>6 DEF c
    <3>2. ~Starts(s) /\ s \in events.unsaved => s \in events'.unsaved
      BY <1>1, <2>6
    <3> QED BY <1>1, <1>2, <1>6, <2>3, <2>5, <2>6, <2>8, <3>1, <3>2, OthersKeep
  <2>12. Head(handling.todo)[1] # "ports"
    BY <1>1 DEF c
  <2> QED
    BY <1>1, <1>2, <1>4, <2>1, <2>3, <2>5, <2>6, <2>7, <2>10, <2>11, <2>12, StepTogether
<1> QED BY <1>5, <1>6

LEMMA NoHookAgain == Manager!NoHook = [Manager!NoHook EXCEPT !.again = "none"]
<1>1. ASSUME NEW A, NEW B, NEW C, NEW D, NEW E, NEW r \in [at : A, again : B, world : C, todo : D, open : E],
             r.again = "none"
      PROVE  r = [r EXCEPT !.again = "none"]
  BY <1>1
<1>2. /\ Manager!NoHook \in [at : {"none"}, again : {"none"},
                             world : {[ready |-> {}, version |-> 1, port |-> 0]},
                             todo : {<<>>}, open : {{}}]
      /\ Manager!NoHook.again = "none"
  BY DEF Manager!NoHook, Manager!NoPort
<1> QED BY <1>1, <1>2

LEMMA ServicesProvide == ServicesInv /\ Manager!provide_data => ServicesInv'
<1> SUFFICES ASSUME ServicesInv, Manager!provide_data PROVE ServicesInv'
  OBVIOUS
<1>1. /\ handling.at # "none" /\ handling.todo = <<>>
      /\ juju' = [open |-> handling.open,
                  told |-> IF handling.at = "stop" THEN juju.told ELSE handling.world.ready]
      /\ handling' = [Manager!NoHook EXCEPT !.again = "none"]
      /\ events' = [events EXCEPT !.current = (world = handling.world), !.stopped = (handling.at = "stop")]
      /\ UNCHANGED <<world, saved, started>>
  <2>1. Manager!NoHook = [Manager!NoHook EXCEPT !.again = "none"]
    BY NoHookAgain
  <2> QED BY <2>1 DEF Manager!provide_data
<1>2. /\ ServiceTypeOK /\ Password /\ ReadyKnown /\ FilesMatch
      /\ \A s \in ServiceNames : IF Starts(s) THEN Started(s) ELSE Ended(s)
      /\ \A s \in ServiceNames : PortDone(s)
      /\ ~events.stopped
  BY <1>1 DEF ServicesInv, Progress
<1>3. /\ saved \in SavedStates /\ events \in EventStates /\ started \in [ServiceNames -> 0..2]
      /\ handling \in HookStates(handling.at, handling.world.ready)
      /\ juju \in [open : SUBSET (ServiceNames \X AnyPort), told : SUBSET ServiceNames]
      /\ world \in [ready : SUBSET ServiceNames, version : {1, 2}, port : Ports]
  BY <1>2 DEF ServiceTypeOK
<1>4. /\ handling.at \in {"any", "stop"} /\ handling.open \in SUBSET (ServiceNames \X AnyPort)
      /\ handling.world \in HookWorld
  BY <1>1, <1>3 DEF HookStates
<1>5. /\ juju' \in [open : SUBSET (ServiceNames \X AnyPort), told : SUBSET ServiceNames]
      /\ juju'.open = handling.open
      /\ handling.at = "any" => juju'.told = handling.world.ready
  BY <1>1, <1>3, <1>4 DEF HookWorld
<1>6. /\ events' \in EventStates
      /\ events'.current <=> world = handling.world
      /\ events'.stopped <=> handling.at = "stop"
      /\ events'.ahead = events.ahead /\ events'.sent = events.sent
      /\ events'.unsaved = events.unsaved /\ events'.passwords = events.passwords
  BY <1>1, <1>3 DEF EventStates
<1>7. \A what, s : ~Pending(what, s)
  BY <1>1, Small DEF Pending
<1>8. ~AtStart /\ \A s \in ServiceNames : ~SavedAfter(s)
  <2>1. \A i \in 1..Len(<<>>) : FALSE
    OBVIOUS
  <2> QED BY <1>1, <2>1 DEF AtStart, SavedAfter
<1>9. \A s \in ServiceNames, p \in AnyPort : ~events'.ahead /\ <<s, p>> \in juju'.open => p = saved.ports[s]
  BY <1>1, <1>2, <1>5, <1>6 DEF FilesMatch
<1>10. ASSUME saved'.ready # Torn, NEW s \in ServiceNames \ events'.unsaved,
              events'.sent[s] = "ready", s \notin saved'.ready
       PROVE  FALSE
  BY <1>1, <1>2, <1>6, <1>8, <1>10 DEF ReadyKnown
<1>11. /\ saved'.stored \in {0, Torn} => events'.passwords = {}
       /\ events'.passwords \subseteq {saved'.stored}
  BY <1>1, <1>2, <1>6 DEF Password
<1>12. ASSUME events'.current PROVE Good' /\ Hurt'
  <2>1. world = handling.world /\ ServiceNames' = ServiceNames
    BY <1>6, <1>12 DEF ServiceNames
  <2>2. ASSUME NEW s \in ServiceNames, Starts(s)
        PROVE  /\ started[s] = world.version /\ events.sent[s] = "ready" /\ saved.ready # Torn
    <3>1. Started(s)
      BY <1>2, <2>2
    <3>2. ~LastOf({<<"data_ready", s>>}, <<"restart", s>>, handling.todo)
      <4>1. \A i \in 1..Len(<<>>) : FALSE
        OBVIOUS
      <4> QED BY <1>1, <4>1 DEF LastOf
    <3> QED BY <1>7, <2>1, <3>1, <3>2 DEF Started
  <2>3. ASSUME NEW s \in ServiceNames, ~Starts(s)
        PROVE  /\ started[s] = 0
               /\ handling.at = "any" => /\ saved.ready # Torn
                                         /\ s \notin events.unsaved => events.sent[s] # "ready"
    BY <1>2, <1>7, <2>3 DEF Ended
  <2>4. \A s \in ServiceNames : Starts(s) <=> s \in world.ready /\ ~events'.stopped
    BY <1>4, <1>6, <2>1 DEF Starts
  <2>5. \A s \in ServiceNames :
           started[s] = IF s \in world.ready /\ ~events'.stopped THEN world.version ELSE 0
    BY <2>2, <2>3, <2>4
  <2>6. ~events'.ahead =>
           juju'.open = IF events'.stopped THEN {} ELSE world.ready \X {world.port}
    <3>1. ASSUME ~events'.ahead
          PROVE  \A s \in ServiceNames, p \in AnyPort :
                    <<s, p>> \in juju'.open <=> Starts(s) /\ p = world.port
      BY <1>2, <1>5, <1>6, <1>7, <2>1, <3>1 DEF PortDone
    <3>2. world.port \in AnyPort /\ world.ready \in SUBSET ServiceNames
      BY <1>3 DEF AnyPort
    <3>3. juju'.open \in SUBSET (ServiceNames \X AnyPort)
      BY <1>4, <1>5
    <3>4. CASE events'.stopped
      BY <2>4, <3>1, <3>3, <3>4
    <3>5. CASE ~events'.stopped
      BY <2>4, <3>1, <3>2, <3>3, <3>5
    <3> QED BY <3>4, <3>5
  <2>7. ASSUME ~events'.stopped
        PROVE  /\ juju'.told = {s \in ServiceNames : started[s] # 0}
               /\ \A s \in ServiceNames \ events'.unsaved : events'.sent[s] = "ready" <=> s \in world.ready
               /\ saved.ready = Torn => ServiceNames = {}
    <3>1. handling.at = "any"
      BY <1>4, <1>6, <2>7
    <3>2. juju'.told = world.ready /\ world.ready \in SUBSET ServiceNames /\ world.version # 0
      BY <1>3, <1>5, <2>1, <3>1
    <3>3. juju'.told = {s \in ServiceNames : started[s] # 0}
      BY <2>5, <2>7, <3>2
    <3>4. \A s \in ServiceNames \ events'.unsaved : events'.sent[s] = "ready" <=> s \in world.ready
      BY <1>6, <2>2, <2>3, <2>4, <2>7, <3>1
    <3>5. saved.ready = Torn => ServiceNames = {}
      BY <2>2, <2>3, <3>1
    <3> QED BY <3>3, <3>4, <3>5
  <2>8. Good'
    BY <1>1, <2>1, <2>5, <2>6, <2>7 DEF Good
  <2>9. Hurt'
    BY <1>1, <2>1, <2>7 DEF Hurt
  <2> QED BY <2>8, <2>9
<1> QED
  BY <1>1, <1>3, <1>5, <1>6, <1>9, <1>10, <1>11, <1>12, EndsHook

LEMMA ServicesExit == ServicesInv /\ Manager!SystemExit => ServicesInv'
<1> SUFFICES ASSUME ServicesInv, Manager!SystemExit PROVE ServicesInv'
  OBVIOUS
<1>1. /\ handling.at # "none" /\ Head(handling.todo)[1] = "data_ready" /\ ~AtStart
      /\ handling.todo # <<>>
  BY InStep DEF Manager!SystemExit
<1>2. /\ juju' = [juju EXCEPT !.open = handling.open]
      /\ handling' = [Manager!NoHook EXCEPT !.again = "none"]
      /\ events' = [events EXCEPT !.current = FALSE]
      /\ UNCHANGED <<world, saved, started>>
  <2>1. Manager!NoHook = [Manager!NoHook EXCEPT !.again = "none"]
    BY NoHookAgain
  <2> QED BY <2>1 DEF Manager!SystemExit
<1>3. /\ ServiceTypeOK /\ Password /\ ReadyKnown /\ FilesMatch
  BY DEF ServicesInv
<1>4. /\ saved \in SavedStates /\ events \in EventStates /\ started \in [ServiceNames -> 0..2]
      /\ handling \in HookStates(handling.at, handling.world.ready)
      /\ juju \in [open : SUBSET (ServiceNames \X AnyPort), told : SUBSET ServiceNames]
      /\ handling.open \in SUBSET (ServiceNames \X AnyPort)
  BY <1>3 DEF ServiceTypeOK, HookStates
<1>5. /\ juju' \in [open : SUBSET (ServiceNames \X AnyPort), told : SUBSET ServiceNames]
      /\ juju'.open = handling.open
  BY <1>2, <1>4
<1>6. /\ events' \in EventStates
      /\ ~events'.current
      /\ events'.ahead = events.ahead /\ events'.sent = events.sent
      /\ events'.unsaved = events.unsaved /\ events'.passwords = events.passwords
  BY <1>2, <1>4 DEF EventStates
<1>7. ~events'.ahead => \A s \in ServiceNames, p \in AnyPort : <<s, p>> \in juju'.open => p = saved.ports[s]
  BY <1>1, <1>3, <1>5, <1>6 DEF FilesMatch
<1>8. ASSUME NEW s \in ServiceNames PROVE ~SavedAfter(s)
  <2>1. handling.todo \in Seq(ServiceSteps(handling.at, handling.world.ready))
    BY <1>4 DEF HookStates
  <2>2. handling.todo[1] = Head(handling.todo) /\ 1 \in 1..Len(handling.todo)
    <3>1. \A X : \A q \in Seq(X) : q # <<>> => Head(q) = q[1] /\ Len(q) \in Nat /\ Len(q) # 0
      BY AfterHead, EmptySeq, LenProperties
    <3>2. handling.todo[1] = Head(handling.todo) /\ Len(handling.todo) \in Nat /\ Len(handling.todo) # 0
      BY <1>1, <2>1, <3>1
    <3> QED BY <3>2
  <2>3. \A i \in 1..Len(handling.todo) : 1 \in 1..i
    OBVIOUS
  <2> QED BY <1>1, <2>2, <2>3 DEF SavedAfter
<1>9. ASSUME saved'.ready # Torn, NEW s \in ServiceNames \ events'.unsaved,
             events'.sent[s] = "ready", s \notin saved'.ready
      PROVE  FALSE
  BY <1>2, <1>3, <1>6, <1>8, <1>9 DEF ReadyKnown
<1>10. /\ saved'.stored \in {0, Torn} => events'.passwords = {}
       /\ events'.passwords \subseteq {saved'.stored}
  BY <1>2, <1>3, <1>6 DEF Password
<1> QED
  BY <1>1, <1>2, <1>4, <1>5, <1>6, <1>7, <1>9, <1>10, EndsHook

LEMMA ServicesKill == ServicesInv /\ Manager!Kill => ServicesInv'
<1> SUFFICES ASSUME ServicesInv, Manager!Kill PROVE ServicesInv'
  OBVIOUS
<1>1. /\ handling.at # "none"
      /\ handling' = [Manager!NoHook EXCEPT !.again = handling.again]
      /\ events' = [events EXCEPT !.current = FALSE, !.unsaved = @ \cup Manager!Unfinished,
                                  !.ahead = Manager!Ahead]
      /\ UNCHANGED <<world, juju, started>>
      /\ \/ saved' = saved
         \/ saved.stored = 0 /\ saved' = [saved EXCEPT !.stored = Torn]
         \/ saved' = [saved EXCEPT !.ready = Torn]
  BY DEF Manager!Kill, Manager!Fails
<1>2. /\ ServiceTypeOK /\ Password /\ ReadyKnown
  BY DEF ServicesInv
<1>3. /\ saved \in SavedStates /\ events \in EventStates /\ started \in [ServiceNames -> 0..2]
      /\ handling \in HookStates(handling.at, handling.world.ready)
      /\ juju \in [open : SUBSET (ServiceNames \X AnyPort), told : SUBSET ServiceNames]
      /\ handling.again \in {"none", "any", "stop"}
  BY <1>2 DEF ServiceTypeOK, HookStates
<1>4. saved' \in SavedStates /\ saved'.ports = saved.ports
  BY <1>1, <1>3 DEF SavedStates
<1>5. /\ events' \in EventStates
      /\ ~events'.current /\ (events'.ahead <=> Manager!Ahead)
      /\ events'.sent = events.sent
      /\ events'.unsaved = events.unsaved \cup Manager!Unfinished
      /\ events'.passwords = events.passwords
  <2>1. Manager!Ahead \in BOOLEAN /\ Manager!Unfinished \in SUBSET ServiceNames
    <3>1. events.ahead \in BOOLEAN
      BY <1>3 DEF EventStates
    <3> QED BY <3>1 DEF Manager!Ahead, Manager!Unfinished, ServiceNames
  <2> HIDE DEF Manager!Ahead, Manager!Unfinished
  <2> QED BY <1>1, <1>3, <2>1 DEF EventStates
<1>6. ~events'.ahead => \A s \in ServiceNames, p \in AnyPort : <<s, p>> \in juju'.open => p = saved.ports[s]
  BY <1>1, <1>5 DEF Manager!Ahead
<1>7. ASSUME saved'.ready # Torn, NEW s \in ServiceNames \ events'.unsaved,
             events'.sent[s] = "ready", s \notin saved'.ready
      PROVE  FALSE
  <2>1. saved'.ready = saved.ready
    BY <1>1, <1>3, <1>7 DEF SavedStates
  <2>2. SavedAfter(s)
    BY <1>2, <1>5, <1>7, <2>1 DEF ReadyKnown
  <2>3. Occurs(<<"save_ready", s>>, handling.todo)
    BY <2>2 DEF SavedAfter, Occurs
  <2>4. s \in Manager!Unfinished
    BY <1>5, <1>7, <2>1, <2>3, ManagerOperators DEF Manager!Unfinished, Manager!Step, ServiceNames
  <2> QED BY <1>5, <1>7, <2>4
<1>8. /\ saved'.stored \in {0, Torn} => events'.passwords = {}
      /\ events'.passwords \subseteq {saved'.stored}
  <2>1. \/ saved'.stored = saved.stored
        \/ saved.stored = 0
    BY <1>1, <1>3 DEF SavedStates
  <2> QED BY <1>2, <1>5, <2>1 DEF Password
<1> QED
  BY <1>1, <1>3, <1>4, <1>5, <1>6, <1>7, <1>8, EndsHook

LEMMA ServicesStep == ServicesInv /\ [Manager!Next]_(Manager!services_vars) => ServicesInv'
<1> SUFFICES ASSUME ServicesInv, [Manager!Next]_(Manager!services_vars) PROVE ServicesInv'
  OBVIOUS
<1>1. CASE UNCHANGED Manager!services_vars
  <2>1. UNCHANGED <<world, saved, juju, started, handling, events>>
    BY <1>1 DEF Manager!services_vars
  <2>2. /\ ServiceTypeOK /\ StoredFirst /\ LostFirst /\ Password /\ ReadyKnown
        /\ Progress /\ FilesMatch /\ Settling /\ Hurt
    BY DEF ServicesInv
  <2>3. /\ ServiceTypeOK' /\ StoredFirst' /\ LostFirst' /\ Password'
    BY <2>1, <2>2 DEF ServiceTypeOK, StoredFirst, LostFirst, Password, AtStart, ServiceNames, AnyPort,
       SavedStates, EventStates, HookStates, HookWorld, ServiceSteps
  <2>4. ReadyKnown' /\ Progress'
    <3>1. handling' = handling /\ saved' = saved /\ started' = started /\ events' = events
      BY <2>1
    <3>2. /\ ServiceNames' = ServiceNames /\ AnyPort' = AnyPort
          /\ Saves(ServiceSteps(handling.at, handling.world.ready))'
               = Saves(ServiceSteps(handling.at, handling.world.ready))
      BY <3>1 DEF ServiceNames, AnyPort, ServiceSteps, Saves
    <3>3. handling'.todo \in Saves(ServiceSteps(handling.at, handling.world.ready))'
      BY <2>2, <3>1, <3>2, Zenon DEF ReadyKnown
    <3>4. /\ AtStart' <=> AtStart
          /\ \A s \in ServiceNames : SavedAfter(s)' <=> SavedAfter(s)
      BY <3>1 DEF AtStart, SavedAfter
    <3>5. ReadyKnown'
      BY <2>2, <3>1, <3>2, <3>3, <3>4 DEF ReadyKnown
    <3>6. Progress'
      BY <2>2, <3>1, <3>2 DEF Progress, Starts, Started, Ended, PortDone, Pending
    <3> QED BY <3>5, <3>6
  <2>5. FilesMatch' /\ Settling' /\ Hurt'
    BY <2>1, <2>2 DEF FilesMatch, Settling, Hurt, Good, AtStart, ServiceNames, AnyPort
  <2> QED BY <2>3, <2>4, <2>5 DEF ServicesInv
<1>2. CASE Manager!Next
  <2>1. CASE Manager!Change \/ \E n \in {"any", "stop"} : Manager!manage(n)
    BY <2>1, ServicesChange, ServicesManage
  <2>2. CASE Manager!StoredContext \/ Manager!data_ready \/ Manager!data_lost
    BY <2>2, ServicesStored, ServicesDataReady, ServicesDataLost
  <2>3. CASE Manager!service_restart \/ Manager!service_stop \/ Manager!PortManager
    BY <2>3, ServicesRestart, ServicesStop, ServicesPorts
  <2>4. CASE Manager!ReadyFile \/ Manager!provide_data \/ Manager!SystemExit \/ Manager!Kill
    BY <2>4, ServicesReadyFile, ServicesProvide, ServicesExit, ServicesKill
  <2> QED BY <1>2, <2>1, <2>2, <2>3, <2>4 DEF Manager!Next
<1> QED BY <1>1, <1>2

\* A step of the whole is one of the component whose part it is.
LEMMA ManagedParts ==
  ASSUME [AllNext]_all_vars
  PROVE  /\ part' = part
         /\ part = "services" => [Manager!Next]_(Manager!services_vars)
         /\ part = "pools" => [Pools!Next]_(Pools!pools_vars)
<1> USE DEF Only
<1>1. CASE UNCHANGED all_vars
  BY <1>1 DEF all_vars
<1>2. CASE CleanupStep \/ OptionsStep \/ FilesStep \/ PolicyStep
  BY <1>2 DEF CleanupStep, OptionsStep, FilesStep, PolicyStep
<1>3. CASE KvStep
  BY <1>3 DEF KvStep
<1>4. CASE EnvStep \/ AptStep \/ PoolsStep \/ ManagerStep \/ ReleaseStep
  BY <1>4 DEF EnvStep, AptStep, PoolsStep, ManagerStep, ReleaseStep
<1> QED
  BY <1>1, <1>2, <1>3, <1>4 DEF AllNext

LEMMA ServicesSafe == ServicesInv => Manager!ServicesRight
<1> SUFFICES ASSUME ServicesInv PROVE Manager!ServicesRight
  OBVIOUS
<1>1. /\ ServiceTypeOK /\ Password /\ Settling
  BY DEF ServicesInv
<1>2. Manager!Settled => Good
  BY <1>1 DEF Manager!Settled, Settling
<1>3. world.ready \in SUBSET ServiceNames /\ Manager!Names = ServiceNames
  BY <1>1 DEF ServiceTypeOK, ServiceNames
<1>4. Manager!RunsWhenReady /\ Manager!LossTold /\ Manager!PortsMatch
  BY <1>2, <1>3 DEF Manager!RunsWhenReady, Manager!LossTold, Manager!PortsMatch, Good, Manager!Settled
<1>5. Manager!OnePassword
  <2>1. events.passwords \subseteq {saved.stored}
    BY <1>1 DEF Password
  <2>2. IsFiniteSet({saved.stored}) /\ Cardinality({saved.stored}) = 1
    BY FS_Singleton
  <2>3. Cardinality(events.passwords) <= 1
    BY <2>1, <2>2, FS_Subset
  <2>4. Manager!Cardinality(events.passwords) = Cardinality(events.passwords)
    BY DEF Manager!Cardinality, Cardinality
  <2> QED BY <2>3, <2>4 DEF Manager!OnePassword
<1> QED BY <1>4, <1>5 DEF Manager!ServicesRight

\* Services are the ones whose data there are, losses are told, ports are open where
\* a service runs, and there is one password, in every behaviour of the whole.
THEOREM ServicesAreRight == AllSpec => []ServicesRight
<1> DEFINE I == part = "services" => ServicesInv
<1>1. AllInit => I
  BY ServicesStart DEF AllInit
<1>2. I /\ [AllNext]_all_vars => I'
  BY ManagedParts, ServicesStep
<1>3. I => ServicesRight
  BY ServicesSafe DEF ServicesRight
<1> HIDE DEF I
<1> QED BY <1>1, <1>2, <1>3, PTL DEF AllSpec

-----------------------------------------------------------------------------
\* CephPools: what each operation has still to do determines what it has done.  First the
\* arithmetic: Nearest is a recursion over the halves of its argument.
LEMMA NearestIs ==
  ASSUME NEW n, n \in Nat \ {0}
  PROVE  /\ Pools!Nearest(n) \in Nat \ {0}
         /\ Pools!Nearest(n) <= n /\ n < 2 * Pools!Nearest(n)
<1> DEFINE Halves(m, f) ==
             f = [k \in 1..m |-> IF k = 1 THEN 1 ELSE 2 * f[k \div 2]]
           Near(f, k) == f[k] \in Nat \ {0} /\ f[k] <= k /\ k < 2 * f[k]
           P == {m \in 0..n : \E f : Halves(m, f)}
<1>1. 0 \in P
  <2>1. Halves(0, [k \in 1..0 |-> 1])
    OBVIOUS
  <2> HIDE DEF Halves
  <2> QED BY <2>1
<1>2. ASSUME NEW m \in 1..n, m - 1 \in P PROVE m \in P
  <2>1. PICK f : Halves(m - 1, f)
    BY <1>2
  <2> DEFINE last == IF m = 1 THEN 1 ELSE 2 * f[m \div 2]
             g == [k \in 1..m |-> IF k = m THEN last ELSE f[k]]
  <2>2. \A k \in 1..m : k # 1 => k \div 2 \in 1..k - 1
    OBVIOUS
  <2>3. ASSUME NEW k \in 1..m
        PROVE  g[k] = IF k = 1 THEN 1 ELSE 2 * g[k \div 2]
    <3>1. CASE k = m
      <4>1. g[k] = last /\ (m # 1 => g[m \div 2] = f[m \div 2])
        BY <2>2, <3>1
      <4> HIDE DEF g
      <4> QED BY <3>1, <4>1
    <3>2. CASE k # m
      <4>1. k \in 1..m - 1 /\ g[k] = f[k]
        BY <3>2
      <4>2. f[k] = IF k = 1 THEN 1 ELSE 2 * f[k \div 2]
        BY <2>1, <4>1
      <4>3. k # 1 => g[k \div 2] = f[k \div 2]
        BY <2>2, <4>1
      <4> HIDE DEF g
      <4> QED BY <4>1, <4>2, <4>3
    <3> QED BY <3>1, <3>2
  <2>4. g = [k \in 1..m |-> IF k = 1 THEN 1 ELSE 2 * g[k \div 2]]
    <3>1. g = [k \in 1..m |-> g[k]]
      OBVIOUS
    <3> HIDE DEF g
    <3> QED BY <2>3, <3>1
  <2>5. Halves(m, g)
    BY <2>4
  <2> HIDE DEF Halves, g
  <2> QED BY <2>5
<1> HIDE DEF P
<1>3. n \in P
  BY <1>1, <1>2, Induction
<1> DEFINE near == CHOOSE f : Halves(n, f)
<1>4. Halves(n, near)
  BY <1>3 DEF P
<1>5. Pools!Nearest(n) = near[n]
  BY DEF Pools!Nearest
<1> HIDE DEF near
<1> DEFINE Q == {m \in 0..n : \A k \in 1..m : Near(near, k)}
<1>6. 0 \in Q
  OBVIOUS
<1>7. ASSUME NEW m \in 1..n, m - 1 \in Q PROVE m \in Q
  <2>1. \A k \in 1..m : k = m \/ k \in 1..m - 1
    OBVIOUS
  <2>2. near[m] = IF m = 1 THEN 1 ELSE 2 * near[m \div 2]
    BY <1>4
  <2>3. Near(near, m)
    <3>1. CASE m = 1
      BY <2>2, <3>1
    <3>2. CASE m # 1
      <4>1. m \div 2 \in 1..m - 1 /\ 2 * (m \div 2) <= m /\ m < 2 * (m \div 2) + 2
        BY <3>2
      <4>2. Near(near, m \div 2)
        BY <1>7, <4>1
      <4> DEFINE h == m \div 2
      <4>3. h \in Nat /\ near[h] \in Nat \ {0} /\ near[h] <= h /\ h < 2 * near[h]
        BY <4>1, <4>2
      <4>4. near[m] = 2 * near[h] /\ 2 * h <= m /\ m < 2 * h + 2
        BY <2>2, <3>2, <4>1
      <4> HIDE DEF h
      <4> QED BY <4>3, <4>4
    <3> QED BY <3>1, <3>2
  <2>4. \A k \in 1..m - 1 : Near(near, k)
    BY <1>7
  <2> HIDE DEF Near
  <2> QED BY <2>1, <2>3, <2>4
<1> HIDE DEF Q
<1>8. n \in Q
  BY <1>6, <1>7, Induction
<1>9. Near(near, n)
  BY <1>8 DEF Q
<1> QED BY <1>5, <1>9

\* The numbers of placement groups.
Requests == [kind : {"replicated", "erasure"}, size : Sizes, percent : Percents,
             pg_num : Requested, quota : Optional, compression : Optional,
             overwrites : Optional]
Clusters == [osds : OsdCounts, expected : Expected]
LEMMA Quotient ==
  ASSUME NEW a, a \in Nat, NEW b, b \in Nat, NEW c, c \in Nat \ {0}
  PROVE  (100 * a * b) \div (100 * c) \in Int
<1>1. 100 * a * b \in Nat /\ 100 * c \in Nat \ {0}
  OBVIOUS
<1> QED BY <1>1

LEMMA PlacementGroups ==
  ASSUME cluster \in Clusters, NEW size \in Sizes, NEW percent \in Nat
  PROVE  LET n == Pools!Exact(size, percent)
             pgs == Pools!get_pgs(size, percent)
         IN  /\ pgs \in Nat \ {0}
             /\ ~Pools!Unknown => 4 * pgs >= 3 * n /\ 2 * pgs < 3 * n
<1> DEFINE n == Pools!Exact(size, percent)
           pgs == Pools!get_pgs(size, percent)
           near == Pools!Nearest(n)
           osds == Pools!Larger(cluster.expected, cluster.osds)
<1>1. osds \in Nat /\ size \in Nat \ {0} /\ percent \in Nat
  BY PoolsAssumption DEF Clusters, Pools!Larger
<1>2. n = Pools!Larger(2, (100 * osds * percent) \div (100 * size))
  BY DEF Pools!Exact, Pools!DEFAULT_MINIMUM_PGS, Pools!DEFAULT_PGS_PER_OSD_TARGET
<1> HIDE DEF osds
<1>3. (100 * osds * percent) \div (100 * size) \in Int
  BY <1>1, Quotient
<1>4. n \in Nat \ {0}
  BY <1>2, <1>3 DEF Pools!Larger
<1> HIDE DEF n
<1>5. near \in Nat \ {0} /\ near <= n /\ n < 2 * near
  BY <1>4, NearestIs
<1>6. pgs = IF Pools!Unknown THEN 200 ELSE IF 4 * (n - near) > n THEN 2 * near ELSE near
  BY DEF Pools!get_pgs, Pools!LEGACY_PG_COUNT, n
<1> HIDE DEF near, pgs
<1>7. pgs \in Nat \ {0} /\ (~Pools!Unknown => 4 * pgs >= 3 * n /\ 2 * pgs < 3 * n)
  BY <1>4, <1>5, <1>6
<1> QED BY <1>7 DEF n, pgs

LEMMA GroupsFit ==
  ASSUME cluster \in Clusters, request \in Requests
  PROVE  /\ Pools!PgNum \in Nat \ {0}
         /\ ~Pools!Unknown =>
              IF request.kind = "replicated" /\ request.pg_num > 0
              THEN /\ Pools!PgNum <= request.pg_num
                   /\ Pools!PgNum < request.pg_num => Pools!Fits(Pools!PgNum, 100)
              ELSE Pools!Fits(Pools!PgNum, request.percent)
<1> DEFINE named == request.kind = "replicated" /\ request.pg_num > 0
           whole == Pools!get_pgs(request.size, 100)
           share == Pools!get_pgs(request.size, request.percent)
<1>1. /\ request.size \in Sizes /\ request.percent \in Nat /\ request.pg_num \in Nat
  BY PoolsAssumption DEF Requests
<1>2. whole \in Nat \ {0} /\ (~Pools!Unknown => Pools!Fits(whole, 100))
  BY <1>1, PlacementGroups DEF Pools!Fits
<1>3. share \in Nat \ {0} /\ (~Pools!Unknown => Pools!Fits(share, request.percent))
  BY <1>1, PlacementGroups DEF Pools!Fits
<1>4. Pools!PgNum = IF named THEN Pools!Smaller(request.pg_num, whole) ELSE share
  BY DEF Pools!PgNum
<1> HIDE DEF whole, share
<1>5. named => /\ Pools!PgNum \in Nat \ {0} /\ Pools!PgNum <= request.pg_num
               /\ Pools!PgNum < request.pg_num => Pools!PgNum = whole
  BY <1>1, <1>2, <1>4 DEF Pools!Smaller
<1> QED BY <1>2, <1>3, <1>4, <1>5

-----------------------------------------------------------------------------
\* What the commands of a pool, a tier and a move are, as far as they are left.
Settings == {"set size", "set ratio", "set overwrites", "set-quota", "set compression"}
PoolCommands == Settings \cup {"create", "application", "autoscale"}
TierCommands == {"tier add", "tier cache-mode", "tier set-overlay", "hit_set_type",
                 "tier mode none", "tier remove", "tier mode forward", "tier flush",
                 "tier remove-overlay"}
DiskCommands == {"create image", "map", "mkfs", "stop", "mount /mnt", "copy", "umount /mnt",
                 "mount", "start"}
Commands == PoolCommands \cup TierCommands \cup DiskCommands
Ahead(body) == {body, <<"map">> \o body, <<"create image">> \o body,
                <<"create image">> \o (<<"map">> \o body)}
Copying == <<"mount /mnt", "copy", "umount /mnt", "mount", "start">>
MovesBefore == Ahead(<<"mkfs">> \o (<<"stop">> \o Copying)) \cup {<<"stop">> \o Copying}
MovesStopped == Ahead(<<"mkfs">> \o Copying) \cup {Copying}
NoMoves == Ahead(<<>>)

PoolsTypeOK ==
    /\ cluster \in Clusters /\ request \in Requests
    /\ pool \in [pgs : Nat, set : SUBSET PoolCommands]
    /\ tier \in [attached : BOOLEAN, mode : {"none", "writeback", "readonly", "forward"},
                 overlay : BOOLEAN, dirty : BOOLEAN]
    /\ device \in [image : BOOLEAN, mapped : BOOLEAN, mounted : BOOLEAN, service : BOOLEAN,
                   mnt : BOOLEAN, local : SUBSET {Pools!Old, Pools!New},
                   device : SUBSET {Pools!Old, Pools!New},
                   stray : SUBSET {Pools!Old, Pools!New}]
    /\ running \in {Pools!None, "pool", "update", "tier", "remove", "storage"}
    /\ operation \in Seq(Commands)
    /\ running = Pools!None => operation = <<>>
    /\ running = "storage" => operation \in Seq(DiskCommands)

\* A pool is created by the first command, before there is a tier or a device; what was
\* asked for is set on it or is still to be.
SetOrToSet(c) == c \in pool.set \/ (running = "pool" /\ Occurs(c, operation))
PoolPart ==
    /\ pool # Pools!NoPool => pool.pgs = Pools!PgNum
    /\ running \in {"pool", "update"} => \A c : Occurs(c, operation) => c \in PoolCommands
    /\ running = "update" => ~Occurs("create", operation)
    /\ running = "pool" => IF pool = Pools!NoPool THEN operation = Pools!create
                           ELSE ~Occurs("create", operation)
    /\ pool = Pools!NoPool => /\ ~device.mapped /\ ~tier.attached
                              /\ running \in {Pools!None, "pool"}
    /\ running = "pool" /\ operation # <<>> => ~device.mapped
    /\ pool # Pools!NoPool /\ "pool" \notin history =>
          \A c \in Settings : Pools!Asked(c) => SetOrToSet(c)

\* Only a cache that takes writes, or did, has what the pool has not.
TierPart ==
    /\ ~tier.attached => tier.mode = "none" /\ ~tier.overlay
    /\ tier.mode \in {"none", "readonly"} => ~tier.dirty
    /\ running = "tier" =>
          \/ operation = <<>>
          \/ /\ operation = <<"tier add", "tier cache-mode", "tier set-overlay", "hit_set_type">>
             /\ ~tier.attached
          \/ /\ operation = <<"tier cache-mode", "tier set-overlay", "hit_set_type">>
             /\ tier.attached /\ tier.mode = "none"
          \/ operation = <<"tier set-overlay", "hit_set_type">> /\ tier.attached
          \/ operation = <<"hit_set_type">> /\ tier.attached
    /\ running = "remove" =>
          \/ operation = <<>>
          \/ operation = <<"tier mode none", "tier remove">> /\ tier.mode = "readonly"
          \/ operation = <<"tier remove">> /\ ~tier.dirty /\ tier.mode # "writeback"
          \/ /\ operation = <<"tier mode forward", "tier flush", "tier remove-overlay",
                              "tier remove">>
             /\ tier.mode = "writeback"
          \/ /\ operation = <<"tier flush", "tier remove-overlay", "tier remove">>
             /\ tier.mode = "forward"
          \/ /\ operation = <<"tier remove-overlay", "tier remove">>
             /\ tier.mode = "forward" /\ ~tier.dirty

\* The service is down from before its data are copied until they are where it looks.
Clean == history \cap {"unchecked", "reboot"} = {}
Staged ==
    \/ operation \in NoMoves
    \/ operation \in MovesBefore /\ ~device.mounted
    \/ operation \in MovesStopped /\ ~device.mounted /\ ~device.service
    \/ /\ operation = <<"copy", "umount /mnt", "mount", "start">>
       /\ ~device.mounted /\ ~device.service /\ device.mnt
    \/ /\ operation \in {<<"umount /mnt", "mount", "start">>, <<"mount", "start">>}
       /\ ~device.mounted /\ ~device.service /\ device.local \subseteq device.device
    \/ operation = <<"start">> /\ device.mounted
DiskPart ==
    /\ Pools!Old \in device.local
    /\ device.mounted => device.local \subseteq device.device
    /\ running = "storage" => Staged

PoolsInv == PoolsTypeOK /\ PoolPart /\ TierPart /\ (Clean => DiskPart)

\* What comes first in a sequence that is put together, and what is left then.
LEMMA HeadJoined ==
  ASSUME NEW X, NEW s, s \in Seq(X), s # <<>>, NEW t, t \in Seq(X)
  PROVE  /\ s \o t # <<>> /\ Head(s \o t) = Head(s)
         /\ \A c : Occurs(c, Tail(s \o t)) <=> Occurs(c, Tail(s)) \/ Occurs(c, t)
<1> DEFINE st == s \o t
           rest == Tail(s)
           after == Tail(st)
<1>1. /\ Len(s) \in Nat /\ Len(s) >= 1 /\ Len(t) \in Nat
      /\ Len(st) = Len(s) + Len(t) /\ st \in Seq(X)
      /\ \A i \in 1..Len(s) + Len(t) : st[i] = IF i <= Len(s) THEN s[i] ELSE t[i - Len(s)]
  BY EmptySeq, LenProperties, ConcatProperties
<1>2. /\ Head(s) = s[1] /\ rest \in Seq(X) /\ Len(rest) = Len(s) - 1
      /\ \A i \in 1..Len(rest) : rest[i] = s[i + 1]
  BY HeadTailProperties
<1> HIDE DEF st
<1>3. st # <<>>
  BY <1>1, EmptySeq
<1>4. /\ Head(st) = st[1] /\ after \in Seq(X) /\ Len(after) = Len(st) - 1
      /\ \A i \in 1..Len(after) : after[i] = st[i + 1]
  BY <1>1, <1>3, HeadTailProperties
<1> HIDE DEF rest, after
<1>5. st[1] = s[1]
  <2>1. 1 \in 1..Len(s) + Len(t) /\ 1 <= Len(s)
    BY <1>1
  <2> QED BY <1>1, <2>1
<1>6. /\ \A i \in 1..Len(rest) : i \in 1..Len(after) /\ after[i] = rest[i]
      /\ \A i \in 1..Len(t) : i + Len(rest) \in 1..Len(after) /\ after[i + Len(rest)] = t[i]
      /\ \A i \in 1..Len(after) :
            \/ i \in 1..Len(rest)
            \/ i - Len(rest) \in 1..Len(t) /\ after[i] = t[i - Len(rest)]
  <2>1. Len(after) = Len(rest) + Len(t) /\ Len(rest) \in Nat
    BY <1>1, <1>2, <1>4
  <2>2. ASSUME NEW i \in 1..Len(rest)
        PROVE  i \in 1..Len(after) /\ after[i] = rest[i]
    <3>1. i \in 1..Len(after) /\ i + 1 \in 1..Len(s) + Len(t) /\ i + 1 <= Len(s)
      BY <1>1, <1>2, <2>1
    <3> QED BY <1>1, <1>2, <1>4, <3>1
  <2>3. ASSUME NEW i \in Len(rest) + 1..Len(after)
        PROVE  i - Len(rest) \in 1..Len(t) /\ after[i] = t[i - Len(rest)]
    <3>1. /\ i \in 1..Len(after) /\ i + 1 \in 1..Len(s) + Len(t) /\ ~(i + 1 <= Len(s))
          /\ i - Len(rest) \in 1..Len(t) /\ i + 1 - Len(s) = i - Len(rest)
      BY <1>1, <1>2, <2>1
    <3>2. after[i] = st[i + 1]
      BY <1>4, <3>1
    <3>3. st[i + 1] = t[i + 1 - Len(s)]
      BY <1>1, <3>1
    <3> QED BY <3>1, <3>2, <3>3
  <2>4. ASSUME NEW i \in 1..Len(t)
        PROVE  i + Len(rest) \in 1..Len(after) /\ after[i + Len(rest)] = t[i]
    <3>1. /\ i + Len(rest) \in Len(rest) + 1..Len(after) /\ i + Len(rest) - Len(rest) = i
          /\ i + Len(rest) \in 1..Len(after)
      BY <1>1, <2>1
    <3> QED BY <2>3, <3>1
  <2>5. \A i \in 1..Len(after) : i \in 1..Len(rest) \/ i \in Len(rest) + 1..Len(after)
    BY <2>1
  <2> QED BY <2>2, <2>3, <2>4, <2>5
<1>7. \A c : Occurs(c, after) <=> Occurs(c, rest) \/ Occurs(c, t)
  BY <1>6 DEF Occurs
<1> QED BY <1>2, <1>3, <1>4, <1>5, <1>7 DEF st, rest, after

LEMMA CreateIs ==
  ASSUME request \in Requests, pool = Pools!NoPool
  PROVE  /\ Pools!create \in Seq(PoolCommands) /\ Pools!create # <<>>
         /\ Head(Pools!create) = "create" /\ ~Occurs("create", Tail(Pools!create))
         /\ \A c \in Settings : Pools!Asked(c) => Occurs(c, Tail(Pools!create))
<1> DEFINE X == PoolCommands
           create == <<"create">>
           size == Pools!If(request.kind = "replicated", "set size")
           always == <<"set ratio", "application", "autoscale">>
           over == Pools!If(request.kind = "erasure" /\ request.overwrites, "set overwrites")
           quota == Pools!If(request.quota, "set-quota")
           comp == Pools!If(request.compression, "set compression")
<1>1. ASSUME NEW condition, NEW c, c \in X
      PROVE  /\ Pools!If(condition, c) \in Seq(X)
             /\ \A x : Occurs(x, Pools!If(condition, c)) <=> condition /\ x = c
  <2>1. <<>> \in Seq(X) /\ <<c>> \in Seq(X)
    BY <1>1
  <2> HIDE DEF X
  <2>2. CASE condition
    <3>1. Pools!If(condition, c) = <<c>>
      BY <2>2 DEF Pools!If
    <3> QED BY <2>1, <2>2, <3>1, Small
  <2>3. CASE ~condition
    <3>1. Pools!If(condition, c) = <<>>
      BY <2>3 DEF Pools!If
    <3> QED BY <2>1, <2>3, <3>1, Small
  <2> QED BY <2>2, <2>3
<1>2. /\ "set size" \in X /\ "set ratio" \in X /\ "application" \in X /\ "autoscale" \in X
      /\ "set overwrites" \in X /\ "set-quota" \in X /\ "set compression" \in X
      /\ "create" \in X
  BY DEF PoolCommands, Settings
<1> HIDE DEF X
<1>3. always \in Seq(X) /\ \A x : Occurs(x, always) <=>
         x \in {"set ratio", "application", "autoscale"}
  <2>4. \A Y : \A x, y, z \in Y : <<x, y, z>> \in Seq(Y)
    OBVIOUS
  <2>1. always \in Seq(X)
    BY <1>2, <2>4
  <2>3. /\ Len(always) = 3 /\ always[1] = "set ratio" /\ always[2] = "application"
        /\ always[3] = "autoscale"
    OBVIOUS
  <2>2. \A i : i \in 1..3 <=> i = 1 \/ i = 2 \/ i = 3
    OBVIOUS
  <2> HIDE DEF always
  <2> QED BY <2>1, <2>2, <2>3 DEF Occurs
<1>4. /\ size \in Seq(X) /\ over \in Seq(X) /\ quota \in Seq(X) /\ comp \in Seq(X)
      /\ \A x : Occurs(x, size) <=> request.kind = "replicated" /\ x = "set size"
      /\ \A x : Occurs(x, over) <=> (request.kind = "erasure" /\ request.overwrites)
                                       /\ x = "set overwrites"
      /\ \A x : Occurs(x, quota) <=> request.quota /\ x = "set-quota"
      /\ \A x : Occurs(x, comp) <=> request.compression /\ x = "set compression"
  BY <1>1, <1>2
<1>5. Pools!create = create \o size \o always \o over \o (quota \o comp)
  BY DEF Pools!create, Pools!update
<1>6. /\ create \in Seq(X) /\ create # <<>> /\ Head(create) = "create"
      /\ \A c : ~Occurs(c, Tail(create))
  <2>1. create \in Seq(X)
    BY <1>2, Small
  <2>2. create # <<>> /\ Head(create) = "create" /\ Tail(create) = <<>>
    OBVIOUS
  <2> QED BY <2>1, <2>2, Small
<1> HIDE DEF create, size, always, over, quota, comp
<1> DEFINE a == create \o size
           b == a \o always
           c == b \o over
           d == quota \o comp
           e == c \o d
<1>7. /\ a \in Seq(X) /\ a # <<>> /\ Head(a) = "create"
      /\ \A x : Occurs(x, Tail(a)) <=> Occurs(x, size)
  BY <1>4, <1>6, HeadJoined, Joined
<1> HIDE DEF a
<1>8. /\ b \in Seq(X) /\ b # <<>> /\ Head(b) = "create"
      /\ \A x : Occurs(x, Tail(b)) <=> Occurs(x, size) \/ Occurs(x, always)
  BY <1>3, <1>7, HeadJoined, Joined
<1> HIDE DEF b
<1>9. /\ c \in Seq(X) /\ c # <<>> /\ Head(c) = "create"
      /\ \A x : Occurs(x, Tail(c)) <=> Occurs(x, size) \/ Occurs(x, always) \/ Occurs(x, over)
  <2>1. c \in Seq(X)
    BY <1>4, <1>8, Joined
  <2>2. /\ c # <<>> /\ Head(c) = Head(b)
        /\ \A x : Occurs(x, Tail(c)) <=> Occurs(x, Tail(b)) \/ Occurs(x, over)
    BY <1>4, <1>8, HeadJoined
  <2> QED BY <1>8, <2>1, <2>2
<1> HIDE DEF c
<1>10. d \in Seq(X) /\ \A x : Occurs(x, d) <=> Occurs(x, quota) \/ Occurs(x, comp)
  BY <1>4, Joined
<1> HIDE DEF d
<1>11. /\ e \in Seq(X) /\ e # <<>> /\ Head(e) = "create"
       /\ \A x : Occurs(x, Tail(e)) <=>
             \/ Occurs(x, size) \/ Occurs(x, always) \/ Occurs(x, over)
             \/ Occurs(x, quota) \/ Occurs(x, comp)
  BY <1>9, <1>10, HeadJoined, Joined
<1>12. Pools!create = e
  BY <1>5 DEF a, b, c, d
<1> HIDE DEF e
<1>13. ~Occurs("create", Tail(e))
  BY <1>3, <1>4, <1>11
<1>14. ASSUME NEW x \in Settings, Pools!Asked(x) PROVE Occurs(x, Tail(e))
  BY <1>3, <1>4, <1>11, <1>14 DEF Settings, Pools!Asked
<1> QED BY <1>11, <1>12, <1>13, <1>14 DEF X

LEMMA UpdateIs ==
  /\ Pools!update \in Seq(PoolCommands) /\ ~Occurs("create", Pools!update)
<1> DEFINE X == PoolCommands \ {"create"}
<1>1. "set-quota" \in X /\ "set compression" \in X
  BY DEF PoolCommands, Settings
<1> HIDE DEF X
<1>2. \A condition : \A c \in X : Pools!If(condition, c) \in Seq(X)
  BY DEF Pools!If
<1>3. Pools!update \in Seq(X)
  BY <1>1, <1>2, ConcatProperties DEF Pools!update
<1>4. \A c : Occurs(c, Pools!update) => c \in X
  BY <1>3, LenProperties, ElementOfSeq DEF Occurs
<1>6. Pools!update \in Seq(PoolCommands)
  BY <1>3, SeqMonotonic DEF X
<1> QED BY <1>4, <1>6 DEF X

\* No operation is running at first.
LEMMA PoolsStart == Pools!Init => PoolsInv
<1> SUFFICES ASSUME Pools!Init PROVE PoolsInv
  OBVIOUS
<1> USE DEF Pools!Init
<1>1. request \in Requests /\ cluster \in Clusters
  BY DEF Requests, Clusters
<1>2. PoolsTypeOK
  BY <1>1 DEF PoolsTypeOK, Pools!NoPool, Pools!None
<1>3. PoolPart
  BY DEF PoolPart, Pools!None
<1>4. TierPart
  BY DEF TierPart, Pools!None
<1>5. DiskPart
  BY DEF DiskPart, Staged, Pools!None
<1> QED BY <1>2, <1>3, <1>4, <1>5 DEF PoolsInv

\* What a list of commands is when an operation begins with it.
LEMMA Before ==
  ASSUME NEW c, c \in DiskCommands, NEW s, s \in Seq(DiskCommands)
  PROVE  /\ <<c>> \o s \in Seq(DiskCommands) /\ <<c>> \o s # <<>>
         /\ Head(<<c>> \o s) = c /\ Tail(<<c>> \o s) = s
<1> DEFINE one == <<c>>
           all == one \o s
           rest == Tail(all)
<1>1. one \in Seq(DiskCommands) /\ Len(one) = 1 /\ one[1] = c /\ one # <<>>
  BY Small
<1> HIDE DEF one
<1>2. /\ Len(s) \in Nat /\ all \in Seq(DiskCommands) /\ Len(all) = 1 + Len(s)
      /\ \A i \in 1..1 + Len(s) : all[i] = IF i <= 1 THEN one[i] ELSE s[i - 1]
  BY <1>1, LenProperties, ConcatProperties
<1> HIDE DEF all
<1>3. all # <<>>
  BY <1>2, EmptySeq
<1>4. /\ Head(all) = all[1] /\ rest \in Seq(DiskCommands) /\ Len(rest) = Len(all) - 1
      /\ \A i \in 1..Len(rest) : rest[i] = all[i + 1]
  BY <1>2, <1>3, HeadTailProperties
<1> HIDE DEF rest
<1>5. all[1] = c
  <2>1. 1 \in 1..1 + Len(s) /\ 1 <= 1
    BY <1>2
  <2> QED BY <1>1, <1>2, <2>1
<1>6. \A i \in 1..Len(s) : rest[i] = s[i]
  <2> TAKE i \in 1..Len(s)
  <2>1. i \in 1..Len(rest) /\ i + 1 \in 1..1 + Len(s) /\ ~(i + 1 <= 1) /\ i + 1 - 1 = i
    BY <1>2, <1>4
  <2>2. rest[i] = all[i + 1]
    BY <1>4, <2>1
  <2>3. all[i + 1] = s[i + 1 - 1]
    BY <1>2, <2>1
  <2> QED BY <2>1, <2>2, <2>3
<1>7. rest = s
  BY <1>2, <1>4, <1>6, SeqEqual
<1> QED BY <1>2, <1>3, <1>4, <1>5, <1>7 DEF one, all, rest

LEMMA AheadIs ==
  ASSUME NEW body, body \in Seq(DiskCommands), NEW image, NEW map
  PROVE  LET s == Pools!If(image, "create image") \o Pools!If(map, "map") \o body
         IN  s \in Seq(DiskCommands) /\ s \in Ahead(body)
<1>1. "create image" \in DiskCommands /\ "map" \in DiskCommands
  BY DEF DiskCommands
<1> DEFINE a == Pools!If(image, "create image")
           b == Pools!If(map, "map")
<1>2. a \in {<<>>, <<"create image">>} /\ b \in {<<>>, <<"map">>}
  BY DEF Pools!If
<1>3. a \in Seq(DiskCommands) /\ b \in Seq(DiskCommands)
  <2>1. <<>> \in Seq(DiskCommands)
    OBVIOUS
  <2>2. <<"create image">> \in Seq(DiskCommands) /\ <<"map">> \in Seq(DiskCommands)
    BY <1>1, Small
  <2> QED BY <1>2, <2>1, <2>2
<1> HIDE DEF a, b
<1>4. (a \o b) \o body = a \o (b \o body)
  BY <1>3, ConcatAssociative
<1>5. b \o body \in {body, <<"map">> \o body} /\ b \o body \in Seq(DiskCommands)
  BY <1>2, <1>3, ConcatEmptySeq, ConcatProperties
<1> DEFINE c == b \o body
<1>6. a \o c \in {c, <<"create image">> \o c} /\ a \o c \in Seq(DiskCommands)
  <2> HIDE DEF c
  <2>1. c \in Seq(DiskCommands)
    BY <1>5 DEF c
  <2> QED BY <1>2, <1>3, <2>1, ConcatEmptySeq, ConcatProperties
<1> QED BY <1>4, <1>5, <1>6 DEF a, b, Ahead

LEMMA StorageIs ==
  LET s == Pools!ensure_ceph_storage
  IN  /\ s \in Seq(DiskCommands)
      /\ device.mounted => s \in NoMoves
      /\ ~device.mounted /\ device.service => s \in MovesBefore
      /\ ~device.mounted /\ ~device.service => s \in MovesStopped
<1> DEFINE stop == Pools!If(device.service, "stop")
           moves == <<"mkfs">> \o stop \o Copying
           body == IF device.mounted THEN <<>> ELSE moves
<1>1. Pools!ensure_ceph_storage = Pools!If(~device.image, "create image")
                                    \o Pools!If(~device.mapped, "map") \o body
  BY DEF Pools!ensure_ceph_storage, Copying
<1>2. "mkfs" \in DiskCommands /\ "stop" \in DiskCommands /\ Copying \in Seq(DiskCommands)
  BY DEF DiskCommands, Copying
<1>3. /\ stop \in Seq(DiskCommands) /\ <<"mkfs">> \in Seq(DiskCommands)
      /\ stop = IF device.service THEN <<"stop">> ELSE <<>>
  <2>1. <<>> \in Seq(DiskCommands)
    OBVIOUS
  <2>2. stop = IF device.service THEN <<"stop">> ELSE <<>>
    BY DEF Pools!If
  <2>3. <<"mkfs">> \in Seq(DiskCommands) /\ <<"stop">> \in Seq(DiskCommands)
    BY <1>2, Small
  <2> QED BY <2>1, <2>2, <2>3
<1> HIDE DEF stop
<1>4. moves = <<"mkfs">> \o (stop \o Copying)
  BY <1>2, <1>3, ConcatAssociative
<1>5. moves \in Seq(DiskCommands)
  BY <1>2, <1>3, ConcatProperties
<1>6. device.service => moves = <<"mkfs">> \o (<<"stop">> \o Copying)
  BY <1>3, <1>4
<1>7. ~device.service => moves = <<"mkfs">> \o Copying
  BY <1>2, <1>3, <1>4, ConcatEmptySeq
<1> HIDE DEF moves
<1>8. body \in Seq(DiskCommands)
  <2>1. <<>> \in Seq(DiskCommands)
    OBVIOUS
  <2> QED BY <1>5, <2>1
<1> HIDE DEF body
<1>9. /\ Pools!ensure_ceph_storage \in Seq(DiskCommands)
      /\ Pools!ensure_ceph_storage \in Ahead(body)
  BY <1>1, <1>8, AheadIs
<1> QED BY <1>6, <1>7, <1>9 DEF body, NoMoves, MovesBefore, MovesStopped

\* The request is never changed.
LEMMA SameRequest ==
  ASSUME UNCHANGED <<cluster, request>>
  PROVE  /\ Pools!PgNum' = Pools!PgNum
         /\ \A c : Pools!Asked(c)' <=> Pools!Asked(c)
         /\ UNCHANGED pool => Pools!create' = Pools!create
<1>1. Pools!Unknown' = Pools!Unknown
  BY DEF Pools!Unknown
<1>2. \A size, percent : Pools!Exact(size, percent)' = Pools!Exact(size, percent)
  BY DEF Pools!Exact
<1>3. \A size, percent : Pools!get_pgs(size, percent)' = Pools!get_pgs(size, percent)
  BY <1>1, <1>2 DEF Pools!get_pgs
<1>4. Pools!PgNum' = Pools!PgNum
  BY <1>3 DEF Pools!PgNum
<1>5. \A c : Pools!Asked(c)' <=> Pools!Asked(c)
  BY DEF Pools!Asked
<1>6. UNCHANGED pool => Pools!create' = Pools!create
  BY DEF Pools!create, Pools!update
<1> QED BY <1>4, <1>5, <1>6

\* Nothing is done, or an operation is over: what is left of it is not done.
LEMMA PoolsRest ==
  ASSUME PoolsInv, UNCHANGED <<cluster, request, pool, tier, device>>,
         \/ running' = running /\ operation' = operation
         \/ running' = Pools!None /\ operation' = <<>>,
         history \subseteq history',
         running' # running /\ running = "pool" /\ operation # <<>> => "pool" \in history'
  PROVE  PoolsInv'
<1> USE DEF PoolsInv
<1>1. PoolsTypeOK'
  <2>1. <<>> \in Seq(Commands)
    OBVIOUS
  <2>2. /\ operation' \in Seq(Commands) /\ (running' = Pools!None => operation' = <<>>)
        /\ running' \in {Pools!None, "pool", "update", "tier", "remove", "storage"}
    BY <2>1 DEF PoolsTypeOK
  <2> QED BY <2>2 DEF PoolsTypeOK
<1>2. PoolPart'
  <2>1. \A c : ~Occurs(c, <<>>)
    BY Small
  <2>2. Pools!None \notin {"pool", "update"}
    BY DEF Pools!None
  <2>3. CASE running' = running /\ operation' = operation
    BY <2>3, SameRequest DEF PoolPart, SetOrToSet
  <2>4. CASE running' = Pools!None /\ operation' = <<>>
    <3>1. "pool" \notin history' => "pool" \notin history /\ (running = "pool" => operation = <<>>)
      BY <2>2, <2>4
    <3> QED BY <2>1, <2>2, <2>4, <3>1, SameRequest DEF PoolPart, SetOrToSet
  <2> QED BY <2>3, <2>4
<1>3. TierPart'
  BY DEF TierPart, Pools!None
<1>4. Clean' => Clean
  BY DEF Clean
<1>5. Clean => DiskPart'
  BY DEF DiskPart, Staged, Pools!None
<1> QED BY <1>1, <1>2, <1>3, <1>4, <1>5

\* An operation begins.
LEMMA PoolsBegin ==
  ASSUME PoolsInv, NEW op, NEW s, s \in Seq(Commands), Pools!Start(op, s),
         op \in {"pool", "update", "tier", "remove", "storage"},
         op \in {"pool", "update"} => s \in Seq(PoolCommands),
         op = "update" => pool # Pools!NoPool /\ ~Occurs("create", s),
         op = "pool" => s = Pools!create,
         op = "tier" => pool # Pools!NoPool /\ s = Pools!add_cache_tier /\ ~tier.attached,
         op = "remove" => tier.attached /\ s = Pools!remove_cache_tier,
         op = "storage" => pool # Pools!NoPool /\ s = Pools!ensure_ceph_storage
  PROVE  PoolsInv'
<1> USE DEF PoolsInv, Pools!Start
<1>1. PoolsTypeOK'
  BY StorageIs DEF PoolsTypeOK, Pools!None
<1>2. PoolPart'
  <2>1. Pools!create # <<>> => pool = Pools!NoPool
    BY DEF Pools!create
  <2>2. op \in {"pool", "update"} => \A c : Occurs(c, s) => c \in PoolCommands
    BY ElementOfSeq DEF Occurs
  <2>3. pool # Pools!NoPool /\ op = "pool" => s = <<>>
    BY DEF Pools!create
  <2> QED BY <2>1, <2>2, <2>3, SameRequest, Small DEF PoolPart, SetOrToSet, Pools!None
<1>3. TierPart'
  <2>1. op = "tier" => TierPart'
    BY DEF TierPart, Pools!add_cache_tier
  <2>2. op = "remove" => TierPart'
    BY DEF TierPart, Pools!remove_cache_tier
  <2>3. op \notin {"tier", "remove"} => TierPart'
    BY DEF TierPart
  <2> QED BY <2>1, <2>2, <2>3
<1>4. Clean' <=> Clean
  BY DEF Clean
<1>5. Clean => DiskPart'
  <2>1. op = "storage" => DiskPart' \/ ~Clean
    BY StorageIs DEF DiskPart, Staged, PoolsTypeOK
  <2>2. op # "storage" => DiskPart' \/ ~Clean
    BY DEF DiskPart, Staged
  <2> QED BY <2>1, <2>2
<1> QED BY <1>1, <1>2, <1>3, <1>4, <1>5

\* A command of a pool is run.
LEMMA PoolGoesOn ==
  ASSUME PoolsInv, Pools!Step, running \in {"pool", "update"}
  PROVE  PoolsInv'
<1> USE DEF PoolsInv
<1> DEFINE c == Head(operation)
<1>1. /\ operation # <<>> /\ operation' = Tail(operation)
      /\ pool' = Pools!OfPool(c) /\ device' = Pools!OfDisk(c)
      /\ UNCHANGED <<cluster, request, running, failures, history>>
      /\ \E mode \in {"writeback", "readonly"} : tier' = Pools!OfTier(c, mode)
  BY DEF Pools!Step
<1>2. /\ operation' \in Seq(Commands)
      /\ \A x : Occurs(x, operation) <=> x = c \/ Occurs(x, operation')
  BY <1>1, AfterHead DEF PoolsTypeOK
<1> HIDE DEF c
<1>3. c \in PoolCommands
  BY <1>2 DEF PoolPart
<1>4. UNCHANGED <<tier, device>>
  BY <1>1, <1>3 DEF Pools!OfTier, Pools!OfDisk, PoolCommands, Settings
<1>5. CASE c = "create"
  <2>1. pool = Pools!NoPool /\ running = "pool" /\ operation = Pools!create
    BY <1>2, <1>5 DEF PoolPart
  <2>2. pool' = [pgs |-> Pools!PgNum, set |-> {}]
    BY <1>1, <1>5 DEF Pools!OfPool
  <2>3. Pools!PgNum \in Nat \ {0} /\ pool' # Pools!NoPool
    BY <2>2, GroupsFit DEF PoolsTypeOK, Pools!NoPool
  <2>4. /\ ~Occurs("create", operation')
        /\ \A x \in Settings : Pools!Asked(x) => Occurs(x, operation')
    BY <1>1, <2>1, CreateIs DEF PoolsTypeOK
  <2>5. PoolsTypeOK'
    BY <1>1, <1>2, <1>4, <2>2, <2>3 DEF PoolsTypeOK
  <2>6. PoolPart'
    <3>1. pool'.pgs = Pools!PgNum'
      BY <1>1, <2>2, SameRequest
    <3>2. \A x : Occurs(x, operation') => x \in PoolCommands
      BY <1>2, <2>1 DEF PoolPart
    <3>3. ~device'.mapped
      BY <1>4, <2>1 DEF PoolPart
    <3>4. \A x \in Settings : Pools!Asked(x)' => SetOrToSet(x)'
      BY <1>1, <2>1, <2>4, SameRequest DEF SetOrToSet
    <3> QED BY <1>1, <2>1, <2>3, <2>4, <3>1, <3>2, <3>3, <3>4 DEF PoolPart
  <2>7. TierPart' /\ (Clean' => DiskPart')
    BY <1>1, <1>4, <2>1 DEF TierPart, DiskPart, Staged, Clean
  <2> QED BY <2>5, <2>6, <2>7
<1>6. CASE c # "create"
  <2>1. pool # Pools!NoPool
    BY <1>1, <1>6, CreateIs DEF PoolPart, PoolsTypeOK, c, Pools!None
  <2>2. pool' = [pool EXCEPT !.set = @ \cup {c}]
    BY <1>1, <1>3, <1>6 DEF Pools!OfPool, PoolCommands, Settings
  <2>3. /\ pool'.pgs = pool.pgs /\ pool'.set = pool.set \cup {c}
        /\ pool' \in [pgs : Nat, set : SUBSET PoolCommands]
    BY <1>3, <2>2 DEF PoolsTypeOK
  <2>4. pool' # Pools!NoPool
    BY <2>3 DEF Pools!NoPool
  <2>5. PoolsTypeOK'
    BY <1>1, <1>2, <1>4, <2>3 DEF PoolsTypeOK, Pools!None
  <2>6. PoolPart'
    <3>1. pool'.pgs = Pools!PgNum'
      BY <1>1, <2>1, <2>3, SameRequest DEF PoolPart
    <3>2. \A x : Occurs(x, operation') => x \in PoolCommands /\ x # "create"
      BY <1>2, <2>1 DEF PoolPart
    <3>3. running' = "pool" => ~device'.mapped
      BY <1>1, <1>4 DEF PoolPart
    <3>4. ASSUME "pool" \notin history', NEW x \in Settings, Pools!Asked(x)'
          PROVE  SetOrToSet(x)'
      <4>1. SetOrToSet(x)
        BY <1>1, <2>1, <3>4, SameRequest DEF PoolPart
      <4> QED BY <1>1, <1>2, <2>3, <4>1 DEF SetOrToSet
    <3> QED BY <1>1, <2>4, <3>1, <3>2, <3>3, <3>4 DEF PoolPart
  <2>7. TierPart' /\ (Clean' => DiskPart')
    BY <1>1, <1>4 DEF TierPart, DiskPart, Staged, Clean
  <2> QED BY <2>5, <2>6, <2>7
<1> QED BY <1>5, <1>6

\* The commands of a cache tier, one after another.
LEMMA TierTails ==
  ASSUME NEW s
  PROVE  /\ s = <<"tier add", "tier cache-mode", "tier set-overlay", "hit_set_type">> =>
            Head(s) = "tier add" /\ Tail(s) = <<"tier cache-mode", "tier set-overlay", "hit_set_type">>
         /\ s = <<"tier cache-mode", "tier set-overlay", "hit_set_type">> =>
            Head(s) = "tier cache-mode" /\ Tail(s) = <<"tier set-overlay", "hit_set_type">>
         /\ s = <<"tier set-overlay", "hit_set_type">> =>
            Head(s) = "tier set-overlay" /\ Tail(s) = <<"hit_set_type">>
         /\ s = <<"hit_set_type">> =>
            Head(s) = "hit_set_type" /\ Tail(s) = <<>>
         /\ s = <<"tier mode forward", "tier flush", "tier remove-overlay", "tier remove">> =>
            Head(s) = "tier mode forward" /\ Tail(s) = <<"tier flush", "tier remove-overlay", "tier remove">>
         /\ s = <<"tier flush", "tier remove-overlay", "tier remove">> =>
            Head(s) = "tier flush" /\ Tail(s) = <<"tier remove-overlay", "tier remove">>
         /\ s = <<"tier remove-overlay", "tier remove">> =>
            Head(s) = "tier remove-overlay" /\ Tail(s) = <<"tier remove">>
         /\ s = <<"tier remove">> =>
            Head(s) = "tier remove" /\ Tail(s) = <<>>
         /\ s = <<"tier mode none", "tier remove">> =>
            Head(s) = "tier mode none" /\ Tail(s) = <<"tier remove">>
<1> DEFINE add == "tier add"
           mode == "tier cache-mode"
           overlay == "tier set-overlay"
           hit == "hit_set_type"
           forward == "tier mode forward"
           flush == "tier flush"
           off == "tier remove-overlay"
           remove == "tier remove"
           none == "tier mode none"
<1> HIDE DEF add, mode, overlay, hit, forward, flush, off, remove, none
<1>1. s = <<add, mode, overlay, hit>> => Head(s) = add /\ Tail(s) = <<mode, overlay, hit>>
  OBVIOUS
<1>2. s = <<mode, overlay, hit>> => Head(s) = mode /\ Tail(s) = <<overlay, hit>>
  OBVIOUS
<1>3. s = <<overlay, hit>> => Head(s) = overlay /\ Tail(s) = <<hit>>
  OBVIOUS
<1>4. s = <<hit>> => Head(s) = hit /\ Tail(s) = <<>>
  OBVIOUS
<1>5. s = <<forward, flush, off, remove>> => Head(s) = forward /\ Tail(s) = <<flush, off, remove>>
  OBVIOUS
<1>6. s = <<flush, off, remove>> => Head(s) = flush /\ Tail(s) = <<off, remove>>
  OBVIOUS
<1>7. s = <<off, remove>> => Head(s) = off /\ Tail(s) = <<remove>>
  OBVIOUS
<1>8. s = <<remove>> => Head(s) = remove /\ Tail(s) = <<>>
  OBVIOUS
<1>9. s = <<none, remove>> => Head(s) = none /\ Tail(s) = <<remove>>
  OBVIOUS
<1> QED
  BY <1>1, <1>2, <1>3, <1>4, <1>5, <1>6, <1>7, <1>8, <1>9
  DEF add, mode, overlay, hit, forward, flush, off, remove, none

\* A command of a cache tier is run.
LEMMA TierGoesOn ==
  ASSUME PoolsInv, Pools!Step, running \in {"tier", "remove"}
  PROVE  PoolsInv'
<1> USE DEF PoolsInv
<1> DEFINE c == Head(operation)
<1>1. /\ operation # <<>> /\ operation' = Tail(operation)
      /\ pool' = Pools!OfPool(c) /\ device' = Pools!OfDisk(c)
      /\ UNCHANGED <<cluster, request, running, failures, history>>
      /\ \E mode \in {"writeback", "readonly"} : tier' = Pools!OfTier(c, mode)
  BY DEF Pools!Step
<1>2. \/ /\ c = "tier add" /\ ~tier.attached /\ running = "tier"
         /\ operation' = <<"tier cache-mode", "tier set-overlay", "hit_set_type">>
      \/ /\ c = "tier cache-mode" /\ tier.attached /\ tier.mode = "none" /\ running = "tier"
         /\ operation' = <<"tier set-overlay", "hit_set_type">>
      \/ /\ c = "tier set-overlay" /\ tier.attached /\ running = "tier"
         /\ operation' = <<"hit_set_type">>
      \/ c = "hit_set_type" /\ tier.attached /\ running = "tier" /\ operation' = <<>>
      \/ /\ c = "tier mode none" /\ tier.mode = "readonly" /\ running = "remove"
         /\ operation' = <<"tier remove">>
      \/ /\ c = "tier remove" /\ ~tier.dirty /\ running = "remove"
         /\ operation' = <<>>
      \/ /\ c = "tier mode forward" /\ tier.mode = "writeback" /\ running = "remove"
         /\ operation' = <<"tier flush", "tier remove-overlay", "tier remove">>
      \/ /\ c = "tier flush" /\ tier.mode = "forward" /\ running = "remove"
         /\ operation' = <<"tier remove-overlay", "tier remove">>
      \/ /\ c = "tier remove-overlay" /\ tier.mode = "forward" /\ ~tier.dirty
         /\ running = "remove" /\ operation' = <<"tier remove">>
  <2>1. CASE running = "tier"
    <3>1. CASE operation = <<"tier add", "tier cache-mode", "tier set-overlay", "hit_set_type">>
      <4>1. c = "tier add" /\ operation' = <<"tier cache-mode", "tier set-overlay", "hit_set_type">>
        BY <1>1, <3>1, TierTails, Zenon
      <4> QED BY <1>1, <2>1, <3>1, <4>1 DEF TierPart
    <3>2. CASE operation = <<"tier cache-mode", "tier set-overlay", "hit_set_type">>
      <4>1. c = "tier cache-mode" /\ operation' = <<"tier set-overlay", "hit_set_type">>
        BY <1>1, <3>2, TierTails, Zenon
      <4> QED BY <1>1, <2>1, <3>2, <4>1 DEF TierPart
    <3>3. CASE operation = <<"tier set-overlay", "hit_set_type">>
      <4>1. c = "tier set-overlay" /\ operation' = <<"hit_set_type">>
        BY <1>1, <3>3, TierTails, Zenon
      <4> QED BY <1>1, <2>1, <3>3, <4>1 DEF TierPart
    <3>4. CASE operation = <<"hit_set_type">>
      <4>1. c = "hit_set_type" /\ operation' = <<>>
        BY <1>1, <3>4, TierTails, Zenon
      <4> QED BY <1>1, <2>1, <3>4, <4>1 DEF TierPart
    <3> HIDE DEF c
    <3> QED BY <1>1, <2>1, <3>1, <3>2, <3>3, <3>4 DEF TierPart
  <2>2. CASE running = "remove"
    <3>1. CASE operation = <<"tier mode none", "tier remove">>
      <4>1. c = "tier mode none" /\ operation' = <<"tier remove">>
        BY <1>1, <3>1, TierTails, Zenon
      <4> QED BY <1>1, <2>2, <3>1, <4>1 DEF TierPart
    <3>2. CASE operation = <<"tier mode forward", "tier flush", "tier remove-overlay", "tier remove">>
      <4>1. c = "tier mode forward" /\ operation' = <<"tier flush", "tier remove-overlay", "tier remove">>
        BY <1>1, <3>2, TierTails, Zenon
      <4> QED BY <1>1, <2>2, <3>2, <4>1 DEF TierPart
    <3>3. CASE operation = <<"tier flush", "tier remove-overlay", "tier remove">>
      <4>1. c = "tier flush" /\ operation' = <<"tier remove-overlay", "tier remove">>
        BY <1>1, <3>3, TierTails, Zenon
      <4> QED BY <1>1, <2>2, <3>3, <4>1 DEF TierPart
    <3>4. CASE operation = <<"tier remove-overlay", "tier remove">>
      <4>1. c = "tier remove-overlay" /\ operation' = <<"tier remove">>
        BY <1>1, <3>4, TierTails, Zenon
      <4> QED BY <1>1, <2>2, <3>4, <4>1 DEF TierPart
    <3>5. CASE operation = <<"tier remove">>
      <4>1. c = "tier remove" /\ operation' = <<>>
        BY <1>1, <3>5, TierTails, Zenon
      <4> QED BY <1>1, <2>2, <3>5, <4>1 DEF TierPart
    <3> HIDE DEF c
    <3> QED BY <1>1, <2>2, <3>1, <3>2, <3>3, <3>4, <3>5 DEF TierPart
  <2> QED BY <2>1, <2>2
<1>3. operation' \in Seq(Commands)
  BY <1>1, AfterHead DEF PoolsTypeOK
<1> HIDE DEF c
<1>4. UNCHANGED <<pool, device>>
  BY <1>1, <1>2 DEF Pools!OfPool, Pools!OfDisk
<1> DEFINE Tiers == [attached : BOOLEAN, overlay : BOOLEAN, dirty : BOOLEAN,
                     mode : {"none", "writeback", "readonly", "forward"}]
<1>10. tier \in Tiers
  BY DEF PoolsTypeOK
<1>5. tier' \in Tiers
  BY <1>1, <1>2, <1>10 DEF Pools!OfTier
<1>11. TierPart
  OBVIOUS
<1>6. TierPart'
  <2> USE <1>1, <1>10, <1>11 DEF TierPart, Pools!OfTier
  <2>1. CASE c = "tier add"
    BY <1>2, <2>1
  <2>2. CASE c = "tier cache-mode"
    BY <1>2, <2>2
  <2>3. CASE c = "tier set-overlay"
    BY <1>2, <2>3
  <2>4. CASE c = "hit_set_type"
    BY <1>2, <2>4
  <2>5. CASE c = "tier mode none"
    BY <1>2, <2>5
  <2>6. CASE c = "tier remove"
    BY <1>2, <2>6
  <2>7. CASE c = "tier mode forward"
    BY <1>2, <2>7
  <2>8. CASE c = "tier flush"
    BY <1>2, <2>8
  <2>9. CASE c = "tier remove-overlay"
    BY <1>2, <2>9
  <2> QED BY <1>2, <2>1, <2>2, <2>3, <2>4, <2>5, <2>6, <2>7, <2>8, <2>9
<1>7. PoolsTypeOK'
  BY <1>1, <1>3, <1>4, <1>5 DEF PoolsTypeOK, Pools!None
<1>8. PoolPart'
  BY <1>1, <1>4, SameRequest DEF PoolPart, SetOrToSet, Pools!None
<1>9. Clean' => DiskPart'
  BY <1>1, <1>4 DEF DiskPart, Staged, Clean
<1> QED BY <1>6, <1>7, <1>8, <1>9

LEMMA CopyTails ==
  ASSUME NEW s
  PROVE  /\ s = Copying =>
            Head(s) = "mount /mnt" /\ Tail(s) = <<"copy", "umount /mnt", "mount", "start">>
         /\ s = <<"copy", "umount /mnt", "mount", "start">> =>
            Head(s) = "copy" /\ Tail(s) = <<"umount /mnt", "mount", "start">>
         /\ s = <<"umount /mnt", "mount", "start">> =>
            Head(s) = "umount /mnt" /\ Tail(s) = <<"mount", "start">>
         /\ s = <<"mount", "start">> =>
            Head(s) = "mount" /\ Tail(s) = <<"start">>
         /\ s = <<"start">> =>
            Head(s) = "start" /\ Tail(s) = <<>>
<1> DEFINE mnt == "mount /mnt"
           copy == "copy"
           umount == "umount /mnt"
           mount == "mount"
           start == "start"
<1> HIDE DEF mnt, copy, umount, mount, start
<1>1. s = <<mnt, copy, umount, mount, start>> => Head(s) = mnt /\ Tail(s) = <<copy, umount, mount, start>>
  OBVIOUS
<1>2. s = <<copy, umount, mount, start>> => Head(s) = copy /\ Tail(s) = <<umount, mount, start>>
  OBVIOUS
<1>3. s = <<umount, mount, start>> => Head(s) = umount /\ Tail(s) = <<mount, start>>
  OBVIOUS
<1>4. s = <<mount, start>> => Head(s) = mount /\ Tail(s) = <<start>>
  OBVIOUS
<1>5. s = <<start>> => Head(s) = start /\ Tail(s) = <<>>
  OBVIOUS
<1> QED BY <1>1, <1>2, <1>3, <1>4, <1>5 DEF mnt, copy, umount, mount, start, Copying

LEMMA AheadTails ==
  ASSUME NEW body, body \in Seq(DiskCommands), NEW s, s \in Ahead(body), s # body
  PROVE  Head(s) \in {"create image", "map"} /\ Tail(s) \in Ahead(body)
<1>1. "create image" \in DiskCommands /\ "map" \in DiskCommands
  BY DEF DiskCommands
<1>2. /\ Head(<<"map">> \o body) = "map" /\ Tail(<<"map">> \o body) = body
      /\ Head(<<"create image">> \o body) = "create image"
      /\ Tail(<<"create image">> \o body) = body
      /\ <<"map">> \o body \in Seq(DiskCommands)
  BY <1>1, Before
<1> DEFINE mapped == <<"map">> \o body
<1>3. /\ Head(<<"create image">> \o mapped) = "create image"
      /\ Tail(<<"create image">> \o mapped) = mapped
  <2> HIDE DEF mapped
  <2>1. mapped \in Seq(DiskCommands)
    BY <1>2 DEF mapped
  <2> QED BY <1>1, <2>1, Before
<1> QED BY <1>2, <1>3, Zenon DEF Ahead

LEMMA NextMove ==
  ASSUME DiskPart, running = "storage", operation # <<>>
  PROVE  LET c == Head(operation)
             rest == Tail(operation)
         IN  \/ /\ c \in {"create image", "map"}
                /\ \/ rest \in NoMoves
                   \/ rest \in MovesBefore /\ ~device.mounted
                   \/ rest \in MovesStopped /\ ~device.mounted /\ ~device.service
             \/ /\ c = "mkfs" /\ ~device.mounted
                /\ \/ rest \in MovesBefore
                   \/ rest \in MovesStopped /\ ~device.service
             \/ c = "stop" /\ rest = Copying /\ ~device.mounted
             \/ /\ ~device.mounted /\ ~device.service
                /\ \/ c = "mount /mnt" /\ rest = <<"copy", "umount /mnt", "mount", "start">>
                   \/ /\ c = "copy" /\ rest = <<"umount /mnt", "mount", "start">>
                      /\ device.mnt
                   \/ /\ c = "umount /mnt" /\ rest = <<"mount", "start">>
                      /\ device.local \subseteq device.device
                   \/ /\ c = "mount" /\ rest = <<"start">>
                      /\ device.local \subseteq device.device
             \/ c = "start" /\ rest = <<>> /\ device.mounted
<1>1. "mkfs" \in DiskCommands /\ "stop" \in DiskCommands /\ Copying \in Seq(DiskCommands)
  BY DEF DiskCommands, Copying
<1> DEFINE stop == <<"stop">> \o Copying
           before == <<"mkfs">> \o stop
           stopped == <<"mkfs">> \o Copying
<1>2. stop \in Seq(DiskCommands) /\ Head(stop) = "stop" /\ Tail(stop) = Copying
  BY <1>1, Before
<1>3. /\ stopped \in Seq(DiskCommands) /\ Head(stopped) = "mkfs"
      /\ Tail(stopped) = Copying
  BY <1>1, Before
<1>4. before \in Seq(DiskCommands) /\ Head(before) = "mkfs" /\ Tail(before) = stop
  <2> HIDE DEF stop
  <2> QED BY <1>1, <1>2, Before
<1>5. /\ MovesBefore = Ahead(before) \cup {stop} /\ MovesStopped = Ahead(stopped) \cup {Copying}
  BY DEF MovesBefore, MovesStopped
<1> HIDE DEF stop, before, stopped
<1> DEFINE c == Head(operation)
           rest == Tail(operation)
<1>6. CASE operation \in NoMoves
  <2>1. <<>> \in Seq(DiskCommands)
    OBVIOUS
  <2> QED BY <1>6, <2>1, AheadTails DEF NoMoves
<1>7. CASE operation \in MovesBefore /\ ~device.mounted
  <2>1. CASE operation = before
    BY <1>4, <1>5, <1>7, <2>1
  <2>2. CASE operation = stop
    BY <1>2, <1>7, <2>2
  <2>3. CASE operation \in Ahead(before) /\ operation # before
    BY <1>4, <1>5, <1>7, <2>3, AheadTails
  <2> QED BY <1>5, <1>7, <2>1, <2>2, <2>3
<1>8. CASE operation \in MovesStopped /\ ~device.mounted /\ ~device.service
  <2>1. CASE operation = stopped
    BY <1>3, <1>5, <1>8, <2>1
  <2>2. CASE operation = Copying
    BY <1>8, <2>2, CopyTails
  <2>3. CASE operation \in Ahead(stopped) /\ operation # stopped
    BY <1>3, <1>5, <1>8, <2>3, AheadTails
  <2> QED BY <1>5, <1>8, <2>1, <2>2, <2>3
<1>9. CASE /\ operation = <<"copy", "umount /mnt", "mount", "start">>
           /\ ~device.mounted /\ ~device.service /\ device.mnt
  BY <1>9, CopyTails, Zenon
<1>10. CASE /\ operation \in {<<"umount /mnt", "mount", "start">>, <<"mount", "start">>}
            /\ ~device.mounted /\ ~device.service /\ device.local \subseteq device.device
  BY <1>10, CopyTails, Zenon
<1>11. CASE operation = <<"start">> /\ device.mounted
  BY <1>11, CopyTails, Zenon
<1> QED BY <1>6, <1>7, <1>8, <1>9, <1>10, <1>11, Zenon DEF DiskPart, Staged

\* A command that moves data is run.
LEMMA StorageGoesOn ==
  ASSUME PoolsInv, Pools!Step, running = "storage"
  PROVE  PoolsInv'
<1> USE DEF PoolsInv
<1> DEFINE c == Head(operation)
           rest == Tail(operation)
<1>1. /\ operation # <<>> /\ operation' = rest
      /\ pool' = Pools!OfPool(c) /\ device' = Pools!OfDisk(c)
      /\ UNCHANGED <<cluster, request, running, failures, history>>
      /\ \E mode \in {"writeback", "readonly"} : tier' = Pools!OfTier(c, mode)
  BY DEF Pools!Step
<1>2. c \in DiskCommands /\ operation' \in Seq(DiskCommands)
  BY <1>1, AfterHead DEF PoolsTypeOK
<1>3. operation' \in Seq(Commands)
  BY <1>2, SeqMonotonic DEF Commands
<1> HIDE DEF c, rest
<1>4. UNCHANGED <<pool, tier>>
  BY <1>1, <1>2 DEF Pools!OfPool, Pools!OfTier, DiskCommands
<1> DEFINE Disks == [image : BOOLEAN, mapped : BOOLEAN, mounted : BOOLEAN, service : BOOLEAN,
                     mnt : BOOLEAN, local : SUBSET {Pools!Old, Pools!New},
                     device : SUBSET {Pools!Old, Pools!New},
                     stray : SUBSET {Pools!Old, Pools!New}]
<1>5. device \in Disks
  BY DEF PoolsTypeOK
<1>6. device' \in Disks
  BY <1>1, <1>2, <1>5 DEF Pools!OfDisk, DiskCommands
<1>7. PoolsTypeOK'
  BY <1>1, <1>2, <1>3, <1>4, <1>6 DEF PoolsTypeOK, Pools!None
<1>8. PoolPart'
  BY <1>1, <1>4, SameRequest DEF PoolPart, SetOrToSet, Pools!None
<1>9. TierPart'
  BY <1>1, <1>4 DEF TierPart
<1>10. ASSUME Clean PROVE DiskPart'
  <2> USE DEF Pools!OfDisk
  <2>1. DiskPart
    BY <1>10
  <2>2. CASE c \in {"create image", "map"}
    BY <1>1, <1>5, <2>1, <2>2, NextMove DEF c, rest, DiskPart, Staged
  <2>3. CASE c = "mkfs"
    <3>1. device'.local = device.local /\ UNCHANGED <<device.mounted, device.service>>
      BY <1>1, <1>5, <2>3
    <3>2. ~device.mounted /\ (rest \in MovesBefore \/ (rest \in MovesStopped /\ ~device.service))
      BY <1>1, <2>1, <2>3, NextMove DEF c, rest
    <3>3. Pools!Old \in device'.local
      BY <2>1, <3>1 DEF DiskPart
    <3>4. ~device'.mounted
      BY <3>1, <3>2
    <3>5. \/ operation' \in MovesBefore
          \/ operation' \in MovesStopped /\ ~device'.service
      BY <1>1, <3>1, <3>2
    <3>6. Staged'
      BY <3>4, <3>5, Zenon DEF Staged
    <3> QED BY <3>3, <3>4, <3>6, Zenon DEF DiskPart
  <2>4. CASE c = "stop"
    <3>1. /\ device'.local = device.local /\ UNCHANGED device.mounted
          /\ ~device'.service
      BY <1>1, <1>5, <2>4
    <3>2. ~device.mounted /\ rest = Copying
      BY <1>1, <2>1, <2>4, NextMove DEF c, rest
    <3>3. Pools!Old \in device'.local
      BY <2>1, <3>1 DEF DiskPart
    <3>4. ~device'.mounted /\ operation' \in MovesStopped
      BY <1>1, <3>1, <3>2, Zenon DEF MovesStopped
    <3>5. Staged'
      BY <3>1, <3>4, Zenon DEF Staged
    <3> QED BY <3>3, <3>4, <3>5, Zenon DEF DiskPart
  <2>5. CASE c = "mount /mnt"
    BY <1>1, <1>5, <2>1, <2>5, NextMove DEF c, rest, DiskPart, Staged
  <2>6. CASE c = "copy"
    BY <1>1, <1>5, <2>1, <2>6, NextMove DEF c, rest, DiskPart, Staged
  <2>7. CASE c = "umount /mnt"
    BY <1>1, <1>5, <2>1, <2>7, NextMove DEF c, rest, DiskPart, Staged
  <2>8. CASE c = "mount"
    <3>1. /\ device'.local = device.local /\ device'.device = device.device
          /\ device'.mounted
      BY <1>1, <1>5, <2>8
    <3>2. rest = <<"start">> /\ device.local \subseteq device.device
      BY <1>1, <2>1, <2>8, NextMove DEF c, rest
    <3>3. Pools!Old \in device'.local
      BY <2>1, <3>1 DEF DiskPart
    <3>4. /\ device'.mounted /\ operation' = <<"start">>
          /\ device'.local \subseteq device'.device
      BY <1>1, <3>1, <3>2
    <3>5. Staged'
      BY <3>4, Zenon DEF Staged
    <3> QED BY <3>3, <3>4, <3>5, Zenon DEF DiskPart
  <2>9. CASE c = "start"
    <3>1. /\ device'.local = device.local /\ UNCHANGED <<device.mounted, device.device>>
      BY <1>1, <1>5, <2>9
    <3>2. rest = <<>>
      BY <1>1, <2>1, <2>9, NextMove DEF c, rest
    <3>3. /\ Pools!Old \in device'.local
          /\ device'.mounted => device'.local \subseteq device'.device
      BY <2>1, <3>1 DEF DiskPart
    <3>4. operation' \in NoMoves
      BY <1>1, <3>2 DEF NoMoves, Ahead
    <3>5. Staged'
      BY <3>4, Zenon DEF Staged
    <3> QED BY <3>3, <3>5, Zenon DEF DiskPart
  <2> QED BY <1>2, <2>2, <2>3, <2>4, <2>5, <2>6, <2>7, <2>8, <2>9 DEF DiskCommands
<1>11. Clean' <=> Clean
  BY <1>1 DEF Clean
<1> QED BY <1>7, <1>8, <1>9, <1>10, <1>11

\* A command fails.
LEMMA PoolsFail ==
  ASSUME PoolsInv, Pools!Fail
  PROVE  PoolsInv'
<1> USE DEF PoolsInv
<1> DEFINE c == Head(operation)
<1>1. /\ operation # <<>> /\ running # Pools!None
      /\ UNCHANGED <<cluster, request, pool, tier, device>>
      /\ IF c \in Pools!MayFail \cup Pools!Unchecked
         THEN operation' = Tail(operation) /\ UNCHANGED running
         ELSE operation' = <<>> /\ running' = Pools!None
      /\ history' = history \cup {IF c \in Pools!Unchecked THEN "unchecked" ELSE running}
  BY DEF Pools!Fail
<1>2. /\ Tail(operation) \in Seq(Commands)
      /\ \A x : Occurs(x, operation) <=> x = c \/ Occurs(x, Tail(operation))
  BY <1>1, AfterHead DEF PoolsTypeOK
<1>3. running = "storage" => c \in DiskCommands /\ Tail(operation) \in Seq(DiskCommands)
  BY <1>1, AfterHead DEF PoolsTypeOK
<1>4. running \in {"pool", "update"} => c \in PoolCommands
  BY <1>2 DEF PoolPart
<1> HIDE DEF c
<1>5. running = "pool" => "pool" \in history'
  BY <1>1, <1>4 DEF Pools!Unchecked, PoolCommands, Settings
<1>6. CASE c \notin Pools!MayFail \cup Pools!Unchecked
  BY <1>1, <1>5, <1>6, PoolsRest
<1>7. CASE c \in Pools!MayFail \cup Pools!Unchecked
  <2>1. UNCHANGED <<cluster, request, pool, tier, device, running>>
        /\ operation' = Tail(operation)
    BY <1>1, <1>7
  <2>2. PoolsTypeOK'
    BY <1>2, <1>3, <1>1, <2>1 DEF PoolsTypeOK
  <2>3. running \notin {"tier", "remove"}
    <3>1. running \in {"tier", "remove"} => c \in TierCommands
      BY <1>1, TierTails DEF TierPart, TierCommands, c
    <3> QED BY <1>7, <3>1 DEF TierCommands, Pools!MayFail, Pools!Unchecked
  <2>4. TierPart'
    BY <2>1, <2>3 DEF TierPart
  <2>5. PoolPart'
    <3>1. pool = Pools!NoPool => running = "pool" /\ operation = Pools!create
      BY <1>1 DEF PoolPart
    <3>2. pool # Pools!NoPool
      BY <1>7, <3>1, CreateIs DEF PoolsTypeOK, c, Pools!MayFail, Pools!Unchecked
    <3>3. \A x : Occurs(x, operation') => Occurs(x, operation)
      BY <1>2, <2>1
    <3>4. "pool" \notin history' => "pool" \notin history /\ running # "pool"
      BY <1>1, <1>5
    <3> QED BY <1>1, <2>1, <3>2, <3>3, <3>4, SameRequest DEF PoolPart, SetOrToSet
  <2>6. Clean' => DiskPart'
    <3>1. c \in Pools!Unchecked => ~Clean'
      BY <1>1 DEF Clean
    <3>2. running = "storage" => c \in Pools!Unchecked
      BY <1>3, <1>7 DEF DiskCommands, Pools!MayFail
    <3>3. Clean' => Clean
      BY <1>1 DEF Clean
    <3> QED BY <2>1, <3>1, <3>2, <3>3 DEF DiskPart, Staged
  <2> QED BY <2>2, <2>4, <2>5, <2>6
<1> QED BY <1>6, <1>7

\* Others write, or the machine is restarted.
LEMMA PoolsWritten ==
  ASSUME PoolsInv, Pools!ClientWrites \/ Pools!ServiceWrites
  PROVE  PoolsInv'
<1> USE DEF PoolsInv
<1>1. CASE Pools!ClientWrites
  <2>1. /\ UNCHANGED <<cluster, request, pool, device, running, operation, history>>
        /\ tier.mode = "writeback" /\ tier.overlay /\ tier' = [tier EXCEPT !.dirty = TRUE]
    BY <1>1 DEF Pools!ClientWrites
  <2>2. PoolsTypeOK'
    BY <2>1 DEF PoolsTypeOK
  <2>3. PoolPart'
    BY <2>1, SameRequest DEF PoolPart, SetOrToSet, PoolsTypeOK
  <2>4. TierPart'
    <3>1. tier'.dirty /\ UNCHANGED <<tier.attached, tier.mode, tier.overlay>>
      BY <2>1 DEF PoolsTypeOK
    <3>2. running = "tier" => operation = <<>> \/ operation = <<"hit_set_type">>
                              \/ operation = <<"tier set-overlay", "hit_set_type">>
      BY <2>1 DEF TierPart
    <3>3. running = "remove" =>
            \/ operation = <<>>
            \/ operation = <<"tier mode forward", "tier flush", "tier remove-overlay",
                             "tier remove">>
      BY <2>1 DEF TierPart
    <3> QED BY <2>1, <3>1, <3>2, <3>3 DEF TierPart
  <2>5. Clean' => DiskPart'
    BY <2>1 DEF DiskPart, Staged, Clean
  <2> QED BY <2>2, <2>3, <2>4, <2>5
<1>2. CASE Pools!ServiceWrites
  <2>1. /\ UNCHANGED <<cluster, request, pool, tier, running, operation, history>>
        /\ device.service
        /\ device' = IF device.mounted
                     THEN [device EXCEPT !.device = @ \cup {Pools!New}]
                     ELSE [device EXCEPT !.local = @ \cup {Pools!New}]
    BY <1>2 DEF Pools!ServiceWrites
  <2>2. PoolsTypeOK'
    BY <2>1 DEF PoolsTypeOK
  <2>3. PoolPart'
    BY <2>1, SameRequest DEF PoolPart, SetOrToSet, PoolsTypeOK
  <2>4. TierPart'
    BY <2>1 DEF TierPart
  <2>5. Clean' => DiskPart'
    BY <2>1 DEF DiskPart, Staged, Clean, PoolsTypeOK
  <2> QED BY <2>2, <2>3, <2>4, <2>5
<1> QED BY <1>1, <1>2

LEMMA PoolsReboot ==
  ASSUME PoolsInv, Pools!Reboot
  PROVE  PoolsInv'
<1> USE DEF PoolsInv
<1>1. /\ UNCHANGED <<cluster, request, pool, tier>>
      /\ device.mapped /\ running' = Pools!None /\ operation' = <<>>
      /\ device' = [device EXCEPT !.mapped = FALSE, !.mounted = FALSE, !.mnt = FALSE,
                                  !.service = TRUE]
      /\ history' = history \cup {"reboot"}
  BY DEF Pools!Reboot
<1>2. PoolsTypeOK'
  <2>1. <<>> \in Seq(Commands) /\ running' # "storage"
    BY <1>1 DEF Pools!None
  <2> QED BY <1>1, <2>1 DEF PoolsTypeOK
<1>3. PoolPart'
  <2>1. pool # Pools!NoPool /\ (running = "pool" => operation = <<>>)
    BY <1>1 DEF PoolPart
  <2>2. "pool" \notin history' => "pool" \notin history
    BY <1>1
  <2> QED BY <1>1, <2>1, <2>2, SameRequest, Small DEF PoolPart, SetOrToSet, Pools!None
<1>4. TierPart'
  BY <1>1 DEF TierPart, Pools!None
<1>5. ~Clean'
  BY <1>1 DEF Clean
<1> QED BY <1>2, <1>3, <1>4, <1>5

LEMMA PoolsInductive ==
  ASSUME PoolsInv, [Pools!Next]_(Pools!pools_vars)
  PROVE  PoolsInv'
<1>1. CASE UNCHANGED Pools!pools_vars
  BY <1>1, PoolsRest DEF Pools!pools_vars
<1>2. CASE Pools!Create
  <2>1. /\ Pools!create \in Seq(PoolCommands) /\ Pools!create \in Seq(Commands)
    <3>1. Pools!create \in Seq(PoolCommands)
      <4>1. pool # Pools!NoPool => Pools!create = <<>>
        BY DEF Pools!create
      <4>2. <<>> \in Seq(PoolCommands)
        OBVIOUS
      <4> QED BY <4>1, <4>2, CreateIs DEF PoolsInv, PoolsTypeOK
    <3> QED BY <3>1, SeqMonotonic DEF Commands
  <2> QED BY <1>2, <2>1, PoolsBegin DEF Pools!Create
<1>3. CASE Pools!Update
  <2>1. Pools!update \in Seq(Commands)
    BY UpdateIs, SeqMonotonic DEF Commands
  <2> QED BY <1>3, <2>1, UpdateIs, PoolsBegin DEF Pools!Update
<1>4. CASE Pools!AddTier
  <2>1. Pools!add_cache_tier \in Seq(TierCommands)
    BY DEF Pools!add_cache_tier, TierCommands
  <2>2. Pools!add_cache_tier \in Seq(Commands)
    BY <2>1, SeqMonotonic DEF Commands
  <2> QED BY <1>4, <2>2, PoolsBegin DEF Pools!AddTier
<1>5. CASE Pools!RemoveTier
  <2>1. Pools!remove_cache_tier \in Seq(TierCommands)
    <3>1. <<"tier mode none", "tier remove">> \in Seq(TierCommands)
      BY DEF TierCommands
    <3>2. <<"tier mode forward", "tier flush", "tier remove-overlay", "tier remove">>
            \in Seq(TierCommands)
      BY DEF TierCommands
    <3>3. <<>> \in Seq(TierCommands)
      OBVIOUS
    <3> QED BY <3>1, <3>2, <3>3, Zenon DEF Pools!remove_cache_tier
  <2>2. Pools!remove_cache_tier \in Seq(Commands)
    BY <2>1, SeqMonotonic DEF Commands
  <2> QED BY <1>5, <2>2, PoolsBegin DEF Pools!RemoveTier
<1>6. CASE Pools!Storage
  <2>1. Pools!ensure_ceph_storage \in Seq(Commands)
    BY StorageIs, SeqMonotonic DEF Commands
  <2> QED BY <1>6, <2>1, PoolsBegin DEF Pools!Storage
<1>7. CASE Pools!Step
  <2>1. running \in {"pool", "update", "tier", "remove", "storage"}
    BY <1>7 DEF Pools!Step, PoolsInv, PoolsTypeOK
  <2> QED BY <1>7, <2>1, PoolGoesOn, TierGoesOn, StorageGoesOn
<1>8. CASE Pools!Fail
  BY <1>8, PoolsFail
<1>9. CASE Pools!Busy
  <2>1. running # "pool"
    <3>1. Occurs("mkfs", operation)
      <4>1. operation \in Seq(Commands) /\ operation # <<>> /\ Head(operation) = "mkfs"
        BY <1>9 DEF Pools!Busy, PoolsInv, PoolsTypeOK
      <4> QED BY <4>1, AfterHead
    <3>2. "mkfs" \notin PoolCommands
      BY DEF PoolCommands, Settings
    <3> QED BY <3>1, <3>2 DEF PoolsInv, PoolPart
  <2> QED BY <1>9, <2>1, PoolsRest DEF Pools!Busy
<1>10. CASE Pools!Finish
  BY <1>10, PoolsRest DEF Pools!Finish
<1>11. CASE Pools!ClientWrites \/ Pools!ServiceWrites
  BY <1>11, PoolsWritten
<1>12. CASE Pools!Reboot
  BY <1>12, PoolsReboot
<1> QED
  BY <1>1, <1>2, <1>3, <1>4, <1>5, <1>6, <1>7, <1>8, <1>9, <1>10, <1>11, <1>12
  DEF Pools!Next

LEMMA PoolsConclusion == PoolsInv => Pools!PoolsRight
<1> SUFFICES ASSUME PoolsInv PROVE Pools!PoolsRight
  OBVIOUS
<1> USE DEF PoolsInv
<1>1. Pools!PgsFit
  BY GroupsFit DEF PoolsTypeOK, PoolPart, Pools!PgsFit
<1>2. Pools!PoolComplete
  BY DEF PoolPart, SetOrToSet, Settings, Pools!PoolComplete, Pools!None
<1>3. Pools!TierSafe
  BY DEF TierPart, Pools!TierSafe
<1>4. Pools!DataKept
  <2>1. Clean => Pools!Old \in Pools!Shown /\ (device.mounted => device.local \subseteq device.device)
    BY DEF DiskPart, Pools!Shown
  <2> QED BY <2>1 DEF Clean, Pools!DataKept
<1> QED BY <1>1, <1>2, <1>3, <1>4 DEF Pools!PoolsRight

\* Whatever the cluster's size, the request and the commands that fail: a pool has the
\* placement groups and the settings asked for, and neither it, its cache tier nor the
\* device that a unit's data are moved to loses data.  (BasePool.create, get_pgs,
\* remove_cache_tier, ensure_ceph_storage)
THEOREM PoolsAreRight == AllSpec => []PoolsRight
<1> DEFINE I == part = "pools" => PoolsInv
<1>1. AllInit => I
  BY PoolsStart DEF AllInit
<1>2. I /\ [AllNext]_all_vars => I'
  BY ManagedParts, PoolsInductive
<1>3. I => PoolsRight
  BY PoolsConclusion DEF PoolsRight
<1> HIDE DEF I
<1> QED BY <1>1, <1>2, <1>3, PTL DEF AllSpec
=============================================================================
