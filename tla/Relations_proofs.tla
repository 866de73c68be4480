---------------------------- MODULE Relations_proofs ----------------------------
(***************************************************************************)
(* The components of MCRelations, each in a section of its own: the        *)
(* requests to the Ceph brokers, the units of an application, hacluster,   *)
(* the workload status, the endpoints, what contexts make of the units of  *)
(* a relation, and the table of files and services.  For any units,        *)
(* relations, addresses and services, and any number of changes and        *)
(* failures.                                                               *)
(***************************************************************************)
EXTENDS MCRelations, ScriptLemmas

\* A step of the whole is one of the component whose part it is.
LEMMA Parts ==
  ASSUME [AllNext]_all_vars
  PROVE  /\ part' = part
         /\ [Next]_broker_vars
         /\ part = "table" => [Table!Next]_(Table!table_vars)
         /\ part = "units" => [Api!Next]_(Api!units_vars)
         /\ part = "ha" => [Ha!Next]_(Ha!ha_vars)
         /\ part = "status" => [Status!Next]_(Status!status_vars)
         /\ part = "endpoints" => [Ends!Next]_(Ends!endpoint_vars)
         /\ part = "proxies" => [Proxy!Next]_(Proxy!proxy_vars)
         /\ part = "amqp" => [Amqp!Next]_amqp
         /\ part = "creds" => [Creds!Next]_peers
         /\ part = "napi" => [Napi!Next]_(Napi!napi_vars)
<1> USE DEF Only
<1>1. CASE UNCHANGED all_vars
  BY <1>1 DEF all_vars
<1>2. CASE TableStep \/ PortsStep \/ NicStep \/ ProxyStep
  BY <1>2 DEF TableStep, PortsStep, NicStep, ProxyStep
<1>3. CASE StatusStep \/ EndsStep \/ HaStep \/ ApiStep \/ BrokerStep \/ AmqpStep \/
          CredsStep \/ NapiStep
  BY <1>3 DEF StatusStep, EndsStep, HaStep, ApiStep, BrokerStep, AmqpStep,
     CredsStep, NapiStep
<1> QED
  BY <1>1, <1>2, <1>3 DEF AllNext

-----------------------------------------------------------------------------
\* CephBroker: an identifier stands for the same request wherever it is seen, and that
\* makes an answer that names the request which is there now an answer to it.

CONSTANT Operations  \* records with the fields name and compared

BrokerRequests == [id : Nat, ops : Seq(Operations)]
BrokerAnswers == [targeted : BOOLEAN, code : {0, 1}, id : Nat]

BrokerTypeOK ==
    /\ related \subseteq Relations
    /\ wanted \in Seq(Operations)
    /\ sent \in [Relations -> {None} \cup BrokerRequests]
    /\ answers \in [Relations -> [Monitors -> {None} \cup BrokerAnswers]]
    /\ last_id \in Nat
    /\ performed \in [Relations -> SUBSET BrokerRequests]

\* A relation has at most one request with an identifier: the one it shows, if it is that.
OneRequest ==
    \A rid \in Relations :
        /\ sent[rid] # None => sent[rid].id <= last_id
        /\ \A done \in performed[rid] :
              /\ done.id <= last_id
              /\ sent[rid] # None /\ done.id = sent[rid].id => done = sent[rid]

\* Success is answered for a request that was carried out on that relation.
Answered ==
    \A rid \in Relations, m \in Monitors :
        answers[rid][m] # None =>
            /\ answers[rid][m].targeted
            /\ answers[rid][m].code = 0 =>
                  \E done \in performed[rid] : done.id = answers[rid][m].id

BrokerInv ==
    /\ BrokerTypeOK
    /\ \A rid \in Relations \ related : sent[rid] = None
    /\ OneRequest
    /\ Answered
    /\ OneIdentifier
    /\ ActedOnAnswered

-----------------------------------------------------------------------------
LEMMA EqualBothWays ==
  ASSUME NEW a \in Seq(Operations), NEW b \in Seq(Operations), _ops_equal(a, b)
  PROVE  _ops_equal(b, a)
<1>1. DOMAIN a = 1..Len(a) /\ DOMAIN b = 1..Len(b) /\ Len(a) = Len(b)
  BY DEF _ops_equal
<1> QED
  BY <1>1 DEF _ops_equal

\* What is taken for complete is, relation by relation, the request that was carried out.
LEMMA CompleteIsDone ==
  ASSUME BrokerInv, is_request_complete(wanted), NEW rid \in related
  PROVE  sent[rid] # None /\ sent[rid] \in performed[rid] /\ _ops_equal(sent[rid].ops, wanted)
<1>1. /\ rid \in Relations
      /\ sent[rid] # None
      /\ _ops_equal(wanted, sent[rid].ops)
      /\ is_request_complete_for_rid(sent[rid], rid)
  BY DEF BrokerInv, BrokerTypeOK, is_request_complete, IsComplete, IsSent, Same, Request
<1>2. sent[rid] \in BrokerRequests /\ wanted \in Seq(Operations)
  BY <1>1 DEF BrokerInv, BrokerTypeOK
<1>3. _ops_equal(sent[rid].ops, wanted)
  BY <1>1, <1>2, EqualBothWays DEF BrokerRequests
<1>4. PICK m \in Monitors : /\ answers[rid][m] # None /\ answers[rid][m].code = 0
                            /\ answers[rid][m].targeted => answers[rid][m].id = sent[rid].id
  BY <1>1 DEF is_request_complete_for_rid
<1>5. answers[rid][m].targeted /\ \E done \in performed[rid] : done.id = answers[rid][m].id
  BY <1>1, <1>4 DEF BrokerInv, Answered
<1>6. PICK done \in performed[rid] : done.id = sent[rid].id
  BY <1>4, <1>5
<1>7. done = sent[rid]
  BY <1>1, <1>6 DEF BrokerInv, OneRequest
<1> QED
  BY <1>1, <1>3, <1>6, <1>7

LEMMA BrokerInitial ==
  ASSUME Wanted \subseteq Seq(Operations), Init
  PROVE  BrokerInv
  BY DEF Init, BrokerInv, BrokerTypeOK, OneRequest, Answered, OneIdentifier, ActedOnAnswered

LEMMA SendBroker ==
  ASSUME BrokerInv, Send
  PROVE  BrokerInv'
<1> DEFINE sending == Request(last_id + 1, wanted)
<1>1. /\ sending \in BrokerRequests /\ sending.id = last_id + 1 /\ last_id' = last_id + 1 /\ last_id \in Nat
      /\ sent' = [rid \in Relations |-> IF rid \in related THEN sending ELSE sent[rid]]
      /\ UNCHANGED <<related, wanted, answers, performed, acted>>
  BY DEF Send, BrokerInv, BrokerTypeOK, BrokerRequests, Request
<1> HIDE DEF sending
<1>2. BrokerTypeOK'
  BY <1>1 DEF BrokerInv, BrokerTypeOK
<1>3. OneRequest'
  <2> SUFFICES ASSUME NEW rid \in Relations
               PROVE  /\ sent'[rid] # None => sent'[rid].id <= last_id'
                      /\ \A done \in performed[rid] :
                            /\ done.id <= last_id'
                            /\ sent'[rid] # None /\ done.id = sent'[rid].id => done = sent'[rid]
    BY <1>1 DEF OneRequest
  <2>1. \A done \in performed[rid] : done.id \in Nat /\ done.id <= last_id
    BY DEF BrokerInv, BrokerTypeOK, OneRequest, BrokerRequests
  <2>2. CASE rid \in related
    BY <1>1, <2>1, <2>2
  <2>3. CASE rid \notin related
    BY <1>1, <2>1, <2>3 DEF BrokerInv
  <2> QED
    BY <2>2, <2>3
<1>4. Answered' /\ ActedOnAnswered'
  BY <1>1 DEF BrokerInv, Answered, ActedOnAnswered
<1>5. OneIdentifier' /\ \A rid \in Relations \ related' : sent'[rid] = None
  BY <1>1 DEF BrokerInv, BrokerTypeOK, OneIdentifier
<1> QED
  BY <1>2, <1>3, <1>4, <1>5 DEF BrokerInv

LEMMA AnswerBroker ==
  ASSUME BrokerInv, NEW rid \in Relations, NEW m \in Monitors, Answer(rid, m, TRUE, TRUE)
  PROVE  BrokerInv'
<1>1. /\ rid \in related /\ sent[rid] # None
      /\ UNCHANGED <<related, wanted, sent, last_id, acted>>
      /\ sent[rid] \in BrokerRequests
  BY DEF Answer, BrokerInv, BrokerTypeOK
<1>2. PICK code \in {0, 1} :
        /\ answers' = [answers EXCEPT ![rid][m] = [targeted |-> TRUE, code |-> code, id |-> sent[rid].id]]
        /\ performed' = IF code = 1 THEN performed
                        ELSE [performed EXCEPT ![rid] = @ \cup {sent[rid]}]
  BY DEF Answer
<1> DEFINE answer == [targeted |-> TRUE, code |-> code, id |-> sent[rid].id]
<1>3. answer \in BrokerAnswers /\ answer.targeted /\ answer.code = code /\ answer.id = sent[rid].id
  BY <1>1 DEF BrokerAnswers, BrokerRequests
<1> HIDE DEF answer
<1>4. answers' = [answers EXCEPT ![rid][m] = answer]
  BY <1>2 DEF answer
<1>5. BrokerTypeOK'
  <2>1. answers' \in [Relations -> [Monitors -> {None} \cup BrokerAnswers]]
    BY <1>3, <1>4 DEF BrokerInv, BrokerTypeOK
  <2>2. performed' \in [Relations -> SUBSET BrokerRequests]
    BY <1>1, <1>2 DEF BrokerInv, BrokerTypeOK
  <2> QED
    BY <1>1, <2>1, <2>2 DEF BrokerInv, BrokerTypeOK
<1>6. \A r \in Relations : performed[r] \subseteq performed'[r]
                           /\ performed'[r] \subseteq performed[r] \cup {sent[r]}
  BY <1>1, <1>2 DEF BrokerInv, BrokerTypeOK
<1>7. \A r \in Relations : performed'[r] # performed[r] => sent[r] # None
  BY <1>1, <1>2 DEF BrokerInv, BrokerTypeOK
<1>8. OneRequest'
  BY <1>1, <1>6, <1>7 DEF BrokerInv, OneRequest
<1>9. Answered'
  <2> SUFFICES ASSUME NEW r \in Relations, NEW n \in Monitors, answers'[r][n] # None
               PROVE  /\ answers'[r][n].targeted
                      /\ answers'[r][n].code = 0 =>
                            \E done \in performed'[r] : done.id = answers'[r][n].id
    BY DEF Answered
  <2>1. CASE r = rid /\ n = m
    <3>1. answers'[r][n] = answer
      BY <1>4, <2>1 DEF BrokerInv, BrokerTypeOK
    <3>2. code = 0 => sent[rid] \in performed'[rid]
      BY <1>2 DEF BrokerInv, BrokerTypeOK
    <3> QED
      BY <1>3, <2>1, <3>1, <3>2
  <2>2. CASE ~(r = rid /\ n = m)
    <3>1. answers'[r][n] = answers[r][n]
      BY <1>4, <2>2 DEF BrokerInv, BrokerTypeOK
    <3> QED
      BY <1>6, <3>1 DEF BrokerInv, Answered
  <2> QED
    BY <2>1, <2>2
<1>10. OneIdentifier' /\ \A r \in Relations \ related' : sent'[r] = None
  BY <1>1 DEF BrokerInv, OneIdentifier
<1>11. ActedOnAnswered'
  BY <1>1, <1>6 DEF BrokerInv, ActedOnAnswered, BrokerTypeOK
<1> QED
  BY <1>5, <1>8, <1>9, <1>10, <1>11 DEF BrokerInv

LEMMA ActionBroker ==
  ASSUME BrokerInv, NEW rid \in Relations, NEW m \in Monitors,
         Complete(rid, m) \/ Interrupted(rid, m)
  PROVE  BrokerInv'
<1>1. /\ rid \in related /\ is_request_complete(wanted) /\ acted' = acted \cup {sent[rid].id}
      /\ UNCHANGED <<related, wanted, sent, answers, last_id, performed>>
  BY DEF Complete, Interrupted
<1>2. sent[rid] \in performed[rid]
  BY <1>1, CompleteIsDone
<1>3. ActedOnAnswered'
  BY <1>1, <1>2 DEF BrokerInv, ActedOnAnswered
<1> QED
  BY <1>1, <1>3 DEF BrokerInv, BrokerTypeOK, OneRequest, Answered, OneIdentifier

LEMMA BrokerInductive ==
  ASSUME Wanted \subseteq Seq(Operations), BrokerInv, [Next]_broker_vars
  PROVE  BrokerInv'
<1>1. CASE Reconfigure
  BY <1>1 DEF Reconfigure, BrokerInv, BrokerTypeOK, OneRequest, Answered, OneIdentifier, ActedOnAnswered
<1>2. ASSUME NEW rid \in Relations, Relate(rid) PROVE BrokerInv'
  BY <1>2 DEF Relate, BrokerInv, BrokerTypeOK, OneRequest, Answered, OneIdentifier, ActedOnAnswered
<1>3. CASE UNCHANGED broker_vars
  BY <1>3 DEF broker_vars, BrokerInv, BrokerTypeOK, OneRequest, Answered, OneIdentifier, ActedOnAnswered
<1> QED
  BY <1>1, <1>2, <1>3, SendBroker, AnswerBroker, ActionBroker DEF Next

LEMMA InvGivesRequests == BrokerInv => RequestsTrue
<1> SUFFICES ASSUME BrokerInv PROVE RequestsTrue
  OBVIOUS
<1>1. CompleteTrue
  BY CompleteIsDone DEF CompleteTrue
<1> QED
  BY <1>1 DEF BrokerInv, RequestsTrue

\* What a hook takes for complete was carried out on every relation, whichever requests
\* and answers came before; all relations show one request; and the action that waits for
\* it is run for requests that were carried out.  The charm may want any sequence of
\* operations.  (is_request_complete, send_request_if_needed, is_broker_action_done)
THEOREM RequestsAreTrue ==
  ASSUME Wanted \subseteq Seq(Operations)
  PROVE  Spec => []RequestsTrue
<1>1. Init => BrokerInv
  BY BrokerInitial
<1>2. BrokerInv /\ [Next]_broker_vars => BrokerInv'
  BY BrokerInductive
<1> QED
  BY <1>1, <1>2, InvGivesRequests, PTL DEF Spec
-----------------------------------------------------------------------------
\* ApiUnits: a unit that its peers see ready, or that is about to tell them, has been
\* ready in a hook; and a leader that is about to set the flag has initialised the
\* database.

Some == SUBSET PeerUnits
Sites == [leadership : BOOLEAN, goal_state : BOOLEAN, ha : BOOLEAN, goal : Some, left : Some,
          peers : [PeerUnits -> Some], allowed : Some, maintenance : BOOLEAN, paused : Some,
          clustered : Some, crm : PeerUnits \cup {Api!NoUnit}]
ApiTypeOK ==
    /\ site \in Sites
    /\ hooks \in [PeerUnits -> {"idle", "initialising", "READY", "NOTREADY"}]
    /\ published \in [PeerUnits -> {"none", "READY", "NOTREADY"}]
    /\ DOMAIN shown = PeerUnits
    /\ schema \in Nat

\* No unit is its own peer.
NotOwnPeer == \A u \in PeerUnits : u \notin site.peers[u]

Proven ==
    \A u \in PeerUnits : published[u] = "READY" \/ hooks[u] = "READY" => u \in proven

Initialised ==
    flag \/ proven # {} \/ (\E u \in PeerUnits : hooks[u] = "initialising") => schema > 0

ApiInv == ApiTypeOK /\ NotOwnPeer /\ Proven /\ Initialised /\ Api!ReadyTogether

LEMMA ApiInitial == Api!Init => ApiInv
<1> SUFFICES ASSUME Api!Init PROVE ApiInv
  OBVIOUS
<1>1. Deployed \subseteq PeerUnits
  BY ApiAssumption
<1>2. site \in Sites /\ site.goal = Deployed /\ site.peers = [u \in PeerUnits |-> {}]
  <2>1. PICK l \in BOOLEAN, g \in BOOLEAN, h \in BOOLEAN : site = Api!Site(l, g, h, Deployed)
    BY Zenon DEF Api!Init
  <2> QED BY <1>1, <2>1 DEF Api!Site, Sites, Some
<1>3. /\ flag = FALSE /\ schema = 0 /\ proven = {}
      /\ hooks = [u \in PeerUnits |-> "idle"]
      /\ published = [u \in PeerUnits |-> "none"]
      /\ shown = [u \in PeerUnits |-> Api!NotReady]
  BY DEF Api!Init, Api!Idle
<1>4. ApiTypeOK
  BY <1>1, <1>2, <1>3 DEF ApiTypeOK
<1>5. NotOwnPeer /\ Proven /\ Initialised
  BY <1>2, <1>3 DEF NotOwnPeer, Proven, Initialised
<1>6. Api!ReadyTogether
  BY <1>3 DEF Api!ReadyTogether, Api!Shown
<1> QED
  BY <1>4, <1>5, <1>6 DEF ApiInv

\* The operator that an instance knows by a name of its own.
LEMMA SameCardinality == \A S : Api!Cardinality(S) = Cardinality(S)
  BY DEF Api!Cardinality, Cardinality

\* A unit that shows the application as ready counts as many units as there are to be.
LEMMA CountedAll ==
  ASSUME ApiInv, NEW u \in site.goal, site.goal_state, Api!is_expected_scale(u)
  PROVE  Cardinality({u} \cup site.peers[u]) >= Cardinality(site.goal)
<1> DEFINE others == site.goal \ {u}
           peers_ == site.peers[u]
<1>1. /\ IsFiniteSet(site.goal) /\ IsFiniteSet(peers_) /\ u \in PeerUnits /\ u \notin peers_
  <2>1. u \in PeerUnits /\ site.goal \subseteq PeerUnits /\ peers_ \subseteq PeerUnits
    BY DEF ApiInv, ApiTypeOK, Sites, Some
  <2> QED BY <2>1, ApiAssumption, FS_Subset DEF ApiInv, NotOwnPeer
<1>2. Cardinality(peers_) >= Cardinality(others)
  BY SameCardinality DEF Api!is_expected_scale, Api!expected_peer_units
<1> HIDE DEF peers_
<1>3. Cardinality(others) = Cardinality(site.goal) - 1
  BY <1>1, FS_RemoveElement
<1>4. Cardinality(peers_ \cup {u}) = Cardinality(peers_) + 1
  BY <1>1, FS_AddElement
<1>5. Cardinality(peers_) \in Nat /\ Cardinality(site.goal) \in Nat /\ peers_ \cup {u} = {u} \cup peers_
  BY <1>1, FS_CardinalityType
<1> HIDE DEF others
<1>6. Cardinality(peers_ \cup {u}) >= Cardinality(site.goal)
  BY <1>2, <1>3, <1>4, <1>5
<1> QED BY <1>5, <1>6, Zenon DEF peers_

LEMMA ApiInductive ==
  ASSUME ApiInv, [Api!Next]_(Api!units_vars)
  PROVE  ApiInv'
<1> USE DEF ApiInv
<1>1. CASE Api!Environment
  <2>1. UNCHANGED <<flag, hooks, published, shown, schema, proven>>
    BY <1>1 DEF Api!Environment
  <2> DEFINE Kept == site' \in Sites /\ site'.goal_state = site.goal_state /\ NotOwnPeer'
  <2>2. Kept
    <3> USE DEF ApiTypeOK, NotOwnPeer, Sites, Some
    <3>1. ASSUME NEW u \in PeerUnits, NEW v \in PeerUnits, Api!Join(u, v) PROVE Kept
      <4> DEFINE met == [site.peers EXCEPT ![u] = @ \cup {v}]
      <4>1. met \in [PeerUnits -> Some] /\ \A w \in PeerUnits : w \notin met[w]
        BY <3>1 DEF Api!Join
      <4>2. site' = [site EXCEPT !.peers = met]
        BY <3>1 DEF Api!Join
      <4> HIDE DEF met
      <4> QED BY <4>1, <4>2
    <3>2. ASSUME NEW u \in PeerUnits, NEW v \in PeerUnits, Api!Depart(u, v) PROVE Kept
      <4> DEFINE met == [site.peers EXCEPT ![u] = @ \ {v}]
      <4>1. met \in [PeerUnits -> Some] /\ \A w \in PeerUnits : w \notin met[w]
        BY <3>2 DEF Api!Depart
      <4>2. site' = [site EXCEPT !.peers = met]
        BY <3>2 DEF Api!Depart
      <4> HIDE DEF met
      <4> QED BY <4>1, <4>2
    <3>3. ASSUME NEW u \in PeerUnits, Api!Add(u) \/ Api!Allow(u) \/ Api!Cluster(u) PROVE Kept
      BY <3>3 DEF Api!Add, Api!Allow, Api!Cluster
    <3>4. ASSUME NEW u \in PeerUnits, Api!Remove(u) PROVE Kept
      <4> DEFINE met == [site.peers EXCEPT ![u] = {}]
                 heir == IF site.crm = u THEN Api!NoUnit ELSE site.crm
      <4>1. met \in [PeerUnits -> Some] /\ \A w \in PeerUnits : w \notin met[w]
        OBVIOUS
      <4>2. heir \in PeerUnits \cup {Api!NoUnit}
        OBVIOUS
      <4>3. site' = [site EXCEPT !.goal = @ \ {u}, !.left = @ \cup {u}, !.allowed = @ \ {u},
                                 !.clustered = @ \ {u}, !.peers = met, !.crm = heir]
        BY <3>4 DEF Api!Remove
      <4> HIDE DEF met, heir
      <4>4. /\ site.goal \ {u} \in Some /\ site.left \cup {u} \in Some
            /\ site.allowed \ {u} \in Some /\ site.clustered \ {u} \in Some
        OBVIOUS
      <4> QED BY <4>1, <4>2, <4>3, <4>4
    <3>5. ASSUME NEW u \in PeerUnits, Api!Disturb(u) PROVE Kept
      <4> DEFINE other == ~site.maintenance
      <4>1. other \in BOOLEAN
        OBVIOUS
      <4> HIDE DEF other
      <4>2. CASE site' = [site EXCEPT !.maintenance = other]
        BY <4>1, <4>2
      <4>3. CASE \E some \in Some : site' = [site EXCEPT !.paused = some]
        BY <4>3
      <4>4. CASE site' = [site EXCEPT !.crm = u]
        BY <4>4
      <4>5. CASE UNCHANGED site
        BY <4>5
      <4>6. /\ site.paused \ {u} \in Some /\ site.paused \cup {u} \in Some
        OBVIOUS
      <4> QED BY <3>5, <4>2, <4>3, <4>4, <4>5, <4>6 DEF Api!Disturb, other
    <3> QED BY <1>1, <3>1, <3>2, <3>3, <3>4, <3>5 DEF Api!Environment
  <2> QED BY <2>1, <2>2 DEF ApiTypeOK, NotOwnPeer, Proven, Initialised, Api!ReadyTogether, Api!Shown
<1>2. ASSUME NEW u \in PeerUnits, Api!Initialise(u) PROVE ApiInv'
  BY <1>2 DEF Api!Initialise, Api!Idle, ApiTypeOK, NotOwnPeer, Proven, Initialised,
              Api!ReadyTogether, Api!Shown
<1>3. ASSUME NEW u \in PeerUnits, Api!set_db_initialised(u) PROVE ApiInv'
  BY <1>3 DEF Api!set_db_initialised, Api!Idle, ApiTypeOK, NotOwnPeer, Proven, Initialised,
              Api!ReadyTogether, Api!Shown
<1>4. ASSUME NEW u \in PeerUnits, Api!Kill(u) PROVE ApiInv'
  BY <1>4 DEF Api!Kill, Api!Idle, ApiTypeOK, NotOwnPeer, Proven, Initialised,
              Api!ReadyTogether, Api!Shown
<1>5. ASSUME NEW u \in PeerUnits, Api!inform_peers_unit_state(u) PROVE ApiInv'
  BY <1>5 DEF Api!inform_peers_unit_state, Api!Idle, ApiTypeOK, NotOwnPeer, Proven, Initialised,
              Api!ReadyTogether, Api!Shown
<1>6. ASSUME NEW u \in PeerUnits, Api!inform_peers_if_ready(u) PROVE ApiInv'
  <2> DEFINE ready == Api!check_api_unit_ready(u)
             state == IF ready THEN "READY" ELSE "NOTREADY"
             shows == IF Api!get_api_application_status(u) = "ready"
                      THEN [counted |-> {u} \cup site.peers[u], goal |-> site.goal]
                      ELSE Api!NotReady
  <2>1. /\ u \in site.goal
        /\ shown' = [shown EXCEPT ![u] = shows]
        /\ hooks' = [hooks EXCEPT ![u] = state]
        /\ proven' = IF ready THEN proven \cup {u} ELSE proven
        /\ UNCHANGED <<site, flag, published, schema>>
    BY <1>6 DEF Api!inform_peers_if_ready
  <2>2. ready => flag /\ Api!is_expected_scale(u)
    BY DEF Api!check_api_unit_ready, Api!get_api_unit_status, Api!is_db_initialised
  <2>3. ASSUME shows # Api!NotReady
        PROVE  /\ ready
               /\ shows = [counted |-> {u} \cup site.peers[u], goal |-> site.goal]
               /\ \A v \in site.peers[u] : published[v] = "READY"
    BY <2>3 DEF Api!get_api_application_status, Api!get_api_unit_status, Api!are_peers_ready,
                Api!check_api_unit_ready
  <2> HIDE DEF ready, shows
  <2>4. ApiTypeOK' /\ NotOwnPeer' /\ Proven' /\ Initialised'
    BY <2>1, <2>2 DEF ApiTypeOK, NotOwnPeer, Proven, Initialised
  <2>5. Api!ReadyTogether'
    <3> SUFFICES ASSUME NEW v \in PeerUnits, shown'[v] # Api!NotReady
                 PROVE  /\ shown'[v].counted \subseteq proven'
                        /\ site.goal_state =>
                              Api!Cardinality(shown'[v].counted) >= Api!Cardinality(shown'[v].goal)
      <4>1. site'.goal_state = site.goal_state
        BY <2>1
      <4> QED BY <4>1 DEF Api!ReadyTogether, Api!Shown, Api!NotReady
    <3>1. CASE v = u
      <4>1. /\ shown'[v] = shows /\ ready
            /\ shows.counted = {u} \cup site.peers[u] /\ shows.goal = site.goal
        BY <2>1, <2>3, <3>1 DEF ApiTypeOK
      <4>2. {u} \cup site.peers[u] \subseteq proven'
        BY <2>1, <2>3, <3>1, <4>1 DEF Proven, ApiTypeOK, Sites, Some
      <4>3. site.goal_state => Cardinality({u} \cup site.peers[u]) >= Cardinality(site.goal)
        BY <2>1, <2>2, <4>1, CountedAll
      <4>4. site.goal_state => Cardinality(shown'[v].counted) >= Cardinality(shown'[v].goal)
        BY <4>1, <4>3, Zenon
      <4> QED BY <4>1, <4>2, <4>4, SameCardinality
    <3>2. CASE v # u
      <4>1. shown'[v] = shown[v]
        BY <2>1, <3>2 DEF ApiTypeOK
      <4> QED BY <2>1, <4>1 DEF Api!ReadyTogether, Api!Shown
    <3> QED BY <3>1, <3>2
  <2> QED BY <2>4, <2>5
<1>7. CASE UNCHANGED Api!units_vars
  BY <1>7 DEF Api!units_vars, ApiTypeOK, NotOwnPeer, Proven, Initialised,
              Api!ReadyTogether, Api!Shown
<1> QED
  BY <1>1, <1>2, <1>3, <1>4, <1>5, <1>6, <1>7 DEF Api!Next

LEMMA ApiConclusion == ApiInv => Api!UnitsRight
<1> SUFFICES ASSUME ApiInv PROVE Api!UnitsRight
  OBVIOUS
<1>1. Api!OneLeads
  <2> SUFFICES ASSUME NEW u \in site.goal, NEW v \in site.goal, u # v,
                      u \in site.peers[v], v \in site.peers[u],
                      Api!is_clustered(u) = Api!is_clustered(v),
                      Api!is_elected_leader(u), Api!is_elected_leader(v)
               PROVE  FALSE
    BY DEF Api!OneLeads
  <2>1. u \in Nat /\ v \in Nat
    BY ApiAssumption DEF ApiInv, ApiTypeOK, Sites, Some
  <2>2. ~site.leadership /\ ~Api!is_clustered(u) /\ ~Api!is_clustered(v)
    BY DEF Api!is_elected_leader, Api!is_crm_leader
  <2>3. v > u /\ u > v
    BY <2>2 DEF Api!is_elected_leader, Api!oldest_peer
  <2> QED BY <2>1, <2>3
<1>2. Api!WaitsApart
  <2> SUFFICES ASSUME NEW modulo \in 1..3, NEW u \in 0..3, NEW v \in 0..3
               PROVE  /\ (Api!distributed_wait(u, modulo, 30) = 0) = (u = leader)
                      /\ Api!distributed_wait(u, modulo, 30) = Api!distributed_wait(v, modulo, 30) =>
                            u = leader \/ v = leader \/ u % modulo = v % modulo
    BY DEF Api!WaitsApart
  <2>1. /\ u % modulo \in Nat /\ u % modulo < modulo
        /\ v % modulo \in Nat /\ v % modulo < modulo
    OBVIOUS
  <2>2. \A w : Api!distributed_wait(w, modulo, 30) =
            IF leader = w THEN 0
            ELSE IF w % modulo = 0 THEN modulo * 30 ELSE (w % modulo) * 30
    BY DEF Api!distributed_wait, Api!modulo_distribution
  <2>3. modulo = 1 \/ modulo = 2 \/ modulo = 3
    OBVIOUS
  <2> QED BY <2>1, <2>2, <2>3
<1> QED
  BY <1>1, <1>2 DEF ApiInv, Initialised, Api!InitialisedFirst, Api!UnitsRight

\* However many units there are, join and leave, wherever the leadership moves and whichever
\* hooks are killed: a unit shows the application as ready only when every unit it counts
\* has been, and where Juju tells the goal it counts enough; nobody is ready before the
\* database is initialised; and of two units that see each other one leads at most.
\* (get_api_application_status, set_db_initialised, is_elected_leader, distributed_wait)
THEOREM UnitsAgree == AllSpec => []UnitsRight
<1> DEFINE Inv == part = "units" => ApiInv
<1>1. AllInit => Inv
  BY ApiInitial DEF AllInit
<1>2. Inv /\ [AllNext]_all_vars => Inv'
  BY Parts, ApiInductive
<1>3. Inv => UnitsRight
  BY ApiConclusion DEF UnitsRight
<1> QED BY <1>1, <1>2, <1>3, PTL DEF AllSpec

-----------------------------------------------------------------------------
\* HighAvailability: what hacluster is told to run and what it is told to delete have
\* names of different kinds, and the relation says what the options ask for until one
\* of them changes.

\* Names of the resources to create, and of those to delete.
VipKeys == {Ha!VipKey(v) : v \in Vips}
HostnameKeys == {Ha!HostnameKey(t) : t \in Types}
OldKeys == {Ha!NicKey(n) : n \in Nics} \cup {Ha!NicFamilyKey(n) : n \in Nics}

HaTypeOK ==
    /\ options \in Ha!HaOptions
    /\ nic_of \in [Vips -> Nics \cup {NoNic}]
    /\ told = [resources |-> told.resources, group |-> told.group, delete |-> told.delete]
    /\ fresh \in [told : BOOLEAN, served : BOOLEAN]

OneKind ==
    /\ \/ told.resources \subseteq VipKeys \cup {Ha!Haproxy}
       \/ told.resources \subseteq HostnameKeys \cup {Ha!Haproxy}
    /\ told.delete \subseteq OldKeys

\* What the relation says, and what the cluster runs, of what the options of now ask for.
Asks(create, delete) ==
    IF options.dns THEN \A t \in options.hostnames : Ha!HostnameKey(t) \in create
    ELSE \A i \in DOMAIN options.vips :
           Ha!get_vip_settings(options.vips[i]) # NoNic =>
              /\ Ha!VipKey(options.vips[i]) \in create
              /\ Ha!NicKey(Ha!get_vip_settings(options.vips[i])) \in delete
Follows ==
    /\ fresh.told => Asks(told.resources, told.delete)
    /\ fresh.served => fresh.told /\ told.resources \subseteq served /\ told.delete \cap served = {}

HaInv == HaTypeOK /\ OneKind /\ Follows

\* Names of different kinds are different.
LEMMA DifferentKeys ==
  /\ OldKeys \cap (VipKeys \cup HostnameKeys \cup {Ha!Haproxy}) = {}
  /\ VipKeys \cap (HostnameKeys \cup {Ha!Haproxy}) = {}
  /\ Ha!Haproxy \notin HostnameKeys
<1>1. \A v, n : /\ Ha!VipKey(v) # Ha!NicKey(n) /\ Ha!VipKey(v) # Ha!NicFamilyKey(n)
                /\ Ha!HostnameKey(v) # Ha!NicKey(n) /\ Ha!HostnameKey(v) # Ha!NicFamilyKey(n)
                /\ Ha!VipKey(v) # Ha!HostnameKey(n)
                /\ Ha!Haproxy # Ha!VipKey(v) /\ Ha!Haproxy # Ha!HostnameKey(v)
                /\ Ha!Haproxy # Ha!NicKey(v) /\ Ha!Haproxy # Ha!NicFamilyKey(v)
  <2> TAKE v, n
  <2>1. /\ Ha!VipKey(v)[1] = "vip" /\ Ha!HostnameKey(v)[1] = "hostname" /\ Ha!NicKey(n)[1] = "nic"
        /\ Ha!NicFamilyKey(n)[1] = "nic" /\ Ha!Haproxy[1] = "haproxy"
        /\ Ha!HostnameKey(n)[1] = "hostname" /\ Ha!NicKey(v)[1] = "nic" /\ Ha!NicFamilyKey(v)[1] = "nic"
    BY DEF Ha!VipKey, Ha!NicKey, Ha!NicFamilyKey, Ha!HostnameKey, Ha!Haproxy
  <2> QED BY <2>1
<1> QED BY <1>1 DEF OldKeys, VipKeys, HostnameKeys

LEMMA HaInitial == Ha!Init => HaInv
<1> SUFFICES ASSUME Ha!Init PROVE HaInv
  OBVIOUS
<1>1. options \in Ha!HaOptions
  BY DEF Ha!Init, Ha!HaOptions, Ha!Lists
<1>2. /\ told = [resources |-> {}, group |-> {}, delete |-> {}]
      /\ fresh = [told |-> FALSE, served |-> FALSE] /\ nic_of \in [Vips -> Nics \cup {NoNic}]
  BY DEF Ha!Init
<1> QED BY <1>1, <1>2 DEF HaInv, HaTypeOK, OneKind, Follows

\* The interfaces of the VIPs in the option, two at most.
LEMMA VipsOfOption ==
  ASSUME HaTypeOK
  PROVE  /\ DOMAIN options.vips \in {{}, {1}, 1..2}
         /\ \A i \in DOMAIN options.vips :
               /\ options.vips[i] \in Vips
               /\ Ha!get_vip_settings(options.vips[i]) \in Nics \cup {NoNic}
<1>1. options.vips \in Ha!Lists /\ options.vip_iface \in {NoNic} \cup Nics
  BY DEF HaTypeOK, Ha!HaOptions
<1>2. CASE options.vips = <<>>
  BY <1>2
<1>3. ASSUME NEW v \in Vips, options.vips = <<v>>
      PROVE  DOMAIN options.vips = {1} /\ options.vips[1] = v
  BY <1>3
<1>4. ASSUME NEW v \in Vips, NEW w \in Vips, options.vips = <<v, w>>
      PROVE  DOMAIN options.vips = 1..2 /\ options.vips[1] = v /\ options.vips[2] = w
  BY <1>4
<1>5. /\ DOMAIN options.vips \in {{}, {1}, 1..2}
      /\ \A i \in DOMAIN options.vips : options.vips[i] \in Vips
  BY <1>1, <1>2, <1>3, <1>4 DEF Ha!Lists
<1> QED BY <1>1, <1>5 DEF HaTypeOK, Ha!get_vip_settings

LEMMA GenerateHa ==
  ASSUME HaInv, Ha!generate_ha_relation_data
  PROVE  HaInv'
<1> USE DEF HaInv
<1>1. /\ told' = [resources |-> Ha!Chosen.resources \cup {Ha!Haproxy},
                  group |-> IF Ha!Chosen.group = {} THEN told.group ELSE Ha!Chosen.group,
                  delete |-> IF Ha!Chosen.delete = {} THEN told.delete ELSE Ha!Chosen.delete]
      /\ fresh' = [told |-> TRUE, served |-> FALSE]
      /\ UNCHANGED <<options, nic_of, served>>
  BY DEF Ha!generate_ha_relation_data
<1>2. HaTypeOK'
  BY <1>1 DEF HaTypeOK
<1>3. /\ Ha!Chosen.resources \subseteq VipKeys \/ Ha!Chosen.resources \subseteq HostnameKeys
      /\ Ha!Chosen.delete \subseteq OldKeys
      /\ Asks(Ha!Chosen.resources, Ha!Chosen.delete)
  <2>1. CASE options.dns
    <3>1. Ha!Chosen.resources = {Ha!HostnameKey(t) : t \in options.hostnames} /\ Ha!Chosen.delete = {}
      BY <2>1 DEF Ha!Chosen, Ha!update_hacluster_dns_ha
    <3>2. options.hostnames \subseteq Types
      BY DEF HaTypeOK, Ha!HaOptions
    <3> QED BY <2>1, <3>1, <3>2 DEF HostnameKeys, Asks
  <2>2. CASE ~options.dns
    <3> DEFINE nic(i) == Ha!get_vip_settings(options.vips[i])
               old(i) == IF \E j \in Ha!VipsWithNic : j < i /\ nic(j) = nic(i)
                         THEN Ha!NicFamilyKey(nic(i)) ELSE Ha!NicKey(nic(i))
    <3>1. /\ Ha!Chosen.resources = {Ha!VipKey(options.vips[i]) : i \in Ha!VipsWithNic}
          /\ Ha!Chosen.delete = {old(i) : i \in Ha!VipsWithNic}
      BY <2>2 DEF Ha!Chosen, Ha!update_hacluster_vip
    <3>2. \A i \in Ha!VipsWithNic : options.vips[i] \in Vips /\ nic(i) \in Nics /\ i \in 1..2
      BY VipsOfOption DEF Ha!VipsWithNic
    <3>3. \A i : i \in Ha!VipsWithNic <=> i \in DOMAIN options.vips /\ nic(i) # NoNic
      BY DEF Ha!VipsWithNic
    <3> HIDE DEF nic
    <3>4. Ha!Chosen.resources \subseteq VipKeys
      BY <3>1, <3>2 DEF VipKeys
    <3>5. Ha!Chosen.delete \subseteq OldKeys
      BY <3>1, <3>2 DEF OldKeys
    <3>6. ASSUME NEW i \in Ha!VipsWithNic
          PROVE  Ha!NicKey(nic(i)) \in Ha!Chosen.delete
      <4>1. CASE \E j \in Ha!VipsWithNic : j < i /\ nic(j) = nic(i)
        <5>1. PICK j \in Ha!VipsWithNic : j < i /\ nic(j) = nic(i)
          BY <4>1
        <5>2. j = 1
          BY <3>2, <5>1
        <5>3. old(j) = Ha!NicKey(nic(j))
          BY <3>2, <5>2
        <5> QED BY <3>1, <5>1, <5>3
      <4>2. CASE ~\E j \in Ha!VipsWithNic : j < i /\ nic(j) = nic(i)
        BY <3>1, <4>2
      <4> QED BY <4>1, <4>2
    <3> QED BY <2>2, <3>1, <3>3, <3>4, <3>5, <3>6 DEF Asks, nic
  <2> QED BY <2>1, <2>2
<1>4. OneKind'
  BY <1>1, <1>3 DEF OneKind
<1>5. Follows'
  <2>1. Ha!Chosen.delete \subseteq told'.delete /\ Ha!Chosen.resources \subseteq told'.resources
    BY <1>1
  <2>2. Asks(told'.resources, told'.delete)
    BY <1>3, <2>1 DEF Asks
  <2> QED BY <1>1, <2>2 DEF Follows, Asks, Ha!get_vip_settings
<1> QED BY <1>2, <1>4, <1>5

LEMMA HaInductive ==
  ASSUME HaInv, [Ha!Next]_(Ha!ha_vars)
  PROVE  HaInv'
<1> USE DEF HaInv
<1>1. CASE Ha!Move
  <2>1. /\ fresh' = [told |-> FALSE, served |-> FALSE]
        /\ UNCHANGED <<told, served>>
    BY <1>1 DEF Ha!Move
  <2>2. options' \in Ha!HaOptions /\ nic_of' \in [Vips -> Nics \cup {NoNic}]
    BY <1>1 DEF Ha!Move, HaTypeOK, Ha!HaOptions
  <2> QED BY <2>1, <2>2 DEF HaTypeOK, OneKind, Follows
<1>2. CASE Ha!Apply
  <2>1. /\ served' = (served \ told.delete) \cup told.resources
        /\ fresh' = [fresh EXCEPT !.served = fresh.told]
        /\ UNCHANGED <<options, nic_of, told>>
    BY <1>2 DEF Ha!Apply
  <2>2. fresh' \in [told : BOOLEAN, served : BOOLEAN] /\ fresh'.told = fresh.told
        /\ (fresh'.served => fresh.told)
    BY <2>1 DEF HaTypeOK
  <2>3. told.resources \cap told.delete = {}
    BY DifferentKeys DEF OneKind
  <2>4. told.resources \subseteq served' /\ told.delete \cap served' = {}
    BY <2>1, <2>3
  <2> QED BY <2>1, <2>2, <2>4 DEF HaTypeOK, OneKind, Follows, Asks, Ha!get_vip_settings
<1>3. CASE UNCHANGED Ha!ha_vars
  BY <1>3 DEF Ha!ha_vars, HaTypeOK, OneKind, Follows, Asks, Ha!get_vip_settings
<1> QED BY <1>1, <1>2, <1>3, GenerateHa DEF Ha!Next

LEMMA HaConclusion == HaInv => Ha!HaRight
<1> SUFFICES ASSUME HaInv PROVE Ha!HaRight
  OBVIOUS
<1>1. Ha!NeverBoth
  BY DifferentKeys DEF HaInv, OneKind, Ha!NeverBoth
<1>2. Ha!OneMode
  BY DifferentKeys DEF HaInv, OneKind, Ha!OneMode, VipKeys, HostnameKeys
<1>3. Ha!ServedAsAsked
  <2> SUFFICES ASSUME fresh.served
               PROVE  IF options.dns THEN \A t \in options.hostnames : Ha!HostnameKey(t) \in served
                      ELSE \A i \in DOMAIN options.vips :
                             LET v == options.vips[i]
                                 nic == IF nic_of[v] = NoNic THEN options.vip_iface ELSE nic_of[v]
                             IN nic # NoNic => Ha!VipKey(v) \in served /\ Ha!NicKey(nic) \notin served
    BY DEF Ha!ServedAsAsked, Ha!ToSet
  <2>1. /\ Asks(told.resources, told.delete)
        /\ told.resources \subseteq served /\ told.delete \cap served = {}
    BY DEF HaInv, Follows
  <2> QED BY <2>1 DEF Asks, Ha!get_vip_settings
<1> QED BY <1>1, <1>2, <1>3 DEF Ha!HaRight

\* Whatever the options and interfaces were before, and for any addresses and interfaces:
\* hacluster is never told to run and to delete one resource, nor to run VIPs and hostnames
\* together, and once it has done what the options of now ask for it runs each VIP or
\* hostname, and no VIP under its old name beside it.  (generate_ha_relation_data)
THEOREM ClusterAsAsked == AllSpec => []HaRight
<1> DEFINE Inv == part = "ha" => HaInv
<1>1. AllInit => Inv
  BY HaInitial DEF AllInit
<1>2. Inv /\ [AllNext]_all_vars => Inv'
  BY Parts, HaInductive
<1>3. Inv => HaRight
  BY HaConclusion DEF HaRight
<1> QED BY <1>1, <1>2, <1>3, PTL DEF AllSpec

-----------------------------------------------------------------------------
\* WorkloadStatus: a status that is current is that of the unit as it is.

StatusTypeOK ==
    /\ unit \in Status!Units
    /\ hook \in Status!Interfaces \cup {None}

StatusInv ==
    /\ StatusTypeOK
    /\ current => status = Status!assess_status(unit, hook)

\* The state a status has, without the order in which the code finds it.
Held(u) == u.paused \/ u.upgrading
Busy(u) == Status!Counted(u) \cap u.running # {}
StateOf(u, h) ==
    IF Held(u) THEN IF u.upgrading \/ Busy(u) THEN "blocked" ELSE "maintenance"
    ELSE IF \/ u.veth = "blocked"
            \/ Status!Missing(u, h) # {}
            \/ Status!incomplete_relation_data(u) = {} /\ ~(Status!Services \subseteq u.running)
         THEN "blocked"
         ELSE IF Status!incomplete_relation_data(u) # {} THEN "waiting" ELSE "active"

LEMMA Compared ==
  /\ \A s \in {None, "waiting", "blocked", "maintenance"} :
        Status!workload_state_compare(s, "blocked") = "blocked"
  /\ \A s \in {"active", "maintenance", "waiting", "blocked"} : Status!Hierarchy[s] \in Nat
  /\ Status!Hierarchy["active"] = 1 /\ Status!Hierarchy["maintenance"] = 2
  /\ Status!Hierarchy["waiting"] = 3 /\ Status!Hierarchy["blocked"] = 4
<1>1. /\ DOMAIN Status!Hierarchy = {"unknown", "active", "maintenance", "waiting", "blocked"}
      /\ Status!Hierarchy["active"] = 1 /\ Status!Hierarchy["maintenance"] = 2
      /\ Status!Hierarchy["waiting"] = 3 /\ Status!Hierarchy["blocked"] = 4
      /\ Status!Hierarchy["unknown"] = 0
  BY DEF Status!Hierarchy
<1>2. \A s \in {None, "waiting", "blocked", "maintenance"} :
        Status!workload_state_compare(s, "blocked") = "blocked"
  BY <1>1, StatusAssumption DEF Status!workload_state_compare
<1> QED BY <1>1, <1>2

\* What the status of a unit says, whichever of the checks found it.
LEMMA Assessed ==
  ASSUME NEW u \in Status!Units, NEW h
  PROVE  LET r == Status!assess_status(u, h)
         IN /\ r.state = StateOf(u, h)
            /\ r.missing = IF Held(u) THEN {} ELSE Status!Missing(u, h)
            /\ Held(u) /\ r.services = {} => ~Busy(u)
<1> DEFINE services == Status!Counted(u)
           claimed    == Status!_ows_check_if_paused(u, services)
           linked  == IF claimed.state = None THEN Status!_ows_check_generic_interfaces(u, h) ELSE claimed
           checked  == IF linked.state = "maintenance" THEN linked
                       ELSE Status!_ows_check_charm_func(linked, u.veth)
           serviced == IF checked.state = None THEN Status!_ows_check_services_running(u, services)
                       ELSE checked
           result   == IF serviced.state = None THEN Status!Result("active", Status!Silent) ELSE serviced
<1>1. Status!assess_status(u, h) = result
  BY DEF Status!assess_status, Status!_determine_os_workload_status
<1>2. /\ u.paused \in BOOLEAN /\ u.upgrading \in BOOLEAN
      /\ u.veth \in {None, "blocked"}
      /\ \A x : [Status!Silent EXCEPT !.services = x] = [missing |-> {}, incomplete |-> {}, services |-> x]
  BY DEF Status!Units, Status!Silent
<1>3. CASE Held(u)
  <2>1. ASSUME Busy(u)
        PROVE  claimed.state = "blocked" /\ claimed.missing = {} /\ claimed.services # {}
    <3>1. /\ Status!check_actually_paused(u, services).state = "blocked"
          /\ Status!check_actually_paused(u, services).missing = {}
          /\ Status!check_actually_paused(u, services).services = services \cap u.running
      BY <1>2, <2>1 DEF Busy, Status!check_actually_paused, Status!Result
    <3>2. claimed = Status!check_actually_paused(u, services)
      BY <1>3, <3>1, StatusAssumption DEF Held, Status!_ows_check_if_paused
    <3> QED BY <2>1, <3>1, <3>2 DEF Busy
  <2>2. ASSUME ~Busy(u)
        PROVE  claimed.state = (IF u.upgrading THEN "blocked" ELSE "maintenance") /\ claimed.missing = {}
    <3>1. Status!check_actually_paused(u, services).state = None
      BY <2>2 DEF Busy, Status!check_actually_paused, Status!Nothing, Status!Result
    <3>2. claimed.state = (IF u.upgrading THEN "blocked" ELSE "maintenance") /\ claimed.missing = {}
      BY <1>2, <1>3, <3>1 DEF Held, Status!_ows_check_if_paused, Status!Result, Status!Silent
    <3> QED BY <3>2
  <2>3. /\ claimed.state = IF u.upgrading \/ Busy(u) THEN "blocked" ELSE "maintenance"
        /\ claimed.missing = {}
        /\ claimed.services = {} => ~Busy(u)
    <3>1. CASE Busy(u)
      BY <2>1, <3>1
    <3>2. CASE ~Busy(u)
      BY <2>2, <3>2
    <3> QED BY <3>1, <3>2
  <2> HIDE DEF claimed
  <2>4. linked = claimed /\ claimed.state \in {"blocked", "maintenance"}
    BY <2>3, StatusAssumption
  <2> HIDE DEF linked
  <2>5. /\ checked.state = claimed.state /\ checked.missing = {} /\ checked.services = claimed.services
    <3>1. CASE claimed.state = "maintenance" \/ u.veth = None
      BY <2>3, <2>4, <3>1 DEF Status!_ows_check_charm_func
    <3>2. CASE claimed.state = "blocked" /\ u.veth = "blocked"
      BY <2>3, <2>4, <3>2, Compared, StatusAssumption DEF Status!_ows_check_charm_func
    <3> QED BY <1>2, <2>4, <3>1, <3>2
  <2> HIDE DEF checked
  <2>6. result = checked
    BY <2>4, <2>5, StatusAssumption
  <2> HIDE DEF result
  <2> QED BY <1>1, <1>3, <2>3, <2>5, <2>6 DEF StateOf
<1>4. CASE ~Held(u)
  <2>1. claimed.state = None
    BY <1>4 DEF Held, Status!_ows_check_if_paused, Status!Nothing, Status!Result
  <2>2. services = Status!Services
    BY <1>4 DEF Held, Status!Counted
  <2> DEFINE missing == Status!Missing(u, h)
             incomplete == Status!incomplete_relation_data(u)
  <2>3. missing \subseteq incomplete
    BY DEF Status!Missing
  <2> HIDE DEF missing, incomplete, claimed
  <2>4. /\ linked.state = IF missing # {} THEN "blocked" ELSE IF incomplete # {} THEN "waiting" ELSE None
        /\ linked.missing = missing
    BY <1>2, <2>1, <2>3 DEF Status!_ows_check_generic_interfaces, Status!Nothing, Status!Result,
       Status!Silent, missing, incomplete
  <2> HIDE DEF linked
  <2>5. checked.state = (IF u.veth = "blocked" THEN "blocked" ELSE linked.state) /\ checked.missing = missing
    <3>1. linked.state \in {None, "waiting", "blocked"}
      BY <2>4
    <3>2. CASE u.veth = None
      BY <2>4, <3>1, <3>2, StatusAssumption DEF Status!_ows_check_charm_func
    <3>3. CASE u.veth = "blocked"
      BY <2>4, <3>1, <3>3, Compared, StatusAssumption DEF Status!_ows_check_charm_func
    <3> QED BY <1>2, <3>2, <3>3, StatusAssumption
  <2> HIDE DEF checked
  <2>6. /\ serviced.state = IF checked.state # None THEN checked.state
                            ELSE IF Status!Services \subseteq u.running THEN None ELSE "blocked"
        /\ serviced.missing = missing
    BY <1>2, <2>2, <2>4, <2>5, StatusAssumption DEF Status!_ows_check_services_running, Status!Nothing,
       Status!Result, Status!Silent
  <2> HIDE DEF serviced
  <2>7. /\ result.state = IF serviced.state = None THEN "active" ELSE serviced.state
        /\ result.missing = missing
    BY <2>4, <2>5, <2>6, StatusAssumption DEF Status!Result, Status!Silent
  <2> HIDE DEF result
  <2> QED BY <1>1, <1>2, <1>4, <2>3, <2>4, <2>5, <2>6, <2>7, StatusAssumption DEF StateOf, missing, incomplete
<1> QED BY <1>3, <1>4

LEMMA StatusInitial == Status!Init => StatusInv
<1> SUFFICES ASSUME Status!Init PROVE StatusInv
  OBVIOUS
<1>1. unit \in Status!Units
  BY DEF Status!Init, Status!Units, Status!RelationStates
<1> QED BY <1>1 DEF Status!Init, StatusInv, StatusTypeOK

LEMMA StatusInductive ==
  ASSUME StatusInv, [Status!Next]_(Status!status_vars)
  PROVE  StatusInv'
<1> USE DEF StatusInv, StatusTypeOK
<1>1. ASSUME NEW u \in Status!Units, Status!Happens(u) PROVE StatusInv'
  BY <1>1 DEF Status!Happens
<1>2. ASSUME NEW s \in Status!Services, Status!ServiceChanges(s) PROVE StatusInv'
  BY <1>1, <1>2 DEF Status!ServiceChanges, Status!Units
<1>3. ASSUME NEW i \in Status!Interfaces, Status!RelationChanges(i) PROVE StatusInv'
  BY <1>1, <1>3 DEF Status!RelationChanges, Status!Units
<1>4. CASE Status!OptionsChange
  BY <1>1, <1>4 DEF Status!OptionsChange, Status!Units
<1>5. CASE Status!FlagsChange
  BY <1>1, <1>5 DEF Status!FlagsChange, Status!Units
<1>6. ASSUME NEW h \in Status!Interfaces \cup {None}, Status!Hook(h) PROVE StatusInv'
  BY <1>6 DEF Status!Hook
<1>7. CASE UNCHANGED Status!status_vars
  BY <1>7 DEF Status!status_vars
<1> QED
  BY <1>2, <1>3, <1>4, <1>5, <1>6, <1>7 DEF Status!Next

LEMMA StatusConclusion == StatusInv => Status!StatusTrue
<1> SUFFICES ASSUME StatusInv PROVE Status!StatusTrue
  OBVIOUS
<1>1. CASE ~current
  BY <1>1 DEF Status!StatusTrue, Status!ActiveMeansWhole, Status!WorseNeverBetter,
              Status!PausedIsQuiet, Status!MissingIsUnrelated
<1>2. CASE current
  <2>1. /\ unit \in Status!Units
        /\ status.state = StateOf(unit, hook)
        /\ status.missing = IF Held(unit) THEN {} ELSE Status!Missing(unit, hook)
        /\ Held(unit) /\ status.services = {} => ~Busy(unit)
    BY <1>2, Assessed DEF StatusInv, StatusTypeOK
  <2>2. Status!ActiveMeansWhole
    <3> DEFINE whole == \A g \in Status!required_interfaces(unit) :
                           \E i \in Status!Specific[g] : unit.rel[i] = "complete"
    <3>1. Status!incomplete_relation_data(unit) = {} <=> whole
      <4>1. \A g \in Status!required_interfaces(unit) : Status!Specific[g] \subseteq Status!Interfaces
        BY DEF Status!required_interfaces, Status!Interfaces
      <4> QED BY <4>1 DEF Status!incomplete_relation_data, Status!complete_contexts
    <3>2. Status!Missing(unit, hook) \subseteq Status!incomplete_relation_data(unit)
      BY DEF Status!Missing
    <3>3. unit.veth \in {None, "blocked"} /\ None # "blocked"
      BY <2>1, StatusAssumption DEF Status!Units
    <3> HIDE DEF whole
    <3>4. status.state = "active" <=> /\ ~unit.paused /\ ~unit.upgrading
                                      /\ whole /\ unit.veth = None
                                      /\ Status!Services \subseteq unit.running
      BY <2>1, <3>1, <3>2, <3>3 DEF StateOf, Held
    <3> QED BY <3>4 DEF Status!ActiveMeansWhole, whole
  <2>3. Status!WorseNeverBetter
    <3> SUFFICES ASSUME NEW w \in Status!Worse(unit)
                 PROVE  Status!Hierarchy[Status!assess_status(w, hook).state]
                            >= Status!Hierarchy[status.state]
      BY DEF Status!WorseNeverBetter
    <3>1. /\ w \in Status!Units
          /\ w.rel = unit.rel /\ w.paused = unit.paused /\ w.upgrading = unit.upgrading
          /\ w.nova_metadata = unit.nova_metadata
          /\ \/ /\ w.veth = unit.veth
                /\ IF Held(unit) THEN unit.running \subseteq w.running ELSE w.running \subseteq unit.running
             \/ w.veth = "blocked" /\ w.running = unit.running
      <4>1. CASE w = [unit EXCEPT !.veth = "blocked"]
        BY <2>1, <4>1 DEF Status!Units
      <4>2. ASSUME NEW s \in Status!Services, Held(unit), w = [unit EXCEPT !.running = @ \cup {s}]
            PROVE  w \in Status!Units /\ w.veth = unit.veth /\ unit.running \subseteq w.running
                   /\ w.rel = unit.rel /\ w.paused = unit.paused /\ w.upgrading = unit.upgrading
                   /\ w.nova_metadata = unit.nova_metadata
        BY <2>1, <4>2 DEF Status!Units
      <4>3. ASSUME NEW s \in Status!Services, w = [unit EXCEPT !.running = @ \ {s}]
            PROVE  w \in Status!Units /\ w.veth = unit.veth /\ w.running \subseteq unit.running
                   /\ w.rel = unit.rel /\ w.paused = unit.paused /\ w.upgrading = unit.upgrading
                   /\ w.nova_metadata = unit.nova_metadata
        BY <2>1, <4>3 DEF Status!Units
      <4> QED BY <4>1, <4>2, <4>3 DEF Status!Worse, Held
    <3>2. /\ Status!incomplete_relation_data(w) = Status!incomplete_relation_data(unit)
          /\ Status!Missing(w, hook) = Status!Missing(unit, hook)
          /\ Status!Counted(w) = Status!Counted(unit)
          /\ Held(w) = Held(unit)
      BY <3>1 DEF Status!incomplete_relation_data, Status!required_interfaces, Status!complete_contexts,
                  Status!Missing, Status!Counted, Held
    <3>3. Status!assess_status(w, hook).state = StateOf(w, hook)
      BY <3>1, Assessed
    <3>4. Held(unit) /\ Busy(unit) /\ unit.running \subseteq w.running => Busy(w)
      BY <3>1, <3>2 DEF Busy
    <3>5. /\ StateOf(unit, hook) \in {"maintenance", "waiting", "active", "blocked"}
          /\ StateOf(w, hook) \in {StateOf(unit, hook), "blocked"}
      <4>1. CASE Held(unit)
        BY <3>1, <3>2, <3>4, <4>1 DEF StateOf, Busy
      <4>2. CASE ~Held(unit)
        BY <3>1, <3>2, <4>2 DEF StateOf
      <4> QED BY <4>1, <4>2
    <3> QED BY <2>1, <3>3, <3>5, Compared DEF StateOf
  <2>4. Status!PausedIsQuiet
    BY <2>1 DEF Status!PausedIsQuiet, Held, Busy
  <2>5. Status!MissingIsUnrelated
    BY <2>1 DEF Status!MissingIsUnrelated, Status!Missing
  <2> QED BY <2>2, <2>3, <2>4, <2>5 DEF Status!StatusTrue
<1> QED BY <1>1, <1>2

\* For any agents, and whatever happens between hooks: a status that is current is active
\* of the units that are whole and only of those, gets no better by what gets worse, and
\* tells of agents that run on a unit that is paused, and of the relations that are
\* missing and no others.  (_determine_os_workload_status)
THEOREM StatusIsTrue == AllSpec => []StatusTrue
<1> DEFINE Inv == part = "status" => StatusInv
<1>1. AllInit => Inv
  BY StatusInitial DEF AllInit
<1>2. Inv /\ [AllNext]_all_vars => Inv'
  BY Parts, StatusInductive
<1>3. Inv => StatusTrue
  BY StatusConclusion DEF StatusTrue
<1> QED BY <1>1, <1>2, <1>3, PTL DEF AllSpec

-----------------------------------------------------------------------------
\* Endpoints: what was asked for, issued and installed is the one request there is, if it
\* is of this configuration, and no link leads nowhere.

Wanted_ == Ends!get_certificate_request(Ends!Ordered)

EndsTypeOK ==
    /\ host = [binding |-> host.binding, network |-> host.network, hostname |-> host.hostname,
               vips |-> host.vips, attached |-> host.attached, clustered |-> host.clustered]
    /\ host.binding \in [Types -> host.attached \cup {Absent}]
    /\ host.network \in [Types -> Networks \cup {Absent}]
    /\ host.hostname \in [Types -> Hostnames \cup {Absent}]
    /\ host.vips \in Seq(Networks)
    /\ host.clustered => host.vips # <<>>
    /\ Local \in host.attached /\ host.attached \subseteq Networks
    /\ changes \in Nat
    /\ as_of \in [request : 0..Ends!Now, answer : 0..Ends!Now, files : 0..Ends!Now]

\* The files have what the request of now asks for, and its addresses are found.
InPlace(now) ==
    /\ \A name \in DOMAIN now : name \in DOMAIN files /\ files[name] = now[name]
    /\ \A name \in DOMAIN now : \A a \in now[name] :
          a \in DOMAIN files \/ (a \in DOMAIN links /\ links[a] \in DOMAIN files)

OfNow ==
    /\ as_of.request = Ends!Now => requested = Wanted_
    /\ as_of.answer = Ends!Now => issued = Wanted_ /\ as_of.request = Ends!Now
    /\ as_of.files = Ends!Now => InPlace(Wanted_) /\ as_of.answer = Ends!Now
    /\ \A a \in DOMAIN links : links[a] \in DOMAIN files

EndsInv == EndsTypeOK /\ OfNow

\* The networks, in some order.
LEMMA SomeOrder ==
  ASSUME NEW S, IsFiniteSet(S)
  PROVE  Ends!SetToSeq(S) \in Seq(S)
<1> DEFINE n == Cardinality(S)
<1>1. n \in Nat /\ ExistsBijection(1..n, S)
  BY FS_CardinalityType
<1>2. Ends!Cardinality(S) = n
  BY DEF Ends!Cardinality, Cardinality
<1> HIDE DEF n
<1>3. \E f \in [1..n -> S] : Ends!IsInjective(f)
  BY <1>1 DEF ExistsBijection, Bijection, Injection, IsInjective, Ends!IsInjective
<1>4. Ends!SetToSeq(S) \in [1..n -> S]
  BY <1>2, <1>3 DEF Ends!SetToSeq
<1> QED BY <1>1, <1>4

LEMMA EndsInitial == Ends!Init => EndsInv
<1> SUFFICES ASSUME Ends!Init PROVE EndsInv
  OBVIOUS
<1>1. /\ host \in Ends!Hosts /\ changes = 0 /\ links = Ends!Empty
      /\ as_of = [request |-> 0, answer |-> 0, files |-> 0]
  BY DEF Ends!Init
<1>2. host.vips \in Seq(Networks)
  <2>1. host.vips \in {<<>>} \cup {<<n>> : n \in Networks} \cup {Ends!SetToSeq(Networks)}
    BY <1>1 DEF Ends!Hosts
  <2>2. Ends!SetToSeq(Networks) \in Seq(Networks)
    BY SomeOrder, EndpointsAssumption
  <2>3. CASE \E n \in Networks : host.vips = <<n>>
    BY <2>3
  <2>4. CASE host.vips = <<>>
    BY <2>4
  <2> QED BY <2>1, <2>2, <2>3, <2>4, Zenon
<1>3. EndsTypeOK
  <2>1. host.binding \in [Types -> host.attached \cup {Absent}]
    BY <1>1 DEF Ends!Hosts
  <2>2. as_of \in [request : 0..Ends!Now, answer : 0..Ends!Now, files : 0..Ends!Now]
    BY <1>1 DEF Ends!Now
  <2> QED BY <1>1, <1>2, <2>1, <2>2 DEF Ends!Hosts, EndsTypeOK
<1>4. OfNow
  BY <1>1 DEF OfNow, Ends!Empty, Ends!Now
<1> QED BY <1>3, <1>4 DEF EndsInv

\* The request says which names to certify, and the machine's is always there.
LEMMA RequestShape ==
  /\ DOMAIN Wanted_ = {Ends!Name(host.hostname[t]) : t \in Ends!Specific} \cup {Ends!Machine}
  /\ Wanted_ # Ends!Empty
<1>1. DOMAIN Wanted_ = {Ends!Name(host.hostname[t]) : t \in Ends!Specific} \cup {Ends!Machine}
  BY DEF Wanted_, Ends!get_certificate_request
<1>2. DOMAIN Ends!Empty = {}
  BY DEF Ends!Empty
<1> QED BY <1>1, <1>2

LEMMA EndsInductive ==
  ASSUME EndsInv, [Ends!Next]_(Ends!endpoint_vars)
  PROVE  EndsInv'
<1> USE DEF EndsInv
<1>1. CASE Ends!Reconfigure
  <2>1. changes' = changes + 1 /\ changes \in Nat /\ as_of' = as_of
    BY <1>1 DEF Ends!Reconfigure, EndsTypeOK
  <2>4. as_of' \in [request : 0..Ends!Now', answer : 0..Ends!Now', files : 0..Ends!Now']
        /\ as_of'.request < Ends!Now' /\ as_of'.answer < Ends!Now' /\ as_of'.files < Ends!Now'
    BY <2>1 DEF EndsTypeOK, Ends!Now
  <2>2. EndsTypeOK'
    <3>1. CASE \E vips \in {<<n>> : n \in Networks} : host' = [host EXCEPT !.vips = vips]
      <4>1. PICK n \in Networks : host' = [host EXCEPT !.vips = <<n>>]
        BY <3>1
      <4> DEFINE one == <<n>>
      <4>2. one \in Seq(Networks) /\ one # <<>>
        OBVIOUS
      <4> HIDE DEF one
      <4>3. host' = [host EXCEPT !.vips = one]
        BY <4>1 DEF one
      <4>4. /\ host'.binding = host.binding /\ host'.network = host.network
            /\ host'.hostname = host.hostname /\ host'.vips = one /\ host'.attached = host.attached
            /\ host'.clustered = host.clustered
        BY <4>3 DEF EndsTypeOK
      <4>5. host' = [binding |-> host.binding, network |-> host.network, hostname |-> host.hostname,
                     vips |-> one, attached |-> host.attached, clustered |-> host.clustered]
        BY <4>3 DEF EndsTypeOK
      <4> QED BY <2>1, <2>4, <4>2, <4>4, <4>5 DEF EndsTypeOK
    <3>2. CASE \E t \in Types, h \in Hostnames \cup {Absent} : host' = [host EXCEPT !.hostname[t] = h]
      <4>1. PICK t \in Types, h \in Hostnames \cup {Absent} : host' = [host EXCEPT !.hostname[t] = h]
        BY <3>2
      <4> DEFINE names == [host.hostname EXCEPT ![t] = h]
      <4>2. names \in [Types -> Hostnames \cup {Absent}]
        BY DEF EndsTypeOK
      <4>3. host' = [host EXCEPT !.hostname = names]
        BY <4>1
      <4> HIDE DEF names
      <4>4. /\ host'.binding = host.binding /\ host'.network = host.network
            /\ host'.hostname = names /\ host'.vips = host.vips /\ host'.attached = host.attached
            /\ host'.clustered = host.clustered
        BY <4>3 DEF EndsTypeOK
      <4>5. host' = [binding |-> host.binding, network |-> host.network, hostname |-> names,
                     vips |-> host.vips, attached |-> host.attached, clustered |-> host.clustered]
        BY <4>3 DEF EndsTypeOK
      <4> QED BY <2>1, <2>4, <4>2, <4>4, <4>5 DEF EndsTypeOK
    <3>3. CASE host.vips # <<>> /\ host' = [host EXCEPT !.clustered = ~@]
      <4> DEFINE now == ~host.clustered
      <4>1. host' = [host EXCEPT !.clustered = now]
        BY <3>3
      <4> HIDE DEF now
      <4>2. /\ host'.binding = host.binding /\ host'.network = host.network
            /\ host'.hostname = host.hostname /\ host'.vips = host.vips
            /\ host'.attached = host.attached /\ host'.clustered = now
        BY <4>1 DEF EndsTypeOK
      <4>3. host' = [binding |-> host.binding, network |-> host.network,
                     hostname |-> host.hostname, vips |-> host.vips,
                     attached |-> host.attached, clustered |-> now]
        BY <4>1 DEF EndsTypeOK
      <4> QED BY <2>1, <2>4, <3>3, <4>2, <4>3 DEF EndsTypeOK
    <3> QED BY <1>1, <3>1, <3>2, <3>3 DEF Ends!Reconfigure
  <2>3. \A a \in DOMAIN links' : links'[a] \in DOMAIN files'
    BY <1>1 DEF OfNow, Ends!Reconfigure
  <2>5. as_of'.request # Ends!Now' /\ as_of'.answer # Ends!Now' /\ as_of'.files # Ends!Now'
    BY <2>1, <2>4 DEF Ends!Now
  <2> QED BY <2>2, <2>3, <2>5 DEF OfNow
<1>2. ASSUME UNCHANGED <<host, changes>>,
             as_of' \in [request : 0..Ends!Now, answer : 0..Ends!Now, files : 0..Ends!Now]
      PROVE  EndsTypeOK' /\ Wanted_' = Wanted_ /\ Ends!Now' = Ends!Now
  BY <1>2 DEF EndsTypeOK, Wanted_, Ends!get_certificate_request, Ends!get_certificate_sans,
     Ends!SansOf, Ends!EntryOf, Ends!Specific, Ends!get_relation_ip, Ends!get_vip_in_network,
     Ends!resolve_address, Ends!Addressed, Ends!Overridden, Ends!Bound, Ends!VipsIn,
     Ends!get_address_in_network, Ends!Now
<1>3. CASE Ends!Request
  <2>1. /\ UNCHANGED <<host, issued, files, links, changes>> /\ requested' = Wanted_
        /\ as_of' = [as_of EXCEPT !.request = Ends!Now]
    BY <1>3 DEF Ends!Request, Wanted_
  <2>2. /\ as_of' \in [request : 0..Ends!Now, answer : 0..Ends!Now, files : 0..Ends!Now]
        /\ as_of'.request = Ends!Now /\ as_of'.answer = as_of.answer /\ as_of'.files = as_of.files
    BY <2>1 DEF EndsTypeOK, Ends!Now
  <2>3. EndsTypeOK' /\ Wanted_' = Wanted_ /\ Ends!Now' = Ends!Now
    BY <1>2, <2>1, <2>2
  <2>4. InPlace(Wanted_)' <=> InPlace(Wanted_)
    BY <2>1, <2>3 DEF InPlace
  <2> QED BY <2>1, <2>2, <2>3, <2>4 DEF OfNow
<1>4. CASE Ends!Issue
  <2>1. /\ UNCHANGED <<host, requested, files, links, changes>> /\ issued' = requested
        /\ as_of' = [as_of EXCEPT !.answer = as_of.request]
    BY <1>4 DEF Ends!Issue
  <2>2. /\ as_of' \in [request : 0..Ends!Now, answer : 0..Ends!Now, files : 0..Ends!Now]
        /\ as_of'.request = as_of.request /\ as_of'.answer = as_of.request /\ as_of'.files = as_of.files
    BY <2>1 DEF EndsTypeOK
  <2>3. EndsTypeOK' /\ Wanted_' = Wanted_ /\ Ends!Now' = Ends!Now
    BY <1>2, <2>1, <2>2
  <2>4. InPlace(Wanted_)' <=> InPlace(Wanted_)
    BY <2>1, <2>3 DEF InPlace
  <2> QED BY <2>1, <2>2, <2>3, <2>4 DEF OfNow
<1>5. CASE Ends!process_certificates
  <2> DEFINE added == Ends!Added(Wanted_, files')
  <2>1. /\ UNCHANGED <<host, requested, issued, changes>>
        /\ files' = Ends!Join(issued, files)
        /\ \/ links' = Ends!Join(links, added) /\ as_of' = [as_of EXCEPT !.files = as_of.answer]
           \/ UNCHANGED <<links, as_of>>
    BY <1>5 DEF Ends!process_certificates, Wanted_
  <2>2. /\ as_of' \in [request : 0..Ends!Now, answer : 0..Ends!Now, files : 0..Ends!Now]
        /\ as_of'.request = as_of.request /\ as_of'.answer = as_of.answer
        /\ as_of'.files \in {as_of.files, as_of.answer}
    BY <2>1 DEF EndsTypeOK
  <2>3. EndsTypeOK' /\ Wanted_' = Wanted_ /\ Ends!Now' = Ends!Now
    BY <1>2, <2>1, <2>2
  <2>4. /\ DOMAIN files' = DOMAIN issued \cup DOMAIN files
        /\ \A name \in DOMAIN files' :
              files'[name] = IF name \in DOMAIN issued THEN issued[name] ELSE files[name]
    BY <2>1 DEF Ends!Join
  <2>5. /\ \A a \in DOMAIN added : added[a] \in DOMAIN files'
        /\ \A name \in DOMAIN Wanted_ \cap DOMAIN files' : \A a \in Wanted_[name] :
              a \in DOMAIN files' \/ a \in DOMAIN added
    BY DEF Ends!Added
  <2> HIDE DEF added
  <2>6. CASE links' = Ends!Join(links, added) /\ as_of' = [as_of EXCEPT !.files = as_of.answer]
    <3>1. /\ DOMAIN links' = DOMAIN links \cup DOMAIN added
          /\ \A a \in DOMAIN links' :
                links'[a] = IF a \in DOMAIN links THEN links[a] ELSE added[a]
      BY <2>6 DEF Ends!Join
    <3>2. \A a \in DOMAIN links' : links'[a] \in DOMAIN files'
      BY <2>4, <2>5, <3>1 DEF OfNow
    <3>3. ASSUME as_of'.files = Ends!Now PROVE InPlace(Wanted_)' /\ as_of.answer = Ends!Now
      <4>1. as_of.answer = Ends!Now /\ issued = Wanted_
        BY <2>6, <3>3 DEF EndsTypeOK, OfNow
      <4>2. \A name \in DOMAIN Wanted_ : name \in DOMAIN files' /\ files'[name] = Wanted_[name]
        BY <2>4, <4>1
      <4>3. \A name \in DOMAIN Wanted_ : \A a \in Wanted_[name] :
               a \in DOMAIN files' \/ (a \in DOMAIN links' /\ links'[a] \in DOMAIN files')
        BY <2>5, <3>1, <3>2, <4>2
      <4> QED BY <2>3, <4>1, <4>2, <4>3 DEF InPlace
    <3> QED BY <2>1, <2>2, <2>3, <3>2, <3>3 DEF OfNow
  <2>7. CASE UNCHANGED <<links, as_of>>
    <3>1. \A a \in DOMAIN links' : links'[a] \in DOMAIN files'
      BY <2>4, <2>7 DEF OfNow
    <3>2. ASSUME as_of.files = Ends!Now PROVE InPlace(Wanted_)'
      <4>1. InPlace(Wanted_) /\ issued = Wanted_
        BY <3>2 DEF OfNow
      <4>2. \A name \in DOMAIN Wanted_ : name \in DOMAIN files' /\ files'[name] = Wanted_[name]
        BY <2>4, <4>1
      <4>3. \A name \in DOMAIN Wanted_ : \A a \in Wanted_[name] :
               a \in DOMAIN files' \/ (a \in DOMAIN links' /\ links'[a] \in DOMAIN files')
        BY <2>4, <2>7, <4>1 DEF InPlace
      <4> QED BY <2>3, <4>2, <4>3 DEF InPlace
    <3> QED BY <2>1, <2>2, <2>3, <2>7, <3>1, <3>2 DEF OfNow
  <2> QED BY <2>1, <2>6, <2>7
<1>6. CASE UNCHANGED Ends!endpoint_vars
  <2>1. UNCHANGED <<host, requested, issued, files, links, as_of, changes>>
    BY <1>6 DEF Ends!endpoint_vars
  <2>2. EndsTypeOK' /\ Wanted_' = Wanted_ /\ Ends!Now' = Ends!Now
    BY <1>2, <2>1 DEF EndsTypeOK
  <2>3. InPlace(Wanted_)' <=> InPlace(Wanted_)
    BY <2>1, <2>2 DEF InPlace
  <2> QED BY <2>1, <2>2, <2>3 DEF OfNow
<1> QED BY <1>1, <1>3, <1>4, <1>5, <1>6 DEF Ends!Next

\* The bindings have an order.
LEMMA OrderOfTypes == Ends!Ordered \in [Types -> Nat]
<1> DEFINE n == Cardinality(Types)
<1>1. n \in Nat /\ ExistsBijection(1..n, Types)
  BY FS_CardinalityType, EndpointsAssumption
<1>2. Ends!Cardinality(Types) = n
  BY DEF Ends!Cardinality, Cardinality
<1> HIDE DEF n
<1>3. PICK g \in Bijection(1..n, Types) : TRUE
  BY <1>1 DEF ExistsBijection
<1> DEFINE at == [t \in Types |-> CHOOSE i \in 1..n : g[i] = t]
<1>4. \A t \in Types : at[t] \in 1..n /\ g[at[t]] = t
  BY <1>3 DEF Bijection, Surjection
<1>5. at \in [Types -> 1..n]
  BY <1>4
<1>6. \A t, u \in Types : at[t] = at[u] => t = u
  BY <1>4
<1> HIDE DEF at
<1>7. \E order \in [Types -> 1..Ends!Cardinality(Types)] :
         \A t, u \in Types : order[t] = order[u] => t = u
  BY <1>2, <1>5, <1>6
<1>8. Ends!Ordered \in [Types -> 1..Ends!Cardinality(Types)]
  BY <1>7 DEF Ends!Ordered
<1> QED BY <1>1, <1>2, <1>8

\* Whatever a name was not asked for is asked for in the machine's.
LEMMA EverythingCovered ==
  ASSUME EndsTypeOK, Ends!OneNameEach
  PROVE  Ends!Covered(Wanted_)
<1> DEFINE all == UNION {Wanted_[name] : name \in DOMAIN Wanted_}
           entries == UNION {Ends!EntryOf(t) : t \in Ends!Specific}
<1>1. DOMAIN Wanted_ = {Ends!Name(host.hostname[t]) : t \in Ends!Specific} \cup {Ends!Machine}
  BY RequestShape
<1>2. Ends!get_certificate_sans \ entries \subseteq Wanted_[Ends!Machine]
  BY DEF Wanted_, Ends!get_certificate_request
<1>3. ASSUME NEW t \in Ends!Specific
      PROVE  Wanted_[Ends!Name(host.hostname[t])] = Ends!EntryOf(t)
  <2> DEFINE name == Ends!Name(host.hostname[t])
             order == Ends!Ordered
             Newest(u) == /\ Ends!Name(host.hostname[u]) = name
                          /\ \A v \in Ends!Specific : Ends!Name(host.hostname[v]) = name
                                => order[v] <= order[u]
  <2>1. name # Ends!Machine
    BY <1>3, EndpointsAssumption DEF EndsTypeOK, Ends!Name, Ends!Machine, Ends!Specific,
       Ends!Overridden
  <2>2. ASSUME NEW u \in Ends!Specific, Ends!Name(host.hostname[u]) = name
        PROVE  u = t
    BY <1>3, <2>2 DEF Ends!Name, Ends!OneNameEach, Ends!Specific
  <2>3. order[t] <= order[t]
    BY OrderOfTypes DEF Ends!Specific
  <2> HIDE DEF order
  <2>4. Newest(t)
    BY <2>2, <2>3
  <2>5. (CHOOSE u \in Ends!Specific : Newest(u)) = t
    BY <2>2, <2>4
  <2>6. name \in {Ends!Name(host.hostname[u]) : u \in Ends!Specific}
    OBVIOUS
  <2>7. Wanted_[name] = Ends!EntryOf(CHOOSE u \in Ends!Specific : Newest(u))
    BY <2>1, <2>6 DEF Wanted_, Ends!get_certificate_request, order
  <2> QED BY <2>5, <2>7
<1>4. Ends!get_certificate_sans \subseteq all
  <2> SUFFICES ASSUME NEW a \in Ends!get_certificate_sans PROVE a \in all
    OBVIOUS
  <2>1. CASE a \in entries
    <3>1. PICK t \in Ends!Specific : a \in Ends!EntryOf(t)
      BY <2>1
    <3> DEFINE name == Ends!Name(host.hostname[t])
    <3>2. name \in DOMAIN Wanted_ /\ a \in Wanted_[name]
      BY <1>1, <1>3, <3>1
    <3> QED BY <3>2
  <2>2. CASE a \notin entries
    <3>1. Ends!Machine \in DOMAIN Wanted_ /\ a \in Wanted_[Ends!Machine]
      BY <1>1, <1>2, <2>2
    <3> QED BY <3>1
  <2> QED BY <2>1, <2>2
<1> HIDE DEF all, entries
<1>5. \A t \in Types : Ends!SansOf(t) \subseteq all
  BY <1>4 DEF Ends!get_certificate_sans
<1> QED BY <1>5 DEF Ends!Covered, Ends!SansOf, all

LEMMA EndsConclusion == EndsInv => Ends!EndpointsRight
<1> SUFFICES ASSUME EndsInv PROVE Ends!EndpointsRight
  OBVIOUS
<1> USE DEF EndsInv
<1>1. Ends!SansCovered
  BY EverythingCovered DEF Ends!SansCovered, OfNow
<1>2. Ends!LinksServe
  BY DEF Ends!LinksServe, OfNow, InPlace
<1>3. Ends!HostsServed
  <2> SUFFICES ASSUME as_of.files = Ends!Now, Ends!OneNameEach, NEW t \in Types
               PROVE  LET e == Ends!resolve_address(t)
                      IN e \in DOMAIN files \/ (e \in DOMAIN links /\ links[e] \in DOMAIN files)
    BY DEF Ends!HostsServed, Ends!get_network_addresses
  <2>1. InPlace(Wanted_)
    BY DEF OfNow
  <2>2. Ends!resolve_address(t)
           \in DOMAIN Wanted_ \cup UNION {Wanted_[name] : name \in DOMAIN Wanted_}
    BY EverythingCovered DEF Ends!Covered
  <2> QED BY <2>1, <2>2 DEF InPlace
<1>4. Ends!AddressesRight
  <2>1. ASSUME NEW t \in Types, host.clustered, ~Ends!Overridden(t), Ends!Resolvable
        PROVE  \E n \in Networks : Ends!Addressed(t) = Ends!Vip(n)
    <3>1. Ends!Addressed(t) # Absent
      BY <2>1 DEF Ends!Resolvable, Ends!resolve_address
    <3>2. host.vips # <<>> /\ host.vips[1] \in Networks
      BY <2>1 DEF EndsTypeOK
    <3>3. host.network[t] \in Networks \cup {Absent} /\ host.binding[t] \in Networks \cup {Absent}
      BY DEF EndsTypeOK
    <3> QED BY <2>1, <3>1, <3>2, <3>3 DEF Ends!Addressed
  <2>2. ASSUME NEW net \in Networks \cup {Absent}, NEW n \in host.attached
        PROVE  \E m \in host.attached : Ends!get_address_in_network(net, Ends!Ip(n)) = Ends!Ip(m)
    BY DEF Ends!get_address_in_network
  <2>3. Local \in host.attached /\ \A t \in Types : host.network[t] \in Networks \cup {Absent}
          /\ (Ends!Bound(t) => host.binding[t] \in host.attached)
    BY DEF EndsTypeOK, Ends!Bound
  <2>4. \A a \in Ends!Frontends : \E m \in host.attached : a = Ends!Ip(m)
    <3> SUFFICES ASSUME NEW t \in Types
                 PROVE  \E m \in host.attached :
                           Ends!get_relation_ip(t, host.network[t]) = Ends!Ip(m)
      BY <2>3 DEF Ends!Frontends, Ends!local_address
    <3> QED BY <2>2, <2>3 DEF Ends!get_relation_ip, Ends!local_address
  <2>5. \A pair \in Ends!get_network_addresses : \E m \in host.attached : pair[1] = Ends!Ip(m)
    BY <2>2, <2>3 DEF Ends!get_network_addresses, Ends!local_address
  <2>6. \A m : Ends!Ip(m)[1] = "ip" /\ Ends!Ip(m)[2] = m
    BY DEF Ends!Ip
  <2> QED BY <2>1, <2>4, <2>5, <2>6 DEF Ends!AddressesRight
<1> QED BY <1>1, <1>2, <1>3, <1>4 DEF Ends!EndpointsRight

-----------------------------------------------------------------------------
\* Proxies: what listens is what was rendered for the place of then.

ProxyInv ==
    /\ place \in Proxy!Places /\ seen \in Proxy!Places /\ singlenode \in BOOLEAN
    /\ listening = Proxy!Rendered(seen, singlenode)

LEMMA ProxyInitial == Proxy!Init => ProxyInv
  BY DEF Proxy!Init, ProxyInv

LEMMA ProxyInductive ==
  ASSUME ProxyInv, [Proxy!Next]_(Proxy!proxy_vars)
  PROVE  ProxyInv'
<1>1. CASE Proxy!Change
  BY <1>1 DEF Proxy!Change, ProxyInv, Proxy!Places
<1>2. CASE Proxy!Render
  BY <1>2 DEF Proxy!Render, ProxyInv
<1>3. CASE UNCHANGED Proxy!proxy_vars
  BY <1>3 DEF Proxy!proxy_vars, ProxyInv
<1> QED BY <1>1, <1>2, <1>3 DEF Proxy!Next

LEMMA ProxyConclusion == ProxyInv => Proxy!PortsRight
<1> SUFFICES ASSUME ProxyInv PROVE Proxy!PortsLead /\ Proxy!NothingMoves
  BY DEF Proxy!PortsRight
<1>1. /\ listening.haproxy = IF singlenode \/ seen.peers
                             THEN {<<0, Proxy!determine_apache_port(seen, singlenode)>>} ELSE {}
      /\ listening.apache = IF Proxy!https(seen)
                            THEN {<<Proxy!determine_apache_port(seen, TRUE),
                                    Proxy!determine_api_port(seen, TRUE)>>} ELSE {}
      /\ listening.api = Proxy!determine_api_port(seen, singlenode)
  BY DEF ProxyInv, Proxy!Rendered
<1>2. Proxy!PortsLead
  <2> SUFFICES ASSUME singlenode \/ seen.peers \/ ~(seen.clustered \/ Proxy!https(seen))
               PROVE  Proxy!Leads
    BY DEF Proxy!PortsLead
  <2> DEFINE behind == Proxy!Behind(seen, singlenode)
  <2>1. /\ Proxy!determine_apache_port(seen, singlenode) = behind
        /\ Proxy!determine_api_port(seen, singlenode)
              = behind + (IF Proxy!https(seen) THEN 1 ELSE 0)
        /\ Proxy!determine_apache_port(seen, TRUE) = 1
        /\ Proxy!determine_api_port(seen, TRUE) = 1 + (IF Proxy!https(seen) THEN 1 ELSE 0)
    BY DEF Proxy!determine_apache_port, Proxy!determine_api_port, Proxy!Behind
  <2>2. CASE singlenode \/ seen.peers
    <3>1. behind = 1
      BY <2>2 DEF Proxy!Behind
    <3>2. listening.haproxy = {<<0, 1>>}
      BY <1>1, <2>1, <2>2, <3>1
    <3>3. CASE Proxy!https(seen)
      <4>1. listening.apache = {<<1, 2>>} /\ listening.api = 2
        <5>1. /\ Proxy!determine_api_port(seen, TRUE) = 2
              /\ Proxy!determine_api_port(seen, singlenode) = 2
          <6>1. (IF Proxy!https(seen) THEN 1 ELSE 0) = 1
            BY <3>3
          <6>2. behind + (IF Proxy!https(seen) THEN 1 ELSE 0) = 2
                /\ 1 + (IF Proxy!https(seen) THEN 1 ELSE 0) = 2
            BY <3>1, <6>1
          <6> QED BY <2>1, <6>2
        <5> QED BY <1>1, <2>1, <3>3, <5>1
      <4>2. {hop[1] : hop \in listening.apache} = {1}
        BY <4>1
      <4>3. \A hop \in listening.haproxy :
               hop[1] # listening.api /\ hop[1] \notin {1} /\ {1} = {hop[2]}
        BY <3>2, <4>1
      <4>4. \A hop \in listening.apache : hop[1] # listening.api /\ hop[2] = listening.api
        BY <4>1
      <4>5. listening.apache # {} /\ listening.haproxy # {}
        BY <3>2, <4>1
      <4> QED BY <4>2, <4>3, <4>4, <4>5, Zenon DEF Proxy!Leads
    <3>4. CASE ~Proxy!https(seen)
      <4>1. listening.apache = {} /\ listening.api = 1
        BY <1>1, <2>1, <3>1, <3>4
      <4>2. \A hop \in listening.haproxy :
               hop[1] # listening.api /\ hop[1] \notin {1} /\ {1} = {hop[2]}
        BY <3>2, <4>1
      <4>3. listening.haproxy # {} /\ {listening.api} = {1}
        BY <3>2, <4>1
      <4> QED BY <4>1, <4>2, <4>3 DEF Proxy!Leads
    <3> QED BY <3>3, <3>4
  <2>3. CASE ~(singlenode \/ seen.peers)
    <3>1. behind = 0 /\ ~Proxy!https(seen)
      BY <2>3 DEF Proxy!Behind
    <3>2. listening.haproxy = {} /\ listening.apache = {} /\ listening.api = 0
      BY <1>1, <2>1, <2>3, <3>1
    <3> QED BY <3>2 DEF Proxy!Leads
  <2> QED BY <2>2, <2>3
<1>3. Proxy!NothingMoves
  BY DEF ProxyInv, Proxy!NothingMoves, Proxy!Rendered, Proxy!determine_apache_port,
     Proxy!determine_api_port, Proxy!Behind
<1> QED BY <1>2, <1>3

-----------------------------------------------------------------------------
\* Whatever changed before, a request made for the present configuration covers every
\* address that is used, its answer once installed is what clients find by file or link,
\* a unit of a cluster tells an address of the cluster, and the proxies lead to the
\* service, for any networks, names, endpoints and order of events.
THEOREM EndpointsFit == AllSpec => []EndpointsRight
<1> DEFINE Inv == /\ part = "endpoints" => EndsInv
                  /\ part = "proxies" => ProxyInv
<1>1. AllInit => Inv
  BY EndsInitial, ProxyInitial DEF AllInit
<1>2. Inv /\ [AllNext]_all_vars => Inv'
  BY Parts, EndsInductive, ProxyInductive
<1>3. Inv => EndpointsRight
  BY EndsConclusion, ProxyConclusion DEF EndpointsRight
<1> QED BY <1>1, <1>2, <1>3, PTL DEF AllSpec

-----------------------------------------------------------------------------
\* Messaging: what the loops over servers and relations have found out so far.

AmqpTypeOK == amqp \in Seq(Seq(Amqp!Server))

AmqpHosts == [relation : Nat, unit : Nat, vip : BOOLEAN]
Asking == [broke : BOOLEAN, complete : BOOLEAN, vip_only : BOOLEAN, clustered : BOOLEAN,
           hosts : SUBSET AmqpHosts]
Found == [complete : BOOLEAN, clustered : BOOLEAN, transport_url : SUBSET AmqpHosts]

AskedBy(r, servers, start) ==
    Amqp!FoldLeftDomain(LAMBDA c, u : Amqp!AskServer(r, servers, c, u), start, servers)
FirstAsked(ctxt) ==
    [broke |-> FALSE, complete |-> ctxt.complete, vip_only |-> FALSE,
     clustered |-> ctxt.clustered, hosts |-> {}]

LEMMA AmqpMax == \A S : Amqp!Max(S) = Max(S)
  BY DEF Amqp!Max, Max

Askings(r, servers, n, start) ==
    {g \in [0..n -> Asking] :
        g[0] = start /\ \A u \in 1..n : g[u] = Amqp!AskServer(r, servers, g[u - 1], u)}
LEMMA ServersAsked ==
  ASSUME NEW r \in Nat, NEW n, n \in Nat, NEW servers \in [1..n -> Amqp!Server],
         NEW start \in Asking
  PROVE  AskedBy(r, servers, start) \in {g[n] : g \in Askings(r, servers, n, start)}
<1> DEFINE op(c, u) == Amqp!AskServer(r, servers, c, u)
           Domain == [i \in DOMAIN servers |-> i]
           body(f) == [s \in SUBSET DOMAIN Domain |->
                         IF s = {} THEN start
                         ELSE op(f[s \ {Amqp!Max(s)}], Domain[Amqp!Max(s)])]
           iter == CHOOSE f : f = body(f)
           next == [q \in Asking \X (1..n) |-> op(q[1], q[2])]
<1>1. AskedBy(r, servers, start) = iter[DOMAIN Domain]
  BY DEF AskedBy, Amqp!FoldLeftDomain, Amqp!FoldLeft, Amqp!MapThenFoldSet
<1>2. n \in Nat /\ DOMAIN servers = 1..n /\ DOMAIN Domain = 1..n
  OBVIOUS
<1>3. \A i \in 1..n : Domain[i] = i /\ servers[i] \in Amqp!Server
  BY <1>2
<1>4. \A c \in Asking, u \in 1..n : op(c, u) \in Asking
  <2> SUFFICES ASSUME NEW c \in Asking, NEW u \in 1..n PROVE op(c, u) \in Asking
    OBVIOUS
  <2>1. servers[u] \in Amqp!Server /\ u \in Nat
    BY <1>2, <1>3
  <2>2. Amqp!Own(r, u) \in AmqpHosts /\ Amqp!Vip(r, u) \in AmqpHosts
    BY <2>1 DEF Amqp!Own, Amqp!Vip, AmqpHosts
  <2> QED BY <2>1, <2>2 DEF Amqp!AskServer, Asking, Amqp!Server
<1> HIDE DEF op, Domain
<1>5. next \in [Asking \X (1..n) -> Asking]
  BY <1>4
<1>6. \A c \in Asking, u \in 1..n : next[<<c, u>>] = op(c, u)
  OBVIOUS
<1> HIDE DEF next
<1>7. \E f : f = body(f)
  <2>1. PICK f \in [SUBSET (1..n) -> Asking] :
           \A s \in SUBSET (1..n) :
              f[s] = IF s = {} THEN start ELSE next[<<f[s \ {Max(s)}], Max(s)>>]
    <3>1. Folding(n, Asking, start, next) # {}
      BY <1>2, <1>5, Foldable
    <3> QED BY <3>1 DEF Folding
  <2>2. \A s \in SUBSET (1..n) : s # {} =>
           f[s] = op(f[s \ {Amqp!Max(s)}], Domain[Amqp!Max(s)])
    <3> SUFFICES ASSUME NEW s \in SUBSET (1..n), s # {}
                 PROVE  f[s] = op(f[s \ {Max(s)}], Domain[Max(s)])
      BY AmqpMax
    <3>1. Max(s) \in s
      BY <1>2, GreatestOf
    <3>2. Max(s) \in 1..n /\ Domain[Max(s)] = Max(s)
      BY <1>3, <3>1
    <3>3. f[s \ {Max(s)}] \in Asking
      BY <2>1
    <3>4. f[s] = next[<<f[s \ {Max(s)}], Max(s)>>]
      BY <2>1
    <3> QED BY <1>6, <3>2, <3>3, <3>4
  <2>3. f = body(f)
    <3>1. f[{}] = start
      BY <2>1
    <3> QED BY <1>2, <2>1, <2>2, <3>1
  <2> QED BY <2>3
<1>10. iter = body(iter)
  BY <1>7
<1> HIDE DEF iter
<1>11. iter[{}] = start
  BY <1>10
<1>12. ASSUME NEW s \in SUBSET (1..n), s # {}, iter[s \ {Max(s)}] \in Asking
       PROVE  iter[s] = next[<<iter[s \ {Max(s)}], Max(s)>>]
  <2>1. Max(s) \in s
    BY <1>2, <1>12, GreatestOf
  <2>2. Max(s) \in 1..n /\ Domain[Max(s)] = Max(s)
    BY <1>3, <2>1
  <2>3. iter[s] = op(iter[s \ {Max(s)}], Domain[Max(s)])
    BY <1>2, <1>10, <1>12, AmqpMax
  <2> QED BY <1>6, <1>12, <2>2, <2>3
<1>13. iter[1..n] \in Final(n, Asking, start, next)
  <2>1. \A s \in SUBSET (1..n) : s # {} /\ iter[s \ {Max(s)}] \in Asking =>
            iter[s] = next[<<iter[s \ {Max(s)}], Max(s)>>]
    BY <1>12
  <2>2. n \in Nat
    BY <1>2
  <2>3. Recurs(n, Asking, start, next, iter)
    BY <1>11, <2>1 DEF Recurs
  <2>4. start \in Asking
    OBVIOUS
  <2> HIDE DEF body
  <2> QED BY <1>5, <2>2, <2>3, <2>4, Stepwise
<1>14. PICK g \in [0..n -> Asking] :
          /\ g[n] = iter[1..n] /\ g[0] = start
          /\ \A k \in 1..n : g[k] = next[<<g[k - 1], k>>]
  BY <1>13 DEF Steps, Final
<1>15. \A k \in 1..n : g[k] = op(g[k - 1], k)
  <2> TAKE k \in 1..n
  <2>1. k - 1 \in 0..n
    BY <1>2
  <2> QED BY <1>6, <1>14, <2>1
<1>16. g[n] = AskedBy(r, servers, start)
  BY <1>1, <1>2, <1>14
<1>17. g \in Askings(r, servers, n, start)
  BY <1>14, <1>15 DEF op, Askings
<1> QED BY <1>16, <1>17

\* A relation is complete when one of its servers is ready, and then that one is the host.
ReadyOne(servers, k) == \E u \in 1..k : Amqp!Ready(servers[u])
HostIs(r, servers, k, hosts) ==
    \E u \in 1..k : /\ Amqp!Ready(servers[u])
                    /\ hosts = {IF servers[u].cluster = "no" THEN Amqp!Own(r, u) ELSE Amqp!Vip(r, u)}

LEMMA AskedUntilReady ==
  ASSUME NEW r \in Nat, NEW n, n \in Nat, NEW servers \in [1..n -> Amqp!Server],
         NEW start \in Asking, ~start.broke
  PROVE  LET claimed == AskedBy(r, servers, start)
         IN  /\ claimed \in Asking
             /\ n = 0 => claimed = start
             /\ n > 0 => claimed.complete = claimed.broke
             /\ claimed.broke <=> ReadyOne(servers, n)
             /\ claimed.broke => HostIs(r, servers, n, claimed.hosts)
<1>1. PICK g \in [0..n -> Asking] :
         /\ AskedBy(r, servers, start) = g[n]
         /\ g[0] = start
         /\ \A u \in 1..n : g[u] = Amqp!AskServer(r, servers, g[u - 1], u)
  <2>1. AskedBy(r, servers, start) \in {g[n] : g \in Askings(r, servers, n, start)}
    BY ServersAsked
  <2> QED BY <2>1 DEF Askings
<1> DEFINE So(k) == /\ k > 0 => g[k].complete = g[k].broke
                    /\ g[k].broke <=> ReadyOne(servers, k)
                    /\ g[k].broke => HostIs(r, servers, k, g[k].hosts)
           P == {k \in 0..n : So(k)}
<1>2. 0 \in P
  <2>1. So(0)
    BY <1>1 DEF ReadyOne
  <2> QED BY <2>1
<1>3. ASSUME NEW k \in 1..n, k - 1 \in P PROVE k \in P
  <2>1. g[k] = Amqp!AskServer(r, servers, g[k - 1], k) /\ g[k - 1] \in Asking /\ So(k - 1)
    BY <1>1, <1>3
  <2>2. \A u : u \in 1..k <=> u \in 1..k - 1 \/ u = k
    OBVIOUS
  <2>3. servers[k] \in Amqp!Server
    OBVIOUS
  <2>4. k - 1 \in 0..n
    OBVIOUS
  <2>5. CASE g[k - 1].broke
    <3>1. g[k] = g[k - 1]
      BY <2>1, <2>5 DEF Amqp!AskServer
    <3>2. k - 1 > 0
      BY <1>1, <2>4, <2>5
    <3>3. So(k)
      BY <2>1, <2>2, <2>5, <3>1, <3>2 DEF ReadyOne, HostIs
    <3> QED BY <3>3
  <2>6. CASE ~g[k - 1].broke
    <3>1. ~ReadyOne(servers, k - 1)
      BY <2>1, <2>6
    <3>2. /\ g[k].broke = (servers[k].password /\ servers[k].cluster # "pending")
          /\ g[k].complete = g[k].broke
          /\ g[k].hosts = {IF servers[k].cluster = "no" THEN Amqp!Own(r, k) ELSE Amqp!Vip(r, k)}
      BY <2>1, <2>6 DEF Amqp!AskServer
    <3>3. g[k].broke <=> Amqp!Ready(servers[k])
      BY <2>3, <3>2 DEF Amqp!Ready, Amqp!Server
    <3>4. g[k].broke <=> ReadyOne(servers, k)
      BY <2>2, <3>1, <3>3 DEF ReadyOne
    <3>5. g[k].broke => HostIs(r, servers, k, g[k].hosts)
      BY <2>2, <3>2, <3>3 DEF HostIs
    <3>6. So(k)
      BY <3>2, <3>4, <3>5
    <3> HIDE DEF So
    <3> QED BY <3>6
  <2> QED BY <2>5, <2>6
<1> HIDE DEF P
<1>4. \A k \in 0..n : k \in P
  BY <1>2, <1>3, Induction
<1>5. So(n)
  BY <1>4 DEF P
<1> QED BY <1>1, <1>5

AskedOf(all, ctxt, r) == AskedBy(r, all[r], FirstAsked(ctxt))
\* A host that can be used.
Usable(all, h) ==
    /\ h.relation \in 1..Len(all) /\ h.unit \in 1..Len(all[h.relation])
    /\ all[h.relation][h.unit].password
    /\ h.vip => all[h.relation][h.unit].cluster = "vip"

LEMMA RelationAsked ==
  ASSUME NEW all \in Seq(Seq(Amqp!Server)), NEW r \in 1..Len(all), NEW ctxt \in Found
  PROVE  LET c == Amqp!AskRelation(all, ctxt, r)
         IN  /\ c \in Found
             /\ Len(all[r]) = 0 => c.complete = ctxt.complete /\ c.transport_url = ctxt.transport_url
             /\ Len(all[r]) > 0 /\ c.complete =>
                   c.transport_url # {} /\ \A h \in c.transport_url : Usable(all, h)
             /\ (\E u \in 1..Len(all[r]) : Amqp!Ready(all[r][u])) => c.complete
<1> DEFINE servers == all[r]
           n == Len(servers)
           claimed == AskedBy(r, servers, FirstAsked(ctxt))
           hosts == IF (~claimed.clustered \/ claimed.vip_only) /\ Len(servers) > 1
                    THEN Amqp!rabbitmq_hosts(r, servers) ELSE claimed.hosts
           c == Amqp!AskRelation(all, ctxt, r)
<1>1. c = [complete |-> claimed.complete, clustered |-> claimed.clustered,
           transport_url |-> IF hosts = {} THEN ctxt.transport_url ELSE hosts]
  BY DEF Amqp!AskRelation, AskedBy, FirstAsked, Amqp!FoldLeftDomain, Amqp!FoldLeft,
         Amqp!MapThenFoldSet
<1>2. r \in Nat /\ n \in Nat /\ DOMAIN servers = 1..n /\ servers \in [1..n -> Amqp!Server]
  <2>1. servers \in Seq(Amqp!Server)
    BY ElementOfSeq
  <2> QED BY <2>1, LenProperties
<1>3. FirstAsked(ctxt) \in Asking /\ ~FirstAsked(ctxt).broke
  BY DEF FirstAsked, Asking, Found
<1> HIDE DEF servers, n
<1>4. /\ claimed \in Asking
      /\ n = 0 => claimed = FirstAsked(ctxt)
      /\ n > 0 => claimed.complete = claimed.broke
      /\ claimed.broke <=> ReadyOne(servers, n)
      /\ claimed.broke => HostIs(r, servers, n, claimed.hosts)
  BY <1>2, <1>3, AskedUntilReady
<1>5. Amqp!rabbitmq_hosts(r, servers) =
         {Amqp!Own(r, u) : u \in {v \in 1..n : servers[v].password}}
  BY <1>2 DEF Amqp!rabbitmq_hosts
<1>6. \A u \in 1..n : Amqp!Own(r, u) \in AmqpHosts /\ Amqp!Vip(r, u) \in AmqpHosts
  BY <1>2 DEF Amqp!Own, Amqp!Vip, AmqpHosts
<1>7. hosts \subseteq AmqpHosts
  BY <1>2, <1>4, <1>5, <1>6 DEF Asking, n
<1>8. c \in Found
  BY <1>1, <1>4, <1>7 DEF Found, Asking
<1>9. n = 0 => c.complete = ctxt.complete /\ c.transport_url = ctxt.transport_url
  <2> SUFFICES ASSUME n = 0 PROVE c.complete = ctxt.complete /\ c.transport_url = ctxt.transport_url
    OBVIOUS
  <2>3. claimed = FirstAsked(ctxt)
    BY <1>4
  <2>1. claimed.complete = ctxt.complete /\ claimed.hosts = {}
    <3>1. FirstAsked(ctxt).complete = ctxt.complete /\ FirstAsked(ctxt).hosts = {}
      BY DEF FirstAsked
    <3> HIDE DEF claimed
    <3> QED BY <2>3, <3>1
  <2>2. hosts = {}
    BY <2>1 DEF n
  <2> HIDE DEF claimed, hosts, c
  <2> QED BY <1>1, <2>1, <2>2
<1>10. ASSUME n > 0, c.complete
       PROVE  c.transport_url # {} /\ \A h \in c.transport_url : Usable(all, h)
  <2>1. claimed.broke /\ claimed.complete
    BY <1>1, <1>4, <1>10
  <2>2. PICK u \in 1..n :
           /\ Amqp!Ready(servers[u])
           /\ claimed.hosts = {IF servers[u].cluster = "no" THEN Amqp!Own(r, u) ELSE Amqp!Vip(r, u)}
    BY <1>4, <2>1 DEF HostIs
  <2>3. servers[u] \in Amqp!Server
    BY <1>2
  <2>4. servers[u].password /\ servers[u].cluster \in {"no", "vip"}
    BY <2>2, <2>3 DEF Amqp!Ready, Amqp!Server
  <2>5. claimed.hosts # {} /\ \A h \in claimed.hosts : Usable(all, h)
    BY <1>2, <2>2, <2>4 DEF Usable, Amqp!Own, Amqp!Vip, servers, n
  <2>6. /\ Amqp!rabbitmq_hosts(r, servers) # {}
        /\ \A h \in Amqp!rabbitmq_hosts(r, servers) : Usable(all, h)
    <3>1. Amqp!Own(r, u) \in Amqp!rabbitmq_hosts(r, servers)
      BY <1>5, <2>4
    <3>2. \A v \in 1..n : servers[v].password => Usable(all, Amqp!Own(r, v))
      BY <1>2 DEF Usable, Amqp!Own, servers, n
    <3> QED BY <1>5, <3>1, <3>2
  <2> QED BY <1>1, <2>5, <2>6
<1>11. ReadyOne(servers, n) => c.complete
  <2>1. ReadyOne(servers, n) => n > 0
    BY <1>2 DEF ReadyOne
  <2> QED BY <1>1, <1>4, <2>1
<1> QED BY <1>8, <1>9, <1>10, <1>11 DEF ReadyOne, servers, n

Contexts_(all, n) ==
    {g \in [0..n -> Found] :
        g[0] = Amqp!Nothing /\ \A r \in 1..n : g[r] = Amqp!AskRelation(all, g[r - 1], r)}
AllAsked(all) ==
    Amqp!FoldLeftDomain(LAMBDA c, r : Amqp!AskRelation(all, c, r), Amqp!Nothing, all)

LEMMA RelationsAsked ==
  ASSUME NEW n, n \in Nat, NEW all, DOMAIN all = 1..n,
         \A c \in Found, r \in 1..n : Amqp!AskRelation(all, c, r) \in Found
  PROVE  AllAsked(all) \in {g[n] : g \in Contexts_(all, n)}
<1> DEFINE op(c, r) == Amqp!AskRelation(all, c, r)
           start == Amqp!Nothing
           Domain == [i \in DOMAIN all |-> i]
           body(f) == [s \in SUBSET DOMAIN Domain |->
                         IF s = {} THEN start
                         ELSE op(f[s \ {Amqp!Max(s)}], Domain[Amqp!Max(s)])]
           iter == CHOOSE f : f = body(f)
           next == [q \in Found \X (1..n) |-> op(q[1], q[2])]
<1>1. AllAsked(all) = iter[DOMAIN Domain]
  BY DEF AllAsked, Amqp!FoldLeftDomain, Amqp!FoldLeft, Amqp!MapThenFoldSet
<1>2. DOMAIN Domain = 1..n /\ \A i \in 1..n : Domain[i] = i
  OBVIOUS
<1>3. start \in Found
  BY DEF Amqp!Nothing, Found
<1>4. \A c \in Found, r \in 1..n : op(c, r) \in Found
  OBVIOUS
<1> HIDE DEF op, Domain, start
<1>5. next \in [Found \X (1..n) -> Found]
  BY <1>4
<1>6. \A c \in Found, r \in 1..n : next[<<c, r>>] = op(c, r)
  OBVIOUS
<1> HIDE DEF next
<1>7. \E f : f = body(f)
  <2>1. PICK f \in [SUBSET (1..n) -> Found] :
           \A s \in SUBSET (1..n) :
              f[s] = IF s = {} THEN start ELSE next[<<f[s \ {Max(s)}], Max(s)>>]
    <3>1. Folding(n, Found, start, next) # {}
      BY <1>3, <1>5, Foldable
    <3> QED BY <3>1 DEF Folding
  <2>2. \A s \in SUBSET (1..n) : s # {} =>
           f[s] = op(f[s \ {Amqp!Max(s)}], Domain[Amqp!Max(s)])
    <3> SUFFICES ASSUME NEW s \in SUBSET (1..n), s # {}
                 PROVE  f[s] = op(f[s \ {Max(s)}], Domain[Max(s)])
      BY AmqpMax
    <3>1. Max(s) \in s
      BY GreatestOf
    <3>2. Max(s) \in 1..n /\ Domain[Max(s)] = Max(s)
      BY <1>2, <3>1
    <3>3. f[s \ {Max(s)}] \in Found
      BY <2>1
    <3>4. f[s] = next[<<f[s \ {Max(s)}], Max(s)>>]
      BY <2>1
    <3> QED BY <1>6, <3>2, <3>3, <3>4
  <2>3. f = body(f)
    <3>1. f[{}] = start
      BY <2>1
    <3> QED BY <1>2, <2>1, <2>2, <3>1
  <2> QED BY <2>3
<1>8. iter = body(iter)
  BY <1>7
<1> HIDE DEF iter
<1>9. iter[1..n] \in Final(n, Found, start, next)
  <2>1. iter[{}] = start
    BY <1>8
  <2>2. ASSUME NEW s \in SUBSET (1..n), s # {}, iter[s \ {Max(s)}] \in Found
        PROVE  iter[s] = next[<<iter[s \ {Max(s)}], Max(s)>>]
    <3>1. Max(s) \in s
      BY <2>2, GreatestOf
    <3>2. Max(s) \in 1..n /\ Domain[Max(s)] = Max(s)
      BY <1>2, <3>1
    <3>3. iter[s] = op(iter[s \ {Max(s)}], Domain[Max(s)])
      BY <1>2, <1>8, <2>2, AmqpMax
    <3> QED BY <1>6, <2>2, <3>2, <3>3
  <2>3. Recurs(n, Found, start, next, iter)
    BY <2>1, <2>2 DEF Recurs
  <2> QED BY <1>3, <1>5, <2>3, Stepwise
<1>10. PICK g \in [0..n -> Found] :
          /\ g[n] = iter[1..n] /\ g[0] = start
          /\ \A k \in 1..n : g[k] = next[<<g[k - 1], k>>]
  BY <1>9 DEF Steps, Final
<1>11. \A k \in 1..n : g[k] = op(g[k - 1], k)
  <2> TAKE k \in 1..n
  <2>1. k - 1 \in 0..n
    OBVIOUS
  <2> QED BY <1>6, <1>10, <2>1
<1>12. g \in Contexts_(all, n)
  BY <1>10, <1>11 DEF op, start, Contexts_
<1> QED BY <1>1, <1>2, <1>10, <1>12

\* transport_url, after k relations: as soon as a relation is complete, it names servers
\* that can be used.
LEMMA UrlUsable ==
  ASSUME NEW all \in Seq(Seq(Amqp!Server))
  PROVE  LET c == Amqp!AMQPContext(all)
         IN  /\ \A h \in c.transport_url : Usable(all, h)
             /\ c.complete => c.transport_url # {}
             /\ Len(all) = 1 /\ (\E u \in 1..Len(all[1]) : Amqp!Ready(all[1][u])) => c.complete
<1> DEFINE n == Len(all)
           So(ctxt) == ctxt.complete =>
                          ctxt.transport_url # {} /\ \A h \in ctxt.transport_url : Usable(all, h)
<1>1. n \in Nat /\ DOMAIN all = 1..n
  BY LenProperties
<1>2. \A c \in Found, r \in 1..n : Amqp!AskRelation(all, c, r) \in Found
  BY RelationAsked
<1>3. AllAsked(all) \in {g[n] : g \in Contexts_(all, n)}
  BY <1>1, <1>2, RelationsAsked
<1>4. PICK g \in [0..n -> Found] :
         /\ AllAsked(all) = g[n] /\ g[0] = Amqp!Nothing
         /\ \A r \in 1..n : g[r] = Amqp!AskRelation(all, g[r - 1], r)
  BY <1>3 DEF Contexts_
<1> DEFINE P == {k \in 0..n : So(g[k])}
<1>5. 0 \in P
  BY <1>1, <1>4 DEF Amqp!Nothing
<1>6. ASSUME NEW k \in 1..n, k - 1 \in P PROVE k \in P
  <2>1. g[k] = Amqp!AskRelation(all, g[k - 1], k) /\ g[k - 1] \in Found /\ k \in 0..n
    <3>1. k \in 0..n /\ k - 1 \in 0..n
      BY <1>1
    <3> HIDE DEF n
    <3> QED BY <1>4, <3>1
  <2>2. /\ Len(all[k]) = 0 => g[k].complete = g[k - 1].complete
                              /\ g[k].transport_url = g[k - 1].transport_url
        /\ Len(all[k]) > 0 /\ g[k].complete =>
              g[k].transport_url # {} /\ \A h \in g[k].transport_url : Usable(all, h)
    BY <2>1, RelationAsked
  <2>3. Len(all[k]) = 0 \/ Len(all[k]) > 0
    <3>1. all[k] \in Seq(Amqp!Server)
      BY <1>1, ElementOfSeq
    <3> QED BY <3>1, LenProperties
  <2>4. So(g[k - 1])
    BY <1>6
  <2>5. So(g[k])
    BY <2>2, <2>3, <2>4
  <2> QED BY <2>1, <2>5
<1> HIDE DEF P
<1>7. \A k \in 0..n : k \in P
  BY <1>1, <1>5, <1>6, Induction
<1>8. So(g[n])
  BY <1>1, <1>7 DEF P
<1>9. Amqp!AMQPContext(all) = IF g[n].complete THEN g[n] ELSE Amqp!Nothing
  BY <1>4 DEF Amqp!AMQPContext, AllAsked, Amqp!FoldLeftDomain, Amqp!FoldLeft,
         Amqp!MapThenFoldSet
<1>10. n = 1 /\ (\E u \in 1..Len(all[1]) : Amqp!Ready(all[1][u])) => g[n].complete
  <2> SUFFICES ASSUME n = 1, \E u \in 1..Len(all[1]) : Amqp!Ready(all[1][u])
               PROVE  g[1].complete
    OBVIOUS
  <2>1. g[1] = Amqp!AskRelation(all, g[0], 1) /\ g[0] \in Found /\ 1 \in 1..n
    BY <1>1, <1>4
  <2> QED BY <2>1, RelationAsked
<1> HIDE DEF n
<1> QED BY <1>8, <1>9, <1>10 DEF Amqp!Nothing, n

LEMMA AmqpInitial == Amqp!Init => AmqpTypeOK
  BY EmptySeq DEF Amqp!Init, AmqpTypeOK

LEMMA AmqpInductive ==
  ASSUME AmqpTypeOK, [Amqp!Next]_amqp
  PROVE  AmqpTypeOK'
<1> DEFINE S == Amqp!Server
<1>1. \A X, s, i : s \in Seq(X) /\ i \in DOMAIN s => Amqp!RemoveAt(s, i) \in Seq(X)
  <2> SUFFICES ASSUME NEW X, NEW s \in Seq(X), NEW i \in DOMAIN s
               PROVE  Amqp!RemoveAt(s, i) \in Seq(X)
    OBVIOUS
  <2>1. i \in 1..Len(s) /\ Len(s) \in Nat
    BY LenProperties
  <2>2. SubSeq(s, 1, i - 1) \in Seq(X) /\ SubSeq(s, i + 1, Len(s)) \in Seq(X)
    BY <2>1, SubSeqProperties
  <2> QED BY <2>2, ConcatProperties DEF Amqp!RemoveAt
<1>2. \A X, s, i, v : s \in Seq(X) /\ i \in DOMAIN s /\ v \in X => [s EXCEPT ![i] = v] \in Seq(X)
  BY ExceptSeq
<1>3. \A r \in DOMAIN amqp : amqp[r] \in Seq(S)
  BY ElementOfSeq, LenProperties DEF AmqpTypeOK
<1>4. CASE UNCHANGED amqp
  BY <1>4 DEF AmqpTypeOK
<1>5. CASE Amqp!Relate
  <2>1. <<>> \in Seq(S)
    BY EmptySeq
  <2> QED BY <1>5, <2>1, AppendProperties DEF Amqp!Relate, AmqpTypeOK
<1>6. ASSUME NEW r \in 1..MaxRelations, Amqp!Unrelate(r) PROVE AmqpTypeOK'
  BY <1>1, <1>6 DEF Amqp!Unrelate, AmqpTypeOK
<1>7. ASSUME NEW r \in 1..MaxRelations, Amqp!Join(r) PROVE AmqpTypeOK'
  <2> DEFINE new == [cluster |-> "no", password |-> FALSE, vip_only |-> FALSE]
  <2>1. new \in S
    BY DEF Amqp!Server
  <2>2. Append(amqp[r], new) \in Seq(S)
    BY <1>3, <1>7, <2>1, AppendProperties DEF Amqp!Join
  <2>3. amqp' = [amqp EXCEPT ![r] = Append(amqp[r], new)] /\ r \in DOMAIN amqp
    BY <1>7 DEF Amqp!Join
  <2> QED BY <1>2, <2>2, <2>3 DEF AmqpTypeOK
<1>8. ASSUME NEW r \in 1..MaxRelations, NEW u \in 1..MaxServers, Amqp!Send(r, u) PROVE AmqpTypeOK'
  <2>1. r \in DOMAIN amqp /\ u \in DOMAIN amqp[r] /\ amqp[r][u] \in S
    BY <1>3, <1>8, ElementOfSeq, LenProperties DEF Amqp!Send
  <2>2. \E s \in S : amqp' = [amqp EXCEPT ![r] = [amqp[r] EXCEPT ![u] = s]]
    <3>1. ASSUME NEW c \in {"no", "pending", "vip"}, amqp' = [amqp EXCEPT ![r][u].cluster = c]
          PROVE  \E s \in S : amqp' = [amqp EXCEPT ![r] = [amqp[r] EXCEPT ![u] = s]]
      <4>1. [amqp[r][u] EXCEPT !.cluster = c] \in S
        BY <2>1 DEF Amqp!Server
      <4> QED BY <3>1, <4>1
    <3>2. ASSUME amqp' = [amqp EXCEPT ![r][u]["password"] = ~@]
          PROVE  \E s \in S : amqp' = [amqp EXCEPT ![r] = [amqp[r] EXCEPT ![u] = s]]
      <4>1. [amqp[r][u] EXCEPT !["password"] = ~@] \in S
        BY <2>1 DEF Amqp!Server
      <4> QED BY <3>2, <4>1
    <3>3. ASSUME amqp' = [amqp EXCEPT ![r][u]["vip_only"] = ~@]
          PROVE  \E s \in S : amqp' = [amqp EXCEPT ![r] = [amqp[r] EXCEPT ![u] = s]]
      <4>1. [amqp[r][u] EXCEPT !["vip_only"] = ~@] \in S
        BY <2>1 DEF Amqp!Server
      <4> QED BY <3>3, <4>1
    <3> QED BY <1>8, <3>1, <3>2, <3>3 DEF Amqp!Send
  <2>3. PICK s \in S : amqp' = [amqp EXCEPT ![r] = [amqp[r] EXCEPT ![u] = s]]
    BY <2>2
  <2>4. [amqp[r] EXCEPT ![u] = s] \in Seq(S)
    BY <1>2, <1>3, <2>1
  <2> QED BY <1>2, <2>1, <2>3, <2>4 DEF AmqpTypeOK
<1>9. ASSUME NEW r \in 1..MaxRelations, NEW u \in 1..MaxServers, Amqp!Depart(r, u) PROVE AmqpTypeOK'
  <2>1. Amqp!RemoveAt(amqp[r], u) \in Seq(S) /\ r \in DOMAIN amqp
    BY <1>1, <1>3, <1>9 DEF Amqp!Depart
  <2>2. amqp' = [amqp EXCEPT ![r] = Amqp!RemoveAt(amqp[r], u)]
    BY <1>9 DEF Amqp!Depart
  <2> QED BY <1>2, <2>1, <2>2 DEF AmqpTypeOK
<1> QED BY <1>4, <1>5, <1>6, <1>7, <1>8, <1>9 DEF Amqp!Next

LEMMA AmqpGives == AmqpTypeOK => Amqp!ServersReady
<1> SUFFICES ASSUME AmqpTypeOK PROVE Amqp!ServersReady
  OBVIOUS
<1>1. /\ \A h \in Amqp!AMQPContext(amqp).transport_url : Usable(amqp, h)
      /\ Amqp!AMQPContext(amqp).complete => Amqp!AMQPContext(amqp).transport_url # {}
      /\ Len(amqp) = 1 /\ (\E u \in 1..Len(amqp[1]) : Amqp!Ready(amqp[1][u])) =>
            Amqp!AMQPContext(amqp).complete
  BY UrlUsable DEF AmqpTypeOK
<1>2. Len(amqp) = 1 => DOMAIN amqp[1] = 1..Len(amqp[1])
  BY ElementOfSeq, LenProperties DEF AmqpTypeOK
<1> QED BY <1>1, <1>2 DEF Amqp!ServersReady, Usable

\* transport_url names only servers that are ready, and a relation with one of them is enough
\* to have it, for any number of relations and of servers on them.
THEOREM ServersAreReady == AllSpec => []ServersReady
<1> DEFINE Inv == part = "amqp" => AmqpTypeOK
<1>1. AllInit => Inv
  BY AmqpInitial DEF AllInit
<1>2. Inv /\ [AllNext]_all_vars => Inv'
  BY Parts, AmqpInductive
<1>3. Inv => ServersReady
  BY AmqpGives DEF ServersReady
<1> QED BY <1>1, <1>2, <1>3, PTL DEF AllSpec

-----------------------------------------------------------------------------
\* Credentials: what the loop over the units of a relation has left behind.

CredsTypeOK == peers \in Seq(Creds!Unit) /\ Len(peers) <= MaxUnits

KeyValues == [creds : Nat, domain : Nat]
Collected == [done : BOOLEAN, keys : KeyValues]
Collections(units, n) ==
    {g \in [0..n -> Collected] :
        /\ g[0] = [done |-> FALSE, keys |-> Creds!Empty]
        /\ \A i \in 1..n : g[i] = Creds!Ask(units, g[i - 1], i)}

LEMMA CredsMax == \A S : Creds!Max(S) = Max(S)
  BY DEF Creds!Max, Max

LEMMA UnitsAsked ==
  ASSUME NEW n, n \in Nat, NEW units \in [1..n -> Creds!Unit]
  PROVE  Creds!Asked(units) \in {g[n] : g \in Collections(units, n)}
<1> DEFINE op(c, i) == Creds!Ask(units, c, i)
           start == [done |-> FALSE, keys |-> Creds!Empty]
           Domain == [i \in DOMAIN units |-> i]
           body(f) == [s \in SUBSET DOMAIN Domain |->
                         IF s = {} THEN start
                         ELSE op(f[s \ {Creds!Max(s)}], Domain[Creds!Max(s)])]
           iter == CHOOSE f : f = body(f)
           next == [q \in Collected \X (1..n) |-> op(q[1], q[2])]
<1>1. Creds!Asked(units) = iter[DOMAIN Domain]
  BY DEF Creds!Asked, Creds!FoldLeftDomain, Creds!FoldLeft, Creds!MapThenFoldSet
<1>2. DOMAIN Domain = 1..n /\ \A i \in 1..n : Domain[i] = i
  OBVIOUS
<1>3. start \in Collected
  BY DEF Creds!Empty, Creds!NoKey, Collected, KeyValues
<1>4. \A c \in Collected, i \in 1..n : op(c, i) \in Collected
  <2> SUFFICES ASSUME NEW c \in Collected, NEW i \in 1..n PROVE op(c, i) \in Collected
    OBVIOUS
  <2>1. units[i] \in Creds!Unit /\ i \in Nat /\ Creds!NoneValue \in Nat
    BY CredsAssumption DEF Creds!NoneValue
  <2>2. \A has : Creds!Value(has, i) \in Nat
    BY <2>1 DEF Creds!Value
  <2> DEFINE keys == [creds |-> Creds!Value(units[i].creds, i),
                      domain |-> IF units[i].v3 THEN Creds!Value(units[i].domain, i)
                                 ELSE c.keys.domain]
  <2>3. c.keys.domain \in Nat
    BY DEF Collected, KeyValues
  <2>4. keys \in KeyValues
    BY <2>2, <2>3 DEF KeyValues
  <2>5. Creds!context_complete(keys) \in BOOLEAN
    BY DEF Creds!context_complete
  <2>6. op(c, i) = IF c.done THEN c ELSE [done |-> Creds!context_complete(keys), keys |-> keys]
    BY DEF Creds!Ask
  <2> HIDE DEF keys, op
  <2> QED BY <2>4, <2>5, <2>6 DEF Collected
<1> HIDE DEF op, Domain, start
<1>5. next \in [Collected \X (1..n) -> Collected]
  BY <1>4
<1>6. \A c \in Collected, i \in 1..n : next[<<c, i>>] = op(c, i)
  OBVIOUS
<1> HIDE DEF next
<1>7. \E f : f = body(f)
  <2>1. PICK f \in [SUBSET (1..n) -> Collected] :
           \A s \in SUBSET (1..n) :
              f[s] = IF s = {} THEN start ELSE next[<<f[s \ {Max(s)}], Max(s)>>]
    <3>1. Folding(n, Collected, start, next) # {}
      BY <1>3, <1>5, Foldable
    <3> QED BY <3>1 DEF Folding
  <2>2. \A s \in SUBSET (1..n) : s # {} =>
           f[s] = op(f[s \ {Creds!Max(s)}], Domain[Creds!Max(s)])
    <3> SUFFICES ASSUME NEW s \in SUBSET (1..n), s # {}
                 PROVE  f[s] = op(f[s \ {Max(s)}], Domain[Max(s)])
      BY CredsMax
    <3>1. Max(s) \in s
      BY GreatestOf
    <3>2. Max(s) \in 1..n /\ Domain[Max(s)] = Max(s)
      BY <1>2, <3>1
    <3>3. f[s \ {Max(s)}] \in Collected
      BY <2>1
    <3>4. f[s] = next[<<f[s \ {Max(s)}], Max(s)>>]
      BY <2>1
    <3> QED BY <1>6, <3>2, <3>3, <3>4
  <2>3. f = body(f)
    <3>1. f[{}] = start
      BY <2>1
    <3> QED BY <1>2, <2>1, <2>2, <3>1
  <2> QED BY <2>3
<1>8. iter = body(iter)
  BY <1>7
<1> HIDE DEF iter
<1>9. iter[1..n] \in Final(n, Collected, start, next)
  <2>1. iter[{}] = start
    BY <1>8
  <2>2. ASSUME NEW s \in SUBSET (1..n), s # {}, iter[s \ {Max(s)}] \in Collected
        PROVE  iter[s] = next[<<iter[s \ {Max(s)}], Max(s)>>]
    <3>1. Max(s) \in s
      BY <2>2, GreatestOf
    <3>2. Max(s) \in 1..n /\ Domain[Max(s)] = Max(s)
      BY <1>2, <3>1
    <3>3. iter[s] = op(iter[s \ {Max(s)}], Domain[Max(s)])
      BY <1>2, <1>8, <2>2, CredsMax
    <3> QED BY <1>6, <2>2, <3>2, <3>3
  <2>3. Recurs(n, Collected, start, next, iter)
    BY <2>1, <2>2 DEF Recurs
  <2> QED BY <1>3, <1>5, <2>3, Stepwise
<1>10. PICK g \in [0..n -> Collected] :
          /\ g[n] = iter[1..n] /\ g[0] = start
          /\ \A k \in 1..n : g[k] = next[<<g[k - 1], k>>]
  BY <1>9 DEF Steps, Final
<1>11. \A k \in 1..n : g[k] = op(g[k - 1], k)
  <2> TAKE k \in 1..n
  <2>1. k - 1 \in 0..n
    OBVIOUS
  <2> QED BY <1>6, <1>10, <2>1
<1>12. g \in Collections(units, n)
  BY <1>10, <1>11 DEF op, start, Collections
<1> QED BY <1>1, <1>2, <1>10, <1>12

\* A unit that has sent all it has to.
Whole(u) == u.creds /\ (u.v3 => u.domain)
\* The context is that of unit i.
Of(units, i, keys) == keys.creds = i /\ Whole(units[i]) /\ (units[i].v3 => keys.domain = i)

LEMMA AskedAre ==
  ASSUME NEW n, n \in Nat, n <= MaxUnits, NEW units \in [1..n -> Creds!Unit]
  PROVE  LET claimed == Creds!Asked(units)
         IN  /\ claimed.done => \E i \in 1..n : Of(units, i, claimed.keys)
             /\ (\A i, j \in 1..n : units[i].v3 = units[j].v3) /\ (\E i \in 1..n : Whole(units[i]))
                   => claimed.done
<1>1. PICK g \in Collections(units, n) : Creds!Asked(units) = g[n]
  BY UnitsAsked
<1>2. /\ g \in [0..n -> Collected]
      /\ g[0] = [done |-> FALSE, keys |-> Creds!Empty]
      /\ \A i \in 1..n : g[i] = Creds!Ask(units, g[i - 1], i)
  BY DEF Collections
<1> DEFINE Alike == \A i, j \in 1..n : units[i].v3 = units[j].v3
           So(k) ==
             /\ g[k].done => \E i \in 1..k : Of(units, i, g[k].keys)
             /\ ~g[k].done /\ Alike =>
                   /\ \A i \in 1..k : ~Whole(units[i])
                   /\ (\A i \in 1..n : ~units[i].v3) => g[k].keys.domain = Creds!NoKey
           P == {k \in 0..n : So(k)}
<1>3. 0 \in P
  <2>1. ~g[0].done /\ g[0].keys.domain = Creds!NoKey
    BY <1>2 DEF Creds!Empty
  <2>2. \A i \in 1..0 : FALSE
    OBVIOUS
  <2>3. So(0)
    BY <2>1, <2>2
  <2> HIDE DEF So
  <2> QED BY <2>3
<1>4. ASSUME NEW k \in 1..n, k - 1 \in P PROVE k \in P
  <2>1. So(k - 1) /\ k \in 0..n /\ k - 1 \in 0..n /\ k \in Nat /\ k # Creds!NoneValue
    BY <1>4, CredsAssumption DEF Creds!NoneValue
  <2>2. \A i : i \in 1..k <=> i \in 1..k - 1 \/ i = k
    OBVIOUS
  <2>3. units[k] \in Creds!Unit
    OBVIOUS
  <2>4. g[k] = Creds!Ask(units, g[k - 1], k)
    BY <1>2
  <2>5. CASE g[k - 1].done
    <3>1. g[k] = g[k - 1]
      BY <2>4, <2>5 DEF Creds!Ask
    <3> HIDE DEF Alike
    <3>2. So(k)
      BY <2>1, <2>2, <2>5, <3>1
    <3> HIDE DEF So
    <3> QED BY <2>1, <3>2
  <2>6. CASE ~g[k - 1].done
    <3> DEFINE keys == [creds |-> Creds!Value(units[k].creds, k),
                        domain |-> IF units[k].v3 THEN Creds!Value(units[k].domain, k)
                                   ELSE g[k - 1].keys.domain]
    <3>1. g[k] = [done |-> Creds!context_complete(keys), keys |-> keys]
      BY <2>4, <2>6 DEF Creds!Ask
    <3>2. Creds!context_complete(keys) <=>
             keys.creds # Creds!NoneValue /\ keys.domain # Creds!NoneValue
      <4>1. DOMAIN keys = {"creds", "domain"}
        OBVIOUS
      <4>2. keys["creds"] = keys.creds /\ keys["domain"] = keys.domain
        OBVIOUS
      <4> HIDE DEF keys
      <4> QED BY <4>1, <4>2 DEF Creds!context_complete
    <3>3. /\ keys.creds = IF units[k].creds THEN k ELSE Creds!NoneValue
          /\ units[k].v3 => keys.domain = IF units[k].domain THEN k ELSE Creds!NoneValue
          /\ ~units[k].v3 => keys.domain = g[k - 1].keys.domain
      BY DEF Creds!Value
    <3> HIDE DEF keys
    <3>4. g[k].done = Creds!context_complete(keys) /\ g[k].keys = keys
      BY <3>1
    <3>5. g[k].done => Of(units, k, g[k].keys)
      BY <2>1, <2>3, <3>2, <3>3, <3>4 DEF Of, Whole, Creds!Unit
    <3>6. ASSUME ~g[k].done, Alike
          PROVE  /\ ~Whole(units[k])
                 /\ (\A i \in 1..n : ~units[i].v3) => g[k].keys.domain = Creds!NoKey
      <4>1. CASE units[k].v3
        BY <2>1, <2>3, <3>2, <3>3, <3>4, <3>6, <4>1 DEF Whole, Creds!Unit
      <4>2. CASE ~units[k].v3
        <5>1. \A i \in 1..n : ~units[i].v3
          BY <3>6, <4>2
        <5>2. g[k - 1].keys.domain = Creds!NoKey
          BY <2>1, <2>6, <3>6, <5>1
        <5>3. Creds!NoKey # Creds!NoneValue
          BY CredsAssumption DEF Creds!NoKey, Creds!NoneValue
        <5> QED BY <2>1, <2>3, <3>2, <3>3, <3>4, <3>6, <4>2, <5>2, <5>3 DEF Whole, Creds!Unit
      <4> QED BY <4>1, <4>2
    <3> HIDE DEF Alike
    <3>7. So(k)
      <4>1. g[k].done => \E i \in 1..k : Of(units, i, g[k].keys)
        BY <2>2, <3>5
      <4>2. ~g[k].done /\ Alike => \A i \in 1..k : ~Whole(units[i])
        BY <2>1, <2>2, <2>6, <3>6
      <4> QED BY <3>6, <4>1, <4>2
    <3> HIDE DEF So
    <3> QED BY <2>1, <3>7
  <2> QED BY <2>5, <2>6
<1> HIDE DEF P
<1>5. \A k \in 0..n : k \in P
  BY <1>3, <1>4, Induction
<1>6. So(n)
  BY <1>5 DEF P
<1> QED BY <1>1, <1>6

LEMMA CredsInitial == Creds!Init => CredsTypeOK
<1>1. <<>> \in Seq(Creds!Unit) /\ Len(<<>>) = 0
  BY EmptySeq
<1> QED BY <1>1, CredsAssumption DEF Creds!Init, CredsTypeOK

LEMMA CredsInductive ==
  ASSUME CredsTypeOK, [Creds!Next]_peers
  PROVE  CredsTypeOK'
<1> DEFINE S == Creds!Unit
<1>1. peers \in Seq(S) /\ Len(peers) \in Nat /\ DOMAIN peers = 1..Len(peers) /\ Len(peers) <= MaxUnits
  BY LenProperties DEF CredsTypeOK
<1>2. CASE UNCHANGED peers
  BY <1>2 DEF CredsTypeOK
<1>3. CASE Creds!Join
  <2> DEFINE new == [creds |-> FALSE, v3 |-> FALSE, domain |-> FALSE, region |-> FALSE]
  <2>1. new \in S
    BY DEF Creds!Unit
  <2>2. Append(peers, new) \in Seq(S) /\ Len(Append(peers, new)) = Len(peers) + 1
    BY <1>1, <2>1, AppendProperties
  <2>3. peers' = Append(peers, new) /\ Len(peers) < MaxUnits
    BY <1>3 DEF Creds!Join
  <2> HIDE DEF new, S
  <2> DEFINE n == Len(peers)
  <2>4. n + 1 <= MaxUnits
    <3>1. n \in Nat /\ n < MaxUnits /\ MaxUnits \in Nat
      BY <1>1, <2>3, CredsAssumption
    <3> HIDE DEF n
    <3> QED BY <3>1
  <2>5. peers' \in Seq(S) /\ Len(peers') <= MaxUnits
    BY <2>2, <2>3, <2>4
  <2> QED BY <2>5 DEF CredsTypeOK, S
<1>4. ASSUME NEW i \in Creds!Units, Creds!Send(i) PROVE CredsTypeOK'
  <2>1. PICK k \in {"creds", "v3", "domain", "region"} : peers' = [peers EXCEPT ![i][k] = ~@]
    BY <1>4 DEF Creds!Send
  <2>2. i \in 1..Len(peers) /\ peers[i] \in S
    BY <1>1, <1>4, ElementOfSeq DEF Creds!Send
  <2>3. [peers[i] EXCEPT ![k] = ~@] \in S
    BY <2>2 DEF Creds!Unit
  <2>4. peers' = [peers EXCEPT ![i] = [peers[i] EXCEPT ![k] = ~@]]
    BY <2>1
  <2>5. peers' \in Seq(S) /\ Len(peers') = Len(peers)
    BY <1>1, <2>2, <2>3, <2>4, ExceptSeq
  <2> QED BY <1>1, <2>5 DEF CredsTypeOK
<1>5. ASSUME NEW i \in Creds!Units, Creds!Depart(i) PROVE CredsTypeOK'
  <2>1. i \in 1..Len(peers) /\ peers' = SubSeq(peers, 1, i - 1) \o SubSeq(peers, i + 1, Len(peers))
    BY <1>1, <1>5 DEF Creds!Depart, Creds!RemoveAt
  <2>2. peers' \in Seq(S) /\ Len(peers') = Len(peers) - 1
    BY <1>1, <2>1, Removed
  <2> QED BY <1>1, <2>2, CredsAssumption DEF CredsTypeOK
<1> QED BY <1>2, <1>3, <1>4, <1>5 DEF Creds!Next

LEMMA CredsGives == CredsTypeOK => Creds!OneUnitsCredentials
<1> SUFFICES ASSUME CredsTypeOK PROVE Creds!OneUnitsCredentials
  OBVIOUS
<1> DEFINE n == Len(peers)
           ctxt == Creds!IdentityServiceContext(peers)
<1>1. n \in Nat /\ n <= MaxUnits /\ DOMAIN peers = 1..n /\ peers \in [1..n -> Creds!Unit]
  BY LenProperties DEF CredsTypeOK
<1> HIDE DEF n
<1>2. /\ Creds!Asked(peers).done => \E i \in 1..n : Of(peers, i, Creds!Asked(peers).keys)
      /\ (\A i, j \in 1..n : peers[i].v3 = peers[j].v3) /\ (\E i \in 1..n : Whole(peers[i]))
            => Creds!Asked(peers).done
  BY <1>1, AskedAre
<1>3. \A i \in 1..n : Creds!Ready(i) <=> Whole(peers[i])
  BY DEF Creds!Ready, Whole
<1>4. ctxt.creds # Creds!NoKey <=> Creds!Asked(peers).done
  <2>1. \A i \in 1..n : i # Creds!NoKey
    BY <1>1 DEF Creds!NoKey
  <2>2. Creds!Empty.creds = Creds!NoKey
    BY DEF Creds!Empty
  <2> QED BY <1>2, <2>1, <2>2 DEF Creds!IdentityServiceContext, Of
<1>5. ASSUME ctxt.creds # Creds!NoKey
      PROVE  /\ ctxt.creds \in DOMAIN peers /\ Creds!Ready(ctxt.creds)
             /\ peers[ctxt.creds].v3 => ctxt.domain = ctxt.creds
             /\ Creds!APIRegion(peers) = Creds!NoneValue => \A i \in DOMAIN peers : ~peers[i].region
  <2>1. ctxt = Creds!Asked(peers).keys
    BY <1>4, <1>5 DEF Creds!IdentityServiceContext
  <2>2. PICK i \in 1..n : Of(peers, i, ctxt)
    BY <1>2, <1>4, <1>5, <2>1
  <2>3. ctxt.creds \in DOMAIN peers /\ Creds!Ready(ctxt.creds)
    BY <1>1, <1>3, <2>2 DEF Of
  <2>4. peers[ctxt.creds].v3 => ctxt.domain = ctxt.creds
    BY <2>2 DEF Of
  <2> DEFINE found == {j \in DOMAIN peers : peers[j].region}
  <2>5. ASSUME found # {} PROVE Creds!APIRegion(peers) # Creds!NoneValue
    <3>1. found \in SUBSET (1..n)
      BY <1>1
    <3>2. (CHOOSE j \in found : \A k \in found : j <= k) \in found
      BY <1>1, <2>5, <3>1, FirstOf
    <3>3. Creds!APIRegion(peers) = CHOOSE j \in found : \A k \in found : j <= k
      BY <1>5, <2>5 DEF Creds!APIRegion
    <3>4. Creds!APIRegion(peers) \in 1..n
      BY <3>1, <3>2, <3>3
    <3> QED BY <1>1, <3>4, CredsAssumption DEF Creds!NoneValue
  <2> QED BY <2>3, <2>4, <2>5
<1>6. Creds!SameVersion /\ (\E i \in DOMAIN peers : Creds!Ready(i)) => ctxt.creds # Creds!NoKey
  BY <1>1, <1>2, <1>3, <1>4 DEF Creds!SameVersion
<1>7. Creds!SharedDBContext(peers) = Creds!NoKey <=> \A i \in DOMAIN peers : ~peers[i].creds
  <2> DEFINE complete == {i \in DOMAIN peers : peers[i].creds}
  <2>1. CASE complete = {}
    BY <2>1 DEF Creds!SharedDBContext
  <2>2. CASE complete # {}
    <3>1. complete \in SUBSET (1..n)
      BY <1>1
    <3>2. (CHOOSE j \in complete : \A k \in complete : j <= k) \in complete
      BY <1>1, <2>2, <3>1, FirstOf
    <3>3. Creds!SharedDBContext(peers) = CHOOSE j \in complete : \A k \in complete : j <= k
      BY <2>2 DEF Creds!SharedDBContext
    <3>4. Creds!SharedDBContext(peers) # Creds!NoKey
      <4>1. Creds!SharedDBContext(peers) \in 1..n
        BY <3>1, <3>2, <3>3
      <4> QED BY <1>1, <4>1 DEF Creds!NoKey
    <3> QED BY <2>2, <3>4
  <2> QED BY <2>1, <2>2
<1> QED BY <1>5, <1>6, <1>7 DEF Creds!OneUnitsCredentials, Creds!IdentityCredentialsContext

\* The credentials of a context are those of one unit, which has sent all of them; and as
\* long as the units speak the same version, none hides another one that is ready, for any
\* number of units.
THEOREM CredentialsOfOneUnit == AllSpec => []OneUnitsCredentials
<1> DEFINE Inv == part = "creds" => CredsTypeOK
<1>1. AllInit => Inv
  BY CredsInitial DEF AllInit
<1>2. Inv /\ [AllNext]_all_vars => Inv'
  BY Parts, CredsInductive
<1>3. Inv => OneUnitsCredentials
  BY CredsGives DEF OneUnitsCredentials
<1> QED BY <1>1, <1>2, <1>3, PTL DEF AllSpec

-----------------------------------------------------------------------------
\* NeutronApi: the options in use are those of the last unit that has sent any.

NapiTypeOK == api \in Seq(Napi!Unit) /\ settings \in Napi!Config

Merges(units, n) ==
    {g \in [0..n -> SUBSET Napi!Options] :
        /\ g[0] = {}
        /\ \A i \in 1..n : g[i] = IF units[i].sent THEN units[i].on ELSE g[i - 1]}

LEMMA NapiMax == \A S : Napi!Max(S) = Max(S)
  BY DEF Napi!Max, Max

LEMMA OptionsMerge ==
  ASSUME NEW n, n \in Nat, NEW units \in [1..n -> Napi!Unit]
  PROVE  Napi!Options_(units) \in {g[n] : g \in Merges(units, n)}
<1> DEFINE V == SUBSET Napi!Options
           op(on, i) == IF units[i].sent THEN units[i].on ELSE on
           body(f) == [s \in SUBSET DOMAIN units |->
                         IF s = {} THEN {}
                         ELSE op(f[s \ {Napi!Max(s)}], Napi!Max(s))]
           iter == CHOOSE f : f = body(f)
           next == [q \in V \X (1..n) |-> op(q[1], q[2])]
<1>1. Napi!Options_(units) = iter[DOMAIN units]
  BY DEF Napi!Options_, Napi!FoldLeft, Napi!MapThenFoldSet
<1>2. DOMAIN units = 1..n
  OBVIOUS
<1>3. {} \in V
  OBVIOUS
<1>4. \A on \in V, i \in 1..n : op(on, i) \in V
  BY DEF Napi!Unit
<1> HIDE DEF op, V
<1>5. next \in [V \X (1..n) -> V]
  BY <1>4
<1>6. \A c \in V, i \in 1..n : next[<<c, i>>] = op(c, i)
  OBVIOUS
<1> HIDE DEF next
<1>7. \E f : f = body(f)
  <2>1. PICK f \in [SUBSET (1..n) -> V] :
           \A s \in SUBSET (1..n) :
              f[s] = IF s = {} THEN {} ELSE next[<<f[s \ {Max(s)}], Max(s)>>]
    <3>1. Folding(n, V, {}, next) # {}
      BY <1>3, <1>5, Foldable
    <3> QED BY <3>1 DEF Folding
  <2>2. \A s \in SUBSET (1..n) : s # {} =>
           f[s] = op(f[s \ {Napi!Max(s)}], Napi!Max(s))
    <3> SUFFICES ASSUME NEW s \in SUBSET (1..n), s # {}
                 PROVE  f[s] = op(f[s \ {Max(s)}], Max(s))
      BY NapiMax
    <3>1. Max(s) \in s
      BY GreatestOf
    <3>2. f[s \ {Max(s)}] \in V /\ Max(s) \in 1..n
      BY <2>1, <3>1
    <3>3. f[s] = next[<<f[s \ {Max(s)}], Max(s)>>]
      BY <2>1
    <3> QED BY <1>6, <3>2, <3>3
  <2>3. f = body(f)
    <3>1. f[{}] = {}
      BY <2>1
    <3> QED BY <1>2, <2>1, <2>2, <3>1
  <2> QED BY <2>3
<1>8. iter = body(iter)
  BY <1>7
<1> HIDE DEF iter
<1>9. iter[1..n] \in Final(n, V, {}, next)
  <2>1. iter[{}] = {}
    BY <1>8
  <2>2. ASSUME NEW s \in SUBSET (1..n), s # {}, iter[s \ {Max(s)}] \in V
        PROVE  iter[s] = next[<<iter[s \ {Max(s)}], Max(s)>>]
    <3>1. Max(s) \in s
      BY <2>2, GreatestOf
    <3>2. Max(s) \in 1..n
      BY <3>1
    <3>3. iter[s] = op(iter[s \ {Max(s)}], Max(s))
      BY <1>2, <1>8, <2>2, NapiMax
    <3> QED BY <1>6, <2>2, <3>2, <3>3
  <2>3. Recurs(n, V, {}, next, iter)
    BY <2>1, <2>2 DEF Recurs
  <2> QED BY <1>3, <1>5, <2>3, Stepwise
<1>10. PICK g \in [0..n -> V] :
          /\ g[n] = iter[1..n] /\ g[0] = {}
          /\ \A k \in 1..n : g[k] = next[<<g[k - 1], k>>]
  BY <1>9 DEF Steps, Final
<1>11. \A k \in 1..n : g[k] = op(g[k - 1], k)
  <2> TAKE k \in 1..n
  <2>1. k - 1 \in 0..n
    OBVIOUS
  <2> QED BY <1>6, <1>10, <2>1
<1>12. g \in Merges(units, n)
  BY <1>10, <1>11 DEF op, V, Merges
<1> QED BY <1>1, <1>2, <1>10, <1>12

LEMMA LastOptions ==
  ASSUME NEW n, n \in Nat, NEW units \in [1..n -> Napi!Unit]
  PROVE  LET recent == {i \in 1..n : units[i].sent}
             on == Napi!Options_(units)
         IN  /\ recent = {} => on = {}
             /\ recent # {} => \E i \in recent : on = units[i].on /\ \A j \in recent : j <= i
<1>1. PICK g \in Merges(units, n) : Napi!Options_(units) = g[n]
  BY OptionsMerge
<1>2. /\ g[0] = {}
      /\ \A i \in 1..n : g[i] = IF units[i].sent THEN units[i].on ELSE g[i - 1]
  BY DEF Merges
<1> DEFINE recent(k) == {i \in 1..k : units[i].sent}
           So(k) == /\ recent(k) = {} => g[k] = {}
                    /\ recent(k) # {} =>
                          \E i \in recent(k) : g[k] = units[i].on /\ \A j \in recent(k) : j <= i
           P == {k \in 0..n : So(k)}
<1>3. 0 \in P
  <2>1. recent(0) = {}
    OBVIOUS
  <2>2. So(0)
    BY <1>2, <2>1
  <2> HIDE DEF So
  <2> QED BY <2>2
<1>4. ASSUME NEW k \in 1..n, k - 1 \in P PROVE k \in P
  <2>1. So(k - 1) /\ k \in 0..n /\ k \in Nat
    BY <1>4
  <2>2. CASE units[k].sent
    <3>1. k \in recent(k) /\ \A j \in recent(k) : j <= k
      BY <2>2
    <3>2. g[k] = units[k].on
      BY <1>2, <2>2
    <3>3. So(k)
      BY <3>1, <3>2
    <3> HIDE DEF So
    <3> QED BY <2>1, <3>3
  <2>3. CASE ~units[k].sent
    <3>1. recent(k) = recent(k - 1)
      <4>1. \A i : i \in 1..k <=> i \in 1..k - 1 \/ i = k
        OBVIOUS
      <4> QED BY <2>3, <4>1
    <3>2. g[k] = g[k - 1]
      BY <1>2, <2>3
    <3> HIDE DEF recent
    <3>3. So(k)
      BY <2>1, <3>1, <3>2
    <3> HIDE DEF So
    <3> QED BY <2>1, <3>3
  <2> QED BY <2>2, <2>3
<1> HIDE DEF P
<1>5. \A k \in 0..n : k \in P
  BY <1>3, <1>4, Induction
<1>6. So(n)
  BY <1>5 DEF P
<1> QED BY <1>1, <1>6

LEMMA NapiInitial == Napi!Init => NapiTypeOK
<1>1. <<>> \in Seq(Napi!Unit)
  BY EmptySeq
<1> SUFFICES ASSUME Napi!Init PROVE NapiTypeOK
  OBVIOUS
<1>2. settings \in Napi!Config
  BY DEF Napi!Init, Napi!Config
<1> QED BY <1>1, <1>2 DEF Napi!Init, NapiTypeOK

LEMMA NapiInductive ==
  ASSUME NapiTypeOK, [Napi!Next]_(Napi!napi_vars)
  PROVE  NapiTypeOK'
<1> DEFINE S == Napi!Unit
<1>1. api \in Seq(S) /\ settings \in Napi!Config /\ DOMAIN api = 1..Len(api)
  BY LenProperties DEF NapiTypeOK
<1>2. CASE UNCHANGED Napi!napi_vars
  BY <1>1, <1>2 DEF Napi!napi_vars, NapiTypeOK
<1>3. CASE Napi!Join
  <2>1. [sent |-> FALSE, on |-> {}] \in S
    BY DEF Napi!Unit
  <2>2. api' \in Seq(S)
    BY <1>1, <1>3, <2>1, AppendProperties DEF Napi!Join
  <2> QED BY <1>1, <1>3, <2>2 DEF Napi!Join, NapiTypeOK
<1>4. ASSUME NEW i \in 1..MaxApiUnits, Napi!Send(i) PROVE NapiTypeOK'
  <2>1. i \in 1..Len(api) /\ api[i] \in S
    BY <1>1, <1>4, ElementOfSeq DEF Napi!Send
  <2>2. \E s \in S : api' = [api EXCEPT ![i] = s]
    <3>1. ASSUME NEW o \in Napi!Options,
                 api' = [api EXCEPT ![i].on = IF o \in @ THEN @ \ {o} ELSE @ \cup {o}]
          PROVE  \E s \in S : api' = [api EXCEPT ![i] = s]
      <4> DEFINE new == IF o \in api[i].on THEN api[i].on \ {o} ELSE api[i].on \cup {o}
      <4>1. new \in SUBSET Napi!Options
        BY <2>1 DEF Napi!Unit
      <4>2. [api[i] EXCEPT !.on = new] \in S
        BY <2>1, <4>1 DEF Napi!Unit
      <4>3. api' = [api EXCEPT ![i] = [api[i] EXCEPT !.on = new]]
        BY <3>1
      <4> QED BY <4>2, <4>3
    <3>2. ASSUME api' = [api EXCEPT ![i].sent = TRUE]
          PROVE  \E s \in S : api' = [api EXCEPT ![i] = s]
      <4>1. [api[i] EXCEPT !.sent = TRUE] \in S
        BY <2>1 DEF Napi!Unit
      <4> QED BY <3>2, <4>1
    <3> QED BY <1>4, <3>1, <3>2 DEF Napi!Send
  <2>3. api' \in Seq(S)
    BY <1>1, <2>1, <2>2, ExceptSeq
  <2> QED BY <1>1, <1>4, <2>3 DEF Napi!Send, NapiTypeOK
<1>5. ASSUME NEW i \in 1..MaxApiUnits, Napi!Depart(i) PROVE NapiTypeOK'
  <2>1. i \in 1..Len(api) /\ api' = SubSeq(api, 1, i - 1) \o SubSeq(api, i + 1, Len(api))
    BY <1>1, <1>5 DEF Napi!Depart, Napi!RemoveAt
  <2>2. api' \in Seq(S)
    BY <1>1, <2>1, Removed
  <2> QED BY <1>1, <1>5, <2>2 DEF Napi!Depart, NapiTypeOK
<1>6. CASE Napi!Configure
  <2>1. settings' \in Napi!Config
    <3>1. ASSUME NEW o \in {"container", "stein", "xenial", "enable_local_dhcp_and_metadata",
                            "use_dvr_snat"},
                 settings' = [settings EXCEPT ![o] = ~@]
          PROVE  settings' \in Napi!Config
      BY <1>1, <3>1 DEF Napi!Config
    <3>2. ASSUME NEW d \in {"iptables_hybrid", "openvswitch", "other"},
                 settings' = [settings EXCEPT !.firewall_driver = d]
          PROVE  settings' \in Napi!Config
      BY <1>1, <3>2 DEF Napi!Config
    <3>3. ASSUME NEW b \in {"", "missing/file", "dir", "file"},
                 settings' = [settings EXCEPT !.log_base = b]
          PROVE  settings' \in Napi!Config
      BY <1>1, <3>3 DEF Napi!Config
    <3> QED BY <1>6, <3>1, <3>2, <3>3 DEF Napi!Configure
  <2> QED BY <1>1, <1>6, <2>1 DEF Napi!Configure, NapiTypeOK
<1> QED BY <1>2, <1>3, <1>4, <1>5, <1>6 DEF Napi!Next

LEMMA NapiGives == NapiTypeOK => Napi!SettingsFit
<1> SUFFICES ASSUME NapiTypeOK PROVE Napi!SettingsFit
  OBVIOUS
<1>1. Napi!OneUnitsSettings
  <2> DEFINE n == Len(api)
  <2>1. n \in Nat /\ DOMAIN api = 1..n /\ api \in [1..n -> Napi!Unit]
    BY LenProperties DEF NapiTypeOK
  <2>2. Napi!NeutronAPIContext(api).on = Napi!Options_(api)
    BY DEF Napi!NeutronAPIContext
  <2> HIDE DEF n
  <2> QED BY <2>1, <2>2, LastOptions DEF Napi!OneUnitsSettings
<1>2. Napi!RolesAgree
  <2> DEFINE on == Napi!Options_(api)
             agents == Napi!Agents(settings, api)
             plugin == Napi!OVSPluginContext(settings, api)
             dvr == "enable-dvr" \in on
             local == settings.enable_local_dhcp_and_metadata
  <2>1. settings.container \in BOOLEAN /\ local \in BOOLEAN
    BY DEF NapiTypeOK, Napi!Config
  <2>2. /\ Napi!NeutronAPIContext(api).on = on
        /\ Napi!NeutronAPIContext(api).extension_drivers =
              IF "enable-nsg-logging" \in on THEN {"log"} ELSE {}
    BY DEF Napi!NeutronAPIContext
  <2> HIDE DEF on
  <2>3. /\ "l3" \in agents <=> ~settings.container /\ dvr
        /\ "metadata" \in agents <=> ~settings.container /\ (dvr \/ local)
    BY <2>1, <2>2 DEF Napi!Agents, Napi!use_dvr, Napi!enable_local_dhcp
  <2>4. Napi!SharedSecretContext(settings, api) <=> dvr \/ local
    BY <2>2 DEF Napi!SharedSecretContext
  <2>5. Napi!Exported(settings, api) <=> ~settings.container /\ (dvr \/ local)
    BY <2>1, <2>2, <2>4 DEF Napi!Exported, Napi!enable_nova_metadata, Napi!use_dvr,
       Napi!enable_local_dhcp
  <2>6. dvr => Napi!L3AgentContext(settings, api).agent_mode # "legacy"
               /\ plugin.distributed_routing
    BY <2>2 DEF Napi!L3AgentContext, Napi!OVSPluginContext
  <2>7. plugin.enable_nsg_logging => /\ plugin.firewall_driver = "openvswitch"
                                     /\ "log" \in plugin.extension_drivers
                                     /\ settings.xenial
    BY <2>2 DEF Napi!OVSPluginContext, Napi!FirewallDriver
  <2> QED BY <2>3, <2>4, <2>5, <2>6, <2>7 DEF Napi!RolesAgree
<1> QED BY <1>1, <1>2 DEF Napi!SettingsFit

\* The settings in use are those of one unit of neutron-api, and whatever the roles of the
\* unit make of them fits together, for any number of its units.
THEOREM SettingsAgree == AllSpec => []SettingsFit
<1> DEFINE Inv == part = "napi" => NapiTypeOK
<1>1. AllInit => Inv
  BY NapiInitial DEF AllInit
<1>2. Inv /\ [AllNext]_all_vars => Inv'
  BY Parts, NapiInductive
<1>3. Inv => SettingsFit
  BY NapiGives DEF SettingsFit
<1> QED BY <1>1, <1>2, <1>3, PTL DEF AllSpec

-----------------------------------------------------------------------------
\* ResourceTable: a file has one entry in the resource map, whichever feature brings it in.

\* What the settings of the run have in common.
TableTypeOK == conf \in Table!Settings /\ conf.xenial /\ Table!AtLeast(conf, "mitaka")

OfFile(c, f) ==
    CASE f = "NEUTRON_CONF" -> Table!NeutronConfServices(c)
      [] f = "OVS_CONF" -> {"neutron-openvswitch-agent"}
      [] f = "OVS_DEFAULT" -> {"openvswitch-switch"}
      [] f = "DPDK_INTERFACES" -> {"dpdk", "openvswitch-switch"}
      [] f \in {"NEUTRON_L3_AGENT_CONF", "NEUTRON_FWAAS_CONF"} -> {"neutron-l3-agent"}
      [] f = "NEUTRON_METADATA_AGENT_CONF" -> {"neutron-metadata-agent"}
      [] f \in {"NEUTRON_DHCP_AGENT_CONF", "NEUTRON_DNSMASQ_CONF"} -> {"neutron-dhcp-agent"}
      [] f = "NEUTRON_SRIOV_AGENT_CONF" -> {"neutron-sriov-agent"}
      [] f = "SRIOV_NETPLAN_SHIM_CONF" -> {}
AlwaysFiles == {"NEUTRON_CONF", "OVS_CONF", "OVS_DEFAULT"}
DvrFiles == {"NEUTRON_L3_AGENT_CONF", "NEUTRON_FWAAS_CONF", "NEUTRON_METADATA_AGENT_CONF"}
DhcpFiles == {"NEUTRON_METADATA_AGENT_CONF", "NEUTRON_DHCP_AGENT_CONF", "NEUTRON_DNSMASQ_CONF"}
FilesOf(c) ==
    AlwaysFiles
        \cup (IF Table!use_dpdk(c) THEN {"DPDK_INTERFACES"} ELSE {})
        \cup (IF Table!use_dvr(c) THEN DvrFiles ELSE {})
        \cup (IF Table!enable_local_dhcp(c) THEN DhcpFiles ELSE {})
        \cup (IF Table!enable_sriov(c) THEN {"NEUTRON_SRIOV_AGENT_CONF"} ELSE {})
        \cup (IF Table!NeedsShim(c) /\ c.netplan_shim
              THEN {"SRIOV_NETPLAN_SHIM_CONF"} ELSE {})

\* The resource map has these and no others.
LEMMA EntriesOfMap ==
  ASSUME NEW c, c.xenial, Table!AtLeast(c, "mitaka")
  PROVE  Table!resource_map(c) = {<<f, OfFile(c, f)>> : f \in FilesOf(c)}
<1> DEFINE E == {<<f, OfFile(c, f)>> : f \in FilesOf(c)}
<1>1. /\ Table!PluginAgent(c) = "neutron-openvswitch-agent"
      /\ Table!SriovAgent(c) = "neutron-sriov-agent"
  BY DEF Table!PluginAgent, Table!SriovAgent
<1> HIDE DEF E
<1>2. \A f : f \in FilesOf(c) => <<f, OfFile(c, f)>> \in E
  BY DEF E
<1>3. ASSUME NEW e \in Table!resource_map(c) PROVE e \in E
  <2>1. CASE e = <<"NEUTRON_CONF", Table!NeutronConfServices(c)>>
    BY <1>2, <2>1 DEF OfFile, FilesOf, AlwaysFiles
  <2>2. CASE e \in Table!BASE_RESOURCE_MAP(c)
    BY <1>1, <1>2, <2>2 DEF Table!BASE_RESOURCE_MAP, OfFile, FilesOf, AlwaysFiles
  <2>3. CASE e \in Table!DVR_RESOURCE_MAP(c) /\ Table!use_dvr(c)
    BY <1>2, <2>3 DEF Table!DVR_RESOURCE_MAP, OfFile, FilesOf, DvrFiles
  <2>4. CASE e \in Table!METADATA_RESOURCE_MAP /\ (Table!use_dvr(c) \/ Table!enable_local_dhcp(c))
    BY <1>2, <2>4 DEF Table!METADATA_RESOURCE_MAP, OfFile, FilesOf, DvrFiles, DhcpFiles
  <2>5. CASE e \in Table!DHCP_RESOURCE_MAP /\ Table!enable_local_dhcp(c)
    BY <1>2, <2>5 DEF Table!DHCP_RESOURCE_MAP, OfFile, FilesOf, DhcpFiles
  <2>6. CASE e \in Table!SRIOV_RESOURCE_MAP(c) /\ Table!enable_sriov(c)
    BY <1>1, <1>2, <2>6 DEF Table!SRIOV_RESOURCE_MAP, OfFile, FilesOf
  <2>7. CASE /\ e = <<"SRIOV_NETPLAN_SHIM_CONF", {}>>
             /\ Table!NeedsShim(c) /\ c.netplan_shim
    BY <1>2, <2>7 DEF OfFile, FilesOf
  <2> QED BY <2>1, <2>2, <2>3, <2>4, <2>5, <2>6, <2>7 DEF Table!resource_map, Table!NeedsShim
<1>4. ASSUME NEW f \in FilesOf(c) PROVE <<f, OfFile(c, f)>> \in Table!resource_map(c)
  <2>1. CASE f = "NEUTRON_CONF"
    BY <2>1 DEF OfFile, Table!resource_map
  <2>2. CASE f \in AlwaysFiles \ {"NEUTRON_CONF"}
    BY <1>1, <2>2 DEF OfFile, Table!resource_map, Table!BASE_RESOURCE_MAP, AlwaysFiles
  <2>3. CASE f = "DPDK_INTERFACES" /\ Table!use_dpdk(c)
    BY <2>3 DEF OfFile, Table!resource_map, Table!BASE_RESOURCE_MAP
  <2>4. CASE f \in DvrFiles /\ Table!use_dvr(c)
    BY <2>4 DEF OfFile, Table!resource_map, Table!DVR_RESOURCE_MAP,
                Table!METADATA_RESOURCE_MAP, DvrFiles
  <2>5. CASE f \in DhcpFiles /\ Table!enable_local_dhcp(c)
    BY <2>5 DEF OfFile, Table!resource_map, Table!DHCP_RESOURCE_MAP,
                Table!METADATA_RESOURCE_MAP, DhcpFiles
  <2>6. CASE f = "NEUTRON_SRIOV_AGENT_CONF" /\ Table!enable_sriov(c)
    BY <1>1, <2>6 DEF OfFile, Table!resource_map, Table!SRIOV_RESOURCE_MAP
  <2>7. CASE /\ f = "SRIOV_NETPLAN_SHIM_CONF"
             /\ Table!NeedsShim(c) /\ c.netplan_shim
    BY <2>7 DEF OfFile, Table!resource_map, Table!NeedsShim
  <2> QED BY <2>1, <2>2, <2>3, <2>4, <2>5, <2>6, <2>7 DEF FilesOf
<1>5. ASSUME NEW e \in E PROVE e \in Table!resource_map(c)
  BY <1>4, <1>5 DEF E
<1> QED BY <1>3, <1>5 DEF E

LEMMA RestartsOfMap ==
  ASSUME NEW c, c.xenial, Table!AtLeast(c, "mitaka")
  PROVE  /\ Table!restart_map(c) = [f \in FilesOf(c) |-> OfFile(c, f)]
         /\ Table!services(c) = (UNION {OfFile(c, f) : f \in FilesOf(c)}) \ {"os-charm-phy-nic-mtu"}
<1> DEFINE E == {<<f, OfFile(c, f)>> : f \in FilesOf(c)}
<1>1. Table!resource_map(c) = E
  BY EntriesOfMap
<1>2. \A f \in FilesOf(c) : <<f, OfFile(c, f)>> \in E
  OBVIOUS
<1>3. \A e \in E : /\ e[1] \in FilesOf(c) /\ e[2] = OfFile(c, e[1])
                   /\ e = <<e[1], OfFile(c, e[1])>>
  OBVIOUS
<1> HIDE DEF E
<1>4. \A f : <<f, OfFile(c, f)>>[1] = f /\ <<f, OfFile(c, f)>>[2] = OfFile(c, f)
  OBVIOUS
<1>5. {e[1] : e \in E} = FilesOf(c)
  <2>1. ASSUME NEW f \in FilesOf(c) PROVE f \in {e[1] : e \in E}
    <3>1. PICK e \in E : e = <<f, OfFile(c, f)>>
      BY <1>2
    <3> QED BY <1>4, <3>1
  <2> QED BY <1>3, <2>1
<1>6. ASSUME NEW f \in FilesOf(c)
      PROVE  UNION {e[2] : e \in {m \in E : m[1] = f}} = OfFile(c, f)
  <2> DEFINE own == {m \in E : m[1] = f}
  <2>1. own = {<<f, OfFile(c, f)>>}
    BY <1>2, <1>3, <1>4
  <2> HIDE DEF own
  <2>2. {e[2] : e \in own} = {OfFile(c, f)}
    BY <1>4, <2>1
  <2> QED BY <2>2 DEF own
<1>7. {e[2] : e \in E} = {OfFile(c, f) : f \in FilesOf(c)}
  <2>1. ASSUME NEW f \in FilesOf(c) PROVE OfFile(c, f) \in {e[2] : e \in E}
    <3>1. PICK e \in E : e = <<f, OfFile(c, f)>>
      BY <1>2
    <3> QED BY <1>4, <3>1
  <2>2. ASSUME NEW e \in E PROVE e[2] \in {OfFile(c, f) : f \in FilesOf(c)}
    BY <1>3
  <2> QED BY <2>1, <2>2
<1> QED BY <1>1, <1>5, <1>6, <1>7 DEF Table!restart_map, Table!services

\* Every service but those of Open vSwitch and DPDK is one of neutron.conf.
LEMMA ServicesOfMap ==
  ASSUME NEW c, c.xenial, Table!AtLeast(c, "mitaka")
  PROVE  /\ Table!services(c) = Table!NeutronConfServices(c) \cup {"openvswitch-switch"}
                                  \cup (IF Table!use_dpdk(c) THEN {"dpdk"} ELSE {})
         /\ Table!NeutronConfServices(c) =
              {"neutron-openvswitch-agent"}
                \cup (IF Table!use_dvr(c) THEN {"neutron-metadata-agent", "neutron-l3-agent"}
                      ELSE {})
                \cup (IF Table!enable_local_dhcp(c)
                      THEN {"neutron-metadata-agent", "neutron-dhcp-agent"} ELSE {})
                \cup (IF Table!enable_sriov(c) THEN {"neutron-sriov-agent"} ELSE {})
<1> DEFINE S == Table!NeutronConfServices(c) \cup {"openvswitch-switch"}
                  \cup (IF Table!use_dpdk(c) THEN {"dpdk"} ELSE {})
<1>1. Table!NeutronConfServices(c) =
        {"neutron-openvswitch-agent"}
          \cup (IF Table!use_dvr(c) THEN {"neutron-metadata-agent", "neutron-l3-agent"} ELSE {})
          \cup (IF Table!enable_local_dhcp(c)
                THEN {"neutron-metadata-agent", "neutron-dhcp-agent"} ELSE {})
          \cup (IF Table!enable_sriov(c) THEN {"neutron-sriov-agent"} ELSE {})
  BY DEF Table!NeutronConfServices, Table!PluginAgent, Table!SriovAgent
<1>2. ASSUME NEW f \in FilesOf(c) PROVE OfFile(c, f) \subseteq S
  <2>1. CASE f \in AlwaysFiles
    BY <1>1, <2>1 DEF OfFile, AlwaysFiles
  <2>2. CASE f = "DPDK_INTERFACES" /\ Table!use_dpdk(c)
    BY <2>2 DEF OfFile
  <2>3. CASE f \in DvrFiles /\ Table!use_dvr(c)
    BY <1>1, <2>3 DEF OfFile, DvrFiles
  <2>4. CASE f \in DhcpFiles /\ Table!enable_local_dhcp(c)
    BY <1>1, <2>4 DEF OfFile, DhcpFiles
  <2>5. CASE f = "NEUTRON_SRIOV_AGENT_CONF" /\ Table!enable_sriov(c)
    BY <1>1, <2>5 DEF OfFile
  <2>6. CASE f = "SRIOV_NETPLAN_SHIM_CONF"
    BY <2>6 DEF OfFile
  <2> QED BY <2>1, <2>2, <2>3, <2>4, <2>5, <2>6 DEF FilesOf
<1>3. ASSUME NEW s \in S PROVE \E f \in FilesOf(c) : s \in OfFile(c, f)
  <2>1. CASE s \in Table!NeutronConfServices(c)
    <3>1. "NEUTRON_CONF" \in FilesOf(c)
      BY DEF FilesOf, AlwaysFiles
    <3> QED BY <2>1, <3>1 DEF OfFile
  <2>2. CASE s = "openvswitch-switch"
    <3>1. "OVS_DEFAULT" \in FilesOf(c)
      BY DEF FilesOf, AlwaysFiles
    <3> QED BY <2>2, <3>1 DEF OfFile
  <2>3. CASE s = "dpdk" /\ Table!use_dpdk(c)
    <3>1. "DPDK_INTERFACES" \in FilesOf(c)
      BY <2>3 DEF FilesOf
    <3> QED BY <2>3, <3>1 DEF OfFile
  <2> QED BY <2>1, <2>2, <2>3
<1>4. "os-charm-phy-nic-mtu" \notin S
  BY <1>1
<1> HIDE DEF S
<1>5. UNION {OfFile(c, f) : f \in FilesOf(c)} = S
  BY <1>2, <1>3
<1>6. Table!services(c) = S
  BY <1>4, <1>5, RestartsOfMap
<1> QED BY <1>1, <1>6 DEF S

\* The table is what the code computes with every feature on.
LEMMA TableOfAllOn ==
  /\ Table!AllOn.xenial /\ Table!AtLeast(Table!AllOn, "mitaka")
  /\ Table!use_dvr(Table!AllOn) /\ Table!enable_local_dhcp(Table!AllOn)
  /\ Table!enable_sriov(Table!AllOn) /\ Table!use_dpdk(Table!AllOn)
  /\ Table!use_hw_offload(Table!AllOn)
  /\ Table!NeedsShim(Table!AllOn) /\ Table!AllOn.netplan_shim
  BY DEF Table!NeedsShim, Table!AllOn, Table!AtLeast, Table!Rank, Table!use_dvr, Table!enable_local_dhcp,
         Table!enable_sriov, Table!use_dpdk, Table!use_hw_offload

LEMMA TableIs ==
  /\ Table!services(Table!AllOn) =
       {"neutron-openvswitch-agent", "openvswitch-switch", "neutron-metadata-agent",
        "neutron-l3-agent", "neutron-dhcp-agent", "neutron-sriov-agent", "dpdk"}
  /\ DOMAIN Table!restart_map(Table!AllOn) =
       AlwaysFiles \cup DvrFiles \cup DhcpFiles
         \cup {"DPDK_INTERFACES", "NEUTRON_SRIOV_AGENT_CONF", "SRIOV_NETPLAN_SHIM_CONF"}
  /\ \A f \in DOMAIN Table!restart_map(Table!AllOn) :
       Table!restart_map(Table!AllOn)[f] = OfFile(Table!AllOn, f)
<1>1. Table!services(Table!AllOn) =
       {"neutron-openvswitch-agent", "openvswitch-switch", "neutron-metadata-agent",
        "neutron-l3-agent", "neutron-dhcp-agent", "neutron-sriov-agent", "dpdk"}
  BY TableOfAllOn, ServicesOfMap
<1>2. FilesOf(Table!AllOn) =
       AlwaysFiles \cup DvrFiles \cup DhcpFiles
         \cup {"DPDK_INTERFACES", "NEUTRON_SRIOV_AGENT_CONF", "SRIOV_NETPLAN_SHIM_CONF"}
  BY TableOfAllOn DEF FilesOf
<1>3. Table!restart_map(Table!AllOn) = [f \in FilesOf(Table!AllOn) |-> OfFile(Table!AllOn, f)]
  BY TableOfAllOn, RestartsOfMap
<1> QED BY <1>1, <1>2, <1>3

\* With the features of the settings, the table gives the services, the files and the
\* restarts that the code computes from the settings.
LEMMA OnOf ==
  ASSUME NEW c
  PROVE  /\ "dvr" \in Table!On(c) <=> Table!use_dvr(c)
         /\ "dhcp" \in Table!On(c) <=> Table!enable_local_dhcp(c)
         /\ "sriov" \in Table!On(c) <=> Table!enable_sriov(c)
         /\ "dpdk" \in Table!On(c) <=> Table!use_dpdk(c)
         /\ "hw-offload" \in Table!On(c) <=> Table!use_hw_offload(c)
  BY DEF Table!On

LEMMA ManagedIs ==
  ASSUME TableTypeOK
  PROVE  Table!services(conf) = Table!Table!Managed(Table!On(conf))
<1> DEFINE all == Table!services(Table!AllOn)
           M == Table!Table!Managed(Table!On(conf))
           L == {"neutron-openvswitch-agent", "openvswitch-switch", "neutron-metadata-agent",
                 "neutron-l3-agent", "neutron-dhcp-agent", "neutron-sriov-agent", "dpdk"}
<1>1. all = L
  BY TableIs
<1>2. M = {s \in all : Table!TableNeeds[s] = {} \/ Table!TableNeeds[s] \cap Table!On(conf) # {}}
  BY DEF Table!Table!Managed
<1> HIDE DEF M
<1>3. /\ Table!TableNeeds["neutron-openvswitch-agent"] = {}
      /\ Table!TableNeeds["openvswitch-switch"] = {}
      /\ Table!TableNeeds["neutron-metadata-agent"] = {"dvr", "dhcp"}
      /\ Table!TableNeeds["neutron-l3-agent"] = {"dvr"}
      /\ Table!TableNeeds["neutron-dhcp-agent"] = {"dhcp"}
      /\ Table!TableNeeds["neutron-sriov-agent"] = {"sriov"}
      /\ Table!TableNeeds["dpdk"] = {"dpdk"}
  BY <1>1 DEF Table!TableNeeds
<1> HIDE DEF all
<1>4. /\ "neutron-openvswitch-agent" \in M /\ "openvswitch-switch" \in M
      /\ "neutron-metadata-agent" \in M <=> Table!use_dvr(conf) \/ Table!enable_local_dhcp(conf)
      /\ "neutron-l3-agent" \in M <=> Table!use_dvr(conf)
      /\ "neutron-dhcp-agent" \in M <=> Table!enable_local_dhcp(conf)
      /\ "neutron-sriov-agent" \in M <=> Table!enable_sriov(conf)
      /\ "dpdk" \in M <=> Table!use_dpdk(conf)
  BY <1>1, <1>2, <1>3, OnOf
<1>5. M \subseteq L
  BY <1>1, <1>2
<1>6. Table!services(conf) = {"neutron-openvswitch-agent", "openvswitch-switch"}
           \cup (IF Table!use_dvr(conf) THEN {"neutron-metadata-agent", "neutron-l3-agent"}
                 ELSE {})
           \cup (IF Table!enable_local_dhcp(conf)
                 THEN {"neutron-metadata-agent", "neutron-dhcp-agent"} ELSE {})
           \cup (IF Table!enable_sriov(conf) THEN {"neutron-sriov-agent"} ELSE {})
           \cup (IF Table!use_dpdk(conf) THEN {"dpdk"} ELSE {})
  BY ServicesOfMap DEF TableTypeOK
<1> QED BY <1>4, <1>5, <1>6 DEF M

LEMMA RegisteredIs ==
  ASSUME TableTypeOK
  PROVE  DOMAIN Table!restart_map(conf) =
           Table!Table!Registered(Table!On(conf)) \ Table!LeftOut(conf)
<1> DEFINE all == DOMAIN Table!restart_map(Table!AllOn)
           R == Table!Table!Registered(Table!On(conf))
           L == AlwaysFiles \cup DvrFiles \cup DhcpFiles
                  \cup {"DPDK_INTERFACES", "NEUTRON_SRIOV_AGENT_CONF", "SRIOV_NETPLAN_SHIM_CONF"}
<1>1. all = L
  BY TableIs
<1>2. R = {f \in all : Table!TableFileNeeds[f] = {}
                       \/ Table!TableFileNeeds[f] \cap Table!On(conf) # {}}
  BY DEF Table!Table!Registered
<1> HIDE DEF R
<1>3. /\ \A f \in AlwaysFiles : Table!TableFileNeeds[f] = {}
      /\ \A f \in {"NEUTRON_L3_AGENT_CONF", "NEUTRON_FWAAS_CONF"} :
            Table!TableFileNeeds[f] = {"dvr"}
      /\ Table!TableFileNeeds["NEUTRON_METADATA_AGENT_CONF"] = {"dvr", "dhcp"}
      /\ \A f \in {"NEUTRON_DHCP_AGENT_CONF", "NEUTRON_DNSMASQ_CONF"} :
            Table!TableFileNeeds[f] = {"dhcp"}
      /\ Table!TableFileNeeds["NEUTRON_SRIOV_AGENT_CONF"] = {"sriov"}
      /\ Table!TableFileNeeds["SRIOV_NETPLAN_SHIM_CONF"] = {"sriov", "hw-offload"}
      /\ Table!TableFileNeeds["DPDK_INTERFACES"] = {"dpdk"}
  BY <1>1 DEF Table!TableFileNeeds, AlwaysFiles, DvrFiles, DhcpFiles
<1> HIDE DEF all
<1>4. ASSUME NEW f \in L PROVE f \in R \ Table!LeftOut(conf) <=> f \in FilesOf(conf)
  <2> USE DEF Table!LeftOut
  <2>1. CASE f \in AlwaysFiles
    BY <1>1, <1>2, <1>3, <2>1 DEF FilesOf
  <2>2. CASE f \in {"NEUTRON_L3_AGENT_CONF", "NEUTRON_FWAAS_CONF"}
    BY <1>1, <1>2, <1>3, <2>2, OnOf DEF FilesOf, AlwaysFiles, DvrFiles, DhcpFiles
  <2>3. CASE f = "NEUTRON_METADATA_AGENT_CONF"
    BY <1>1, <1>2, <1>3, <2>3, OnOf DEF FilesOf, AlwaysFiles, DvrFiles, DhcpFiles
  <2>4. CASE f \in {"NEUTRON_DHCP_AGENT_CONF", "NEUTRON_DNSMASQ_CONF"}
    BY <1>1, <1>2, <1>3, <2>4, OnOf DEF FilesOf, AlwaysFiles, DvrFiles, DhcpFiles
  <2>5. CASE f = "NEUTRON_SRIOV_AGENT_CONF"
    BY <1>1, <1>2, <1>3, <2>5, OnOf DEF FilesOf, AlwaysFiles, DvrFiles, DhcpFiles
  <2>6. CASE f = "SRIOV_NETPLAN_SHIM_CONF"
    BY <1>1, <1>2, <1>3, <2>6, OnOf DEF FilesOf, Table!NeedsShim, AlwaysFiles, DvrFiles, DhcpFiles
  <2>7. CASE f = "DPDK_INTERFACES"
    BY <1>1, <1>2, <1>3, <2>7, OnOf DEF FilesOf, AlwaysFiles, DvrFiles, DhcpFiles
  <2> QED BY <2>1, <2>2, <2>3, <2>4, <2>5, <2>6, <2>7 DEF DvrFiles, DhcpFiles
<1>5. R \subseteq L /\ FilesOf(conf) \subseteq L
  BY <1>1, <1>2 DEF FilesOf
<1>6. DOMAIN Table!restart_map(conf) = FilesOf(conf)
  BY RestartsOfMap DEF TableTypeOK
<1> HIDE DEF L
<1> QED BY <1>4, <1>5, <1>6 DEF R

LEMMA RestartsAre ==
  ASSUME TableTypeOK, NEW f \in DOMAIN Table!restart_map(conf)
  PROVE  Table!restart_map(conf)[f] = Table!Table!RestartMap(f, Table!On(conf))
<1>1. f \in FilesOf(conf) /\ Table!restart_map(conf)[f] = OfFile(conf, f)
  BY RestartsOfMap DEF TableTypeOK
<1>2. f \in FilesOf(Table!AllOn)
  BY <1>1, TableOfAllOn DEF FilesOf
<1>3. Table!Table!RestartMap(f, Table!On(conf)) = OfFile(Table!AllOn, f) \cap Table!services(conf)
  BY <1>2, TableOfAllOn, RestartsOfMap, ManagedIs DEF Table!Table!RestartMap
<1>4. /\ Table!services(conf) = Table!NeutronConfServices(conf) \cup {"openvswitch-switch"}
                                  \cup (IF Table!use_dpdk(conf) THEN {"dpdk"} ELSE {})
      /\ Table!NeutronConfServices(conf) =
           {"neutron-openvswitch-agent"}
             \cup (IF Table!use_dvr(conf) THEN {"neutron-metadata-agent", "neutron-l3-agent"}
                   ELSE {})
             \cup (IF Table!enable_local_dhcp(conf)
                   THEN {"neutron-metadata-agent", "neutron-dhcp-agent"} ELSE {})
             \cup (IF Table!enable_sriov(conf) THEN {"neutron-sriov-agent"} ELSE {})
  BY ServicesOfMap DEF TableTypeOK
<1>5. OfFile(conf, f) = OfFile(Table!AllOn, f) \cap Table!services(conf)
  <2>1. CASE f = "NEUTRON_CONF"
    <3>1. Table!NeutronConfServices(Table!AllOn) =
            {"neutron-openvswitch-agent", "neutron-metadata-agent", "neutron-l3-agent",
             "neutron-dhcp-agent", "neutron-sriov-agent"}
      BY TableOfAllOn, ServicesOfMap
    <3> QED BY <1>4, <2>1, <3>1 DEF OfFile
  <2>2. CASE f \in AlwaysFiles \ {"NEUTRON_CONF"}
    BY <1>4, <2>2 DEF OfFile, AlwaysFiles
  <2>3. CASE f = "DPDK_INTERFACES" /\ Table!use_dpdk(conf)
    BY <1>4, <2>3 DEF OfFile
  <2>4. CASE f \in DvrFiles /\ Table!use_dvr(conf)
    BY <1>4, <2>4 DEF OfFile, DvrFiles
  <2>5. CASE f \in DhcpFiles /\ Table!enable_local_dhcp(conf)
    BY <1>4, <2>5 DEF OfFile, DhcpFiles
  <2>6. CASE f = "NEUTRON_SRIOV_AGENT_CONF" /\ Table!enable_sriov(conf)
    BY <1>4, <2>6 DEF OfFile
  <2>7. CASE f = "SRIOV_NETPLAN_SHIM_CONF"
    BY <2>7 DEF OfFile
  <2> QED BY <1>1, <2>1, <2>2, <2>3, <2>4, <2>5, <2>6, <2>7 DEF FilesOf
<1> QED BY <1>1, <1>3, <1>5

LEMMA OwnersAre == Table!Table!FilesOwned
<1> SUFFICES ASSUME NEW f \in DOMAIN Table!restart_map(Table!AllOn),
                    Table!restart_map(Table!AllOn)[f] # {}
             PROVE  \E s \in Table!restart_map(Table!AllOn)[f] :
                       \/ Table!TableNeeds[s] = {}
                       \/ /\ Table!TableFileNeeds[f] # {}
                          /\ Table!TableFileNeeds[f] \subseteq Table!TableNeeds[s]
  BY DEF Table!Table!FilesOwned
<1>1. Table!restart_map(Table!AllOn)[f] = OfFile(Table!AllOn, f)
  BY TableIs
<1>2. Table!NeutronConfServices(Table!AllOn) =
        {"neutron-openvswitch-agent", "neutron-metadata-agent", "neutron-l3-agent",
         "neutron-dhcp-agent", "neutron-sriov-agent"}
  BY TableOfAllOn, ServicesOfMap
<1>3. CASE f \in AlwaysFiles \cup {"DPDK_INTERFACES"}
  <2>1. /\ Table!TableNeeds["neutron-openvswitch-agent"] = {}
        /\ Table!TableNeeds["openvswitch-switch"] = {}
    BY TableIs DEF Table!TableNeeds
  <2> QED BY <1>1, <1>2, <1>3, <2>1 DEF OfFile, AlwaysFiles
<1>4. CASE f \in DvrFiles \cup DhcpFiles
  <2>1. /\ Table!TableNeeds["neutron-metadata-agent"] = {"dvr", "dhcp"}
        /\ Table!TableNeeds["neutron-l3-agent"] = {"dvr"}
        /\ Table!TableNeeds["neutron-dhcp-agent"] = {"dhcp"}
    BY TableIs DEF Table!TableNeeds
  <2>2. CASE f = "NEUTRON_METADATA_AGENT_CONF"
    <3>1. Table!TableFileNeeds[f] = {"dvr", "dhcp"}
      BY <2>2 DEF Table!TableFileNeeds
    <3> QED BY <1>1, <2>1, <2>2, <3>1 DEF OfFile
  <2>3. CASE f \in {"NEUTRON_L3_AGENT_CONF", "NEUTRON_FWAAS_CONF"}
    <3>1. Table!TableFileNeeds[f] = {"dvr"}
      BY <2>3 DEF Table!TableFileNeeds
    <3> QED BY <1>1, <2>1, <2>3, <3>1 DEF OfFile
  <2>4. CASE f \in {"NEUTRON_DHCP_AGENT_CONF", "NEUTRON_DNSMASQ_CONF"}
    <3>1. Table!TableFileNeeds[f] = {"dhcp"}
      BY <2>4 DEF Table!TableFileNeeds
    <3> QED BY <1>1, <2>1, <2>4, <3>1 DEF OfFile
  <2> QED BY <1>4, <2>2, <2>3, <2>4 DEF DvrFiles, DhcpFiles
<1>5. CASE f = "NEUTRON_SRIOV_AGENT_CONF"
  <2>1. Table!TableNeeds["neutron-sriov-agent"] = {"sriov"} /\ Table!TableFileNeeds[f] = {"sriov"}
    BY <1>5, TableIs DEF Table!TableNeeds, Table!TableFileNeeds
  <2> QED BY <1>1, <1>5, <2>1 DEF OfFile
<1>6. CASE f = "SRIOV_NETPLAN_SHIM_CONF"
  BY <1>1, <1>6 DEF OfFile
<1> QED BY <1>3, <1>4, <1>5, <1>6, TableIs

\* What a process could import was installed before it started.
TableInv ==
    /\ TableTypeOK
    /\ asked \in BOOLEAN /\ before \in BOOLEAN /\ shim \in BOOLEAN
    /\ asked => shim
    /\ before => asked /\ conf.netplan_shim

LEMMA MapsFit == TableInv => Table!TableFits
<1> SUFFICES ASSUME TableInv PROVE Table!TableFits
  OBVIOUS
<1> USE DEF TableInv
<1>1. Table!restart_map(conf)["NEUTRON_CONF"] =
        Table!services(conf) \ {"openvswitch-switch", "dpdk"}
  <2>1. Table!restart_map(conf)["NEUTRON_CONF"] = Table!NeutronConfServices(conf)
    <3>1. "NEUTRON_CONF" \in FilesOf(conf)
      BY DEF FilesOf, AlwaysFiles
    <3>2. Table!restart_map(conf) = [f \in FilesOf(conf) |-> OfFile(conf, f)]
      BY RestartsOfMap DEF TableTypeOK
    <3> QED BY <3>1, <3>2 DEF OfFile
  <2> QED BY <2>1, ServicesOfMap DEF TableTypeOK
<1>2. Table!MapsAgree
  BY <1>1, ManagedIs, RegisteredIs, RestartsAre, OwnersAre DEF Table!MapsAgree
<1>3. Table!LeftOutOnce
  <2>1. DOMAIN Table!restart_map(conf) = FilesOf(conf)
    BY RestartsOfMap DEF TableTypeOK
  <2> QED BY <2>1 DEF Table!LeftOutOnce, FilesOf
<1> QED BY <1>2, <1>3 DEF Table!TableFits

LEMMA TableInitial == Table!Init => TableInv
  BY DEF Table!Init, TableTypeOK, TableInv

\* An install that was asked for the file's features has brought the package.
LEMMA ShimBrought ==
  ASSUME NEW c, Table!NeedsShim(c)
  PROVE  "sriov-netplan-shim" \in Table!determine_packages(c)
<1>1. CASE Table!enable_sriov(c)
  BY <1>1 DEF Table!determine_packages
<1>2. CASE Table!use_hw_offload(c)
  BY <1>2 DEF Table!determine_packages
<1> QED BY <1>1, <1>2 DEF Table!NeedsShim

LEMMA TableInductive ==
  ASSUME TableInv, [Table!Next]_(Table!table_vars)
  PROVE  TableInv'
<1> USE DEF TableInv
<1>1. CASE Table!Import
  <2>1. TableTypeOK' /\ conf'.netplan_shim = shim
    <3>1. CASE conf' = [conf EXCEPT !.netplan_shim = shim]
      BY <3>1 DEF TableTypeOK, Table!Settings, Table!AtLeast
    <3>2. ASSUME NEW option \in DOMAIN conf \ {"release", "xenial", "netplan_shim"},
                 conf' = [conf EXCEPT !.netplan_shim = shim, ![option] = ~@]
          PROVE  TableTypeOK' /\ conf'.netplan_shim = shim
      BY <3>2 DEF TableTypeOK, Table!Settings, Table!AtLeast
    <3> QED BY <1>1, <3>1, <3>2 DEF Table!Import
  <2> QED BY <1>1, <2>1 DEF Table!Import
<1>2. CASE Table!install_packages
  BY <1>2, ShimBrought DEF Table!install_packages, TableTypeOK
<1>3. CASE UNCHANGED Table!table_vars
  BY <1>3 DEF Table!table_vars, TableTypeOK
<1> QED BY <1>1, <1>2, <1>3 DEF Table!Next

\* Whatever the settings of a unit, and however they are changed: the services, files and
\* restarts that the code computes are those of the table which the model of the unit's
\* lifecycle is given, but for one file without services, which only processes leave out
\* that started before its package was asked for.  (resource_map, restart_map, services,
\* determine_packages)
THEOREM TableIsTheCodes == AllSpec => []TableAgrees
<1> DEFINE Inv == part = "table" => TableInv
<1>1. AllInit => Inv
  BY TableInitial DEF AllInit
<1>2. Inv /\ [AllNext]_all_vars => Inv'
  BY Parts, TableInductive
<1>3. Inv => TableAgrees
  BY MapsFit DEF TableAgrees
<1> QED BY <1>1, <1>2, <1>3, PTL DEF AllSpec
=============================================================================
