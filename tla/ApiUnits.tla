-------------------------------- MODULE ApiUnits --------------------------------
(***************************************************************************)
(* charmhelpers' readiness of an API application of several units          *)
(* (contrib/openstack/utils.py, contrib/hahelpers/cluster.py): the elected *)
(* leader initialises the database and says so in the leader's settings;   *)
(* each unit tells its peers whether it is ready, and shows the            *)
(* application as ready when all of them are.  The hooks of several units  *)
(* run at the same time, and what a hook publishes on the peer relation is *)
(* seen when it has succeeded.                                             *)
(***************************************************************************)
EXTENDS Integers, FiniteSets

CONSTANTS
    Units,      \* the numbers of the units there may be
    Deployed,   \* the units that are deployed at first
    MaxUnrest,  \* bound: changes of the site that hooks do not make
    MaxDeaths   \* bound: hooks that are killed

VARIABLES
    site,       \* what Juju, the database and the operator have
    leader,     \* the unit that Juju elected
    flag,       \* db-initialised in the leader's settings
    hooks,      \* what a unit's hook has done and not yet told
    published,  \* each unit's state on the peer relation
    status,     \* a unit that shows the application as ready: what it has counted
    schema,     \* the times the database was initialised
    proven,     \* history: the units that have been ready at the end of a hook
    unrest,     \* the changes of the site
    deaths      \* the hooks that were killed

units_vars == <<site, leader, flag, hooks, published, status, schema, proven, unrest, deaths>>

NoUnit == -1

\* goal_state: this Juju can tell the goal; goal: the units it says there will be.
\* A unit's peers are those that joined the peer relation with it.
\* clustered: the units whose hacluster is related, and clustered.
Site(leadership, goal_state, ha, goal) ==
    [leadership |-> leadership, goal_state |-> goal_state, ha |-> ha,
     goal |-> goal, left |-> {}, peers |-> [u \in Units |-> {}],
     allowed |-> {}, maintenance |-> FALSE, paused |-> {}, clustered |-> {}, crm |-> NoUnit]
Idle == "idle"
NotReady == [counted |-> {}, goal |-> {}]

Init ==
    /\ \/ \E goal_state \in BOOLEAN, ha \in BOOLEAN : site = Site(TRUE, goal_state, ha, Deployed)
       \/ site = Site(FALSE, FALSE, FALSE, Deployed)
    /\ leader \in IF site.leadership THEN Deployed ELSE {NoUnit}
    /\ flag = FALSE
    /\ hooks = [u \in Units |-> Idle]
    /\ published = [u \in Units |-> "none"]
    /\ status = [u \in Units |-> NotReady]
    /\ schema = 0 /\ proven = {} /\ unrest = 0 /\ deaths = 0

-----------------------------------------------------------------------------
\* The site: a unit is added, peers join each other, the database allows a unit, a unit
\* is removed (its peers see that later), and whatever else changes under the units.
Add(u) ==
    /\ u \notin site.goal \cup site.left
    /\ unrest < MaxUnrest /\ unrest' = unrest + 1
    /\ site' = [site EXCEPT !.goal = @ \cup {u}]
    /\ UNCHANGED leader

Join(u, v) ==
    /\ u # v /\ {u, v} \subseteq site.goal /\ v \notin site.peers[u]
    /\ site' = [site EXCEPT !.peers[u] = @ \cup {v}]
    /\ UNCHANGED <<leader, unrest>>

Allow(u) ==
    /\ site.leadership /\ u \in site.goal \ site.allowed
    /\ site' = [site EXCEPT !.allowed = @ \cup {u}]
    /\ UNCHANGED <<leader, unrest>>

Cluster(u) ==
    /\ site.ha \/ ~site.leadership
    /\ u \in site.goal \ site.clustered
    /\ site' = [site EXCEPT !.clustered = @ \cup {u}]
    /\ UNCHANGED <<leader, unrest>>

Remove(u) ==
    /\ u \in site.goal /\ hooks[u] = Idle /\ leader # u
    /\ unrest < MaxUnrest /\ unrest' = unrest + 1
    /\ site' = [site EXCEPT !.goal = @ \ {u}, !.left = @ \cup {u}, !.allowed = @ \ {u},
                            !.clustered = @ \ {u}, !.peers[u] = {}, !.crm = IF @ = u THEN NoUnit ELSE @]
    /\ UNCHANGED leader

Depart(u, v) ==
    /\ v \in site.peers[u] \cap site.left
    /\ site' = [site EXCEPT !.peers[u] = @ \ {v}]
    /\ UNCHANGED <<leader, unrest>>

Disturb(u) ==
    /\ u \in site.goal
    /\ unrest < MaxUnrest /\ unrest' = unrest + 1
    /\ IF site.leadership
       THEN \/ leader # u /\ leader' = u /\ UNCHANGED site
            \/ /\ \/ site' = [site EXCEPT !.maintenance = ~@]
                  \/ site' = [site EXCEPT !.paused = IF u \in @ THEN @ \ {u} ELSE @ \cup {u}]
               /\ UNCHANGED leader
       ELSE site.crm # u /\ site' = [site EXCEPT !.crm = u] /\ UNCHANGED leader

Environment ==
    /\ \E u \in Units : \/ \E v \in Units : Join(u, v) \/ Depart(u, v)
                        \/ Add(u) \/ Allow(u) \/ Cluster(u) \/ Remove(u) \/ Disturb(u)
    /\ UNCHANGED <<flag, hooks, published, status, schema, proven, deaths>>

-----------------------------------------------------------------------------
\* Who acts for all units.
oldest_peer(u) == \A v \in site.peers[u] : v > u

is_clustered(u) == u \in site.clustered
is_crm_leader(u) == site.crm = u
is_elected_leader(u) ==
    IF site.leadership THEN leader = u
    ELSE IF is_clustered(u) THEN is_crm_leader(u)
    ELSE site.peers[u] = {} \/ oldest_peer(u)

\* modulo_distribution with non_zero_wait, and distributed_wait.
modulo_distribution(u, modulo, wait) ==
    IF u % modulo = 0 THEN modulo * wait ELSE (u % modulo) * wait
distributed_wait(u, modulo, wait) ==
    IF leader = u THEN 0 ELSE modulo_distribution(u, modulo, wait)

-----------------------------------------------------------------------------
\* What the unit sees when it assesses itself.
is_db_maintenance_mode == site.maintenance
is_db_ready(u) == u \in site.allowed
is_db_initialised == flag

expected_peer_units(u) == site.goal \ {u}
expect_ha == site.ha
is_expected_scale(u) ==
    \/ ~site.goal_state
    \/ /\ Cardinality(site.peers[u]) >= Cardinality(expected_peer_units(u))
       /\ site.allowed # {}
       /\ expect_ha => is_clustered(u)

get_api_unit_status(u) ==
    IF is_db_maintenance_mode THEN "maintenance"
    ELSE IF u \in site.paused THEN "blocked"
    ELSE IF ~is_db_ready(u) \/ ~is_db_initialised \/ ~is_expected_scale(u) THEN "waiting"
    ELSE "active"
check_api_unit_ready(u) == get_api_unit_status(u) = "active"

\* Mutant: a peer that has not spoken yet counts as ready.
no_peer_unready(u) == \A v \in site.peers[u] : published[v] # "NOTREADY"
\* A peer that has published nothing is UNKNOWN.
are_peers_ready(u) == \A v \in site.peers[u] : published[v] = "READY"
get_api_application_status(u) ==
    IF check_api_unit_ready(u)
    THEN IF are_peers_ready(u) THEN "ready" ELSE "waiting"
    ELSE get_api_unit_status(u)

\* A hook of the unit that is elected initialises the database, and then says so; the
\* leadership may move between the two, and the leader's settings are then refused.
Initialise(u) ==
    /\ site.leadership /\ u \in site.goal /\ hooks[u] = Idle
    /\ is_elected_leader(u) /\ is_db_ready(u) /\ ~is_db_initialised
    /\ schema' = schema + 1
    /\ hooks' = [hooks EXCEPT ![u] = "initialising"]
    /\ UNCHANGED <<site, leader, flag, published, status, proven, unrest, deaths>>

set_db_initialised(u) ==
    /\ hooks[u] = "initialising"
    /\ hooks' = [hooks EXCEPT ![u] = Idle]
    /\ flag' = (flag \/ leader = u)
    /\ UNCHANGED <<site, leader, published, status, schema, proven, unrest, deaths>>

\* At the end of a hook the status is set, and the unit tells its peers its own state,
\* which they see when the hook has succeeded.
inform_peers_if_ready(u) ==
    /\ site.leadership /\ u \in site.goal /\ hooks[u] = Idle
    /\ status' = [status EXCEPT ![u] = IF get_api_application_status(u) = "ready"
                                      THEN [counted |-> {u} \cup site.peers[u], goal |-> site.goal]
                                      ELSE NotReady]
    /\ hooks' = [hooks EXCEPT ![u] = IF check_api_unit_ready(u) THEN "READY" ELSE "NOTREADY"]
    /\ proven' = IF check_api_unit_ready(u) THEN proven \cup {u} ELSE proven
    /\ UNCHANGED <<site, leader, flag, published, schema, unrest, deaths>>

inform_peers_unit_state(u) ==
    /\ hooks[u] \in {"READY", "NOTREADY"}
    /\ published' = [published EXCEPT ![u] = hooks[u]]
    /\ hooks' = [hooks EXCEPT ![u] = Idle]
    /\ UNCHANGED <<site, leader, flag, status, schema, proven, unrest, deaths>>

Kill(u) ==
    /\ hooks[u] # Idle /\ deaths < MaxDeaths
    /\ deaths' = deaths + 1
    /\ hooks' = [hooks EXCEPT ![u] = Idle]
    /\ UNCHANGED <<site, leader, flag, published, status, schema, proven, unrest>>

Next ==
    \/ Environment
    \/ \E u \in Units : \/ Initialise(u) \/ set_db_initialised(u) \/ Kill(u)
                       \/ inform_peers_if_ready(u) \/ inform_peers_unit_state(u)

Spec == Init /\ [][Next]_units_vars

-----------------------------------------------------------------------------
Shown(u) == status[u] # NotReady

\* A unit shows the application as ready only when each unit that it counts has found,
\* in a hook of its own, that the database has allowed it and is initialised; and where
\* Juju tells the goal it counts as many as there are to be.
\* (get_api_application_status, are_peers_ready, is_expected_scale)
ReadyTogether ==
    \A u \in Units : Shown(u) =>
        /\ status[u].counted \subseteq proven
        /\ site.goal_state => Cardinality(status[u].counted) >= Cardinality(status[u].goal)

\* No unit says that it is ready before a leader has initialised the database, however
\* the leadership moves and hooks die.  (set_db_initialised, inform_peers_if_ready)
InitialisedFirst == (flag \/ proven # {}) => schema > 0

\* Without Juju's election, two units that see each other and are both in the corosync
\* cluster, or both outside it, do not both lead.  (is_elected_leader)
OneLeads ==
    \A u, v \in site.goal :
        /\ u # v /\ u \in site.peers[v] /\ v \in site.peers[u]
        /\ is_clustered(u) = is_clustered(v)
        => ~(is_elected_leader(u) /\ is_elected_leader(v))

\* The leader does not wait, every other unit does, and two that wait as long as each
\* other have numbers that the modulo does not tell apart.  (distributed_wait)
WaitsApart ==
    \A modulo \in 1..3, u, v \in 0..3 :
        /\ (distributed_wait(u, modulo, 30) = 0) = (u = leader)
        /\ distributed_wait(u, modulo, 30) = distributed_wait(v, modulo, 30) =>
              u = leader \/ v = leader \/ u % modulo = v % modulo

\* Units agree on when they are ready, are initialised before that, have one leader and
\* restart apart from each other.  (check_api_unit_ready, is_elected_leader, manage_service_wait)
UnitsRight == ReadyTogether /\ InitialisedFirst /\ OneLeads /\ WaitsApart

-----------------------------------------------------------------------------
\* What the documentation says and the code does not do.

\* utils.py:2326 "Whether all units are ready": a unit that leaves is counted for one that
\* has not joined, and a Juju without goal-state counts the units that have joined.
AllUnitsReady == \A u \in Units : Shown(u) => status[u].goal \subseteq proven

\* utils.py:2407 "Return a workload status and message for this application.": it is what
\* the last hook of the unit saw.
ReadyNow ==
    \A u \in site.goal : Shown(u) => \A v \in site.peers[u] : published[v] = "READY"

\* cluster.py:80 "Returns True if the charm executing this is the elected cluster leader":
\* one unit that is in the cluster and another that is not both are.
OneLeader ==
    \A u, v \in site.goal : is_elected_leader(u) /\ is_elected_leader(v) /\ v \in site.peers[u] => u = v
=============================================================================
