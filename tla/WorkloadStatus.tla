----------------------------- MODULE WorkloadStatus -----------------------------
(***************************************************************************)
(* The status every hook sets when it ends: assess_status() of the charm   *)
(* and _determine_os_workload_status() of charmhelpers, over whatever      *)
(* state the unit, its relations and its services are in.                  *)
(***************************************************************************)
EXTENDS Naturals, FiniteSets

CONSTANTS
    Agents,       \* the other services of services()
    OpenVSwitch,  \* the one that pause leaves alone
    None          \* None

\* services(): what restart_map() would restart.
Services == Agents \cup {OpenVSwitch}

\* REQUIRED_INTERFACES, and the one that the metadata agent adds.
Generic == {"messaging", "neutron-plugin-api"}
Specific == [g \in Generic |-> IF g = "messaging" THEN {"amqp", "zeromq-configuration"} ELSE {g}]
Interfaces == UNION {Specific[g] : g \in Generic}

\* No relation id; a relation without units; units that have not sent all of
\* the data yet; a complete context.
RelationStates == {"unrelated", "empty", "partial", "complete"}

VARIABLES
    unit,      \* flags, relations, running services, validate_ovs_use_veth()
    hook,      \* the last hook, with the interface in its name, or None
    status,    \* what it has set
    current    \* nothing has changed since

status_vars == <<unit, hook, status, current>>

Units == [paused : BOOLEAN, upgrading : BOOLEAN, nova_metadata : BOOLEAN,
          rel : [Interfaces -> RelationStates], running : SUBSET Services,
          veth : {None, "blocked"}]

Result(s, m) == [state |-> s, missing |-> m.missing, incomplete |-> m.incomplete,
                 services |-> m.services]
Silent == [missing |-> {}, incomplete |-> {}, services |-> {}]
Nothing == Result(None, Silent)

\* workload_state_compare: the more important one, the new one when they are equal.
Hierarchy == [s \in {"unknown", "active", "maintenance", "waiting", "blocked"} |->
                CASE s = "unknown" -> 0 [] s = "active" -> 1 [] s = "maintenance" -> 2
                  [] s = "waiting" -> 3 [] s = "blocked" -> 4]
workload_state_compare(s, t) ==
    LET known(x) == IF x \in DOMAIN Hierarchy THEN x ELSE "unknown"
    IN IF Hierarchy[known(s)] > Hierarchy[known(t)] THEN known(s) ELSE known(t)

\* check_actually_paused, for a list of services without ports.
check_actually_paused(u, services) ==
    IF services \cap u.running = {} THEN Nothing
    ELSE Result("blocked", [Silent EXCEPT !.services = services \cap u.running])

\* Mutant: the flag is enough.
check_paused_trusting(u, services) ==
    CASE u.upgrading -> Result("blocked", Silent)
      [] ~u.upgrading /\ u.paused -> Result("maintenance", Silent)
      [] OTHER -> Nothing

_ows_check_if_paused(u, services) ==
    LET actually == check_actually_paused(u, services)
    IN CASE u.upgrading /\ actually.state = None -> Result("blocked", Silent)
         [] ~u.upgrading /\ u.paused /\ actually.state = None -> Result("maintenance", Silent)
         [] (u.upgrading \/ u.paused) /\ actually.state # None -> actually
         [] OTHER -> Nothing

\* OSConfigRenderer.complete_contexts and incomplete_relation_data.
required_interfaces(u) == {g \in Generic : g = "messaging" \/ u.nova_metadata}
complete_contexts(u) == {i \in Interfaces : u.rel[i] = "complete"}
incomplete_relation_data(u) == {g \in required_interfaces(u) : Specific[g] \cap complete_contexts(u) = {}}

\* Which of several related interfaces is looked at depends on their order in a
\* dictionary; one without units counts as missing in its own departed or broken
\* hook.
Missing(u, h) ==
    {g \in incomplete_relation_data(u) :
        \/ \A i \in Specific[g] : u.rel[i] = "unrelated"
        \/ \E i \in Specific[g] : u.rel[i] = "empty" /\ h = i}

_ows_check_generic_interfaces(u, h) ==
    LET missing    == Missing(u, h)
        incomplete == incomplete_relation_data(u) \ missing
    IN CASE missing # {} -> Result("blocked", [Silent EXCEPT !.missing = missing, !.incomplete = incomplete])
         [] missing = {} /\ incomplete # {} -> Result("waiting", [Silent EXCEPT !.incomplete = incomplete])
         [] OTHER -> Nothing

_ows_check_charm_func(r, veth) ==
    IF veth \in {None, "active", "unknown"} THEN r
    ELSE [r EXCEPT !.state = workload_state_compare(r.state, veth)]

_ows_check_services_running(u, services) ==
    IF services \subseteq u.running THEN Nothing
    ELSE Result("blocked", [Silent EXCEPT !.services = services \ u.running])

_determine_os_workload_status(u, h, services) ==
    LET asked    == _ows_check_if_paused(u, services)
        related  == IF asked.state = None THEN _ows_check_generic_interfaces(u, h) ELSE asked
        checked  == IF related.state = "maintenance" THEN related
                    ELSE _ows_check_charm_func(related, u.veth)
        serviced == IF checked.state = None THEN _ows_check_services_running(u, services) ELSE checked
    IN IF serviced.state = None THEN Result("active", Silent) ELSE serviced

\* The services that count: a paused unit keeps Open vSwitch.
Counted(u) == IF u.paused THEN Services \ {OpenVSwitch} ELSE Services

assess_status(u, h) == _determine_os_workload_status(u, h, Counted(u))

-----------------------------------------------------------------------------
Init ==
    /\ unit = [paused |-> FALSE, upgrading |-> FALSE, nova_metadata |-> FALSE,
               rel |-> [i \in Interfaces |-> "unrelated"], running |-> {}, veth |-> None]
    /\ hook = None
    /\ status = assess_status(unit, None)
    /\ current = TRUE

\* The world goes on between hooks.
Happens(u) ==
    /\ u # unit
    /\ unit' = u
    /\ current' = FALSE
    /\ UNCHANGED <<hook, status>>

ServiceChanges(s) ==
    Happens([unit EXCEPT !.running = IF s \in @ THEN @ \ {s} ELSE @ \cup {s}])
RelationChanges(i) == \E r \in RelationStates : Happens([unit EXCEPT !.rel[i] = r])
OptionsChange == \E m \in BOOLEAN, v \in {None, "blocked"} :
    Happens([unit EXCEPT !.nova_metadata = m, !.veth = v])
FlagsChange == \E p \in BOOLEAN, u \in BOOLEAN :
    Happens([unit EXCEPT !.paused = p, !.upgrading = u])

\* Any hook; one that says that a unit of interface i has departed, or that the
\* relation is broken, runs while the relation has its id and no units.
Hook(h) ==
    /\ h # None => unit.rel[h] = "empty"
    /\ hook' = h
    /\ status' = assess_status(unit, h)
    /\ current' = TRUE
    /\ UNCHANGED unit

Next ==
    \/ \E s \in Services : ServiceChanges(s)
    \/ \E i \in Interfaces : RelationChanges(i)
    \/ OptionsChange
    \/ FlagsChange
    \/ \E h \in Interfaces \cup {None} : Hook(h)

Spec == Init /\ [][Next]_status_vars

-----------------------------------------------------------------------------
\* A status that is current says "active" of those units, and only those, that
\* are to run, have their relations and run everything: no problem hides behind
\* another check's result.  (_determine_os_workload_status)
ActiveMeansWhole ==
    current =>
        (status.state = "active" <=>
            /\ ~unit.paused /\ ~unit.upgrading
            /\ \A g \in required_interfaces(unit) :
                  \E i \in Specific[g] : unit.rel[i] = "complete"
            /\ unit.veth = None
            /\ Services \subseteq unit.running)

\* Nothing that gets worse makes the status look better: neither a service that
\* stops (of a unit that is to run), nor one that runs on a paused unit, nor the
\* veth mismatch.  (workload_state_compare, _ows_check_charm_func)
Worse(u) ==
    (IF u.paused \/ u.upgrading
     THEN {[u EXCEPT !.running = @ \cup {s}] : s \in Services}
     ELSE {[u EXCEPT !.running = @ \ {s}] : s \in Services})
    \cup {[u EXCEPT !.veth = "blocked"]}
WorseNeverBetter ==
    current => \A w \in Worse(unit) :
        Hierarchy[assess_status(w, hook).state] >= Hierarchy[status.state]

\* "Paused" and "ready for do-release-upgrade" are believed only of a unit all
\* of whose agents are down; otherwise the status says which are not.
\* (check_actually_paused)
PausedIsQuiet ==
    current /\ (unit.paused \/ unit.upgrading) =>
        (status.services = {} => unit.running \cap Counted(unit) = {})

\* A relation is called missing only if nothing is related for it, or the last
\* unit is just leaving.  (_ows_check_generic_interfaces)
MissingIsUnrelated ==
    current => \A g \in status.missing :
        \/ \A i \in Specific[g] : unit.rel[i] = "unrelated"
        \/ hook \in Specific[g]

\* The status is active only of a whole unit, never better than its worst part, and tells
\* of pauses and missing relations.  (_determine_os_workload_status)
StatusTrue == ActiveMeansWhole /\ WorseNeverBetter /\ PausedIsQuiet /\ MissingIsUnrelated
=============================================================================
