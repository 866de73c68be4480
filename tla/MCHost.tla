-------------------------------- MODULE MCHost --------------------------------
(***************************************************************************)
(* Components that keep something on the unit from one hook to the next,   *)
(* and whose hooks and actions fail, are killed and are run again, checked *)
(* in one run.  They share no state: every behaviour is one of a single    *)
(* component (part), while the others are at rest.                         *)
(***************************************************************************)
EXTENDS Cleanup, OvsOptions, KvStore, ConfigFiles, Policyd

CONSTANTS
    NoValue, OptionKeys, OptionValues,      \* HookEnv
    MaxHeld, MaxSources,                    \* AptFetch
    OsdCounts, Expected, Requested,         \* CephPools
    Sizes, Percents, Optional,
    Order, Ports, Torn, MaxChanges,         \* Services
    Newest, Packaged, MaxEvents             \* Releases

\* Releases have numbers.
ASSUME ReleasesAssumption == Newest \in Nat /\ Packaged \in Nat

VARIABLES
    part,  \* the component that takes steps
    options, config_file, own_data, process, told,  \* HookEnv
    wanted, apt, commands, tries, outcome, held, troubles, skipped,  \* AptFetch
    cluster, request, pool, tier, device, running, operation, failures, history,  \* CephPools
    world, saved, juju, started, handling, unrest, crashes, events,  \* Services
    machine, settings, asking, store, acted, upgrade, forgotten, happened, troubled  \* Releases

\* A range of one of the keys.
UnderPrefix(p) == {"k1"}
ServiceOrder == <<"s1", "s2">>

Env == INSTANCE HookEnv
Apt == INSTANCE AptFetch WITH script <- commands, MaxFaults <- MaxKills
Pools == INSTANCE CephPools WITH
        disk <- device, script <- operation, faults <- failures,
        MaxFaults <- MaxKills
Manager == INSTANCE Services WITH
        disk <- saved, running <- started, hook <- handling,
        changes <- unrest, kills <- crashes
Release == INSTANCE Releases WITH
        process <- asking, outcome <- upgrade, lost <- forgotten,
        events <- happened, faults <- troubled

\* The lock is held no longer than the attempts of a command last.
ASSUME AptAssumption == MaxSources \in Nat /\ MaxHeld \in 0..Apt!CMD_RETRY_COUNT

\* Numbers of OSDs and of placement groups; a pool has replicas or chunks.
ASSUME PoolsAssumption ==
    /\ OsdCounts \subseteq Nat /\ Expected \subseteq Nat /\ Requested \subseteq Nat
    /\ Sizes \subseteq Nat \ {0} /\ Percents \subseteq Nat /\ Optional \subseteq BOOLEAN

\* A service is registered once; Torn is not what a file says.
ASSUME OrderAssumption ==
    /\ Order \in Seq(STRING)
    /\ \A i, j \in 1..Len(Order) : Order[i] = Order[j] => i = j
    /\ Torn \notin Nat /\ \A ready \in SUBSET Manager!Names : Torn # ready

all_vars == <<part, vars, options_vars, store_vars, file_vars, policy_vars,
              Env!hookenv_vars, Apt!apt_vars, Pools!pools_vars,
              Manager!services_vars, Release!releases_vars>>

Rest(v) == v = "at rest"

\* The components that are extended stay in one of their initial states.
AllInit ==
    /\ part \in {"cleanup", "options", "store", "files", "hookenv", "apt", "pools",
                "policy", "services", "releases"}
    /\ Init
    /\ OptionsInit
    /\ part # "options" => conf.cores = CHOOSE v \in ColumnValues : TRUE
    /\ StoreInit
    /\ FilesInit
    /\ part # "files" => given.release = "stein" /\ given.local
    /\ PolicyInit
    /\ IF part = "hookenv" THEN Env!Init ELSE
           Rest(options) /\ Rest(config_file) /\ Rest(own_data) /\ Rest(process) /\
           Rest(told)
    /\ IF part = "apt" THEN Apt!Init ELSE
           Rest(wanted) /\ Rest(apt) /\ Rest(commands) /\ Rest(tries) /\
           Rest(outcome) /\ Rest(held) /\ Rest(troubles) /\ Rest(skipped)
    /\ IF part = "pools" THEN Pools!Init ELSE
           Rest(cluster) /\ Rest(request) /\ Rest(pool) /\ Rest(tier) /\
           Rest(device) /\ Rest(running) /\ Rest(operation) /\ Rest(failures) /\
           Rest(history)
    /\ IF part = "services" THEN Manager!Init ELSE
           Rest(world) /\ Rest(saved) /\ Rest(juju) /\ Rest(started) /\
           Rest(handling) /\ Rest(unrest) /\ Rest(crashes) /\ Rest(events)
    /\ IF part = "releases" THEN Release!Init ELSE
           Rest(machine) /\ Rest(settings) /\ Rest(asking) /\ Rest(store) /\
           Rest(acted) /\ Rest(upgrade) /\ Rest(forgotten) /\ Rest(happened) /\
           Rest(troubled)

\* Only component p takes the step.
Only(p) ==
    /\ part = p
    /\ UNCHANGED part
    /\ p # "cleanup" => UNCHANGED vars
    /\ p # "options" => UNCHANGED options_vars
    /\ p # "store" => UNCHANGED store_vars
    /\ p # "files" => UNCHANGED file_vars
    /\ p # "policy" => UNCHANGED policy_vars
    /\ p # "hookenv" => UNCHANGED <<options, config_file, own_data, process, told>>
    /\ p # "apt" => UNCHANGED <<wanted, apt, commands, tries, outcome, held,
                                  troubles, skipped>>
    /\ p # "pools" => UNCHANGED <<cluster, request, pool, tier, device, running,
                                  operation, failures, history>>
    /\ p # "services" => UNCHANGED <<world, saved, juju, started, handling, unrest,
                                  crashes, events>>
    /\ p # "releases" => UNCHANGED <<machine, settings, asking, store, acted, upgrade,
                                  forgotten, happened, troubled>>

CleanupStep == Only("cleanup") /\ Next
OptionsStep == Only("options") /\ OptionsNext
KvStep == Only("store") /\ StoreNext
FilesStep == Only("files") /\ FilesNext
EnvStep == Only("hookenv") /\ Env!Next
AptStep == Only("apt") /\ Apt!Next
PoolsStep == Only("pools") /\ Pools!Next
PolicyStep == Only("policy") /\ PolicyNext
ManagerStep == Only("services") /\ Manager!Next
ReleaseStep == Only("releases") /\ Release!Next

AllNext ==
    \/ CleanupStep \/ OptionsStep \/ KvStep \/ FilesStep \/ EnvStep \/ AptStep \/ PoolsStep \/
       PolicyStep \/ ManagerStep \/ ReleaseStep

AllSpec == AllInit /\ [][AllNext]_all_vars

-----------------------------------------------------------------------------
\* What a hook is told of its config and its relations, and what the store's history
\* says, is what was and is.  (hookenv.Config, relation_get, Storage.gethistory)
HookDataTrue ==
    /\ part = "hookenv" => Env!HookDataTrue
    /\ HistoryAgrees

\* apt has the configured sources, or the hook has failed.  (AptFetch)
SourcesRight == part = "apt" => Apt!SourcesRight

\* A pool is what the requests asked for, and loses no data.  (CephPools)
PoolsRight == part = "pools" => Pools!PoolsRight

\* Services run with the newest data when these are complete.  (ServiceManager)
ServicesRight == part = "services" => Manager!ServicesRight

\* The charm knows the installed release, upgrades only to a newer one and acts on each
\* change it has saved.  (os_release, openstack_upgrade_available, endpoint_changed)
ReleasesRight == part = "releases" => Release!ReleasesRight
=============================================================================
