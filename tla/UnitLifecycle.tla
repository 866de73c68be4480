---------------------------- MODULE UnitLifecycle ----------------------------
(***************************************************************************)
(* The life of one charm-neutron-openvswitch unit: the Juju hooks and the  *)
(* pause/resume actions, which write the managed configuration files,      *)
(* restart the services that use them and keep the persistent              *)
(* 'unit-paused' and 'unit-upgrading' flags.                               *)
(*                                                                         *)
(* Juju runs one hook or action at a time, so `hook' and `pc' say which    *)
(* one is running and where it is.  Between two steps the process can be   *)
(* killed or raise (Abort), services can die, the host can reboot, and the *)
(* operator and the related applications can change the inputs of later    *)
(* hooks.  The content of a file is one member of Values: two renderings   *)
(* are equal iff their checksums are.                                      *)
(***************************************************************************)
EXTENDS Naturals, UnitMaps

CONSTANTS
    Values,       \* contents a rendered file can have
    Absent,       \* the content of a file that does not exist
    OVS,          \* the openvswitch-switch service
    OVS_DEFAULT,  \* /etc/default/openvswitch-switch
    DVR,          \* use_dvr(): decided by the neutron-plugin-api relation
    DHCP,         \* enable_local_dhcp(): decided by the charm config
    Reads,        \* [Files -> SUBSET Writers]: the inputs a file renders
    FeatureHook,  \* [Features -> Writers]: the input that decides a feature
    DvrPurged,    \* services of DVR_PACKAGES and what apt autoremoves with them
    JoinedPurged, \* services of DHCP_PACKAGES and METADATA_PACKAGES
    MaxInputs,    \* bound: input changes by operator and related units
    MaxFaults     \* bound: aborted hooks and died services

Writers == {"config-changed", "neutron-plugin-api-relation-changed",
            "amqp-relation-changed", "neutron-control-relation-changed"}
Series  == {"pre-series-upgrade", "post-series-upgrade"}
Hooks   == Writers \cup Series \cup {"neutron-plugin-relation-joined",
                                     "update-status"}
Actions == {"pause", "resume"}
Steps   == {"idle", "packages", "write", "restart_ovs", "configure_ovs",
            "joined", "restart", "pause", "resume", "assess"}
States  == {"unknown", "active", "maintenance", "waiting", "blocked"}

ASSUME FilesAssumption ==
    /\ Reads \in [Files -> SUBSET Writers]
    /\ Absent \notin Values
    /\ Values # {}
ASSUME ServicesAssumption ==
    /\ FeatureHook \in [Features -> {"config-changed",
                                     "neutron-plugin-api-relation-changed"}]
    /\ DvrPurged \subseteq Services
    /\ JoinedPurged \subseteq Services
ASSUME OvsAssumption ==
    /\ OVS \in Base
    /\ OVS_DEFAULT \in Files
    /\ FileNeeds[OVS_DEFAULT] = {}
    /\ Users[OVS_DEFAULT] = {OVS}
ASSUME BoundsAssumption ==
    /\ MaxInputs \in Nat
    /\ MaxFaults \in Nat

VARIABLES
    \* inputs of the next hook: charm config and relation data
    want,       \* what each file would be rendered to
    amqpReady,  \* the amqp relation is complete
    features,   \* the features switched on
    inputs,     \* how often the inputs changed (bounded by MaxInputs)
    \* the host
    disk,       \* the content of each file
    installed,  \* services whose package is installed
    running,    \* services whose process runs
    masked,     \* services paused: stopped, disabled and masked
    stale,      \* running services one of whose files changed since they started
    \* persistent flags of the unit (unitdata kv store)
    paused, upgrading,
    \* Juju
    due,        \* hooks that have to run
    failed,     \* the hook in error, to be retried; "none" otherwise
    series,     \* the host is between the two series upgrade hooks
    status,     \* the workload status last set
    \* the hook or action that runs
    hook, pc,
    view, viewReady, viewFeatures,  \* the inputs, as they were when it started
    todo,       \* what the current step still has to do (files or services)
    half,       \* the service a stop-start restart has stopped and not started
    changed,    \* files whose content this run has changed
    \* history
    deferred,   \* hooks that returned early and have not run through since
    troubled,   \* some hook has failed or some service has died
    faults      \* how many faults there were (bounded by MaxFaults)

inputVars == <<want, amqpReady, features, inputs>>
hostVars  == <<disk, installed, running, masked, stale>>
flagVars  == <<paused, upgrading>>
jujuVars  == <<due, failed, series, status>>
viewVars  == <<view, viewReady, viewFeatures>>
runVars   == <<hook, pc, viewVars, todo, half, changed>>
vars      == <<inputVars, hostVars, flagVars, jujuVars, runVars,
               deferred, troubled, faults>>

-----------------------------------------------------------------------------
\* Systemd, as the charm sees it: a start (or restart) of a masked or missing
\* service fails, the charm ignores the return code, and a process that starts
\* reads the files as they are.
CanStart(s) == s \in installed \ masked
Start(S) ==
    LET started == {s \in S : CanStart(s)}
    IN  /\ running' = running \cup started
        /\ stale' = stale \ (started \ running)
Restart(S) ==
    LET started == {s \in S : CanStart(s)}
    IN  /\ running' = running \cup started
        /\ stale' = stale \ started

\* apt install and apt purge: a new daemon starts unless its unit is masked, a
\* purged one stops and takes its configuration files with it.
Install(S) ==
    LET new == S \ installed
    IN  /\ installed' = installed \cup new
        /\ running' = running \cup (new \ masked)
        /\ stale' = stale \ new
        /\ UNCHANGED <<disk, masked>>
Purge(S) ==
    LET gone == S \cap installed
    IN  /\ installed' = installed \ gone
        /\ running' = running \ gone
        /\ stale' = stale \ gone
        /\ disk' = [f \in Files |->
                       IF gone # {} /\ Users[f] # {} /\ Users[f] \subseteq gone
                       THEN Absent ELSE disk[f]]
        /\ UNCHANGED masked

\* Mutant: does not look at the services.
WorkloadStatusBlind ==
    CASE upgrading -> "blocked"
      [] ~upgrading /\ paused -> "maintenance"
      [] ~upgrading /\ ~paused /\ ~viewReady -> "waiting"
      [] OTHER -> "active"

\* _determine_os_workload_status as assess_status calls it.
WorkloadStatus ==
    LET checked == Managed(viewFeatures) \ (IF paused THEN {OVS} ELSE {})
    IN  CASE upgrading -> "blocked"
          [] ~upgrading /\ paused -> IF checked \cap running = {}
                                     THEN "maintenance" ELSE "blocked"
          [] ~upgrading /\ ~paused /\ ~viewReady -> "waiting"
          [] OTHER -> IF checked \subseteq running THEN "active" ELSE "blocked"

-----------------------------------------------------------------------------
\* No process runs between two hooks.
NoView == [f \in Files |-> Absent]

\* A unit whose install hook has run.  A file's contents are only compared
\* with each other, so one initial content stands for all.
Init ==
    /\ \E v \in Values : want = [f \in Files |-> v]
    /\ amqpReady = FALSE
    /\ features = {}
    /\ inputs = 0
    /\ disk = [f \in Files |-> Absent]
    /\ installed = Base
    /\ running = Base
    /\ masked = {}
    /\ stale = {}
    /\ paused = FALSE
    /\ upgrading = FALSE
    /\ due = {"config-changed", "neutron-plugin-relation-joined"}
    /\ failed = "none"
    /\ series = FALSE
    /\ status = "unknown"
    /\ hook = "none"
    /\ pc = "idle"
    /\ view = NoView
    /\ viewReady = FALSE
    /\ viewFeatures = {}
    /\ todo = {}
    /\ half = {}
    /\ changed = {}
    /\ deferred = {}
    /\ troubled = FALSE
    /\ faults = 0

\* Operator and related applications: charm config, relation data, features.
SetInputs(w) ==
    /\ inputs < MaxInputs
    /\ inputs' = inputs + 1
    /\ due' = due \cup {w}
    /\ UNCHANGED <<hostVars, flagVars, failed, series, status, runVars,
                   deferred, troubled, faults>>

ChangeData(w) ==
    /\ SetInputs(w)
    /\ want' \in [Files -> Values]
    /\ \A f \in Files : w \notin Reads[f] => want'[f] = want[f]
    /\ amqpReady' \in IF w = "amqp-relation-changed" THEN BOOLEAN
                                                     ELSE {amqpReady}
    /\ UNCHANGED features

ChangeFeature(e) ==
    /\ SetInputs(FeatureHook[e])
    /\ features' = IF e \in features THEN features \ {e} ELSE features \cup {e}
    /\ UNCHANGED <<want, amqpReady>>

\* juju upgrade-series <unit> prepare, and later complete.
UpgradeSeries(h) ==
    /\ series = (h = "post-series-upgrade")
    /\ failed = "none"
    /\ h \notin due \cup {hook}
    /\ due' = due \cup {h}
    /\ UNCHANGED <<inputVars, hostVars, flagVars, failed, series, status,
                   runVars, deferred, troubled, faults>>

-----------------------------------------------------------------------------
\* What every hook and action does first: Juju takes it from the queue and the
\* charm reads the inputs.  A failed hook is retried before anything else, and
\* between the series upgrade hooks the unit agent idles.
Begin(h, step, work) ==
    /\ pc = "idle"
    /\ failed \in {"none", h}
    /\ series => h = "post-series-upgrade"
    /\ hook' = h
    /\ pc' = step
    /\ todo' = work
    /\ view' = want
    /\ viewReady' = amqpReady
    /\ viewFeatures' = features
    /\ half' = {}
    /\ changed' = {}
    /\ due' = due \ {h}
    /\ failed' = "none"
    /\ UNCHANGED <<inputVars, hostVars, series, status, troubled, faults>>
BeginHook(h, step, work) ==
    /\ h \in due \/ failed = h
    /\ Begin(h, step, work)

config_changed ==
    /\ IF paused
       THEN /\ BeginHook("config-changed", "assess", {})
            /\ deferred' = deferred \cup {"config-changed"}
       ELSE /\ BeginHook("config-changed", "packages", {})
            /\ UNCHANGED deferred
    /\ UNCHANGED flagVars

neutron_plugin_api_changed ==
    /\ BeginHook("neutron-plugin-api-relation-changed", "packages", {})
    /\ UNCHANGED <<flagVars, deferred>>

neutron_plugin_joined ==
    /\ BeginHook("neutron-plugin-relation-joined", "joined", {})
    /\ UNCHANGED <<flagVars, deferred>>

amqp_changed ==
    /\ IF amqpReady
       THEN /\ BeginHook("amqp-relation-changed", "write", Registered(features))
            /\ UNCHANGED deferred
       ELSE /\ BeginHook("amqp-relation-changed", "assess", {})
            /\ deferred' = deferred \cup {"amqp-relation-changed"}
    /\ UNCHANGED flagVars
\* Mutant: restarts nothing and writes nothing.
restart_checkNoWrite ==
    /\ BeginHook("neutron-control-relation-changed", "restart", {})
    /\ UNCHANGED <<flagVars, deferred>>

restart_check ==
    /\ BeginHook("neutron-control-relation-changed", "write",
                 Registered(features))
    /\ UNCHANGED <<flagVars, deferred>>

pre_series_upgrade ==
    /\ IF paused
       THEN BeginHook("pre-series-upgrade", "assess", {})
       ELSE BeginHook("pre-series-upgrade", "pause", Managed(features))
    /\ upgrading' = TRUE
    /\ UNCHANGED <<paused, deferred>>

post_series_upgrade ==
    /\ BeginHook("post-series-upgrade", "write", Registered(features))
    /\ paused' = FALSE
    /\ upgrading' = FALSE
    /\ UNCHANGED deferred

update_status ==
    /\ due = {} \/ failed = "update-status"
    /\ Begin("update-status", "assess", {})
    /\ UNCHANGED <<flagVars, deferred>>
\* Mutant: without exclude_services.
pause_actionAll ==
    /\ Begin("pause", "pause", Managed(features))
    /\ UNCHANGED <<flagVars, deferred>>

pause_action ==
    /\ Begin("pause", "pause", Managed(features) \ {OVS})
    /\ UNCHANGED <<flagVars, deferred>>

resume_action ==
    /\ Begin("resume", "resume", Managed(features) \ {OVS})
    /\ UNCHANGED <<flagVars, deferred>>

-----------------------------------------------------------------------------
\* The steps of a hook.  Proceed(p, work) goes on to step p.
Proceed(p, work) ==
    /\ pc' = p
    /\ todo' = work
    /\ UNCHANGED <<hook, viewVars>>

\* The process ends, and what it had in memory is gone.
Exit ==
    /\ pc' = "idle"
    /\ hook' = "none"
    /\ view' = NoView
    /\ viewReady' = FALSE
    /\ viewFeatures' = {}
    /\ todo' = {}
    /\ half' = {}
    /\ changed' = {}

\* Mutants: an action is held for a retry like a hook; an exception is
\* swallowed.
RaiseHoldsActions ==
    /\ Exit
    /\ failed' = hook
    /\ troubled' = TRUE
RaiseSwallowed ==
    /\ Exit
    /\ failed' = "none"
    /\ troubled' = TRUE

\* An exception leaves the hook: its remaining steps do not run, and Juju
\* holds the hook for a retry (a failed action is not retried).
Raise ==
    /\ Exit
    /\ failed' = IF hook \in Hooks THEN hook ELSE "none"
    /\ troubled' = TRUE

\* install_packages (config-changed, and api-changed with DVR) or the purge of
\* the DVR packages.
Packages ==
    /\ pc = "packages"
    /\ IF hook = "config-changed" \/ DVR \in viewFeatures
       THEN Install(Managed(viewFeatures))
       ELSE Purge(DvrPurged \ Managed(viewFeatures))
    /\ Proceed("write", Registered(viewFeatures))
    /\ UNCHANGED <<inputVars, flagVars, jujuVars, half, changed, deferred,
                   troubled, faults>>

\* CONFIGS.write_all(), one file at a time (in any order).
WriteFile(f) ==
    /\ pc = "write"
    /\ f \in todo
    /\ disk' = [disk EXCEPT ![f] = view[f]]
    /\ IF disk[f] # view[f]
       THEN /\ changed' = changed \cup {f}
            /\ stale' = stale \cup (Users[f] \cap running)
       ELSE UNCHANGED <<changed, stale>>
    /\ Proceed("write", todo \ {f})
    /\ UNCHANGED <<inputVars, installed, running, masked, flagVars, jujuVars,
                   half, deferred, troubled, faults>>

\* Mutant: amqp_changed without its decorator.
ToRestartNoAmqp ==
    LET inline == IF hook \in {"config-changed",
                               "neutron-plugin-api-relation-changed"}
                  THEN {OVS_DEFAULT} ELSE {}
    IN  IF paused \/ hook = "amqp-relation-changed" THEN {}
        ELSE UNION {RestartMap(f, viewFeatures) : f \in changed \ inline}

\* The services an (outer) restart_on_change restarts; none while paused.
ToRestart ==
    LET inline == IF hook \in {"config-changed",
                               "neutron-plugin-api-relation-changed"}
                  THEN {OVS_DEFAULT} ELSE {}
    IN  IF paused THEN {}
        ELSE UNION {RestartMap(f, viewFeatures) : f \in changed \ inline}

\* Mutant: the resume after a series upgrade leaves out what the action does.
WrittenKeepsOvs ==
    /\ pc = "write"
    /\ todo = {}
    /\ CASE hook \in {"config-changed", "neutron-plugin-api-relation-changed"}
                -> Proceed("restart_ovs", {})
         [] hook = "post-series-upgrade"
                -> Proceed("resume", Managed(viewFeatures) \ {OVS})
         [] OTHER -> Proceed("restart", ToRestart)
    /\ deferred' = deferred \ {hook}
    /\ UNCHANGED <<inputVars, hostVars, flagVars, jujuVars, half, changed,
                   troubled, faults>>

Written ==
    /\ pc = "write"
    /\ todo = {}
    /\ CASE hook \in {"config-changed", "neutron-plugin-api-relation-changed"}
                -> Proceed("restart_ovs", {})
         [] hook = "post-series-upgrade"
                -> Proceed("resume", Managed(viewFeatures))
         [] OTHER -> Proceed("restart", ToRestart)
    /\ deferred' = deferred \ {hook}
    /\ UNCHANGED <<inputVars, hostVars, flagVars, jujuVars, half, changed,
                   troubled, faults>>

\* _restart_before_runtime_config_when_required
RestartOvs ==
    /\ pc = "restart_ovs"
    /\ IF ~paused /\ OVS_DEFAULT \in changed
       THEN Restart(RestartMap(OVS_DEFAULT, viewFeatures))
       ELSE UNCHANGED <<running, stale>>
    /\ Proceed("configure_ovs", {})
    /\ UNCHANGED <<inputVars, disk, installed, masked, flagVars, jujuVars,
                   half, changed, deferred, troubled, faults>>

\* configure_ovs fails at the first ovs-vsctl when Open vSwitch is down: the
\* full_restart() before it starts nothing, as force-reload-kmod is no verb of
\* systemctl and the Upstart job is not there.
ConfigureOvs ==
    /\ pc = "configure_ovs"
    /\ IF OVS \in running
       THEN /\ Proceed("joined", {})
            /\ UNCHANGED <<failed, half, changed, troubled>>
       ELSE Raise
    /\ UNCHANGED <<inputVars, hostVars, flagVars, due, series, status,
                   deferred, faults>>

\* Mutant: purge_packages without the filter on determine_packages().
JoinedUnfiltered ==
    /\ pc = "joined"
    /\ IF DHCP \in viewFeatures
       THEN Install(Managed(viewFeatures))
       ELSE Purge(JoinedPurged)
    /\ IF hook = "neutron-plugin-relation-joined"
       THEN Proceed("assess", {})
       ELSE Proceed("restart", ToRestart)
    /\ UNCHANGED <<inputVars, flagVars, jujuVars, half, changed, deferred,
                   troubled, faults>>

\* neutron_plugin_joined: as a hook of its own, or called for every relation.
Joined ==
    /\ pc = "joined"
    /\ IF DHCP \in viewFeatures
       THEN Install(Managed(viewFeatures))
       ELSE Purge(JoinedPurged \ Managed(viewFeatures))
    /\ IF hook = "neutron-plugin-relation-joined"
       THEN Proceed("assess", {})
       ELSE Proceed("restart", ToRestart)
    /\ UNCHANGED <<inputVars, flagVars, jujuVars, half, changed, deferred,
                   troubled, faults>>

\* restart_on_change_helper: restart, or stop and then start (restart_check).
RestartService(s) ==
    /\ pc = "restart"
    /\ s \in todo
    /\ hook # "neutron-control-relation-changed"
    /\ Restart({s})
    /\ Proceed("restart", todo \ {s})
    /\ UNCHANGED <<inputVars, disk, installed, masked, flagVars, jujuVars,
                   half, changed, deferred, troubled, faults>>

StopService(s) ==
    /\ pc = "restart"
    /\ s \in todo
    /\ hook = "neutron-control-relation-changed"
    /\ half = {}
    /\ half' = {s}
    /\ running' = running \ {s}
    /\ stale' = stale \ {s}
    /\ Proceed("restart", todo)
    /\ UNCHANGED <<inputVars, disk, installed, masked, flagVars, jujuVars,
                   changed, deferred, troubled, faults>>

StartService(s) ==
    /\ pc = "restart"
    /\ s \in half
    /\ half' = {}
    /\ Start({s})
    /\ Proceed("restart", todo \ {s})
    /\ UNCHANGED <<inputVars, disk, installed, masked, flagVars, jujuVars,
                   changed, deferred, troubled, faults>>

Restarted ==
    /\ pc = "restart"
    /\ todo = {}
    /\ Proceed("assess", {})
    /\ UNCHANGED <<inputVars, hostVars, flagVars, jujuVars, half, changed,
                   deferred, troubled, faults>>

\* Mutant: stops the service and leaves it enabled.
PauseServiceStopOnly(s) ==
    /\ pc = "pause"
    /\ s \in todo
    /\ running' = running \ {s}
    /\ stale' = stale \ {s}
    /\ Proceed("pause", todo \ {s})
    /\ UNCHANGED <<inputVars, disk, installed, masked, flagVars, jujuVars,
                   half, changed, deferred, troubled, faults>>

\* pause_unit: every service first, the flag afterwards.
PauseService(s) ==
    /\ pc = "pause"
    /\ s \in todo
    /\ running' = running \ {s}
    /\ stale' = stale \ {s}
    /\ masked' = masked \cup {s}
    /\ Proceed("pause", todo \ {s})
    /\ UNCHANGED <<inputVars, disk, installed, flagVars, jujuVars, half,
                   changed, deferred, troubled, faults>>

SetPaused ==
    /\ pc = "pause"
    /\ todo = {}
    /\ paused' = TRUE
    /\ Proceed("assess", {})
    /\ UNCHANGED <<inputVars, hostVars, upgrading, jujuVars, half, changed,
                   deferred, troubled, faults>>

\* Mutant: starts the service before it unmasks it.
ResumeServiceStartFirst(s) ==
    /\ pc = "resume"
    /\ s \in todo
    /\ Start({s})
    /\ masked' = masked \ {s}
    /\ Proceed("resume", todo \ {s})
    /\ UNCHANGED <<inputVars, disk, installed, flagVars, jujuVars, half,
                   changed, deferred, troubled, faults>>

\* resume_unit: likewise.  A service that already runs is not restarted.
ResumeService(s) ==
    /\ pc = "resume"
    /\ s \in todo
    /\ masked' = masked \ {s}
    /\ running' = running \cup ({s} \cap installed)
    /\ stale' = stale \ ({s} \ running)
    /\ Proceed("resume", todo \ {s})
    /\ UNCHANGED <<inputVars, disk, installed, flagVars, jujuVars, half,
                   changed, deferred, troubled, faults>>

ClearPaused ==
    /\ pc = "resume"
    /\ todo = {}
    /\ paused' = FALSE
    /\ Proceed("assess", {})
    /\ UNCHANGED <<inputVars, hostVars, upgrading, jujuVars, half, changed,
                   deferred, troubled, faults>>

\* assess_status, the end of every hook and action.  resume_unit turns a
\* status other than active or maintenance into an exception.
Assess ==
    /\ pc = "assess"
    /\ status' = WorkloadStatus
    /\ IF hook = "post-series-upgrade"
          /\ WorkloadStatus \notin {"active", "maintenance"}
       THEN /\ Raise
            /\ UNCHANGED series
       ELSE /\ Exit
            /\ series' = IF hook \in Series THEN hook = "pre-series-upgrade"
                                            ELSE series
            /\ UNCHANGED <<failed, troubled>>
    /\ UNCHANGED <<inputVars, hostVars, flagVars, due, deferred, faults>>

-----------------------------------------------------------------------------
\* Faults.  A hook can raise or be killed between any two steps; a service can
\* die; the host can reboot.
Abort ==
    /\ pc # "idle"
    /\ faults < MaxFaults
    /\ faults' = faults + 1
    /\ Raise
    /\ UNCHANGED <<inputVars, hostVars, flagVars, due, series, status, deferred>>

Die(s) ==
    /\ s \in running
    /\ faults < MaxFaults
    /\ faults' = faults + 1
    /\ running' = running \ {s}
    /\ stale' = stale \ {s}
    /\ troubled' = TRUE
    /\ UNCHANGED <<inputVars, disk, installed, masked, flagVars, jujuVars,
                   runVars, deferred>>

\* A reboot while a hook runs is an Abort and then a Reboot.
Reboot ==
    /\ pc = "idle"
    /\ running' = installed \ masked
    /\ stale' = {}
    /\ UNCHANGED <<inputVars, disk, installed, masked, flagVars, jujuVars,
                   runVars, deferred, troubled, faults>>

-----------------------------------------------------------------------------
Operator ==
    \/ \E h \in Series : UpgradeSeries(h)
    \/ pause_action
    \/ resume_action

Inputs ==
    \/ \E w \in Writers : ChangeData(w)
    \/ \E e \in Features : ChangeFeature(e)

Dispatch ==
    \/ config_changed
    \/ neutron_plugin_api_changed
    \/ neutron_plugin_joined
    \/ amqp_changed
    \/ restart_check
    \/ pre_series_upgrade
    \/ post_series_upgrade

Step ==
    \/ Packages
    \/ \E f \in Files : WriteFile(f)
    \/ Written
    \/ RestartOvs
    \/ ConfigureOvs
    \/ Joined
    \/ \E s \in Services : RestartService(s)
    \/ \E s \in Services : StopService(s)
    \/ \E s \in Services : StartService(s)
    \/ Restarted
    \/ \E s \in Services : PauseService(s)
    \/ SetPaused
    \/ \E s \in Services : ResumeService(s)
    \/ ClearPaused
    \/ Assess

Faults ==
    \/ Abort
    \/ \E s \in Services : Die(s)
    \/ Reboot

Next == Inputs \/ Operator \/ Dispatch \/ update_status \/ Step \/ Faults

Spec == Init /\ [][Next]_vars

\* Juju keeps running what is queued, and a hook that runs goes on.
Fairness ==
    /\ WF_vars(Dispatch)
    /\ WF_vars(update_status)
    /\ WF_vars(Step)
FairSpec == Spec /\ Fairness

-----------------------------------------------------------------------------
TypeOK ==
    /\ want \in [Files -> Values]
    /\ amqpReady \in BOOLEAN
    /\ features \subseteq Features
    /\ inputs \in 0..MaxInputs
    /\ disk \in [Files -> Values \cup {Absent}]
    /\ installed \subseteq Services
    /\ running \subseteq Services
    /\ masked \subseteq Services
    /\ stale \subseteq running
    /\ paused \in BOOLEAN
    /\ upgrading \in BOOLEAN
    /\ due \subseteq Hooks
    /\ failed \in Hooks \cup {"none"}
    /\ series \in BOOLEAN
    /\ status \in States
    /\ hook \in Hooks \cup Actions \cup {"none"}
    /\ pc \in Steps
    /\ view \in [Files -> Values \cup {Absent}]
    /\ viewReady \in BOOLEAN
    /\ viewFeatures \subseteq Features
    /\ todo \subseteq Files \cup Services
    /\ half \subseteq Services
    /\ changed \subseteq Files
    /\ deferred \subseteq Writers
    /\ troubled \in BOOLEAN
    /\ faults \in 0..MaxFaults

Idle    == pc = "idle"
Settled == Idle /\ due = {} /\ failed = "none"

\* Between two hooks of a unit that is not paused, every service of the base
\* map runs and none is left masked: what pause and pre-series-upgrade took
\* down, resume and post-series-upgrade have brought back.  (resume_unit,
\* series_upgrade_complete)
BaseUp == ~troubled /\ Idle /\ ~paused => Base \subseteq running \ masked

\* Between two hooks of a paused unit no agent of the base map runs, whatever
\* the hooks that ran while it was paused wrote, installed or configured.
\* (pause_unit, pausable_restart_on_change)
BaseQuiet == ~troubled /\ Idle /\ paused => Base \cap running \subseteq {OVS}

\* No agent of the base map is left running on an older file: what a hook
\* wrote and did not restart, some later step has.  (restart_on_change around
\* the writing hooks, the services stopped while paused)
AgentsFresh == ~troubled /\ Idle => stale \cap Base \subseteq {OVS}

\* The pause and resume actions, and every hook but the series upgrade ones,
\* leave openvswitch-switch up.  (actions/pause_resume.py, exclude_services)
OvsUp == ~troubled /\ Idle /\ ~upgrading => OVS \in running \ masked

\* When nothing is queued or in error, every registered file holds what the
\* inputs say, unless a hook returned early: a change that arrives while a
\* hook runs, or a hook that dies half way, is never forgotten.
Delivered ==
    Idle /\ due \cap Writers = {} /\ failed = "none" /\ deferred = {}
        => \A f \in Registered(features) : disk[f] = want[f]

\* Likewise for the packages: the agents of the enabled features are installed,
\* those the charm purges are gone, and no purge takes an agent that another
\* feature needs (the metadata agent serves DVR and local metadata).
\* (install_packages, purge_packages, LP 1515008)
Provisioned ==
    Settled /\ deferred = {}
        => /\ Managed(features) \subseteq installed
           /\ (DvrPurged \cup JoinedPurged) \cap installed \subseteq Managed(features)

\* A unit on which a base service is down does not go on saying it is active:
\* update-status, or the hook in error, tells.  (main, assess_status)
StatusCorrected ==
    ~(Base \subseteq running)
        ~> (status # "active" \/ failed # "none" \/ Base \subseteq running)

\* The two errors that no retry gets out of: configure_ovs() with Open vSwitch
\* down, and the resume after a series upgrade while the broker is missing or
\* an agent is not installed (its feature enabled while the unit was paused).
Stuck ==
    \/ /\ {hook, failed} \cap {"config-changed",
                               "neutron-plugin-api-relation-changed"} # {}
       /\ OVS \notin running
    \/ /\ "post-series-upgrade" \in {hook, failed}
       /\ ~amqpReady \/ ~(Managed(features) \subseteq installed)

\* Once the operator leaves the unit alone, it works off what is queued and
\* gets out of every hook error but those two: half-done hooks are retried, and
\* a series upgrade that is completed brings all services back.  (the retried
\* hooks, resume_unit)
Converges ==
    \/ []<><<Operator>>_vars
    \/ <>[](series /\ "post-series-upgrade" \notin due \cup {hook, failed})
    \/ <>[]Stuck
    \/ []<>Settled

-----------------------------------------------------------------------------
\* What documentation and comments say and the code does not do.

\* neutron_ovs_hooks.py:131 "if we are paused, delay doing any config changed
\* hooks. It is forced on the resume.": once a unit is resumed, the delayed
\* configuration is on disk.
ForcedOnResume ==
    ~troubled /\ Settled /\ ~paused /\ amqpReady
        => \A f \in Registered(features) : disk[f] = want[f]

\* README.md:85 "Changing dpdk-socket-* configuration options will trigger a
\* restart of Open vSwitch": a unit that is not paused does not run Open
\* vSwitch with an older /etc/default/openvswitch-switch.
OvsRestarted == ~troubled /\ Settled /\ ~paused => OVS \notin stale

\* actions.yaml:23 "Pause the neutron-openvswitch unit.  This action will stop
\* neutron-openvswitch services.": none runs while the unit is paused.
PausedQuiet ==
    ~troubled /\ Settled /\ paused => Managed(features) \cap running \subseteq {OVS}

\* config.yaml:208 "Enable SR-IOV NIC agent on deployed units": on a unit that
\* is not paused, the installed agent of an enabled feature runs.
EnabledRuns ==
    ~troubled /\ Settled /\ ~paused
        => Managed(features) \cap installed \subseteq running

\* host.py:736 "restart services if files described in the restart_map have
\* changed after an invocation": also if the invocation that changed them
\* failed and another one completed it.
RestartedAfterRetry == Settled /\ ~paused => stale \cap Base \subseteq {OVS}

\* ovs/__init__.py:525 "Full restart and reload of openvswitch": the hook that
\* finds openvswitch-switch stopped gets it up, and itself out of error.
OvsRecovers ==
    \/ []<><<Operator>>_vars
    \/ <>[]series
    \/ []<>~amqpReady
    \/ []<>(Idle /\ failed = "none")
=============================================================================
