# Formal model of charm-neutron-openvswitch

The charm is a Juju subordinate: it lives next to nova-compute, configures Open
vSwitch and the Neutron agents of a host, and is nothing but short programs
(hooks and actions) that Juju runs one after the other. It keeps almost no
memory of its own. What makes it hard to get right is what happens *between*
those programs and when one of them ends half way: a hook that is killed and
retried, a unit that is paused while hooks go on, options that change in the
meantime, services that a later run believes to be up to date.

Most of the repository is charmhelpers, the library the charm vendors and runs
in every hook. Its parts that have state, or a decision that is easy to get
wrong, are modelled as well.

Paths without `src/` in this file are relative to `src/`; `charmhelpers` is
`src/hooks/charmhelpers`.

## 1. The system

### The charm

| Part | Code | State it keeps | Operations | Correct if |
|---|---|---|---|---|
| Hook handlers | `hooks/neutron_ovs_hooks.py` | none; reads config and relation data | config-changed, neutron-plugin-(api-)relation-changed, -joined, amqp, neutron-control, series upgrade, update-status, install, upgrade-charm | an input change reaches files and services, whatever fails in between |
| Pause and resume | `actions/pause_resume.py`, `charmhelpers/contrib/openstack/utils.py` | `unit-paused`, `unit-upgrading` in the kv store; masks of systemd units | pause, resume, series upgrade prepare and complete | paused units are quiet, resumed units whole and up to date; Open vSwitch is left alone |
| Service restarts | `charmhelpers/core/host.py`, `restart_on_change` | checksums, in memory of one process | restart, stop and start | no agent runs on an older file |
| Resource map | `neutron_ovs_utils.py:156-474` | none | `resource_map`, `restart_map`, `services` | files, services and packages agree with each other for all settings |
| Configuration files | `templating.py`, `neutron_ovs_context.py` | the files, `/etc/neutron/secret.txt`, the FQDN decision | `write_all`, `get_shared_secret`, `get_ovs_use_veth`, upgrade-charm | what is decided once is kept; a restart has a cause |
| Packages | `neutron_ovs_utils.py:238-357`, `charmhelpers/fetch/ubuntu.py` | dpkg database, sources, keys | install, purge, autoremove, add source | what is needed is there, from the configured source; nothing needed is purged |
| Bridges and ports | `configure_ovs`, `charmhelpers/contrib/network/ovs` | Open vSwitch database | add-br, add-port, add-bond, IPFIX | database follows the config; a re-run is harmless |
| Open vSwitch options | `enable_ovs_dpdk`, `enable_hw_offload` | `other_config` columns | set, restart | Open vSwitch runs with the options set |
| DPDK and SR-IOV devices | `resolve_dpdk_*`, `hooks/pci.py`, `charmhelpers/contrib/openstack/context.py` | MAC to PCI address, in the kv store; `/etc/dpdk/interfaces` | resolve, store, bind, number of VFs | a bound device is still found; cards are asked for what they have |
| Cleanup action | `actions/cleanup.py` | none | remove patch ports, tunnel bridge, controllers, namespaces, ipsets | nothing is left behind, also after a failed run |
| Workload status | `assess_status`, `_determine_os_workload_status` | the status in Juju | at the end of every hook | it hides no problem |
| neutron-api contexts | `neutron_ovs_context.py`, `contrib/openstack/context.py` | none | contexts from relation data | all contexts use the settings of one unit, and alike |

### The library

| Part | Code (`charmhelpers/`) | State it keeps | Correct if |
|---|---|---|---|
| Key-value store | `core/unitdata.py` | sqlite file, one transaction from flush to flush, history | what is written between two flushes appears together or not at all |
| Hook environment | `core/hookenv.py` | persistent config, relation cache of a process | a hook is told of each change, and reads its own writes |
| Messaging, credentials | `contrib/openstack/context.py` | none | only complete units are used, never two mixed |
| Data ports | `context.py`, `contrib/openstack/neutron.py` | none | a card that is in use is left alone |
| Endpoints and certificates | `contrib/openstack/ip.py`, `contrib/network/ip.py`, `cert_utils.py` | certificates, links | every address is covered and served |
| Ports | `hahelpers/cluster.py`, `contrib/openstack/context.py` | haproxy's and Apache's files | who listens in front leads to the service |
| hacluster | `contrib/openstack/ha/utils.py`, `hahelpers/cluster.py` | the relation's keys | hacluster runs what the options ask for |
| Application units | `contrib/openstack/utils.py`, `hahelpers/cluster.py` | peer relation, leader settings | ready together, initialised first |
| Ceph broker and pools | `contrib/storage/linux/ceph.py` | requests, answers, pools, tiers | complete requests were carried out; no data lost |
| Policy overrides | `contrib/openstack/policyd.py` | `policy.d`, a success file | one resource at a time, whole |
| Services framework | `core/services/` | ready services, ports, stored passwords | services run when their data are complete |
| Releases and upgrades | `contrib/openstack/utils.py` | release caches, saved options | the installed release is known; upgrades go forward |

How they interact. Juju queues a hook for every change of config or relation
data and runs hooks and actions one at a time. A hook reads the inputs as they
are when it starts, (maybe) installs and purges packages, which start and stop
daemons, renders the registered files, calls `ovs-vsctl`, and is wrapped by
`restart_on_change`, which compares checksums before and after and restarts the
services `restart_map()` lists for the changed files. `pausable_restart_on_change`
drops the restart on a paused unit. `pause` masks the services and then sets the
flag; `resume` unmasks and starts them and then clears it; the series upgrade
hooks call the same two functions, with Open vSwitch included and without it
excluded. The kv store and the files are the only things hooks and actions share
besides the host itself. Open vSwitch is both a managed service and the database
all bridge configuration goes into. With other units and charms a hook exchanges
relation data, which it reads as of its start and which others see when it has
succeeded; leader settings and the status take effect at once.

Hard behaviours: a hook is killed or raises between any two commands and is
retried from its start, with fresh in-memory state and possibly newer inputs; an
action that fails is not retried; inputs change while a hook runs; features
(DVR, local DHCP, SR-IOV) come and go between pause and resume, and between the
two halves of a series upgrade; services die and hosts reboot; answers of other
units come late, twice or from units that have left. `PROJECT.json` lists each of
them at its line ("hazards").

## 2. The modules

### UnitMaps, UnitLifecycle: one unit

`UnitLifecycle` is the core: all hooks except install (the initial state) and
upgrade-charm, both actions, and the steps they consist of.

| Model | Code |
|---|---|
| `want`, `amqpReady`, `features` | charm config and relation data: what each file would be rendered to, whether the amqp relation is complete, which of `use_dvr()`, `enable_local_dhcp()`, `enable_sriov()` hold |
| `view`, `viewReady`, `viewFeatures` | the same, as the running process has read it |
| `disk`, `installed`, `running`, `masked` | the files, and systemd and dpkg per service |
| `stale` | running services one of whose files changed since they started |
| `paused`, `upgrading` | the flags in the kv store |
| `due`, `failed`, `series` | Juju: queued hooks, the hook in error, between the series upgrade hooks |
| `hook`, `pc`, `todo`, `half`, `changed` | where the process is: the decorated function, then the restarts of `restart_on_change`, then `assess_status` |
| `deferred`, `troubled`, `faults` | history: hooks that returned early; whether there was a fault |

`Begin` and the actions that use it are the hook dispatch with each handler's
early returns. The steps are `Packages`, `WriteFile`/`Written` (`write_all`, file
by file), `RestartOvs` (the inner `restart_on_change` for
`/etc/default/openvswitch-switch`), `ConfigureOvs`, `Joined` (`neutron_plugin_joined`,
as a hook and as the call at the end of others), `RestartService` or
`StopService`/`StartService` (`stopstart=True`), `PauseService`/`SetPaused`,
`ResumeService`/`ClearPaused` and `Assess`. `Abort` ends the process between any
two of them, `Die` stops a service, `Reboot` restarts what is not masked.

A file's content is one value of a set `Values`: all the charm ever does with
contents is compare checksums. (What later hooks read back from a file is in
`ConfigFiles`.) A failed `systemctl start` of a masked or missing unit has no
effect, as `service()` ignores its return code. `full_restart()` starts nothing:
its Upstart job is not there and `force-reload-kmod` is no verb of systemctl, so
`ConfigureOvs` raises when Open vSwitch is down. Between the two series upgrade hooks
the unit agent idles; that is Juju's part and external.

`UnitMaps` is the table of files, services and features `UnitLifecycle` is
parameterised by. `MCUnitSriov` (an agent that is switched on and off and never
purged) and `MCUnitDvr` (agents that are purged, one of them shared by two
features) give it values. `UnitInvariant` has the inductive invariants.

### ResourceMap, ResourceTable: the table is the code's

`ResourceMap` translates `resource_map()`, `services()`, `restart_map()`,
`determine_packages()` and `determine_purge_packages()` as operators over the
settings, one of which (`netplan_shim`) is whether the process that computes them
could import `sriov_netplan_shim` when it started. `ResourceTable` instantiates
`UnitMaps` with one table and checks, for every combination of settings a unit on
Xenial or later can have, that the operators and the table give the same services,
files and restarts. This is what connects the abstract table of the lifecycle to the
code. Its state is what differs between processes: `CONFIGS` and the restart maps of
the decorators are made at import, so the process that first installs
`sriov-netplan-shim` has met a `NameError` and left `interfaces.yaml` out
(`LeftOut`); it neither registers nor writes that file, and unless another hook
follows nobody does. `LeftOutOnce` says that no process that starts after such an
install leaves it out. The file names no services, so restarts are not affected; the
lifecycle model's instances do not have it among their files.

### The other parts of the charm

| Module | What moves |
|---|---|
| `Packages` | the apt commands of config-changed and the two neutron-plugin hooks, from `ResourceMap`, against a package database with the dependencies the code's comments name, including autoremove; any command can fail |
| `OvsBridges` | `configure_ovs()` as the list of `ovs-vsctl` commands it issues, each of which succeeds or raises as `ovs-vsctl` does (`--may-exist`, a port that is elsewhere, a bond with one interface). `known` is the kv store, `bound` the devices whose MAC the kernel does not show any more, `listed` the content of `/etc/dpdk/interfaces` |
| `OvsOptions` | `enable_ovs_dpdk()` and `enable_hw_offload()` column by column; `changed` is `values_changed`, in memory only; `used` is what ovs-vswitchd has read at its start. config-changed returns early on a paused unit, the relation hook does not |
| `Cleanup` | `actions/cleanup.py` command by command, with runs that end half way and are started again, and the unit resumed in between (the agents then put everything back) |
| `ConfigFiles` | install, upgrade-charm, config-changed and neutron-control as far as they read back what they wrote: a file is truncated and then written, and a hook is killed before, between and after. `HostInfoContext` asks the resolver anew each time, which may fail. `memory` is history: host names used, whether a lookup failed, the veth setting in use, whether a kill tore a file or lost a restart |
| `WorkloadStatus` | `assess_status` over flags, services, relations and the veth check, while these get better or worse between hooks; a message is the set of what it names |
| `NeutronApi` | what the units of neutron-api send, unit by unit; `NeutronAPIContext`, `OVSPluginContext`, `L3AgentContext`, `SharedSecretContext`, firewall driver and logging |
| `NicSettings` | virtual functions per card (list, blanket value, device mapping; a `sriov-numvfs` that is none of these raises), DPDK bonds, core masks |

### The library

| Module | What moves |
|---|---|
| `KvStore`, `UnitStore` | `Storage`: `conn` is what the connection sees, `disk` what is committed; `hook_scope`, history, flush, kills. `UnitStore` is its promise: what a process writes appears together, whenever it commits, or not at all. (A flush inside `hook_scope` commits a part of a hook) |
| `HookEnv` | one hook process after the other: config and its saved copy, the relation cache, `atexit` and the commit |
| `Credentials`, `Messaging` | the loops of the identity, database, region and AMQP contexts over units that are more or less complete. Each loop leaves something else behind for the next unit |
| `DataPorts` | data-port and ext-port entries by name and by MAC, cards with addresses, bridges and bonds |
| `AptFetch` | sources, keys, update and install as commands; another process holds the dpkg lock; retries; kills |
| `Endpoints` | addresses, virtual addresses, certificate requests, issued certificates, files and links, while virtual addresses, host names and the cluster change. Each of them may be of an earlier configuration (`as_of`). A charm declares a binding for each endpoint type or for none |
| `Proxies` | the ports of haproxy, Apache and the service, rendered together, while peers, the cluster, options, certificates and the identity relation come and go |
| `HighAvailability` | `generate_ha_relation_data` over changes of the options, and what hacluster makes of it |
| `ApiUnits` | several units at a time: leadership, initialisation of the database, peer states, application status |
| `CephBroker` | requests on several relations, monitors that answer in their own time, hooks that compare what they want with what was sent |
| `CephPools` | creating pools, cache tiers and `ensure_ceph_storage`, command by command, while clients write |
| `Policyd` | the files of `policy.d` one by one, with the success file, over resources and kills |
| `Services` | `ServiceManager` with ready file, port files and stored context |
| `Releases` | `os_release`, the upgrade action, `config_value_changed`, endpoint changes |

### Composition

Twenty-two components are checked in two runs. `MCRelations` has those that compute
something from relations, options or the host, `MCHost` those that keep
something on the unit. The variable `part` is chosen once; only the component it
names takes steps. Some components are extended (their names are kept distinct for
that); while another component runs they stay in one of their initial states.
The others are instances: at rest, their variables have a value outside their
state space, and their property is asked only of their own behaviours
(`part = "apt" => Apt!SourcesRight`). Either way a theorem is about the very
definition the run checks. Running one at a time loses nothing, because
no two of them share a variable in the code: where they do touch the same thing
(the kv store, the hook's process) each has it in its own state, as far as it uses
it. So the states of such a run are the disjoint union of its components' states:

| Run | Components (states) |
|---|---|
| `relations` | table 1,312, WorkloadStatus 224,256, NeutronApi 104,832, Credentials 4,369, Messaging 24,807, DataPorts 10,845, NicSettings 111,456, Endpoints 181,993, Proxies 2,048, HighAvailability 16,374, ApiUnits 182,178, CephBroker 3,801 |
| `host` | Cleanup 552, OvsOptions 102,802, KvStore 260,458, ConfigFiles 971,541, HookEnv 34,704, AptFetch 34,761, CephPools 300,400, Policyd 67,294, Services 51,844, Releases 68,164 |


## 3. What the runs check

States are distinct states found. All deadlock checks are on, except where a
bounded system really stops (`CHECK_DEADLOCK FALSE`: all inputs and faults of the
bound are used and nothing is left to do).

| Run | Module, size | Shows |
|---|---|---|
| `unit_sriov` | `MCUnitSriov`, 1,621,738 states | `BaseUp`, `BaseQuiet`, `AgentsFresh`, `OvsUp`: without faults so far, between two hooks a unit that is not paused is up, a paused one quiet, no agent outdated and Open vSwitch never down, whatever order hooks, actions, upgrades and input changes come in. `Delivered`: also with faults, a change is on disk as soon as nothing is queued, in error or put off |
| `unit_dvr` | `MCUnitDvr`, 848,214 states | the inductive invariants `UnitInv` and `DeliveryInv` between any two *steps*; `Provisioned`: packages follow the features, the shared metadata agent included |
| `unit_live` | `MCUnitSriov`, 646,501 states | `Converges`: after a fault the queue is worked off and every hook gets out of error, but for the two kinds of `Stuck`: `configure_ovs` while Open vSwitch is down, and the resume of `post-series-upgrade` while the broker is missing or the agent of a feature that was enabled during a pause is not installed; `StatusCorrected`: the status does not hide a dead service |
| `packages` | `Packages`, 317,517 states | `ServicesInstalled`: all agents that are to run have their package after the hooks; `PurgeSpares`: no purge takes what a service of the base map needs; `HaproxyKept` over autoremove |
| `bridges` | `OvsBridges`, 1,817,429 states | `Attached`, `Exported`: a hook that went through has put every port, bond and exporter in place, with or without DPDK, also after a killed one; `Remembered`: no device is bound to DPDK before its address is stored; `Repeatable`: without DPDK, one more run changes nothing |
| `relations` | `MCRelations`, 868,271 states | one property per component, below |
| `host` | `MCHost`, 1,892,520 states | one property per component, and `OnlyWhilePaused` and `Transactional`, below |

The property of a component is a conjunction of named parts in its module:

| Property | What it says |
|---|---|
| `TableAgrees` | `resource_map()` and its friends give the table `UnitLifecycle` assumes, for every combination of settings and in every process; `interfaces.yaml` is left out only by processes that started before its package was asked for |
| `StatusTrue` | "active" is said of whole units only; nothing that gets worse makes the status look better; "paused" is believed only of a unit that is quiet; a relation is called missing only when it is |
| `SettingsFit` | while the units of neutron-api disagree, the settings in use are those of one of them; the principal gets the secret exactly when there is a metadata agent, an L3 agent is one of DVR, logging comes with the driver that can |
| `OneUnitsCredentials` | a context never mixes the credentials of two units |
| `ServersReady` | `transport_url` names only servers with a password, and virtual addresses only of clusters |
| `PortsRight` | a card found by its MAC is attached only if nothing uses it, and to the bridge of its mapping; every free card is; `BridgePortInterfaceMap` agrees with the context |
| `NicsRight` | no card is asked for more VFs than it has; an entry of its own beats the blanket value; DPDK polls on every NUMA node |
| `EndpointsRight` | every address clients, peers or the cluster use is in a request made for the configuration of now, the first or one made again after a change (`SansCovered`); once the answer is installed each address has a file or a link, whatever is left from before (`LinksServe`), and each virtual host of Apache has a certificate (`HostsServed`); a clustered unit gives out an address that moves with the cluster (`AddressesRight`). Proxies and service listen apart and lead to each other, and in `singlenode_mode` none has to move when a peer or the cluster comes or goes after they were rendered (`PortsLead`, `NothingMoves`) |
| `HaRight` | hacluster is never told to run and to delete one resource; what it runs is what the options ask for; VIPs and DNS are not mixed |
| `UnitsRight` | a unit shows the application as ready only after each unit it counts has found itself so, and never before a leader initialised the database; two units that see each other do not both lead; waits are apart |
| `RequestsTrue` | a request taken for complete was carried out on every relation; an identifier is not given to two requests; the action runs only for one that was answered |
| `CleanupRight`, `OnlyWhilePaused` | after an action that ran through nothing is left, however many ended half way; the next one never asks for a peer that is gone; agents that are not paused keep everything |
| `OptionsRight` | the columns asked for are set after the hook, and Open vSwitch uses them unless a restart was lost |
| `Transactional` | `KvStore` implements `UnitStore` (refinement: `stored` is `disk.kv`, `pending` is `conn.kv`) |
| `FilesKept` | metadata agent and principal hold one secret; `ovs_use_veth` never changes; the host name agents register with does not change either, and the principal is told the same, as long as no hook has asked the resolver in vain (`memory.unresolved`), and on a unit deployed with short names not even then; Open vSwitch is not restarted for a file that says what it runs with, in particular not by upgrade-charm (LP 1712444), and runs with what the file says unless a restart was lost |
| `HookDataTrue` | a hook is told of each config change since the last hook that saved its config, own keys and own writes are read back; the history of the kv store agrees with it |
| `SourcesRight` | apt has the key of every source it has; no source of another series; a hook that got to its end has installed from the configured sources; a dpkg lock held for a while is survived |
| `PoolsRight` | placement groups are within bounds; a pool no create was interrupted on is complete; a cache tier is taken off only when it is clean; data stay at the mount point |
| `PolicyRight` | `policy.d` never has files of two resources; what others put there stays; nothing of a broken resource is left; success means all of it |
| `ServicesRight` | a service runs exactly when its data are complete, with the newest; a loss is told; ports match; one password is used, whatever hook died where |
| `ReleasesRight` | `os_release` tells what is installed; an upgrade goes to a newer release only and is whole when it succeeded; a saved change was acted on |

Where a part excepts something (a kill at one place, "unless a restart was
lost"), the exception is a history variable of the module, and the same statement
without it is one of the refuted ones below.

### Deviations

Where the code does not do what a document or comment of the repository says,
the claim is a definition at the end of its module, and TLC refutes it. Five of
them are runs:

| Run | The text | What happens |
|---|---|---|
| `forced_on_resume` (`ForcedOnResume`) | `neutron_ovs_hooks.py:131`: a config change is delayed while paused and "forced on the resume" | resume starts services and writes no file; the change waits for an unrelated hook |
| `after_retry` (`RestartedAfterRetry`) | `host.py:736`: services are restarted if files have changed | what a failed hook has written counts as unchanged in the retry |
| `enabled_runs` (`EnabledRuns`) | `config.yaml:208`: enables the SR-IOV agent | an agent paused, switched off and on again after resume stays masked |
| `dpdk_ports` (`PortsAdded`) | `config.yaml:27`: ports will be added to their bridge | with DPDK `add-port` has no `--may-exist`: a second run of `configure_ovs` fails at the first port that is there, and the next one never comes |
| `policy_broken` (`BrokenIsShown`) | `policyd.py:165`: a resource that is not installed shows as "PO (broken)" | a resource refused as a whole after an earlier success leaves the success file, with nothing installed |

The others were found with TLC in the same way and have no run of their own. To
see the counterexample, name the definition in a copy of the configuration, or,
for a component of `relations` or `host`, in a copy of `MCHost.cfg` (OvsOptions,
Cleanup, ConfigFiles and KvStore, which `MCHost` extends) or as an invariant of its
own module with the constants that `MCRelations.cfg` or `MCHost.cfg` gives it:

| Definition | Module | The text | What happens |
|---|---|---|---|
| `OvsRestarted` | `UnitLifecycle` (`MCUnitForcedOnResume.cfg`) | `README.md:85`: a change of the DPDK options restarts Open vSwitch | a file written while paused is never followed by a restart of Open vSwitch |
| `PausedQuiet` | `UnitLifecycle` (`MCUnitDvr.cfg`) | `actions.yaml:23`: pause stops the services | hooks that do not ask for the flag install agents, which start |
| `OvsRecovers` | `UnitLifecycle` (`MCUnitLive.cfg`) | `network/ovs/__init__.py:525`: full restart | with systemd `force-reload-kmod` is no verb: config-changed fails for ever once Open vSwitch is down |
| `ExportedEverywhere` | `OvsBridges` | `config.yaml:309`: IPFIX on all bridges | the bridges of bonds get no exporter |
| `SocketOptionsUsed` | `OvsOptions` | `README.md:85` | columns set by a hook that is killed, or that ran on a paused unit, are never followed by the restart |
| `PatchesRemoved` | `Cleanup` | `actions/cleanup.py:54`: both ends | the second end stays when the action fails between the two |
| `VethImmutable` | `ConfigFiles` | `context.py:2304`: "considered immutable" | a hook killed while it writes `dhcp_agent.ini` forgets the setting |
| `HostNeverChanges` | `ConfigFiles` | `context.py:2245`: FQDN or not is a decision that can not change | a hook that runs while the resolver fails writes the short name (`_get_canonical_name(name) or name`) and sends it to the principal |
| `SecretNeverEmpty` | `ConfigFiles` | `neutron_ovs_context.py:550` | killed between truncation and write, the secret stays empty for good |
| `UnsetRemoves` | `KvStore` | `unitdata.py:226` | unsetting a key that the same hook has set raises and takes back the hook |
| `MyKeyPreserved` | `HookEnv` | `hookenv.py:341`: keys are preserved across hooks | not when a hook is killed while it saves them |
| `OnePortOneBridge` | `DataPorts` | `neutron.py:336`: one port, one bridge | a card named by name and by MAC is on two |
| `FatalRaises`, `PocketOfSeries` | `AptFetch` | `fetch/ubuntu.py:275`, `:662` | an exit code that is not retried counts as success; a pocket without a series is not refused |
| `SentWhatIsWanted`, `ActedOnce`, `CompleteWithOlder` | `CephBroker` | `ceph.py:2140`, `:2243`, `:2155` | fields `_ops_equal` does not compare are not sent again; with two monitors an action is run again; the answer of a monitor that knows no identifiers counts for a later request (`SpecWithOlder`) |
| `CreatePerformsAll`, `DataMigrated`, `TierRemoved` | `CephPools` | `ceph.py:373`, `:1600`, `:463` | a second attempt finds the pool, the device or the mode of the first and skips the rest |
| `AllCovered`, `LinksFollow` | `Endpoints` | `cert_utils.py:176`, `:237` | two types with one host name lose an address; a link is not moved |
| `AlwaysLeads` | `Proxies` | `cluster.py:246`: the port the service listens on | alone, with TLS and not in `singlenode_mode`, it is the port `ApacheSSLContext` gives Apache |
| `EveryLossTold`, `PortsClosed`, `NoFileTorn` | `Services` | `base.py:59`, `:73`, `:249` | after a kill at a bad place a loss is not told, a port stays open, or no hook can read the ready file |
| `AllUnitsReady`, `ReadyNow`, `OneLeader` | `ApiUnits` | `utils.py:2326`, `:2407`, `cluster.py:80` | units that leave count; the status is of the last hook; a unit in and one outside the cluster both lead |
| `FreshOnReset`, `ReleaseOfPackage`, `UpgradeResumes`, `OptionActed` | `Releases` | `utils.py:616`, `:623`, `:838`, `:715` | a cache behind the cache; an upgrade that stopped half way looks finished; a retried hook sees no change |
| `BothRefused`, `RemovedGone`, `GroupExists` | `HighAvailability` | `cluster.py:331`, `ha/utils.py:135` | with both options DNS is used; a VIP taken out of the option stays; a group names a resource nobody defined |

### Bounds, and why they are enough

* Lifecycle: three files (one of Open vSwitch, one of all agents, one of an
  optional agent), three or five services, one or two features, two contents
  (symmetric; a checksum comparison tells only equal from different), one or two
  input changes, no or one fault. Every hazard listed needs at most two changes
  (a change and another one while its hook runs; a feature off and on again
  needs a third, which the run `enabled_runs` has) and one fault, since a hook
  that is retried starts with no memory: a second fault meets a state that
  differs only in what is already on disk. `UnitInv`, `DeliveryInv` and
  `Provisioned` are proved without bounds. `MCUnitSriov` takes two inputs per
  file where a run can afford it and one where faults make it large (`MCReadsFew`).
* Packages: two releases, before and after the Python 3 switch, four changes of
  four options, two failures. OvsBridges: two devices, two data bridges, one
  bond, two collectors, four changes and one killed hook: a device that
  moves, a bond that gets its second member, a collector replaced.
* `relations` (`MCRelations.cfg`): two of everything that can be confused with
  another one of its kind (relations, servers, bridges, cards, networks, host
  names, VIPs, interfaces), because every loop modelled carries something over
  from one element to the next; with one change (Endpoints) or two (ha, units) in
  between, one monitor per cluster and one process that dies. Endpoints takes one
  change: its states are all configurations, so that a change leads from any of
  them to any neighbour. Cards have no, two or four virtual functions, of which one or
  three are asked for: fewer than there are, and more. A host has two NUMA nodes, the
  cores of one in two ranges.
* `host` (`MCHost.cfg`): a kill is a fault of a process without memory, so one
  is enough for each (two for Cleanup, where two runs may end half way, at
  different places); two keys and two values in the kv store and two hooks in its
  history; three changes of options (off, on again with another value); two
  resources of policy.d with up to two files and one that is to be kept; two
  services; three releases; pools of two sizes and two shares of the data, so that
  the placement groups asked for are rounded up and down.
  ConfigFiles takes three changes of inputs, which is an upgrade of the release
  and a change back and forth of an option.
* What `packages`, `bridges`, `host` and `relations` check is also proved without
  bounds (section 4).

### Fairness

`unit_live` and `dpdk_ports` assume weak fairness of
dispatch, update-status and steps, no more. Juju's unit agent runs queued hooks
and retries failed ones for as long as the unit exists, runs update-status every
few minutes when nothing is queued, and a hook process that runs goes on to its
next command. Nothing is assumed of the operator, of input changes or of faults:
an operator who pauses and resumes for ever and a series upgrade that is never
completed are alternatives in `Converges`, and so are the two errors no retry
gets out of. Without either half of `Stuck` TLC refutes it: these are behaviours
the unit has. A post-series-upgrade hook that has been queued is not excused.
`unit_live` has one content for files: its properties do not compare contents,
and a file differs from the absent one it replaces.
The other modules have no fairness and no liveness: the library's operations end,
and whether a remote charm answers is not theirs.

## 4. What is proved

| Theorem | Module | Statement |
|---|---|---|
| `TypeCorrect`, `UnitInvHolds` | `Unit_proofs` | `Spec => []TypeOK`, `[]UnitInv` |
| `BaseServicesUp`, `BaseServicesQuiet`, `AgentsUseTheirFiles`, `OpenVSwitchUp` | `Unit_proofs` | `Spec => []BaseUp`, `[]BaseQuiet`, `[]AgentsFresh`, `[]OvsUp` |
| `DeliveryInvHolds`, `ChangesDelivered` | `Unit_proofs` | `Spec => []DeliveryInv`, `[]Delivered` |
| `PackagesFollow` | `Unit_proofs` | `Spec => []Provisioned` |
| `ServicesGetInstalled`, `PurgesAreSparing`, `HaproxyStays` | `Packages_proofs` | `Spec => []ServicesInstalled`, `PurgeSpares`, `HaproxyKept` |
| `DevicesAttached`, `BridgesExport`, `AddressesRemembered`, `RunsAgain` | `OvsBridges_proofs` | `Spec => []Attached`, `[]Exported`, `[]Remembered`, `[]Repeatable` |
| `CleanupIsRight`, `NothingTakenFromAgents` | `Host_proofs` | `Spec => []CleanupRight`, `OnlyWhilePaused` |
| `OptionsAreRight`, `FilesAreKept`, `PolicyIsRight` | `Host_proofs` | `OptionsSpec => []OptionsRight`, `FilesSpec => []FilesKept`, `PolicySpec => []PolicyRight` |
| `StoreIsTransactional` | `Host_proofs` | `StoreSpec => Transactional`, the refinement of `UnitStore` |
| `HooksAreTold`, `ReleasesAreRight`, `SourcesAreRight` | `Host_proofs` | `AllSpec => []HookDataTrue`, `[]ReleasesRight`, `[]SourcesRight` |
| `ServicesAreRight`, `PoolsAreRight` | `Services_proofs` | `AllSpec => []ServicesRight`, `[]PoolsRight` |
| `RequestsAreTrue` | `Relations_proofs` | `Spec => []RequestsTrue` |
| `UnitsAgree`, `ClusterAsAsked`, `StatusIsTrue`, `EndpointsFit` | `Relations_proofs` | `AllSpec => []UnitsRight`, `[]HaRight`, `[]StatusTrue`, `[]EndpointsRight` |
| `ServersAreReady`, `CredentialsOfOneUnit`, `SettingsAgree` | `Relations_proofs` | `AllSpec => []ServersReady`, `[]OneUnitsCredentials`, `[]SettingsFit` |
| `TableIsTheCodes` | `Relations_proofs` | `AllSpec => []TableAgrees` |
| `CardsAsConfigured`, `PortsAsMapped` | `Devices_proofs` | `AllSpec => []NicsRight`, `[]PortsRight` |

Each names a property that a run checks. `Spec` is the specification of the
component; in the modules that `MCHost` extends it is called `OptionsSpec`,
`FilesSpec`, `StoreSpec` and `PolicySpec`. A component that `MCHost` or
`MCRelations` instantiates is proved about in the composition: `AllSpec` has its
behaviours (those with its name as `part`) and the others, of which the property
says nothing, so that the theorem is about the definition the run checks.

No theorem bounds what the runs bound: sets of files, services, units, devices or
requests, the length of lists, and how often inputs change and faults happen are
arbitrary. What a theorem assumes of the constants:

| Assumption | Module | What it says | Why it is so |
|---|---|---|---|
| `TableAssumption`, `OwnerAssumption`, `FilesAssumption`, `ServicesAssumption`, `OvsAssumption`, `PurgeAssumption` | `UnitMaps`, `UnitLifecycle`, `UnitInvariant` | the table has its types; a managed file comes with a service that uses it; Open vSwitch is a base service with a file of its own; which hook decides a feature, and which features have packages that are purged | `TableAgrees` checks the code's table, for all settings |
| `PackagesAssumption` | `Packages` | releases are among those with a rank | a release is one the charm knows |
| `BridgesAssumption` | `OvsBridges` | devices, bonds and bridges are finite; `None` is no name | |
| `StoreAssumption` | `KvStore` | a key is no range of keys, a value not the absence of one | keys are told apart from prefixes by the method called |
| `ContentsAssumption` | `ConfigFiles` | no content equals what stands for a missing or empty file | |
| `ReleasesAssumption` | `MCHost` | releases are numbered | they are compared by their position in a list |
| `AptAssumption` | `MCHost` | another process holds the dpkg lock no longer than the attempts of one command last | only `LockSurvived` needs it: that is its premise |
| `OrderAssumption` | `MCHost` | services have a sequence of names, each once | `ServiceManager` keeps them in a dict |
| `ApiAssumption`, `CredsAssumption`, `StatusAssumption`, `EndpointsAssumption` | `MCRelations` | units are numbered and some are deployed; the bound on the units of a relation is a number; `None` is no state and no relation; no endpoint is called what the machine is | unit names end in numbers; an endpoint that shares its name with something else is what `AllCovered` (section 3) is about |
| `NicAssumption` | `MCRelations` | numbers of virtual functions are natural; no bond is called "" or what stands for all bonds; the kernel lists the cores of a node in order, and a core is in one node | an empty name is how an entry for all bonds is read; `cpulist` is a file of sysfs |
| `PoolsAssumption` | `MCHost` | numbers of OSDs, placement groups and per cents are natural; a pool has at least one replica or chunk; a request has a quota, compression and overwrites or not | `BasePool.get_pgs` divides by the size, which is the number of replicas or k + m |

### The unit

The four safety properties speak of idle units and are not
inductive: a restart in progress has a service down, a write in progress leaves
agents outdated. `UnitInv` says what holds at every step instead, in named parts.
`Sequenced` ties each step to the hooks that reach it. `HalfOK` has at most one
service stopped and not started yet, and it is among those still to do;
`BaseInstalled` has no purge touch a base service.
`AgentsUp`, `AgentsDown` and `OvsKept` say for a pause or resume in progress which
services are done. `StaleKnown` is the heart: while a hook runs, an outdated agent
uses a file in `changed`, so the `restart` step that is computed from `changed`
has it, and while paused no agent runs that could be outdated. `FlagsOK` ties the
paused and upgrading flags to the series upgrade. The parts about services hold
until the first fault (`troubled`): that they do not hold afterwards is what
`after_retry` shows, and why they are stated so. Each action has a lemma; the
inductive step combines them.

`DeliveryInv`, with faults, says: the running hook has read the current inputs or
another writing hook is queued; what it has written is current or another is
queued; and an outdated file has a hook that runs, is queued, is in error, or has
put it off. `Delivered` is its idle case.

`ProvisionInv` says the like for packages, where it matters *which* hook is
pending: a feature that changed under the running hook has the hook that decides
it queued (`ViewFollowed`); a package that is missing has that hook queued, in
error, put off, or still before its apt commands (`MissingPending`); one nobody
needs has the hook that purges it (`SurplusPending`). Together with `UnitInv`
(a hook that ran without putting off has gone through its apt commands) this
is inductive, and `Provisioned` is its idle case.

### Hooks as lists of commands

`Packages`, `OvsBridges`, `AptFetch`, `CephPools` and `Services` model a hook by the
list of commands it has left. That list is computed from what the hook has read and
consumed from the front, while faults drop it and inputs change under it. A
property of what is there at the end of the list can be proved along it only by
saying, at every point, that **what is left in the list and what is done already
make up what is wanted**. `ScriptLemmas` has the vocabulary (`Occurs`, `Without`,
`LastOf`, `NeverAfter`) and the lemmas: what is in a concatenation and in the
flattening of the loops, in which order, and which command is the last of its
kind. They hold for lists of every length; the library's induction takes an
operator, so `Induction` states it with a set (the counterexamples have a least
element), and `Recursion` gives the fold of a list as a function.

* `PackagesInv`: the apt commands left are such as the settings the hook has read
  allow (`ScriptOK`); the last one of a hook installs, or purges, exactly what is
  still to be (`EndsInstalled`, `EndsPurged`), the first installs what config-changed
  and the api hook install (`InstallFirst`), `neutron_plugin_joined` run as a hook
  removes nothing where there is DHCP (`OnlyInstalls`). `Complete`: dependencies are
  there, and only dependencies are marked as automatic, which is why autoremove is
  harmless. `CaughtUp` has one clause per feature: it is served, or the hook that
  decides it is due or runs. That last part is what makes a settled unit right, and
  it is not one clause, because the api hook and config-changed each see to some
  packages of a feature and undo part of what the other did.
* `BridgesInv`: every command the config asks for is in the script or done (`Made`),
  and of the commands on a bridge's exporter the last one in the script sets the
  configured one, or there is none and it is set (`Exporting`): a run issues
  `disable_ipfix` before `enable_ipfix`, so that a command that occurs is not
  enough. `Remembered` and `Repeatable` come from the type invariant (a device that
  is bound is known) and from running all commands of a settled unit on their own
  result.
* `AptInv`: a source that has a key comes after it in the list (`Keyed`), of the
  pockets the last one wanted is or will be the one there is, nothing is missing
  unless a command was passed over, and a command has failed no more often than the
  lock was found taken (`TriesRight`), which is what bounds the retries.
* `ServicesInv` is the longest. Per service, `data_ready`, restart, ports and
  `save_ready`, or their counterparts, are pending or have had their effect
  (`Progress`). A hook can be killed at each of the calls, and three things must
  be true there that no later call repairs: a password that was used is the stored
  one (`Password`), a service that was told its data are ready is saved as ready or
  the hook is still before the call that saves it, with no other `data_ready` between
  (`ReadyKnown`), and `data_lost` comes before the loss is saved (`LostFirst`).
  `FilesMatch` has port files and Juju agree. `Settling` is what a hook that
  succeeded has reached and what the next one starts from, `Hurt` that only a hook
  that stops services succeeds with a torn ready file.
* `PoolsInv` goes by what is left of the operation that runs. `PoolPart`: a pool is
  created by the first command of the list and has what was asked for, or that is
  still in the list. `TierPart`: only a cache that takes writes has objects the pool
  has not, and clients write at any time; so the mode must have been left before the
  flush, which the commands that are left tell (`TierTails`). `DiskPart`: of the
  lists that `ensure_ceph_storage` can have left, those before the copy have
  the service stopped or the stop still in them (`Staged`), so that nothing is written
  where the next mount hides it; it holds until a mount or service command fails or
  the machine is restarted (`Clean`), which are the conditions of `DataKept`. The
  rounding of placement groups to a power of two is a recursion over halves:
  `NearestIs` has the solution for 1, 2, ... up to the number, by `Induction` with a
  set, and that it is at most the number and more than half of it; `GroupsFit` is then
  arithmetic.

### Cleanup, options, files, store, policy

`CleanupInv` says what is gone at each step of the action and that before a pause
nothing is missing; while patch ports are removed, those left on `br-int` are
still to do, and each has its peer: the action takes the end on `br-int` first, so
that whatever it leaves half way is not found by the next run, rather than found
without its peer.

`OptionsInv`: every `set` still in the script is followed by a restart; a change
not yet followed is in `changed`; a column the options ask for is set or still in
the script, unless a hook that will do it is due or was put off.

`FilesInv`: a file that is open is empty, and what will be written into it was
rendered from what still is so (the secret and the veth setting can not have changed
between rendering and writing, nor can the host name, unless a lookup has failed); the
veth setting in use is in the file or about to be; FQDNs are decided before the first
host name is written; a name other than the one decided means that a lookup has failed,
and a unit with short names has no other, failed or not; and a
file Open vSwitch was not started with means that a restart was lost, is due in the
running hook (whose `before` is what Open vSwitch runs with), or that there was no
file yet.

`KvInv` is a type: the proof shows step by step that what a process does to
`conn` and `disk` is a `Write`, `Commit` or `Abandon` of `UnitStore`. That the
connection reads what is committed when it is opened comes from `Open` itself.

`PolicyInv`: while files are written, `policy.d` is what is still to be removed or
the first files of the resource (`Writing`), names differ in a resource that was
accepted, and the success file tells the truth or `upgrade-charm`, which comes with
a new resource, is pending (`Truthful`).

### Hook environment and releases

`EnvInv`: a file that is whole is what the last process that saved left
(`FileTrue`), and the process that runs compares with exactly that (`LoadTrue`); a
file that is torn has its kill in `told`. `HistoryInv` is about the same store as
`Transactional`: of each key, the row with the highest number says what the key
has, in the connection and on disk, except for keys changed outside a hook
(`loose`).

`ReleaseInv`: what a process has read depends on how far it is, so its parts go by
the length of what it has left. `FilesBetween`: what the release file says is
between the installed release and the archive's. `UpgradeTrue` follows the upgrade
action step by step; `ActedTrue` says that a change in the store but not acted on
is in the process that is about to act, unless one was forgotten (a process that
died in between, which is where `OptionActed` fails).

### Relations

`BrokerInv`: an identifier is the request a relation shows or an older one
(`OneRequest`); success is answered for what was carried out (`Answered`);
`CompleteTrue` follows from these because an answer is looked up by identifier.
The theorem asks only that what a charm may want are sequences of operations.

`ApiInv`: a unit that shows itself ready, or is about to, has found itself so
(`Proven`), and whoever has, or believes the database initialised, comes after the
leader's step (`Initialised`). `HaInv`: what the relation asks for, and what
hacluster runs, is of one kind (VIPs or DNS) and has what the options of now ask
for as long as they have not changed since (`Follows`). `StatusInv`: the status is
the one `assess_status` gives for the unit of now, until something changes; the
work is in the lemma that this function, in the order in which the code lets the
checks overrule each other, gives the worst of its parts (`StateOf`). `EndsInv`:
a request, an answer and files that are of the configuration of now (`as_of`) are those
this configuration gives (`OfNow`, `InPlace`), and no link leads nowhere; of those of
earlier configurations nothing else need be known, since files are replaced and links
are only added. `ProxyInv`: what was rendered is what the code gives for what was
`seen`; `PortsLead` and `NothingMoves` are then arithmetic over what is seen and what
has become of it since.

`ServersReady`, `OneUnitsCredentials` and `SettingsFit` are about one pass of a loop
over the units, servers or relations there are, which may be any, so that all the
invariant says is their type. The work is in the loop. The models write it as a fold,
whose definition in the community modules is a recursion over sets of positions.
`Foldable` shows that such a recursion has a solution and `Stepwise` that it is the
sequence of what the loop has after 0, 1, 2, ... elements (`ServersAsked`,
`RelationsAsked`, `UnitsAsked`, `OptionsMerge`); what is true after each element then
follows by `Induction`. For messaging that is: no server asked so far was ready, or the
hosts are those of a ready one. For credentials: the keys are those of one unit, or no
unit asked so far was ready, if all speak one version; that the domain is still unset
is part of it, because a unit of version 3 leaves its domain for the next one.

`NicsRight` and `PortsRight` are proved in the same way. For bonds, the loop keeps a
table of modes: after each entry a bond has the mode of its own last one, and the entry
for all that of the last for all (`EntriesRead`, `LastEntryCounts`). For cores, the
loop puts ranges together that the kernel lists in order, so that the list ascends and
its cores are those of the ranges (`CoresInOrder`); the first so many of it are then so
many cores, and none of another node. Data ports are a lookup of each mapping by name
or by address (`MappedAsGiven`, `Resolved`); that a device comes after what it is made
of holds because the list of lower devices is put before that of the ports, whatever
order each of the two has (`LowerDevicesFirst`).

`TableAgrees` has finitely many settings, all of which the run goes through. Its proof
says why it holds: each file has one entry in the resource map, whichever feature
brings it in (`EntriesOfMap`), and its services with some features on are those with
all features on as far as these run (`RestartsAre`), so that one table will do. That
the one exception ends with the process that installs the package rests on
`determine_packages()` naming it whenever `resource_map()` wants its file
(`ShimBrought`).

The proofs found two definitions imprecise that TLC had passed: a `CASE` in
`ApiUnits` and one in `WorkloadStatus` left open what they give where two of their
arms apply. TLC takes the first; the code has the order, and now the definitions
have it.

### What stays with TLC

* Liveness under fairness (`Converges`, `StatusCorrected`): out of the prover's
  reach, and so is `ENABLED`.
* The refuted claims of section 3, of course: a counterexample is enough.

## 5. What is not modelled

* The text of rendered files (layout, order of sections) and `templates/`: no
  property depends on it beyond the values in `ConfigFiles` and the contexts.
  Characters of options: a mapping, list or mask is what it maps to.
* `sysctl`, tmpfiles, kernel modules, `lspci` and sysfs parsing.
* Of bridges: MTU requests and bond modes, DPDK before Open vSwitch 2.6, Linux
  bridge ports, and the functions of `contrib/network/ovs` this charm never calls.
  A host that runs as a container is in `ResourceMap` and `Packages` only. Hosts
  before Xenial are left out.
* Of packages: dkms packages; of sources: the text of deb lines; importing a key
  is one command.
* IPv6 addresses, the text of haproxy and Apache files, and charms that declare bindings
  for some of their endpoint types only (`Endpoints`); the
  operations in a Ceph request are opaque (`CephBroker`), OSD settings and keys
  are left out.
* Of charmhelpers: ssh migrations, vaultlocker, `SubordinateConfigContext`, block
  device helpers and the amulet test helpers. The charm uses none of them.
* The remote side of remote restarts (the nonce neutron-api sends is a content of
  a file in `UnitLifecycle`).

Oddities met while modelling that no property is about, each a single assignment
or list that a reader can judge without a model: assigning `dpdk-init` again does
not move it to the end of an `OrderedDict` (`neutron_ovs_utils.py:543`); a stored
PCI address is believed for ever, also after a card was replaced
(`neutron_ovs_context.py:394`); clearing `enable-dpdk` leaves the columns
(`neutron_ovs_utils.py:264`); the always-blacklisted keys of policyd are appended
as one tuple (`policyd.py:481`); from Rocky on nova-compute is asked to restart at
every config-changed (`neutron_ovs_hooks.py:146`).
