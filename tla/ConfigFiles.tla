------------------------------ MODULE ConfigFiles ------------------------------
(***************************************************************************)
(* Files and data the charm writes once and then has to keep: the shared   *)
(* secret, ovs_use_veth in dhcp_agent.ini, the decision to register agents *)
(* by FQDN, and the options Open vSwitch was started with.  A file is      *)
(* rendered, truncated and then written, and the hook can be killed before *)
(* and after each; it is retried from its beginning.  Relation data of a   *)
(* hook counts when the hook succeeds.                                     *)
(***************************************************************************)
EXTENDS Naturals, Sequences

CONSTANTS
    Missing,             \* a file that is not there, or a key that is not set
    Empty,               \* a file that is there and empty
    MaxKills, MaxInputs  \* bounds: killed hooks, changes of the inputs

\* No content is taken for a missing or an empty file.
ASSUME ContentsAssumption ==
    /\ Missing # Empty
    /\ {Missing, Empty} \cap (Nat \cup {"True", "False"} \cup
            [style : {"old", "new"}, options : 1..2, trigger : 0..2]) = {}

VARIABLES
    given,    \* config, the restart-trigger of the relations and the package's release
    changes,  \* how often they have changed
    files,    \* what is on disk
    use_fqdn, \* USE_FQDN_KEY of the kv store
    plugin,   \* neutron-plugin: what the principal charm knows
    ovs,      \* the contents of OVS_DEFAULT that Open vSwitch was started with
    task,     \* the hook that runs
    retry,    \* the hook to be retried, or NoHook
    kills,
    memory    \* history: what has been used once, and what a kill has spoilt

file_vars == <<given, changes, files, use_fqdn, plugin, ovs, task, retry, kills, memory>>

NEUTRON_CONF == "neutron.conf"
OVS_DEFAULT  == "openvswitch-switch"
DHCP_AGENT   == "dhcp_agent.ini"
METADATA     == "metadata_agent.ini"
SHARED_SECRET == "secret.txt"

NoHook == "none"
NoFile == "no file"

HookNames == {"install", "upgrade-charm", "config-changed", "neutron-control"}

\* register_configs: the files of the features that are on, in order.
Registered(in) ==
    <<NEUTRON_CONF, OVS_DEFAULT>> \o (IF in.local THEN <<METADATA, DHCP_AGENT>> ELSE <<>>)

-----------------------------------------------------------------------------
\* get_existing_ovs_use_veth and parse_ovs_use_veth.
existing_veth == IF files[DHCP_AGENT] \in {Missing, Empty} THEN "None" ELSE files[DHCP_AGENT]
get_ovs_use_veth ==
    IF existing_veth # "None" THEN existing_veth
    ELSE IF given.veth = "None" THEN "False" ELSE given.veth

\* HostInfoContext and the template: the resolver is asked each time, and a host that
\* it cannot tell the FQDN of goes by its short name.  Releases before Stein have no host.
HostName(resolves) == IF use_fqdn /\ resolves THEN "fqdn" ELSE "short"
HostOfConf(resolves) == IF given.release = "stein" THEN HostName(resolves) ELSE "short"

\* OSConfigRenderer.render, the template of the release filled with its contexts.
render(f, resolves) ==
    CASE f = NEUTRON_CONF -> [host |-> HostOfConf(resolves), trigger |-> given.trigger]
      [] f = OVS_DEFAULT -> [style |-> "new", options |-> given.options, trigger |-> given.trigger]
      [] f = DHCP_AGENT -> get_ovs_use_veth
      [] f = METADATA -> files[SHARED_SECRET]

-----------------------------------------------------------------------------
\* OVS_DEFAULT says what Open vSwitch runs with, in whichever style.
SaysTheSame(o, f) == f # Empty /\ [f EXCEPT !.style = "new"] = [o EXCEPT !.style = "new"]

Idle == [hook |-> NoHook, left |-> <<>>, file |-> NoFile, text |-> Empty,
         before |-> Missing, restart |-> FALSE, join |-> FALSE]

\* A unit that is being installed, or one that an old charm has deployed, with
\* the file OVS_DEFAULT of that charm and the veth setting it always made.
FilesInit ==
    /\ given \in [release : {"rocky", "stein"}, veth : {"None"}, local : BOOLEAN,
                   options : {1}, trigger : {1}]
    /\ changes = 0
    /\ use_fqdn = FALSE
    /\ plugin = [secret |-> Missing, host |-> "unset"]
    /\ task = Idle
    /\ kills = 0
    /\ \/ /\ files = [f \in {NEUTRON_CONF, OVS_DEFAULT, DHCP_AGENT, METADATA, SHARED_SECRET}
                        |-> Missing]
          /\ ovs = [style |-> "new", options |-> 1, trigger |-> 0]
          /\ retry = "install"
       \/ /\ given.release = "rocky"
          /\ ovs = [style |-> "old", options |-> 1, trigger |-> 1]
          /\ files = [f \in {NEUTRON_CONF, OVS_DEFAULT, DHCP_AGENT, METADATA, SHARED_SECRET} |->
                        CASE f = OVS_DEFAULT -> ovs
                          [] f = DHCP_AGENT /\ given.local -> "True"
                          [] f = NEUTRON_CONF -> [host |-> "short", trigger |-> 1]
                          [] OTHER -> Missing]
          /\ retry = "upgrade-charm"
    /\ memory = [secrets |-> 0, torn |-> FALSE, hosts |-> {}, unresolved |-> FALSE,
                 lost |-> FALSE, outage |-> FALSE,
                 veth |-> IF files[DHCP_AGENT] = Missing THEN "None" ELSE files[DHCP_AGENT]]

\* What the operator, the principal charm and the package archive do.
Change ==
    /\ task.hook = NoHook
    /\ changes < MaxInputs
    /\ changes' = changes + 1
    /\ \/ given' = [given EXCEPT !.release = "stein"]
       \/ \E v \in {"True", "False"} : given' = [given EXCEPT !.veth = v]
       \/ given' = [given EXCEPT !.local = ~@]
       \/ given' = [given EXCEPT !.options = 3 - @]
       \/ given' = [given EXCEPT !.trigger = 3 - @]
    /\ UNCHANGED <<files, use_fqdn, plugin, ovs, task, retry, kills, memory>>

-----------------------------------------------------------------------------
\* install: packages, then the decision on FQDNs, which is flushed at once.  The
\* first config-changed follows.
install ==
    /\ task.hook = NoHook
    /\ retry = "install"
    /\ use_fqdn' = (given.release = "stein")
    /\ retry' = "config-changed"
    /\ UNCHANGED <<given, changes, files, plugin, ovs, task, kills, memory>>

\* Mutant: the file of the old charm is left to config-changed.
upgrade_charm_skipping ==
    /\ task.hook = NoHook
    /\ retry = "upgrade-charm"
    /\ task' = [Idle EXCEPT !.hook = "upgrade-charm"]
    /\ UNCHANGED <<given, changes, files, use_fqdn, plugin, ovs, retry, kills, memory>>

\* upgrade-charm: rewrites OVS_DEFAULT unless the new charm has written it.
upgrade_charm ==
    /\ task.hook = NoHook
    /\ retry = "upgrade-charm"
    /\ LET migrated == files[OVS_DEFAULT] # Empty /\ files[OVS_DEFAULT].style = "new"
       IN task' = [Idle EXCEPT !.hook = "upgrade-charm",
                               !.left = IF migrated THEN <<>> ELSE <<OVS_DEFAULT>>]
    /\ UNCHANGED <<given, changes, files, use_fqdn, plugin, ovs, retry, kills, memory>>

\* config-changed and neutron-plugin-relation-changed write all files, restart
\* Open vSwitch and join the principal; neutron-control only writes and restarts.
config_changed(h) ==
    /\ task.hook = NoHook
    /\ h \in {"config-changed", "neutron-control"}
    /\ retry \in {NoHook, h}
    /\ task' = [Idle EXCEPT !.hook = h, !.left = Registered(given),
                            !.before = files[OVS_DEFAULT],
                            !.restart = TRUE, !.join = (h = "config-changed")]
    /\ UNCHANGED <<given, changes, files, use_fqdn, plugin, ovs, retry, kills, memory>>

\* write: the next file is rendered and opened, which truncates it; rendering
\* metadata_agent.ini, or joining, creates the secret.
NeedsSecret ==
    /\ files[SHARED_SECRET] = Missing
    /\ \/ task.left # <<>> /\ Head(task.left) = METADATA
       \/ task.left = <<>> /\ ~task.restart /\ task.join /\ given.local
NewSecret == memory.secrets + 1

get_shared_secret ==
    /\ task.hook # NoHook /\ task.file = NoFile
    /\ NeedsSecret
    /\ files' = [files EXCEPT ![SHARED_SECRET] = Empty]
    /\ task' = [task EXCEPT !.file = SHARED_SECRET, !.text = NewSecret]
    /\ memory' = [memory EXCEPT !.secrets = NewSecret]
    /\ UNCHANGED <<given, changes, use_fqdn, plugin, ovs, retry, kills>>

OpenFile ==
    /\ task.file = NoFile
    /\ task.left # <<>>
    /\ ~NeedsSecret
    /\ \E resolves \in BOOLEAN :
         LET f == Head(task.left)
         IN /\ files' = [files EXCEPT ![f] = Empty]
            /\ task' = [task EXCEPT !.left = Tail(@), !.file = f, !.text = render(f, resolves)]
            /\ memory' = [memory EXCEPT
                             !.unresolved = @ \/ (f = NEUTRON_CONF /\ use_fqdn /\ ~resolves)]
    /\ UNCHANGED <<given, changes, use_fqdn, plugin, ovs, retry, kills>>

WriteFile ==
    /\ task.file # NoFile
    /\ files' = [files EXCEPT ![task.file] = task.text]
    /\ task' = [task EXCEPT !.file = NoFile]
    /\ memory' = [memory EXCEPT
                    !.veth = IF task.file = DHCP_AGENT /\ @ = "None" THEN task.text ELSE @,
                    !.hosts = IF task.file = NEUTRON_CONF THEN @ \cup {task.text.host} ELSE @]
    /\ UNCHANGED <<given, changes, use_fqdn, plugin, ovs, retry, kills>>

\* restart_on_change: the file is not what it was before write_all.
RestartOvs ==
    /\ task.file = NoFile /\ task.left = <<>>
    /\ task.restart
    /\ task' = [task EXCEPT !.restart = FALSE]
    /\ ovs' = IF files[OVS_DEFAULT] # task.before THEN files[OVS_DEFAULT] ELSE ovs
    /\ memory' = [memory EXCEPT
                    !.lost = IF files[OVS_DEFAULT] # task.before THEN FALSE ELSE @,
                    !.outage = \/ @
                               \/ /\ files[OVS_DEFAULT] # task.before
                                  /\ task.before # Empty /\ ~memory.lost
                                  /\ SaysTheSame(ovs, files[OVS_DEFAULT])]
    /\ UNCHANGED <<given, changes, files, use_fqdn, plugin, retry, kills>>

\* The end of a hook that succeeds.  neutron_plugin_joined purges the packages of
\* features that are off, with their files, and sends the secret and the host, which
\* it looks up once more.
Succeed == \E resolves \in BOOLEAN :
    /\ task.hook # NoHook /\ task.file = NoFile /\ task.left = <<>> /\ ~task.restart
    /\ ~NeedsSecret
    /\ IF task.join
       THEN /\ plugin' = [secret |-> IF ~given.local \/ files[SHARED_SECRET] = Empty THEN Missing
                                     ELSE files[SHARED_SECRET],
                          host |-> IF use_fqdn THEN HostName(resolves) ELSE "unset"]
            /\ files' = [f \in DOMAIN files |->
                           IF f \in {METADATA, DHCP_AGENT} /\ ~given.local
                           THEN Missing ELSE files[f]]
       ELSE UNCHANGED <<plugin, files>>
    /\ memory' = [memory EXCEPT
                    !.veth = IF task.join /\ ~given.local THEN "None" ELSE @,
                    !.torn = @ /\ (task.join => given.local),
                    !.unresolved = @ \/ (task.join /\ use_fqdn /\ ~resolves),
                    !.lost = \/ @
                             \/ /\ task.hook = "upgrade-charm"
                                /\ ~SaysTheSame(ovs, files[OVS_DEFAULT])]
    /\ task' = Idle
    /\ retry' = IF task.hook \in {"upgrade-charm", "install"} THEN "config-changed" ELSE NoHook
    /\ UNCHANGED <<given, changes, use_fqdn, ovs, kills>>

\* A kill loses what was not written yet, and a restart that was due.
FilesKill ==
    /\ task.hook # NoHook
    /\ kills < MaxKills
    /\ kills' = kills + 1
    /\ retry' = task.hook
    /\ memory' = [memory EXCEPT !.torn = @ \/ task.file = DHCP_AGENT,
                                !.lost = @ \/ task.restart]
    /\ task' = Idle
    /\ UNCHANGED <<given, changes, files, use_fqdn, plugin, ovs>>

FilesNext ==
    \/ Change
    \/ install \/ upgrade_charm
    \/ \E h \in HookNames : config_changed(h)
    \/ get_shared_secret \/ OpenFile \/ WriteFile \/ RestartOvs \/ Succeed
    \/ FilesKill

FilesSpec == FilesInit /\ [][FilesNext]_file_vars

-----------------------------------------------------------------------------
\* The metadata agent and the principal never hold two different secrets, and
\* neither holds one that a later hook could not read again, whatever hook was
\* killed where.  (get_shared_secret, SharedSecretContext)
OneSecret ==
    \A s \in {files[METADATA], plugin.secret} :
        s \in {Missing, Empty} \/ s = files[SHARED_SECRET]

\* ovs_use_veth never changes once it is written, whatever the config says and
\* whichever charm has written it, as long as the file itself is not lost: by a
\* kill that leaves it truncated or with its package.  (get_ovs_use_veth)
VethKept ==
    (memory.veth # "None" /\ ~memory.torn /\ files[DHCP_AGENT] \notin {Missing, Empty}) =>
        files[DHCP_AGENT] = memory.veth

\* Agents keep the host name they have registered with, over upgrades of the charm
\* and of OpenStack, and the principal is told the same one, as long as no hook has
\* asked the resolver in vain.  A unit deployed with short names keeps them whatever
\* the resolver says.  (use_fqdn_hint, HostInfoContext, install)
HostKept ==
    /\ ~memory.unresolved =>
          /\ \A h, i \in memory.hosts : h = i
          /\ plugin.host # "short"
          /\ plugin.host = "fqdn" => memory.hosts = {"fqdn"}
    /\ ~use_fqdn => memory.hosts \subseteq {"short"} /\ plugin.host = "unset"

\* Open vSwitch is not restarted for a file that says what it runs with, least of
\* all by a charm upgrade (LP 1712444); and it runs with what the file says unless
\* a restart was lost.  (upgrade_charm, restart_on_change)
RestartedForCause ==
    /\ ~memory.outage
    /\ task.hook = NoHook /\ retry = NoHook /\ ~memory.lost =>
           SaysTheSame(ovs, files[OVS_DEFAULT])

\* What is settled once is kept: secret, veth and, while the resolver answers, the host
\* name; and a restart has a cause.
\* (get_shared_secret, ConfigFiles)
FilesKept == OneSecret /\ VethKept /\ HostKept /\ RestartedForCause

-----------------------------------------------------------------------------
\* What the documentation says and the code does not do.

\* context.py:2304 "The ovs_use_veth setting is considered immutable": a hook that
\* is killed while it writes dhcp_agent.ini forgets the setting.
VethImmutable ==
    (memory.veth # "None" /\ files[DHCP_AGENT] \notin {Missing, Empty}) =>
        files[DHCP_AGENT] = memory.veth

\* context.py:2245 "the use of FQDN vs. shortname may be a deploy-time decision, i.e.
\* behaviour can not change": a hook during an outage of the resolver writes the short
\* name, and the next hook the FQDN again.
HostNeverChanges == \A h, i \in memory.hosts : h = i

\* neutron_ovs_context.py:550: no hook ends with a secret file without a secret.
SecretNeverEmpty ==
    (task.hook = NoHook /\ retry = NoHook) => files[SHARED_SECRET] # Empty
=============================================================================
