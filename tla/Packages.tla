------------------------------- MODULE Packages -------------------------------
(***************************************************************************)
(* The packages of a unit that is not paused: what config-changed,         *)
(* neutron-plugin-api-relation-changed and neutron-plugin-relation-joined  *)
(* install and purge, one apt command after the other, while the settings  *)
(* change.  apt removes what depends on a purged package, and autoremove   *)
(* what was installed only as a dependency; a failed command fails the     *)
(* hook, which Juju retries.                                               *)
(***************************************************************************)
EXTENDS ResourceMap, Sequences

CONSTANTS
    Releases,   \* releases a unit can be deployed with
    MaxInputs,  \* bound: changes of the settings
    MaxFaults   \* bound: failed apt commands

ASSUME PackagesAssumption ==
    Releases \subseteq DOMAIN Rank /\ MaxInputs \in Nat /\ MaxFaults \in Nat

VARIABLES
    conf,       \* the settings: charm config and relation data
    inputs,     \* how often they changed
    due,        \* hooks that have to run
    hook,       \* the hook that runs, or is in error (retried first)
    view,       \* the settings as the hook read them when it started
    script,     \* the apt commands it still has to run
    installed,  \* installed packages
    auto,       \* those installed only because another package depends on them
    faults      \* how many commands failed

vars == <<conf, inputs, due, hook, view, script, installed, auto, faults>>

Hooks == {"config-changed", "neutron-plugin-api-relation-changed",
          "neutron-plugin-relation-joined"}

\* Dependencies the comments of the source speak of (LP 1515008, LP 1819499).
Depends(p) ==
    CASE p = "neutron-l3-agent" -> {"neutron-metadata-agent", "keepalived"}
      [] p = "openvswitch-switch-dpdk" -> {"openvswitch-switch", "dpdk"}
      [] p \in {"neutron-openvswitch-agent", "neutron-plugin-openvswitch-agent"}
            -> {"openvswitch-switch"}
      [] OTHER -> {}
DependsOf(S) == UNION {Depends(p) : p \in S}

-----------------------------------------------------------------------------
\* apt-get install S: the dependencies come along.
Get(S) ==
    /\ installed' = installed \cup S \cup DependsOf(S)
    /\ auto' = (auto \cup (DependsOf(S) \ installed)) \ S

\* apt-get purge S takes what depends on S, too.
Drop(S) ==
    /\ installed' = {p \in installed : p \notin S /\ Depends(p) \cap S = {}}
    /\ auto' = auto \cap installed'

Orphans == {p \in auto : p \notin DependsOf(installed)}

\* The commands of the helpers, with the settings v.
install_packages(v)    == <<[cmd |-> "install", pkgs |-> determine_packages(v)]>>
install_l3ha_packages  == <<[cmd |-> "add", pkgs |-> L3HA_PACKAGES]>>
purge_packages(S, v)   == <<[cmd |-> "purge", pkgs |-> S \ determine_packages(v)]>>

\* Mutants: removes haproxy with the metadata agent; takes the metadata agent
\* from the l3 agent; does not install.
joinedHaproxy(v) ==
    IF v.container THEN <<>>
    ELSE IF enable_local_dhcp(v) THEN install_packages(v)
    ELSE purge_packages(DHCP_PACKAGES \cup (IF use_dvr(v) THEN {} ELSE METADATA_PACKAGES), v)
joinedDvrBlind(v) ==
    IF v.container THEN <<>>
    ELSE IF enable_local_dhcp(v) THEN install_packages(v)
    ELSE purge_packages(DHCP_PACKAGES \cup (METADATA_PACKAGES \ {"haproxy"}), v)
joinedNoInstall(v) ==
    IF v.container \/ enable_local_dhcp(v) THEN <<>>
    ELSE purge_packages(DHCP_PACKAGES \cup
                        IF use_dvr(v) THEN {} ELSE METADATA_PACKAGES \ {"haproxy"}, v)

neutron_plugin_joined(v) ==
    IF v.container THEN <<>>
    ELSE IF enable_local_dhcp(v) THEN install_packages(v)
    ELSE purge_packages(DHCP_PACKAGES \cup
                        IF use_dvr(v) THEN {} ELSE METADATA_PACKAGES \ {"haproxy"}, v)

config_changed(v) ==
    install_packages(v)
        \o (IF determine_purge_packages(v) # {}
            THEN purge_packages(determine_purge_packages(v), v) ELSE <<>>)
        \o neutron_plugin_joined(v)

neutron_plugin_api_changed(v) ==
    (IF use_dvr(v)
     THEN install_packages(v)
            \o (IF uses_l3ha_packages(v) THEN install_l3ha_packages ELSE <<>>)
     ELSE purge_packages(DVR_PACKAGES \cup L3HA_PACKAGES, v))
        \o neutron_plugin_joined(v)

Commands(h, v) ==
    CASE h = "config-changed" -> config_changed(v)
      [] h = "neutron-plugin-api-relation-changed" -> neutron_plugin_api_changed(v)
      [] OTHER -> neutron_plugin_joined(v)

-----------------------------------------------------------------------------
\* A hook that does not run has read nothing.
NoView  == [release |-> "none"]
Running == hook # "none" /\ view # NoView

\* A deployed unit: the charm config is known, no related application has sent
\* data yet, and the principal charm may have installed haproxy for itself.
Init ==
    /\ conf \in {c \in Settings :
                    /\ c.release \in Releases
                    /\ c.xenial /\ ~c.enable_dvr /\ ~c.enable_l3ha /\ ~c.enable_sriov
                    /\ ~c.enable_dpdk /\ ~c.enable_hardware_offload
                    /\ ~c.netplan_shim}  \* adds no service
    /\ inputs = 0
    /\ due = {"config-changed", "neutron-plugin-relation-joined"}
    /\ hook = "none"
    /\ view = NoView
    /\ script = <<>>
    /\ \E own \in SUBSET {"haproxy"} :
           LET S == determine_packages(conf)
           IN  /\ installed = S \cup DependsOf(S) \cup own
               /\ auto = DependsOf(S)
    /\ faults = 0

Change(option, h) ==
    /\ inputs < MaxInputs
    /\ inputs' = inputs + 1
    /\ conf' = [conf EXCEPT ![option] = ~conf[option]]
    /\ due' = due \cup {h}
    /\ UNCHANGED <<hook, view, script, installed, auto, faults>>

ChangeConfig ==
    \E option \in {"enable_local_dhcp_and_metadata", "enable_sriov"} :
        Change(option, "config-changed")
ChangeRelation ==
    \E option \in {"enable_dvr", "enable_l3ha"} :
        Change(option, "neutron-plugin-api-relation-changed")


\* Juju starts a queued hook, or the failed one again.
Begin(h) ==
    /\ IF hook = "none" THEN h \in due ELSE h = hook /\ view = NoView
    /\ hook' = h
    /\ due' = due \ {h}
    /\ view' = conf
    /\ script' = Commands(h, conf)
    /\ UNCHANGED <<conf, inputs, installed, auto, faults>>

Finish ==
    /\ Running
    /\ script = <<>>
    /\ hook' = "none"
    /\ view' = NoView
    /\ UNCHANGED <<conf, inputs, due, script, installed, auto, faults>>

\* Install what is missing; install_l3ha_packages does not ask what is missing.
Install ==
    /\ Running
    /\ script # <<>>
    /\ \/ Head(script).cmd = "install" /\ Get(Head(script).pkgs \ installed)
       \/ Head(script).cmd = "add" /\ Get(Head(script).pkgs)
    /\ script' = Tail(script)
    /\ UNCHANGED <<conf, inputs, due, hook, view, faults>>

\* Purge what is installed, and only then look for orphans.
Purge ==
    /\ Running
    /\ script # <<>>
    /\ Head(script).cmd = "purge"
    /\ LET present == Head(script).pkgs \cap installed
       IN  IF present = {}
           THEN script' = Tail(script) /\ UNCHANGED <<installed, auto>>
           ELSE /\ Drop(present)
                /\ script' = <<[cmd |-> "autoremove", pkgs |-> {}]>> \o Tail(script)
    /\ UNCHANGED <<conf, inputs, due, hook, view, faults>>

Autoremove ==
    /\ Running
    /\ script # <<>>
    /\ Head(script).cmd = "autoremove"
    /\ installed' = installed \ Orphans
    /\ auto' = auto \ Orphans
    /\ script' = Tail(script)
    /\ UNCHANGED <<conf, inputs, due, hook, view, faults>>

\* An apt command (fatal=True), or something after the last one, fails: the hook
\* is in error.
Fail ==
    /\ Running
    /\ faults < MaxFaults
    /\ faults' = faults + 1
    /\ view' = NoView
    /\ script' = <<>>
    /\ UNCHANGED <<conf, inputs, due, hook, installed, auto>>

Next ==
    \/ ChangeConfig
    \/ ChangeRelation
    \/ \E h \in Hooks : Begin(h)
    \/ Install
    \/ Purge
    \/ Autoremove
    \/ Fail
    \/ Finish

Spec == Init /\ [][Next]_vars

-----------------------------------------------------------------------------
\* Every service of the unit has its package (packages are named after their
\* service), and the agents of a feature that is off are gone, once the hooks
\* have caught up with the settings: whatever order the settings changed in,
\* whichever command failed and was retried, and although autoremove may take an
\* agent that another feature still needs.  (install_packages, purge_packages)
ServicesInstalled ==
    hook = "none" /\ due = {} =>
        /\ services(conf) \subseteq installed
        /\ {"neutron-l3-agent", "neutron-dhcp-agent", "neutron-metadata-agent"}
              \cap installed \subseteq services(conf)

\* No purge takes a package that the settings of the hook call for, by itself or
\* through a package it depends on.  (LP 1515008: the metadata agent and the l3
\* agent; LP 1819499: keepalived and the l3 agent)
PurgeSpares ==
    [][Purge => determine_packages(view) \cap installed \subseteq installed']_vars

\* haproxy is never removed: the principal charm may have use for it.  (LP 1832739)
HaproxyKept == []["haproxy" \in installed => "haproxy" \in installed']_vars
=============================================================================
