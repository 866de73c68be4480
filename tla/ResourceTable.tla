---------------------------- MODULE ResourceTable ----------------------------
(***************************************************************************)
(* ResourceMap refines the table UnitLifecycle is built on: for every      *)
(* combination of settings, the services, the managed files and the        *)
(* services restarted for each file are those of one fixed table over the  *)
(* features that are on.  A process computes its map when it starts, so    *)
(* what it installs counts only for the next one.                          *)
(***************************************************************************)
EXTENDS ResourceMap

VARIABLES
    conf,   \* settings of the hook process, on Xenial or later, Mitaka or later
    shim,   \* sriov-netplan-shim is installed
    asked,  \* some process has installed packages with SR-IOV or offload on
    before  \* it did so before this process started

table_vars == <<conf, shim, asked, before>>

AllOn == [release |-> "stein", xenial |-> TRUE, container |-> FALSE,
          enable_dvr |-> TRUE, enable_l3ha |-> TRUE,
          enable_local_dhcp_and_metadata |-> TRUE, enable_sriov |-> TRUE,
          enable_dpdk |-> TRUE, enable_hardware_offload |-> TRUE, netplan_shim |-> TRUE]

TableNeeds ==
    [s \in services(AllOn) |->
        CASE s = "neutron-l3-agent"       -> {"dvr"}
          [] s = "neutron-metadata-agent" -> {"dvr", "dhcp"}
          [] s = "neutron-dhcp-agent"     -> {"dhcp"}
          [] s = "neutron-sriov-agent"    -> {"sriov"}
          [] s = "dpdk"                   -> {"dpdk"}
          [] OTHER                        -> {}]
TableFileNeeds ==
    [f \in DOMAIN restart_map(AllOn) |->
        CASE f \in {"NEUTRON_L3_AGENT_CONF", "NEUTRON_FWAAS_CONF"} -> {"dvr"}
          [] f = "NEUTRON_METADATA_AGENT_CONF"                     -> {"dvr", "dhcp"}
          [] f \in {"NEUTRON_DHCP_AGENT_CONF", "NEUTRON_DNSMASQ_CONF"} -> {"dhcp"}
          [] f = "NEUTRON_SRIOV_AGENT_CONF"                        -> {"sriov"}
          [] f = "SRIOV_NETPLAN_SHIM_CONF"                         -> {"sriov", "hw-offload"}
          [] f = "DPDK_INTERFACES"                                 -> {"dpdk"}
          [] OTHER                                                 -> {}]

Table == INSTANCE UnitMaps WITH
    Files <- DOMAIN restart_map(AllOn),
    Services <- services(AllOn),
    Features <- {"dvr", "dhcp", "sriov", "dpdk", "hw-offload"},
    Users <- restart_map(AllOn),
    Needs <- TableNeeds,
    FileNeeds <- TableFileNeeds

\* The features that the settings switch on.
On(c) ==
    (IF use_dvr(c) THEN {"dvr"} ELSE {})
        \cup (IF enable_local_dhcp(c) THEN {"dhcp"} ELSE {})
        \cup (IF enable_sriov(c) THEN {"sriov"} ELSE {})
        \cup (IF use_dpdk(c) THEN {"dpdk"} ELSE {})
        \cup (IF use_hw_offload(c) THEN {"hw-offload"} ELSE {})

NeedsShim(c) == enable_sriov(c) \/ use_hw_offload(c)

\* The first process of a unit.
Init ==
    /\ conf \in {c \in Settings : c.xenial /\ AtLeast(c, "mitaka") /\ ~c.netplan_shim}
    /\ shim = FALSE
    /\ asked = FALSE
    /\ before = FALSE

\* The next process starts, an option having changed or not: CONFIGS and the restart
\* maps of the decorators are made now.
Import ==
    /\ \/ conf' = [conf EXCEPT !.netplan_shim = shim]
       \/ \E option \in DOMAIN conf \ {"release", "xenial", "netplan_shim"} :
             conf' = [conf EXCEPT !.netplan_shim = shim, ![option] = ~@]
    /\ before' = asked
    /\ UNCHANGED <<shim, asked>>

\* The hook calls install_packages(); no hook purges the package again.
install_packages ==
    /\ shim' = (shim \/ "sriov-netplan-shim" \in determine_packages(conf))
    /\ asked' = (asked \/ NeedsShim(conf))
    /\ UNCHANGED <<conf, before>>

Next == Import \/ install_packages

Spec == Init /\ [][Next]_table_vars

-----------------------------------------------------------------------------
\* The file a process cannot register.
LeftOut(c) == IF c.netplan_shim THEN {} ELSE {"SRIOV_NETPLAN_SHIM_CONF"}

\* What resource_map, restart_map and services compute from the settings is what
\* the table gives for the features that are on, but for the one file; and every agent
\* of the unit, and no other service, is restarted for neutron.conf.
MapsAgree ==
    /\ services(conf) = Table!Managed(On(conf))
    /\ DOMAIN restart_map(conf) = Table!Registered(On(conf)) \ LeftOut(conf)
    /\ \A f \in DOMAIN restart_map(conf) :
           restart_map(conf)[f] = Table!RestartMap(f, On(conf))
    /\ Table!FilesOwned
    /\ restart_map(conf)["NEUTRON_CONF"] = services(conf) \ {"openvswitch-switch", "dpdk"}

\* That file is left out by the process that installs the package, and by none after it.
LeftOutOnce == before /\ NeedsShim(conf) => "SRIOV_NETPLAN_SHIM_CONF" \in DOMAIN restart_map(conf)

\* The table is the code's, in every process.  (resource_map, determine_packages)
TableFits == MapsAgree /\ LeftOutOnce
=============================================================================
