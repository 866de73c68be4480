----------------------------- MODULE ResourceMap -----------------------------
(***************************************************************************)
(* hooks/neutron_ovs_utils.py: the files, services and packages of a unit, *)
(* computed from its settings: a record of the OpenStack release, the      *)
(* host, the charm config and the relation data.                           *)
(***************************************************************************)
EXTENDS Naturals

\* Releases at which the code branches.
Rank == [liberty |-> 0, mitaka |-> 1, newton |-> 2, rocky |-> 3, stein |-> 4]
AtLeast(c, release) == Rank[c.release] >= Rank[release]

Settings ==
    [release: DOMAIN Rank, xenial: BOOLEAN, container: BOOLEAN,
     enable_dvr: BOOLEAN, enable_l3ha: BOOLEAN,
     enable_local_dhcp_and_metadata: BOOLEAN, enable_sriov: BOOLEAN,
     enable_dpdk: BOOLEAN, enable_hardware_offload: BOOLEAN,
     netplan_shim: BOOLEAN]  \* sriov_netplan_shim was there when the process started

use_dvr(c)           == ~c.container /\ c.enable_dvr
use_l3ha(c)          == ~c.container /\ c.enable_l3ha
enable_local_dhcp(c) == ~c.container /\ c.enable_local_dhcp_and_metadata
use_dpdk(c)          == AtLeast(c, "mitaka") /\ c.enable_dpdk
use_hw_offload(c)    == AtLeast(c, "stein") /\ c.enable_hardware_offload
enable_sriov(c)      == c.xenial /\ c.enable_sriov

-----------------------------------------------------------------------------
\* Files are named after the constants of the source.
PluginAgent(c) == IF AtLeast(c, "mitaka") THEN "neutron-openvswitch-agent"
                                          ELSE "neutron-plugin-openvswitch-agent"
SriovAgent(c)  == IF AtLeast(c, "mitaka") THEN "neutron-sriov-agent"
                                          ELSE "neutron-plugin-sriov-agent"

\* Maps are sets of <<file, services>>.
BASE_RESOURCE_MAP(c) ==
    {<<IF AtLeast(c, "mitaka") THEN "OVS_CONF" ELSE "ML2_CONF", {PluginAgent(c)}>>,
     <<"OVS_DEFAULT", {"openvswitch-switch"}>>}
        \cup (IF use_dpdk(c)
              THEN {<<"DPDK_INTERFACES", {"dpdk", "openvswitch-switch"}>>} ELSE {})
        \cup (IF ~c.xenial THEN {<<"PHY_NIC_MTU_CONF", {"os-charm-phy-nic-mtu"}>>} ELSE {})
METADATA_RESOURCE_MAP ==
    {<<"NEUTRON_METADATA_AGENT_CONF", {"neutron-metadata-agent"}>>}
DHCP_RESOURCE_MAP ==
    {"NEUTRON_DHCP_AGENT_CONF", "NEUTRON_DNSMASQ_CONF"} \X {{"neutron-dhcp-agent"}}
DVR_RESOURCE_MAP(c) ==
    ({"NEUTRON_L3_AGENT_CONF", "NEUTRON_FWAAS_CONF"} \cup
        IF c.xenial THEN {} ELSE {"EXT_PORT_CONF"}) \X {{"neutron-l3-agent"}}
SRIOV_RESOURCE_MAP(c) == {<<"NEUTRON_SRIOV_AGENT_CONF", {SriovAgent(c)}>>}

\* The services of neutron.conf: every agent that runs.
NeutronConfServices(c) ==
    {PluginAgent(c)}
        \cup (IF use_dvr(c) THEN {"neutron-metadata-agent", "neutron-l3-agent"} ELSE {})
        \cup (IF enable_local_dhcp(c)
              THEN {"neutron-metadata-agent", "neutron-dhcp-agent"} ELSE {})
        \cup (IF enable_sriov(c) THEN {SriovAgent(c)} ELSE {})

\* SRIOVContext needs a module of the sriov-netplan-shim package: in a process that
\* could not import it, the NameError leaves the file out.  (An sriov-numvfs of no
\* known mode raises out of resource_map, and with it ends the process: NicSettings.)
resource_map(c) ==
    {<<"NEUTRON_CONF", NeutronConfServices(c)>>}
        \cup BASE_RESOURCE_MAP(c)
        \cup (IF use_dvr(c) THEN DVR_RESOURCE_MAP(c) \cup METADATA_RESOURCE_MAP ELSE {})
        \cup (IF enable_local_dhcp(c)
              THEN METADATA_RESOURCE_MAP \cup DHCP_RESOURCE_MAP ELSE {})
        \cup (IF enable_sriov(c) THEN SRIOV_RESOURCE_MAP(c) ELSE {})
        \cup (IF (enable_sriov(c) \/ use_hw_offload(c)) /\ c.netplan_shim
              THEN {<<"SRIOV_NETPLAN_SHIM_CONF", {}>>} ELSE {})

restart_map(c) ==
    [f \in {e[1] : e \in resource_map(c)} |->
        UNION {e[2] : e \in {m \in resource_map(c) : m[1] = f}}]
services(c) == (UNION {e[2] : e \in resource_map(c)}) \ {"os-charm-phy-nic-mtu"}

-----------------------------------------------------------------------------
DVR_PACKAGES      == {"neutron-l3-agent", "libnetfilter-log1"}
DHCP_PACKAGES     == {"neutron-dhcp-agent"}
METADATA_PACKAGES == {"neutron-metadata-agent", "haproxy"}
L3HA_PACKAGES     == {"keepalived"}
PY3_PACKAGES      == {"python3-neutron", "python3-zmq"}
PURGE_PACKAGES    == {"python-neutron", "python-neutron-fwaas"}

uses_l3ha_packages(c) == use_l3ha(c) /\ AtLeast(c, "newton")

\* Mutant: the shim comes with the SR-IOV agent only.
determine_packagesNoShim(c) ==
    {PluginAgent(c)}
        \cup (IF use_dvr(c)
              THEN DVR_PACKAGES
                     \cup (IF uses_l3ha_packages(c) THEN L3HA_PACKAGES ELSE {})
                     \cup (IF AtLeast(c, "rocky") THEN {"python3-neutron-fwaas"} ELSE {})
              ELSE {})
        \cup (IF enable_local_dhcp(c) THEN DHCP_PACKAGES \cup METADATA_PACKAGES ELSE {})
        \cup (IF use_dpdk(c) THEN {"openvswitch-switch-dpdk"} ELSE {})
        \cup (IF enable_sriov(c) THEN {SriovAgent(c), "sriov-netplan-shim"} ELSE {})
        \cup (IF use_hw_offload(c) THEN {"mlnx-switchdev-mode"} ELSE {})
        \cup (IF AtLeast(c, "rocky") THEN PY3_PACKAGES ELSE {})

determine_packages(c) ==
    {PluginAgent(c)}
        \cup (IF use_dvr(c)
              THEN DVR_PACKAGES
                     \cup (IF uses_l3ha_packages(c) THEN L3HA_PACKAGES ELSE {})
                     \cup (IF AtLeast(c, "rocky") THEN {"python3-neutron-fwaas"} ELSE {})
              ELSE {})
        \cup (IF enable_local_dhcp(c) THEN DHCP_PACKAGES \cup METADATA_PACKAGES ELSE {})
        \cup (IF use_dpdk(c) THEN {"openvswitch-switch-dpdk"} ELSE {})
        \cup (IF enable_sriov(c) THEN {SriovAgent(c), "sriov-netplan-shim"} ELSE {})
        \cup (IF use_hw_offload(c) THEN {"mlnx-switchdev-mode", "sriov-netplan-shim"} ELSE {})
        \cup (IF AtLeast(c, "rocky") THEN PY3_PACKAGES ELSE {})

determine_purge_packages(c) == IF AtLeast(c, "rocky") THEN PURGE_PACKAGES ELSE {}
=============================================================================
