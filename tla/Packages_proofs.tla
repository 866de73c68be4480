--------------------------- MODULE Packages_proofs ---------------------------
(***************************************************************************)
(* The packages of a unit, for every release it can be deployed with and   *)
(* any number of changes and failed commands.  A hook is followed from its *)
(* first command to its last: what its remaining commands will still do    *)
(* makes up for what is not there yet.                                     *)
(***************************************************************************)
EXTENDS Packages, SequenceTheorems, TLAPS

API == "neutron-plugin-api-relation-changed"

\* The settings of a unit of this model: those that change are the charm's
\* booleans, and DPDK and hardware offload are off.
Conf == {c \in Settings : c.xenial /\ ~c.enable_dpdk /\ ~c.enable_hardware_offload}
Names == {"neutron-openvswitch-agent", "neutron-plugin-openvswitch-agent",
          "neutron-sriov-agent", "neutron-plugin-sriov-agent", "neutron-l3-agent",
          "libnetfilter-log1", "keepalived", "python3-neutron-fwaas", "neutron-dhcp-agent",
          "neutron-metadata-agent", "haproxy", "sriov-netplan-shim", "python3-neutron",
          "python3-zmq", "python-neutron", "python-neutron-fwaas"}
Command == [cmd : {"install", "add", "purge", "autoremove"}, pkgs : SUBSET Names]

TypeOK ==
    /\ conf \in Conf
    /\ due \subseteq Hooks
    /\ hook \in Hooks \cup {"none"}
    /\ \/ view = NoView /\ script = <<>>
       \/ /\ view \in Conf /\ hook # "none"
          /\ view.release = conf.release /\ view.container = conf.container
    /\ script \in Seq(Command)

\* What the running hook has read is current, or the hook for it is due.
ViewCurrent ==
    view # NoView =>
        /\ \/ "config-changed" \in due
           \/ /\ view.enable_local_dhcp_and_metadata = conf.enable_local_dhcp_and_metadata
              /\ view.enable_sriov = conf.enable_sriov
        /\ \/ API \in due
           \/ view.enable_dvr = conf.enable_dvr /\ view.enable_l3ha = conf.enable_l3ha

-----------------------------------------------------------------------------
\* What a purge may name: nothing the settings call for, nor what that depends on.
Removable == DHCP_PACKAGES \cup {"neutron-metadata-agent"} \cup DVR_PACKAGES
                \cup L3HA_PACKAGES \cup PURGE_PACKAGES
Harmless(c, v) ==
    /\ c.pkgs \subseteq Removable
    /\ c.pkgs \cap determine_packages(v) = {}
    /\ use_dvr(v) => c.pkgs \cap {"neutron-metadata-agent", "keepalived"} = {}
Allowed(c, v) ==
    /\ c.cmd = "install" => c.pkgs = determine_packages(v)
    /\ c.cmd = "add" => c.pkgs = L3HA_PACKAGES /\ use_dvr(v)
    /\ c.cmd = "purge" => Harmless(c, v)
ScriptOK == \A i \in 1..Len(script) : Allowed(script[i], view)

\* What neutron_plugin_joined purges.
Unused(v) == (DHCP_PACKAGES \cup IF use_dvr(v) THEN {} ELSE {"neutron-metadata-agent"})
                 \ determine_packages(v)

LastIs(cmd, S) == script # <<>> /\ script[Len(script)] = [cmd |-> cmd, pkgs |-> S]
FirstIs(cmd) == script # <<>> /\ script[1].cmd = cmd

\* A hook ends with neutron_plugin_joined, whose command is still to come or done.
EndsInstalled ==
    view # NoView /\ enable_local_dhcp(view) =>
        \/ LastIs("install", determine_packages(view))
        \/ script = <<>> /\ determine_packages(view) \subseteq installed
EndsPurged ==
    view # NoView /\ ~view.container /\ ~enable_local_dhcp(view) =>
        \/ LastIs("purge", Unused(view))
        \/ /\ Unused(view) \cap installed = {}
           /\ \A i \in 1..Len(script) : script[i].cmd = "autoremove"

\* config-changed, and the api hook with DVR, begin with an install; the api hook
\* without DVR begins with the purge of the l3 agent.
Installing == hook = "config-changed" \/ (hook = API /\ use_dvr(view))
InstallFirst ==
    view # NoView /\ ~enable_local_dhcp(view) /\ Installing =>
        FirstIs("install") \/ determine_packages(view) \subseteq installed
L3Purged ==
    view # NoView /\ hook = API /\ ~use_dvr(view) =>
        \/ FirstIs("purge") /\ "neutron-l3-agent" \in script[1].pkgs
        \/ "neutron-l3-agent" \notin installed

\* neutron-plugin-relation-joined removes nothing where there is DHCP.
JOINED == "neutron-plugin-relation-joined"
OnlyInstalls ==
    view # NoView /\ hook = JOINED /\ enable_local_dhcp(view) =>
        \A i \in 1..Len(script) : script[i].cmd = "install"

-----------------------------------------------------------------------------
\* The package database: dependencies are there, and what nobody asked for is a
\* dependency.
Complete ==
    /\ \A p \in installed : Depends(p) \subseteq installed
    /\ PluginAgent(conf) \in installed
    /\ auto \subseteq {"neutron-metadata-agent", "keepalived", "openvswitch-switch", "dpdk"}
    /\ conf.container =>
          {"neutron-l3-agent", "neutron-dhcp-agent", "neutron-metadata-agent"}
             \cap installed = {}

\* A setting is served by the packages, or the hook that sees to it has to run,
\* runs, or is in error.
Pending(h) == h \in due \/ hook = h
SriovServed ==
    enable_sriov(conf) /\ ~Pending("config-changed") => SriovAgent(conf) \in installed
DhcpServed ==
    ~Pending("config-changed") =>
        /\ enable_local_dhcp(conf) /\ hook # API =>
               {"neutron-dhcp-agent", "neutron-metadata-agent"} \subseteq installed
        /\ ~enable_local_dhcp(conf) => "neutron-dhcp-agent" \notin installed
DvrServed == ~Pending(API) => ("neutron-l3-agent" \in installed <=> use_dvr(conf))
MetadataGone ==
    ~Pending("config-changed") /\ ~Pending(API)
        /\ ~enable_local_dhcp(conf) /\ ~use_dvr(conf)
    => "neutron-metadata-agent" \notin installed
CaughtUp == SriovServed /\ DhcpServed /\ DvrServed /\ MetadataGone

ScriptInv == ScriptOK /\ EndsInstalled /\ EndsPurged /\ InstallFirst /\ L3Purged /\ OnlyInstalls
PackagesInv == TypeOK /\ ViewCurrent /\ ScriptInv /\ Complete /\ CaughtUp

-----------------------------------------------------------------------------
\* What the settings call for, package by package.
LEMMA WantedPackages ==
  ASSUME NEW c \in Conf
  PROVE  /\ determine_packages(c) \subseteq Names
         /\ PluginAgent(c) \in determine_packages(c)
         /\ "neutron-l3-agent" \in determine_packages(c) <=> use_dvr(c)
         /\ "keepalived" \in determine_packages(c) => use_dvr(c)
         /\ "neutron-dhcp-agent" \in determine_packages(c) <=> enable_local_dhcp(c)
         /\ "neutron-metadata-agent" \in determine_packages(c) <=> enable_local_dhcp(c)
         /\ enable_sriov(c) => SriovAgent(c) \in determine_packages(c)
         /\ "openvswitch-switch" \notin determine_packages(c)
         /\ "openvswitch-switch-dpdk" \notin determine_packages(c)
         /\ "dpdk" \notin determine_packages(c)
<1>1. ~use_dpdk(c) /\ ~use_hw_offload(c)
  BY DEF Conf, Settings, use_dpdk, use_hw_offload
<1>2. determine_packages(c) =
        {PluginAgent(c)}
            \cup (IF use_dvr(c)
                  THEN DVR_PACKAGES
                         \cup (IF uses_l3ha_packages(c) THEN L3HA_PACKAGES ELSE {})
                         \cup (IF AtLeast(c, "rocky") THEN {"python3-neutron-fwaas"} ELSE {})
                  ELSE {})
            \cup (IF enable_local_dhcp(c) THEN DHCP_PACKAGES \cup METADATA_PACKAGES ELSE {})
            \cup (IF enable_sriov(c) THEN {SriovAgent(c), "sriov-netplan-shim"} ELSE {})
            \cup (IF AtLeast(c, "rocky") THEN PY3_PACKAGES ELSE {})
  BY <1>1 DEF determine_packages
<1>3. /\ PluginAgent(c) \in {"neutron-openvswitch-agent", "neutron-plugin-openvswitch-agent"}
      /\ SriovAgent(c) \in {"neutron-sriov-agent", "neutron-plugin-sriov-agent"}
  BY DEF PluginAgent, SriovAgent
<1> HIDE DEF PluginAgent, SriovAgent
<1>4. \A p : p \in determine_packages(c) <=>
        \/ p = PluginAgent(c)
        \/ use_dvr(c) /\ p \in {"neutron-l3-agent", "libnetfilter-log1"}
        \/ use_dvr(c) /\ uses_l3ha_packages(c) /\ p = "keepalived"
        \/ use_dvr(c) /\ AtLeast(c, "rocky") /\ p = "python3-neutron-fwaas"
        \/ /\ enable_local_dhcp(c)
           /\ p \in {"neutron-dhcp-agent", "neutron-metadata-agent", "haproxy"}
        \/ enable_sriov(c) /\ p \in {SriovAgent(c), "sriov-netplan-shim"}
        \/ AtLeast(c, "rocky") /\ p \in {"python3-neutron", "python3-zmq"}
  BY <1>2 DEF DVR_PACKAGES, L3HA_PACKAGES, DHCP_PACKAGES, METADATA_PACKAGES, PY3_PACKAGES
<1>5. determine_packages(c) \subseteq Names
  BY <1>3, <1>4 DEF Names
<1>6. /\ PluginAgent(c) \in determine_packages(c)
      /\ enable_sriov(c) => SriovAgent(c) \in determine_packages(c)
  BY <1>4
<1>7. /\ "neutron-l3-agent" \in determine_packages(c) <=> use_dvr(c)
      /\ "keepalived" \in determine_packages(c) => use_dvr(c)
  BY <1>3, <1>4
<1>8. /\ "neutron-dhcp-agent" \in determine_packages(c) <=> enable_local_dhcp(c)
      /\ "neutron-metadata-agent" \in determine_packages(c) <=> enable_local_dhcp(c)
  BY <1>3, <1>4
<1>9. /\ "openvswitch-switch" \notin determine_packages(c)
      /\ "openvswitch-switch-dpdk" \notin determine_packages(c)
      /\ "dpdk" \notin determine_packages(c)
  BY <1>3, <1>4
<1> QED BY <1>5, <1>6, <1>7, <1>8, <1>9

LEMMA NamesOfAgents ==
  ASSUME NEW c \in Conf
  PROVE  /\ PluginAgent(c) \in {"neutron-openvswitch-agent", "neutron-plugin-openvswitch-agent"}
         /\ SriovAgent(c) \in {"neutron-sriov-agent", "neutron-plugin-sriov-agent"}
  BY DEF PluginAgent, SriovAgent

\* Only the l3 agent needs the metadata agent and keepalived, and what others need
\* needs nothing itself.
LEMMA Dependencies ==
  /\ Depends("neutron-l3-agent") = {"neutron-metadata-agent", "keepalived"}
  /\ Depends("neutron-openvswitch-agent") = {"openvswitch-switch"}
  /\ Depends("neutron-plugin-openvswitch-agent") = {"openvswitch-switch"}
  /\ \A p : p # "neutron-l3-agent" => Depends(p) \subseteq {"openvswitch-switch", "dpdk"}
  /\ \A p : Depends(p) \subseteq
                {"neutron-metadata-agent", "keepalived", "openvswitch-switch", "dpdk"}
  /\ \A p \in {"neutron-metadata-agent", "keepalived", "openvswitch-switch", "dpdk"} :
         Depends(p) = {}
  BY DEF Depends

\* The services of a unit are those the packages are named after.
LEMMA ServicesOfConf ==
  ASSUME NEW c \in Conf
  PROVE  services(c) =
            {PluginAgent(c), "openvswitch-switch"}
               \cup (IF use_dvr(c) THEN {"neutron-metadata-agent", "neutron-l3-agent"} ELSE {})
               \cup (IF enable_local_dhcp(c)
                     THEN {"neutron-metadata-agent", "neutron-dhcp-agent"} ELSE {})
               \cup (IF enable_sriov(c) THEN {SriovAgent(c)} ELSE {})
<1> DEFINE Of(M) == UNION {e[2] : e \in M}
<1>1. Of({<<"NEUTRON_CONF", NeutronConfServices(c)>>}) = NeutronConfServices(c)
  OBVIOUS
<1>2. Of(BASE_RESOURCE_MAP(c)) = {PluginAgent(c), "openvswitch-switch"}
  <2>1. ~use_dpdk(c) /\ c.xenial
    BY DEF Conf, Settings, use_dpdk
  <2>2. BASE_RESOURCE_MAP(c) =
          {<<IF AtLeast(c, "mitaka") THEN "OVS_CONF" ELSE "ML2_CONF", {PluginAgent(c)}>>,
           <<"OVS_DEFAULT", {"openvswitch-switch"}>>}
    BY <2>1 DEF BASE_RESOURCE_MAP
  <2> QED BY <2>2
<1>3. Of(METADATA_RESOURCE_MAP) = {"neutron-metadata-agent"}
  BY DEF METADATA_RESOURCE_MAP
<1>4. Of(DHCP_RESOURCE_MAP) = {"neutron-dhcp-agent"}
  <2>1. \A e \in DHCP_RESOURCE_MAP : e[2] = {"neutron-dhcp-agent"}
    BY DEF DHCP_RESOURCE_MAP
  <2>2. <<"NEUTRON_DHCP_AGENT_CONF", {"neutron-dhcp-agent"}>> \in DHCP_RESOURCE_MAP
    BY DEF DHCP_RESOURCE_MAP
  <2> QED BY <2>1, <2>2
<1>5. Of(DVR_RESOURCE_MAP(c)) = {"neutron-l3-agent"}
  <2>1. \A e \in DVR_RESOURCE_MAP(c) : e[2] = {"neutron-l3-agent"}
    BY DEF DVR_RESOURCE_MAP
  <2>2. <<"NEUTRON_L3_AGENT_CONF", {"neutron-l3-agent"}>> \in DVR_RESOURCE_MAP(c)
    BY DEF DVR_RESOURCE_MAP
  <2> QED BY <2>1, <2>2
<1>6. Of(SRIOV_RESOURCE_MAP(c)) = {SriovAgent(c)}
  BY DEF SRIOV_RESOURCE_MAP
<1>7. Of({<<"SRIOV_NETPLAN_SHIM_CONF", {}>>}) = {} /\ Of({}) = {}
  OBVIOUS
<1>8. \A M, N : Of(M \cup N) = Of(M) \cup Of(N)
  OBVIOUS
<1> HIDE DEF Of
<1>9. Of(resource_map(c)) =
        NeutronConfServices(c) \cup {PluginAgent(c), "openvswitch-switch"}
           \cup (IF use_dvr(c) THEN {"neutron-metadata-agent", "neutron-l3-agent"} ELSE {})
           \cup (IF enable_local_dhcp(c)
                 THEN {"neutron-metadata-agent", "neutron-dhcp-agent"} ELSE {})
           \cup (IF enable_sriov(c) THEN {SriovAgent(c)} ELSE {})
  <2> DEFINE Dvr == IF use_dvr(c) THEN DVR_RESOURCE_MAP(c) \cup METADATA_RESOURCE_MAP ELSE {}
             Dhcp == IF enable_local_dhcp(c)
                     THEN METADATA_RESOURCE_MAP \cup DHCP_RESOURCE_MAP ELSE {}
             Sriov == IF enable_sriov(c) THEN SRIOV_RESOURCE_MAP(c) ELSE {}
             Shim == IF (enable_sriov(c) \/ use_hw_offload(c)) /\ c.netplan_shim
                     THEN {<<"SRIOV_NETPLAN_SHIM_CONF", {}>>} ELSE {}
             Conf0 == {<<"NEUTRON_CONF", NeutronConfServices(c)>>}
  <2>1. resource_map(c) = Conf0 \cup BASE_RESOURCE_MAP(c) \cup Dvr \cup Dhcp \cup Sriov \cup Shim
    BY DEF resource_map
  <2>3. Of(Dvr) = IF use_dvr(c) THEN {"neutron-metadata-agent", "neutron-l3-agent"} ELSE {}
    <3>1. CASE use_dvr(c)
      <4>1. Dvr = DVR_RESOURCE_MAP(c) \cup METADATA_RESOURCE_MAP
        BY <3>1
      <4>2. Of(Dvr) = Of(DVR_RESOURCE_MAP(c)) \cup Of(METADATA_RESOURCE_MAP)
        BY <4>1, <1>8
      <4> QED BY <3>1, <4>2, <1>3, <1>5
    <3>2. CASE ~use_dvr(c)
      BY <3>2, <1>7
    <3> QED BY <3>1, <3>2
  <2>4. Of(Dhcp) =
          IF enable_local_dhcp(c) THEN {"neutron-metadata-agent", "neutron-dhcp-agent"} ELSE {}
    <3>1. CASE enable_local_dhcp(c)
      <4>1. Dhcp = METADATA_RESOURCE_MAP \cup DHCP_RESOURCE_MAP
        BY <3>1
      <4>2. Of(Dhcp) = Of(METADATA_RESOURCE_MAP) \cup Of(DHCP_RESOURCE_MAP)
        BY <4>1, <1>8
      <4> QED BY <3>1, <4>2, <1>3, <1>4
    <3>2. CASE ~enable_local_dhcp(c)
      BY <3>2, <1>7
    <3> QED BY <3>1, <3>2
  <2>5. Of(Sriov) = IF enable_sriov(c) THEN {SriovAgent(c)} ELSE {}
    BY <1>6, <1>7
  <2>6. Of(Shim) = {}
    BY <1>7
  <2> HIDE DEF Dvr, Dhcp, Sriov, Shim, Conf0
  <2>7. Of(resource_map(c)) = Of(Conf0) \cup Of(BASE_RESOURCE_MAP(c)) \cup Of(Dvr)
                                \cup Of(Dhcp) \cup Of(Sriov) \cup Of(Shim)
    <3> DEFINE Some == Conf0 \cup BASE_RESOURCE_MAP(c)
               More == Some \cup Dvr
               Most == More \cup Dhcp
               Each == Most \cup Sriov
    <3>1. Of(Some) = Of(Conf0) \cup Of(BASE_RESOURCE_MAP(c))
      BY <1>8
    <3>2. Of(More) = Of(Some) \cup Of(Dvr)
      BY <1>8
    <3>3. Of(Most) = Of(More) \cup Of(Dhcp)
      BY <1>8
    <3>4. Of(Each) = Of(Most) \cup Of(Sriov)
      BY <1>8
    <3>5. Of(Each \cup Shim) = Of(Each) \cup Of(Shim)
      BY <1>8
    <3>6. resource_map(c) = Each \cup Shim
      BY <2>1
    <3> HIDE DEF Some, More, Most, Each
    <3> QED BY <3>1, <3>2, <3>3, <3>4, <3>5, <3>6
  <2>8. Of(Conf0) = NeutronConfServices(c)
    BY <1>1 DEF Conf0
  <2> QED BY <1>2, <2>3, <2>4, <2>5, <2>6, <2>7, <2>8
<1>10. services(c) = Of(resource_map(c)) \ {"os-charm-phy-nic-mtu"}
  BY DEF services, Of
<1> QED BY <1>9, <1>10 DEF NeutronConfServices, PluginAgent, SriovAgent

-----------------------------------------------------------------------------
LEMMA AllowedPurge ==
  ASSUME NEW v \in Conf, NEW S, S \subseteq Removable,
         use_dvr(v) => S \cap {"neutron-metadata-agent", "keepalived"} = {}
  PROVE  LET c == [cmd |-> "purge", pkgs |-> S \ determine_packages(v)]
         IN  c \in Command /\ Allowed(c, v)
  BY DEF Command, Allowed, Harmless, Removable, Names, DHCP_PACKAGES, DVR_PACKAGES,
         L3HA_PACKAGES, PURGE_PACKAGES

\* The command of neutron_plugin_joined.
LEMMA JoinedScript ==
  ASSUME NEW v \in Conf
  PROVE  /\ neutron_plugin_joined(v) \in Seq(Command)
         /\ \A i \in 1..Len(neutron_plugin_joined(v)) : Allowed(neutron_plugin_joined(v)[i], v)
         /\ enable_local_dhcp(v) =>
              neutron_plugin_joined(v) = <<[cmd |-> "install", pkgs |-> determine_packages(v)]>>
         /\ ~v.container /\ ~enable_local_dhcp(v) =>
              neutron_plugin_joined(v) = <<[cmd |-> "purge", pkgs |-> Unused(v)]>>
<1>1. CASE v.container
  <2>1. neutron_plugin_joined(v) = <<>> /\ ~enable_local_dhcp(v)
    BY <1>1 DEF neutron_plugin_joined, enable_local_dhcp
  <2> QED BY <1>1, <2>1
<1>2. CASE ~v.container /\ enable_local_dhcp(v)
  <2> DEFINE c == [cmd |-> "install", pkgs |-> determine_packages(v)]
  <2>1. neutron_plugin_joined(v) = <<c>>
    BY <1>2 DEF neutron_plugin_joined, install_packages
  <2>2. c \in Command /\ Allowed(c, v)
    BY WantedPackages DEF Command, Allowed
  <2> QED BY <1>2, <2>1, <2>2
<1>3. CASE ~v.container /\ ~enable_local_dhcp(v)
  <2> DEFINE S == DHCP_PACKAGES \cup IF use_dvr(v) THEN {} ELSE METADATA_PACKAGES \ {"haproxy"}
             c == [cmd |-> "purge", pkgs |-> S \ determine_packages(v)]
  <2>1. neutron_plugin_joined(v) = <<c>>
    BY <1>3 DEF neutron_plugin_joined, purge_packages
  <2>2. METADATA_PACKAGES \ {"haproxy"} = {"neutron-metadata-agent"}
    BY DEF METADATA_PACKAGES
  <2>3. S \ determine_packages(v) = Unused(v)
    BY <2>2 DEF Unused
  <2>4. S \subseteq Removable /\ (use_dvr(v) => S \cap {"neutron-metadata-agent", "keepalived"} = {})
    BY <2>2 DEF Removable, DHCP_PACKAGES
  <2>5. c \in Command /\ Allowed(c, v)
    BY <2>4, AllowedPurge
  <2> QED BY <1>3, <2>1, <2>3, <2>5
<1> QED BY <1>1, <1>2, <1>3

\* A hook that does something first and then neutron_plugin_joined.
LEMMA ThenJoined ==
  ASSUME NEW v \in Conf, NEW s \in Seq(Command), \A i \in 1..Len(s) : Allowed(s[i], v)
  PROVE  LET all == s \o neutron_plugin_joined(v)
         IN  /\ all \in Seq(Command)
             /\ \A i \in 1..Len(all) : Allowed(all[i], v)
             /\ enable_local_dhcp(v) =>
                  /\ all # <<>>
                  /\ all[Len(all)] = [cmd |-> "install", pkgs |-> determine_packages(v)]
             /\ ~v.container /\ ~enable_local_dhcp(v) =>
                  all # <<>> /\ all[Len(all)] = [cmd |-> "purge", pkgs |-> Unused(v)]
             /\ s # <<>> => all # <<>> /\ all[1] = s[1]
<1> DEFINE J == neutron_plugin_joined(v)
           all == s \o J
<1>1. J \in Seq(Command) /\ \A i \in 1..Len(J) : Allowed(J[i], v)
  BY JoinedScript
<1> HIDE DEF J
<1>2. /\ all \in Seq(Command)
      /\ Len(all) = Len(s) + Len(J)
      /\ \A i \in 1..Len(s) + Len(J) : all[i] = IF i <= Len(s) THEN s[i] ELSE J[i - Len(s)]
  BY <1>1, ConcatProperties
<1>3. Len(s) \in Nat /\ Len(J) \in Nat
  BY <1>1, LenProperties
<1> HIDE DEF all
<1>4. \A i \in 1..Len(all) : Allowed(all[i], v)
  <2> TAKE i \in 1..Len(all)
  <2>1. CASE i <= Len(s)
    BY <1>2, <1>3, <2>1
  <2>2. CASE i > Len(s)
    <3>1. i - Len(s) \in 1..Len(J)
      BY <1>2, <1>3, <2>2
    <3> QED BY <1>1, <1>2, <1>3, <2>2, <3>1
  <2> QED BY <1>3, <2>1, <2>2
<1>5. \A c : J = <<c>> => all # <<>> /\ all[Len(all)] = c
  BY <1>2, <1>3
<1>6. s # <<>> => all # <<>> /\ all[1] = s[1]
  <2> SUFFICES ASSUME s # <<>> PROVE all # <<>> /\ all[1] = s[1]
    OBVIOUS
  <2>1. Len(s) >= 1
    BY <1>3
  <2> QED BY <1>2, <1>3, <2>1
<1> QED BY <1>2, <1>4, <1>5, <1>6, JoinedScript DEF all, J

\* The script of a hook, from its first to its last command.
LEMMA HookScript ==
  ASSUME NEW v \in Conf, NEW h \in Hooks
  PROVE  LET s == Commands(h, v)
         IN  /\ s \in Seq(Command)
             /\ \A i \in 1..Len(s) : Allowed(s[i], v)
             /\ enable_local_dhcp(v) =>
                  s # <<>> /\ s[Len(s)] = [cmd |-> "install", pkgs |-> determine_packages(v)]
             /\ ~v.container /\ ~enable_local_dhcp(v) =>
                  s # <<>> /\ s[Len(s)] = [cmd |-> "purge", pkgs |-> Unused(v)]
             /\ h = "config-changed" \/ (h = API /\ use_dvr(v)) =>
                  s # <<>> /\ s[1].cmd = "install"
             /\ h = API /\ ~use_dvr(v) =>
                  s # <<>> /\ s[1].cmd = "purge" /\ "neutron-l3-agent" \in s[1].pkgs
             /\ h = JOINED /\ enable_local_dhcp(v) =>
                  \A i \in 1..Len(s) : s[i].cmd = "install"
<1> DEFINE install == [cmd |-> "install", pkgs |-> determine_packages(v)]
<1>0. install \in Command /\ Allowed(install, v)
  BY WantedPackages DEF Command, Allowed
<1>1. CASE h = "config-changed"
  <2> DEFINE purge == [cmd |-> "purge",
                       pkgs |-> determine_purge_packages(v) \ determine_packages(v)]
             tail == IF determine_purge_packages(v) # {} THEN <<purge>> ELSE <<>>
             first == <<install>> \o tail
  <2>1. purge \in Command /\ Allowed(purge, v)
    <3>1. determine_purge_packages(v) \subseteq Removable
      BY DEF determine_purge_packages, Removable
    <3>2. determine_purge_packages(v) \cap {"neutron-metadata-agent", "keepalived"} = {}
      BY DEF determine_purge_packages, PURGE_PACKAGES
    <3> QED BY <3>1, <3>2, AllowedPurge
  <2> HIDE DEF purge
  <2>2. /\ tail \in Seq(Command) /\ Len(tail) \in {0, 1}
        /\ \A i \in 1..Len(tail) : Allowed(tail[i], v)
    BY <2>1
  <2> HIDE DEF install
  <2>3. <<install>> \in Seq(Command) /\ Len(<<install>>) = 1 /\ <<install>>[1] = install
    BY <1>0
  <2> HIDE DEF tail
  <2>4. /\ first \in Seq(Command) /\ Len(first) = 1 + Len(tail)
        /\ \A i \in 1..1 + Len(tail) : first[i] = IF i <= 1 THEN install ELSE tail[i - 1]
    BY <2>2, <2>3, ConcatProperties
  <2> HIDE DEF first
  <2>5. first # <<>> /\ first[1] = install /\ \A i \in 1..Len(first) : Allowed(first[i], v)
    BY <1>0, <2>2, <2>4
  <2>6. Commands(h, v) = first \o neutron_plugin_joined(v)
    BY <1>1 DEF Commands, config_changed, install_packages, purge_packages, first, install,
                tail, purge
  <2>7. install.cmd = "install"
    BY DEF install
  <2> QED BY <1>1, <2>4, <2>5, <2>6, <2>7, ThenJoined DEF API, JOINED, install
<1>2. CASE h = API /\ use_dvr(v)
  <2> DEFINE add == [cmd |-> "add", pkgs |-> L3HA_PACKAGES]
             tail == IF uses_l3ha_packages(v) THEN <<add>> ELSE <<>>
             first == <<install>> \o tail
  <2>1. add \in Command /\ Allowed(add, v)
    BY <1>2 DEF Command, Allowed, Names, L3HA_PACKAGES
  <2> HIDE DEF add
  <2>2. /\ tail \in Seq(Command) /\ Len(tail) \in {0, 1}
        /\ \A i \in 1..Len(tail) : Allowed(tail[i], v)
    BY <2>1
  <2> HIDE DEF install
  <2>3. <<install>> \in Seq(Command) /\ Len(<<install>>) = 1 /\ <<install>>[1] = install
    BY <1>0
  <2> HIDE DEF tail
  <2>4. /\ first \in Seq(Command) /\ Len(first) = 1 + Len(tail)
        /\ \A i \in 1..1 + Len(tail) : first[i] = IF i <= 1 THEN install ELSE tail[i - 1]
    BY <2>2, <2>3, ConcatProperties
  <2> HIDE DEF first
  <2>5. first # <<>> /\ first[1] = install /\ \A i \in 1..Len(first) : Allowed(first[i], v)
    BY <1>0, <2>2, <2>4
  <2>6. Commands(h, v) = first \o neutron_plugin_joined(v)
    BY <1>2 DEF Commands, neutron_plugin_api_changed, install_packages, install_l3ha_packages,
                first, install, tail, add, API
  <2>7. install.cmd = "install"
    BY DEF install
  <2> QED BY <1>2, <2>4, <2>5, <2>6, <2>7, ThenJoined DEF API, JOINED, install
<1>3. CASE h = API /\ ~use_dvr(v)
  <2> DEFINE purge == [cmd |-> "purge",
                       pkgs |-> (DVR_PACKAGES \cup L3HA_PACKAGES) \ determine_packages(v)]
             first == <<purge>>
  <2>1. purge \in Command /\ Allowed(purge, v)
    <3>1. DVR_PACKAGES \cup L3HA_PACKAGES \subseteq Removable
      BY DEF Removable
    <3> QED BY <1>3, <3>1, AllowedPurge
  <2>2. first \in Seq(Command) /\ Len(first) = 1 /\ first[1] = purge
    BY <2>1
  <2>3. purge.cmd = "purge" /\ "neutron-l3-agent" \in purge.pkgs
    BY <1>3, WantedPackages DEF DVR_PACKAGES
  <2>4. Commands(h, v) = first \o neutron_plugin_joined(v)
    BY <1>3 DEF Commands, neutron_plugin_api_changed, purge_packages, API
  <2> HIDE DEF purge
  <2>5. first # <<>> /\ \A i \in 1..Len(first) : Allowed(first[i], v)
    BY <2>1, <2>2
  <2> HIDE DEF first
  <2> QED BY <1>3, <2>2, <2>3, <2>4, <2>5, ThenJoined DEF API, JOINED
<1>4. CASE h = "neutron-plugin-relation-joined"
  <2>1. Commands(h, v) = neutron_plugin_joined(v)
    BY <1>4 DEF Commands
  <2>2. \A c : Len(<<c>>) = 1 /\ <<c>>[1] = c /\ <<c>> # <<>>
    OBVIOUS
  <2> QED BY <1>4, <2>1, <2>2, JoinedScript DEF API, JOINED
<1> QED BY <1>1, <1>2, <1>3, <1>4 DEF Hooks, API

-----------------------------------------------------------------------------
\* A command is done, or made way for an autoremove: what the rest of the script is.
LEMMA RestOfScript ==
  ASSUME NEW s \in Seq(Command), s # <<>>, NEW rest,
         \/ rest = Tail(s)
         \/ rest = <<[cmd |-> "autoremove", pkgs |-> {}]>> \o Tail(s)
  PROVE  /\ Head(s) = s[1] /\ 1 \in 1..Len(s) /\ s[1] \in Command
         /\ rest \in Seq(Command)
         /\ \A i \in 1..Len(rest) : \/ rest[i] = [cmd |-> "autoremove", pkgs |-> {}]
                                     \/ \E j \in 1..Len(s) : rest[i] = s[j]
         /\ rest = Tail(s) => \A i \in 1..Len(rest) : \E j \in 1..Len(s) : rest[i] = s[j]
         /\ \/ rest # <<>> /\ rest[Len(rest)] = s[Len(s)]
            \/ /\ s[1] = s[Len(s)]
               /\ \A i \in 1..Len(rest) : rest[i].cmd = "autoremove"
               /\ rest = Tail(s) => rest = <<>>
<1> DEFINE a == [cmd |-> "autoremove", pkgs |-> {}]
<1>1. Len(s) \in Nat /\ Len(s) >= 1 /\ Head(s) = s[1] /\ s[1] \in Command
  BY EmptySeq, LenProperties, HeadTailProperties
<1>2. /\ Tail(s) \in Seq(Command) /\ Len(Tail(s)) = Len(s) - 1
      /\ \A i \in 1..Len(s) - 1 : Tail(s)[i] = s[i + 1]
  BY HeadTailProperties
<1>3. CASE rest = Tail(s)
  <2>1. \A i \in 1..Len(rest) : rest[i] = s[i + 1] /\ i + 1 \in 1..Len(s)
    BY <1>1, <1>2, <1>3
  <2>2. CASE Len(s) = 1
    <3>1. rest = <<>>
      BY <1>2, <1>3, <2>2, EmptySeq
    <3> QED BY <1>1, <1>2, <1>3, <2>1, <2>2, <3>1
  <2>3. CASE Len(s) > 1
    <3>1. Len(rest) \in 1..Len(rest) /\ Len(rest) = Len(s) - 1
      BY <1>1, <1>2, <1>3, <2>3
    <3>2. rest # <<>> /\ rest[Len(rest)] = s[Len(s)]
      BY <1>1, <2>1, <3>1
    <3> QED BY <1>1, <1>2, <1>3, <2>1, <3>2
  <2> QED BY <1>1, <2>2, <2>3
<1>4. CASE rest = <<a>> \o Tail(s)
  <2>0. a \in Command
    BY DEF Command
  <2>4. a.cmd = "autoremove"
    OBVIOUS
  <2> HIDE DEF a
  <2>1. <<a>> \in Seq(Command) /\ Len(<<a>>) = 1 /\ <<a>>[1] = a
    BY <2>0
  <2> DEFINE t == Tail(s)
  <2>2. /\ t \in Seq(Command) /\ Len(t) = Len(s) - 1
        /\ \A i \in 1..Len(s) - 1 : t[i] = s[i + 1]
        /\ rest = <<a>> \o t
    BY <1>2, <1>4
  <2> HIDE DEF t
  <2>3. /\ rest \in Seq(Command) /\ Len(rest) = 1 + Len(t)
        /\ \A i \in 1..1 + Len(t) : rest[i] = IF i <= 1 THEN a ELSE t[i - 1]
    BY <2>1, <2>2, ConcatProperties
  <2>5. /\ rest # t /\ rest # <<>> /\ Len(rest) = Len(s)
        /\ rest[1] = a /\ \A i \in 2..Len(s) : rest[i] = s[i]
    BY <1>1, <2>2, <2>3
  <2>8. rest # Tail(s)
    BY <2>5 DEF t
  <2>9. \A i \in 1..Len(rest) : rest[i] = a \/ \E j \in 1..Len(s) : rest[i] = s[j]
    BY <1>1, <2>5
  <2>10. \/ rest[Len(rest)] = s[Len(s)]
         \/ s[1] = s[Len(s)] /\ \A i \in 1..Len(rest) : rest[i].cmd = "autoremove"
    BY <1>1, <2>4, <2>5
  <2> QED BY <1>1, <2>3, <2>5, <2>8, <2>9, <2>10 DEF a
<1> QED BY <1>3, <1>4

-----------------------------------------------------------------------------
LEMMA InitInv == Init => PackagesInv
<1> SUFFICES ASSUME Init PROVE PackagesInv
  OBVIOUS
<1>1. conf \in Conf /\ ~conf.enable_dvr /\ ~conf.enable_l3ha /\ ~enable_sriov(conf)
  BY DEF Init, Conf, enable_sriov
<1>2. TypeOK
  BY <1>1 DEF Init, TypeOK, Hooks
<1>3. view = NoView /\ hook = "none" /\ script = <<>>
  BY DEF Init
<1>4. ViewCurrent /\ ScriptInv
  BY <1>3 DEF ViewCurrent, ScriptInv, ScriptOK, EndsInstalled, EndsPurged, InstallFirst,
              L3Purged, OnlyInstalls
<1> DEFINE S == determine_packages(conf)
<1>5. ~use_dvr(conf)
  BY <1>1 DEF use_dvr
<1>6. /\ PluginAgent(conf) \in S /\ "neutron-l3-agent" \notin S /\ "keepalived" \notin S
      /\ "neutron-metadata-agent" \in S <=> enable_local_dhcp(conf)
      /\ "neutron-dhcp-agent" \in S <=> enable_local_dhcp(conf)
  BY <1>1, <1>5, WantedPackages
<1> HIDE DEF S
<1>7. PICK own \in SUBSET {"haproxy"} :
         installed = S \cup DependsOf(S) \cup own /\ auto = DependsOf(S)
  BY DEF Init, S
<1>8. /\ \A p \in DependsOf(S) : p \in {"openvswitch-switch", "dpdk"}
      /\ \A p \in S : Depends(p) \subseteq DependsOf(S)
      /\ \A p \in DependsOf(S) \cup own : Depends(p) \subseteq DependsOf(S)
  <2>1. \A p \in DependsOf(S) : p \in {"openvswitch-switch", "dpdk"}
    BY <1>6, Dependencies DEF DependsOf
  <2>2. \A p \in S : Depends(p) \subseteq DependsOf(S)
    BY DEF DependsOf
  <2>3. \A p \in DependsOf(S) : Depends(p) = {}
    BY <2>1, Dependencies
  <2>4. Depends("haproxy") = {}
    BY DEF Depends
  <2> QED BY <2>1, <2>2, <2>3, <2>4
<1>9. Complete
  BY <1>6, <1>7, <1>8 DEF Complete, enable_local_dhcp
<1>10. CaughtUp
  <2>1. {"neutron-l3-agent", "neutron-dhcp-agent", "neutron-metadata-agent"} \cap installed
           \subseteq S
    BY <1>7, <1>8
  <2> QED BY <1>1, <1>5, <1>6, <1>7, <2>1
          DEF CaughtUp, SriovServed, DhcpServed, DvrServed, MetadataGone
<1> QED BY <1>2, <1>4, <1>9, <1>10 DEF PackagesInv

\* A setting changes: the hook that sees to it becomes due.
LEMMA ChangeInv ==
  ASSUME PackagesInv, ChangeConfig \/ ChangeRelation
  PROVE  PackagesInv'
<1>1. PICK option \in {"enable_local_dhcp_and_metadata", "enable_sriov", "enable_dvr",
                       "enable_l3ha"}, h \in {"config-changed", API} :
        /\ Change(option, h)
        /\ option \in {"enable_local_dhcp_and_metadata", "enable_sriov"} => h = "config-changed"
        /\ option \in {"enable_dvr", "enable_l3ha"} => h = API
  <2>1. CASE ChangeConfig
    BY <2>1 DEF ChangeConfig
  <2>2. CASE ChangeRelation
    BY <2>2 DEF ChangeRelation, API
  <2> QED BY <2>1, <2>2
<1>2. /\ due' = due \cup {h} /\ conf' = [conf EXCEPT ![option] = ~conf[option]]
      /\ UNCHANGED <<hook, view, script, installed, auto, faults>>
  BY <1>1 DEF Change
<1>3. conf \in Conf
  BY DEF PackagesInv, TypeOK
<1>4. /\ conf' \in Conf /\ conf'.release = conf.release /\ conf'.container = conf.container
      /\ conf'.xenial = conf.xenial
      /\ h # "config-changed" =>
           /\ conf'.enable_local_dhcp_and_metadata = conf.enable_local_dhcp_and_metadata
           /\ conf'.enable_sriov = conf.enable_sriov
      /\ h # API => conf'.enable_dvr = conf.enable_dvr /\ conf'.enable_l3ha = conf.enable_l3ha
  <2>1. option = "enable_local_dhcp_and_metadata" \/ option = "enable_sriov"
         \/ option = "enable_dvr" \/ option = "enable_l3ha"
    BY <1>1
  <2>2. CASE option = "enable_local_dhcp_and_metadata"
    BY <1>1, <1>2, <1>3, <2>2 DEF Conf, Settings
  <2>3. CASE option = "enable_sriov"
    BY <1>1, <1>2, <1>3, <2>3 DEF Conf, Settings
  <2>4. CASE option = "enable_dvr"
    BY <1>1, <1>2, <1>3, <2>4 DEF Conf, Settings
  <2>5. CASE option = "enable_l3ha"
    BY <1>1, <1>2, <1>3, <2>5 DEF Conf, Settings
  <2> QED BY <2>1, <2>2, <2>3, <2>4, <2>5
<1>5. TypeOK'
  BY <1>1, <1>2, <1>4 DEF PackagesInv, TypeOK, Hooks, API
<1>6. ViewCurrent'
  BY <1>1, <1>2, <1>4 DEF PackagesInv, ViewCurrent
<1>7. ScriptInv'
  BY <1>2 DEF PackagesInv, ScriptInv, ScriptOK, EndsInstalled, EndsPurged, InstallFirst,
              L3Purged, OnlyInstalls, LastIs, FirstIs, Installing
<1>8. /\ PluginAgent(conf') = PluginAgent(conf) /\ SriovAgent(conf') = SriovAgent(conf)
      /\ h # "config-changed" =>
            (enable_local_dhcp(conf') <=> enable_local_dhcp(conf)) /\ (enable_sriov(conf') <=> enable_sriov(conf))
      /\ h # API => (use_dvr(conf') <=> use_dvr(conf))
  BY <1>4 DEF PluginAgent, SriovAgent, AtLeast, enable_local_dhcp, enable_sriov, use_dvr
<1>9. Complete'
  BY <1>2, <1>4, <1>8 DEF PackagesInv, Complete
<1>10. CaughtUp'
  BY <1>1, <1>2, <1>8 DEF PackagesInv, CaughtUp, SriovServed, DhcpServed, DvrServed,
                           MetadataGone, Pending
<1> QED BY <1>5, <1>6, <1>7, <1>9, <1>10 DEF PackagesInv

\* A hook starts, or starts again after an error: it reads the settings.
LEMMA BeginInv ==
  ASSUME PackagesInv, NEW h \in Hooks, Begin(h)
  PROVE  PackagesInv'
<1>1. /\ hook = "none" => h \in due
      /\ hook # "none" => h = hook
      /\ hook' = h /\ due' = due \ {h} /\ view' = conf /\ script' = Commands(h, conf)
      /\ conf' = conf /\ installed' = installed /\ auto' = auto
  BY DEF Begin
<1>2. conf \in Conf /\ h # "none" /\ due \subseteq Hooks
  BY DEF PackagesInv, TypeOK, Hooks
<1>3. NoView \notin Conf
  BY DEF NoView, Conf, Settings, Rank
<1>4. TypeOK' /\ ViewCurrent'
  BY <1>1, <1>2, HookScript DEF TypeOK, ViewCurrent
<1>5. ScriptInv'
  <2> DEFINE s == Commands(h, conf)
  <2>1. /\ \A i \in 1..Len(s) : Allowed(s[i], conf)
        /\ enable_local_dhcp(conf) =>
             s # <<>> /\ s[Len(s)] = [cmd |-> "install", pkgs |-> determine_packages(conf)]
        /\ ~conf.container /\ ~enable_local_dhcp(conf) =>
             s # <<>> /\ s[Len(s)] = [cmd |-> "purge", pkgs |-> Unused(conf)]
        /\ h = "config-changed" \/ (h = API /\ use_dvr(conf)) =>
             s # <<>> /\ s[1].cmd = "install"
        /\ h = API /\ ~use_dvr(conf) =>
             s # <<>> /\ s[1].cmd = "purge" /\ "neutron-l3-agent" \in s[1].pkgs
        /\ h = JOINED /\ enable_local_dhcp(conf) =>
             \A i \in 1..Len(s) : s[i].cmd = "install"
    BY <1>2, HookScript
  <2> HIDE DEF s
  <2>2. script' = s
    BY <1>1 DEF s
  <2>3. ScriptOK' /\ OnlyInstalls'
    BY <1>1, <2>1, <2>2 DEF ScriptOK, OnlyInstalls
  <2>4. EndsInstalled' /\ EndsPurged'
    BY <1>1, <2>1, <2>2 DEF EndsInstalled, EndsPurged, LastIs
  <2>5. InstallFirst' /\ L3Purged'
    BY <1>1, <2>1, <2>2 DEF InstallFirst, L3Purged, FirstIs, Installing
  <2> QED BY <2>3, <2>4, <2>5 DEF ScriptInv
<1>6. Complete'
  BY <1>1 DEF PackagesInv, Complete
<1>7. CaughtUp'
  BY <1>1, <1>2 DEF PackagesInv, CaughtUp, SriovServed, DhcpServed, DvrServed, MetadataGone,
                    Pending, API
<1> QED BY <1>4, <1>5, <1>6, <1>7 DEF PackagesInv

\* A command fails: the hook is in error, and still to run.
LEMMA FailInv ==
  ASSUME PackagesInv, Fail
  PROVE  PackagesInv'
<1>1. /\ view' = NoView /\ script' = <<>>
      /\ UNCHANGED <<conf, due, hook, installed, auto>>
  BY DEF Fail
<1>2. TypeOK' /\ ViewCurrent'
  BY <1>1 DEF PackagesInv, TypeOK, ViewCurrent
<1>3. ScriptInv'
  BY <1>1 DEF ScriptInv, ScriptOK, EndsInstalled, EndsPurged, InstallFirst, L3Purged,
              OnlyInstalls
<1>4. Complete' /\ CaughtUp'
  BY <1>1 DEF PackagesInv, Complete, CaughtUp, SriovServed, DhcpServed, DvrServed,
              MetadataGone, Pending
<1> QED BY <1>2, <1>3, <1>4 DEF PackagesInv

\* What the settings have in common with those the hook has read.
LEMMA SameSettings ==
  ASSUME TypeOK, ViewCurrent, Running
  PROVE  /\ view \in Conf /\ conf \in Conf /\ hook \in Hooks
         /\ PluginAgent(view) = PluginAgent(conf) /\ SriovAgent(view) = SriovAgent(conf)
         /\ view.container = conf.container
         /\ "config-changed" \notin due =>
              /\ enable_local_dhcp(view) <=> enable_local_dhcp(conf)
              /\ enable_sriov(view) <=> enable_sriov(conf)
         /\ API \notin due => (use_dvr(view) <=> use_dvr(conf))
<1>1. view \in Conf /\ conf \in Conf /\ hook \in Hooks
      /\ view.release = conf.release /\ view.container = conf.container
  BY DEF Running, TypeOK
<1>2. view.xenial = conf.xenial
  BY <1>1 DEF Conf, Settings
<1>3. PluginAgent(view) = PluginAgent(conf) /\ SriovAgent(view) = SriovAgent(conf)
  BY <1>1 DEF PluginAgent, SriovAgent, AtLeast
<1> QED BY <1>1, <1>2, <1>3
        DEF ViewCurrent, Running, enable_local_dhcp, enable_sriov, use_dvr

\* The hook has run its commands: what it has to see to is there, and gone.
LEMMA FinishInv ==
  ASSUME PackagesInv, Finish
  PROVE  PackagesInv'
<1>1. /\ Running /\ script = <<>> /\ hook' = "none" /\ view' = NoView
      /\ UNCHANGED <<conf, due, script, installed, auto>>
  BY DEF Finish
<1>2. TypeOK /\ ViewCurrent /\ ScriptInv /\ Complete /\ CaughtUp
  BY DEF PackagesInv
<1>3. TypeOK' /\ ViewCurrent'
  BY <1>1, <1>2 DEF TypeOK, ViewCurrent
<1>4. ScriptInv'
  BY <1>1 DEF ScriptInv, ScriptOK, EndsInstalled, EndsPurged, InstallFirst, L3Purged,
              OnlyInstalls
<1>5. Complete'
  BY <1>1, <1>2 DEF Complete
<1>6. /\ enable_local_dhcp(view) => determine_packages(view) \subseteq installed
      /\ Installing => determine_packages(view) \subseteq installed
      /\ ~view.container /\ ~enable_local_dhcp(view) => Unused(view) \cap installed = {}
      /\ hook = API /\ ~use_dvr(view) => "neutron-l3-agent" \notin installed
  BY <1>1, <1>2 DEF Running, ScriptInv, EndsInstalled, EndsPurged, InstallFirst, L3Purged,
                    LastIs, FirstIs
<1>7. /\ view \in Conf /\ conf \in Conf
      /\ SriovAgent(view) = SriovAgent(conf) /\ view.container = conf.container
      /\ "config-changed" \notin due =>
           /\ enable_local_dhcp(view) <=> enable_local_dhcp(conf)
           /\ enable_sriov(view) <=> enable_sriov(conf)
      /\ API \notin due => (use_dvr(view) <=> use_dvr(conf))
  BY <1>1, <1>2, SameSettings
<1>8. /\ "neutron-dhcp-agent" \in Unused(view) <=> ~enable_local_dhcp(view)
      /\ "neutron-metadata-agent" \in Unused(view) <=> ~use_dvr(view) /\ ~enable_local_dhcp(view)
  BY <1>7, WantedPackages DEF Unused, DHCP_PACKAGES
<1>9. view.container => "neutron-dhcp-agent" \notin installed /\ "neutron-metadata-agent" \notin installed
  BY <1>2, <1>7 DEF Complete
<1>10. SriovServed'
  BY <1>1, <1>2, <1>6, <1>7, WantedPackages
     DEF CaughtUp, SriovServed, Pending, Installing
<1>11. DhcpServed'
  BY <1>1, <1>6, <1>7, <1>8, <1>9, WantedPackages DEF DhcpServed, Pending
<1>12. DvrServed'
  BY <1>1, <1>2, <1>6, <1>7, WantedPackages DEF CaughtUp, DvrServed, Pending, Installing, API
<1>13. MetadataGone'
  BY <1>1, <1>6, <1>7, <1>8, <1>9 DEF MetadataGone, Pending
<1> QED BY <1>3, <1>4, <1>5, <1>10, <1>11, <1>12, <1>13 DEF PackagesInv, CaughtUp

\* The first command of a script, and the promises about the rest.
LEMMA NextCommand ==
  ASSUME TypeOK, ScriptInv, Running, script # <<>>, view' = view,
         \/ script' = Tail(script)
         \/ script' = <<[cmd |-> "autoremove", pkgs |-> {}]>> \o Tail(script)
  PROVE  /\ Head(script) = script[1] /\ script[1] \in Command /\ Allowed(script[1], view)
         /\ script' \in Seq(Command) /\ ScriptOK'
         /\ hook = JOINED /\ enable_local_dhcp(view) => script[1].cmd = "install"
         /\ hook' = hook /\ script' = Tail(script) => OnlyInstalls'
<1>1. script \in Seq(Command) /\ ScriptOK /\ OnlyInstalls /\ view # NoView
  BY DEF TypeOK, ScriptInv, Running
<1>2. /\ Head(script) = script[1] /\ 1 \in 1..Len(script) /\ script[1] \in Command
      /\ script' \in Seq(Command)
      /\ \A i \in 1..Len(script') : \/ script'[i] = [cmd |-> "autoremove", pkgs |-> {}]
                                    \/ \E j \in 1..Len(script) : script'[i] = script[j]
      /\ script' = Tail(script) =>
           \A i \in 1..Len(script') : \E j \in 1..Len(script) : script'[i] = script[j]
  BY <1>1, RestOfScript
<1>3. Allowed([cmd |-> "autoremove", pkgs |-> {}], view)
  BY DEF Allowed
<1>4. ScriptOK'
  BY <1>1, <1>2, <1>3 DEF ScriptOK
<1>5. /\ Allowed(script[1], view)
      /\ hook = JOINED /\ enable_local_dhcp(view) => script[1].cmd = "install"
  BY <1>1, <1>2 DEF ScriptOK, OnlyInstalls
<1>6. hook' = hook /\ script' = Tail(script) => OnlyInstalls'
  BY <1>1, <1>2 DEF OnlyInstalls
<1> QED BY <1>2, <1>4, <1>5, <1>6

\* An install adds what the settings call for, and what that depends on.
LEMMA InstallInv ==
  ASSUME PackagesInv, Install
  PROVE  PackagesInv'
<1>1. /\ Running /\ script # <<>> /\ script' = Tail(script)
      /\ UNCHANGED <<conf, due, hook, view>>
  BY DEF Install
<1>2. TypeOK /\ ViewCurrent /\ ScriptInv /\ Complete /\ CaughtUp
  BY DEF PackagesInv
<1>3. /\ Head(script) = script[1] /\ script[1] \in Command /\ Allowed(script[1], view)
      /\ script' \in Seq(Command) /\ ScriptOK' /\ OnlyInstalls'
  BY <1>1, <1>2, NextCommand
<1>4. /\ view \in Conf /\ conf \in Conf /\ hook \in Hooks
      /\ PluginAgent(view) = PluginAgent(conf) /\ SriovAgent(view) = SriovAgent(conf)
      /\ view.container = conf.container
      /\ "config-changed" \notin due =>
           /\ enable_local_dhcp(view) <=> enable_local_dhcp(conf)
           /\ enable_sriov(view) <=> enable_sriov(conf)
      /\ API \notin due => (use_dvr(view) <=> use_dvr(conf))
  BY <1>1, <1>2, SameSettings
<1>5. TypeOK' /\ ViewCurrent'
  BY <1>1, <1>2, <1>3 DEF TypeOK, ViewCurrent
<1> DEFINE want == determine_packages(view)
<1>6. /\ "neutron-l3-agent" \in want <=> use_dvr(view)
      /\ "neutron-dhcp-agent" \in want <=> enable_local_dhcp(view)
      /\ "neutron-metadata-agent" \in want <=> enable_local_dhcp(view)
  BY <1>4, WantedPackages
<1> HIDE DEF want
<1>7. PICK S : /\ \/ script[1].cmd = "install" /\ S = want \ installed
                  \/ script[1].cmd = "add" /\ S = {"keepalived"} /\ use_dvr(view)
               /\ installed' = installed \cup S \cup DependsOf(S)
               /\ auto' = (auto \cup (DependsOf(S) \ installed)) \ S
  <2>1. CASE Head(script).cmd = "install" /\ Get(Head(script).pkgs \ installed)
    <3>1. script[1].cmd = "install" /\ script[1].pkgs = want
      BY <1>3, <2>1 DEF Allowed, want
    <3> QED BY <1>3, <2>1, <3>1 DEF Get
  <2>2. CASE Head(script).cmd = "add" /\ Get(Head(script).pkgs)
    <3>1. script[1].cmd = "add" /\ script[1].pkgs = {"keepalived"} /\ use_dvr(view)
      BY <1>3, <2>2 DEF Allowed, L3HA_PACKAGES
    <3> QED BY <1>3, <2>2, <3>1 DEF Get
  <2> QED BY <2>1, <2>2 DEF Install
<1>8. /\ \A p \in S : Depends(p) \subseteq DependsOf(S)
      /\ \A p \in DependsOf(S) :
            p \in {"neutron-metadata-agent", "keepalived", "openvswitch-switch", "dpdk"}
      /\ "neutron-l3-agent" \notin S =>
            DependsOf(S) \subseteq {"openvswitch-switch", "dpdk"}
  <2>1. \A p \in S : Depends(p) \subseteq DependsOf(S)
    BY DEF DependsOf
  <2>2. \A p \in DependsOf(S) : \E q \in S : p \in Depends(q)
    BY DEF DependsOf
  <2> QED BY <2>1, <2>2, Dependencies
<1>9. \A p \in DependsOf(S) : Depends(p) = {}
  BY <1>8, Dependencies
<1>10. script[1].cmd = "install" => want \subseteq installed'
  BY <1>7
<1>11. /\ installed \subseteq installed'
       /\ "neutron-l3-agent" \in installed' => "neutron-l3-agent" \in installed \/ use_dvr(view)
       /\ "neutron-dhcp-agent" \in installed' =>
             "neutron-dhcp-agent" \in installed \/ enable_local_dhcp(view)
       /\ "neutron-metadata-agent" \in installed' =>
             "neutron-metadata-agent" \in installed \/ enable_local_dhcp(view) \/ use_dvr(view)
  BY <1>6, <1>7, <1>8
<1>12. Complete'
  <2>1. \A p \in installed' : Depends(p) \subseteq installed'
    BY <1>2, <1>7, <1>8, <1>9 DEF Complete
  <2>2. PluginAgent(conf') \in installed'
    BY <1>1, <1>2, <1>11 DEF Complete
  <2>3. auto' \subseteq {"neutron-metadata-agent", "keepalived", "openvswitch-switch", "dpdk"}
    BY <1>2, <1>7, <1>8 DEF Complete
  <2>4. conf.container => ~use_dvr(view) /\ ~enable_local_dhcp(view)
    BY <1>4 DEF use_dvr, enable_local_dhcp
  <2> QED BY <1>1, <1>2, <1>11, <2>1, <2>2, <2>3, <2>4 DEF Complete
<1>13. \/ script' # <<>> /\ script'[Len(script')] = script[Len(script)]
       \/ script[1] = script[Len(script)] /\ script' = <<>>
  BY <1>1, <1>2, RestOfScript DEF TypeOK
<1>14. EndsInstalled'
  BY <1>1, <1>2, <1>10, <1>13 DEF ScriptInv, EndsInstalled, LastIs, want
<1>15. EndsPurged'
  <2>1. script[1].cmd \in {"install", "add"} /\ 1 \in 1..Len(script)
    BY <1>1, <1>2, <1>7, RestOfScript DEF TypeOK
  <2> QED BY <1>1, <1>2, <1>13, <2>1 DEF ScriptInv, EndsPurged, LastIs
<1>16. InstallFirst'
  BY <1>1, <1>2, <1>10, <1>11 DEF ScriptInv, InstallFirst, FirstIs, Installing, want
<1>17. L3Purged'
  BY <1>1, <1>2, <1>7, <1>11 DEF ScriptInv, L3Purged, FirstIs
<1>18. SriovServed'
  BY <1>1, <1>2, <1>11 DEF CaughtUp, SriovServed, Pending
<1>19. DhcpServed'
  BY <1>1, <1>2, <1>4, <1>11 DEF CaughtUp, DhcpServed, Pending
<1>20. DvrServed'
  BY <1>1, <1>2, <1>4, <1>11 DEF CaughtUp, DvrServed, Pending
<1>21. MetadataGone'
  BY <1>1, <1>2, <1>4, <1>11 DEF CaughtUp, MetadataGone, Pending
<1> QED BY <1>3, <1>5, <1>12, <1>14, <1>15, <1>16, <1>17, <1>18, <1>19, <1>20, <1>21
        DEF PackagesInv, ScriptInv, CaughtUp

\* What a purge takes: nothing that the settings of the hook call for.
LEMMA PurgedPackages ==
  ASSUME NEW v \in Conf, NEW c, Harmless(c, v), NEW present, present \subseteq c.pkgs
  PROVE  /\ \A p \in determine_packages(v) : p \notin present /\ Depends(p) \cap present = {}
         /\ "haproxy" \notin present /\ Depends("haproxy") \cap present = {}
<1>1. /\ present \subseteq Removable
      /\ present \cap determine_packages(v) = {}
      /\ use_dvr(v) => present \cap {"neutron-metadata-agent", "keepalived"} = {}
  BY DEF Harmless
<1>2. Removable = {"neutron-dhcp-agent", "neutron-metadata-agent", "neutron-l3-agent",
                   "libnetfilter-log1", "keepalived", "python-neutron", "python-neutron-fwaas"}
  BY DEF Removable, DHCP_PACKAGES, DVR_PACKAGES, L3HA_PACKAGES, PURGE_PACKAGES
<1>3. \A q \in present : q \notin {"openvswitch-switch", "dpdk", "haproxy"}
  <2>1. \A q \in Removable : q \notin {"openvswitch-switch", "dpdk", "haproxy"}
    BY <1>2
  <2> QED BY <1>1, <2>1
<1>4. \A p \in determine_packages(v) : Depends(p) \cap present = {}
  <2> TAKE p \in determine_packages(v)
  <2>1. CASE p = "neutron-l3-agent"
    <3>1. use_dvr(v)
      BY <2>1, WantedPackages
    <3>2. Depends(p) = {"neutron-metadata-agent", "keepalived"}
      BY <2>1, Dependencies
    <3> QED BY <1>1, <3>1, <3>2
  <2>2. CASE p # "neutron-l3-agent"
    <3>1. Depends(p) \subseteq {"openvswitch-switch", "dpdk"}
      BY <2>2, Dependencies
    <3> QED BY <1>3, <3>1
  <2> QED BY <2>1, <2>2
<1>5. Depends("haproxy") \cap present = {}
  <2>1. Depends("haproxy") \subseteq {"openvswitch-switch", "dpdk"}
    BY Dependencies
  <2> QED BY <1>3, <2>1
<1>6. \A p \in determine_packages(v) : p \notin present
  BY <1>1
<1> QED BY <1>3, <1>4, <1>5, <1>6

\* A purge, with what it leaves.
LEMMA PurgeInv ==
  ASSUME PackagesInv, Purge
  PROVE  /\ PackagesInv'
         /\ determine_packages(view) \cap installed \subseteq installed'
         /\ "haproxy" \in installed => "haproxy" \in installed'
<1> DEFINE present == script[1].pkgs \cap installed
           want == determine_packages(view)
<1>1. /\ Running /\ script # <<>> /\ Head(script).cmd = "purge"
      /\ UNCHANGED <<conf, due, hook, view>>
      /\ \/ script' = Tail(script)
         \/ script' = <<[cmd |-> "autoremove", pkgs |-> {}]>> \o Tail(script)
  BY DEF Purge
<1>2. TypeOK /\ ViewCurrent /\ ScriptInv /\ Complete /\ CaughtUp
  BY DEF PackagesInv
<1>3. /\ Head(script) = script[1] /\ script[1] \in Command /\ Allowed(script[1], view)
      /\ script' \in Seq(Command) /\ ScriptOK'
      /\ hook = JOINED /\ enable_local_dhcp(view) => script[1].cmd = "install"
  BY <1>1, <1>2, NextCommand
<1>4. /\ view \in Conf /\ conf \in Conf /\ hook \in Hooks
      /\ PluginAgent(view) = PluginAgent(conf) /\ SriovAgent(view) = SriovAgent(conf)
      /\ view.container = conf.container
      /\ "config-changed" \notin due =>
           /\ enable_local_dhcp(view) <=> enable_local_dhcp(conf)
           /\ enable_sriov(view) <=> enable_sriov(conf)
      /\ API \notin due => (use_dvr(view) <=> use_dvr(conf))
  BY <1>1, <1>2, SameSettings
<1>5. TypeOK' /\ ViewCurrent'
  BY <1>1, <1>2, <1>3 DEF TypeOK, ViewCurrent
<1>6. /\ PluginAgent(view) \in want
      /\ "neutron-l3-agent" \in want <=> use_dvr(view)
      /\ "neutron-dhcp-agent" \in want <=> enable_local_dhcp(view)
      /\ "neutron-metadata-agent" \in want <=> enable_local_dhcp(view)
      /\ enable_sriov(view) => SriovAgent(view) \in want
  BY <1>4, WantedPackages
<1>7. /\ \A p \in want : p \notin present /\ Depends(p) \cap present = {}
      /\ "haproxy" \notin present /\ Depends("haproxy") \cap present = {}
  <2>1. Harmless(script[1], view)
    BY <1>1, <1>3 DEF Allowed
  <2> QED BY <1>4, <2>1, PurgedPackages
<1> HIDE DEF want, present
<1>8. /\ installed' = {p \in installed : p \notin present /\ Depends(p) \cap present = {}}
      /\ auto' \subseteq auto
  <2>1. CASE present = {}
    <3>1. installed' = installed /\ auto' = auto
      BY <1>3, <2>1 DEF Purge, present
    <3> QED BY <2>1, <3>1
  <2>2. CASE present # {}
    <3>1. Drop(present)
      BY <1>3, <2>2 DEF Purge, present
    <3> QED BY <3>1 DEF Drop
  <2> QED BY <2>1, <2>2
<1>9. /\ want \cap installed \subseteq installed' /\ installed' \subseteq installed
      /\ "haproxy" \in installed => "haproxy" \in installed'
      /\ script[1].pkgs \cap installed' = {}
  BY <1>7, <1>8 DEF present
<1>10. Complete'
  <2>1. ASSUME NEW p \in installed', NEW q \in Depends(p)
        PROVE  q \in installed'
    <3>1. q \in installed /\ q \notin present
      BY <1>2, <1>8, <2>1 DEF Complete
    <3>2. Depends(q) = {}
      BY <2>1, Dependencies
    <3> QED BY <1>8, <3>1, <3>2
  <2> QED BY <1>1, <1>2, <1>4, <1>6, <1>8, <1>9, <2>1 DEF Complete
<1>11. /\ \/ script' # <<>> /\ script'[Len(script')] = script[Len(script)]
          \/ /\ script[1] = script[Len(script)]
             /\ \A i \in 1..Len(script') : script'[i].cmd = "autoremove"
       /\ 1 \in 1..Len(script)
  BY <1>1, <1>2, RestOfScript DEF TypeOK
<1>12. EndsInstalled' /\ OnlyInstalls'
  BY <1>1, <1>2, <1>3, <1>11 DEF ScriptInv, EndsInstalled, LastIs, OnlyInstalls
<1>13. EndsPurged'
  BY <1>1, <1>2, <1>3, <1>9, <1>11 DEF ScriptInv, EndsPurged, LastIs
<1>14. InstallFirst'
  BY <1>1, <1>2, <1>3, <1>9 DEF ScriptInv, InstallFirst, FirstIs, Installing, want
<1>15. L3Purged'
  BY <1>1, <1>2, <1>9 DEF ScriptInv, L3Purged
<1>16. SriovServed'
  BY <1>1, <1>2, <1>4, <1>6, <1>9 DEF CaughtUp, SriovServed, Pending
<1>17. DhcpServed'
  BY <1>1, <1>2, <1>4, <1>6, <1>9 DEF CaughtUp, DhcpServed, Pending
<1>18. DvrServed'
  BY <1>1, <1>2, <1>4, <1>6, <1>9 DEF CaughtUp, DvrServed, Pending
<1>19. MetadataGone'
  BY <1>1, <1>2, <1>9 DEF CaughtUp, MetadataGone, Pending
<1> QED BY <1>3, <1>5, <1>9, <1>10, <1>12, <1>13, <1>14, <1>15, <1>16, <1>17, <1>18, <1>19
        DEF PackagesInv, ScriptInv, CaughtUp, want

\* An autoremove may take the metadata agent where the settings call for it: only
\* in the api hook, whose last command installs it again, or in config-changed.
LEMMA AutoremoveInv ==
  ASSUME PackagesInv, Autoremove
  PROVE  /\ PackagesInv'
         /\ "haproxy" \in installed => "haproxy" \in installed'
<1> DEFINE want == determine_packages(view)
<1>1. /\ Running /\ script # <<>> /\ Head(script).cmd = "autoremove"
      /\ UNCHANGED <<conf, due, hook, view>>
      /\ script' = Tail(script)
      /\ installed' = installed \ Orphans /\ auto' = auto \ Orphans
  BY DEF Autoremove
<1>2. TypeOK /\ ViewCurrent /\ ScriptInv /\ Complete /\ CaughtUp
  BY DEF PackagesInv
<1>3. /\ Head(script) = script[1] /\ script[1] \in Command /\ Allowed(script[1], view)
      /\ script' \in Seq(Command) /\ ScriptOK' /\ OnlyInstalls'
      /\ hook = JOINED /\ enable_local_dhcp(view) => script[1].cmd = "install"
  BY <1>1, <1>2, NextCommand
<1>4. /\ view \in Conf /\ conf \in Conf /\ hook \in Hooks
      /\ PluginAgent(conf) \in {"neutron-openvswitch-agent", "neutron-plugin-openvswitch-agent"}
      /\ SriovAgent(conf) \in {"neutron-sriov-agent", "neutron-plugin-sriov-agent"}
      /\ view.container = conf.container
      /\ "config-changed" \notin due => (enable_local_dhcp(view) <=> enable_local_dhcp(conf))
  BY <1>1, <1>2, SameSettings, NamesOfAgents
<1>5. TypeOK' /\ ViewCurrent'
  BY <1>1, <1>2, <1>3 DEF TypeOK, ViewCurrent
<1>6. /\ "neutron-l3-agent" \in want <=> use_dvr(view)
      /\ "keepalived" \in want => use_dvr(view)
      /\ "neutron-metadata-agent" \in want <=> enable_local_dhcp(view)
      /\ "openvswitch-switch" \notin want /\ "dpdk" \notin want
  BY <1>4, WantedPackages
<1> HIDE DEF want
<1>7. /\ Orphans \subseteq auto
      /\ \A p \in Orphans, q \in installed : p \notin Depends(q)
      /\ \A p \in Orphans :
            p \in {"neutron-metadata-agent", "keepalived", "openvswitch-switch", "dpdk"}
  BY <1>2 DEF Orphans, DependsOf, Complete
<1>8. installed' \subseteq installed /\ ("haproxy" \in installed => "haproxy" \in installed')
  BY <1>1, <1>7
<1>9. Complete'
  BY <1>1, <1>2, <1>4, <1>7 DEF Complete
<1>10. /\ \/ script' # <<>> /\ script'[Len(script')] = script[Len(script)]
          \/ /\ script[1] = script[Len(script)]
             /\ script' = <<>>
       /\ 1 \in 1..Len(script)
       /\ \A i \in 1..Len(script') : \E j \in 1..Len(script) : script'[i] = script[j]
  BY <1>1, <1>2, RestOfScript DEF TypeOK
<1>11. EndsInstalled'
  BY <1>1, <1>2, <1>3, <1>10 DEF ScriptInv, EndsInstalled, LastIs
<1>12. EndsPurged'
  BY <1>1, <1>2, <1>3, <1>8, <1>10 DEF ScriptInv, EndsPurged, LastIs
<1>13. ~enable_local_dhcp(view) /\ want \subseteq installed => want \subseteq installed'
  <2> SUFFICES ASSUME ~enable_local_dhcp(view), want \subseteq installed, NEW p \in want
               PROVE  p \notin Orphans
    BY <1>1
  <2>1. CASE p = "keepalived"
    BY <1>6, <1>7, <2>1, Dependencies
  <2>2. CASE p # "keepalived"
    BY <1>6, <1>7, <2>2
  <2> QED BY <2>1, <2>2
<1>14. InstallFirst'
  BY <1>1, <1>2, <1>3, <1>13 DEF ScriptInv, InstallFirst, FirstIs, Installing, want
<1>15. L3Purged'
  BY <1>1, <1>2, <1>3, <1>8 DEF ScriptInv, L3Purged, FirstIs
<1>16. SriovServed'
  BY <1>1, <1>2, <1>4, <1>7 DEF CaughtUp, SriovServed, Pending
<1>17. DhcpServed'
  <2>1. ~Pending("config-changed") /\ enable_local_dhcp(conf) => hook = API
    BY <1>1, <1>3, <1>4 DEF Pending, Hooks, API, JOINED
  <2> QED BY <1>1, <1>2, <1>8, <2>1 DEF CaughtUp, DhcpServed, Pending
<1>18. DvrServed'
  BY <1>1, <1>2, <1>7 DEF CaughtUp, DvrServed, Pending
<1>19. MetadataGone'
  BY <1>1, <1>2, <1>8 DEF CaughtUp, MetadataGone, Pending
<1> QED BY <1>3, <1>5, <1>8, <1>9, <1>11, <1>12, <1>14, <1>15, <1>16, <1>17, <1>18, <1>19
        DEF PackagesInv, ScriptInv, CaughtUp

-----------------------------------------------------------------------------
LEMMA StepInv == PackagesInv /\ [Next]_vars => PackagesInv'
<1> SUFFICES ASSUME PackagesInv, [Next]_vars PROVE PackagesInv'
  OBVIOUS
<1>1. CASE ChangeConfig \/ ChangeRelation
  BY <1>1, ChangeInv
<1>2. CASE \E h \in Hooks : Begin(h)
  BY <1>2, BeginInv
<1>3. CASE Install
  BY <1>3, InstallInv
<1>4. CASE Purge
  BY <1>4, PurgeInv
<1>5. CASE Autoremove
  BY <1>5, AutoremoveInv
<1>6. CASE Fail
  BY <1>6, FailInv
<1>7. CASE Finish
  BY <1>7, FinishInv
<1>8. CASE UNCHANGED vars
  BY <1>8 DEF vars, PackagesInv, TypeOK, ViewCurrent, ScriptInv, ScriptOK, EndsInstalled,
              EndsPurged, InstallFirst, L3Purged, OnlyInstalls, LastIs, FirstIs, Installing,
              Complete, CaughtUp, SriovServed, DhcpServed, DvrServed, MetadataGone, Pending
<1> QED BY <1>1, <1>2, <1>3, <1>4, <1>5, <1>6, <1>7, <1>8 DEF Next

LEMMA Invariance == Spec => []PackagesInv
<1>1. Init => PackagesInv
  BY InitInv
<1>2. PackagesInv /\ [Next]_vars => PackagesInv'
  BY StepInv
<1> QED BY <1>1, <1>2, PTL DEF Spec

\* Whatever order the settings changed in and whichever commands failed: once no hook
\* has anything left to do, the packages of the unit's services are installed, and
\* those of the agents it does not run are not.  (install_packages, purge_packages)
THEOREM ServicesGetInstalled == Spec => []ServicesInstalled
<1>1. PackagesInv => ServicesInstalled
  <2> SUFFICES ASSUME PackagesInv, hook = "none", due = {}
               PROVE  /\ services(conf) \subseteq installed
                      /\ {"neutron-l3-agent", "neutron-dhcp-agent", "neutron-metadata-agent"}
                            \cap installed \subseteq services(conf)
    BY DEF ServicesInstalled
  <2>1. conf \in Conf /\ Complete /\ CaughtUp /\ ~Pending("config-changed") /\ ~Pending(API)
    BY DEF PackagesInv, TypeOK, Pending, API
  <2>2. services(conf) =
          {PluginAgent(conf), "openvswitch-switch"}
             \cup (IF use_dvr(conf) THEN {"neutron-metadata-agent", "neutron-l3-agent"} ELSE {})
             \cup (IF enable_local_dhcp(conf)
                   THEN {"neutron-metadata-agent", "neutron-dhcp-agent"} ELSE {})
             \cup (IF enable_sriov(conf) THEN {SriovAgent(conf)} ELSE {})
    BY <2>1, ServicesOfConf
  <2>3. PluginAgent(conf) \in installed /\ "openvswitch-switch" \in installed
    BY <2>1, NamesOfAgents, Dependencies DEF Complete
  <2>4. "neutron-l3-agent" \in installed => "neutron-metadata-agent" \in installed
    BY <2>1, Dependencies DEF Complete
  <2>5. /\ "neutron-l3-agent" \in installed <=> use_dvr(conf)
        /\ "neutron-dhcp-agent" \in installed <=> enable_local_dhcp(conf)
        /\ enable_local_dhcp(conf) => "neutron-metadata-agent" \in installed
        /\ ~enable_local_dhcp(conf) /\ ~use_dvr(conf) => "neutron-metadata-agent" \notin installed
        /\ enable_sriov(conf) => SriovAgent(conf) \in installed
    BY <2>1 DEF CaughtUp, SriovServed, DhcpServed, DvrServed, MetadataGone, API
  <2> QED BY <2>2, <2>3, <2>4, <2>5
<1> QED BY <1>1, Invariance, PTL

\* No purge takes a package that the settings of the hook call for, by itself or
\* through what it depends on.  (purge_packages, LP 1515008, LP 1819499)
THEOREM PurgesAreSparing == Spec => PurgeSpares
<1>1. PackagesInv /\ [Next]_vars =>
        [Purge => determine_packages(view) \cap installed \subseteq installed']_vars
  BY PurgeInv
<1> QED BY <1>1, Invariance, PTL DEF Spec, PurgeSpares

\* No command of a hook removes haproxy.  (LP 1832739: METADATA_PACKAGES without it)
THEOREM HaproxyStays == Spec => HaproxyKept
<1>1. PackagesInv /\ [Next]_vars => ["haproxy" \in installed => "haproxy" \in installed']_vars
  <2> SUFFICES ASSUME PackagesInv, Next, "haproxy" \in installed PROVE "haproxy" \in installed'
    OBVIOUS
  <2>1. CASE Install
    BY <2>1 DEF Install, Get
  <2>2. CASE Purge
    BY <2>2, PurgeInv
  <2>3. CASE Autoremove
    BY <2>3, AutoremoveInv
  <2>4. CASE ~Install /\ ~Purge /\ ~Autoremove
    <3>1. installed' = installed
      BY <2>4 DEF Next, ChangeConfig, ChangeRelation, Change, Begin, Fail, Finish
    <3> QED BY <3>1
  <2> QED BY <2>1, <2>2, <2>3, <2>4
<1> QED BY <1>1, Invariance, PTL DEF Spec, HaproxyKept
=============================================================================
