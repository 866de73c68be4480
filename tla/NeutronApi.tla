------------------------------ MODULE NeutronApi ------------------------------
(***************************************************************************)
(* What the unit takes from neutron-plugin-api: the settings of Neutron,   *)
(* sent by every unit of neutron-api, and the contexts, services and       *)
(* relation data computed from them together with the charm config.  A     *)
(* setting that is off by default is a member of a set when it is on.      *)
(***************************************************************************)
EXTENDS Naturals, Sequences, SequencesExt

CONSTANT MaxApiUnits  \* bound: units of neutron-api

VARIABLES
    api,      \* the units of neutron-api, in the order of related_units
    settings  \* charm config and host

napi_vars == <<api, settings>>

Options == {"enable-dvr", "enable-nsg-logging", "enable-port-forwarding"}
\* `sent' has the key l2-population, `on' the options sent as true.
Unit == [sent : BOOLEAN, on : SUBSET Options]

Config == [container : BOOLEAN, stein : BOOLEAN, xenial : BOOLEAN,
           enable_local_dhcp_and_metadata : BOOLEAN, use_dvr_snat : BOOLEAN,
           firewall_driver : {"iptables_hybrid", "openvswitch", "other"},
           log_base : {"", "missing/file", "dir", "file"}]

-----------------------------------------------------------------------------
\* Mutant: options of several units are merged, the defaults of one unit do not
\* override what another one has sent.
OptionsMerged(units) == UNION {units[i].on : i \in {j \in DOMAIN units : units[j].sent}}

\* get_neutron_options for every unit that sends data in a recent format: each
\* replaces all options, those it has not sent by their defaults.
Options_(units) ==
    FoldLeft(LAMBDA on, u : IF u.sent THEN u.on ELSE on, {}, units)

NeutronAPIContext(units) ==
    LET on == Options_(units)
    IN [on |-> on,
        extension_drivers |-> IF "enable-nsg-logging" \in on THEN {"log"} ELSE {},
        l3_extension_plugins |->
            IF "enable-port-forwarding" \in on THEN {"port_forwarding"} ELSE {}]

\* get_nsg_log_path, validate_nfg_log_path: None stands for syslog.
LogPath(base) == IF base = "file" THEN base ELSE "None"

\* _get_firewall_driver
FirewallDriver(c) ==
    IF c.firewall_driver = "openvswitch" /\ c.xenial THEN "openvswitch" ELSE "iptables_hybrid"

OVSPluginContext(c, units) ==
    LET napi == NeutronAPIContext(units)
    IN [distributed_routing |-> "enable-dvr" \in napi.on,
        extension_drivers |-> napi.extension_drivers,
        firewall_driver |-> FirewallDriver(c),
        enable_nsg_logging |-> /\ "enable-nsg-logging" \in napi.on
                               /\ FirewallDriver(c) = "openvswitch",
        nsg_log_output_base |-> LogPath(c.log_base)]

L3AgentContext(c, units) ==
    LET napi == NeutronAPIContext(units)
    IN [agent_mode |-> CASE "enable-dvr" \notin napi.on -> "legacy"
                         [] "enable-dvr" \in napi.on /\ c.use_dvr_snat -> "dvr_snat"
                         [] OTHER -> "dvr",
        nfg_log_output_base |-> LogPath(c.log_base),
        l3_extension_plugins |-> napi.l3_extension_plugins
                                     \cup (IF c.stein THEN {"fwaas_v2"} ELSE {})]

\* Is there a shared secret in the context?
SharedSecretContext(c, units) ==
    "enable-dvr" \in NeutronAPIContext(units).on \/ c.enable_local_dhcp_and_metadata

use_dvr(c, units)     == ~c.container /\ "enable-dvr" \in NeutronAPIContext(units).on
enable_local_dhcp(c)  == ~c.container /\ c.enable_local_dhcp_and_metadata

enable_nova_metadata(c, units) == ~c.container /\ (use_dvr(c, units) \/ enable_local_dhcp(c))

\* The part of resource_map that depends on the relation.
Agents(c, units) ==
    (IF use_dvr(c, units) THEN {"l3", "metadata"} ELSE {})
        \cup (IF enable_local_dhcp(c) THEN {"dhcp", "metadata"} ELSE {})

\* neutron_plugin_joined: the secret the principal charm gets.
Exported(c, units) == enable_nova_metadata(c, units) /\ SharedSecretContext(c, units)

-----------------------------------------------------------------------------
Init ==
    /\ api = <<>>
    /\ settings = [container |-> FALSE, stein |-> FALSE, xenial |-> FALSE,
                   enable_local_dhcp_and_metadata |-> FALSE, use_dvr_snat |-> FALSE,
                   firewall_driver |-> "other", log_base |-> ""]

Join ==
    /\ Len(api) < MaxApiUnits
    /\ api' = Append(api, [sent |-> FALSE, on |-> {}])
    /\ UNCHANGED settings

\* A unit sends an option, takes one back, or upgrades to the recent format.
Send(i) ==
    /\ i \in DOMAIN api
    /\ \/ \E o \in Options : api' = [api EXCEPT ![i].on = IF o \in @ THEN @ \ {o} ELSE @ \cup {o}]
       \/ api' = [api EXCEPT ![i].sent = TRUE]
    /\ UNCHANGED settings

Depart(i) ==
    /\ i \in DOMAIN api
    /\ api' = RemoveAt(api, i)
    /\ UNCHANGED settings

Configure ==
    /\ \/ \E o \in {"container", "stein", "xenial", "enable_local_dhcp_and_metadata", "use_dvr_snat"} :
             settings' = [settings EXCEPT ![o] = ~@]
       \/ \E d \in {"iptables_hybrid", "openvswitch", "other"} :
             settings' = [settings EXCEPT !.firewall_driver = d]
       \/ \E b \in {"", "missing/file", "dir", "file"} :
             settings' = [settings EXCEPT !.log_base = b]
    /\ UNCHANGED api

Next ==
    \/ Join
    \/ \E i \in 1..MaxApiUnits : Send(i) \/ Depart(i)
    \/ Configure

Spec == Init /\ [][Next]_napi_vars

-----------------------------------------------------------------------------
\* While units of neutron-api disagree, as in the middle of an upgrade or of a
\* config change, the settings in use are those of one of them, the last one in
\* the recent format, and never a mixture.  (NeutronAPIContext)
OneUnitsSettings ==
    LET on == NeutronAPIContext(api).on
        recent == {i \in DOMAIN api : api[i].sent}
    IN /\ recent = {} => on = {}
       /\ recent # {} => \E i \in recent : on = api[i].on /\ \A j \in recent : j <= i

\* What different functions make of the same settings fits together: the unit
\* gives its secret to nova exactly when it runs a metadata agent, which then
\* has the secret, too; an L3 agent that runs is one of DVR; and security groups
\* are logged only with the driver that can.  (neutron_plugin_joined,
\* resource_map, SharedSecretContext, L3AgentContext, OVSPluginContext)
RolesAgree ==
    LET agents == Agents(settings, api)
        plugin == OVSPluginContext(settings, api)
    IN /\ Exported(settings, api) <=> "metadata" \in agents
       /\ "metadata" \in agents => SharedSecretContext(settings, api)
       /\ "l3" \in agents => /\ L3AgentContext(settings, api).agent_mode # "legacy"
                             /\ plugin.distributed_routing
       /\ plugin.enable_nsg_logging => /\ plugin.firewall_driver = "openvswitch"
                                       /\ "log" \in plugin.extension_drivers
                                       /\ settings.xenial

\* Settings are those of one neutron-api unit, and all roles agree on them.  (NeutronAPIContext)
SettingsFit == OneUnitsSettings /\ RolesAgree
=============================================================================
