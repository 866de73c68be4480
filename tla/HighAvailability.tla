---------------------------- MODULE HighAvailability ----------------------------
(***************************************************************************)
(* contrib/openstack/ha/utils.py and hahelpers/cluster.py: what a charm    *)
(* tells hacluster to run, from its options vip, dns-ha, os-*-hostname and *)
(* from the interfaces of the unit.  The relation keeps a key until it is  *)
(* set again, and hacluster keeps a resource until it is told to delete    *)
(* it; old releases named the resource of a VIP by its interface.          *)
(***************************************************************************)
EXTENDS Naturals, Sequences, FiniteSets, SequencesExt

CONSTANTS
    Vips,       \* the addresses that may be virtual
    Nics,       \* interfaces
    Types,      \* types of endpoints that may have a hostname
    NoNic,
    MaxMoves    \* bound: changes of the options and the interfaces

VARIABLES
    options,    \* vip, dns-ha, the hostnames, vip_iface
    nic_of,     \* the interface on the network of each VIP
    told,       \* what the ha relation says
    served,     \* the resources of the cluster
    fresh,      \* history: the relation, and the cluster, follow the options of now
    moves

ha_vars == <<options, nic_of, told, served, fresh, moves>>

Lists == {<<>>} \cup {<<v>> : v \in Vips} \cup {p \in Vips \X Vips : p[1] # p[2]}
HaOptions == [vips : Lists, dns : BOOLEAN, hostnames : SUBSET Types, vip_iface : {NoNic} \cup Nics]

\* Names of resources.
Haproxy == <<"haproxy">>
VipKey(v) == <<"vip", v>>
NicKey(nic) == <<"nic", nic>>
NicFamilyKey(nic) == <<"nic", nic, "family">>
HostnameKey(t) == <<"hostname", t>>

Init ==
    /\ options \in [vips : {<<v>> : v \in Vips}, dns : {FALSE}, hostnames : {{}}, vip_iface : {NoNic}]
    /\ nic_of \in [Vips -> Nics \cup {NoNic}]
    /\ told = [resources |-> {}, group |-> {}, delete |-> {}]
    /\ served \in {{}, {NicKey(n) : n \in Nics}}
    /\ fresh = [told |-> FALSE, served |-> FALSE]
    /\ moves = 0

\* One option, or the interface of one VIP, changes.
Move ==
    /\ moves < MaxMoves /\ moves' = moves + 1
    /\ \/ /\ \/ \E l \in Lists : options' = [options EXCEPT !.vips = l]
             \/ options' = [options EXCEPT !.dns = ~@]
             \/ \E h \in SUBSET Types : options' = [options EXCEPT !.hostnames = h]
             \/ \E n \in {NoNic} \cup Nics : options' = [options EXCEPT !.vip_iface = n]
          /\ UNCHANGED nic_of
       \/ /\ \E v \in Vips, n \in {NoNic} \cup Nics : nic_of' = [nic_of EXCEPT ![v] = n]
          /\ UNCHANGED options
    /\ fresh' = [told |-> FALSE, served |-> FALSE]
    /\ UNCHANGED <<told, served>>

-----------------------------------------------------------------------------
\* Either vip or dns-ha, and with dns-ha a hostname.
valid_hacluster_config ==
    /\ (options.vips # <<>>) # options.dns
    /\ options.dns => options.hostnames # {}

\* Mutant: only an interface that was found counts.
found_nic(v) == nic_of[v]
\* get_vip_settings: the interface of the option when none is on the VIP's network.
get_vip_settings(v) == IF nic_of[v] # NoNic THEN nic_of[v] ELSE options.vip_iface
VipsWithNic == {i \in DOMAIN options.vips : get_vip_settings(options.vips[i]) # NoNic}

\* The old name of a VIP's resource is deleted; that of a second VIP on the interface
\* had its family in it.
update_hacluster_vip ==
    [resources |-> {VipKey(options.vips[i]) : i \in VipsWithNic},
     group |-> {VipKey(options.vips[i]) : i \in VipsWithNic},
     delete |-> {LET nic == get_vip_settings(options.vips[i])
                 IN IF \E j \in VipsWithNic : j < i /\ get_vip_settings(options.vips[j]) = nic
                    THEN NicFamilyKey(nic) ELSE NicKey(nic) : i \in VipsWithNic}]

\* Each hostname that is set has a resource of the address of its type.
update_hacluster_dns_ha ==
    [resources |-> {HostnameKey(t) : t \in options.hostnames},
     group |-> {HostnameKey(t) : t \in options.hostnames},
     delete |-> {}]

\* The options decide; a hook that finds them wrong fails and tells nothing.
Raises == IF options.dns THEN options.hostnames = {} ELSE ~valid_hacluster_config
Chosen == IF options.dns THEN update_hacluster_dns_ha ELSE update_hacluster_vip

\* A key that has nothing to say is left as it was.
generate_ha_relation_data ==
    /\ ~Raises
    /\ told' = [resources |-> Chosen.resources \cup {Haproxy},
                group |-> IF Chosen.group = {} THEN told.group ELSE Chosen.group,
                delete |-> IF Chosen.delete = {} THEN told.delete ELSE Chosen.delete]
    /\ fresh' = [told |-> TRUE, served |-> FALSE]
    /\ UNCHANGED <<options, nic_of, served, moves>>

\* hacluster deletes, and then creates.
Apply ==
    /\ told.resources # {}
    /\ served' = (served \ told.delete) \cup told.resources
    /\ fresh' = [fresh EXCEPT !.served = fresh.told]
    /\ UNCHANGED <<options, nic_of, told, moves>>

Next == Move \/ generate_ha_relation_data \/ Apply
Spec == Init /\ [][Next]_ha_vars

-----------------------------------------------------------------------------
\* What hacluster is told to run it is never told to delete, whatever keys an earlier
\* configuration has left in the relation.  (generate_ha_relation_data)
NeverBoth == told.resources \cap told.delete = {}

\* Once hacluster has done what the options of now ask for, it runs each VIP that has an
\* interface, found or given, or each hostname, and no VIP by its old name beside it.
\* (update_hacluster_vip, update_hacluster_dns_ha)
ServedAsAsked ==
    fresh.served =>
        IF options.dns THEN \A t \in options.hostnames : HostnameKey(t) \in served
        ELSE \A v \in ToSet(options.vips) :
               LET nic == IF nic_of[v] = NoNic THEN options.vip_iface ELSE nic_of[v]
               IN nic # NoNic => VipKey(v) \in served /\ NicKey(nic) \notin served

\* VIPs and hostnames are never asked for together.  (generate_ha_relation_data)
OneMode == ~\E v \in Vips, t \in Types : {VipKey(v), HostnameKey(t)} \subseteq told.resources

\* VIPs and DNS names never both, served as asked, in one mode.  (generate_ha_relation_data)
HaRight == NeverBoth /\ ServedAsAsked /\ OneMode

-----------------------------------------------------------------------------
\* What the documentation says and the code does not do.

\* cluster.py:331 "Either vip or dns-ha must be set but not both": with both, DNS is used.
BothRefused == fresh.told => valid_hacluster_config

\* ha/utils.py:135 "Based on configuration options and unit interfaces": a VIP that is no
\* longer in the option is not deleted.
RemovedGone ==
    fresh.served => \A v \in Vips : VipKey(v) \in served => v \in ToSet(options.vips)

\* The group names only resources that hacluster is told of.
GroupExists == told.group \subseteq told.resources
=============================================================================
