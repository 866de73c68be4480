------------------------------- MODULE DataPorts -------------------------------
(***************************************************************************)
(* From config to network cards: data-port and ext-port name a card by its *)
(* name or by its MAC address, and a MAC address means the card only where *)
(* it exists and is free.  The host has a card eth0, a card eth1 that can  *)
(* be enslaved to bond0, and addresses and Linux bridges on any of them.   *)
(***************************************************************************)
EXTENDS Naturals, Sequences, FiniteSets, SequencesExt

CONSTANTS DataBridges, MaxMappings  \* bound: mappings of the config

VARIABLES
    nics,      \* the host's cards
    data_port  \* the mappings, <<bridge or "none", entry>>

ports_vars == <<nics, data_port>>

Names == {"eth0", "eth1", "bond0"}
Macs == {"m0", "m1"}
Host == [plugged : SUBSET {"eth0", "eth1"}, bonded : BOOLEAN,
         address : SUBSET Names, member : SUBSET Names]

Rest(mac) == IF mac = "m0" THEN "rest of m0" ELSE "rest of m1"
Octet == "00"
DEFAULT_BRIDGE == "br-data"

list_nics(h) == h.plugged \cup (IF h.bonded THEN {"bond0"} ELSE {})
get_nic_hwaddr(nic) == IF nic = "eth0" THEN "m0" ELSE "m1"
get_bond_master(h, nic) == IF nic = "eth1" /\ h.bonded THEN "bond0" ELSE "None"

-----------------------------------------------------------------------------
\* A mapping without a bridge has no colon, unless its entry is a MAC address.
HasColon(m) == m[1] # "none" \/ m[2] \in Macs
Key(m) == IF m[1] = "none" THEN Rest(m[2]) ELSE m[2]
Bridge(m) == IF m[1] = "none" THEN Octet ELSE m[1]

\* parse_mappings(key_rvalue=True): the last mapping of a key stays, in the place
\* of the first; the places do not matter here.
parse_mappings(c) ==
    LET pairs == {i \in DOMAIN c : HasColon(c[i])}
        last(k) == CHOOSE i \in pairs :
                       Key(c[i]) = k /\ \A j \in pairs : j > i => Key(c[j]) # k
    IN [k \in {Key(c[i]) : i \in pairs} |-> Bridge(c[last(k)])]

parse_data_port_mappings(c) ==
    IF DOMAIN parse_mappings(c) # {} THEN parse_mappings(c)
    ELSE IF c = <<>> THEN <<>>
    ELSE [k \in {c[1][2]} |-> DEFAULT_BRIDGE]

\* The card a MAC address stands for: physical, or the bond it is enslaved to.
CardsWith(h, mac) ==
    {IF get_bond_master(h, nic) = "None" THEN nic ELSE get_bond_master(h, nic) :
        nic \in {n \in h.plugged : get_nic_hwaddr(n) = mac}}

\* Mutant: does not ask whether the card has an address.
ResolveAddressed(h, entries) ==
    (entries \cap list_nics(h)) \cup UNION {CardsWith(h, e) \ h.member : e \in entries \cap Macs}

\* resolve_ports: a MAC address if its card is free, a name if there is one.
resolve_ports(h, entries) ==
    (entries \cap list_nics(h))
        \cup UNION {CardsWith(h, e) \ (h.address \cup h.member) : e \in entries \cap Macs}

\* DataPortContext: card -> bridge.  A mapping by name wins over one by address.
DataPortContext(h, c) ==
    LET portmap == parse_data_port_mappings(c)
        resolved == resolve_ports(h, DOMAIN portmap)
        entry(nic) == IF nic \in DOMAIN portmap THEN nic ELSE get_nic_hwaddr(nic)
    IN [nic \in resolved |-> portmap[entry(nic)]]

\* ExternalPortContext takes any one of these: list(set()) has no order.
ExternalPorts(h, c) == resolve_ports(h, {c[i][2] : i \in DOMAIN c})

\* PhyNICMTUContext: what a device is made of gets its MTU first.
LowerDevices(h, nic) == IF nic = "bond0" /\ h.bonded THEN {"eth1"} ELSE {}
MtuDevices(h, c) ==
    LET ports == DOMAIN DataPortContext(h, c)
    IN SetToSeq(UNION {LowerDevices(h, p) : p \in ports}) \o SetToSeq(ports)

-----------------------------------------------------------------------------
\* BridgePortInterfaceMap without DPDK: <<bridge, port, interface>>.
MappedInterfaces(h, m) ==
    IF m[2] \in Macs THEN {<<m[1], nic, nic>> : nic \in CardsWith(h, m[2])}
    ELSE {<<m[1], m[2], m[2]>>}
BridgePortInterfaceMap(h, c) == UNION {MappedInterfaces(h, c[i]) : i \in DOMAIN c}

-----------------------------------------------------------------------------
Init ==
    /\ nics = [plugged |-> {}, bonded |-> FALSE, address |-> {}, member |-> {}]
    /\ data_port = <<>>

\* The host's network is set up by its operator.
Plug(nic) ==
    /\ nics' = [nics EXCEPT !.plugged = @ \cup {nic}]
    /\ UNCHANGED data_port

Bond ==
    /\ "eth1" \in nics.plugged
    /\ nics' = [nics EXCEPT !.bonded = TRUE, !.address = @ \ {"eth1"}, !.member = @ \ {"eth1"}]
    /\ UNCHANGED data_port

Use(nic) ==
    /\ nic \in list_nics(nics) /\ get_bond_master(nics, nic) = "None"
    /\ \/ nics' = [nics EXCEPT !.address = @ \cup {nic}]
       \/ nics' = [nics EXCEPT !.member = @ \cup {nic}]
    /\ UNCHANGED data_port

Map(bridge, entry) ==
    /\ Len(data_port) < MaxMappings
    /\ data_port' = Append(data_port, <<bridge, entry>>)
    /\ UNCHANGED nics

Next ==
    \/ \E nic \in {"eth0", "eth1"} : Plug(nic)
    \/ Bond
    \/ \E nic \in Names : Use(nic)
    \/ \E b \in DataBridges \cup {"none"}, e \in Names \cup Macs : Map(b, e)

Spec == Init /\ [][Next]_ports_vars

-----------------------------------------------------------------------------
ByName(nic) == \E i \in DOMAIN data_port : data_port[i][2] = nic
Given(nic, b) == \E i \in DOMAIN data_port :
    /\ data_port[i][2] \in {nic, get_nic_hwaddr(nic)}
    /\ data_port[i][1] = b \/ (data_port[i][1] = "none" /\ b = DEFAULT_BRIDGE)

\* A card is attached only to a bridge the config gives it, and one that was found
\* by its address only if nothing else uses it and it is no slave of a bond: the
\* hosts of a deployment share one config.  Every free card with a mapping is
\* attached, and what its MTU depends on comes first.  (DataPortContext,
\* ExternalPortContext, resolve_ports, PhyNICMTUContext)
FreePortsOnly ==
    LET ctxt == DataPortContext(nics, data_port)
        devs == MtuDevices(nics, data_port)
    IN /\ \A nic \in DOMAIN ctxt :
             /\ nic \in list_nics(nics)
             /\ Given(nic, ctxt[nic])
             /\ ~ByName(nic) => /\ nic \notin nics.address \cup nics.member
                                /\ get_bond_master(nics, nic) = "None"
       /\ \A i \in DOMAIN data_port :
             LET m == data_port[i]
             IN m[1] # "none" /\ m[2] \in Macs =>
                    CardsWith(nics, m[2]) \ (nics.address \cup nics.member) \subseteq DOMAIN ctxt
       /\ \A nic \in ExternalPorts(nics, data_port) : ByName(nic) \/ nic \notin nics.address \cup nics.member
       /\ \A i \in DOMAIN devs : \A l \in LowerDevices(nics, devs[i]) :
             \E j \in 1..i : devs[j] = l

\* The map that is to replace the contexts gives every card the same bridge, as
\* long as each has one.  (BridgePortInterfaceMap, DataPortContext)
MapCompatible ==
    LET ctxt == DataPortContext(nics, data_port)
        pairs == {data_port[i] : i \in DOMAIN data_port}
    IN (\A p \in pairs : p[1] # "none") =>
           \A nic \in DOMAIN ctxt : <<ctxt[nic], nic, nic>> \in BridgePortInterfaceMap(nics, data_port)

\* Only free cards become data ports, each on the bridge of its mapping.  (DataPortContext)
PortsRight == FreePortsOnly /\ MapCompatible

-----------------------------------------------------------------------------
\* What the documentation says and the code does not do.

\* neutron.py:336 "It is not allowed to have the same port configured on more
\* than one bridge": two mappings of one port are accepted, and the last one wins.
OnePortOneBridge ==
    \A nic \in DOMAIN DataPortContext(nics, data_port) :
        Cardinality({b \in DataBridges : <<b, nic>> \in {data_port[i] : i \in DOMAIN data_port}}) <= 1
=============================================================================
