------------------------------ MODULE OvsBridges ------------------------------
(***************************************************************************)
(* configure_ovs(): the ovs-vsctl commands that bring the bridges, the     *)
(* ports, the DPDK bonds and the IPFIX exporters of the Open vSwitch       *)
(* database in line with the charm config.  Every command is a transaction *)
(* of its own and the database survives everything: a hook can be killed   *)
(* or a command can fail between any two of them, and Juju then retries    *)
(* the hook from its first command.                                        *)
(*                                                                         *)
(* With DPDK the devices are named by their MAC address, which disappears  *)
(* from the kernel once a device is bound to the userspace driver; the     *)
(* unit remembers the PCI addresses (Open vSwitch 2.6 or later: a port is  *)
(* named after the PCI address of its device).                             *)
(***************************************************************************)
EXTENDS SequencesExt

CONSTANTS
    Nics,       \* network devices of the host
    Bonds,      \* names of DPDK bonds
    Data,       \* data bridges
    Targets,    \* IPFIX collectors
    None,       \* an option that is not set
    MaxInputs,  \* bound: config changes
    MaxFaults   \* bound: hooks killed between two commands

ASSUME BridgesAssumption ==
    /\ IsFiniteSet(Nics \cup Bonds \cup Data)
    /\ None \notin Nics \cup Bonds \cup Data \cup Targets
    /\ MaxInputs \in Nat /\ MaxFaults \in Nat

INT_BRIDGE == "br-int"
EXT_BRIDGE == "br-ex"
Bridges == Data \cup {INT_BRIDGE, EXT_BRIDGE}

VARIABLES
    conf,    \* use_dpdk(); charm config: bridge-mappings, data-port,
             \* dpdk-bond-mappings, ext-port (None without DVR), ipfix-target
    inputs,  \* how often it changed
    due,     \* config-changed has to run
    hook,    \* "none", "running" or "failed" (to be retried)
    view,    \* the config the hook has read
    script,  \* the commands it still has to run
    ovsdb,   \* the Open vSwitch database
    known,   \* devices whose PCI address is in the unit's kv store
    listed,  \* devices in /etc/dpdk/interfaces
    bound,   \* devices bound to the DPDK driver: the kernel shows no MAC
    faults   \* how many hooks were killed

vars == <<conf, inputs, due, hook, view, script, ovsdb, known, listed, bound, faults>>

Config ==
    [dpdk: BOOLEAN,
     mappings: SUBSET Data,
     dataPort: [Nics \cup Bonds -> Data \cup {None}],
     bondOf: [Nics -> Bonds \cup {None}],
     ext: Nics \cup {None},
     target: Targets \cup {None}]

-----------------------------------------------------------------------------
\* ovs-vsctl.  A database is a set of bridges, a set of ports <<name, bridge,
\* interfaces>> and the collector each bridge exports to.
AddBridge(br) == [cmd |-> "add-br", br |-> br]
AddPort(br, p) == [cmd |-> "add-port", br |-> br, port |-> p, nics |-> {p}]
NewPort(br, p) == [cmd |-> "new-port", br |-> br, port |-> p, nics |-> {p}]
AddBond(br, b, S) == [cmd |-> "add-bond", br |-> br, port |-> b, nics |-> S]
Ipfix(br, t) == [cmd |-> "ipfix", br |-> br, target |-> t]

\* What --may-exist forgives: the same port on the same bridge.  A bond takes at
\* least two interfaces, and an interface is in one port only.
Succeeds(c, db) ==
    LET same  == <<c.port, c.br, c.nics>> \in db.ports
        taken == \E p \in db.ports : p[1] = c.port \/ p[3] \cap c.nics # {}
    IN  CASE c.cmd = "add-br"   -> TRUE
          [] c.cmd = "add-port" -> c.br \in db.bridges /\ (same \/ ~taken)
          [] c.cmd = "new-port" -> c.br \in db.bridges /\ ~taken
          [] c.cmd = "add-bond" -> /\ c.br \in db.bridges
                                   /\ Cardinality(c.nics) > 1
                                   /\ same \/ ~taken
          [] OTHER -> c.br \in db.bridges

Effect(c, db) ==
    CASE c.cmd = "add-br" -> [db EXCEPT !.bridges = @ \cup {c.br}]
      [] c.cmd = "ipfix"  -> [db EXCEPT !.ipfix[c.br] = c.target]
      [] OTHER -> [db EXCEPT !.ports = @ \cup {<<c.port, c.br, c.nics>>}]

-----------------------------------------------------------------------------
\* A loop over a dictionary, in a fixed order; f has the commands for each key.
Each(f) ==
    LET order == SetToSeq(DOMAIN f)
    IN  FlattenSeq([i \in DOMAIN order |-> f[order[i]]])

DataBridge(v, p) == v.dataPort[p]
On(v, br, S) == {p \in S : DataBridge(v, p) = br}

ExtPort(v) == IF v.ext = None THEN <<>> ELSE <<AddPort(EXT_BRIDGE, v.ext)>>

\* Mutant: without --may-exist.
KernelPortsNew(v) ==
    Each([br \in v.mappings |->
        <<AddBridge(br)>> \o Each([p \in On(v, br, Nics) |-> <<NewPort(br, p)>>])])

\* The loop over bridge-mappings; DataPortContext has the ports of this host.
KernelPorts(v) ==
    Each([br \in v.mappings |->
        <<AddBridge(br)>> \o Each([p \in On(v, br, Nics) |-> <<AddPort(br, p)>>])])

\* resolve_dpdk_bridges and resolve_dpdk_bonds: visible or remembered devices.
Visible == Nics \ bound
Resolved(v, kv) == {p \in Nics : v.dataPort[p] # None} \cap (Visible \cup kv)
BondNics(v, kv, b) == {p \in Nics : v.bondOf[p] = b} \cap (Visible \cup kv)

DpdkPorts(v, kv) ==
    Each([p \in Resolved(v, kv) |->
        <<AddBridge(v.dataPort[p]), NewPort(v.dataPort[p], p)>>])
UsedBonds(v, kv) == {b \in Bonds : v.dataPort[b] # None /\ BondNics(v, kv, b) # {}}
DpdkBonds(v, kv) ==
    Each([b \in UsedBonds(v, kv) |-> <<AddBridge(v.dataPort[b])>>])
        \o Each([b \in UsedBonds(v, kv) |->
                  <<AddBond(v.dataPort[b], b, BondNics(v, kv, b))>>])

\* The bridges the last loop of configure_ovs visits; mutant: without the data
\* bridges.
IpfixBridgesFixed(v, kv) == {INT_BRIDGE, EXT_BRIDGE}
IpfixBridges(v, kv) ==
    {INT_BRIDGE, EXT_BRIDGE}
        \cup IF v.dpdk THEN {v.dataPort[p] : p \in Resolved(v, kv)} ELSE v.mappings

IpfixTargets(v, kv) ==
    Each([br \in IpfixBridges(v, kv) |->
        <<Ipfix(br, None)>>
            \o IF v.target = None THEN <<>> ELSE <<Ipfix(br, v.target)>>])

configure_ovs(v, kv) ==
    <<AddBridge(INT_BRIDGE), AddBridge(EXT_BRIDGE)>>
        \o ExtPort(v)
        \o (IF v.dpdk THEN DpdkPorts(v, kv) \o DpdkBonds(v, kv) ELSE KernelPorts(v))
        \o IpfixTargets(v, kv)

\* The devices the config names.
Named(v) == {p \in Nics : v.dataPort[p] # None \/ v.bondOf[p] # None}

-----------------------------------------------------------------------------
NoConf == [dpdk |-> FALSE, mappings |-> {}, dataPort |-> [p \in Nics \cup Bonds |-> None],
           bondOf |-> [p \in Nics |-> None], ext |-> None, target |-> None]

Init ==
    /\ \E d \in BOOLEAN : conf = [NoConf EXCEPT !.dpdk = d]
    /\ inputs = 0
    /\ due = TRUE
    /\ hook = "none"
    /\ view = NoConf
    /\ script = <<>>
    /\ ovsdb = [bridges |-> {}, ports |-> {}, ipfix |-> [br \in Bridges |-> None]]
    /\ known = {}
    /\ listed = {}
    /\ bound = {}
    /\ faults = 0

\* One option changes at a time; enable-dpdk was chosen at deployment.  A device
\* is put to one use only, and with DPDK there is no ext-port.
OneUse(c) ==
    \A p \in Nics :
        Cardinality({u \in {"data", "bond", "ext"} :
            CASE u = "data" -> c.dataPort[p] # None
              [] u = "bond" -> c.bondOf[p] # None
              [] OTHER -> c.ext = p}) <= 1

Change(c) ==
    /\ inputs < MaxInputs
    /\ OneUse(c)
    /\ conf' = c
    /\ inputs' = inputs + 1
    /\ due' = TRUE
    /\ UNCHANGED <<hook, view, script, ovsdb, known, listed, bound, faults>>

ChangeConfig ==
    \/ \E S \in SUBSET Data : Change([conf EXCEPT !.mappings = S])
    \/ \E p \in Nics \cup IF conf.dpdk THEN Bonds ELSE {} : \E br \in Data \cup {None} :
           Change([conf EXCEPT !.dataPort[p] = br])
    \/ conf.dpdk /\ \E b \in Bonds : \E S \in SUBSET Nics :
           Change([conf EXCEPT !.bondOf = [p \in Nics |-> IF p \in S THEN b ELSE None]])
    \/ ~conf.dpdk /\ \E p \in Nics \cup {None} : Change([conf EXCEPT !.ext = p])
    \/ \E t \in Targets \cup {None} : Change([conf EXCEPT !.target = t])

\* Mutant: the PCI addresses are only stored when the hook has gone through.
BeginUnflushed ==
    /\ hook # "running"
    /\ due \/ hook = "failed"
    /\ hook' = "running"
    /\ due' = FALSE
    /\ view' = conf
    /\ listed' = IF conf.dpdk THEN Named(conf) \cap (Visible \cup known) ELSE listed
    /\ script' = configure_ovs(conf, Visible)
    /\ UNCHANGED <<conf, inputs, ovsdb, known, bound, faults>>

\* The hook starts: write_all() resolves the devices, stores their PCI addresses
\* and lists them for the dpdk service.
Begin ==
    /\ hook # "running"
    /\ due \/ hook = "failed"
    /\ hook' = "running"
    /\ due' = FALSE
    /\ view' = conf
    /\ IF conf.dpdk
       THEN /\ known' = known \cup (Named(conf) \cap Visible)
            /\ listed' = Named(conf) \cap known'
       ELSE UNCHANGED <<known, listed>>
    /\ script' = configure_ovs(conf, known')
    /\ UNCHANGED <<conf, inputs, ovsdb, bound, faults>>

\* Mutant: goes on after a failed command.
RunCommandUnchecked ==
    /\ hook = "running"
    /\ script # <<>>
    /\ ovsdb' = IF Succeeds(Head(script), ovsdb) THEN Effect(Head(script), ovsdb) ELSE ovsdb
    /\ script' = Tail(script)
    /\ UNCHANGED <<conf, inputs, due, hook, view, known, listed, bound, faults>>

\* One ovs-vsctl command (check_call).
RunCommand ==
    /\ hook = "running"
    /\ script # <<>>
    /\ IF Succeeds(Head(script), ovsdb)
       THEN /\ ovsdb' = Effect(Head(script), ovsdb)
            /\ script' = Tail(script)
            /\ UNCHANGED <<hook, view>>
       ELSE /\ hook' = "failed"
            /\ view' = NoConf
            /\ script' = <<>>
            /\ UNCHANGED ovsdb
    /\ UNCHANGED <<conf, inputs, due, known, listed, bound, faults>>

\* The hook is through; restart_on_change restarts the dpdk service, which binds
\* the listed devices, unless an earlier try of the hook has already written the
\* file.
Finish ==
    /\ hook = "running"
    /\ script = <<>>
    /\ hook' = "none"
    /\ view' = NoConf
    /\ bound' \in {bound, bound \cup listed}
    /\ UNCHANGED <<conf, inputs, due, script, ovsdb, known, listed, faults>>

Kill ==
    /\ hook = "running"
    /\ faults < MaxFaults
    /\ faults' = faults + 1
    /\ hook' = "failed"
    /\ view' = NoConf
    /\ script' = <<>>
    /\ UNCHANGED <<conf, inputs, due, ovsdb, known, listed, bound>>

\* At boot the devices in /etc/dpdk/interfaces are bound, and no other.
Reboot ==
    /\ hook # "running"
    /\ bound' = listed
    /\ bound' # bound
    /\ UNCHANGED <<conf, inputs, due, hook, view, script, ovsdb, known, listed, faults>>

Next == ChangeConfig \/ Begin \/ RunCommand \/ Finish \/ Kill \/ Reboot

Spec == Init /\ [][Next]_vars
FairSpec == Spec /\ WF_vars(Begin) /\ WF_vars(RunCommand) /\ WF_vars(Finish)

-----------------------------------------------------------------------------
\* config-changed has run through and nothing has changed since.
Settled == hook = "none" /\ ~due

Members(b) == {p \in Nics : conf.bondOf[p] = b}
AllAttached ==
    /\ \A p \in Nics :
           conf.dataPort[p] \in (IF conf.dpdk THEN Data ELSE conf.mappings)
               => <<p, conf.dataPort[p], {p}>> \in ovsdb.ports
    /\ \A b \in Bonds :
           conf.dpdk /\ conf.dataPort[b] # None /\ Members(b) # {}
               => <<b, conf.dataPort[b], Members(b)>> \in ovsdb.ports
    /\ conf.ext # None => <<conf.ext, EXT_BRIDGE, {conf.ext}>> \in ovsdb.ports

\* A hook that has run through has put every device the config names on its
\* bridge (or into its bond), also if a former run was killed half way, and also
\* if DPDK has taken the device from the kernel in the meantime.  (configure_ovs,
\* resolve_dpdk_bridges, resolve_dpdk_bonds)
Attached == Settled => AllAttached

\* Likewise, the internal, the external and the data bridges export to the
\* collector of the config and to no other, although a run can die between
\* disable_ipfix and enable_ipfix.
Exported ==
    Settled =>
        \A br \in {INT_BRIDGE, EXT_BRIDGE}
                   \cup IF conf.dpdk THEN {conf.dataPort[p] : p \in Nics} \ {None}
                              ELSE conf.mappings :
            ovsdb.ipfix[br] = conf.target

\* A device the kernel no longer shows is one whose PCI address is remembered:
\* the address is stored before the device can be bound, whenever the hook dies.
\* (the NOTE in resolve_dpdk_bridges)
Remembered == bound \subseteq known

\* What becomes of a database when the commands of s run, one after the other.
Rerun(s, db) ==
    LET run[i \in 0..Len(s)] ==
            IF i = 0 THEN [ok |-> TRUE, db |-> db]
            ELSE [ok |-> run[i - 1].ok /\ Succeeds(s[i], run[i - 1].db),
                  db |-> Effect(s[i], run[i - 1].db)]
    IN  run[Len(s)]

\* Without DPDK, running the hook once more succeeds and changes nothing.
\* (--may-exist)
Repeatable ==
    Settled /\ ~conf.dpdk =>
        Rerun(configure_ovs(conf, known), ovsdb) = [ok |-> TRUE, db |-> ovsdb]

-----------------------------------------------------------------------------
\* What the documentation says and the code does not do.

\* config.yaml:27 "Ports will be added to their corresponding bridge.": once the
\* config stays as it is, its ports are on their bridges.
PortsAdded == []<>AllAttached

\* config.yaml:309 "This will enable IPFIX exporting on all OVS bridges to the
\* target": also on the bridge of a bond.
ExportedEverywhere ==
    Settled =>
        \A br \in {conf.dataPort[p] : p \in Nics \cup Bonds} \cap ovsdb.bridges :
            ovsdb.ipfix[br] = conf.target
=============================================================================
