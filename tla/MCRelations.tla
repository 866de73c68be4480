----------------------------- MODULE MCRelations -----------------------------
(***************************************************************************)
(* Components that compute what a unit does or tells from its relations,   *)
(* its options and its host, checked in one run.  They share no state:     *)
(* every behaviour is one of a single component (part), while the others   *)
(* are at rest.                                                            *)
(***************************************************************************)
EXTENDS CephBroker

CONSTANTS
    AgentServices, OpenVSwitch,                  \* WorkloadStatus
    MaxApiUnits, MaxUnits,                       \* NeutronApi, Credentials
    MaxRelations, MaxServers,                    \* Messaging
    DataBridges, MaxMappings,                    \* DataPorts
    Cards, VfTotals, VfRequests,                 \* NicSettings
    Bonds, MaxEntries, cpulist, MaxCores,
    Networks, Local, Hostnames, Absent, Types,   \* Endpoints
    MaxChanges,
    Vips, Nics, NoNic, MaxMoves,                 \* HighAvailability
    PeerUnits, Deployed, MaxUnrest, MaxDeaths    \* ApiUnits

\* Units have numbers, and there is one at least.
ASSUME ApiAssumption ==
    IsFiniteSet(PeerUnits) /\ PeerUnits \subseteq Nat /\ Deployed \in (SUBSET PeerUnits) \ {{}}

ASSUME CredsAssumption == MaxUnits \in Nat

\* None is no state of a unit and no relation.
ASSUME StatusAssumption ==
    None \notin {"unknown", "active", "maintenance", "waiting", "blocked", "amqp",
                 "zeromq-configuration", "neutron-plugin-api"}

\* No bond has an empty name, or the one that stands for all of them; the kernel lists
\* the cores of a node in order, and a core is in one node.
Cores(n) == UNION {cpulist[n][i][1]..cpulist[n][i][2] : i \in DOMAIN cpulist[n]}
ASSUME NicAssumption ==
    /\ VfTotals \subseteq Nat /\ VfRequests \subseteq Nat
    /\ Bonds \cap {"", "ALL_BONDS"} = {}
    /\ cpulist \in Seq(Seq(Nat \X Nat))
    /\ \A n \in DOMAIN cpulist :
          /\ \A i \in DOMAIN cpulist[n] : cpulist[n][i][1] <= cpulist[n][i][2]
          /\ \A i, j \in DOMAIN cpulist[n] : i < j => cpulist[n][i][2] < cpulist[n][j][1]
          /\ \A m \in DOMAIN cpulist \ {n} : Cores(n) \cap Cores(m) = {}

\* No endpoint is given the machine's own name.
ASSUME EndpointsAssumption ==
    /\ IsFiniteSet(Types) /\ IsFiniteSet(Networks) /\ Local \in Networks
    /\ Absent \notin Networks \cup Hostnames
    /\ "machine" \notin Hostnames

VARIABLES
    part,  \* the component that takes steps
    conf, shim, asked, before,  \* ResourceTable
    unit, hook, status, current,  \* WorkloadStatus
    api, settings,  \* NeutronApi
    peers,  \* Credentials
    amqp,  \* Messaging
    nics, data_port,  \* DataPorts
    cards, vfs, bonds, cores,  \* NicSettings
    host, requested, issued, files, links, as_of, changes,  \* Endpoints
    place, singlenode, listening, seen,  \* Proxies
    options, nic_of, told, served, fresh, moves,  \* HighAvailability
    site, leader, flag, hooks, published, shown, schema, proven, unrest, deaths  \* ApiUnits

Table == INSTANCE ResourceTable
Status == INSTANCE WorkloadStatus WITH Agents <- AgentServices
Napi == INSTANCE NeutronApi
Creds == INSTANCE Credentials
Amqp == INSTANCE Messaging
Ports == INSTANCE DataPorts
Nic == INSTANCE NicSettings
Ends == INSTANCE Endpoints
Proxy == INSTANCE Proxies
Ha == INSTANCE HighAvailability
Api == INSTANCE ApiUnits WITH Units <- PeerUnits, status <- shown

\* Two NUMA nodes with the cores 0-1,6 and 2-5.
HostCpus == <<<<<<0, 1>>, <<6, 6>>>>, <<<<2, 5>>>>>>

\* What a charm may want of its cluster: three requests, two of which are
\* the same to get_previous_request.
WantedOp(compared, other) == <<[name |-> "p", compared |-> compared, other |-> other]>>
WantedOps == {WantedOp("x", "e"), WantedOp("x", "f"), WantedOp("y", "e")}

all_vars == <<part, Table!table_vars, Status!status_vars, Napi!napi_vars, peers, amqp,
              Ports!ports_vars, Nic!nic_vars, Ends!endpoint_vars,
              Proxy!proxy_vars, Ha!ha_vars, Api!units_vars, broker_vars>>

Rest(v) == v = "at rest"

AllInit ==
    /\ part \in {"table", "status", "napi", "creds", "amqp", "ports", "cards",
                "endpoints", "proxies", "ha", "units", "broker"}
    /\ Init
    /\ part # "broker" => /\ wanted = CHOOSE w \in Wanted : TRUE
                          /\ related = {CHOOSE rid \in Relations : TRUE}
    /\ IF part = "table" THEN Table!Init ELSE
           Rest(conf) /\ Rest(shim) /\ Rest(asked) /\ Rest(before)
    /\ IF part = "status" THEN Status!Init ELSE
           Rest(unit) /\ Rest(hook) /\ Rest(status) /\ Rest(current)
    /\ IF part = "napi" THEN Napi!Init ELSE Rest(api) /\ Rest(settings)
    /\ IF part = "creds" THEN Creds!Init ELSE Rest(peers)
    /\ IF part = "amqp" THEN Amqp!Init ELSE Rest(amqp)
    /\ IF part = "ports" THEN Ports!Init ELSE Rest(nics) /\ Rest(data_port)
    /\ IF part = "cards" THEN Nic!Init ELSE
           Rest(cards) /\ Rest(vfs) /\ Rest(bonds) /\ Rest(cores)
    /\ IF part = "endpoints" THEN Ends!Init ELSE
           Rest(host) /\ Rest(requested) /\ Rest(issued) /\ Rest(files) /\
           Rest(links) /\ Rest(as_of) /\ Rest(changes)
    /\ IF part = "proxies" THEN Proxy!Init ELSE
           Rest(place) /\ Rest(singlenode) /\ Rest(listening) /\ Rest(seen)
    /\ IF part = "ha" THEN Ha!Init ELSE
           Rest(options) /\ Rest(nic_of) /\ Rest(told) /\ Rest(served) /\
           Rest(fresh) /\ Rest(moves)
    /\ IF part = "units" THEN Api!Init ELSE
           Rest(site) /\ Rest(leader) /\ Rest(flag) /\ Rest(hooks) /\
           Rest(published) /\ Rest(shown) /\ Rest(schema) /\ Rest(proven) /\
           Rest(unrest) /\ Rest(deaths)

\* Only component p takes the step.
Only(p) ==
    /\ part = p
    /\ UNCHANGED part
    /\ p # "table" => UNCHANGED <<conf, shim, asked, before>>
    /\ p # "status" => UNCHANGED <<unit, hook, status, current>>
    /\ p # "napi" => UNCHANGED <<api, settings>>
    /\ p # "creds" => UNCHANGED peers
    /\ p # "amqp" => UNCHANGED amqp
    /\ p # "ports" => UNCHANGED <<nics, data_port>>
    /\ p # "cards" => UNCHANGED <<cards, vfs, bonds, cores>>
    /\ p # "endpoints" => UNCHANGED <<host, requested, issued, files, links, as_of, changes>>
    /\ p # "proxies" => UNCHANGED <<place, singlenode, listening, seen>>
    /\ p # "ha" => UNCHANGED <<options, nic_of, told, served, fresh, moves>>
    /\ p # "units" => UNCHANGED <<site, leader, flag, hooks, published, shown, schema,
                                  proven, unrest, deaths>>
    /\ p # "broker" => UNCHANGED broker_vars

TableStep == Only("table") /\ Table!Next
StatusStep == Only("status") /\ Status!Next
NapiStep == Only("napi") /\ Napi!Next
CredsStep == Only("creds") /\ Creds!Next
AmqpStep == Only("amqp") /\ Amqp!Next
PortsStep == Only("ports") /\ Ports!Next
NicStep == Only("cards") /\ Nic!Next
EndsStep == Only("endpoints") /\ Ends!Next
ProxyStep == Only("proxies") /\ Proxy!Next
HaStep == Only("ha") /\ Ha!Next
ApiStep == Only("units") /\ Api!Next
BrokerStep == Only("broker") /\ Next

AllNext ==
    \/ TableStep \/ StatusStep \/ NapiStep \/ CredsStep \/ AmqpStep \/ PortsStep \/ NicStep \/
       EndsStep \/ ProxyStep \/ HaStep \/ ApiStep \/ BrokerStep

AllSpec == AllInit /\ [][AllNext]_all_vars

-----------------------------------------------------------------------------
\* resource_map(), services() and restart_map() agree with the table that the model of
\* the unit's lifecycle is given, in every process; interfaces.yaml is left out only until
\* its package is there.  (ResourceMap, UnitMaps)
TableAgrees == part = "table" => Table!TableFits

\* The workload status says what is the matter with the unit, in the order of
\* _determine_os_workload_status.  (WorkloadStatus)
StatusTrue == part = "status" => Status!StatusTrue

\* All contexts use the settings of one unit of neutron-api alike.  (NeutronApi)
SettingsFit == part = "napi" => Napi!SettingsFit

\* Credentials are those of one unit, never mixed from two.  (Credentials)
OneUnitsCredentials == part = "creds" => Creds!OneUnitsCredentials

\* transport_url names servers that are ready.  (AMQPContext, Messaging)
ServersReady == part = "amqp" => Amqp!ServersReady

\* A data port is put on the bridge that the mappings give its card.  (DataPortContext)
PortsRight == part = "ports" => Ports!PortsRight

\* SR-IOV VFs, DPDK bonds and core masks are those that the host can have.  (NicSettings)
NicsRight == part = "cards" => Nic!NicsRight

\* Addresses, frontends, VIPs and certificates fit each other, and proxies lead to the
\* service.  (Endpoints, Proxies)
EndpointsRight ==
    /\ part = "endpoints" => Ends!EndpointsRight
    /\ part = "proxies" => Proxy!PortsRight

\* hacluster runs what the options ask for.  (generate_ha_relation_data)
HaRight == part = "ha" => Ha!HaRight

\* Units of an application agree on when it is ready and on who leads.  (ApiUnits)
UnitsRight == part = "units" => Api!UnitsRight
=============================================================================
