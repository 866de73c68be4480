SPECIFICATION AllSpec
CONSTANTS
    AgentServices = {a}
    OpenVSwitch = ovs
    None = None
    MaxApiUnits = 2
    MaxUnits = 3
    MaxRelations = 2
    MaxServers = 2
    DataBridges = {"b1", "b2"}
    MaxMappings = 2
    Cards = {c1, c2}
    Bonds = {b1}
    VfTotals = {0, 2, 4}
    VfRequests = {1, 3}
    MaxEntries = 2
    cpulist <- HostCpus
    MaxCores = 5
    Networks = {a, b}
    Local = a
    Hostnames = {h1, h2}
    Absent = Absent
    Types = {int, public}
    MaxChanges = 1
    Vips = {"v1", "v2"}
    Nics = {"n1", "n2"}
    NoNic = "none"
    MaxMoves = 2
    PeerUnits = {0, 1}
    Deployed = {0}
    MaxUnrest = 2
    MaxDeaths = 1
    Relations = {r1, r2}
    Wanted <- WantedOps
    Monitors = {m1}
    MaxRequests = 2
    MaxFailures = 1
INVARIANTS
    TableAgrees
    StatusTrue
    SettingsFit
    OneUnitsCredentials
    ServersReady
    PortsRight
    NicsRight
    EndpointsRight
    HaRight
    UnitsRight
    RequestsTrue
CHECK_DEADLOCK FALSE
