SPECIFICATION Spec
CONSTANTS
    Files <- MCFiles
    Services <- MCServices
    Features = {"dvr", "dhcp"}
    Values = {v1, v2}
    Absent = Absent
    OVS = "ovs"
    OVS_DEFAULT = "openvswitch-switch"
    DVR = "dvr"
    DHCP = "dhcp"
    Users <- MCUsers
    Needs <- MCNeeds
    FileNeeds <- MCFileNeeds
    Reads <- MCReads
    FeatureHook <- MCFeatureHook
    DvrPurged = {"l3-agent", "metadata-agent"}
    JoinedPurged = {"dhcp-agent", "metadata-agent"}
    MaxInputs = 2
    MaxFaults = 0
SYMMETRY MCSymmetry
INVARIANTS
    UnitInv
    DeliveryInv
    Provisioned
