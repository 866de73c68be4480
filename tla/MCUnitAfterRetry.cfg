SPECIFICATION Spec
CONSTANTS
    Files <- MCFiles
    Services <- MCServices
    Features = {"sriov"}
    Values = {v1, v2}
    Absent = Absent
    OVS = "ovs"
    OVS_DEFAULT = "openvswitch-switch"
    DVR = "dvr"
    DHCP = "dhcp"
    Users <- MCUsers
    Needs <- MCNeeds
    FileNeeds <- MCFileNeeds
    Reads <- MCReads
    FeatureHook <- MCFeatureHook
    DvrPurged = {}
    JoinedPurged = {}
    MaxInputs = 1
    MaxFaults = 1
SYMMETRY MCSymmetry
INVARIANT RestartedAfterRetry
