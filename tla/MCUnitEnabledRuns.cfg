SPECIFICATION Spec
CONSTANTS
    Files <- MCFiles
    Services <- MCServices
    Features = {"sriov"}
    Values = {v1}
    Absent = Absent
    OVS = "ovs"
    OVS_DEFAULT = "openvswitch-switch"
    DVR = "dvr"
    DHCP = "dhcp"
    Users <- MCUsers
    Needs <- MCNeeds
    FileNeeds <- MCFileNeeds
    Reads <- MCReads
    FeatureHook <- MCFeatureHook
    DvrPurged = {}
    JoinedPurged = {}
    MaxInputs = 3
    MaxFaults = 0
SYMMETRY MCSymmetry
INVARIANT EnabledRuns
