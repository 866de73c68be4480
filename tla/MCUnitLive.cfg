SPECIFICATION FairSpec
CONSTANTS
    Files <- MCFiles
    Services <- MCServices
    Features = {"sriov"}
    Values = {v1}
    Absent = Absent
    OVS = "ovs"
    OVS_DEFAULT = "openvswitch-switch"
    DVR = "dvr"
    DHCP = "dhcp"
    Users <- MCUsers
    Needs <- MCNeeds
    FileNeeds <- MCFileNeeds
    Reads <- MCReadsFew
    FeatureHook <- MCFeatureHook
    DvrPurged = {}
    JoinedPurged = {}
    MaxInputs = 2
    MaxFaults = 1
PROPERTIES
    StatusCorrected
    Converges
