SPECIFICATION AllSpec
CONSTANTS
    Physical = {p1, p2}
    MaxFaults = 2
    ColumnValues = {v1, v2}
    NeverSet = NeverSet
    MaxOptionInputs = 3
    MaxKilledHooks = 1
    Values = {v1, v2}
    Under <- UnderPrefix
    NoValue = NoValue
    MaxInputs = 3
    MaxKills = 1
    Missing = Missing
    MaxPolicyKills = 1
    Keys = {"k1", "k2"}
    Absent = Absent
    Deleted = Deleted
    PrefixArgs = {"k"}
    MaxHooks = 2
    Empty = Empty
    OptionKeys = {o1, o2}
    OptionValues = {v1}
    MaxHeld = 3
    MaxSources = 2
    OsdCounts = {0, 5}
    Expected = {0, 6}
    Requested = {0, 2000}
    Sizes = {2, 3}
    Percents = {10, 100}
    Optional = {TRUE}
    Entries = {"a", "b", "kept"}
    Kept = "kept"
    MaxResources = 2
    Order <- ServiceOrder
    Ports = {1, 2}
    Torn = Torn
    MaxChanges = 3
    Newest = 3
    Packaged = 2
    MaxEvents = 2
INVARIANTS
    CleanupRight
    OptionsRight
    FilesKept
    HookDataTrue
    SourcesRight
    PoolsRight
    PolicyRight
    ServicesRight
    ReleasesRight
PROPERTIES
    OnlyWhilePaused
    Transactional
CHECK_DEADLOCK FALSE
