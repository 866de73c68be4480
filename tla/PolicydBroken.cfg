SPECIFICATION PolicySpec
CONSTANTS
    Entries = {"a", "b", "kept"}
    Kept = "kept"
    MaxResources = 2
    MaxPolicyKills = 1
INVARIANT BrokenIsShown
CHECK_DEADLOCK FALSE
