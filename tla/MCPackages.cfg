SPECIFICATION Spec
CONSTANTS
    Releases = {"mitaka", "rocky"}
    MaxInputs = 4
    MaxFaults = 2
INVARIANTS
    ServicesInstalled
PROPERTIES
    PurgeSpares
    HaproxyKept
CHECK_DEADLOCK FALSE
