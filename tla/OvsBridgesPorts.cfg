SPECIFICATION FairSpec
CONSTANTS
    Nics = {n1, n2}
    Bonds = {b1}
    Data = {d1, d2}
    Targets = {t1, t2}
    None = None
    MaxInputs = 2
    MaxFaults = 1
PROPERTIES
    PortsAdded
CHECK_DEADLOCK FALSE
