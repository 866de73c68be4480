SPECIFICATION Spec
CONSTANTS
    Nics = {n1, n2}
    Bonds = {b1}
    Data = {d1, d2}
    Targets = {t1, t2}
    None = None
    MaxInputs = 4
    MaxFaults = 1
INVARIANTS
    Attached
    Exported
    Remembered
    Repeatable
CHECK_DEADLOCK FALSE
