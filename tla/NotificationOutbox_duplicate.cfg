SPECIFICATION Spec
CONSTANTS
    Passes = {p1, p2}
    Keys = {x1}
    MaxFaults = 0
    None = None
INVARIANTS
    AtMostOnce
CHECK_DEADLOCK FALSE
