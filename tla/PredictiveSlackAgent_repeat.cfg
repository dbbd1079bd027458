SPECIFICATION Spec
CONSTANTS
    s1 = s1
    s2 = s2
    x1 = x1
    x2 = x2
    y1 = y1
    Watcher = w1
    ApiThreads = {h1}
    Services = {s1, s2}
    Risks = {x1, x2, y1}
    ServiceOf <- MCServiceOf
    Level <- MCLevel
    UnderPredicted = {x1}
    MinRisk = "medium"
    RcaMinRisk = "high"
    MaxFaults = 0
INVARIANTS
    UnchangedRiskIsNotRepeated
CHECK_DEADLOCK FALSE
