SPECIFICATION Spec
CONSTANTS
    Webhooks = {w1, w2}
    Workers = {k1, k2}
    a1 = a1
    a2 = a2
    i1 = i1
    Alerts = {a1, a2}
    Incidents = {i1}
    IncidentOf <- MCIncidentOf
    Requests <- MCRequests
    Limit = 2
    RunnerEnabled = FALSE
    MaxFaults = 1
    None = None
SYMMETRY MCSymmetry
INVARIANTS
    TypeOK
    OneJobPerAlert
    ExclusiveRun
    ReportProvenance
    NoticesAreTrue
    StatusIsBacked
    FaultsAccountForLosses
CHECK_DEADLOCK FALSE
PROPERTIES
    ImplementsLifecycle
