SPECIFICATION Spec
CONSTANTS
    Webhooks = {w1, w2}
    Workers = {k1}
    a1 = a1
    a2 = a2
    i1 = i1
    Alerts = {a1, a2}
    Incidents = {i1}
    IncidentOf <- MCIncidentOf
    Requests <- MCFiringRequests
    Limit = 2
    RunnerEnabled = FALSE
    MaxFaults = 1
    None = None
INVARIANTS
    AcknowledgedFiringIsScheduled
CHECK_DEADLOCK FALSE
