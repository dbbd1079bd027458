SPECIFICATION MCTwoJobsSpec
CONSTANTS
    Webhooks = {w1, w2}
    Workers = {k1, k2}
    a1 = a1
    a2 = a2
    i1 = i1
    Alerts = {a1, a2}
    Incidents = {i1}
    IncidentOf <- MCIncidentOf
    Requests <- MCTwoFiringRequests
    Limit = 1
    RunnerEnabled = TRUE
    MaxFaults = 1
    None = None
ACTION_CONSTRAINTS
    MCFiresInOrder
    MCOutcomes
    MCOnlyPodsCall
PROPERTIES
    ScheduledJobIsClaimed
    ClaimedJobEnds
CHECK_DEADLOCK FALSE
