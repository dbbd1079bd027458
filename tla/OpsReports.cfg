SPECIFICATION FairSpec
CONSTANTS
    Attempts = {a1, a2}
    Requests = {q1}
    Recipients = {x1, x2}
    MaxFaults = 1
    None = None
INVARIANTS
    TypeOK
    SucceededJobIsComplete
    SentReportWasDelivered
    RetriesRepeatOnlyFaults
    FaultsAccountForContradictions
CHECK_DEADLOCK FALSE
PROPERTIES
    CronJobGetsThrough
