SPECIFICATION MCSpec
CONSTANTS
  t1 = t1
  t2 = t2
  t3 = t3
  Threads = {t1, t2, t3}
  Requests <- RoutingRequests
  WorldsOf <- MCWorldsOf
  DirectServices = {"service-payment"}
  NotifyHealthy = TRUE
  LlmMinStatus = "degraded"
  MaxFaults = 2
INVARIANTS
  HealthyBoundaryMeetsItsSignal
CHECK_DEADLOCK FALSE
