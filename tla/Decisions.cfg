SPECIFICATION MCSpec
CONSTANTS
  Threads = {t1, t2}
  Keys = {k1, k2}
  Ttl = 2
  MaxClock = 4

  TokenSets <- MCTokenSets
  LlmReplies <- MCLlmReplies
INVARIANTS
  CallsMatchTheirPolicy
  AnswersAreInTime
  PlannedToolsRun
  OnlyAskedWrites
  OneSideIsInspected
  DataRequestGetsTools
