SPECIFICATION Spec
CONSTANTS
  t1 = t1
  t2 = t2
  u1 = u1
  u2 = u2
  Turns <- MCTurns
  Sessions = {s1}
  ChatTypeOf <- MCChatTypeOf
  Tools <- MCTools
  AgentResults <- MCAgentResults
  NoSession = NoSession
  MaxFaults = 1
CHECK_DEADLOCK FALSE
INVARIANTS
  ClosedSessionTakesNoNewQuestions
  JobTellsTheAnswer
  LinksStayInTheTurn
  ApprovalsAreOfRecordedCalls
PROPERTIES
  QuestionsAreAnswered
