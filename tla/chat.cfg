CONSTANTS
  c1 = c1
  c2 = c2
  Chats <- MCChats
  Calls <- MCCalls
  ContextLimits = {8}
  MaxAttempts = 2
  MaxPosts = 2
  MaxShrinks = 2
  MaxRounds = 1
  MaxToolCalls = 2
  MaxMessages = 8
  ResultSizes = {1, 3}
  SystemSize = 1
  UserSize = 4
  ReminderSize = 1
  StubSize = 1
  SafetyReserve = 1
  Unlimited = Unlimited
SPECIFICATION Spec
CHECK_DEADLOCK FALSE
INVARIANT ToolCallsAnswered
INVARIANT FreshResultsSent
INVARIANT RequestFits
INVARIANT ProbedOnce
PROPERTY ChatEnds
