CONSTANTS
  PromptSize = 2
  PipeSize = 1
  OutputMax = 2
  HasTimeout = TRUE
  AgentForks = TRUE
SPECIFICATION FairSpec
CHECK_DEADLOCK FALSE
INVARIANT CallSettled
PROPERTY NoLateTimeout
PROPERTY WatchedCallEnds
