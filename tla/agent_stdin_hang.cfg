CONSTANTS
  PromptSize = 3
  PipeSize = 2
  OutputMax = 2
  HasTimeout = TRUE
  AgentForks = FALSE
SPECIFICATION FairSpec
CHECK_DEADLOCK FALSE
PROPERTY TimeoutBoundsCall
