CONSTANTS
  None = None
  p1 = p1
  p2 = p2
  drv = drv
  s1 = s1
  Hunks <- MCHunks
  MessageTexts <- MCMessageTexts
  NumCommits = 2
  Payloads <- MCPayloads
  Budget = 2
  ToolModes = {"host", "none"}
  ValidatorLists <- MCValidatorLists
  AdjudicationLists <- MCAdjudicationLists
SPECIFICATION FairSpec
CHECK_DEADLOCK FALSE
INVARIANT BatchesFit
INVARIANT VerdictIsVerified
INVARIANT WithinContract
PROPERTY ValidationEnds
