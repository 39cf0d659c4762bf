CONSTANTS
  None = None
  p1 = p1
  p2 = p2
  drv = drv
  typo = typo
  s1 = s1
  Hunks <- MCHunks
  MessageTexts <- MCMessageTexts
  Commits <- MCCommits
  Workers = 2
  FastModes = {TRUE, FALSE}
  Baselines <- MCBaselines
  AdditionLists <- MCAdditionLists
  MayPanic = TRUE
  Modes = {"filter", "off"}
  MayCancel = TRUE
  HandlerFails = FALSE
  ValidatorLists <- MCValidatorLists
  Severities <- MCSeverities
  MaxHighlights = 3
  SummaryAnswers <- MCSummaryAnswers
SPECIFICATION FairSpec
CHECK_DEADLOCK FALSE
INVARIANT OneRowPerCommit
INVARIANT PartialIsSnapshot
INVARIANT UpstreamFixShown
INVARIANT NothingUnsaid
PROPERTY RunEnds
