CONSTANTS
  None = None
  p1 = p1
  p2 = p2
  drv = drv
  typo = typo
  s1 = s1
  Hunks <- MCHunks
  MessageTexts <- MCMessageTexts
  Commits <- MCCommits
  Workers = 2
  FastModes = {FALSE}
  Baselines <- MCBaselines
  AdditionLists <- MCAdditionLists
  MayPanic = FALSE
  Modes = {"findings"}
  MayCancel = TRUE
  HandlerFails = FALSE
  ValidatorLists <- MCValidatorLists
  Severities <- MCSeverities
  MaxHighlights = 3
  SummaryAnswers <- MCSummaryAnswers
SPECIFICATION Spec
CHECK_DEADLOCK FALSE
INVARIANT CancelKeepsPublished
