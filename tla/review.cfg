CONSTANTS
  None = None
  p1 = p1
  p2 = p2
  p3 = p3
  drv = drv
  gone = gone
  id = id
  typo = typo
  slip = slip
  s1 = s1
  s2 = s2
  s3 = s3
  Hunks <- MCHunks
  MessageTexts <- MCMessageTexts
  Similar <- MCSimilar
  FastModes = {TRUE, FALSE}
  NoTools = FALSE
  MayPanic = TRUE
  FastLists <- MCFastLists
  UpstreamLogs <- MCUpstreamLogs
  BranchLog <- MCBranchLog
  ConcernTexts <- MCConcernTexts
  MaxConcerns = 3
  ConsolidatedLists <- MCConsolidatedLists
SPECIFICATION FairSpec
CHECK_DEADLOCK FALSE
INVARIANT FoundIsPublished
INVARIANT NothingRepeated
INVARIANT EvidenceHandedOn
PROPERTY SnapshotGrows
PROPERTY PublishedIsReturned
PROPERTY AnchorsLand
PROPERTY ImplementsTask
PROPERTY TaskEnds
