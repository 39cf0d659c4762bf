CONSTANTS
  None = None
  Blank = Blank
  b0 = b0
  c1 = c1
  c2 = c2
  d1 = d1
  d2 = d2
  s1 = s1
  s2 = s2
  sd = sd
  Base = b0
  Subject <- MCSubject
  History = {}
  Refs <- MCRefs
  Texts <- MCTexts
  Codes <- MCCodes
  Trees <- MCTrees
  Lookback = 3
  MaxResolutionAttempts = 2
  MaxStaticRepairAttempts = 2
  GitMayFail = TRUE
  MayEdit = TRUE
  Series <- MCSeries
  Sources = {"message"}
  MaxRuns = 2
SPECIFICATION FairSpec
CHECK_DEADLOCK FALSE
INVARIANT SeriesAccounted
INVARIANT SuccessIsClean
INVARIANT ResolutionKeepsSource
INVARIANT VerdictTellsTree
INVARIANT ImportGuarded
PROPERTY OnlyOwnAmended
PROPERTY SeriesEnds
