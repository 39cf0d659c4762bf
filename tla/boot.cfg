CONSTANTS
  None = None
  Commands = {"build", "test", "plan"}
  Targets = {"commit", "config", "range"}
  ConfigFiles <- MCConfigFiles
  ConfigArgs <- MCConfigArgs
  ModelLists <- MCModelLists
  ChangedDirs <- MCChangedDirs
  AreaSets <- MCAreaSets
  FindingLists <- MCFindingLists
  MayCancel = TRUE
SPECIFICATION FairKernelSpec
CHECK_DEADLOCK FALSE
INVARIANT RowTellsTest
INVARIANT WorktreeQuiet
PROPERTY TestEnds
