CONSTANTS
  Runs = {r1}
  Commits = {c1, c2, c3}
  Workers = 3
  GitMayFail = TRUE
  Failing = {r1}
  Owners = {r1}
  MaxCrashes = 1
  None = None
SPECIFICATION FairSpec
CHECK_DEADLOCK FALSE
INVARIANT LeaseHoldsFlock
INVARIANT CleanExit
PROPERTY TasksEnd
