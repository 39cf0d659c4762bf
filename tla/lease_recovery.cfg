CONSTANTS
  Runs = {r1, r2, r3}
  Commits = {c1}
  Workers = 1
  GitMayFail = FALSE
  Failing = {r3}
  Owners = {r1, r2}
  MaxCrashes = 2
  None = None
SPECIFICATION SweepFairSpec
CHECK_DEADLOCK FALSE
INVARIANT LiveTreeKept
PROPERTY OrphansSwept
