CONSTANTS
  Runs = {r1, r2}
  Commits = {c1, c2}
  Workers = 1
  GitMayFail = FALSE
  Failing = {}
  Owners = {r1, r2}
  MaxCrashes = 2
  None = None
SPECIFICATION Spec
CHECK_DEADLOCK FALSE
SYMMETRY Symmetry
INVARIANT LiveTreeKept
