SPECIFICATION GetSpec
CONSTANTS
  Shells = {p1, p2}
  Resumers = {p2}
  Jobs = {j1}
  MaxFaults = 2
INVARIANT NothingToResumeIsTrue
CHECK_DEADLOCK FALSE
