SPECIFICATION GetFairSpec
CONSTANTS
  Shells = {p1, p2}
  Resumers = {p2}
  Jobs = {j1}
  MaxFaults = 2
INVARIANTS GetTypeOK 
PROPERTIES WatchEnds 
CHECK_DEADLOCK FALSE
