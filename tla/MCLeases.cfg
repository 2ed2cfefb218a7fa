SPECIFICATION FairSpec
CONSTANTS
  Runner = {r1}
  Root = root
  Host = {h1, h2}
  MaxLate = 1
INVARIANTS  CleanExit
PROPERTIES  OrphansCollected
CHECK_DEADLOCK FALSE
