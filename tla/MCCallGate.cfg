SPECIFICATION GateFairSpec
CONSTANTS
  Caller = {c1, c2, c3}
  Drainer = {d1, d2, d3}
  MaxDrain = 5
INVARIANTS
  Exclusive
  NoLostWakeup
PROPERTIES
  DrainFirst
  DrainCompletes
  CallsProceed
