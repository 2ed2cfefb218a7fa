SPECIFICATION FairSpec
CONSTANTS
  Child = {c1, c2}
  MaxExport = 2
  MaxFd = 4
  MaxBacklog = 1
INVARIANTS ZombieAnnounced KnownExact TokensRedeemable
PROPERTIES  ServesUnlessFull
CHECK_DEADLOCK FALSE
