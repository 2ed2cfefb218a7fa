SPECIFICATION FairSpec
CONSTANTS
  Proc = {p1}
  NFiles = 3
  Loader = 2
  AnyEdit = FALSE
  MaxFault = 3
  MaxEdit = 2
INVARIANTS
  OriginalsSafe
  DetachedIsClean
  NeverWedged
PROPERTY
  TransactionCloses
