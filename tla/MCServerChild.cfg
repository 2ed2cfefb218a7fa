SPECIFICATION FairSpec
CONSTANTS
  Lane = {l1, l2, l3}
  MaxLanes = 2
  HostFn = TRUE
  Rest = "partial"
  MaxFrame = 3
INVARIANTS
  CheckpointQuiesced
  TermCheckpoints
  

  
CHECK_DEADLOCK FALSE
