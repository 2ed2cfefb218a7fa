SPECIFICATION FairSpec
CONSTANTS
  Thread = {t1, t2}
  Callback = {c1}
  MaxRequest = 6
INVARIANTS OneServerOwner OneClientReader NoOrphanResponse 
PROPERTIES ImplementsCallOrder  
