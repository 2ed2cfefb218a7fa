SPECIFICATION Spec
CONSTANTS
  Thread = {t1}
  Event = {e1, e2, e3}
  Stream = {s1}
  Batch = 2
  MaxRecord = 3
  MaxCopy = 2
SYMMETRY Symmetry
INVARIANTS
  
  AnswerHonest
  CopiesArrive
  
