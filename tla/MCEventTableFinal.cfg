SPECIFICATION Spec
CONSTANTS
  Thread = {t1}
  Event = {e1, e2}
  Stream = {s1}
  Batch = 2
  MaxRecord = 2
  MaxCopy = 1
SYMMETRY Symmetry
INVARIANT
  CopiesFinal
