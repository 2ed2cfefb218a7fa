SPECIFICATION Spec
CONSTANTS
  Copier = {w1}
  Manager = {w2}
  Calls = {"async", "retain", "reset"}
  Slot = {s1}
  Spill = {x1}
  Window = 4
  Units = 2
INVARIANTS WindowConserved
PROPERTIES CallsEnd
