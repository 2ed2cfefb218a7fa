SPECIFICATION Spec
CONSTANTS
  Copier = {w1}
  Manager = {w2}
  Calls = {"async", "sync", "retain", "release", "reset", "create", "destroy", "detach"}
  Slot = {s1}
  Spill = {}
  Window = 4
  Units = 2
INVARIANTS StreamInSync StagingSafe
