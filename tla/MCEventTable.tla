--------------------------- MODULE MCEventTable ---------------------------
(* A table of two slots, so that eviction and full batches happen.         *)
EXTENDS EventTable, TLC

Symmetry == Permutations(Event) \cup Permutations(Thread)
=============================================================================
