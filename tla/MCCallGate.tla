---------------------------- MODULE MCCallGate ----------------------------
(* Three lane workers and three checkpointing threads.                       *)
EXTENDS CallGate, TLC
=============================================================================
