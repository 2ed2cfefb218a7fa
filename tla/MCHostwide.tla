---------------------------- MODULE MCHostwide ----------------------------
(* One or two rgpu processes on a root with a few managed files.           *)
EXTENDS Hostwide, TLC
=============================================================================
