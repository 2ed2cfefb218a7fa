------------------------------ MODULE MCLeases ------------------------------
(* Instances of Leases for TLC; processes and hosts are model values.       *)
EXTENDS Leases
=============================================================================
