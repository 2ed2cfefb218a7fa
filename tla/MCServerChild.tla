--------------------------- MODULE MCServerChild ---------------------------
(* A child with one to three lane ids and at most one CUDA callback thread.     *)
EXTENDS ServerChild, TLC
=============================================================================
