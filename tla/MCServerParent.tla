--------------------------- MODULE MCServerParent ---------------------------
(* Instances of ServerParent for TLC; pids are model values.                *)
EXTENDS ServerParent
=============================================================================
