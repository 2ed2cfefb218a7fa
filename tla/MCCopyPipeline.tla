--------------------------- MODULE MCCopyPipeline ---------------------------
(* CopyPipeline with one lane that copies and one that manages contexts.   *)
EXTENDS CopyPipeline
=============================================================================
