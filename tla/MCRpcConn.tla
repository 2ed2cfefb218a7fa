----------------------------- MODULE MCRpcConn -----------------------------
(* Two application threads, one CUDA callback thread.                      *)
EXTENDS RpcConn
=============================================================================
