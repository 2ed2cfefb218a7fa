-------------------------------- MODULE MCH2 --------------------------------
(* H2 on small windows: the client streams writes larger than the server's   *)
(* window; the server's answers fit its socket, or in Duplex do not.         *)
EXTENDS H2

Answers == [client |-> 5, server |-> 1]
Duplex == [client |-> 5, server |-> 4]
=============================================================================
