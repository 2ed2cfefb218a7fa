----------------------------- MODULE CallOrder -----------------------------
(***************************************************************************)
(* What the connection promises to each application thread, whatever the   *)
(* batching, the lanes and the single read slots do: its calls are executed *)
(* once each and in the order it made them, and a synchronous call returns  *)
(* only when nothing the thread asked for is left to execute.  RpcConn      *)
(* implements it.                                                           *)
(***************************************************************************)
EXTENDS Naturals

CONSTANTS
  Thread,
  Id        \* call ids, positive

VARIABLES
  issued,   \* per thread: the calls it has made
  running,  \* per thread: the one the server is executing for it, or 0
  done,     \* per thread: those that have been executed
  awaited   \* per thread: the synchronous call it is in, or 0

vars == <<issued, running, done, awaited>>

Init ==
  /\ issued = [t \in Thread |-> {}] /\ done = [t \in Thread |-> {}]
  /\ running = [t \in Thread |-> 0] /\ awaited = [t \in Thread |-> 0]

\* A thread that is not waiting makes a call, under an id newer than any other.
Issue(t, id, sync) ==
  /\ awaited[t] = 0 /\ \A u \in Thread : \A i \in issued[u] : i < id
  /\ issued' = [issued EXCEPT ![t] = @ \cup {id}]
  /\ awaited' = [awaited EXCEPT ![t] = IF sync THEN id ELSE 0]
  /\ UNCHANGED <<running, done>>

\* The execution of the thread's oldest outstanding call begins ...
Begin(t, id) ==
  /\ running[t] = 0 /\ id \in issued[t] \ done[t]
  /\ \A i \in issued[t] \ done[t] : id <= i
  /\ running' = [running EXCEPT ![t] = id]
  /\ UNCHANGED <<issued, done, awaited>>

\* ... and ends.
End(t) ==
  /\ running[t] # 0
  /\ done' = [done EXCEPT ![t] = @ \cup {running[t]}]
  /\ running' = [running EXCEPT ![t] = 0]
  /\ UNCHANGED <<issued, awaited>>

\* A synchronous call returns.
Return(t) ==
  /\ awaited[t] # 0 /\ issued[t] = done[t]
  /\ awaited' = [awaited EXCEPT ![t] = 0]
  /\ UNCHANGED <<issued, running, done>>

Next ==
  \E t \in Thread :
    \/ \E id \in Id, sync \in BOOLEAN : Issue(t, id, sync)
    \/ \E id \in Id : Begin(t, id)
    \/ End(t) \/ Return(t)

Spec == Init /\ [][Next]_vars
=============================================================================
