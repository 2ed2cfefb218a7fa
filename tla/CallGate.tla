------------------------------ MODULE CallGate ------------------------------
(***************************************************************************)
(* cuda_call_gate of checkpoint.cpp: the process-wide gate that every CUDA *)
(* RPC handler passes (cuda_call_guard) and that a checkpoint drains.      *)
(*                                                                         *)
(* The gate is a mutex, three fields and ONE condition variable on which   *)
(* callers and drainers sleep with different predicates.  Each action is a *)
(* critical section; a thread whose predicate is false goes to sleep and   *)
(* looks again only after a notify_all or a spurious wake-up.              *)
(***************************************************************************)
EXTENDS Naturals, FiniteSets

CONSTANTS
  Caller,      \* lane workers that dispatch CUDA handlers
  Drainer,     \* threads that checkpoint
  MaxDrain     \* bound on the number of drains

ASSUME GateAssumption ==
  /\ IsFiniteSet(Caller) /\ IsFiniteSet(Drainer) /\ Caller \cap Drainer = {}
  /\ MaxDrain \in Nat

VARIABLES
  active,      \* active_calls_
  waiters,     \* drain_waiters_
  draining,    \* draining_
  at,          \* per thread: where it is
  asleep,      \* threads asleep on condition_
  drains       \* drains begun so far

gateVars == <<active, waiters, draining, at, asleep, drains>>

GateInit ==
  /\ active = 0 /\ waiters = 0 /\ draining = FALSE
  /\ at = [x \in Caller \cup Drainer |-> "out"]
  /\ asleep = {} /\ drains = 0

Goto(x, label) == at' = [at EXCEPT ![x] = label]

----------------------------------------------------------------------------
(* begin() and end()                                                       *)

\* Wrong: queued drains are overlooked.
OpenUnlessDraining == ~draining

Open == ~draining /\ waiters = 0

\* begin(), entered or woken up
Begin(c) ==
  /\ at[c] = "out" \/ (at[c] = "begin" /\ c \notin asleep)
  /\ IF Open
       THEN active' = active + 1 /\ Goto(c, "in") /\ UNCHANGED asleep
       ELSE asleep' = asleep \cup {c} /\ Goto(c, "begin") /\ UNCHANGED active
  /\ UNCHANGED <<waiters, draining, drains>>

\* Wrong: no notification.
EndSilent(c) ==
  /\ at[c] = "in"
  /\ active' = IF active = 0 THEN active ELSE active - 1
  /\ Goto(c, "out")
  /\ UNCHANGED <<waiters, draining, drains, asleep>>

\* end(), with notify_all
End(c) ==
  /\ at[c] = "in"
  /\ IF active = 0
       THEN UNCHANGED <<active, asleep>>
       ELSE active' = active - 1 /\ asleep' = {}
  /\ Goto(c, "out")
  /\ UNCHANGED <<waiters, draining, drains>>

----------------------------------------------------------------------------
(* drain() and resume()                                                    *)

\* Wrong: the active calls are not waited for.
CloseAtOnce(d) == draining' = TRUE /\ Goto(d, "owner") /\ asleep' = asleep \ {d}

\* The second half of drain(), in the critical section that found !draining_:
\* take the gate and wait for the active calls.
Close(d) ==
  /\ draining' = TRUE
  /\ IF active = 0
       THEN Goto(d, "owner") /\ asleep' = asleep \ {d}
       ELSE Goto(d, "closing") /\ asleep' = asleep \cup {d}

\* drain() entered: take a free gate, or queue behind the drain in progress.
Drain(d) ==
  /\ at[d] = "out" /\ drains < MaxDrain
  /\ drains' = drains + 1
  /\ IF draining
       THEN /\ waiters' = waiters + 1 /\ asleep' = asleep \cup {d}
            /\ Goto(d, "queued") /\ UNCHANGED draining
       ELSE Close(d) /\ UNCHANGED waiters
  /\ UNCHANGED active

\* Wrong: the drain is never counted out.
DrainWakeStays(d) ==
  /\ at[d] = "queued" /\ d \notin asleep
  /\ IF draining THEN asleep' = asleep \cup {d} /\ UNCHANGED <<draining, at>> ELSE Close(d)
  /\ UNCHANGED <<active, waiters, drains>>

\* A queued drain woken up
DrainWake(d) ==
  /\ at[d] = "queued" /\ d \notin asleep
  /\ IF draining
       THEN asleep' = asleep \cup {d} /\ UNCHANGED <<waiters, draining, at>>
       ELSE waiters' = waiters - 1 /\ Close(d)
  /\ UNCHANGED <<active, drains>>

\* The owner-to-be woken up
CloseWake(d) ==
  /\ at[d] = "closing" /\ d \notin asleep
  /\ IF active = 0
       THEN Goto(d, "owner") /\ UNCHANGED asleep
       ELSE asleep' = asleep \cup {d} /\ UNCHANGED at
  /\ UNCHANGED <<active, waiters, draining, drains>>

\* Wrong: no notification.
ResumeSilent(d) ==
  /\ at[d] = "owner"
  /\ draining' = FALSE
  /\ Goto(d, "out")
  /\ UNCHANGED <<active, waiters, drains, asleep>>

\* resume(), with notify_all
Resume(d) ==
  /\ at[d] = "owner"
  /\ IF draining
       THEN draining' = FALSE /\ asleep' = {}
       ELSE UNCHANGED <<draining, asleep>>
  /\ Goto(d, "out")
  /\ UNCHANGED <<active, waiters, drains>>

\* A condition variable may wake a thread for no reason.
SpuriousWake(x) ==
  /\ x \in asleep
  /\ asleep' = asleep \ {x}
  /\ UNCHANGED <<active, waiters, draining, at, drains>>

GateNext ==
  \/ \E c \in Caller : Begin(c) \/ End(c)
  \/ \E d \in Drainer : Drain(d) \/ DrainWake(d) \/ CloseWake(d) \/ Resume(d)
  \/ \E x \in Caller \cup Drainer : SpuriousWake(x)

GateSpec == GateInit /\ [][GateNext]_gateVars

\* A woken thread runs, an admitted handler returns, a checkpoint resumes.  No
\* thread has to enter the gate, none is woken spuriously for sure.
GateFairness ==
  /\ \A c \in Caller : WF_gateVars(at[c] = "begin" /\ Begin(c)) /\ WF_gateVars(End(c))
  /\ \A d \in Drainer : WF_gateVars(DrainWake(d)) /\ WF_gateVars(CloseWake(d)) /\ WF_gateVars(Resume(d))
GateFairSpec == GateSpec /\ GateFairness

----------------------------------------------------------------------------
(* Properties.                                                             *)

\* The counters are never negative and every thread is at a point of the gate.
GateTypeOK ==
  /\ active \in Nat /\ waiters \in Nat /\ draining \in BOOLEAN /\ drains \in Nat
  /\ at \in [Caller \cup Drainer -> {"out", "begin", "in", "queued", "closing", "owner"}]
  /\ asleep \subseteq Caller \cup Drainer

\* While one drain has the gate no handler is inside, and no other drain has it
\* ("wait for every handler that was already dispatched to return.  Dispatch
\* remains blocked until the matching resume call").
Exclusive ==
  \A d \in Drainer : at[d] = "owner" =>
    /\ \A c \in Caller : at[c] # "in"
    /\ \A e \in Drainer \ {d} : at[e] \notin {"closing", "owner"}

\* What a sleeping thread waits for: its predicate.
CanGo(x) ==
  \/ at[x] = "begin" /\ Open
  \/ at[x] = "queued" /\ ~draining
  \/ at[x] = "closing" /\ active = 0

\* No wake-up is lost: a thread never sleeps while its predicate is true, though
\* --drain_waiters_ is not followed by a notification of its own.
NoLostWakeup == \A x \in asleep : ~CanGo(x)

\* No handler is admitted while a drain is queued, waits or has the gate: a
\* stream of new calls cannot keep a checkpoint out.
DrainFirst ==
  [][(\E d \in Drainer : at[d] \in {"queued", "closing", "owner"}) =>
       \A c \in Caller : at[c] # "in" => at'[c] # "in"]_gateVars

\* Every drain gets the gate.
DrainCompletes ==
  \A d \in Drainer : at[d] \in {"queued", "closing"} ~> at[d] = "owner"

\* Every blocked handler is admitted once the drains stop.
CallsProceed == \A c \in Caller : at[c] = "begin" ~> at[c] = "in"
=============================================================================
