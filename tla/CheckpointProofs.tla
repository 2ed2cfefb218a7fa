-------------------------- MODULE CheckpointProofs --------------------------
(***************************************************************************)
(* A checkpoint sees a device on which nothing runs, for any number of     *)
(* lanes, callers and drainers: the call gate (CallGate) keeps handlers    *)
(* out while a drain has it, and a child that finishes (ServerChild) has   *)
(* no worker left.                                                         *)
(*                                                                         *)
(* The gate: its counters are related to the threads' positions (Counted), *)
(* the flag draining_ to the one drainer that set it (OneCloser); with     *)
(* these two, its properties are inductive.                                *)
(*                                                                         *)
(* The child: the shutdown loop leaves no worker behind, and once the      *)
(* connection is gone only the two known traps keep it from its end.       *)
(***************************************************************************)
EXTENDS CallGate, ServerChild, FiniteSetTheorems, TLAPS

In == {c \in Caller : at[c] = "in"}
Queued == {d \in Drainer : at[d] = "queued"}

\* Callers and drainers keep to their own positions.
Roles ==
  /\ \A c \in Caller : at[c] \in {"out", "begin", "in"}
  /\ \A d \in Drainer : at[d] \in {"out", "queued", "closing", "owner"}

\* active_calls_ counts the handlers inside, drain_waiters_ the queued drains.
Counted == active = Cardinality(In) /\ waiters = Cardinality(Queued)

\* draining_ is set by exactly one drainer.
OneCloser ==
  /\ draining <=> \E d \in Drainer : at[d] \in {"closing", "owner"}
  /\ \A d, e \in Drainer :
       at[d] \in {"closing", "owner"} /\ at[e] \in {"closing", "owner"} => d = e

OwnerAlone == (\E d \in Drainer : at[d] = "owner") => active = 0

IInv == GateTypeOK /\ Roles /\ Counted /\ OneCloser /\ OwnerAlone /\ NoLostWakeup

----------------------------------------------------------------------------
\* Putting an element into a finite set, or taking it out, changes its
\* cardinality by one; the counters are updated accordingly.
LEMMA OneMore ==
  ASSUME NEW S, NEW x, IsFiniteSet(S), x \notin S
  PROVE  Cardinality(S \cup {x}) = Cardinality(S) + 1
BY FS_AddElement

\* Taking out the one who leaves: what end and the end of a drain's wait do.
LEMMA OneLess ==
  ASSUME NEW S, NEW x, IsFiniteSet(S), x \in S
  PROVE  Cardinality(S \ {x}) = Cardinality(S) - 1
BY FS_RemoveElement

\* The callers inside and the queued drains are finite sets, so they can be counted.
LEMMA InFinite == IsFiniteSet(In) /\ IsFiniteSet(Queued)
<1>1. In \subseteq Caller /\ Queued \subseteq Drainer
  BY DEF In, Queued
<1> QED
  BY <1>1, FS_Subset, GateAssumption

\* A counter is zero exactly when nobody is counted.
LEMMA CountZero ==
  ASSUME Counted
  PROVE  /\ active \in Nat /\ waiters \in Nat
         /\ active = 0 <=> \A c \in Caller : at[c] # "in"
         /\ waiters = 0 <=> \A d \in Drainer : at[d] # "queued"
<1>1. Cardinality(In) \in Nat /\ Cardinality(Queued) \in Nat
  BY InFinite, FS_CardinalityType
<1>2. /\ Cardinality(In) = 0 <=> In = {}
      /\ Cardinality(Queued) = 0 <=> Queued = {}
  BY InFinite, FS_EmptySet
<1>3. /\ In = {} <=> \A c \in Caller : at[c] # "in"
      /\ Queued = {} <=> \A d \in Drainer : at[d] # "queued"
  BY DEF In, Queued
<1> QED
  BY <1>1, <1>2, <1>3 DEF Counted

----------------------------------------------------------------------------
\* A freshly constructed gate is open, with nobody inside, queued or asleep.
LEMMA InitInv == GateInit => IInv
<1> SUFFICES ASSUME GateInit PROVE IInv
  OBVIOUS
<1>1. GateTypeOK /\ Roles
  BY DEF GateInit, GateTypeOK, Roles
<1>2. In = {} /\ Queued = {}
  BY GateAssumption DEF GateInit, In, Queued
<1>3. Counted
  BY <1>2, FS_EmptySet DEF GateInit, Counted
<1>4. OneCloser /\ OwnerAlone /\ NoLostWakeup
  BY DEF GateInit, OneCloser, OwnerAlone, NoLostWakeup
<1> QED
  BY <1>1, <1>3, <1>4 DEF IInv

\* begin()
LEMMA BeginInv ==
  ASSUME IInv, NEW c \in Caller, Begin(c)
  PROVE  IInv'
<1>0. /\ GateTypeOK /\ Roles /\ Counted /\ OneCloser /\ OwnerAlone /\ NoLostWakeup
      /\ c \notin Drainer
  BY GateAssumption DEF IInv
<1>a. at \in [Caller \cup Drainer -> {"out", "begin", "in", "queued", "closing", "owner"}]
  BY <1>0 DEF GateTypeOK
<1>b. at[c] \in {"out", "begin"}
  BY DEF Begin
<1>1. CASE Open
  <2>1. /\ active' = active + 1 /\ at' = [at EXCEPT ![c] = "in"]
        /\ UNCHANGED <<asleep, waiters, draining, drains>>
    BY <1>1 DEF Begin, Goto
  <2>2. ~draining /\ waiters = 0
    BY <1>1 DEF Open
  <2>3. \A x \in Caller \cup Drainer : at'[x] = IF x = c THEN "in" ELSE at[x]
    BY <1>a, <2>1
  <2>4. GateTypeOK'
    BY <1>0, <2>1, <2>3 DEF GateTypeOK
  <2>5. Roles'
    BY <1>0, <2>3 DEF Roles
  <2>6. In' = In \cup {c} /\ c \notin In /\ Queued' = Queued
    BY <1>0, <1>b, <2>3 DEF In, Queued
  <2>7. Counted'
    BY <1>0, <2>1, <2>6, OneMore, InFinite DEF Counted
  <2>8. OneCloser' /\ OwnerAlone'
    BY <1>0, <2>1, <2>2, <2>3 DEF OneCloser, OwnerAlone
  <2>9. NoLostWakeup'
    <3>1. SUFFICES ASSUME NEW x \in asleep PROVE ~CanGo(x)'
      BY <2>1 DEF NoLostWakeup
    <3>2. ~CanGo(x) /\ x \in Caller \cup Drainer
      BY <1>0 DEF NoLostWakeup, GateTypeOK
    <3>3. at[x] \notin {"begin", "queued"}
      BY <2>2, <3>2 DEF CanGo, Open
    <3>4. active' # 0
      BY <1>0, <2>1 DEF GateTypeOK
    <3> QED
      BY <2>1, <2>3, <3>2, <3>3, <3>4 DEF CanGo
  <2> QED
    BY <2>4, <2>5, <2>7, <2>8, <2>9 DEF IInv
<1>2. CASE ~Open
  <2>1. /\ asleep' = asleep \cup {c} /\ at' = [at EXCEPT ![c] = "begin"]
        /\ UNCHANGED <<active, waiters, draining, drains>>
    BY <1>2 DEF Begin, Goto
  <2>2. \A x \in Caller \cup Drainer : at'[x] = IF x = c THEN "begin" ELSE at[x]
    BY <1>a, <2>1
  <2>3. GateTypeOK' /\ Roles'
    BY <1>0, <2>1, <2>2 DEF GateTypeOK, Roles
  <2>4. In' = In /\ Queued' = Queued
    BY <1>0, <1>b, <2>2 DEF In, Queued
  <2>5. Counted'
    BY <1>0, <2>1, <2>4 DEF Counted
  <2>6. OneCloser' /\ OwnerAlone'
    BY <1>0, <2>1, <2>2 DEF OneCloser, OwnerAlone
  <2>7. NoLostWakeup'
    BY <1>0, <1>2, <2>1, <2>2 DEF NoLostWakeup, CanGo, Open, GateTypeOK
  <2> QED
    BY <2>3, <2>5, <2>6, <2>7 DEF IInv
<1> QED
  BY <1>1, <1>2

\* end()
LEMMA EndInv ==
  ASSUME IInv, NEW c \in Caller, End(c)
  PROVE  IInv'
<1>0. /\ GateTypeOK /\ Roles /\ Counted /\ OneCloser /\ OwnerAlone /\ NoLostWakeup
      /\ c \notin Drainer /\ at[c] = "in"
  BY GateAssumption DEF IInv, End
<1>a. at \in [Caller \cup Drainer -> {"out", "begin", "in", "queued", "closing", "owner"}]
  BY <1>0 DEF GateTypeOK
<1>1. active # 0
  BY <1>0, CountZero
<1>2. /\ active' = active - 1 /\ asleep' = {} /\ at' = [at EXCEPT ![c] = "out"]
      /\ UNCHANGED <<waiters, draining, drains>>
  BY <1>1 DEF End, Goto
<1>3. \A x \in Caller \cup Drainer : at'[x] = IF x = c THEN "out" ELSE at[x]
  BY <1>a, <1>2
<1>4. GateTypeOK' /\ Roles'
  BY <1>0, <1>1, <1>2, <1>3 DEF GateTypeOK, Roles
<1>5. In' = In \ {c} /\ c \in In /\ Queued' = Queued
  BY <1>0, <1>3 DEF In, Queued
<1>6. Counted'
  BY <1>0, <1>2, <1>5, OneLess, InFinite DEF Counted
<1>7. OneCloser'
  BY <1>0, <1>2, <1>3 DEF OneCloser
<1>8. OwnerAlone'
  BY <1>0, <1>1, <1>3 DEF OwnerAlone
<1>9. NoLostWakeup'
  BY <1>2 DEF NoLostWakeup
<1> QED
  BY <1>4, <1>6, <1>7, <1>8, <1>9 DEF IInv

\* The critical section of drain() that takes the gate, from drain()'s entry or
\* from the queue.
LEMMA CloseInv ==
  ASSUME IInv, NEW d \in Drainer, ~draining, Close(d),
         at[d] \in {"out", "queued"},
         waiters' = IF at[d] = "queued" THEN waiters - 1 ELSE waiters,
         active' = active, drains' \in Nat
  PROVE  IInv'
<1>0. /\ GateTypeOK /\ Roles /\ Counted /\ OneCloser /\ OwnerAlone /\ NoLostWakeup
      /\ d \notin Caller
  BY GateAssumption DEF IInv
<1>a. at \in [Caller \cup Drainer -> {"out", "begin", "in", "queued", "closing", "owner"}]
  BY <1>0 DEF GateTypeOK
<1> DEFINE to == IF active = 0 THEN "owner" ELSE "closing"
<1>1. /\ draining' = TRUE /\ at' = [at EXCEPT ![d] = to]
      /\ asleep' = IF active = 0 THEN asleep \ {d} ELSE asleep \cup {d}
  BY DEF Close, Goto
<1>2. \A x \in Caller \cup Drainer : at'[x] = IF x = d THEN to ELSE at[x]
  BY <1>a, <1>1
<1>3. waiters' \in Nat
  <2>1. at[d] = "queued" => waiters # 0
    BY <1>0, CountZero
  <2> QED
    BY <1>0, <2>1 DEF GateTypeOK
<1>4. GateTypeOK' /\ Roles'
  BY <1>0, <1>1, <1>2, <1>3 DEF GateTypeOK, Roles
<1>5. In' = In
  BY <1>0, <1>2 DEF In
<1>6. Queued' = IF at[d] = "queued" THEN Queued \ {d} ELSE Queued
  BY <1>2 DEF Queued
<1>7. at[d] = "queued" => d \in Queued
  BY DEF Queued
<1>8. Counted'
  BY <1>0, <1>5, <1>6, <1>7, OneLess, InFinite DEF Counted
<1>9. \A e \in Drainer : at[e] \notin {"closing", "owner"}
  BY <1>0 DEF OneCloser
<1>10. OneCloser' /\ OwnerAlone'
  BY <1>1, <1>2, <1>9 DEF OneCloser, OwnerAlone
<1>11. NoLostWakeup'
  <2>1. SUFFICES ASSUME NEW x \in asleep' PROVE ~CanGo(x)'
    BY DEF NoLostWakeup
  <2>2. CASE x = d
    BY <1>1, <1>2, <2>2 DEF CanGo, Open
  <2>3. CASE x # d
    <3>1. x \in asleep /\ x \in Caller \cup Drainer /\ at'[x] = at[x]
      BY <1>0, <1>1, <1>2, <2>3 DEF GateTypeOK
    <3>2. ~CanGo(x)
      BY <1>0, <3>1 DEF NoLostWakeup
    <3> QED
      BY <1>1, <3>1, <3>2 DEF CanGo, Open
  <2> QED
    BY <2>2, <2>3
<1> QED
  BY <1>4, <1>8, <1>10, <1>11 DEF IInv

\* drain() entered
LEMMA DrainInv ==
  ASSUME IInv, NEW d \in Drainer, Drain(d)
  PROVE  IInv'
<1>0. /\ GateTypeOK /\ Roles /\ Counted /\ OneCloser /\ OwnerAlone /\ NoLostWakeup
      /\ d \notin Caller /\ at[d] = "out"
  BY GateAssumption DEF IInv, Drain
<1>a. at \in [Caller \cup Drainer -> {"out", "begin", "in", "queued", "closing", "owner"}]
  BY <1>0 DEF GateTypeOK
<1>b. drains' \in Nat
  BY <1>0 DEF Drain, GateTypeOK
<1>1. CASE draining
  <2>1. /\ waiters' = waiters + 1 /\ asleep' = asleep \cup {d}
        /\ at' = [at EXCEPT ![d] = "queued"] /\ UNCHANGED <<draining, active>>
    BY <1>1 DEF Drain, Goto
  <2>2. \A x \in Caller \cup Drainer : at'[x] = IF x = d THEN "queued" ELSE at[x]
    BY <1>a, <2>1
  <2>3. GateTypeOK' /\ Roles'
    BY <1>0, <1>b, <2>1, <2>2 DEF GateTypeOK, Roles
  <2>4. In' = In /\ Queued' = Queued \cup {d} /\ d \notin Queued
    BY <1>0, <2>2 DEF In, Queued
  <2>5. Counted'
    BY <1>0, <2>1, <2>4, OneMore, InFinite DEF Counted
  <2>6. OneCloser' /\ OwnerAlone'
    BY <1>0, <2>1, <2>2 DEF OneCloser, OwnerAlone
  <2>7. NoLostWakeup'
    <3>1. SUFFICES ASSUME NEW x \in asleep' PROVE ~CanGo(x)'
      BY DEF NoLostWakeup
    <3>2. CASE x = d
      BY <1>1, <2>1, <2>2, <3>2 DEF CanGo
    <3>3. CASE x # d
      <4>1. x \in asleep /\ x \in Caller \cup Drainer /\ at'[x] = at[x]
        BY <1>0, <2>1, <2>2, <3>3 DEF GateTypeOK
      <4> QED
        BY <1>0, <1>1, <2>1, <4>1 DEF NoLostWakeup, CanGo, Open
    <3> QED
      BY <3>2, <3>3
  <2> QED
    BY <2>3, <2>5, <2>6, <2>7 DEF IInv
<1>2. CASE ~draining
  BY <1>0, <1>b, <1>2, CloseInv DEF Drain
<1> QED
  BY <1>1, <1>2

\* A queued drain woken up
LEMMA DrainWakeInv ==
  ASSUME IInv, NEW d \in Drainer, DrainWake(d)
  PROVE  IInv'
<1>0. GateTypeOK /\ at[d] = "queued"
  BY DEF IInv, DrainWake
<1>1. CASE draining
  <2>1. /\ asleep' = asleep \cup {d}
        /\ UNCHANGED <<active, waiters, draining, at, drains>>
    BY <1>1 DEF DrainWake
  <2>2. GateTypeOK' /\ Roles' /\ OneCloser' /\ OwnerAlone'
    BY <2>1 DEF IInv, GateTypeOK, Roles, OneCloser, OwnerAlone
  <2>3. Counted'
    BY <2>1 DEF IInv, Counted, In, Queued
  <2>4. NoLostWakeup'
    BY <1>0, <1>1, <2>1 DEF IInv, NoLostWakeup, CanGo, Open
  <2> QED
    BY <2>2, <2>3, <2>4 DEF IInv
<1>2. CASE ~draining
  <2>1. drains' \in Nat
    BY <1>0 DEF DrainWake, GateTypeOK
  <2> QED
    BY <1>0, <1>2, <2>1, CloseInv DEF DrainWake
<1> QED
  BY <1>1, <1>2

\* The drain that has closed the gate woken up
LEMMA CloseWakeInv ==
  ASSUME IInv, NEW d \in Drainer, CloseWake(d)
  PROVE  IInv'
<1>0. /\ GateTypeOK /\ Roles /\ Counted /\ OneCloser /\ OwnerAlone /\ NoLostWakeup
      /\ d \notin Caller /\ at[d] = "closing" /\ d \notin asleep
  BY GateAssumption DEF IInv, CloseWake
<1>a. at \in [Caller \cup Drainer -> {"out", "begin", "in", "queued", "closing", "owner"}]
  BY <1>0 DEF GateTypeOK
<1>1. CASE active = 0
  <2>1. at' = [at EXCEPT ![d] = "owner"] /\ UNCHANGED <<asleep, active, waiters, draining, drains>>
    BY <1>1 DEF CloseWake, Goto
  <2>2. \A x \in Caller \cup Drainer : at'[x] = IF x = d THEN "owner" ELSE at[x]
    BY <1>a, <2>1
  <2>3. GateTypeOK' /\ Roles'
    BY <1>0, <2>1, <2>2 DEF GateTypeOK, Roles
  <2>4. In' = In /\ Queued' = Queued
    BY <1>0, <2>2 DEF In, Queued
  <2>5. Counted'
    BY <1>0, <2>1, <2>4 DEF Counted
  <2>6. OneCloser' /\ OwnerAlone'
    BY <1>0, <1>1, <2>1, <2>2 DEF OneCloser, OwnerAlone
  <2>7. NoLostWakeup'
    BY <1>0, <2>1, <2>2 DEF NoLostWakeup, CanGo, Open, GateTypeOK
  <2> QED
    BY <2>3, <2>5, <2>6, <2>7 DEF IInv
<1>2. CASE active # 0
  <2>1. asleep' = asleep \cup {d} /\ UNCHANGED <<at, active, waiters, draining, drains>>
    BY <1>2 DEF CloseWake
  <2>2. GateTypeOK' /\ Roles' /\ OneCloser' /\ OwnerAlone'
    BY <1>0, <2>1 DEF GateTypeOK, Roles, OneCloser, OwnerAlone
  <2>3. Counted'
    BY <1>0, <2>1 DEF Counted, In, Queued
  <2>4. NoLostWakeup'
    BY <1>0, <1>2, <2>1 DEF NoLostWakeup, CanGo, Open
  <2> QED
    BY <2>2, <2>3, <2>4 DEF IInv
<1> QED
  BY <1>1, <1>2

\* resume()
LEMMA ResumeInv ==
  ASSUME IInv, NEW d \in Drainer, Resume(d)
  PROVE  IInv'
<1>0. /\ GateTypeOK /\ Roles /\ Counted /\ OneCloser /\ OwnerAlone /\ NoLostWakeup
      /\ d \notin Caller /\ at[d] = "owner"
  BY GateAssumption DEF IInv, Resume
<1>a. at \in [Caller \cup Drainer -> {"out", "begin", "in", "queued", "closing", "owner"}]
  BY <1>0 DEF GateTypeOK
<1>1. draining
  BY <1>0 DEF OneCloser
<1>2. /\ draining' = FALSE /\ asleep' = {} /\ at' = [at EXCEPT ![d] = "out"]
      /\ UNCHANGED <<active, waiters, drains>>
  BY <1>1 DEF Resume, Goto
<1>3. \A x \in Caller \cup Drainer : at'[x] = IF x = d THEN "out" ELSE at[x]
  BY <1>a, <1>2
<1>4. GateTypeOK' /\ Roles'
  BY <1>0, <1>2, <1>3 DEF GateTypeOK, Roles
<1>5. In' = In /\ Queued' = Queued
  BY <1>0, <1>3 DEF In, Queued
<1>6. Counted'
  BY <1>0, <1>2, <1>5 DEF Counted
<1>7. OneCloser' /\ OwnerAlone'
  BY <1>0, <1>2, <1>3 DEF OneCloser, OwnerAlone
<1>8. NoLostWakeup'
  BY <1>2 DEF NoLostWakeup
<1> QED
  BY <1>4, <1>6, <1>7, <1>8 DEF IInv

\* Waking for no reason, and not moving at all
LEMMA WakeInv ==
  ASSUME IInv, asleep' \subseteq asleep, UNCHANGED <<active, waiters, draining, at, drains>>
  PROVE  IInv'
<1>1. GateTypeOK' /\ Roles' /\ OneCloser' /\ OwnerAlone'
  BY DEF IInv, GateTypeOK, Roles, OneCloser, OwnerAlone
<1>2. Counted'
  BY DEF IInv, Counted, In, Queued
<1>3. NoLostWakeup'
  BY DEF IInv, NoLostWakeup, CanGo, Open
<1> QED
  BY <1>1, <1>2, <1>3 DEF IInv

\* Every step of the gate keeps the inductive invariant, one action at a time.
LEMMA NextInv == IInv /\ [GateNext]_gateVars => IInv'
<1> SUFFICES ASSUME IInv, [GateNext]_gateVars PROVE IInv'
  OBVIOUS
<1>1. ASSUME NEW c \in Caller, Begin(c) PROVE IInv'
  BY <1>1, BeginInv
<1>2. ASSUME NEW c \in Caller, End(c) PROVE IInv'
  BY <1>2, EndInv
<1>3. ASSUME NEW d \in Drainer, Drain(d) PROVE IInv'
  BY <1>3, DrainInv
<1>4. ASSUME NEW d \in Drainer, DrainWake(d) PROVE IInv'
  BY <1>4, DrainWakeInv
<1>5. ASSUME NEW d \in Drainer, CloseWake(d) PROVE IInv'
  BY <1>5, CloseWakeInv
<1>6. ASSUME NEW d \in Drainer, Resume(d) PROVE IInv'
  BY <1>6, ResumeInv
<1>7. ASSUME NEW x \in Caller \cup Drainer, SpuriousWake(x) PROVE IInv'
  <2>1. asleep' \subseteq asleep /\ UNCHANGED <<active, waiters, draining, at, drains>>
    BY <1>7 DEF SpuriousWake
  <2> QED
    BY <2>1, WakeInv
<1>8. CASE UNCHANGED gateVars
  BY <1>8, WakeInv DEF gateVars
<1> QED
  BY <1>1, <1>2, <1>3, <1>4, <1>5, <1>6, <1>7, <1>8 DEF GateNext

\* The owner of a closed gate is alone: active is zero and no other drain closes.
LEMMA InvExclusive == IInv => Exclusive
<1> SUFFICES ASSUME IInv, NEW d \in Drainer, at[d] = "owner"
             PROVE  /\ \A c \in Caller : at[c] # "in"
                    /\ \A e \in Drainer \ {d} : at[e] \notin {"closing", "owner"}
  BY DEF Exclusive
<1>1. active = 0
  BY DEF IInv, OwnerAlone
<1>2. \A c \in Caller : at[c] # "in"
  BY <1>1, CountZero DEF IInv
<1> QED
  BY <1>2 DEF IInv, OneCloser

----------------------------------------------------------------------------
\* The gate's counters, flag and threads keep their types: active_calls_ and
\* drain_waiters_ are never decremented below zero.
THEOREM TypeCorrect == GateSpec => []GateTypeOK
<1>1. IInv => GateTypeOK
  BY DEF IInv
<1> QED
  BY InitInv, NextInv, <1>1, PTL DEF GateSpec

\* Whatever the number of lane workers and of checkpointing threads, a drain that
\* has returned has the gate to itself until its resume.
THEOREM GateExclusive == GateSpec => []Exclusive
BY InitInv, NextInv, InvExclusive, PTL DEF GateSpec

\* The single condition variable of the gate never loses a wake-up.
THEOREM GateWakes == GateSpec => []NoLostWakeup
<1>1. IInv => NoLostWakeup
  BY DEF IInv
<1> QED
  BY InitInv, NextInv, <1>1, PTL DEF GateSpec

\* No handler is admitted while a drain is queued, waits or has the gate.
THEOREM GateDrainFirst == GateSpec => DrainFirst
<1> DEFINE A == (\E d \in Drainer : at[d] \in {"queued", "closing", "owner"}) =>
                  \A c \in Caller : at[c] # "in" => at'[c] # "in"
<1>1. IInv /\ [GateNext]_gateVars => [A]_gateVars
  <2> SUFFICES ASSUME IInv, GateNext,
                      NEW d \in Drainer, at[d] \in {"queued", "closing", "owner"},
                      NEW c \in Caller, at[c] # "in"
               PROVE  at'[c] # "in"
    OBVIOUS
  <2>0. /\ at \in [Caller \cup Drainer -> {"out", "begin", "in", "queued", "closing", "owner"}]
        /\ Caller \cap Drainer = {}
    BY GateAssumption DEF IInv, GateTypeOK
  <2>1. ~Open
    <3>1. at[d] = "queued" => waiters # 0
      BY CountZero DEF IInv
    <3>2. at[d] \in {"closing", "owner"} => draining
      BY DEF IInv, OneCloser
    <3> QED
      BY <3>1, <3>2 DEF Open
  <2>2. ASSUME NEW b \in Caller, Begin(b) \/ End(b) PROVE at'[c] # "in"
    BY <2>0, <2>1, <2>2 DEF Begin, End, Goto
  <2>3. ASSUME NEW e \in Drainer, Drain(e) \/ DrainWake(e) \/ CloseWake(e) \/ Resume(e)
        PROVE  at'[c] # "in"
    <3>1. \/ at' = at
          \/ \E label \in {"out", "queued", "closing", "owner"} : at' = [at EXCEPT ![e] = label]
      BY <2>3 DEF Drain, DrainWake, CloseWake, Resume, Close, Goto
    <3> QED
      BY <2>0, <3>1
  <2>4. ASSUME NEW x \in Caller \cup Drainer, SpuriousWake(x) PROVE at'[c] # "in"
    BY <2>4 DEF SpuriousWake
  <2> QED
    BY <2>2, <2>3, <2>4 DEF GateNext
<1> QED
  BY InitInv, NextInv, <1>1, PTL DEF GateSpec, DrainFirst

\* Threads that wait in begin() or in drain(), and threads that can go on: those that
\* are inside, those that have the gate, and waiting ones that are awake.
Waiting == {x \in Caller \cup Drainer : at[x] \in {"begin", "queued", "closing"}}
GoesOn(x) == at[x] \in {"in", "owner"} \/ (x \in Waiting /\ x \notin asleep)

\* While anybody waits for the gate, somebody else can go on.
GateMoves == Waiting # {} => \E x \in Caller \cup Drainer : GoesOn(x)

\* If all who wait are asleep and nobody is inside or has the gate, then the drain that
\* waits for the calls could have gone on; there being none, a queued one could; there
\* being none of these either, the callers could.
LEMMA InvMoves == IInv => GateMoves
<1> SUFFICES ASSUME IInv, NEW x \in Waiting, \A y \in Caller \cup Drainer : ~GoesOn(y)
             PROVE  FALSE
  BY DEF GateMoves
<1>1. /\ \A y \in Waiting : y \in asleep /\ ~CanGo(y)
      /\ \A y \in Caller \cup Drainer : at[y] \notin {"in", "owner"}
  BY DEF GoesOn, IInv, NoLostWakeup, Waiting
<1>2. active = 0
  BY <1>1, CountZero DEF IInv
<1>3. \A y \in Caller \cup Drainer : at[y] # "closing"
  BY <1>1, <1>2 DEF Waiting, CanGo
<1>4. ~draining
  BY <1>1, <1>3 DEF IInv, OneCloser
<1>5. \A y \in Caller \cup Drainer : at[y] # "queued"
  BY <1>1, <1>4 DEF Waiting, CanGo
<1>6. Open
  BY <1>4, <1>5, CountZero DEF IInv, Open
<1> QED
  BY <1>1, <1>3, <1>5, <1>6 DEF Waiting, CanGo

\* Handlers and checkpoints never wait for each other in a circle, whatever their number.
THEOREM GateNeverStuck == GateSpec => []GateMoves
BY InitInv, NextInv, InvMoves, PTL DEF GateSpec

----------------------------------------------------------------------------
(* The end of a child.  The invariant follows the shutdown loop: a lane     *)
(* that is not left to stop, and is not being joined, has no worker any     *)
(* more; afterwards there is none at all, and none can come back.           *)

\* The record of a lane's worker keeps its type.
WorkerTypes ==
  worker \in [Lane -> [st : {"none", "wait", "body", "exec", "reply", "exited"}, ready : BOOLEAN,
                       op : Op \cup {"none"}, run : Op \cup {"none"}]]

\* A thread belongs to a lane of the map.
Mapped == lanes \subseteq Lane /\ \A l \in Lane : l \notin lanes => worker[l].st = "none"

\* The shutdown loop has stopped and joined every worker it has passed.
Stopped ==
  /\ reader \in {"tear", "tearjoin"} =>
       \A l \in lanes : l \in todo \/ (reader = "tearjoin" /\ l = target) \/ worker[l].st = "exited"
  /\ reader \in {"tear", "tearjoin", "quit", "restore", "decide", "exited"} => todo \subseteq lanes

ChildInv == WorkerTypes /\ Mapped /\ Stopped /\ CheckpointQuiesced

\* A child that has read nothing has no worker.
LEMMA ChildInit == Init => ChildInv
BY DEF Init, ChildInv, WorkerTypes, Mapped, Stopped, CheckpointQuiesced, NoWorker

\* What a step may do to a worker while the reader stays where it is: threads end, and
\* go on, but none starts and none comes back.
Goes(l) ==
  /\ worker'[l].st = "none" <=> worker[l].st = "none"
  /\ worker[l].st = "exited" => worker'[l].st = "exited"

\* A step of a lane's worker.
LEMMA WorkerGoes ==
  ASSUME WorkerTypes, NEW w \in Lane, Worker(w)
  PROVE  /\ WorkerTypes' /\ \A l \in Lane : Goes(l)
         /\ worker[w].st \notin {"none", "exited"} /\ UNCHANGED <<reader, target, todo, lanes>>
<1>1. worker[w] \in [st : {"none", "wait", "body", "exec", "reply", "exited"}, ready : BOOLEAN,
                     op : Op \cup {"none"}, run : Op \cup {"none"}]
  BY DEF WorkerTypes
<1>2. UNCHANGED <<reader, target, todo, lanes>> /\ worker[w].st \notin {"none", "exited"}
  BY DEF Worker, WorkerTake, WorkerRead, WorkerFails, WorkerExec, WorkerReply
<1>3. \E y : /\ worker' = [worker EXCEPT ![w] = y] /\ y.st # "none"
             /\ y \in [st : {"none", "wait", "body", "exec", "reply", "exited"}, ready : BOOLEAN,
                       op : Op \cup {"none"}, run : Op \cup {"none"}]
  <2>1. CASE WorkerTake(w)
    <3>1. PICK s \in {"exited", "body"} :
            worker' = [worker EXCEPT ![w].ready = FALSE, ![w].run = worker[w].op, ![w].st = s]
      BY <2>1 DEF WorkerTake
    <3>2. PICK y : y = [worker[w] EXCEPT !.ready = FALSE, !.run = worker[w].op, !.st = s]
      OBVIOUS
    <3>3. worker' = [worker EXCEPT ![w] = y]
      BY <1>1, <3>1, <3>2 DEF WorkerTypes
    <3>4. /\ y.st = s /\ y.st # "none"
          /\ y \in [st : {"none", "wait", "body", "exec", "reply", "exited"}, ready : BOOLEAN,
                    op : Op \cup {"none"}, run : Op \cup {"none"}]
      BY <1>1, <3>2
    <3> QED
      BY <3>3, <3>4
  <2>2. CASE WorkerRead(w) \/ WorkerFails(w) \/ WorkerExec(w) \/ WorkerReply(w)
    <3>1. PICK s \in {"exec", "exited", "wait", "reply"} : worker' = [worker EXCEPT ![w].st = s]
      BY <2>2 DEF WorkerRead, WorkerFails, WorkerExec, WorkerReply
    <3>2. PICK y : y = [worker[w] EXCEPT !.st = s]
      OBVIOUS
    <3>3. worker' = [worker EXCEPT ![w] = y]
      BY <1>1, <3>1, <3>2 DEF WorkerTypes
    <3>4. /\ y.st = s /\ y.st # "none"
          /\ y \in [st : {"none", "wait", "body", "exec", "reply", "exited"}, ready : BOOLEAN,
                    op : Op \cup {"none"}, run : Op \cup {"none"}]
      BY <1>1, <3>2
    <3> QED
      BY <3>3, <3>4
  <2> QED
    BY <2>1, <2>2 DEF Worker
<1>4. WorkerTypes' /\ \A l \in Lane \ {w} : worker'[l] = worker[l]
  BY <1>3 DEF WorkerTypes
<1>5. worker'[w].st # "none"
  BY <1>3 DEF WorkerTypes
<1> QED
  BY <1>2, <1>4, <1>5 DEF Goes

\* A request, or a termination, is handed to a lane: its thread starts if it is new.
LEMMA HandOverGoes ==
  ASSUME WorkerTypes, NEW w \in Lane, NEW op \in Op, HandOver(w, op)
  PROVE  /\ WorkerTypes' /\ \A l \in Lane \ {w} : worker'[l] = worker[l]
         /\ worker'[w].st # "none" /\ (worker[w].st = "exited" => worker'[w].st = "exited")
<1>1. worker[w] \in [st : {"none", "wait", "body", "exec", "reply", "exited"}, ready : BOOLEAN,
                     op : Op \cup {"none"}, run : Op \cup {"none"}]
  BY DEF WorkerTypes
<1>2. PICK y : y = [worker[w] EXCEPT !.ready = TRUE, !.op = op,
                                     !.st = IF worker[w].st = "none" THEN "wait" ELSE worker[w].st]
  OBVIOUS
<1>3. worker' = [worker EXCEPT ![w] = y]
  BY <1>1, <1>2 DEF HandOver, WorkerTypes
<1>4. /\ y \in [st : {"none", "wait", "body", "exec", "reply", "exited"}, ready : BOOLEAN,
                op : Op \cup {"none"}, run : Op \cup {"none"}]
      /\ y.st # "none" /\ (worker[w].st = "exited" => y.st = "exited")
  BY <1>1, <1>2
<1> QED
  BY <1>3, <1>4 DEF WorkerTypes

\* Steps that leave the workers, the map and the shutdown loop alone.
LEMMA ChildAside ==
  ASSUME ChildInv, UNCHANGED <<worker, lanes>>,
         \/ UNCHANGED <<reader, target, todo>>
         \/ reader = "wait" /\ reader' = "words"
         \/ reader' = "tear" /\ todo' = lanes
  PROVE  ChildInv'
<1>1. WorkerTypes' /\ Mapped'
  BY DEF ChildInv, WorkerTypes, Mapped
<1>2. Stopped' /\ CheckpointQuiesced'
  BY DEF ChildInv, Stopped, CheckpointQuiesced
<1> QED
  BY <1>1, <1>2 DEF ChildInv

\* Every step of the child keeps the invariant.
LEMMA ChildNext == ChildInv /\ [Next]_vars => ChildInv'
<1> SUFFICES ASSUME ChildInv, [Next]_vars
             PROVE  ChildInv'
  OBVIOUS
<1>0. WorkerTypes /\ Mapped /\ Stopped /\ CheckpointQuiesced
  BY DEF ChildInv
<1>1. CASE ReadRequestId \/ ReadResponseId \/ CudaThread \/ Sigterm
           \/ SignalThread \/ Disconnect
  BY <1>1, ChildAside
  DEF ReadRequestId, ReadResponseId, CudaThread, CallbackStart, CallbackRead,
      CallbackReadFails, CallbackClosed, Sigterm, SignalThread, Disconnect,
      connVars, finishVars
<1>2. CASE ReadFails \/ WordsFail
  BY <1>2, ChildAside DEF ReadFails, WordsFail, connVars
<1>3. ASSUME NEW w \in Lane, Worker(w)
      PROVE  ChildInv'
  <2>1. /\ WorkerTypes' /\ \A l \in Lane : Goes(l)
        /\ worker[w].st \notin {"none", "exited"} /\ UNCHANGED <<reader, target, todo, lanes>>
    BY <1>0, <1>3, WorkerGoes
  <2>2. Mapped' /\ Stopped'
    BY <1>0, <2>1 DEF Mapped, Stopped, Goes
  <2>3. CheckpointQuiesced'
    BY <1>0, <2>1 DEF CheckpointQuiesced
  <2> QED
    BY <2>1, <2>2, <2>3 DEF ChildInv
<1>4. ASSUME NEW w \in Lane, NEW op \in Op, ReadWords(w, op)
      PROVE  ChildInv'
  <2>1. /\ reader' \in {"join", "wait"} /\ lanes' = lanes \cup {w} /\ HandOver(w, op)
    BY <1>4 DEF ReadWords
  <2>2. WorkerTypes' /\ \A l \in Lane \ {w} : worker'[l] = worker[l]
    BY <1>0, <2>1, HandOverGoes
  <2>3. Mapped' /\ Stopped'
    BY <1>0, <2>1, <2>2 DEF Mapped, Stopped
  <2>4. CheckpointQuiesced'
    BY <2>1 DEF CheckpointQuiesced
  <2> QED
    BY <2>2, <2>3, <2>4 DEF ChildInv
<1>5. CASE JoinTerminated
  <2>1. NoWorker \in [st : {"none", "wait", "body", "exec", "reply", "exited"}, ready : BOOLEAN,
                            op : Op \cup {"none"}, run : Op \cup {"none"}]
    BY DEF NoWorker
  <2>2. /\ worker' = [worker EXCEPT ![target] = NoWorker] /\ lanes' = lanes \ {target}
        /\ reader' = "wait"
    BY <1>5 DEF JoinTerminated
  <2>3. /\ WorkerTypes' /\ \A l \in Lane : l # target => worker'[l] = worker[l]
        /\ target \in Lane => worker'[target] = NoWorker
    BY <1>0, <2>1, <2>2 DEF WorkerTypes
  <2>4. Mapped' /\ Stopped'
    BY <1>0, <2>2, <2>3 DEF Mapped, Stopped, NoWorker
  <2>5. CheckpointQuiesced'
    BY <2>2 DEF CheckpointQuiesced
  <2> QED
    BY <2>3, <2>4, <2>5 DEF ChildInv
<1>6. ASSUME NEW w \in Lane, TearStop(w)
      PROVE  ChildInv'
  <2>1. /\ reader = "tear" /\ w \in todo /\ HandOver(w, "term") /\ todo' = todo \ {w}
        /\ target' = w /\ reader' = "tearjoin" /\ UNCHANGED lanes
    BY <1>6 DEF TearStop
  <2>2. "term" \in Op
    BY DEF Op
  <2>3. /\ WorkerTypes' /\ \A l \in Lane \ {w} : worker'[l] = worker[l]
    BY <1>0, <2>1, <2>2, HandOverGoes
  <2>4. Mapped' /\ Stopped'
    BY <1>0, <2>1, <2>3 DEF Mapped, Stopped
  <2>5. CheckpointQuiesced'
    BY <2>1 DEF CheckpointQuiesced
  <2> QED
    BY <2>3, <2>4, <2>5 DEF ChildInv
<1>7. CASE TearJoin
  <2>1. /\ reader = "tearjoin" /\ worker[target].st = "exited" /\ reader' = "tear"
        /\ UNCHANGED <<target, todo, lanes, worker>>
    BY <1>7 DEF TearJoin, connVars
  <2>2. WorkerTypes' /\ Mapped' /\ Stopped' /\ CheckpointQuiesced'
    BY <1>0, <2>1 DEF WorkerTypes, Mapped, Stopped, CheckpointQuiesced
  <2> QED
    BY <2>2 DEF ChildInv
<1>8. CASE TearDone
  <2>1. reader = "tear" /\ todo = {} /\ reader' = "quit" /\ UNCHANGED <<target, todo, lanes, worker>>
    BY <1>8 DEF TearDone
  <2>2. WorkerTypes' /\ Mapped' /\ Stopped'
    BY <1>0, <2>1 DEF WorkerTypes, Mapped, Stopped
  <2>3. CheckpointQuiesced'
    BY <1>0, <2>1 DEF Mapped, Stopped, CheckpointQuiesced
  <2> QED
    BY <2>2, <2>3 DEF ChildInv
<1>9. CASE FinishQuit \/ FinishRestore \/ FinishDecide
  <2>1. /\ reader \in {"quit", "restore", "decide"} /\ reader' \in {"restore", "decide", "exited"}
        /\ UNCHANGED <<target, todo, lanes, worker>>
    BY <1>9 DEF FinishQuit, FinishRestore, FinishDecide, connVars
  <2>2. WorkerTypes' /\ Mapped' /\ Stopped' /\ CheckpointQuiesced'
    BY <1>0, <2>1 DEF WorkerTypes, Mapped, Stopped, CheckpointQuiesced
  <2> QED
    BY <2>2 DEF ChildInv
<1>10. CASE UNCHANGED vars
  BY <1>10, ChildAside DEF vars, connVars
<1> QED
  BY <1>1, <1>2, <1>3, <1>4, <1>5, <1>6, <1>7, <1>8, <1>9, <1>10 DEF Next, Reader

\* From the moment a child finishes no lane worker is left to make a CUDA call, whatever
\* the number of lanes and wherever the connection broke (CheckpointQuiesced).
THEOREM ChildQuiesced == Spec => []CheckpointQuiesced
<1>1. ChildInv => CheckpointQuiesced
  BY DEF ChildInv
<1> QED
  BY ChildInit, ChildNext, <1>1, PTL DEF Spec

\* A SIGTERM that reaches the child's handler is never lost (TermCheckpoints).
THEOREM ChildCheckpoints == Spec => []TermCheckpoints
<1>1. Init => TermCheckpoints
  BY DEF Init, TermCheckpoints
<1>2. TermCheckpoints /\ [Next]_vars => TermCheckpoints'
  <2> SUFFICES ASSUME TermCheckpoints, [Next]_vars
               PROVE  TermCheckpoints'
    OBVIOUS
  <2>1. CASE FinishDecide
    BY <2>1 DEF FinishDecide, ShouldCheckpoint, TermCheckpoints
  <2>2. CASE Sigterm
    BY <2>2 DEF Sigterm, TermCheckpoints
  <2>3. CASE UNCHANGED <<term, checkpointed>> /\ (reader' = reader \/ reader' # "exited")
    BY <2>3 DEF TermCheckpoints
  <2>4. ASSUME NEW w \in Lane, Worker(w)
        PROVE  TermCheckpoints'
    BY <2>3, <2>4 DEF Worker, WorkerTake, WorkerRead, WorkerFails, WorkerExec,
                      WorkerReply, finishVars
  <2>5. CASE CudaThread \/ SignalThread \/ Disconnect \/ ReadRequestId \/ ReadResponseId
    BY <2>3, <2>5 DEF CudaThread, CallbackStart, CallbackRead, CallbackReadFails,
                      CallbackClosed, SignalThread, Disconnect, ReadRequestId,
                      ReadResponseId, finishVars
  <2>6. CASE Reader
    BY <2>1, <2>3, <2>6 DEF Reader, ReadFails, JoinTerminated, WordsFail, ReadWords,
                      TearStop, TearJoin, TearDone, FinishQuit, FinishRestore,
                      finishVars
  <2>7. CASE UNCHANGED vars
    BY <2>3, <2>7 DEF vars, finishVars
  <2> QED
    BY <2>2, <2>4, <2>5, <2>6, <2>7 DEF Next
<1> QED
  BY <1>1, <1>2, PTL DEF Spec

----------------------------------------------------------------------------
(* The end of a child: no third way to wait for ever.  Each half of the    *)
(* argument needs one more fact: the worker that is joined has the         *)
(* termination in its place, and the callback's response has its reader.   *)

\* What the guards compare keeps its type; lanes is counted, so it is finite.
ChildTypes ==
  /\ sock \in {"up", "down", "eof"} /\ closed \in BOOLEAN
  /\ reader \in {"wait", "words", "join", "tear", "tearjoin", "quit", "restore", "decide", "exited"}
  /\ slot \in {"empty", "request", "response", "stop"}
  /\ pend \in Nat /\ cb \in {"idle", "waiting", "answered"}
  /\ term \in BOOLEAN /\ sig \in {"watch", "T", "joined"} /\ requested \in BOOLEAN
  /\ IsFiniteSet(lanes)

\* A worker has returned, or the termination it is to take is in its place.
Ends(l) ==
  /\ worker[l].st # "none"
  /\ worker[l].st = "exited" \/ (worker[l].ready /\ worker[l].op = "term")

\* The reader joins a worker that it has told to end.
Joined == reader \in {"join", "tearjoin"} => target \in Lane /\ Ends(target)

\* A response in the slot has its callback, unless the connection is closed.
Answering == slot = "response" => cb = "answered" \/ (cb = "idle" /\ closed)

\* SIGTERM is in the pipe, or has shut the socket, or found the child past it.
Handled ==
  /\ requested => sock # "up"
  /\ term \/ sig = "joined" => sig = "T" \/ requested \/ reader \in {"restore", "decide", "exited"}

TrapInv == ChildInv /\ ChildTypes /\ Joined /\ Answering /\ Handled

\* A new child waits for its first request.
LEMMA TrapInit == Init => TrapInv
<1> SUFFICES ASSUME Init
             PROVE  TrapInv
  OBVIOUS
<1>1. IsFiniteSet(lanes)
  BY FS_EmptySet DEF Init
<1>2. ChildTypes
  BY <1>1 DEF Init, ChildTypes
<1>3. Joined /\ Answering /\ Handled
  BY DEF Init, Joined, Answering, Handled
<1> QED
  BY <1>2, <1>3, ChildInit DEF TrapInv

\* The map of lanes stays finite: a request adds one, a join takes one out.
LEMMA LanesFinite ==
  ASSUME IsFiniteSet(lanes), [Next]_vars
  PROVE  IsFiniteSet(lanes')
<1>1. ASSUME NEW w \in Lane, lanes' = lanes \cup {w} PROVE IsFiniteSet(lanes')
  BY <1>1, FS_AddElement
<1>2. ASSUME lanes' = lanes \ {target} PROVE IsFiniteSet(lanes')
  BY <1>2, FS_Subset
<1>3. \/ lanes' = lanes \/ lanes' = lanes \ {target}
      \/ \E w \in Lane : lanes' = lanes \cup {w}
  <2>1. CASE ReadRequestId \/ ReadResponseId \/ CudaThread \/ Sigterm \/ SignalThread \/ Disconnect
    BY <2>1 DEF ReadRequestId, ReadResponseId, CudaThread, CallbackStart, CallbackRead,
      CallbackReadFails, CallbackClosed, Sigterm, SignalThread, Disconnect, connVars
  <2>2. CASE Reader
    BY <2>2 DEF Reader, ReadFails, JoinTerminated, WordsFail, ReadWords, TearStop, TearJoin, TearDone,
      FinishQuit, FinishRestore, FinishDecide, connVars
  <2>3. CASE \E l \in Lane : Worker(l)
    BY <2>3 DEF Worker, WorkerTake, WorkerRead, WorkerFails, WorkerExec, WorkerReply
  <2>4. CASE UNCHANGED vars
    BY <2>4 DEF vars, connVars
  <2> QED
    BY <2>1, <2>2, <2>3, <2>4 DEF Next
<1> QED
  BY <1>1, <1>2, <1>3

\* A worker told to end takes nothing else on its way.
LEMMA WorkerEnds ==
  ASSUME WorkerTypes, NEW w \in Lane, Worker(w), NEW l \in Lane, Ends(l)
  PROVE  Ends(l)'
<1>1. worker[w] \in [st : {"none", "wait", "body", "exec", "reply", "exited"}, ready : BOOLEAN,
                     op : Op \cup {"none"}, run : Op \cup {"none"}]
  BY DEF WorkerTypes
<1>2. CASE WorkerTake(w)
  <2>1. CASE l # w
    BY <1>2, <2>1 DEF WorkerTake, WorkerTypes, Ends
  <2>2. CASE l = w
    <3>1. worker[w].op = "term"
      BY <1>2, <2>2 DEF WorkerTake, Ends
    <3>2. worker' = [worker EXCEPT ![w].ready = FALSE, ![w].run = worker[w].op, ![w].st = "exited"]
      BY <1>2, <3>1 DEF WorkerTake
    <3>3. worker'[w].st = "exited"
      BY <1>1, <3>2 DEF WorkerTypes
    <3> QED
      BY <2>2, <3>3 DEF Ends
  <2> QED
    BY <2>1, <2>2
<1>3. CASE WorkerRead(w) \/ WorkerFails(w) \/ WorkerExec(w) \/ WorkerReply(w)
  <2>1. PICK s \in {"exec", "exited", "wait", "reply"} : worker' = [worker EXCEPT ![w].st = s]
    BY <1>3 DEF WorkerRead, WorkerFails, WorkerExec, WorkerReply
  <2>2. worker[w].st # "exited"
    BY <1>3 DEF WorkerRead, WorkerFails, WorkerExec, WorkerReply
  <2> QED
    BY <1>1, <2>1, <2>2 DEF WorkerTypes, Ends
<1> QED
  BY <1>2, <1>3 DEF Worker

\* A termination that is handed over ends the worker.
LEMMA HandOverEnds ==
  ASSUME WorkerTypes, NEW w \in Lane, HandOver(w, "term")
  PROVE  Ends(w)'
<1>1. worker[w] \in [st : {"none", "wait", "body", "exec", "reply", "exited"}, ready : BOOLEAN,
                     op : Op \cup {"none"}, run : Op \cup {"none"}]
  BY DEF WorkerTypes
<1>2. PICK y : y = [worker[w] EXCEPT !.ready = TRUE, !.op = "term",
                                     !.st = IF worker[w].st = "none" THEN "wait" ELSE worker[w].st]
  OBVIOUS
<1>3. worker' = [worker EXCEPT ![w] = y]
  BY <1>1, <1>2 DEF HandOver, WorkerTypes
<1>4. y.ready /\ y.op = "term" /\ y.st # "none"
  BY <1>1, <1>2
<1> QED
  BY <1>3, <1>4 DEF WorkerTypes, Ends

\* Every step keeps the four facts.
LEMMA TrapNext == TrapInv /\ [Next]_vars => TrapInv'
<1> SUFFICES ASSUME TrapInv, [Next]_vars
             PROVE  TrapInv'
  OBVIOUS
<1>0. ChildTypes /\ Joined /\ Answering /\ Handled /\ WorkerTypes /\ IsFiniteSet(lanes') /\ ChildInv'
  <2>1. ChildTypes /\ Joined /\ Answering /\ Handled /\ WorkerTypes /\ ChildInv
    BY DEF TrapInv, ChildInv
  <2>2. IsFiniteSet(lanes') /\ ChildInv'
    BY <2>1, LanesFinite, ChildNext DEF ChildTypes
  <2> QED
    BY <2>1, <2>2
<1>1. ASSUME ReadRequestId \/ ReadResponseId \/ CudaThread \/ Sigterm \/ SignalThread \/ Disconnect
      PROVE  ChildTypes' /\ Joined' /\ Answering' /\ Handled'
  <2>1. CASE ReadRequestId
    BY <1>0, <2>1 DEF ReadRequestId, ChildTypes, Joined, Answering, Handled, finishVars, Ends
  <2>2. CASE ReadResponseId
    BY <1>0, <2>2 DEF ReadResponseId, ChildTypes, Joined, Answering, Handled, finishVars, Ends
  <2>3. CASE CudaThread
    <3>1. pend' \in Nat
      BY <1>0, <2>3 DEF CudaThread, CallbackStart, CallbackRead, CallbackReadFails, CallbackClosed, ChildTypes
    <3>2. ChildTypes' /\ Answering'
      BY <1>0, <2>3, <3>1 DEF CudaThread, CallbackStart, CallbackRead, CallbackReadFails, CallbackClosed,
        ChildTypes, Answering, finishVars, Writable
    <3>3. Joined' /\ Handled'
      BY <1>0, <2>3 DEF CudaThread, CallbackStart, CallbackRead, CallbackReadFails, CallbackClosed,
        Joined, Handled, finishVars, Ends
    <3> QED
      BY <3>2, <3>3
  <2>4. CASE Sigterm \/ SignalThread \/ Disconnect
    <3>1. Joined' /\ Answering'
      BY <1>0, <2>4 DEF Sigterm, SignalThread, Disconnect, Joined, Answering, connVars, Ends
    <3>2. ChildTypes'
      BY <1>0, <2>4 DEF Sigterm, SignalThread, Disconnect, ChildTypes, connVars, finishVars
    <3>3. ASSUME Sigterm PROVE Handled'
      BY <1>0, <3>3 DEF Sigterm, ChildTypes, Handled
    <3>4. ASSUME SignalThread PROVE Handled'
      BY <1>0, <3>4 DEF SignalThread, Handled
    <3>5. ASSUME Disconnect PROVE Handled'
      BY <1>0, <3>5 DEF Disconnect, Handled, finishVars
    <3> QED
      BY <2>4, <3>1, <3>2, <3>3, <3>4, <3>5
  <2> QED
    BY <1>1, <2>1, <2>2, <2>3, <2>4
<1>2. ASSUME NEW w \in Lane, Worker(w)
      PROVE  ChildTypes' /\ Joined' /\ Answering' /\ Handled'
  <2>1. Joined'
    BY <1>0, <1>2, WorkerEnds, WorkerGoes DEF Joined
  <2>2. ChildTypes' /\ Answering' /\ Handled'
    BY <1>0, <1>2 DEF Worker, WorkerTake, WorkerRead, WorkerFails, WorkerExec, WorkerReply,
      ChildTypes, Answering, Handled, finishVars
  <2> QED
    BY <2>1, <2>2
<1>3. ASSUME Reader
      PROVE  ChildTypes' /\ Joined' /\ Answering' /\ Handled'
  <2>1. CASE ReadFails \/ WordsFail
    BY <1>0, <2>1 DEF ReadFails, WordsFail, ChildTypes, Joined, Answering, Handled, connVars, finishVars
  <2>2. CASE JoinTerminated
    BY <1>0, <2>2 DEF JoinTerminated, ChildTypes, Joined, Answering, Handled, finishVars
  <2>3. ASSUME NEW w \in Lane, NEW op \in Op, ReadWords(w, op)
        PROVE  ChildTypes' /\ Joined' /\ Answering' /\ Handled'
    <3>1. op = "term" => Ends(w)'
      BY <1>0, <2>3, HandOverEnds DEF ReadWords
    <3>2. Joined'
      BY <2>3, <3>1 DEF ReadWords, Joined, Ends
    <3>3. ChildTypes' /\ Answering' /\ Handled'
      BY <1>0, <2>3 DEF ReadWords, ChildTypes, Answering, Handled, finishVars
    <3> QED
      BY <3>2, <3>3
  <2>4. ASSUME NEW w \in Lane, TearStop(w)
        PROVE  ChildTypes' /\ Joined' /\ Answering' /\ Handled'
    <3>1. Ends(w)' /\ target' = w
      BY <1>0, <2>4, HandOverEnds DEF TearStop
    <3>2. Joined'
      BY <3>1 DEF Joined, Ends
    <3>3. ChildTypes' /\ Answering' /\ Handled'
      BY <1>0, <2>4 DEF TearStop, ChildTypes, Answering, Handled, finishVars
    <3> QED
      BY <3>2, <3>3
  <2>5. CASE TearJoin \/ TearDone
    <3>1. ChildTypes' /\ Joined'
      BY <1>0, <2>5 DEF TearJoin, TearDone, ChildTypes, Joined, connVars, finishVars
    <3>2. Answering' /\ Handled'
      BY <1>0, <2>5 DEF TearJoin, TearDone, Answering, Handled, connVars, finishVars
    <3> QED
      BY <3>1, <3>2
  <2>6. CASE FinishQuit \/ FinishRestore \/ FinishDecide
    BY <1>0, <2>6 DEF FinishQuit, FinishRestore, FinishDecide, ChildTypes, Joined, Answering, Handled,
      connVars, finishVars
  <2> QED
    BY <1>3, <2>1, <2>2, <2>3, <2>4, <2>5, <2>6 DEF Reader
<1>4. ASSUME UNCHANGED vars
      PROVE  ChildTypes' /\ Joined' /\ Answering' /\ Handled'
  BY <1>0, <1>4 DEF vars, connVars, finishVars, ChildTypes, Joined, Answering, Handled, Ends
<1> QED
  BY <1>0, <1>1, <1>2, <1>3, <1>4 DEF TrapInv, Next

\* A worker that cannot go on has nothing to do, or is blocked.
LEMMA WorkerIdle ==
  ASSUME TrapInv, NEW l \in Lane, ~WorkerCanMove(l)
  PROVE  \/ worker[l].st \in {"none", "exited"}
         \/ worker[l].st = "wait" /\ ~worker[l].ready
         \/ Blocked(l)
<1>1. /\ worker[l].st \in {"none", "wait", "body", "exec", "reply", "exited"}
      /\ sock \in {"up", "down", "eof"} /\ (requested => sock # "up")
  BY DEF TrapInv, ChildInv, WorkerTypes, ChildTypes, Handled
<1>2. CASE worker[l].st = "body"
  BY <1>1, <1>2 DEF WorkerCanMove, Broken
<1>3. CASE worker[l].st = "reply"
  BY <1>1, <1>3 DEF WorkerCanMove, Writable
<1> QED
  BY <1>1, <1>2, <1>3 DEF WorkerCanMove

\* Nobody moves and a callback is under way: it waits for a response that is still
\* to be read, on a connection that is not closed.
LEMMA CudaIdle ==
  ASSUME TrapInv, ~CudaCanMove
  PROVE  /\ cb = "idle" => pend = 0
         /\ cb # "idle" => ~closed
         /\ slot = "response" => cb = "idle"
<1>1. /\ cb \in {"idle", "waiting", "answered"} /\ pend \in Nat /\ closed \in BOOLEAN
      /\ sock \in {"up", "down", "eof"} /\ (requested => sock # "up")
      /\ slot = "response" => cb = "answered" \/ cb = "idle"
  BY DEF TrapInv, ChildTypes, Handled, Answering
<1>2. cb = "idle" => pend = 0
  BY <1>1 DEF CudaCanMove, Writable
<1>3. cb # "idle" => ~closed
  BY <1>1 DEF CudaCanMove
<1>4. slot = "response" => cb # "answered"
  BY <1>1, <1>3 DEF CudaCanMove, Broken
<1> QED
  BY <1>1, <1>2, <1>3, <1>4

\* The words of a request can always be dealt with.
LEMMA WordsMove ==
  ASSUME TrapInv, reader = "words"
  PROVE  ReaderCanMove
<1>1. PICK l \in Lane : TRUE
  BY ChildAssumption
<1>2. Cardinality(lanes) \in Nat /\ MaxLanes \in Nat
  BY FS_CardinalityType, ChildAssumption DEF TrapInv, ChildTypes
<1>3. l \in lanes \/ Cardinality(lanes) < MaxLanes \/ Cardinality(lanes) >= MaxLanes
  BY <1>2
<1> QED
  BY <1>3 DEF ReaderCanMove, Broken

\* The invariant leaves no third trap.
LEMMA TrapsKnown == TrapInv => NoThirdTrap
<1> SUFFICES ASSUME TrapInv, term \/ sock # "up", ~CanMove
             PROVE  reader = "exited" \/ OrphanSlot \/ BlockedJoin
  BY DEF NoThirdTrap
<1>1. /\ ~ReaderCanMove /\ ~CudaCanMove /\ sig # "T"
      /\ \A l \in Lane : ~WorkerCanMove(l)
  BY DEF CanMove
<1>2. reader \in {"wait", "words", "join", "tear", "tearjoin", "quit", "restore", "decide", "exited"}
  BY DEF TrapInv, ChildTypes
<1>3. CASE reader \in {"words", "quit", "restore", "decide"}
  BY <1>1, <1>3, WordsMove DEF ReaderCanMove
<1>4. CASE reader \in {"wait", "tear"}
  <2>1. sock # "up"
    BY <1>1, <1>4 DEF TrapInv, Handled
  <2>2. slot # "empty"
    BY <1>1, <1>4, <2>1 DEF ReaderCanMove
  <2>3. slot = "response" => cb = "idle"
    BY <1>1, CudaIdle
  <2> QED
    BY <1>1, <1>4, <2>2, <2>3, WorkerIdle DEF OrphanSlot
<1>5. CASE reader \in {"join", "tearjoin"}
  <2>1. target \in Lane /\ worker[target].st \notin {"none", "exited"} /\ worker[target].ready
    BY <1>1, <1>5 DEF TrapInv, Joined, Ends, ReaderCanMove
  <2>2. Blocked(target)
    BY <1>1, <2>1, WorkerIdle
  <2>3. ~closed
    BY <1>1, <2>2, CudaIdle DEF Blocked
  <2> QED
    BY <1>5, <2>2, <2>3 DEF BlockedJoin
<1> QED
  BY <1>2, <1>3, <1>4, <1>5

\* Once SIGTERM has come or the client has gone, the threads of a child can all be
\* waiting only when it has exited, when the slot has lost its owner or when the
\* reader joins a worker behind a host callback, whatever the number of lanes.
THEOREM ChildTraps == Spec => []NoThirdTrap
BY TrapInit, TrapNext, TrapsKnown, PTL DEF Spec
=============================================================================
