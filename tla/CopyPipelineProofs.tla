------------------------- MODULE CopyPipelineProofs -------------------------
(***************************************************************************)
(* Proofs about the copy pipeline, for any number of lanes, ring slots,    *)
(* spills, units and any window: the stream stays in sync, the window is   *)
(* accounted for, and staging memory is neither freed nor reused under a   *)
(* DMA.                                                                    *)
(*                                                                         *)
(* Three layers: Control says who has the turn, the operation and the      *)
(* lifecycle lock and what is left to read; Account adds what the buffers  *)
(* are charged with; Memory says, while the application does not copy in a *)
(* context that it tears down, where a copying worker's context and its    *)
(* memory stand.                                                           *)
(*                                                                         *)
(* Control and Account, with Flowing, also show that copies and teardowns  *)
(* never all wait for each other or for the window.                        *)
(***************************************************************************)
EXTENDS CopyPipeline, FiniteSetTheorems, TLAPS

Buffer == [st : {"available", "filling", "in_flight", "quarantined"}, ctx : Ctx \cup {NoCtx},
           held : 0 .. MaxHeld, mem : {"none", "pinned", "gone"}, busy : BOOLEAN]

\* Half of the window is a number.
LEMMA MaxHeldNat == MaxHeld \in Nat /\ MaxHeld <= Window /\ Window \in Nat /\ Units \in Nat \ {0}
  BY CopyAssumption DEF MaxHeld

\* The smaller of two numbers.
LEMMA MinOfTwo ==
  ASSUME NEW x \in Nat, NEW y \in Nat
  PROVE  Min({x, y}) = IF x <= y THEN x ELSE y
<1> DEFINE m == IF x <= y THEN x ELSE y
<1>1. m \in {x, y} /\ \A z \in {x, y} : m <= z
  OBVIOUS
<1>2. Min({x, y}) \in {x, y} /\ \A z \in {x, y} : Min({x, y}) <= z
  BY <1>1 DEF Min
<1> QED
  BY <1>2

----------------------------------------------------------------------------
(* What buffers are charged with.                                          *)

Places(f, bs) == {p \in bs \X (1 .. MaxHeld) : p[2] <= f[p[1]].held}
Charge(f, bs) == Cardinality(Places(f, bs))

\* HeldBy counts places.
LEMMA ChargeCounts ==
  ASSUME NEW f \in [Buf -> Buffer], NEW bs \in SUBSET Buf
  PROVE  /\ Cardinality(UNION {{b} \X (1 .. f[b].held) : b \in bs}) = Charge(f, bs)
         /\ IsFiniteSet(Places(f, bs)) /\ Charge(f, bs) \in Nat
<1>1. UNION {{b} \X (1 .. f[b].held) : b \in bs} = Places(f, bs)
  <2>1. ASSUME NEW p \in UNION {{b} \X (1 .. f[b].held) : b \in bs}
        PROVE  p \in Places(f, bs)
    <3>1. PICK b \in bs : p \in {b} \X (1 .. f[b].held)
      BY <2>1
    <3>2. f[b] \in Buffer
      BY <3>1
    <3>3. f[b].held \in Nat /\ f[b].held <= MaxHeld
      BY <3>2, MaxHeldNat DEF Buffer
    <3>4. p \in bs \X (1 .. MaxHeld) /\ p[1] = b /\ p[2] <= f[b].held
      BY <3>1, <3>3, MaxHeldNat
    <3> QED
      BY <3>4 DEF Places
  <2>2. ASSUME NEW p \in Places(f, bs)
        PROVE  p \in UNION {{b} \X (1 .. f[b].held) : b \in bs}
    <3>1. p \in bs \X (1 .. MaxHeld) /\ p[2] <= f[p[1]].held
      BY <2>2 DEF Places
    <3>2. f[p[1]] \in Buffer
      BY <3>1
    <3>3. f[p[1]].held \in Nat
      BY <3>2, MaxHeldNat DEF Buffer
    <3>4. p \in {p[1]} \X (1 .. f[p[1]].held)
      BY <3>1, <3>3, MaxHeldNat
    <3> QED
      BY <3>1, <3>4
  <2> QED
    BY <2>1, <2>2
<1>2. IsFiniteSet(Places(f, bs))
  <2>1. IsFiniteSet(Slot \cup Spill)
    BY CopyAssumption, FS_Union
  <2>2. IsFiniteSet(bs)
    BY <2>1, FS_Subset DEF Buf
  <2>3. IsFiniteSet(1 .. MaxHeld)
    BY MaxHeldNat, FS_Interval
  <2>4. IsFiniteSet(bs \X (1 .. MaxHeld))
    BY <2>2, <2>3, FS_Product
  <2> QED
    BY <2>4, FS_Subset DEF Places
<1> QED
  BY <1>1, <1>2, FS_CardinalityType DEF Charge

\* Two sets of buffers are charged with what each of them is.
LEMMA ChargeSplit ==
  ASSUME NEW f \in [Buf -> Buffer], NEW S \in SUBSET Buf, NEW T \in SUBSET Buf, S \cap T = {}
  PROVE  Charge(f, S \cup T) = Charge(f, S) + Charge(f, T)
<1>1. PICK P : P = Places(f, S)
  OBVIOUS
<1>2. PICK Q : Q = Places(f, T)
  OBVIOUS
<1>3. Places(f, S \cup T) = P \cup Q /\ P \cap Q = {}
  BY <1>1, <1>2 DEF Places
<1>4. IsFiniteSet(P) /\ IsFiniteSet(Q) /\ Cardinality(P) \in Nat /\ Cardinality(Q) \in Nat
  BY <1>1, <1>2, ChargeCounts, FS_CardinalityType
<1>5. Cardinality(P \cup Q) = Cardinality(P) + Cardinality(Q) - Cardinality(P \cap Q)
  BY <1>4, FS_Union
<1>6. Cardinality(P \cap Q) = 0
  BY <1>3, FS_EmptySet
<1>7. Cardinality(P \cup Q) = Cardinality(P) + Cardinality(Q)
  BY <1>4, <1>5, <1>6
<1> QED
  BY <1>1, <1>2, <1>3, <1>7 DEF Charge

\* Only the charges count.
LEMMA ChargeSame ==
  ASSUME NEW f, NEW g, NEW S, \A b \in S : f[b].held = g[b].held
  PROVE  Charge(f, S) = Charge(g, S)
<1>1. Places(f, S) = Places(g, S)
  BY DEF Places
<1> QED
  BY <1>1 DEF Charge

\* Nothing charged.
LEMMA ChargeZero ==
  ASSUME NEW f, NEW S, \A b \in S : f[b].held = 0
  PROVE  Charge(f, S) = 0
<1>1. Places(f, S) = {}
  BY MaxHeldNat DEF Places
<1> QED
  BY <1>1, FS_EmptySet DEF Charge

\* One buffer.
LEMMA ChargeOne ==
  ASSUME NEW f \in [Buf -> Buffer], NEW b \in Buf
  PROVE  Charge(f, {b}) = f[b].held
<1>1. f[b] \in Buffer
  OBVIOUS
<1>2. f[b].held \in Nat /\ f[b].held <= MaxHeld
  BY <1>1, MaxHeldNat DEF Buffer
<1>3. Places(f, {b}) = {b} \X (1 .. f[b].held)
  BY <1>2, MaxHeldNat DEF Places
<1>4. IsFiniteSet(1 .. f[b].held) /\ Cardinality(1 .. f[b].held) = f[b].held
  BY <1>2, FS_Interval
<1>5. IsFiniteSet({b}) /\ Cardinality({b}) = 1
  BY FS_Singleton
<1>6. Cardinality({b} \X (1 .. f[b].held)) = 1 * f[b].held
  BY <1>4, <1>5, FS_Product
<1>7. 1 * f[b].held = f[b].held
  BY <1>2
<1> QED
  BY <1>3, <1>6, <1>7 DEF Charge

\* The buffers of S give up what they are charged with.
LEMMA ChargeReleased ==
  ASSUME NEW f \in [Buf -> Buffer], NEW g \in [Buf -> Buffer], NEW S \in SUBSET Buf,
         \A b \in S : g[b].held = 0, \A b \in Buf \ S : g[b].held = f[b].held
  PROVE  Charge(f, Buf) = Charge(g, Buf) + Charge(f, S)
<1>1. S \cup (Buf \ S) = Buf /\ S \cap (Buf \ S) = {} /\ Buf \ S \in SUBSET Buf
  OBVIOUS
<1>2. Charge(f, Buf) = Charge(f, S) + Charge(f, Buf \ S)
  BY <1>1, ChargeSplit
<1>3. Charge(g, Buf) = Charge(g, S) + Charge(g, Buf \ S)
  BY <1>1, ChargeSplit
<1>4. Charge(g, S) = 0
  BY ChargeZero
<1>5. Charge(g, Buf \ S) = Charge(f, Buf \ S)
  BY ChargeSame
<1>6. Charge(f, S) \in Nat /\ Charge(f, Buf \ S) \in Nat
  BY <1>1, ChargeCounts
<1> QED
  BY <1>2, <1>3, <1>4, <1>5, <1>6

\* One buffer's charge changes.
LEMMA ChargeUpdated ==
  ASSUME NEW f \in [Buf -> Buffer], NEW g \in [Buf -> Buffer], NEW b \in Buf,
         \A x \in Buf \ {b} : g[x].held = f[x].held
  PROVE  Charge(g, Buf) + f[b].held = Charge(f, Buf) + g[b].held
<1>1. {b} \cup (Buf \ {b}) = Buf /\ {b} \cap (Buf \ {b}) = {} /\ {b} \in SUBSET Buf
      /\ Buf \ {b} \in SUBSET Buf
  OBVIOUS
<1>2. Charge(f, Buf) = f[b].held + Charge(f, Buf \ {b})
  <2>1. Charge(f, {b} \cup (Buf \ {b})) = Charge(f, {b}) + Charge(f, Buf \ {b})
    BY <1>1, ChargeSplit
  <2>2. Charge(f, {b}) = f[b].held
    BY ChargeOne
  <2> QED
    BY <1>1, <2>1, <2>2
<1>3. Charge(g, Buf) = g[b].held + Charge(g, Buf \ {b})
  <2>1. Charge(g, {b} \cup (Buf \ {b})) = Charge(g, {b}) + Charge(g, Buf \ {b})
    BY <1>1, ChargeSplit
  <2>2. Charge(g, {b}) = g[b].held
    BY ChargeOne
  <2> QED
    BY <1>1, <2>1, <2>2
<1>4. Charge(g, Buf \ {b}) = Charge(f, Buf \ {b})
  BY ChargeSame
<1>5. Charge(f, Buf \ {b}) \in Nat
  BY ChargeCounts
<1>6. f[b] \in Buffer /\ g[b] \in Buffer
  OBVIOUS
<1>7. f[b].held \in Nat /\ g[b].held \in Nat
  BY <1>6, MaxHeldNat DEF Buffer
<1> QED
  BY <1>2, <1>3, <1>4, <1>5, <1>7

\* A buffer, or a set of them, is charged with no more than all are.
LEMMA ChargeBounds ==
  ASSUME NEW f \in [Buf -> Buffer], NEW S \in SUBSET Buf
  PROVE  Charge(f, S) <= Charge(f, Buf)
<1>1. S \cup (Buf \ S) = Buf /\ S \cap (Buf \ S) = {} /\ Buf \ S \in SUBSET Buf
  OBVIOUS
<1>2. Charge(f, Buf) = Charge(f, S) + Charge(f, Buf \ S)
  BY <1>1, ChargeSplit
<1>3. Charge(f, S) \in Nat /\ Charge(f, Buf \ S) \in Nat
  BY <1>1, ChargeCounts
<1> QED
  BY <1>2, <1>3

----------------------------------------------------------------------------
(* The first layer.                                                        *)

\* Program points of a copy that owns the stream, and of a call that ends a context.
Reading == {"acquire", "slot", "fill", "sync", "drain", "end"}
Operating == {"slot", "fill", "sync"}
Tearing == {"mark", "quiesce", "cuda", "finish"}
Label == Reading \cup Tearing \cup {"idle", "reply", "make"}

Request == [w : Worker, op : Copy, ctx : Ctx]

Types ==
  /\ queue = <<>> \/ \E r \in Request : queue = <<r>>
  /\ unread \in Nat /\ staged \in Nat /\ left \in Nat
  /\ pc \in [Worker -> Label]
  /\ job \in [Worker -> [op : Copy \cup Life \cup {"none"}, ctx : Ctx \cup {NoCtx}]]
  /\ turn \in Worker \cup {Nobody} /\ active \in Worker \cup {Nobody}
  /\ lifecycle \in Worker \cup {Nobody}
  /\ hold \in BOOLEAN /\ fills \in Buf \cup {Nobody}

\* A worker's job is what its program point says.
JobAt(l, j) ==
  /\ l = "idle" => j = NoJob
  /\ l \in Reading \cup {"reply"} => j.op \in Copy /\ j.ctx \in Ctx
  /\ l = "make" => \/ j.op = "create" /\ j.ctx = Created
                   \/ j.op = "retain" /\ j.ctx = Primary
  /\ l \in Tearing => /\ j.op \in Teardown
                      /\ j.ctx = IF j.op \in OfPrimary THEN Primary ELSE Created
Jobs == \A w \in Worker : JobAt(pc[w], job[w])

\* The turn, the operation and lifecycle_mutex are with those who believe it.
Locks ==
  \A w \in Worker :
    /\ turn = w <=> pc[w] \in Reading
    /\ pc[w] \in Operating => active = w
    /\ lifecycle = w <=> pc[w] \in {"quiesce", "cuda", "finish"}

\* What is left to read of the current payload.
Lefts ==
  /\ turn = Nobody => left = 0
  /\ \A w \in Worker : /\ pc[w] = "end" => left = 0
                       /\ pc[w] \in {"acquire", "slot", "fill", "sync"} => left > 0

\* A buffer is being filled, and the window held for it, by a worker at that point.
Fills ==
  /\ \A w \in Worker : pc[w] = "fill" => fills \in Buf
  /\ fills # Nobody => \E w \in Worker : pc[w] = "fill"
  /\ hold => fills # Nobody

Control == Types /\ Jobs /\ Locks /\ Lefts /\ Fills /\ StreamInSync

\* Nothing has happened yet.
LEMMA InitControl == Init => Control
<1> SUFFICES ASSUME Init PROVE Control
  OBVIOUS
<1>1. Types
  BY DEF Init, Types, NoJob, Label
<1>2. Jobs /\ Locks
  BY CopyAssumption DEF Init, Jobs, JobAt, Locks, Worker, Nobody, Reading, Operating, Tearing
<1>3. Lefts /\ Fills /\ StreamInSync
  BY DEF Init, Lefts, Fills, StreamInSync
<1> QED
  BY <1>1, <1>2, <1>3 DEF Control

\* A step of a worker.
LEMMA StepControl ==
  ASSUME Control, NEW w \in Worker, Step(w)
  PROVE  Control'
<1>0. Types /\ Jobs /\ Locks /\ Lefts /\ Fills /\ StreamInSync
  BY DEF Control
<1>a. Nobody \notin Worker /\ Nobody \notin Buf /\ Units \in Nat \ {0}
  BY CopyAssumption DEF Worker, Buf, Nobody
<1>1. CASE StartCopy(w)
  <2>1. Types'
    BY <1>0, <1>a, <1>1 DEF StartCopy, Goto, staging, Types, Locks, Lefts, Jobs, JobAt, Request, NoJob, Reading, Operating, Tearing, Label
  <2>2. Jobs'
    BY <1>0, <1>a, <1>1 DEF StartCopy, Goto, staging, Types, Jobs, JobAt, Request, NoJob, Copy, Life, Teardown, OfPrimary, Reading, Operating, Tearing, Label
  <2>3. Locks'
    BY <1>0, <1>a, <1>1 DEF StartCopy, Goto, staging, Types, Locks, Reading, Operating, Tearing, Label
  <2>4. Lefts'
    BY <1>0, <1>a, <1>1 DEF StartCopy, Goto, staging, Types, Locks, Lefts, Reading, Operating, Tearing, Label
  <2>5. Fills'
    BY <1>0, <1>a, <1>1 DEF StartCopy, Goto, staging, Types, Locks, Fills, Reading, Operating, Tearing, Label
  <2>6. StreamInSync'
    BY <1>0, <1>a, <1>1 DEF StartCopy, Goto, staging, Types, Locks, Lefts, StreamInSync, Reading, Operating, Tearing, Label
  <2> QED
    BY <2>1, <2>2, <2>3, <2>4, <2>5, <2>6 DEF Control
<1>2. CASE Acquire(w)
  <2>1. Types'
    BY <1>0, <1>a, <1>2 DEF Acquire, Goto, stream, Refused, Types, Locks, Lefts, Jobs, JobAt, Request, NoJob, Reading, Operating, Tearing, Label
  <2>2. Jobs'
    BY <1>0, <1>a, <1>2 DEF Acquire, Goto, stream, Refused, Types, Jobs, JobAt, Request, NoJob, Copy, Life, Teardown, OfPrimary, Reading, Operating, Tearing, Label
  <2>3. Locks'
    BY <1>0, <1>a, <1>2 DEF Acquire, Goto, stream, Refused, Types, Locks, Reading, Operating, Tearing, Label
  <2>4. Lefts'
    BY <1>0, <1>a, <1>2 DEF Acquire, Goto, stream, Refused, Types, Locks, Lefts, Reading, Operating, Tearing, Label
  <2>5. Fills'
    BY <1>0, <1>a, <1>2 DEF Acquire, Goto, stream, Refused, Types, Locks, Fills, Reading, Operating, Tearing, Label
  <2>6. StreamInSync'
    BY <1>0, <1>a, <1>2 DEF Acquire, Goto, stream, Refused, Types, Locks, Lefts, StreamInSync, Reading, Operating, Tearing, Label
  <2> QED
    BY <2>1, <2>2, <2>3, <2>4, <2>5, <2>6 DEF Control
<1>3. CASE TakeSlot(w)
  <2>1. Types'
    BY <1>0, <1>a, <1>3 DEF TakeSlot, Goto, Hold, Available, Buf, Types, Locks, Lefts, Jobs, JobAt, Request, NoJob, Reading, Operating, Tearing, Label
  <2>2. Jobs'
    BY <1>0, <1>a, <1>3 DEF TakeSlot, Goto, Hold, Types, Jobs, JobAt, Request, NoJob, Copy, Life, Teardown, OfPrimary, Reading, Operating, Tearing, Label
  <2>3. Locks'
    BY <1>0, <1>a, <1>3 DEF TakeSlot, Goto, Hold, Types, Locks, Reading, Operating, Tearing, Label
  <2>4. Lefts'
    BY <1>0, <1>a, <1>3 DEF TakeSlot, Goto, Hold, Types, Locks, Lefts, Reading, Operating, Tearing, Label
  <2>5. Fills'
    BY <1>0, <1>a, <1>3 DEF TakeSlot, Goto, Hold, Available, Buf, Types, Locks, Fills, Reading, Operating, Tearing, Label
  <2>6. StreamInSync'
    BY <1>0, <1>a, <1>3 DEF TakeSlot, Goto, Hold, Types, Locks, Lefts, StreamInSync, Reading, Operating, Tearing, Label
  <2> QED
    BY <2>1, <2>2, <2>3, <2>4, <2>5, <2>6 DEF Control
<1>4. CASE TakeSpill(w)
  <2>1. Types'
    BY <1>0, <1>a, <1>4 DEF TakeSpill, Goto, Hold, Available, Buf, Types, Locks, Lefts, Jobs, JobAt, Request, NoJob, Reading, Operating, Tearing, Label
  <2>2. Jobs'
    BY <1>0, <1>a, <1>4 DEF TakeSpill, Goto, Hold, Types, Jobs, JobAt, Request, NoJob, Copy, Life, Teardown, OfPrimary, Reading, Operating, Tearing, Label
  <2>3. Locks'
    BY <1>0, <1>a, <1>4 DEF TakeSpill, Goto, Hold, Types, Locks, Reading, Operating, Tearing, Label
  <2>4. Lefts'
    BY <1>0, <1>a, <1>4 DEF TakeSpill, Goto, Hold, Types, Locks, Lefts, Reading, Operating, Tearing, Label
  <2>5. Fills'
    BY <1>0, <1>a, <1>4 DEF TakeSpill, Goto, Hold, Available, Buf, Types, Locks, Fills, Reading, Operating, Tearing, Label
  <2>6. StreamInSync'
    BY <1>0, <1>a, <1>4 DEF TakeSpill, Goto, Hold, Types, Locks, Lefts, StreamInSync, Reading, Operating, Tearing, Label
  <2> QED
    BY <2>1, <2>2, <2>3, <2>4, <2>5, <2>6 DEF Control
<1>5. CASE Fill(w)
  <2>1. Types'
    BY <1>0, <1>a, <1>5 DEF Fill, Goto, Types, Locks, Lefts, Jobs, JobAt, Request, NoJob, Reading, Operating, Tearing, Label
  <2>2. Jobs'
    BY <1>0, <1>a, <1>5 DEF Fill, Goto, Types, Jobs, JobAt, Request, NoJob, Copy, Life, Teardown, OfPrimary, Reading, Operating, Tearing, Label
  <2>3. Locks'
    BY <1>0, <1>a, <1>5 DEF Fill, Goto, Types, Locks, Reading, Operating, Tearing, Label
  <2>4. Lefts'
    BY <1>0, <1>a, <1>5 DEF Fill, Goto, Types, Locks, Lefts, Reading, Operating, Tearing, Label
  <2>5. Fills'
    <3>1. PICK goesOn \in BOOLEAN :
            /\ hold' = goesOn /\ fills' = (IF goesOn THEN fills ELSE Nobody)
            /\ pc'[w] = "fill" <=> goesOn
            /\ pc' = [pc EXCEPT ![w] = pc'[w]]
      <4>1. PICK copied \in BOOLEAN, recorded \in BOOLEAN :
              LET goesOn == fills \in Spill /\ copied /\ ~(left = 1) IN
                /\ hold' = goesOn /\ fills' = IF goesOn THEN fills ELSE Nobody
                /\ Goto(w, CASE goesOn -> "fill"
                             [] ~goesOn /\ copied /\ (recorded \/ fills \in Spill) ->
                                  IF left = 1 THEN "end" ELSE "slot"
                             [] OTHER -> "drain")
        BY <1>5 DEF Fill
      <4> QED
        BY <1>0, <4>1 DEF Goto, Types
    <3>2. pc[w] = "fill" /\ \A v \in Worker \ {w} : pc[v] # "fill" /\ pc'[v] = pc[v]
      BY <1>0, <1>5, <3>1 DEF Fill, Types, Locks, Reading
    <3> QED
      BY <1>0, <1>a, <3>1, <3>2 DEF Fills
  <2>6. StreamInSync'
    <3>1. /\ staged > 0 /\ staged' = staged - 1 /\ left > 0 /\ left' = left - 1
          /\ UNCHANGED <<unread, queue>>
      BY <1>0, <1>5 DEF Fill, Lefts
    <3>2. staged \in Nat /\ unread \in Nat /\ left \in Nat
      BY <1>0 DEF Types
    <3> QED
      BY <1>0, <1>a, <3>1, <3>2 DEF StreamInSync
  <2> QED
    BY <2>1, <2>2, <2>3, <2>4, <2>5, <2>6 DEF Control
<1>6. CASE Drain(w)
  <2>1. Types'
    BY <1>0, <1>a, <1>6 DEF Drain, Goto, staging, Types, Locks, Lefts, Jobs, JobAt, Request, NoJob, Reading, Operating, Tearing, Label
  <2>2. Jobs'
    BY <1>0, <1>a, <1>6 DEF Drain, Goto, staging, Types, Jobs, JobAt, Request, NoJob, Copy, Life, Teardown, OfPrimary, Reading, Operating, Tearing, Label
  <2>3. Locks'
    BY <1>0, <1>a, <1>6 DEF Drain, Goto, staging, Types, Locks, Reading, Operating, Tearing, Label
  <2>4. Lefts'
    BY <1>0, <1>a, <1>6 DEF Drain, Goto, staging, Types, Locks, Lefts, Reading, Operating, Tearing, Label
  <2>5. Fills'
    BY <1>0, <1>a, <1>6 DEF Drain, Goto, staging, Types, Locks, Fills, Reading, Operating, Tearing, Label
  <2>6. StreamInSync'
    <3>1. CASE left = 0
      BY <1>0, <1>6, <3>1 DEF Drain, StreamInSync
    <3>2. CASE left # 0
      <4>1. staged > 0 /\ staged' = staged - 1 /\ left' = left - 1 /\ UNCHANGED <<unread, queue>>
        BY <1>6, <3>2 DEF Drain
      <4>2. staged \in Nat /\ unread \in Nat /\ left \in Nat
        BY <1>0 DEF Types
      <4> QED
        BY <1>0, <1>a, <4>1, <4>2 DEF StreamInSync
    <3> QED
      BY <3>1, <3>2
  <2> QED
    BY <2>1, <2>2, <2>3, <2>4, <2>5, <2>6 DEF Control
<1>7. CASE CopySync(w)
  <2>1. Types'
    BY <1>0, <1>a, <1>7 DEF CopySync, Goto, staging, Types, Locks, Lefts, Jobs, JobAt, Request, NoJob, Reading, Operating, Tearing, Label
  <2>2. Jobs'
    BY <1>0, <1>a, <1>7 DEF CopySync, Goto, staging, Types, Jobs, JobAt, Request, NoJob, Copy, Life, Teardown, OfPrimary, Reading, Operating, Tearing, Label
  <2>3. Locks'
    BY <1>0, <1>a, <1>7 DEF CopySync, Goto, staging, Types, Locks, Reading, Operating, Tearing, Label
  <2>4. Lefts'
    BY <1>0, <1>a, <1>7 DEF CopySync, Goto, staging, Types, Locks, Lefts, Reading, Operating, Tearing, Label
  <2>5. Fills'
    BY <1>0, <1>a, <1>7 DEF CopySync, Goto, staging, Types, Locks, Fills, Reading, Operating, Tearing, Label
  <2>6. StreamInSync'
    BY <1>0, <1>a, <1>7 DEF CopySync, Goto, staging, Types, Locks, Lefts, StreamInSync, Reading, Operating, Tearing, Label
  <2> QED
    BY <2>1, <2>2, <2>3, <2>4, <2>5, <2>6 DEF Control
<1>8. CASE ReadEnd(w)
  <2>1. Types'
    BY <1>0, <1>a, <1>8 DEF ReadEnd, Goto, stream, Types, Locks, Lefts, Jobs, JobAt, Request, NoJob, Reading, Operating, Tearing, Label
  <2>2. Jobs'
    BY <1>0, <1>a, <1>8 DEF ReadEnd, Goto, stream, Types, Jobs, JobAt, Request, NoJob, Copy, Life, Teardown, OfPrimary, Reading, Operating, Tearing, Label
  <2>3. Locks'
    BY <1>0, <1>a, <1>8 DEF ReadEnd, Goto, stream, Types, Locks, Reading, Operating, Tearing, Label
  <2>4. Lefts'
    BY <1>0, <1>a, <1>8 DEF ReadEnd, Goto, stream, Types, Locks, Lefts, Reading, Operating, Tearing, Label
  <2>5. Fills'
    BY <1>0, <1>a, <1>8 DEF ReadEnd, Goto, stream, Types, Locks, Fills, Reading, Operating, Tearing, Label
  <2>6. StreamInSync'
    BY <1>0, <1>a, <1>8 DEF ReadEnd, Goto, stream, Types, Locks, Lefts, StreamInSync, Reading, Operating, Tearing, Label
  <2> QED
    BY <2>1, <2>2, <2>3, <2>4, <2>5, <2>6 DEF Control
<1>9. CASE Reply(w)
  <2>1. Types'
    BY <1>0, <1>a, <1>9 DEF Reply, Goto, stream, Types, Locks, Lefts, Jobs, JobAt, Request, NoJob, Reading, Operating, Tearing, Label
  <2>2. Jobs'
    BY <1>0, <1>a, <1>9 DEF Reply, Goto, stream, Types, Jobs, JobAt, Request, NoJob, Copy, Life, Teardown, OfPrimary, Reading, Operating, Tearing, Label
  <2>3. Locks'
    BY <1>0, <1>a, <1>9 DEF Reply, Goto, stream, Types, Locks, Reading, Operating, Tearing, Label
  <2>4. Lefts'
    BY <1>0, <1>a, <1>9 DEF Reply, Goto, stream, Types, Locks, Lefts, Reading, Operating, Tearing, Label
  <2>5. Fills'
    BY <1>0, <1>a, <1>9 DEF Reply, Goto, stream, Types, Locks, Fills, Reading, Operating, Tearing, Label
  <2>6. StreamInSync'
    BY <1>0, <1>a, <1>9 DEF Reply, Goto, stream, Types, Locks, Lefts, StreamInSync, Reading, Operating, Tearing, Label
  <2> QED
    BY <2>1, <2>2, <2>3, <2>4, <2>5, <2>6 DEF Control
<1>10. CASE Make(w)
  <2>1. Types'
    BY <1>0, <1>a, <1>10 DEF Make, Goto, stream, Types, Locks, Lefts, Jobs, JobAt, Request, NoJob, Reading, Operating, Tearing, Label
  <2>2. Jobs'
    BY <1>0, <1>a, <1>10 DEF Make, Goto, stream, Types, Jobs, JobAt, Request, NoJob, Copy, Life, Teardown, OfPrimary, Reading, Operating, Tearing, Label
  <2>3. Locks'
    BY <1>0, <1>a, <1>10 DEF Make, Goto, stream, Types, Locks, Reading, Operating, Tearing, Label
  <2>4. Lefts'
    BY <1>0, <1>a, <1>10 DEF Make, Goto, stream, Types, Locks, Lefts, Reading, Operating, Tearing, Label
  <2>5. Fills'
    BY <1>0, <1>a, <1>10 DEF Make, Goto, stream, Types, Locks, Fills, Reading, Operating, Tearing, Label
  <2>6. StreamInSync'
    BY <1>0, <1>a, <1>10 DEF Make, Goto, stream, Types, Locks, Lefts, StreamInSync, Reading, Operating, Tearing, Label
  <2> QED
    BY <2>1, <2>2, <2>3, <2>4, <2>5, <2>6 DEF Control
<1>11. CASE Mark(w)
  <2>1. Types'
    BY <1>0, <1>a, <1>11 DEF Mark, Goto, stream, Types, Locks, Lefts, Jobs, JobAt, Request, NoJob, Reading, Operating, Tearing, Label
  <2>2. Jobs'
    BY <1>0, <1>a, <1>11 DEF Mark, Goto, stream, Types, Jobs, JobAt, Request, NoJob, Copy, Life, Teardown, OfPrimary, Reading, Operating, Tearing, Label
  <2>3. Locks'
    BY <1>0, <1>a, <1>11 DEF Mark, Goto, stream, Types, Locks, Reading, Operating, Tearing, Label
  <2>4. Lefts'
    BY <1>0, <1>a, <1>11 DEF Mark, Goto, stream, Types, Locks, Lefts, Reading, Operating, Tearing, Label
  <2>5. Fills'
    BY <1>0, <1>a, <1>11 DEF Mark, Goto, stream, Types, Locks, Fills, Reading, Operating, Tearing, Label
  <2>6. StreamInSync'
    BY <1>0, <1>a, <1>11 DEF Mark, Goto, stream, Types, Locks, Lefts, StreamInSync, Reading, Operating, Tearing, Label
  <2> QED
    BY <2>1, <2>2, <2>3, <2>4, <2>5, <2>6 DEF Control
<1>12. CASE Quiesce(w)
  <2>1. Types'
    BY <1>0, <1>a, <1>12 DEF Quiesce, Goto, Types, Locks, Lefts, Jobs, JobAt, Request, NoJob, Reading, Operating, Tearing, Label
  <2>2. Jobs'
    BY <1>0, <1>a, <1>12 DEF Quiesce, Goto, Types, Jobs, JobAt, Request, NoJob, Copy, Life, Teardown, OfPrimary, Reading, Operating, Tearing, Label
  <2>3. Locks'
    BY <1>0, <1>a, <1>12 DEF Quiesce, Goto, Types, Locks, Reading, Operating, Tearing, Label
  <2>4. Lefts'
    BY <1>0, <1>a, <1>12 DEF Quiesce, Goto, Types, Locks, Lefts, Reading, Operating, Tearing, Label
  <2>5. Fills'
    BY <1>0, <1>a, <1>12 DEF Quiesce, Goto, Types, Locks, Fills, Reading, Operating, Tearing, Label
  <2>6. StreamInSync'
    BY <1>0, <1>a, <1>12 DEF Quiesce, Goto, Types, Locks, Lefts, StreamInSync, Reading, Operating, Tearing, Label
  <2> QED
    BY <2>1, <2>2, <2>3, <2>4, <2>5, <2>6 DEF Control
<1>13. CASE Cuda(w)
  <2>1. Types'
    BY <1>0, <1>a, <1>13 DEF Cuda, Goto, stream, Types, Locks, Lefts, Jobs, JobAt, Request, NoJob, Reading, Operating, Tearing, Label
  <2>2. Jobs'
    BY <1>0, <1>a, <1>13 DEF Cuda, Goto, stream, Types, Jobs, JobAt, Request, NoJob, Copy, Life, Teardown, OfPrimary, Reading, Operating, Tearing, Label
  <2>3. Locks'
    BY <1>0, <1>a, <1>13 DEF Cuda, Goto, stream, Types, Locks, Reading, Operating, Tearing, Label
  <2>4. Lefts'
    BY <1>0, <1>a, <1>13 DEF Cuda, Goto, stream, Types, Locks, Lefts, Reading, Operating, Tearing, Label
  <2>5. Fills'
    BY <1>0, <1>a, <1>13 DEF Cuda, Goto, stream, Types, Locks, Fills, Reading, Operating, Tearing, Label
  <2>6. StreamInSync'
    BY <1>0, <1>a, <1>13 DEF Cuda, Goto, stream, Types, Locks, Lefts, StreamInSync, Reading, Operating, Tearing, Label
  <2> QED
    BY <2>1, <2>2, <2>3, <2>4, <2>5, <2>6 DEF Control
<1>14. CASE Finish(w)
  <2>1. Types'
    BY <1>0, <1>a, <1>14 DEF Finish, Goto, Types, Locks, Lefts, Jobs, JobAt, Request, NoJob, Reading, Operating, Tearing, Label
  <2>2. Jobs'
    BY <1>0, <1>a, <1>14 DEF Finish, Goto, Types, Jobs, JobAt, Request, NoJob, Copy, Life, Teardown, OfPrimary, Reading, Operating, Tearing, Label
  <2>3. Locks'
    BY <1>0, <1>a, <1>14 DEF Finish, Goto, Types, Locks, Reading, Operating, Tearing, Label
  <2>4. Lefts'
    BY <1>0, <1>a, <1>14 DEF Finish, Goto, Types, Locks, Lefts, Reading, Operating, Tearing, Label
  <2>5. Fills'
    BY <1>0, <1>a, <1>14 DEF Finish, Goto, Types, Locks, Fills, Reading, Operating, Tearing, Label
  <2>6. StreamInSync'
    BY <1>0, <1>a, <1>14 DEF Finish, Goto, Types, Locks, Lefts, StreamInSync, Reading, Operating, Tearing, Label
  <2> QED
    BY <2>1, <2>2, <2>3, <2>4, <2>5, <2>6 DEF Control
<1> QED
  BY <1>1, <1>2, <1>3, <1>4, <1>5, <1>6, <1>7, <1>8, <1>9, <1>10, <1>11, <1>12, <1>13, <1>14 DEF Step

\* A step of the client or of the transport, or a new lifecycle call.
LEMMA OtherControl ==
  ASSUME Control, credit \in Nat,
         \/ \E w \in Copier, op \in Copy \cap Calls, c \in Ctx : Issue(w, op, c)
         \/ \E w \in Manager, op \in Life \cap Calls : StartLife(w, op)
         \/ Receive \/ (\E b \in Buf : GpuDone(b)) \/ UNCHANGED vars
  PROVE  Control'
<1>0. Types /\ Jobs /\ Locks /\ Lefts /\ Fills /\ StreamInSync
  BY DEF Control
<1>a. Nobody \notin Worker /\ Nobody \notin Buf /\ Units \in Nat \ {0}
  BY CopyAssumption DEF Worker, Buf, Nobody
<1>1. ASSUME NEW w \in Copier, NEW op \in Copy, NEW c \in Ctx, Issue(w, op, c)
      PROVE  Control'
  <2>1. /\ queue = <<>> /\ queue' = <<[w |-> w, op |-> op, ctx |-> c]>>
        /\ unread' = unread + 1 + Units
        /\ UNCHANGED <<staged, hold, turn, pc, job, left, fills, lifecycle, active>>
    BY <1>1 DEF Issue, staging
  <2>2. [w |-> w, op |-> op, ctx |-> c] \in Request
    BY DEF Request, Worker
  <2>3. Types'
    BY <1>0, <1>a, <2>1, <2>2 DEF Types
  <2>4. Jobs' /\ Locks' /\ Lefts' /\ Fills'
    BY <1>0, <2>1 DEF Jobs, Locks, Lefts, Fills
  <2>5. StreamInSync'
    BY <1>0, <1>a, <2>1 DEF StreamInSync, Types
  <2> QED
    BY <2>3, <2>4, <2>5 DEF Control
<1>2. ASSUME NEW w \in Manager, NEW op \in Life, StartLife(w, op)
      PROVE  Control'
  <2>0. w \in Worker
    BY DEF Worker
  <2>1. Types'
    BY <1>0, <1>2, <2>0 DEF StartLife, Goto, stream, staging, Types, Label, Tearing, Ctx
  <2>2. Jobs'
    <3>1. op \in Teardown \/ op = "retain" \/ op = "create"
      BY DEF Life
    <3>2. "retain" \in OfPrimary \ Teardown /\ "create" \notin OfPrimary \cup Teardown
      BY DEF OfPrimary, Teardown
    <3>3. PICK l : l = (IF op \in Teardown THEN "mark" ELSE "make")
      OBVIOUS
    <3>4. PICK j : j = [op |-> op, ctx |-> IF op \in OfPrimary THEN Primary ELSE Created]
      OBVIOUS
    <3>5. pc'[w] = l /\ job'[w] = j /\ \A v \in Worker \ {w} : pc'[v] = pc[v] /\ job'[v] = job[v]
      BY <1>0, <1>2, <2>0, <3>3, <3>4 DEF StartLife, Goto, Types
    <3>6. CASE op \in Teardown
      <4>1. JobAt(l, j)
        BY <3>3, <3>4, <3>6 DEF JobAt, Reading, Tearing
      <4> QED
        BY <1>0, <3>5, <4>1 DEF Jobs
    <3>7. CASE op \notin Teardown
      <4>1. JobAt(l, j)
        <5>1. l = "make" /\ j.op = op
          BY <3>3, <3>4, <3>7
        <5>2. op = "retain" => j.ctx = Primary
          BY <3>2, <3>4
        <5>3. op = "create" => j.ctx = Created
          BY <3>2, <3>4
        <5>4. \/ j.op = "create" /\ j.ctx = Created
              \/ j.op = "retain" /\ j.ctx = Primary
          BY <3>1, <3>7, <5>1, <5>2, <5>3
        <5>5. l # "idle" /\ l \notin Reading \cup {"reply"} /\ l \notin Tearing
          BY <5>1 DEF Reading, Tearing
        <5> QED
          BY <5>4, <5>5 DEF JobAt
      <4> QED
        BY <1>0, <3>5, <4>1 DEF Jobs
    <3> QED
      BY <3>6, <3>7
  <2>3. Locks' /\ Lefts' /\ Fills'
    BY <1>0, <1>2, <2>0 DEF StartLife, Goto, stream, staging, Types, Locks, Lefts, Fills, Reading, Operating
  <2>4. StreamInSync'
    BY <1>0, <1>2 DEF StartLife, stream, StreamInSync
  <2> QED
    BY <2>1, <2>2, <2>3, <2>4 DEF Control
<1>3. CASE Receive
  <2>1. UNCHANGED <<queue, hold, turn, pc, job, left, fills, lifecycle, active>> /\ staged = 0
    BY <1>3 DEF Receive, staging
  <2>2. PICK n \in 1 .. Min({unread, credit}) : unread' = unread - n /\ staged' = n
    BY <1>3 DEF Receive
  <2>3. n \in Nat /\ unread' \in Nat
    <3>1. unread \in Nat
      BY <1>0 DEF Types
    <3> QED
      <4>1. Min({unread, credit}) \in Nat /\ Min({unread, credit}) <= unread
        BY <3>1, MinOfTwo
      <4> QED
        BY <2>2, <3>1, <4>1
  <2>4. Types'
    BY <1>0, <2>1, <2>2, <2>3 DEF Types
  <2>5. Jobs' /\ Locks' /\ Lefts' /\ Fills'
    BY <1>0, <2>1 DEF Jobs, Locks, Lefts, Fills
  <2>6. StreamInSync'
    <3>1. unread \in Nat /\ left \in Nat
      BY <1>0 DEF Types
    <3> QED
      BY <1>0, <1>a, <2>1, <2>2, <2>3, <3>1 DEF StreamInSync
  <2> QED
    BY <2>4, <2>5, <2>6 DEF Control
<1>4. CASE (\E b \in Buf : GpuDone(b)) \/ UNCHANGED vars
  <2>1. UNCHANGED <<stream, turn, pc, job, left, fills, lifecycle, active>>
    BY <1>4 DEF GpuDone, vars, staging
  <2>2. Types' /\ Jobs' /\ Locks' /\ Lefts' /\ Fills' /\ StreamInSync'
    BY <1>0, <2>1 DEF stream, Types, Jobs, Locks, Lefts, Fills, StreamInSync
  <2> QED
    BY <2>2 DEF Control
<1> QED
  BY <1>1, <1>2, <1>3, <1>4

----------------------------------------------------------------------------
(* The second layer.                                                       *)

\* A buffer without a context has no memory, and an idle one is not charged.
Account ==
  /\ credit \in Nat /\ consumed \in Nat /\ windowHeld \in Nat /\ holdUnits \in Nat
  /\ buf \in [Buf -> Buffer]
  /\ \A b \in Buf : /\ buf[b].ctx = NoCtx <=> buf[b].mem = "none"
                    /\ buf[b].st = "available" => buf[b].held = 0
  /\ ~hold => holdUnits = 0
  /\ WindowConserved

\* What a change of the buffers that gives nothing new to CUDA may make of one.
TameAt(x, y) ==
  /\ \/ y.ctx = x.ctx /\ y.mem = x.mem
     \/ y.ctx = NoCtx /\ y.mem = "none"
  /\ y.st = "available" => y.held = 0
  /\ (x.busy => x.mem = "pinned" /\ x.st # "available")
       => (y.busy => y.mem = "pinned" /\ y.st # "available")
Tame(f) == \A b \in Buf : TameAt(buf[b], f[b])

\* The initial buffers and window.
LEMMA InitAccount == Init => Account
<1> SUFFICES ASSUME Init PROVE Account
  OBVIOUS
<1>1. Empty \in Buffer
  BY MaxHeldNat DEF Empty, Buffer
<1>2. buf \in [Buf -> Buffer] /\ \A b \in Buf : buf[b] = Empty
  BY <1>1 DEF Init
<1>3. HeldBy(Buf) = 0
  <2>1. \A b \in Buf : buf[b].held = 0
    BY <1>2 DEF Empty
  <2>2. Charge(buf, Buf) = 0
    BY <2>1, ChargeZero
  <2> QED
    BY <1>2, <2>2, ChargeCounts DEF HeldBy
<1>4. WindowConserved
  BY <1>3, MaxHeldNat DEF Init, WindowConserved
<1> QED
  BY <1>2, <1>4, MaxHeldNat DEF Init, Account, Empty

\* rpc_http2_window_release of what is held.
LEMMA ReleaseKeeps ==
  ASSUME credit \in Nat, consumed \in Nat, windowHeld \in Nat, windowHeld <= MaxHeld,
         credit + consumed + windowHeld = Window,
         NEW n \in Nat, n <= windowHeld, WindowRelease(n)
  PROVE  /\ credit' \in Nat /\ consumed' \in Nat /\ windowHeld' \in Nat
         /\ windowHeld' = windowHeld - n
         /\ credit' + consumed' + windowHeld' = Window
<1>1. Min({n, windowHeld}) = n
  BY MinOfTwo
<1>2. windowHeld' = windowHeld - n
  BY <1>1 DEF WindowRelease
<1>3. Consume(0, n)
  BY DEF WindowRelease
<1>4. /\ credit' \in Nat /\ consumed' \in Nat
      /\ credit' + consumed' = credit + consumed + n
  BY <1>3, MaxHeldNat DEF Consume
<1>5. windowHeld' \in Nat
  BY <1>2
<1>6. credit' + consumed' + windowHeld' = (credit + consumed + n) + (windowHeld - n)
  BY <1>2, <1>4
<1>7. (credit + consumed + n) + (windowHeld - n) = Window
  OBVIOUS
<1> QED
  BY <1>2, <1>4, <1>5, <1>6, <1>7

\* The buffers of S give back their window, and no charge changes otherwise.
LEMMA BuffersRelease ==
  ASSUME Account, NEW g \in [Buf -> Buffer], NEW S \in SUBSET Buf,
         \A b \in S : g[b].held = 0, \A b \in Buf \ S : g[b].held = buf[b].held,
         buf' = g, WindowRelease(HeldBy(S)), UNCHANGED holdUnits
  PROVE  /\ credit' \in Nat /\ consumed' \in Nat /\ windowHeld' \in Nat
         /\ WindowConserved'
<1>1. buf \in [Buf -> Buffer] /\ holdUnits \in Nat /\ windowHeld \in Nat
  BY DEF Account
<1>2. HeldBy(S) = Charge(buf, S) /\ HeldBy(Buf) = Charge(buf, Buf)
      /\ Charge(buf, S) \in Nat /\ Charge(buf, Buf) \in Nat
  BY <1>1, ChargeCounts DEF HeldBy
<1>3. HeldBy(Buf)' = Charge(g, Buf) /\ Charge(g, Buf) \in Nat
  BY ChargeCounts DEF HeldBy
<1>4. Charge(buf, Buf) = Charge(g, Buf) + Charge(buf, S)
  BY <1>1, ChargeReleased
<1>5. windowHeld = Charge(buf, Buf) + holdUnits /\ windowHeld <= MaxHeld
      /\ credit + consumed + windowHeld = Window /\ credit \in Nat /\ consumed \in Nat
  BY <1>2 DEF Account, WindowConserved
<1>6. Charge(buf, S) <= windowHeld
  BY <1>1, <1>2, <1>3, <1>4, <1>5
<1>7. /\ credit' \in Nat /\ consumed' \in Nat /\ windowHeld' \in Nat
      /\ windowHeld' = windowHeld - Charge(buf, S) /\ credit' + consumed' + windowHeld' = Window
  BY <1>1, <1>2, <1>5, <1>6, ReleaseKeeps
<1>8. windowHeld' = Charge(g, Buf) + holdUnits /\ windowHeld' <= MaxHeld
  BY <1>1, <1>2, <1>3, <1>4, <1>5, <1>7, MaxHeldNat
<1> QED
  BY <1>3, <1>7, <1>8 DEF WindowConserved

\* What becomes of a buffer: quarantined, idle, or freed.
Idled(b) == [buf[b] EXCEPT !.st = "available", !.held = 0]
LEMMA BufferForms ==
  ASSUME Account, NEW b \in Buf
  PROVE  /\ buf[b] \in Buffer
         /\ Quarantined(b) \in Buffer /\ Quarantined(b).st = "quarantined"
         /\ Quarantined(b).held = 0 /\ Quarantined(b).ctx = buf[b].ctx
         /\ Quarantined(b).mem = buf[b].mem /\ Quarantined(b).busy = buf[b].busy
         /\ Idled(b) \in Buffer /\ Idled(b).st = "available" /\ Idled(b).held = 0
         /\ Idled(b).ctx = buf[b].ctx /\ Idled(b).mem = buf[b].mem /\ Idled(b).busy = buf[b].busy
         /\ Freed(b) \in Buffer /\ Freed(b).st = "available" /\ Freed(b).held = 0
         /\ Freed(b).ctx = NoCtx /\ Freed(b).mem = "none" /\ Freed(b).busy = buf[b].busy
         /\ Empty \in Buffer /\ Empty.st = "available" /\ Empty.held = 0
         /\ Empty.ctx = NoCtx /\ Empty.mem = "none" /\ Empty.busy = FALSE
<1>1. buf[b] \in Buffer /\ 0 \in 0 .. MaxHeld
  BY MaxHeldNat DEF Account
<1>2. /\ Quarantined(b) \in Buffer /\ Quarantined(b).st = "quarantined"
      /\ Quarantined(b).held = 0 /\ Quarantined(b).ctx = buf[b].ctx
      /\ Quarantined(b).mem = buf[b].mem /\ Quarantined(b).busy = buf[b].busy
  BY <1>1 DEF Buffer, Quarantined
<1>3. /\ Idled(b) \in Buffer /\ Idled(b).st = "available" /\ Idled(b).held = 0
      /\ Idled(b).ctx = buf[b].ctx /\ Idled(b).mem = buf[b].mem /\ Idled(b).busy = buf[b].busy
  BY <1>1 DEF Buffer, Idled
<1>4. /\ Freed(b) \in Buffer /\ Freed(b).st = "available" /\ Freed(b).held = 0
      /\ Freed(b).ctx = NoCtx /\ Freed(b).mem = "none" /\ Freed(b).busy = buf[b].busy
  BY <1>1 DEF Buffer, Freed, Empty
<1>5. /\ Empty \in Buffer /\ Empty.st = "available" /\ Empty.held = 0
      /\ Empty.ctx = NoCtx /\ Empty.mem = "none" /\ Empty.busy = FALSE
  BY <1>1 DEF Buffer, Empty
<1> QED
  BY <1>1, <1>2, <1>3, <1>4, <1>5

\* Each of these is a tame change, freeing only if no DMA is left.
LEMMA TameForms ==
  ASSUME Account, NEW b \in Buf
  PROVE  /\ TameAt(buf[b], buf[b]) /\ TameAt(buf[b], Quarantined(b)) /\ TameAt(buf[b], Empty)
         /\ ~buf[b].busy \/ buf[b].st = "available" => TameAt(buf[b], Freed(b))
         /\ ~buf[b].busy => TameAt(buf[b], Idled(b))
<1>1. buf[b].st = "available" => buf[b].held = 0
  BY DEF Account
<1>2. buf[b].busy \in BOOLEAN
  BY BufferForms DEF Buffer
<1>3. TameAt(buf[b], buf[b])
  BY <1>1, <1>2 DEF TameAt
<1>4. TameAt(buf[b], Quarantined(b))
  BY <1>2, BufferForms DEF TameAt
<1>5. TameAt(buf[b], Empty)
  BY BufferForms DEF TameAt
<1>6. ~buf[b].busy \/ buf[b].st = "available" => TameAt(buf[b], Freed(b))
  BY <1>2, BufferForms DEF TameAt
<1>7. ~buf[b].busy => TameAt(buf[b], Idled(b))
  BY <1>2, BufferForms DEF TameAt
<1> QED
  BY <1>3, <1>4, <1>5, <1>6, <1>7

\* lupine_async_htod_reclaim.
LEMMA ReclaimedTame ==
  ASSUME Account, NEW c, NEW sick
  PROVE  /\ Reclaimed(c, sick) \in [Buf -> Buffer] /\ Tame(Reclaimed(c, sick))
         /\ Failing(c, sick) \cup Complete(c, sick) \in SUBSET Buf
         /\ \A b \in Failing(c, sick) \cup Complete(c, sick) : Reclaimed(c, sick)[b].held = 0
         /\ \A b \in Buf \ (Failing(c, sick) \cup Complete(c, sick)) : Reclaimed(c, sick)[b] = buf[b]
         /\ \A b \in Complete(c, sick) : ~buf[b].busy
<1>1. Failing(c, sick) \cup Complete(c, sick) \in SUBSET Buf
      /\ \A b \in Complete(c, sick) : ~buf[b].busy
  BY DEF Failing, Complete, InFlight, OfCtx
<1>2. ASSUME NEW b \in Buf
      PROVE  /\ Reclaimed(c, sick)[b] \in Buffer
             /\ b \in Failing(c, sick) => Reclaimed(c, sick)[b] = Quarantined(b)
             /\ b \notin Failing(c, sick) /\ b \in Complete(c, sick)
                  => Reclaimed(c, sick)[b] \in {Freed(b), Idled(b)}
             /\ b \notin Failing(c, sick) \cup Complete(c, sick) => Reclaimed(c, sick)[b] = buf[b]
  BY BufferForms DEF Reclaimed, Idled
<1>3. Reclaimed(c, sick) \in [Buf -> Buffer]
  BY <1>2 DEF Reclaimed
<1>4. ASSUME NEW b \in Failing(c, sick) \cup Complete(c, sick)
      PROVE  Reclaimed(c, sick)[b].held = 0
  <2>1. b \in Buf
    BY <1>1
  <2>2. Reclaimed(c, sick)[b] \in {Quarantined(b), Freed(b), Idled(b)}
    BY <1>2, <2>1
  <2> QED
    BY <2>1, <2>2, BufferForms
<1>5. ASSUME NEW b \in Buf
      PROVE  TameAt(buf[b], Reclaimed(c, sick)[b])
  <2>1. CASE b \in Failing(c, sick)
    BY <1>2, <2>1, TameForms
  <2>2. CASE b \notin Failing(c, sick) /\ b \in Complete(c, sick)
    BY <1>1, <1>2, <2>2, TameForms
  <2>3. CASE b \notin Failing(c, sick) \cup Complete(c, sick)
    BY <1>2, <2>3, TameForms
  <2> QED
    BY <2>1, <2>2, <2>3
<1> QED
  BY <1>1, <1>2, <1>3, <1>4, <1>5 DEF Tame

\* lupine_async_htod_acquire_slot when it comes back without a slot.
LEMMA StrippedTame ==
  ASSUME Account, NEW c, NEW sick
  PROVE  /\ Stripped(c, sick) \in [Buf -> Buffer] /\ Tame(Stripped(c, sick))
         /\ \A b \in Failing(c, sick) \cup Complete(c, sick) : Stripped(c, sick)[b].held = 0
         /\ \A b \in Buf \ (Failing(c, sick) \cup Complete(c, sick)) :
              Stripped(c, sick)[b].held = buf[b].held
<1>1. ASSUME NEW b \in Buf
      PROVE  /\ b \in Available(c, sick) => /\ Stripped(c, sick)[b] = Freed(b)
                                            /\ Reclaimed(c, sick)[b].st = "available"
             /\ b \notin Available(c, sick) => Stripped(c, sick)[b] = Reclaimed(c, sick)[b]
             /\ Stripped(c, sick)[b] \in Buffer
  BY BufferForms, ReclaimedTame DEF Stripped, Available
<1>2. Stripped(c, sick) \in [Buf -> Buffer]
  BY <1>1 DEF Stripped
<1>3. ASSUME NEW b \in Buf
      PROVE  /\ TameAt(buf[b], Stripped(c, sick)[b])
             /\ b \in Failing(c, sick) \cup Complete(c, sick) => Stripped(c, sick)[b].held = 0
             /\ b \notin Failing(c, sick) \cup Complete(c, sick)
                  => Stripped(c, sick)[b].held = buf[b].held
  <2>1. CASE b \notin Available(c, sick)
    BY <1>1, <2>1, ReclaimedTame DEF Tame
  <2>2. CASE b \in Available(c, sick)
    <3>1. Stripped(c, sick)[b] = Freed(b) /\ Reclaimed(c, sick)[b].st = "available"
      BY <1>1, <2>2
    <3>2. Freed(b).held = 0
      BY BufferForms
    <3>3. b \notin Failing(c, sick)
      <4>1. ASSUME b \in Failing(c, sick) PROVE Reclaimed(c, sick)[b] = Quarantined(b)
        BY <4>1 DEF Reclaimed
      <4> QED
        BY <3>1, <4>1, BufferForms
    <3>4. CASE b \in Complete(c, sick)
      <4>1. ~buf[b].busy
        BY <3>4, ReclaimedTame
      <4> QED
        BY <3>1, <3>2, <3>4, <4>1, TameForms
    <3>5. CASE b \notin Complete(c, sick)
      <4>1. Reclaimed(c, sick)[b] = buf[b]
        BY <3>3, <3>5, ReclaimedTame
      <4>2. buf[b].st = "available" /\ buf[b].held = 0
        BY <3>1, <4>1 DEF Account
      <4> QED
        BY <3>1, <3>2, <3>3, <3>5, <4>2, TameForms
    <3> QED
      BY <3>4, <3>5
  <2> QED
    BY <2>1, <2>2
<1>4. Failing(c, sick) \cup Complete(c, sick) \in SUBSET Buf
  BY ReclaimedTame
<1> QED
  BY <1>2, <1>3, <1>4 DEF Tame

\* lupine_async_htod_retire_context.
LEMMA RetiredTame ==
  ASSUME Account, NEW c, NEW sick
  PROVE  LET S == Failing(c, sick) \cup Complete(c, sick)
                    \cup {b \in OfCtx(c) : buf[b].st = "available"} IN
         /\ Retired(c, sick) \in [Buf -> Buffer] /\ Tame(Retired(c, sick))
         /\ S \in SUBSET Buf
         /\ \A b \in S : Retired(c, sick)[b].held = 0
         /\ \A b \in Buf \ S : Retired(c, sick)[b].held = buf[b].held
<1>1. PICK S : S = Failing(c, sick) \cup Complete(c, sick)
                     \cup {b \in OfCtx(c) : buf[b].st = "available"}
  OBVIOUS
<1>2. S \in SUBSET Buf /\ \A b \in Complete(c, sick) : ~buf[b].busy
  BY <1>1 DEF Failing, Complete, InFlight, OfCtx
<1>3. ASSUME NEW b \in Buf
      PROVE  /\ b \in Failing(c, sick) => Retired(c, sick)[b] = Quarantined(b)
             /\ b \in S \ Failing(c, sick) => Retired(c, sick)[b] = Freed(b)
             /\ b \notin S => Retired(c, sick)[b] = buf[b]
  BY <1>1 DEF Retired
<1>4. ASSUME NEW b \in Buf
      PROVE  /\ TameAt(buf[b], Retired(c, sick)[b])
             /\ Retired(c, sick)[b] \in Buffer
             /\ b \in S => Retired(c, sick)[b].held = 0
  <2>1. CASE b \in Failing(c, sick)
    BY <1>3, <2>1, TameForms, BufferForms
  <2>2. CASE b \in S \ Failing(c, sick)
    <3>1. ~buf[b].busy \/ buf[b].st = "available"
      BY <1>1, <1>2, <2>2
    <3> QED
      BY <1>3, <2>2, <3>1, TameForms, BufferForms
  <2>3. CASE b \notin S
    BY <1>3, <2>3, TameForms, BufferForms
  <2> QED
    BY <1>1, <2>1, <2>2, <2>3
<1>5. Retired(c, sick) \in [Buf -> Buffer]
  BY <1>4 DEF Retired
<1>6. \A b \in Buf \ S : Retired(c, sick)[b].held = buf[b].held
  BY <1>3
<1> QED
  BY <1>1, <1>2, <1>4, <1>5, <1>6 DEF Tame

\* lupine_async_htod_forget_context.
LEMMA ForgottenTame ==
  ASSUME Account, NEW c
  PROVE  /\ Forgotten(c) \in [Buf -> Buffer] /\ Tame(Forgotten(c)) /\ OfCtx(c) \in SUBSET Buf
         /\ \A b \in OfCtx(c) : Forgotten(c)[b] = Empty /\ Forgotten(c)[b].held = 0
         /\ \A b \in Buf \ OfCtx(c) : Forgotten(c)[b] = buf[b]
<1>1. OfCtx(c) \in SUBSET Buf
  BY DEF OfCtx
<1>2. ASSUME NEW b \in Buf
      PROVE  Forgotten(c)[b] = IF b \in OfCtx(c) THEN Empty ELSE buf[b]
  BY DEF Forgotten
<1>3. ASSUME NEW b \in Buf
      PROVE  Forgotten(c)[b] \in Buffer /\ TameAt(buf[b], Forgotten(c)[b])
             /\ Empty.held = 0
  BY <1>2, BufferForms, TameForms
<1>4. Forgotten(c) \in [Buf -> Buffer]
  BY <1>3 DEF Forgotten
<1> QED
  BY <1>1, <1>2, <1>3, <1>4 DEF Tame

\* Every tame change keeps what Account says of a single buffer.
Sound(x) ==
  /\ (x.ctx = NoCtx) <=> (x.mem = "none")
  /\ x.st = "available" => x.held = 0
LEMMA TameKeeps ==
  ASSUME Account, NEW f, Tame(f), NEW b \in Buf
  PROVE  Sound(f[b])
<1>1. buf[b].ctx = NoCtx <=> buf[b].mem = "none"
  BY DEF Account
<1>2. TameAt(buf[b], f[b])
  BY DEF Tame
<1> QED
  BY <1>1, <1>2 DEF TameAt, Sound

\* Fresh memory of a context.
LEMMA FreshForm ==
  ASSUME Account, NEW b \in Buf, NEW c \in Ctx
  PROVE  /\ Fresh(c, b) \in Buffer /\ Fresh(c, b).st = "available" /\ Fresh(c, b).held = 0
         /\ Fresh(c, b).ctx = c /\ Fresh(c, b).mem = "pinned" /\ Fresh(c, b).busy = buf[b].busy
         /\ c # NoCtx
<1>1. Freed(b) \in Buffer /\ Freed(b).st = "available" /\ Freed(b).held = 0 /\ Freed(b).busy = buf[b].busy
  BY BufferForms
<1>2. Fresh(c, b) = [Freed(b) EXCEPT !.ctx = c, !.mem = "pinned"]
  BY DEF Fresh
<1> QED
  BY <1>1, <1>2 DEF Buffer, Ctx, Primary, Created, NoCtx

\* Steps that touch neither the window nor a buffer.
LEMMA AccountStutters ==
  ASSUME Account, UNCHANGED <<credit, consumed, windowHeld, hold, holdUnits, buf>>
  PROVE  Account'
  BY DEF Account, WindowConserved, HeldBy

\* Steps that touch no charge.
LEMMA AccountSame ==
  ASSUME Account, NEW g \in [Buf -> Buffer], buf' = g,
         \A b \in Buf : g[b].held = buf[b].held,
         \A b \in Buf : Sound(g[b]),
         UNCHANGED <<credit, consumed, windowHeld, hold, holdUnits>>
  PROVE  Account'
<1>1. buf \in [Buf -> Buffer]
  BY DEF Account
<1>2. HeldBy(Buf) = Charge(buf, Buf) /\ HeldBy(Buf)' = Charge(g, Buf)
  BY <1>1, ChargeCounts DEF HeldBy
<1>3. Charge(g, Buf) = Charge(buf, Buf)
  BY ChargeSame
<1>4. WindowConserved'
  BY <1>2, <1>3 DEF Account, WindowConserved
<1> QED
  BY <1>4 DEF Account, Sound

\* Steps that give back what the buffers of S are charged with.
LEMMA AccountRelease ==
  ASSUME Account, NEW g \in [Buf -> Buffer], NEW S \in SUBSET Buf,
         \A b \in S : g[b].held = 0, \A b \in Buf \ S : g[b].held = buf[b].held,
         \A b \in Buf : Sound(g[b]),
         buf' = g, WindowRelease(HeldBy(S)), UNCHANGED holdUnits, UNCHANGED hold \/ holdUnits' = 0
  PROVE  Account'
<1>1. credit' \in Nat /\ consumed' \in Nat /\ windowHeld' \in Nat /\ WindowConserved'
  BY BuffersRelease
<1> QED
  BY <1>1 DEF Account, Sound

\* Nothing is held while a worker looks for a slot.
LEMMA NotHeld ==
  ASSUME Control, Account, NEW w \in Worker, pc[w] = "slot"
  PROVE  ~hold /\ holdUnits = 0 /\ fills = Nobody
<1>1. turn = w /\ \A v \in Worker : pc[v] = "fill" => turn = v
  BY DEF Control, Locks, Reading
<1>2. \A v \in Worker : pc[v] # "fill"
  BY <1>1
<1>3. fills = Nobody /\ (hold => fills # Nobody)
  BY <1>2 DEF Control, Fills
<1> QED
  BY <1>3 DEF Account

\* lupine_async_htod_acquire_slot.
LEMMA TakeSlotAccount ==
  ASSUME Control, Account, NEW w \in Worker, TakeSlot(w)
  PROVE  Account'
<1>1. pc[w] = "slot"
  BY DEF TakeSlot
<1>2. PICK c : c = job[w].ctx
  OBVIOUS
<1>3. c \in Ctx
  BY <1>1, <1>2 DEF Control, Jobs, JobAt, Reading
<1>4. PICK sick \in BOOLEAN :
        /\ WindowRelease(ReclaimReleases(c, sick))
        /\ \E s \in Available(c, sick) :
             /\ Hold(s)
             /\ \/ buf' = Reclaimed(c, sick)
                \/ buf' = [Reclaimed(c, sick) EXCEPT ![s] = Fresh(c, s)]
  BY <1>2 DEF TakeSlot
<1>5. PICK s \in Available(c, sick) :
        /\ Hold(s)
        /\ \/ buf' = Reclaimed(c, sick)
           \/ buf' = [Reclaimed(c, sick) EXCEPT ![s] = Fresh(c, s)]
  BY <1>4
<1>6. holdUnits' = 0 /\ holdUnits = 0
  BY <1>1, <1>5, NotHeld DEF Hold
<1>7. PICK R : R = Reclaimed(c, sick)
  OBVIOUS
<1>8. PICK S : S = Failing(c, sick) \cup Complete(c, sick)
  OBVIOUS
<1>9. /\ R \in [Buf -> Buffer] /\ Tame(R) /\ S \in SUBSET Buf
      /\ \A b \in S : R[b].held = 0
      /\ \A b \in Buf \ S : R[b].held = buf[b].held
  BY <1>7, <1>8, ReclaimedTame
<1>10. WindowRelease(HeldBy(S))
  BY <1>4, <1>8 DEF ReclaimReleases
<1>11. CASE buf' = R
  BY <1>6, <1>9, <1>10, <1>11, TameKeeps, AccountRelease
<1>12. CASE buf' = [R EXCEPT ![s] = Fresh(c, s)]
  <2>1. s \in Buf /\ R[s].st = "available"
    BY <1>5, <1>7 DEF Available, Buf
  <2>2. R[s].held = 0
    BY <1>9, <2>1, TameKeeps DEF Sound
  <2>3. PICK g : g = [R EXCEPT ![s] = Fresh(c, s)]
    OBVIOUS
  <2>4. g \in [Buf -> Buffer] /\ g[s] = Fresh(c, s) /\ \A b \in Buf \ {s} : g[b] = R[b]
    BY <1>3, <1>9, <2>1, <2>3, FreshForm
  <2>5. g[s].held = R[s].held
    BY <1>3, <2>1, <2>2, <2>4, FreshForm
  <2>6. /\ \A b \in S : g[b].held = 0
        /\ \A b \in Buf \ S : g[b].held = buf[b].held
    BY <1>9, <2>4, <2>5
  <2>7. ASSUME NEW b \in Buf
        PROVE  Sound(g[b])
    BY <1>3, <1>9, <2>1, <2>4, TameKeeps, FreshForm DEF Sound
  <2> QED
    BY <1>6, <1>9, <1>10, <1>12, <2>3, <2>4, <2>6, <2>7, AccountRelease
<1> QED
  BY <1>5, <1>7, <1>11, <1>12

\* lupine_async_htod_enqueue_spill.
LEMMA TakeSpillAccount ==
  ASSUME Control, Account, NEW w \in Worker, TakeSpill(w)
  PROVE  Account'
<1>1. pc[w] = "slot"
  BY DEF TakeSpill
<1>2. PICK c : c = job[w].ctx
  OBVIOUS
<1>3. c \in Ctx
  BY <1>1, <1>2 DEF Control, Jobs, JobAt, Reading
<1>4. PICK sick \in BOOLEAN :
        /\ WindowRelease(ReclaimReleases(c, sick))
        /\ \/ \E x \in Spill :
                  /\ Stripped(c, sick)[x] = Empty /\ Hold(x)
                  /\ buf' = [Stripped(c, sick) EXCEPT ![x] = [Fresh(c, x) EXCEPT !.st = "filling"]]
           \/ buf' = Stripped(c, sick) /\ UNCHANGED <<fills, hold, holdUnits>>
  BY <1>2 DEF TakeSpill
<1>5. PICK R : R = Stripped(c, sick)
  OBVIOUS
<1>6. PICK S : S = Failing(c, sick) \cup Complete(c, sick)
  OBVIOUS
<1>7. /\ R \in [Buf -> Buffer] /\ Tame(R) /\ S \in SUBSET Buf
      /\ \A b \in S : R[b].held = 0
      /\ \A b \in Buf \ S : R[b].held = buf[b].held
  BY <1>5, <1>6, StrippedTame, ReclaimedTame
<1>8. WindowRelease(HeldBy(S))
  BY <1>4, <1>6 DEF ReclaimReleases
<1>9. CASE buf' = R /\ UNCHANGED <<fills, hold, holdUnits>>
  BY <1>7, <1>8, <1>9, TameKeeps, AccountRelease
<1>10. ASSUME NEW x \in Spill, R[x] = Empty, Hold(x),
              buf' = [R EXCEPT ![x] = [Fresh(c, x) EXCEPT !.st = "filling"]]
       PROVE  Account'
  <2>1. x \in Buf /\ holdUnits = 0 /\ holdUnits' = 0
    BY <1>1, <1>10, NotHeld DEF Hold, Buf
  <2>2. R[x].held = 0
    BY <1>10, <2>1, BufferForms
  <2>3. PICK y : y = [Fresh(c, x) EXCEPT !.st = "filling"]
    OBVIOUS
  <2>4. y \in Buffer /\ y.held = 0 /\ y.ctx = c /\ y.mem = "pinned" /\ y.st = "filling" /\ c # NoCtx
    BY <1>3, <2>1, <2>3, FreshForm DEF Buffer
  <2>5. PICK g : g = [R EXCEPT ![x] = y]
    OBVIOUS
  <2>6. g \in [Buf -> Buffer] /\ g[x] = y /\ \A b \in Buf \ {x} : g[b] = R[b]
    BY <1>7, <2>1, <2>4, <2>5
  <2>7. /\ \A b \in S : g[b].held = 0
        /\ \A b \in Buf \ S : g[b].held = buf[b].held
    BY <1>7, <2>2, <2>4, <2>6
  <2>8. ASSUME NEW b \in Buf
        PROVE  Sound(g[b])
    BY <1>7, <2>4, <2>6, TameKeeps DEF Sound
  <2>9. buf' = g
    BY <1>10, <2>3, <2>5
  <2> QED
    BY <1>7, <1>8, <2>1, <2>6, <2>7, <2>8, <2>9, AccountRelease
<1> QED
  BY <1>4, <1>5, <1>9, <1>10

\* A unit of payload is in a buffer and its hold becomes the buffer's charge.
FillsBuffer(b, h) ==
  \E busy \in BOOLEAN, kept \in BOOLEAN, goesOn \in BOOLEAN,
     st \in {"filling", "in_flight", "quarantined"} :
    /\ buf' = [buf EXCEPT ![b] = [buf[b] EXCEPT !.busy = busy, !.held = IF kept THEN h ELSE 0,
                                                !.st = st]]
    /\ WindowRelease(IF kept THEN 0 ELSE h)
    /\ holdUnits' = 0 /\ hold' = goesOn
LEMMA FillForm ==
  ASSUME Control, Account, NEW w \in Worker, Fill(w)
  PROVE  fills \in Buf /\ FillsBuffer(fills, buf[fills].held + holdUnits)
<1>a. pc[w] = "fill"
  BY DEF Fill
<1>b. PICK b : b = fills
  OBVIOUS
<1>c. b \in Buf
  BY <1>a, <1>b DEF Control, Fills
<1>d. PICK h : h = buf[b].held + holdUnits
  OBVIOUS
<1>1. buf[b] \in Buffer
  BY <1>c, BufferForms
<1>2. buf[b].busy \in BOOLEAN
  BY <1>1 DEF Buffer
<1>3. PICK copied \in BOOLEAN, recorded \in BOOLEAN, queued \in BOOLEAN :
        /\ buf' = [buf EXCEPT ![fills] =
                    [buf[fills] EXCEPT !.busy = @ \/ queued,
                              !.held = IF (fills \in Spill /\ copied /\ ~(left = 1)) \/ recorded
                                         THEN buf[fills].held + holdUnits ELSE 0,
                              !.st = CASE fills \in Spill /\ copied /\ ~(left = 1) -> "filling"
                                       [] ~(fills \in Spill /\ copied /\ ~(left = 1)) /\ recorded
                                            -> "in_flight"
                                       [] OTHER -> "quarantined"]]
        /\ WindowRelease(IF (fills \in Spill /\ copied /\ ~(left = 1)) \/ recorded
                           THEN 0 ELSE buf[fills].held + holdUnits)
        /\ holdUnits' = 0 /\ hold' = (fills \in Spill /\ copied /\ ~(left = 1))
  BY Zenon DEF Fill
<1>4. PICK goesOn \in BOOLEAN : goesOn = (b \in Spill /\ copied /\ ~(left = 1))
  OBVIOUS
<1>5. PICK kept \in BOOLEAN : kept = (goesOn \/ recorded)
  OBVIOUS
<1>6. PICK busy \in BOOLEAN : busy = (buf[b].busy \/ queued)
  BY <1>2
<1>7. PICK st : st = CASE goesOn -> "filling"
                       [] ~goesOn /\ recorded -> "in_flight"
                       [] OTHER -> "quarantined"
  OBVIOUS
<1>8. st \in {"filling", "in_flight", "quarantined"}
  <2>1. CASE goesOn
    BY <1>7, <2>1
  <2>2. CASE ~goesOn /\ recorded
    BY <1>7, <2>2
  <2>3. CASE ~goesOn /\ ~recorded
    BY <1>7, <2>3
  <2> QED
    BY <2>1, <2>2, <2>3
<1>9. /\ buf' = [buf EXCEPT ![b] = [buf[b] EXCEPT !.busy = busy, !.held = IF kept THEN h ELSE 0,
                                                  !.st = st]]
      /\ WindowRelease(IF kept THEN 0 ELSE h)
      /\ holdUnits' = 0 /\ hold' = goesOn
  <2>1. buf' = [buf EXCEPT ![b] = [buf[b] EXCEPT !.busy = buf[b].busy \/ queued,
                              !.held = IF (b \in Spill /\ copied /\ ~(left = 1)) \/ recorded
                                         THEN h ELSE 0,
                              !.st = CASE b \in Spill /\ copied /\ ~(left = 1) -> "filling"
                                       [] ~(b \in Spill /\ copied /\ ~(left = 1)) /\ recorded
                                            -> "in_flight"
                                       [] OTHER -> "quarantined"]]
    <3>1. PICK a : a = CASE fills \in Spill /\ copied /\ ~(left = 1) -> "filling"
                         [] ~(fills \in Spill /\ copied /\ ~(left = 1)) /\ recorded -> "in_flight"
                         [] OTHER -> "quarantined"
      OBVIOUS
    <3>2. PICK u : u = IF (fills \in Spill /\ copied /\ ~(left = 1)) \/ recorded
                         THEN buf[fills].held + holdUnits ELSE 0
      OBVIOUS
    <3>3. buf' = [buf EXCEPT ![fills] = [buf[fills] EXCEPT !.busy = buf[fills].busy \/ queued,
                                                           !.held = u, !.st = a]]
      BY <1>3, <3>1, <3>2
    <3> QED
      BY <1>b, <1>d, <3>1, <3>2, <3>3
  <2>2. buf' = [buf EXCEPT ![b] = [buf[b] EXCEPT !.busy = busy, !.held = IF kept THEN h ELSE 0,
                                                  !.st = st]]
    BY <1>4, <1>5, <1>6, <1>7, <2>1
  <2>3. WindowRelease(IF kept THEN 0 ELSE h)
    BY <1>b, <1>d, <1>3, <1>4, <1>5
  <2>4. holdUnits' = 0 /\ hold' = goesOn
    BY <1>b, <1>3, <1>4
  <2> QED
    BY <2>2, <2>3, <2>4
<1>10. FillsBuffer(b, h)
  BY <1>8, <1>9 DEF FillsBuffer
<1> QED
  BY <1>b, <1>c, <1>d, <1>10

\* The account of a filled buffer.
LEMMA FillAccount ==
  ASSUME Control, Account, NEW w \in Worker, Fill(w)
  PROVE  Account'
<1>2. PICK b : b = fills
  OBVIOUS
<1>4. PICK h : h = buf[b].held + holdUnits
  OBVIOUS
<1>3. b \in Buf /\ FillsBuffer(b, h)
  BY <1>2, <1>4, FillForm
<1>5. PICK busy \in BOOLEAN, kept \in BOOLEAN, goesOn \in BOOLEAN,
           st \in {"filling", "in_flight", "quarantined"} :
        /\ buf' = [buf EXCEPT ![b] = [buf[b] EXCEPT !.busy = busy, !.held = IF kept THEN h ELSE 0,
                                                    !.st = st]]
        /\ WindowRelease(IF kept THEN 0 ELSE h)
        /\ holdUnits' = 0 /\ hold' = goesOn
  BY <1>3 DEF FillsBuffer
<1>6. /\ buf \in [Buf -> Buffer] /\ holdUnits \in Nat /\ windowHeld \in Nat
      /\ credit \in Nat /\ consumed \in Nat
  BY DEF Account
<1>7. HeldBy(Buf) = Charge(buf, Buf) /\ Charge(buf, Buf) \in Nat
  BY <1>6, ChargeCounts DEF HeldBy
<1>8. /\ windowHeld = Charge(buf, Buf) + holdUnits /\ windowHeld <= MaxHeld
      /\ credit + consumed + windowHeld = Window
  BY <1>7 DEF Account, WindowConserved
<1>9. buf[b] \in Buffer /\ buf[b].held \in Nat
  <2>1. buf[b] \in Buffer
    BY <1>3, <1>6
  <2> QED
    BY <2>1, MaxHeldNat DEF Buffer
<1>10. buf[b].held <= Charge(buf, Buf)
  <2>1. Charge(buf, {b}) = buf[b].held
    BY <1>3, <1>6, ChargeOne
  <2>2. Charge(buf, {b}) <= Charge(buf, Buf)
    BY <1>3, <1>6, ChargeBounds
  <2> QED
    BY <2>1, <2>2
<1>11. h \in Nat /\ h <= windowHeld /\ h <= MaxHeld
  BY <1>4, <1>6, <1>7, <1>8, <1>9, <1>10, MaxHeldNat
<1>12. PICK k : k = IF kept THEN h ELSE 0
  OBVIOUS
<1>13. k \in 0 .. MaxHeld /\ k \in Nat
  BY <1>11, <1>12, MaxHeldNat
<1>14. PICK y : y = [buf[b] EXCEPT !.busy = busy, !.held = k, !.st = st]
  OBVIOUS
<1>15. /\ y \in Buffer /\ y.held = k /\ y.st = st /\ y.ctx = buf[b].ctx /\ y.mem = buf[b].mem
  BY <1>9, <1>13, <1>14 DEF Buffer
<1>16. PICK g : g = [buf EXCEPT ![b] = y]
  OBVIOUS
<1>17. g \in [Buf -> Buffer] /\ g[b] = y /\ \A x \in Buf \ {b} : g[x] = buf[x]
  BY <1>3, <1>6, <1>15, <1>16
<1>18. buf' = g
  BY <1>5, <1>12, <1>14, <1>16
<1>19. Charge(g, Buf) + buf[b].held = Charge(buf, Buf) + k
  BY <1>3, <1>6, <1>15, <1>17, ChargeUpdated
<1>20. HeldBy(Buf)' = Charge(g, Buf) /\ Charge(g, Buf) \in Nat
  BY <1>17, <1>18, ChargeCounts DEF HeldBy
<1>21. PICK r : r = IF kept THEN 0 ELSE h
  OBVIOUS
<1>22. r \in Nat /\ r <= windowHeld /\ k + r = h
  BY <1>6, <1>11, <1>12, <1>21
<1>23. WindowRelease(r)
  BY <1>5, <1>21
<1>24. /\ credit' \in Nat /\ consumed' \in Nat /\ windowHeld' \in Nat
       /\ windowHeld' = windowHeld - r /\ credit' + consumed' + windowHeld' = Window
  BY <1>6, <1>8, <1>22, <1>23, ReleaseKeeps
<1>25. windowHeld' = Charge(g, Buf) /\ windowHeld' <= MaxHeld
  BY <1>4, <1>6, <1>7, <1>8, <1>9, <1>13, <1>19, <1>20, <1>22, <1>24, MaxHeldNat
<1>26. holdUnits' = 0
  BY <1>5
<1>27. WindowConserved'
  BY <1>20, <1>24, <1>25, <1>26 DEF WindowConserved
<1>28. ASSUME NEW x \in Buf
       PROVE  Sound(g[x])
  BY <1>3, <1>5, <1>15, <1>17 DEF Account, Sound
<1> QED
  BY <1>17, <1>18, <1>24, <1>26, <1>27, <1>28 DEF Account, Sound

\* What is idle is freed before a context ends.
LEMMA QuiesceAccount ==
  ASSUME Control, Account, NEW w \in Worker, Quiesce(w)
  PROVE  Account'
<1>1. CASE UNCHANGED <<buf, windowHeld, consumed, credit>>
  BY <1>1, AccountStutters DEF Quiesce
<1>2. ASSUME NEW c, NEW sick \in BOOLEAN, buf' = Retired(c, sick), WindowRelease(RetireReleases(c, sick))
      PROVE  Account'
  <2>1. PICK S : S = Failing(c, sick) \cup Complete(c, sick)
                       \cup {b \in OfCtx(c) : buf[b].st = "available"}
    OBVIOUS
  <2>2. PICK g : g = Retired(c, sick)
    OBVIOUS
  <2>3. /\ g \in [Buf -> Buffer] /\ Tame(g) /\ S \in SUBSET Buf
        /\ \A b \in S : g[b].held = 0
        /\ \A b \in Buf \ S : g[b].held = buf[b].held
    BY <2>1, <2>2, RetiredTame
  <2>4. WindowRelease(HeldBy(S)) /\ buf' = g
    BY <1>2, <2>1, <2>2 DEF RetireReleases
  <2>5. UNCHANGED holdUnits /\ UNCHANGED hold
    BY DEF Quiesce
  <2> QED
    BY <2>3, <2>4, <2>5, TameKeeps, AccountRelease
<1> QED
  BY <1>1, <1>2 DEF Quiesce

\* What is certainly or possibly gone is forgotten.
LEMMA FinishAccount ==
  ASSUME Control, Account, NEW w \in Worker, Finish(w)
  PROVE  Account'
<1>1. UNCHANGED holdUnits /\ UNCHANGED hold
  BY DEF Finish
<1>2. CASE UNCHANGED <<buf, windowHeld, consumed, credit>>
  BY <1>1, <1>2, AccountStutters
<1>3. ASSUME NEW c, Forget(c)
      PROVE  Account'
  <2>1. PICK g : g = Forgotten(c)
    OBVIOUS
  <2>2. PICK S : S = OfCtx(c)
    OBVIOUS
  <2>3. /\ g \in [Buf -> Buffer] /\ Tame(g) /\ S \in SUBSET Buf
        /\ \A b \in S : g[b].held = 0
        /\ \A b \in Buf \ S : g[b].held = buf[b].held
    BY <2>1, <2>2, ForgottenTame
  <2>4. WindowRelease(HeldBy(S)) /\ buf' = g
    BY <1>3, <2>1, <2>2 DEF Forget, ForgetReleases
  <2> QED
    BY <1>1, <2>3, <2>4, TameKeeps, AccountRelease
<1> QED
  BY <1>2, <1>3 DEF Finish

\* A context ends with its memory.
LEMMA CudaForm ==
  ASSUME Account, NEW w \in Worker, Cuda(w)
  PROVE  /\ buf' \in [Buf -> Buffer]
         /\ \A b \in Buf : /\ buf'[b].held = buf[b].held
                           /\ buf'[b].st = buf[b].st /\ buf'[b].ctx = buf[b].ctx
                           /\ Sound(buf'[b])
                           /\ \/ buf'[b] = buf[b] /\ UNCHANGED live
                              \/ /\ live' = live \ {job[w].ctx}
                                 /\ buf[b].ctx # job[w].ctx \/ buf[b].mem # "pinned"
                                 /\ buf'[b] = buf[b]
                              \/ /\ live' = live \ {job[w].ctx} /\ buf[b].ctx = job[w].ctx
                                 /\ buf'[b].mem = "gone" /\ ~buf'[b].busy
<1>1. buf \in [Buf -> Buffer] /\ \A b \in Buf : Sound(buf[b])
  BY DEF Account, Sound
<1>2. CASE UNCHANGED <<live, buf>>
  BY <1>1, <1>2
<1>3. CASE /\ live' = live \ {job[w].ctx}
           /\ buf' = [b \in Buf |->
                        IF buf[b].ctx = job[w].ctx /\ buf[b].mem = "pinned"
                          THEN [buf[b] EXCEPT !.mem = "gone", !.busy = FALSE] ELSE buf[b]]
  <2>1. PICK c : c = job[w].ctx
    OBVIOUS
  <2>2. buf' = [b \in Buf |->
                  IF buf[b].ctx = c /\ buf[b].mem = "pinned"
                    THEN [buf[b] EXCEPT !.mem = "gone", !.busy = FALSE] ELSE buf[b]]
    BY <1>3, <2>1
  <2>3. ASSUME NEW b \in Buf
        PROVE  /\ buf'[b] \in Buffer /\ buf'[b].held = buf[b].held
               /\ buf'[b].st = buf[b].st /\ buf'[b].ctx = buf[b].ctx
               /\ Sound(buf'[b])
               /\ \/ (buf[b].ctx # c \/ buf[b].mem # "pinned") /\ buf'[b] = buf[b]
                  \/ buf[b].ctx = c /\ buf'[b].mem = "gone" /\ ~buf'[b].busy
    <3>1. buf[b] \in Buffer /\ Sound(buf[b])
      BY <1>1
    <3>2. CASE buf[b].ctx = c /\ buf[b].mem = "pinned"
      <4>1. buf'[b] = [buf[b] EXCEPT !.mem = "gone", !.busy = FALSE]
        BY <2>2, <3>2
      <4> QED
        BY <3>1, <3>2, <4>1 DEF Buffer, Sound
    <3>3. CASE ~(buf[b].ctx = c /\ buf[b].mem = "pinned")
      <4>1. buf'[b] = buf[b]
        BY <2>2, <3>3
      <4> QED
        BY <3>1, <3>3, <4>1
    <3> QED
      BY <3>2, <3>3
  <2>4. buf' \in [Buf -> Buffer]
    BY <2>2, <2>3
  <2> QED
    BY <1>3, <2>1, <2>3, <2>4
<1> QED
  BY <1>2, <1>3 DEF Cuda

\* Received payload stays charged up to half of the window.
LEMMA ReceiveAccount ==
  ASSUME Control, Account, Receive
  PROVE  Account' /\ credit' \in Nat
<1>1. /\ credit \in Nat /\ consumed \in Nat /\ windowHeld \in Nat /\ holdUnits \in Nat
      /\ unread \in Nat /\ hold \in BOOLEAN
  BY DEF Account, Control, Types
<1>2. PICK n \in 1 .. Min({unread, credit}) :
        /\ windowHeld' = windowHeld + HeldOf(n) /\ holdUnits' = holdUnits + HeldOf(n)
        /\ Consume(n, n - HeldOf(n))
  BY DEF Receive
<1>3. n \in Nat /\ n <= credit
  BY <1>1, <1>2, MinOfTwo
<1>4. /\ windowHeld = HeldBy(Buf) + holdUnits /\ windowHeld <= MaxHeld
      /\ credit + consumed + windowHeld = Window
  BY DEF Account, WindowConserved
<1>5. HeldBy(Buf) \in Nat
  BY ChargeCounts DEF Account, HeldBy
<1>6. PICK h : h = HeldOf(n)
  OBVIOUS
<1>7. MaxHeld - windowHeld \in Nat
  BY <1>1, <1>4, MaxHeldNat
<1>8. h \in Nat /\ h <= n /\ h <= MaxHeld - windowHeld /\ (~hold => h = 0)
  BY <1>3, <1>6, <1>7, MinOfTwo DEF HeldOf
<1>9. n - h \in Nat
  BY <1>3, <1>8
<1>10. PICK m \in Nat : m = n - h
  BY <1>9
<1>11. Consume(n, m)
  BY <1>2, <1>6, <1>10
<1>12. /\ credit' \in Nat /\ consumed' \in Nat
       /\ credit' + consumed' = (credit - n) + (consumed + m)
  BY <1>1, <1>3, <1>10, <1>11, MaxHeldNat DEF Consume
<1>13. windowHeld' = windowHeld + h /\ holdUnits' = holdUnits + h
  BY <1>2, <1>6
<1>14. windowHeld' \in Nat /\ holdUnits' \in Nat /\ windowHeld' <= MaxHeld
  BY <1>1, <1>7, <1>8, <1>13, MaxHeldNat
<1>15. credit' + consumed' + windowHeld' = Window
  <2>1. credit' + consumed' + windowHeld' = ((credit - n) + (consumed + m)) + (windowHeld + h)
    BY <1>12, <1>13
  <2>2. ((credit - n) + (consumed + m)) + (windowHeld + h) = credit + consumed + windowHeld
    BY <1>1, <1>3, <1>8, <1>10
  <2> QED
    BY <1>4, <2>1, <2>2
<1>16. UNCHANGED buf /\ UNCHANGED hold
  BY DEF Receive, staging
<1>17. HeldBy(Buf)' = HeldBy(Buf)
  BY <1>16 DEF HeldBy
<1>18. windowHeld' = HeldBy(Buf)' + holdUnits'
  BY <1>1, <1>4, <1>5, <1>8, <1>13, <1>17
<1>19. WindowConserved'
  BY <1>14, <1>15, <1>18 DEF WindowConserved
<1>20. ~hold' => holdUnits' = 0
  BY <1>1, <1>8, <1>13, <1>16 DEF Account
<1> QED
  BY <1>12, <1>14, <1>16, <1>19, <1>20 DEF Account

\* The GPU finishes a copy.
LEMMA GpuDoneForm ==
  ASSUME Account, NEW b \in Buf, GpuDone(b)
  PROVE  /\ buf' \in [Buf -> Buffer]
         /\ \A x \in Buf : /\ buf'[x].held = buf[x].held /\ buf'[x].st = buf[x].st
                           /\ buf'[x].ctx = buf[x].ctx /\ buf'[x].mem = buf[x].mem
                           /\ Sound(buf'[x]) /\ (buf'[x].busy => buf[x].busy)
<1>1. buf \in [Buf -> Buffer] /\ \A x \in Buf : Sound(buf[x])
  BY DEF Account, Sound
<1>2. PICK y : y = [buf[b] EXCEPT !.busy = FALSE]
  OBVIOUS
<1>3. /\ y \in Buffer /\ y.held = buf[b].held /\ y.st = buf[b].st /\ y.ctx = buf[b].ctx
      /\ y.mem = buf[b].mem /\ ~y.busy
  BY <1>1, <1>2 DEF Buffer
<1>4. buf' = [buf EXCEPT ![b] = y]
  BY <1>2 DEF GpuDone
<1>5. buf' \in [Buf -> Buffer] /\ buf'[b] = y /\ \A x \in Buf \ {b} : buf'[x] = buf[x]
  BY <1>1, <1>3, <1>4
<1> QED
  BY <1>1, <1>3, <1>5 DEF Sound

\* Every step keeps the account.
LEMMA NextAccount ==
  ASSUME Control, Account, [Next]_vars
  PROVE  Account'
<1>1. ASSUME NEW w \in Worker, Step(w)
      PROVE  Account'
  <2>1. CASE StartCopy(w) \/ Acquire(w) \/ Drain(w) \/ CopySync(w) \/ ReadEnd(w) \/ Reply(w)
    BY <2>1, AccountStutters DEF StartCopy, Acquire, Drain, CopySync, ReadEnd, Reply, stream, staging
  <2>2. CASE Make(w) \/ Mark(w)
    BY <2>2, AccountStutters DEF Make, Mark, stream
  <2>3. CASE TakeSlot(w) \/ TakeSpill(w) \/ Fill(w)
    BY <2>3, TakeSlotAccount, TakeSpillAccount, FillAccount
  <2>4. CASE Quiesce(w) \/ Finish(w)
    BY <2>4, QuiesceAccount, FinishAccount
  <2>5. CASE Cuda(w)
    <3>1. PICK g : g = buf'
      OBVIOUS
    <3>2. /\ g \in [Buf -> Buffer] /\ \A b \in Buf : g[b].held = buf[b].held /\ Sound(g[b])
      BY <2>5, <3>1, CudaForm
    <3>3. UNCHANGED <<credit, consumed, windowHeld, hold, holdUnits>>
      BY <2>5 DEF Cuda, stream
    <3> QED
      BY <3>1, <3>2, <3>3, AccountSame
  <2> QED
    BY <1>1, <2>1, <2>2, <2>3, <2>4, <2>5 DEF Step
<1>2. ASSUME NEW w \in Copier, NEW op \in Copy \cap Calls, NEW c \in Ctx, Issue(w, op, c)
      PROVE  Account'
  BY <1>2, AccountStutters DEF Issue, staging
<1>3. ASSUME NEW w \in Manager, NEW op \in Life \cap Calls, StartLife(w, op)
      PROVE  Account'
  BY <1>3, AccountStutters DEF StartLife, stream, staging
<1>4. ASSUME NEW b \in Buf, GpuDone(b)
      PROVE  Account'
  <2>1. PICK g : g = buf'
    OBVIOUS
  <2>2. /\ g \in [Buf -> Buffer] /\ \A x \in Buf : g[x].held = buf[x].held /\ Sound(g[x])
    BY <1>4, <2>1, GpuDoneForm
  <2>3. UNCHANGED <<credit, consumed, windowHeld, hold, holdUnits>>
    BY <1>4 DEF GpuDone, stream
  <2> QED
    BY <2>1, <2>2, <2>3, AccountSame
<1>5. CASE UNCHANGED vars
  BY <1>5, AccountStutters DEF vars, stream, staging
<1> QED
  BY <1>1, <1>2, <1>3, <1>4, <1>5, ReceiveAccount DEF Next

----------------------------------------------------------------------------
(* The third layer.                                                        *)

\* What the server notes of contexts.
Handles ==
  /\ created \subseteq {Created} /\ primary \in Ctx \cup {NoCtx} /\ raced \in BOOLEAN

\* The context of the copy that owns the stream is not being torn down: a lifecycle
\* call starts between two copies.
Apart == \A w, v \in Worker : pc[w] \in Reading => ~(job[v].op \in Teardown /\ job[v].ctx = job[w].ctx)

\* It is alive, and known to be the application's if it is.
Alive ==
  \A w \in Worker : pc[w] \in {"acquire", "slot", "fill", "sync"} =>
    job[w].ctx \in live /\ (job[w].ctx = Created => Created \in created)

\* The context believed primary is the primary one, and it is known when it stages.
Guess ==
  /\ primary \in {Primary, NoCtx}
  /\ \A w \in Worker : pc[w] \in Operating /\ job[w].ctx = Primary => primary = Primary
  /\ \A b \in Buf : buf[b].ctx = Primary => primary = Primary

\* The buffer being filled is the copying worker's context's, and there.
Filling ==
  \A w \in Worker : pc[w] = "fill" => buf[fills].ctx = job[w].ctx /\ buf[fills].mem = "pinned"

\* Memory that went with its context is forgotten by the call that ended it.
Gone ==
  \A b \in Buf : buf[b].mem = "gone" =>
    /\ buf[b].ctx \notin live
    /\ \E w \in Worker : pc[w] = "finish" /\ job[w].ctx = buf[b].ctx

\* What a DMA may read is there and not idle.
Dma == \A b \in Buf : buf[b].busy => buf[b].mem = "pinned" /\ buf[b].st # "available"

Staged == Apart /\ Alive /\ Guess /\ Filling /\ Gone /\ Dma
Memory == Handles /\ (~raced => Staged)

\* Nothing is staged yet.
LEMMA InitMemory == Init => Memory
<1> SUFFICES ASSUME Init PROVE Memory
  OBVIOUS
<1>1. Handles
  BY DEF Init, Handles
<1>2. ASSUME NEW b \in Buf
      PROVE  buf[b].ctx = NoCtx /\ buf[b].mem = "none" /\ buf[b].busy = FALSE
  BY DEF Init, Empty
<1>3. \A w \in Worker : pc[w] = "idle"
  BY DEF Init
<1>4. Apart /\ Alive /\ Filling
  BY <1>3 DEF Apart, Alive, Filling, Reading
<1>5. primary = NoCtx
  BY DEF Init
<1>6. Guess
  BY <1>2, <1>3, <1>5 DEF Guess, Operating, NoCtx, Primary
<1>7. Gone /\ Dma
  BY <1>2 DEF Gone, Dma
<1> QED
  BY <1>1, <1>4, <1>6, <1>7 DEF Memory, Staged

\* A DMA goes on under every change but the end of a context.
LEMMA BusyKept ==
  ASSUME Account, NEW c, NEW sick, NEW b \in Buf
  PROVE  Reclaimed(c, sick)[b].busy = buf[b].busy /\ Stripped(c, sick)[b].busy = buf[b].busy
<1>1. Reclaimed(c, sick)[b] \in {Quarantined(b), Idled(b), Freed(b), buf[b]}
  BY DEF Reclaimed, Idled
<1>2. Reclaimed(c, sick)[b].busy = buf[b].busy
  BY <1>1, BufferForms
<1>3. Stripped(c, sick)[b] = Freed(b) \/ Stripped(c, sick)[b] = Reclaimed(c, sick)[b]
  BY DEF Stripped
<1> QED
  BY <1>2, <1>3, BufferForms

\* A tame change keeps what a DMA reads.
LEMMA TameDma ==
  ASSUME Dma, NEW f, Tame(f), NEW b \in Buf, f[b].busy
  PROVE  f[b].mem = "pinned" /\ f[b].st # "available"
  BY DEF Dma, Tame, TameAt

\* What a step of a copy of context c may make of a buffer.
Kept(x, y, c) ==
  \/ y.ctx = x.ctx /\ y.mem = x.mem
  \/ y.ctx = NoCtx /\ y.mem = "none"
  \/ y.ctx = c /\ y.mem = "pinned"

\* A slot is prepared: it is pinned memory of the copy's context, idle before.
LEMMA TakeSlotMemory ==
  ASSUME Control, Account, Alive, Gone, Dma, NEW w \in Worker, TakeSlot(w)
  PROVE  /\ fills' \in Buf /\ buf'[fills'].ctx = job[w].ctx /\ buf'[fills'].mem = "pinned"
         /\ \A b \in Buf : Kept(buf[b], buf'[b], job[w].ctx)
         /\ Dma'
<1>1. pc[w] = "slot"
  BY DEF TakeSlot
<1>2. PICK c : c = job[w].ctx
  OBVIOUS
<1>3. c \in Ctx /\ c \in live /\ c # NoCtx
  BY <1>1, <1>2 DEF Control, Jobs, JobAt, Reading, Alive, Ctx, NoCtx, Primary, Created
<1>4. PICK sick \in BOOLEAN :
        \E s \in Available(c, sick) :
             /\ Hold(s)
             /\ \/ s \in Own(c, sick) /\ buf' = Reclaimed(c, sick)
                \/ buf' = [Reclaimed(c, sick) EXCEPT ![s] = Fresh(c, s)]
  BY <1>2 DEF TakeSlot
<1>5. PICK s \in Available(c, sick) :
        /\ Hold(s)
        /\ \/ s \in Own(c, sick) /\ buf' = Reclaimed(c, sick)
           \/ buf' = [Reclaimed(c, sick) EXCEPT ![s] = Fresh(c, s)]
  BY <1>4
<1>6. PICK R : R = Reclaimed(c, sick)
  OBVIOUS
<1>7. R \in [Buf -> Buffer] /\ Tame(R)
  BY <1>6, ReclaimedTame
<1>8. s \in Slot /\ s \in Buf /\ R[s].st = "available" /\ fills' = s
  BY <1>5, <1>6 DEF Available, Buf, Hold
<1>9. ~buf[s].busy
  <2>1. R[s].busy = buf[s].busy
    BY <1>6, <1>8, BusyKept
  <2> QED
    BY <1>7, <1>8, <2>1, TameDma
<1>10. CASE s \in Own(c, sick) /\ buf' = R
  <2>1. buf[s].ctx = c
    BY <1>10 DEF Own
  <2>2. R[s] \in {Quarantined(s), Idled(s), buf[s]}
    BY <1>6, <1>8 DEF Reclaimed, Idled
  <2>3. R[s].ctx = buf[s].ctx /\ R[s].mem = buf[s].mem
    BY <1>8, <2>2, BufferForms
  <2>4. buf[s].mem \in {"none", "pinned", "gone"}
    BY <1>8, BufferForms DEF Buffer
  <2>5. buf[s].mem = "pinned"
    BY <1>3, <1>8, <2>1, <2>4 DEF Gone, Account
  <2>6. \A b \in Buf : Kept(buf[b], buf'[b], c)
    BY <1>7, <1>10 DEF Tame, TameAt, Kept
  <2>7. Dma'
    BY <1>7, <1>10, TameDma DEF Dma
  <2> QED
    BY <1>2, <1>8, <1>10, <2>1, <2>3, <2>5, <2>6, <2>7
<1>11. CASE buf' = [R EXCEPT ![s] = Fresh(c, s)]
  <2>1. buf'[s] = Fresh(c, s) /\ \A b \in Buf \ {s} : buf'[b] = R[b]
    BY <1>7, <1>8, <1>11
  <2>2. Fresh(c, s).ctx = c /\ Fresh(c, s).mem = "pinned" /\ ~Fresh(c, s).busy
    BY <1>3, <1>8, <1>9, FreshForm
  <2>3. ASSUME NEW b \in Buf
        PROVE  Kept(buf[b], buf'[b], c)
    BY <1>7, <2>1, <2>2 DEF Tame, TameAt, Kept
  <2>4. Dma'
    BY <1>7, <2>1, <2>2, TameDma DEF Dma
  <2> QED
    BY <1>2, <1>8, <2>1, <2>2, <2>3, <2>4
<1> QED
  BY <1>5, <1>6, <1>10, <1>11

\* The same for a spill, if there is memory for one.
LEMMA TakeSpillMemory ==
  ASSUME Control, Account, Alive, Gone, Dma, NEW w \in Worker, TakeSpill(w)
  PROVE  /\ \/ fills' \in Buf /\ buf'[fills'].ctx = job[w].ctx /\ buf'[fills'].mem = "pinned"
            \/ pc' = [pc EXCEPT ![w] = "drain"]
         /\ \A b \in Buf : Kept(buf[b], buf'[b], job[w].ctx)
         /\ Dma'
<1>1. pc[w] = "slot"
  BY DEF TakeSpill
<1>2. PICK c : c = job[w].ctx
  OBVIOUS
<1>3. c \in Ctx
  BY <1>1, <1>2 DEF Control, Jobs, JobAt, Reading
<1>4. PICK sick \in BOOLEAN :
        \/ \E x \in Spill :
             /\ Stripped(c, sick)[x] = Empty
             /\ buf' = [Stripped(c, sick) EXCEPT ![x] = [Fresh(c, x) EXCEPT !.st = "filling"]]
             /\ Hold(x)
        \/ buf' = Stripped(c, sick) /\ Goto(w, "drain")
  BY <1>2 DEF TakeSpill
<1>5. PICK R : R = Stripped(c, sick)
  OBVIOUS
<1>6. R \in [Buf -> Buffer] /\ Tame(R)
  BY <1>5, StrippedTame
<1>7. CASE buf' = R /\ Goto(w, "drain")
  <2>1. \A b \in Buf : Kept(buf[b], buf'[b], c)
    BY <1>6, <1>7 DEF Tame, TameAt, Kept
  <2>2. Dma'
    BY <1>6, <1>7, TameDma DEF Dma
  <2> QED
    BY <1>2, <1>7, <2>1, <2>2 DEF Goto
<1>8. ASSUME NEW x \in Spill, R[x] = Empty, Hold(x),
             buf' = [R EXCEPT ![x] = [Fresh(c, x) EXCEPT !.st = "filling"]]
      PROVE  /\ fills' \in Buf /\ buf'[fills'].ctx = c /\ buf'[fills'].mem = "pinned"
             /\ \A b \in Buf : Kept(buf[b], buf'[b], c)
             /\ Dma'
  <2>1. x \in Buf /\ fills' = x
    BY <1>8 DEF Hold, Buf
  <2>2. ~buf[x].busy
    BY <1>5, <1>8, <2>1, BusyKept, BufferForms
  <2>3. PICK y : y = [Fresh(c, x) EXCEPT !.st = "filling"]
    OBVIOUS
  <2>4. y.ctx = c /\ y.mem = "pinned" /\ ~y.busy
    BY <1>3, <2>1, <2>2, <2>3, FreshForm DEF Buffer
  <2>5. buf'[x] = y /\ \A b \in Buf \ {x} : buf'[b] = R[b]
    BY <1>6, <1>8, <2>1, <2>3
  <2>6. ASSUME NEW b \in Buf
        PROVE  Kept(buf[b], buf'[b], c)
    BY <1>6, <2>4, <2>5 DEF Tame, TameAt, Kept
  <2>7. Dma'
    BY <1>6, <2>4, <2>5, TameDma DEF Dma
  <2> QED
    BY <2>1, <2>4, <2>5, <2>6, <2>7
<1> QED
  BY <1>2, <1>4, <1>5, <1>7, <1>8


\* Steps that leave the buffers and the contexts alone.
LEMMA StillMemory ==
  ASSUME Staged, UNCHANGED <<buf, live, created, primary>>,
         \A w \in Worker : \/ pc'[w] \notin Reading
                           \/ pc[w] \in Reading /\ job'[w] = job[w]
                              /\ (pc'[w] \in {"acquire", "slot", "fill", "sync"} =>
                                    pc[w] \in {"acquire", "slot", "fill", "sync"})
                              /\ (pc'[w] \in Operating => pc[w] \in Operating)
                              /\ (pc'[w] = "fill" => pc[w] = "fill" /\ fills' = fills),
         \A w \in Worker : job'[w].op \in Teardown => job'[w] = job[w],
         \A w \in Worker : pc[w] = "finish" => pc'[w] = "finish" /\ job'[w] = job[w]
  PROVE  Staged'
<1>0. Apart /\ Alive /\ Guess /\ Filling /\ Gone /\ Dma
  BY DEF Staged
<1>1. Apart'
  BY <1>0 DEF Apart
<1>2. Alive'
  BY <1>0 DEF Alive, Reading
<1>3. Guess'
  BY <1>0 DEF Guess, Reading, Operating
<1>4. Filling'
  BY <1>0 DEF Filling, Reading
<1>5. Gone'
  BY <1>0 DEF Gone
<1>6. Dma'
  BY <1>0 DEF Dma
<1> QED
  BY <1>1, <1>2, <1>3, <1>4, <1>5, <1>6 DEF Staged

\* A copy, or a call, that only moves on.
LEMMA QuietMemory ==
  ASSUME Control, Account, Staged, Handles, NEW w \in Worker, 
         \/ Drain(w) \/ CopySync(w) \/ ReadEnd(w) \/ Reply(w) \/ Mark(w)
  PROVE  Staged'
<1>0. Types /\ Jobs /\ Locks /\ Fills /\ Apart /\ Alive /\ Guess /\ Filling /\ Gone /\ Dma
  BY DEF Staged, Control
<1>a. Nobody \notin Worker
  BY CopyAssumption DEF Worker, Nobody
<1>1. CASE Drain(w)
  BY <1>0, <1>a, <1>1, StillMemory DEF Drain, Goto, staging, Types, Jobs, JobAt, Locks, Reading, Operating, Tearing, Label
<1>2. CASE CopySync(w)
  BY <1>0, <1>a, <1>2, StillMemory DEF CopySync, Goto, staging, Types, Jobs, JobAt, Locks, Reading, Operating, Tearing, Label
<1>3. CASE ReadEnd(w)
  BY <1>0, <1>a, <1>3, StillMemory DEF ReadEnd, Goto, Types, Jobs, JobAt, Locks, Reading, Operating, Tearing, Label, NoJob, Teardown
<1>4. CASE Reply(w)
  BY <1>0, <1>a, <1>4, StillMemory DEF Reply, Goto, Types, Jobs, JobAt, Locks, Reading, Operating, Tearing, Label, NoJob, Teardown
<1>5. CASE Mark(w)
  BY <1>0, <1>a, <1>5, StillMemory DEF Mark, Goto, Types, Jobs, JobAt, Locks, Reading, Operating, Tearing, Label
<1> QED
  BY <1>1, <1>2, <1>3, <1>4, <1>5

\* A copy starts in a context that nobody is tearing down and that is what it seems.
LEMMA StartCopyMemory ==
  ASSUME Control, Account, Staged, Handles, NEW w \in Worker, StartCopy(w), ~raced'
  PROVE  Staged'
<1>0. Types /\ Jobs /\ Locks /\ Fills /\ Apart /\ Alive /\ Guess /\ Filling /\ Gone /\ Dma
  BY DEF Staged, Control
<1>a. Nobody \notin Worker
  BY CopyAssumption DEF Worker, Nobody
<1>b. PICK r \in Request : queue = <<r>>
  BY <1>0 DEF StartCopy, Types
<1>c. /\ turn = Nobody /\ pc[w] = "idle" /\ r.op \in Copy /\ r.ctx \in Ctx
      /\ job' = [job EXCEPT ![w] = [op |-> r.op, ctx |-> r.ctx]]
      /\ pc' = [pc EXCEPT ![w] = IF r.ctx \in live THEN "acquire" ELSE "drain"]
      /\ ~TearingDown(r.ctx) /\ ~Disowned(r.ctx)
      /\ UNCHANGED <<buf, live, created, primary>>
  <2>1. Head(queue) = r /\ r.op \in Copy /\ r.ctx \in Ctx
    BY <1>b DEF Request
  <2>2. raced' = (raced \/ TearingDown(r.ctx) \/ Disowned(r.ctx))
    BY <2>1 DEF StartCopy
  <2>3. ~TearingDown(r.ctx) /\ ~Disowned(r.ctx)
    BY <2>2
  <2>4. turn = Nobody /\ pc[w] = "idle" /\ UNCHANGED <<buf, live, created, primary>>
    BY DEF StartCopy, staging
  <2>5. job' = [job EXCEPT ![w] = [op |-> r.op, ctx |-> r.ctx]]
    BY <2>1 DEF StartCopy
  <2>6. pc' = [pc EXCEPT ![w] = IF r.ctx \in live THEN "acquire" ELSE "drain"]
    BY <2>1 DEF StartCopy, Goto
  <2> QED
    BY <2>1, <2>3, <2>4, <2>5, <2>6
<1>d. \A v \in Worker : pc[v] \notin Reading
  BY <1>0, <1>a, <1>c DEF Locks
<1>e. \A v \in Worker \ {w} : pc'[v] = pc[v] /\ job'[v] = job[v]
  BY <1>0, <1>c DEF Types
<1>f. /\ pc'[w] \in {"acquire", "drain"} /\ (pc'[w] = "acquire" => r.ctx \in live)
      /\ job'[w].op \in Copy /\ job'[w].ctx = r.ctx
  BY <1>0, <1>c DEF Types
<1>1. Apart'
  BY <1>c, <1>d, <1>e, <1>f DEF Apart, TearingDown, Copy, Teardown
<1>2. Alive'
  BY <1>c, <1>d, <1>e, <1>f DEF Alive, Disowned, Reading
<1>3. Guess'
  BY <1>0, <1>c, <1>d, <1>e, <1>f DEF Guess, Reading, Operating
<1>4. Filling'
  BY <1>d, <1>e, <1>f DEF Filling, Reading
<1>5. Gone'
  BY <1>0, <1>c, <1>e DEF Gone
<1>6. Dma'
  BY <1>0, <1>c DEF Dma
<1> QED
  BY <1>1, <1>2, <1>3, <1>4, <1>5, <1>6 DEF Staged

\* The context of an operation that was not created is noted as the primary one, and is.
LEMMA AcquireMemory ==
  ASSUME Control, Account, Staged, Handles, NEW w \in Worker, Acquire(w)
  PROVE  Staged'
<1>0. Types /\ Jobs /\ Locks /\ Fills /\ Apart /\ Alive /\ Guess /\ Filling /\ Gone /\ Dma
  BY DEF Staged, Control
<1>a. Nobody \notin Worker
  BY CopyAssumption DEF Worker, Nobody
<1>b. /\ pc[w] = "acquire" /\ UNCHANGED <<buf, live, created, job>>
      /\ \/ pc' = [pc EXCEPT ![w] = "drain"] /\ UNCHANGED primary
         \/ /\ pc' = [pc EXCEPT ![w] = "slot"] \/ pc' = [pc EXCEPT ![w] = "sync"]
            /\ primary' = IF job[w].ctx \in created THEN primary ELSE job[w].ctx
  BY DEF Acquire, Goto, Refused
<1>c. job[w].ctx \in Ctx /\ (job[w].ctx = Created => job[w].ctx \in created)
  BY <1>0, <1>b DEF Jobs, JobAt, Reading, Alive
<1>d. job[w].ctx = Primary => job[w].ctx \notin created
  BY DEF Handles, Primary, Created
<1>e. primary' \in {Primary, NoCtx} /\ (primary' # primary => primary' = Primary)
  BY <1>0, <1>b, <1>c DEF Guess, Ctx
<1>f. \A v \in Worker \ {w} : pc'[v] = pc[v]
  BY <1>0, <1>b DEF Types
<1>g. pc'[w] \in {"drain", "slot", "sync"}
  BY <1>0, <1>b DEF Types
<1>h. pc'[w] # "drain" /\ job[w].ctx = Primary => primary' = Primary
  BY <1>0, <1>b, <1>d DEF Types
<1>1. Apart'
  BY <1>0, <1>b, <1>f, <1>g DEF Apart, Reading
<1>2. Alive'
  BY <1>0, <1>b, <1>f, <1>g DEF Alive
<1>3. Guess'
  BY <1>0, <1>b, <1>e, <1>f, <1>g, <1>h DEF Guess, Operating
<1>4. Filling'
  <2>1. \A v \in Worker : pc[v] # "fill"
    BY <1>0, <1>b DEF Locks, Reading
  <2> QED
    BY <1>f, <1>g, <2>1 DEF Filling
<1>5. Gone'
  BY <1>0, <1>b, <1>f DEF Gone
<1>6. Dma'
  BY <1>0, <1>b DEF Dma
<1> QED
  BY <1>1, <1>2, <1>3, <1>4, <1>5, <1>6 DEF Staged

\* A copy takes a slot.
LEMMA TakeSlotStaged ==
  ASSUME Control, Account, Staged, Handles, NEW w \in Worker, TakeSlot(w)
  PROVE  Staged'
<1>0. Types /\ Jobs /\ Locks /\ Fills /\ Apart /\ Alive /\ Guess /\ Filling /\ Gone /\ Dma
  BY DEF Staged, Control
<1>a. Nobody \notin Worker
  BY CopyAssumption DEF Worker, Nobody
<1>b. pc[w] = "slot" /\ UNCHANGED <<live, created, primary, job, turn>>
  BY DEF TakeSlot
<1>c. \A v \in Worker \ {w} : pc[v] \notin Reading
  BY <1>0, <1>b DEF Locks, Reading
<1>d. pc'[w] \in {"fill", "drain"} /\ \A v \in Worker \ {w} : pc'[v] = pc[v]
  BY <1>0 DEF TakeSlot, Goto, Types
<1>e. job[w].ctx \in Ctx /\ job[w].ctx \in live /\ (job[w].ctx = Primary => primary = Primary)
  BY <1>0, <1>b DEF Jobs, JobAt, Reading, Operating, Alive, Guess
<1>f. PICK c : c = job[w].ctx
  OBVIOUS
<1>g. /\ pc'[w] = "fill" => buf'[fills'].ctx = c /\ buf'[fills'].mem = "pinned"
      /\ \A b \in Buf : Kept(buf[b], buf'[b], c)
      /\ Dma'
  BY <1>0, <1>f, TakeSlotMemory DEF Types
<1>1. Apart'
  BY <1>0, <1>b, <1>c, <1>d DEF Apart, Reading
<1>2. Alive'
  BY <1>0, <1>b, <1>c, <1>d DEF Alive, Reading
<1>3. Guess'
  BY <1>0, <1>b, <1>c, <1>d, <1>e, <1>f, <1>g DEF Guess, Operating, Reading, Kept, NoCtx, Primary
<1>4. Filling'
  BY <1>b, <1>c, <1>d, <1>f, <1>g DEF Filling, Reading
<1>5. Gone'
  BY <1>0, <1>b, <1>d, <1>g DEF Gone, Kept
<1>6. Dma'
  BY <1>g
<1> QED
  BY <1>1, <1>2, <1>3, <1>4, <1>5, <1>6 DEF Staged

\* A copy takes a spill, or gives up.
LEMMA TakeSpillStaged ==
  ASSUME Control, Account, Staged, Handles, NEW w \in Worker, TakeSpill(w)
  PROVE  Staged'
<1>0. Types /\ Jobs /\ Locks /\ Fills /\ Apart /\ Alive /\ Guess /\ Filling /\ Gone /\ Dma
  BY DEF Staged, Control
<1>a. Nobody \notin Worker
  BY CopyAssumption DEF Worker, Nobody
<1>b. pc[w] = "slot" /\ UNCHANGED <<live, created, primary, job, turn>>
  BY DEF TakeSpill
<1>c. \A v \in Worker \ {w} : pc[v] \notin Reading
  BY <1>0, <1>b DEF Locks, Reading
<1>d. pc'[w] \in {"fill", "drain"} /\ \A v \in Worker \ {w} : pc'[v] = pc[v]
  BY <1>0 DEF TakeSpill, Goto, Types
<1>e. job[w].ctx \in Ctx /\ job[w].ctx \in live /\ (job[w].ctx = Primary => primary = Primary)
  BY <1>0, <1>b DEF Jobs, JobAt, Reading, Operating, Alive, Guess
<1>f. PICK c : c = job[w].ctx
  OBVIOUS
<1>g. /\ pc'[w] = "fill" => buf'[fills'].ctx = c /\ buf'[fills'].mem = "pinned"
      /\ \A b \in Buf : Kept(buf[b], buf'[b], c)
      /\ Dma'
  BY <1>0, <1>f, TakeSpillMemory DEF Types
<1>1. Apart'
  BY <1>0, <1>b, <1>c, <1>d DEF Apart, Reading
<1>2. Alive'
  BY <1>0, <1>b, <1>c, <1>d DEF Alive, Reading
<1>3. Guess'
  BY <1>0, <1>b, <1>c, <1>d, <1>e, <1>f, <1>g DEF Guess, Operating, Reading, Kept, NoCtx, Primary
<1>4. Filling'
  BY <1>b, <1>c, <1>d, <1>f, <1>g DEF Filling, Reading
<1>5. Gone'
  BY <1>0, <1>b, <1>d, <1>g DEF Gone, Kept
<1>6. Dma'
  BY <1>g
<1> QED
  BY <1>1, <1>2, <1>3, <1>4, <1>5, <1>6 DEF Staged

\* A unit is copied from the buffer that was filled.
LEMMA FillStaged ==
  ASSUME Control, Account, Staged, Handles, NEW w \in Worker, Fill(w)
  PROVE  Staged'
<1>0. Types /\ Jobs /\ Locks /\ Fills /\ Apart /\ Alive /\ Guess /\ Filling /\ Gone /\ Dma
  BY DEF Staged, Control
<1>a. Nobody \notin Worker
  BY CopyAssumption DEF Worker, Nobody
<1>b. pc[w] = "fill" /\ UNCHANGED <<live, created, primary, job>>
  BY DEF Fill
<1>c. \A v \in Worker \ {w} : pc[v] \notin Reading
  BY <1>0, <1>b DEF Locks, Reading
<1>d. /\ pc'[w] \in {"fill", "end", "slot", "drain"} /\ \A v \in Worker \ {w} : pc'[v] = pc[v]
      /\ pc'[w] = "fill" => fills' = fills
  BY <1>0 DEF Fill, Goto, Types
<1>e. PICK b : b = fills
  OBVIOUS
<1>f. PICK h : h = buf[b].held + holdUnits
  OBVIOUS
<1>g. b \in Buf /\ FillsBuffer(b, h)
  BY <1>e, <1>f, FillForm
<1>n. PICK busy \in BOOLEAN, kept \in BOOLEAN, goesOn \in BOOLEAN,
           st \in {"filling", "in_flight", "quarantined"} :
        buf' = [buf EXCEPT ![b] = [buf[b] EXCEPT !.busy = busy, !.held = IF kept THEN h ELSE 0,
                                                 !.st = st]]
  BY <1>g DEF FillsBuffer
<1>o. PICK k : k = IF kept THEN h ELSE 0
  OBVIOUS
<1>h. buf' = [buf EXCEPT ![b] = [buf[b] EXCEPT !.busy = busy, !.held = k, !.st = st]]
  BY <1>n, <1>o
<1>i. buf[b] \in Buffer /\ buf \in [Buf -> Buffer]
  BY <1>g DEF Account
<1>j. PICK y : y = [buf[b] EXCEPT !.busy = busy, !.held = k, !.st = st]
  OBVIOUS
<1>k. y.ctx = buf[b].ctx /\ y.mem = buf[b].mem /\ y.st # "available"
  BY <1>i, <1>j DEF Buffer
<1>l. buf'[b] = y /\ \A x \in Buf \ {b} : buf'[x] = buf[x]
  BY <1>g, <1>h, <1>i, <1>j
<1>m. buf[b].ctx = job[w].ctx /\ buf[b].mem = "pinned"
  BY <1>0, <1>b, <1>e DEF Filling
<1>1. Apart'
  BY <1>0, <1>b, <1>c, <1>d DEF Apart, Reading
<1>2. Alive'
  BY <1>0, <1>b, <1>c, <1>d DEF Alive, Reading
<1>3. Guess'
  BY <1>0, <1>b, <1>c, <1>d, <1>k, <1>l DEF Guess, Operating, Reading
<1>4. Filling'
  BY <1>b, <1>c, <1>d, <1>e, <1>k, <1>l, <1>m DEF Filling, Reading
<1>5. Gone'
  BY <1>0, <1>b, <1>d, <1>k, <1>l DEF Gone
<1>6. Dma'
  BY <1>0, <1>k, <1>l, <1>m DEF Dma
<1> QED
  BY <1>1, <1>2, <1>3, <1>4, <1>5, <1>6 DEF Staged

\* A context is made under the mutex that no call holds that ends one.
LEMMA MakeStaged ==
  ASSUME Control, Account, Staged, Handles, NEW w \in Worker, Make(w)
  PROVE  Staged'
<1>0. Types /\ Jobs /\ Locks /\ Fills /\ Apart /\ Alive /\ Guess /\ Filling /\ Gone /\ Dma
  BY DEF Staged, Control
<1>a. Nobody \notin Worker
  BY CopyAssumption DEF Worker, Nobody
<1>b. PICK c : c = job[w].ctx
  OBVIOUS
<1>c. /\ pc[w] = "make" /\ lifecycle = Nobody /\ UNCHANGED <<buf, fills>>
      /\ live' \in {live, live \cup {c}} /\ created \subseteq created'
      /\ UNCHANGED primary \/ (job[w].op = "retain" /\ primary' = c)
      /\ pc' = [pc EXCEPT ![w] = "idle"] /\ job' = [job EXCEPT ![w] = NoJob]
  BY <1>b DEF Make, Goto
<1>d. \A v \in Worker : pc[v] # "finish"
  BY <1>0, <1>a, <1>c DEF Locks
<1>e. primary' # primary => primary' = Primary
  BY <1>0, <1>b, <1>c DEF Jobs, JobAt
<1>f. /\ pc'[w] = "idle" /\ job'[w] = NoJob
      /\ \A v \in Worker \ {w} : pc'[v] = pc[v] /\ job'[v] = job[v]
  BY <1>0, <1>c DEF Types
<1>1. Apart'
  BY <1>0, <1>f DEF Apart, Reading, NoJob, Teardown
<1>2. Alive'
  BY <1>0, <1>c, <1>f DEF Alive
<1>3. Guess'
  BY <1>0, <1>c, <1>e, <1>f DEF Guess, Operating
<1>4. Filling'
  BY <1>0, <1>c, <1>f DEF Filling
<1>5. Gone'
  BY <1>0, <1>c, <1>d DEF Gone
<1>6. Dma'
  BY <1>0, <1>c DEF Dma
<1> QED
  BY <1>1, <1>2, <1>3, <1>4, <1>5, <1>6 DEF Staged

\* What is idle is freed while no operation runs.
LEMMA QuiesceStaged ==
  ASSUME Control, Account, Staged, Handles, NEW w \in Worker, Quiesce(w)
  PROVE  Staged'
<1>0. Types /\ Jobs /\ Locks /\ Fills /\ Apart /\ Alive /\ Guess /\ Filling /\ Gone /\ Dma
  BY DEF Staged, Control
<1>a. Nobody \notin Worker
  BY CopyAssumption DEF Worker, Nobody
<1>b. /\ pc[w] = "quiesce" /\ active = Nobody /\ UNCHANGED <<live, created, primary, job>>
      /\ pc' = [pc EXCEPT ![w] = "cuda"]
      /\ UNCHANGED buf \/ \E c \in Ctx \cup {NoCtx}, sick \in BOOLEAN : buf' = Retired(c, sick)
  <2>1. Target(w) \in Ctx \cup {NoCtx}
    BY <1>0 DEF Target, Types, Handles
  <2> QED
    BY <2>1 DEF Quiesce, Goto
<1>c. \A v \in Worker : pc[v] \notin Operating
  BY <1>0, <1>a, <1>b DEF Locks
<1>d. pc'[w] = "cuda" /\ \A v \in Worker \ {w} : pc'[v] = pc[v]
  BY <1>0, <1>b DEF Types
<1>e. ASSUME NEW b \in Buf
      PROVE  /\ \/ buf'[b].ctx = buf[b].ctx /\ buf'[b].mem = buf[b].mem
                \/ buf'[b].ctx = NoCtx /\ buf'[b].mem = "none"
             /\ buf'[b].busy => buf'[b].mem = "pinned" /\ buf'[b].st # "available"
  <2>1. CASE UNCHANGED buf
    BY <1>0, <2>1 DEF Dma
  <2>2. ASSUME NEW c, NEW sick, buf' = Retired(c, sick)
        PROVE  /\ \/ buf'[b].ctx = buf[b].ctx /\ buf'[b].mem = buf[b].mem
                  \/ buf'[b].ctx = NoCtx /\ buf'[b].mem = "none"
               /\ buf'[b].busy => buf'[b].mem = "pinned" /\ buf'[b].st # "available"
    <3>1. PICK g : g = Retired(c, sick)
      OBVIOUS
    <3>2. Tame(g) /\ buf' = g
      BY <2>2, <3>1, RetiredTame
    <3> QED
      BY <1>0, <3>2, TameDma DEF Tame, TameAt
  <2> QED
    BY <1>b, <2>1, <2>2
<1>1. Apart'
  BY <1>0, <1>b, <1>d DEF Apart, Reading
<1>2. Alive'
  BY <1>0, <1>b, <1>d DEF Alive
<1>3. Guess'
  BY <1>0, <1>b, <1>d, <1>e DEF Guess, Operating, NoCtx, Primary
<1>4. Filling'
  BY <1>c, <1>d DEF Filling, Operating
<1>5. Gone'
  BY <1>0, <1>b, <1>d, <1>e DEF Gone
<1>6. Dma'
  BY <1>e DEF Dma
<1> QED
  BY <1>1, <1>2, <1>3, <1>4, <1>5, <1>6 DEF Staged

\* A context ends: its memory is gone, and its call is about to forget it.
LEMMA CudaStaged ==
  ASSUME Control, Account, Staged, Handles, NEW w \in Worker, Cuda(w)
  PROVE  Staged'
<1>0. Types /\ Jobs /\ Locks /\ Fills /\ Apart /\ Alive /\ Guess /\ Filling /\ Gone /\ Dma
  BY DEF Staged, Control
<1>a. Nobody \notin Worker
  BY CopyAssumption DEF Worker, Nobody
<1>b. /\ pc[w] = "cuda" /\ UNCHANGED <<created, primary, job, fills>>
      /\ pc' = [pc EXCEPT ![w] = "finish"]
      /\ live' \in {live, live \ {job[w].ctx}}
  BY DEF Cuda, Goto, staging
<1>c. pc'[w] = "finish" /\ \A v \in Worker \ {w} : pc'[v] = pc[v]
  BY <1>0, <1>b DEF Types
<1>d. job[w].op \in Teardown
  BY <1>0, <1>b DEF Jobs, JobAt, Tearing
<1>e. \A v \in Worker : pc[v] \in Reading => job[v].ctx # job[w].ctx
  BY <1>0, <1>d DEF Apart
<1>f. ASSUME NEW b \in Buf
      PROVE  /\ buf'[b].st = buf[b].st /\ buf'[b].ctx = buf[b].ctx
             /\ \/ buf'[b] = buf[b]
                \/ /\ live' = live \ {job[w].ctx} /\ buf[b].ctx = job[w].ctx
                   /\ buf'[b].mem = "gone" /\ ~buf'[b].busy
  BY CudaForm
<1>1. Apart'
  BY <1>0, <1>b, <1>c DEF Apart, Reading
<1>2. Alive'
  BY <1>0, <1>b, <1>c, <1>e DEF Alive, Reading
<1>3. Guess'
  BY <1>0, <1>b, <1>c, <1>f DEF Guess, Operating
<1>4. Filling'
  <2>1. ASSUME NEW v \in Worker, pc'[v] = "fill"
        PROVE  buf'[fills].ctx = job[v].ctx /\ buf'[fills].mem = "pinned"
    <3>1. v # w /\ pc[v] = "fill" /\ fills \in Buf
      BY <1>0, <1>c, <2>1 DEF Fills
    <3>2. buf[fills].ctx = job[v].ctx /\ buf[fills].mem = "pinned" /\ job[v].ctx # job[w].ctx
      BY <1>0, <1>e, <3>1 DEF Filling, Reading
    <3> QED
      BY <1>f, <3>1, <3>2
  <2> QED
    BY <1>b, <2>1 DEF Filling
<1>5. Gone'
  BY <1>0, <1>b, <1>c, <1>f DEF Gone
<1>6. Dma'
  BY <1>0, <1>f DEF Dma
<1> QED
  BY <1>1, <1>2, <1>3, <1>4, <1>5, <1>6 DEF Staged

\* What is gone with its context is forgotten.
LEMMA FinishStaged ==
  ASSUME Control, Account, Staged, Handles, NEW w \in Worker, Finish(w)
  PROVE  Staged'
<1>0. Types /\ Jobs /\ Locks /\ Fills /\ Apart /\ Alive /\ Guess /\ Filling /\ Gone /\ Dma
  BY DEF Staged, Control
<1>a. Nobody \notin Worker
  BY CopyAssumption DEF Worker, Nobody
<1>b. PICK c : c = Target(w)
  OBVIOUS
<1>c. /\ pc[w] = "finish" /\ UNCHANGED <<live, fills, active>>
      /\ pc' = [pc EXCEPT ![w] = "idle"] /\ job' = [job EXCEPT ![w] = NoJob]
      /\ \/ c # NoCtx /\ active = Nobody /\ Forget(c)
         \/ (c = NoCtx \/ job[w].ctx \in live) /\ UNCHANGED <<buf, created, primary>>
  BY <1>b DEF Finish, Goto
<1>d. /\ pc'[w] = "idle" /\ job'[w] = NoJob
      /\ \A v \in Worker \ {w} : pc'[v] = pc[v] /\ job'[v] = job[v]
  BY <1>0, <1>c DEF Types
<1>e. \A v \in Worker : pc[v] = "finish" => v = w
  BY <1>0, <1>c DEF Locks
<1>f. /\ job[w].op \in Teardown /\ job[w].ctx \in Ctx
      /\ job[w].op \in OfPrimary => job[w].ctx = Primary /\ c = primary
      /\ job[w].op \notin OfPrimary => job[w].ctx = Created /\ c = Created
  BY <1>0, <1>b, <1>c DEF Jobs, JobAt, Tearing, Target, Ctx
<1>g. \A v \in Worker : pc[v] \in Reading => job[v].ctx # job[w].ctx
  BY <1>0, <1>f DEF Apart
<1>h. \A b \in Buf : buf[b].mem = "gone" => buf[b].ctx = job[w].ctx /\ c = job[w].ctx /\ c \notin live /\ c # NoCtx
  BY <1>0, <1>e, <1>f DEF Gone, Guess, Ctx, Primary, Created, NoCtx
<1>1. Apart'
  BY <1>0, <1>d DEF Apart, Reading, NoJob, Teardown
<1>i. CASE Forget(c) /\ active = Nobody
  <2>1. \A v \in Worker : pc[v] \notin Operating
    BY <1>0, <1>a, <1>i DEF Locks
  <2>2. /\ buf' = Forgotten(c) /\ created' = created \ {c}
        /\ primary' = IF primary = c THEN NoCtx ELSE primary
    BY <1>i DEF Forget
  <2>3. ASSUME NEW b \in Buf
        PROVE  buf'[b] = IF buf[b].ctx = c THEN Empty ELSE buf[b]
    BY <2>2 DEF Forgotten, OfCtx
  <2>4. ASSUME NEW v \in Worker, pc[v] \in Reading, job[v].ctx = Created
        PROVE  c # Created
    BY <1>0, <1>f, <1>g, <2>4 DEF Guess, Primary, Created, NoCtx
  <2>5. Alive'
    BY <1>0, <1>c, <1>d, <2>2, <2>4 DEF Alive, Reading
  <2>6. Guess'
    BY <1>0, <1>d, <2>1, <2>2, <2>3 DEF Guess, Empty, NoCtx, Primary, Operating
  <2>7. Filling'
    BY <1>d, <2>1 DEF Filling, Operating
  <2>8. Gone'
    BY <1>h, <2>3 DEF Gone, Empty
  <2>9. Dma'
    BY <1>0, <2>3 DEF Dma, Empty
  <2> QED
    BY <1>1, <2>5, <2>6, <2>7, <2>8, <2>9 DEF Staged
<1>j. CASE (c = NoCtx \/ job[w].ctx \in live) /\ UNCHANGED <<buf, created, primary>>
  <2>1. \A b \in Buf : buf[b].mem # "gone"
    BY <1>h, <1>j
  <2>2. Alive'
    BY <1>0, <1>c, <1>d, <1>j DEF Alive
  <2>3. Guess'
    BY <1>0, <1>d, <1>j DEF Guess, Operating
  <2>4. Filling'
    BY <1>0, <1>c, <1>d, <1>j DEF Filling
  <2>5. Gone' /\ Dma'
    BY <1>0, <1>j, <2>1 DEF Gone, Dma
  <2> QED
    BY <1>1, <2>2, <2>3, <2>4, <2>5 DEF Staged
<1> QED
  BY <1>c, <1>i, <1>j

\* The client, the transport, the GPU, and a lifecycle call that starts between copies.
LEMMA OtherStaged ==
  ASSUME Control, Account, Staged, Handles,
         \/ \E w \in Copier, op \in Copy \cap Calls, c \in Ctx : Issue(w, op, c)
         \/ \E w \in Manager, op \in Life \cap Calls : StartLife(w, op)
         \/ Receive \/ (\E b \in Buf : GpuDone(b)) \/ UNCHANGED vars
  PROVE  Staged'
<1>0. Types /\ Jobs /\ Locks /\ Fills /\ Apart /\ Alive /\ Guess /\ Filling /\ Gone /\ Dma
  BY DEF Staged, Control
<1>a. Nobody \notin Worker
  BY CopyAssumption DEF Worker, Nobody
<1>1. CASE UNCHANGED <<pc, job, fills, buf, live, created, primary>>
  BY <1>1, StillMemory
<1>2. ASSUME NEW w \in Manager, NEW op \in Life, StartLife(w, op)
      PROVE  Staged'
  <2>1. /\ turn = Nobody /\ pc[w] = "idle" /\ w \in Worker
        /\ job' = [job EXCEPT ![w] = [op |-> op, ctx |-> IF op \in OfPrimary THEN Primary ELSE Created]]
        /\ pc' = [pc EXCEPT ![w] = IF op \in Teardown THEN "mark" ELSE "make"]
        /\ UNCHANGED <<buf, live, created, primary>>
    BY <1>2 DEF StartLife, Goto, staging, Worker
  <2>2. \A v \in Worker : pc[v] \notin Reading
    BY <1>0, <1>a, <2>1 DEF Locks
  <2>3. pc'[w] \in {"mark", "make"} /\ \A v \in Worker \ {w} : pc'[v] = pc[v] /\ job'[v] = job[v]
    BY <1>0, <2>1 DEF Types
  <2>4. \A v \in Worker : pc'[v] \notin Reading
    BY <2>2, <2>3 DEF Reading
  <2>5. Apart' /\ Alive' /\ Filling'
    BY <2>4 DEF Apart, Alive, Filling, Reading
  <2>6. Guess'
    BY <1>0, <2>1, <2>4 DEF Guess, Operating, Reading
  <2>7. Gone' /\ Dma'
    BY <1>0, <2>1, <2>3 DEF Gone, Dma
  <2> QED
    BY <2>5, <2>6, <2>7 DEF Staged
<1>3. ASSUME NEW b \in Buf, GpuDone(b)
      PROVE  Staged'
  <2>1. UNCHANGED <<pc, job, fills, live, created, primary>>
    BY <1>3 DEF GpuDone
  <2>2. \A x \in Buf : /\ buf'[x].st = buf[x].st
                       /\ buf'[x].ctx = buf[x].ctx /\ buf'[x].mem = buf[x].mem
                       /\ (buf'[x].busy => buf[x].busy)
    BY <1>3, GpuDoneForm
  <2>3. Apart' /\ Alive'
    BY <1>0, <2>1 DEF Apart, Alive
  <2>4. Guess' /\ Filling'
    BY <1>0, <2>1, <2>2 DEF Guess, Filling, Fills
  <2>5. Gone' /\ Dma'
    BY <1>0, <2>1, <2>2 DEF Gone, Dma
  <2> QED
    BY <2>3, <2>4, <2>5 DEF Staged
<1> QED
  BY <1>1, <1>2, <1>3 DEF Issue, Receive, vars, stream, staging

\* What the server notes of contexts stays of its type, and a race is not forgotten.
LEMMA NextHandles ==
  ASSUME Control, Handles, [Next]_vars
  PROVE  Handles' /\ (~raced' => ~raced)
<1>0. Types /\ Jobs
  BY DEF Control
<1>1. ASSUME NEW w \in Worker, Step(w)
      PROVE  Handles' /\ (~raced' => ~raced)
  <2>1. CASE StartCopy(w)
    <3>1. UNCHANGED <<created, primary>> /\ raced' \in BOOLEAN /\ (raced => raced')
      BY <2>1 DEF StartCopy, staging, Handles
    <3> QED
      BY <3>1 DEF Handles
  <2>2. CASE Acquire(w)
    BY <1>0, <2>2 DEF Acquire, Handles, Jobs, JobAt, Reading
  <2>3. CASE TakeSlot(w) \/ TakeSpill(w) \/ Fill(w)
    BY <2>3 DEF TakeSlot, TakeSpill, Fill, Handles
  <2>4. CASE Drain(w) \/ CopySync(w) \/ ReadEnd(w) \/ Reply(w)
    BY <2>4 DEF Drain, CopySync, ReadEnd, Reply, staging, Handles
  <2>5. CASE Make(w)
    BY <1>0, <2>5 DEF Make, Handles, Jobs, JobAt, Ctx
  <2>6. CASE Mark(w) \/ Quiesce(w) \/ Cuda(w)
    BY <2>6 DEF Mark, Quiesce, Cuda, Handles
  <2>7. CASE Finish(w)
    BY <2>7 DEF Finish, Forget, Handles
  <2> QED
    BY <1>1, <2>1, <2>2, <2>3, <2>4, <2>5, <2>6, <2>7 DEF Step
<1>2. CASE UNCHANGED <<created, primary, raced>>
  BY <1>2 DEF Handles
<1> QED
  BY <1>1, <1>2 DEF Next, Issue, StartLife, Receive, GpuDone, vars, staging

\* Every step keeps the third layer.
LEMMA NextMemory ==
  ASSUME Control, Account, Memory, [Next]_vars
  PROVE  Memory'
<1>1. Handles' /\ (~raced' => ~raced)
  BY NextHandles DEF Memory
<1>2. ASSUME ~raced'
      PROVE  Staged'
  <2>1. Staged /\ Handles
    BY <1>1, <1>2 DEF Memory
  <2>2. ASSUME NEW w \in Worker, Step(w)
        PROVE  Staged'
    BY <1>2, <2>1, <2>2, QuietMemory, StartCopyMemory, AcquireMemory, TakeSlotStaged, TakeSpillStaged,
       FillStaged, MakeStaged, QuiesceStaged, CudaStaged, FinishStaged DEF Step
  <2> QED
    BY <2>1, <2>2, OtherStaged DEF Next
<1> QED
  BY <1>1, <1>2 DEF Memory

----------------------------------------------------------------------------
IInv == Control /\ Account /\ Memory

\* The three layers together are inductive.
LEMMA Inductive == Spec => []IInv
<1>1. Init => IInv
  BY InitControl, InitAccount, InitMemory DEF IInv
<1>2. IInv /\ [Next]_vars => IInv'
  <2> SUFFICES ASSUME Control, Account, Memory, [Next]_vars
               PROVE  IInv'
    BY DEF IInv
  <2>1. credit \in Nat
    BY DEF Account
  <2>2. Control'
    BY <2>1, StepControl, OtherControl DEF Next
  <2> QED
    BY <2>2, NextAccount, NextMemory DEF IInv
<1> QED
  BY <1>1, <1>2, PTL DEF Spec

\* Whatever becomes of a copy, its handler reads exactly its own payload, so the stream is
\* where the next request begins.
THEOREM CopyStreamInSync == Spec => []StreamInSync
<1>1. IInv => StreamInSync
  BY DEF IInv, Control
<1> QED
  BY <1>1, Inductive, PTL

\* No unit of the receive window is lost or credited twice: it is the client's credit, or
\* about to be, or the charge of one staging buffer, or held for the one being filled, and
\* at most half of it is held.
THEOREM WindowAccounted == Spec => []WindowConserved
<1>1. IInv => WindowConserved
  BY DEF IInv, Account
<1> QED
  BY <1>1, Inductive, PTL

\* While the application does not copy in a context that it tears down, memory under a DMA
\* is neither freed nor idle, and payload is read only into memory that is there.
THEOREM StagingMemorySafe == Spec => []StagingSafe
<1>1. IInv => StagingSafe
  <2> SUFFICES ASSUME Control, Memory
               PROVE  StagingSafe
    BY DEF IInv
  <2>1. CASE raced
    BY <2>1 DEF StagingSafe
  <2>2. CASE ~raced
    <3>1. Dma /\ Filling /\ Fills
      BY <2>2 DEF Memory, Staged, Control
    <3>2. fills # Nobody => buf[fills].mem = "pinned"
      BY <3>1 DEF Fills, Filling
    <3> QED
      BY <3>1, <3>2 DEF StagingSafe, Dma
  <2> QED
    BY <2>1, <2>2
<1> QED
  BY <1>1, Inductive, PTL

----------------------------------------------------------------------------
(* Nobody waits in a circle.                                               *)

\* Less than half of the window is credited and not announced, and whoever has the
\* operation is on its way to the end of it.
Flowing ==
  /\ 2 * consumed < Window
  /\ \A w \in Worker : active = w => pc[w] \in Operating \cup {"drain", "end", "reply"}

\* Nothing has happened yet.
LEMMA InitFlowing == Init => Flowing
BY CopyAssumption DEF Init, Flowing, Worker, Nobody

\* nghttp2_session_consume announces half a window at once.
LEMMA ConsumeHalves ==
  ASSUME NEW x, NEW n, Consume(x, n), consumed' \in Nat
  PROVE  2 * consumed' < Window
<1>1. Window \in Nat \ {0}
  BY CopyAssumption
<1>2. consumed' = 0 \/ ~(consumed' > 0 /\ 2 * consumed' >= Window)
  BY DEF Consume
<1>3. PICK k \in Nat : k = consumed'
  OBVIOUS
<1>4. k = 0 \/ ~(k > 0 /\ 2 * k >= Window)
  BY <1>2, <1>3
<1>5. 2 * k < Window
  BY <1>1, <1>4
<1> QED
  BY <1>3, <1>5

\* The operation, in a step of its holder or of another worker.
LEMMA ActiveMoves ==
  ASSUME Control, Flowing, NEW w \in Worker, NEW l, Goto(w, l),
         \/ UNCHANGED active /\ (active = w => l \in Operating \cup {"drain", "end", "reply"})
         \/ active' = Nobody
         \/ active' = w /\ l \in Operating
  PROVE  \A v \in Worker : active' = v => pc'[v] \in Operating \cup {"drain", "end", "reply"}
<1> SUFFICES ASSUME NEW v \in Worker, active' = v
             PROVE  pc'[v] \in Operating \cup {"drain", "end", "reply"}
  OBVIOUS
<1>1. v # Nobody
  BY CopyAssumption DEF Worker, Nobody
<1>2. pc'[v] = IF v = w THEN l ELSE pc[v]
  BY DEF Control, Types, Goto
<1> QED
  BY <1>1, <1>2 DEF Flowing

\* A worker that starts does not have the operation.
LEMMA IdleInactive ==
  ASSUME Control, Flowing, NEW w \in Worker,
         pc[w] \in {"idle", "acquire", "make", "mark", "quiesce", "cuda", "finish"}
  PROVE  active # w
BY DEF Flowing, Operating

\* The steps of a worker.
LEMMA StepFlowing ==
  ASSUME Control, Account, Flowing, consumed' \in Nat, NEW w \in Worker, Step(w)
  PROVE  Flowing'
<1>0. 2 * consumed < Window
  BY DEF Flowing
<1>1. CASE StartCopy(w)
  <2>1. PICK l : Goto(w, l)
    BY <1>1 DEF StartCopy
  <2>2. UNCHANGED <<active, consumed>> /\ active # w
    BY <1>1, IdleInactive DEF StartCopy, staging
  <2> QED
    BY <1>0, <2>1, <2>2, ActiveMoves DEF Flowing
<1>2. CASE Acquire(w)
  <2>0. UNCHANGED consumed /\ active # w
    BY <1>2, IdleInactive DEF Acquire, stream
  <2>1. CASE Goto(w, Refused) /\ UNCHANGED active
    BY <1>0, <2>0, <2>1, ActiveMoves DEF Flowing
  <2>2. CASE active' = w /\ Goto(w, IF job[w].op = "async" THEN "slot" ELSE "sync")
    <3>1. PICK l : l = IF job[w].op = "async" THEN "slot" ELSE "sync"
      OBVIOUS
    <3>2. l \in Operating
      BY <3>1 DEF Operating
    <3> QED
      BY <1>0, <2>0, <2>2, <3>1, <3>2, ActiveMoves DEF Flowing
  <2> QED
    BY <1>2, <2>1, <2>2 DEF Acquire
<1>3. CASE TakeSlot(w)
  <2>1. UNCHANGED active /\ Goto(w, "fill") /\ "fill" \in Operating
    BY <1>3 DEF TakeSlot, Operating
  <2>2. PICK n : Consume(0, n)
    BY <1>3 DEF TakeSlot, WindowRelease
  <2> QED
    BY <2>1, <2>2, ConsumeHalves, ActiveMoves DEF Flowing
<1>4. CASE TakeSpill(w)
  <2>1. UNCHANGED active /\ (Goto(w, "fill") \/ Goto(w, "drain")) /\ "fill" \in Operating
    BY <1>4 DEF TakeSpill, Operating
  <2>2. PICK n : Consume(0, n)
    BY <1>4 DEF TakeSpill, WindowRelease
  <2> QED
    BY <2>1, <2>2, ConsumeHalves, ActiveMoves DEF Flowing
<1>5. CASE Fill(w)
  <2>1. UNCHANGED active
    BY <1>5 DEF Fill
  <2>2. PICK l \in {"fill", "end", "slot", "drain"} : Goto(w, l)
    BY <1>5 DEF Fill
  <2>3. PICK n : Consume(0, n)
    BY <1>5 DEF Fill, WindowRelease
  <2>4. l \in Operating \cup {"drain", "end", "reply"}
    BY DEF Operating
  <2> QED
    BY <2>1, <2>2, <2>3, <2>4, ConsumeHalves, ActiveMoves DEF Flowing
<1>6. CASE Drain(w)
  <2>1. UNCHANGED <<active, consumed>>
    BY <1>6 DEF Drain, staging
  <2>2. Goto(w, "end") \/ UNCHANGED pc
    BY <1>6 DEF Drain
  <2>3. CASE UNCHANGED pc
    BY <2>1, <2>3 DEF Flowing
  <2>4. CASE Goto(w, "end")
    BY <1>0, <2>1, <2>4, ActiveMoves DEF Flowing
  <2> QED
    BY <2>2, <2>3, <2>4
<1>7. CASE CopySync(w)
  <2>1. UNCHANGED <<active, consumed>>
    BY <1>7 DEF CopySync, staging
  <2>2. PICK l \in {"end", "sync", "drain"} : Goto(w, l)
    BY <1>7 DEF CopySync
  <2>3. l \in Operating \cup {"drain", "end", "reply"}
    BY DEF Operating
  <2> QED
    BY <1>0, <2>1, <2>2, <2>3, ActiveMoves DEF Flowing
<1>8. CASE ReadEnd(w) \/ Reply(w)
  <2>1. UNCHANGED consumed
    BY <1>8 DEF ReadEnd, Reply, stream
  <2>2. CASE Goto(w, "idle") /\ active' = IF active = w THEN Nobody ELSE active
    BY <1>0, <2>1, <2>2, ActiveMoves DEF Flowing
  <2>3. CASE Goto(w, "reply") /\ UNCHANGED active
    BY <1>0, <2>1, <2>3, ActiveMoves DEF Flowing
  <2> QED
    BY <1>8, <2>2, <2>3 DEF ReadEnd, Reply
<1>9. CASE Make(w) \/ Mark(w) \/ Cuda(w)
  <2>1. UNCHANGED <<active, consumed>>
    <3>1. CASE Make(w) \/ Mark(w)
      BY <3>1 DEF Make, Mark, stream
    <3>2. CASE Cuda(w)
      BY <3>2, Zenon DEF Cuda, stream
    <3> QED
      BY <1>9, <3>1, <3>2
  <2>2. (Goto(w, "idle") \/ Goto(w, "quiesce") \/ Goto(w, "finish")) /\ pc[w] \in {"make", "mark", "cuda"}
    <3>1. CASE Make(w)
      BY <3>1 DEF Make
    <3>2. CASE Mark(w)
      BY <3>2 DEF Mark
    <3>3. CASE Cuda(w)
      <4>1. pc[w] = "cuda"
        BY <3>3, Zenon DEF Cuda
      <4>2. Goto(w, "finish")
        BY <3>3, Zenon DEF Cuda
      <4> QED
        BY <4>1, <4>2
    <3> QED
      BY <1>9, <3>1, <3>2, <3>3
  <2>3. active # w
    BY <2>2, IdleInactive
  <2> QED
    BY <1>0, <2>1, <2>2, <2>3, ActiveMoves DEF Flowing
<1>10. CASE Quiesce(w) \/ Finish(w)
  <2>1. UNCHANGED active /\ active # w
    BY <1>10, IdleInactive DEF Quiesce, Finish
  <2>2. PICK l : Goto(w, l)
    BY <1>10 DEF Quiesce, Finish
  <2>3. UNCHANGED consumed \/ \E n : Consume(0, n)
    BY <1>10 DEF Quiesce, Finish, Forget, WindowRelease
  <2> QED
    BY <1>0, <2>1, <2>2, <2>3, ConsumeHalves, ActiveMoves DEF Flowing
<1> QED
  BY <1>1, <1>2, <1>3, <1>4, <1>5, <1>6, <1>7, <1>8, <1>9, <1>10 DEF Step

\* Every step.
LEMMA NextFlowing ==
  ASSUME Control, Account, Flowing, Account', [Next]_vars
  PROVE  Flowing'
<1>0. consumed' \in Nat
  BY DEF Account
<1>1. ASSUME NEW w \in Worker, Step(w)
      PROVE  Flowing'
  BY <1>0, <1>1, StepFlowing
<1>2. ASSUME NEW w \in Copier, NEW op \in Copy \cap Calls, NEW c \in Ctx, Issue(w, op, c)
      PROVE  Flowing'
  BY <1>2 DEF Issue, staging, Flowing
<1>3. ASSUME NEW w \in Manager, NEW op \in Life \cap Calls, StartLife(w, op)
      PROVE  Flowing'
  <2>1. w \in Worker /\ pc[w] = "idle" /\ UNCHANGED <<active, consumed>>
    BY <1>3 DEF StartLife, Worker, staging, stream
  <2>2. PICK l : Goto(w, l)
    BY <1>3 DEF StartLife
  <2> QED
    BY <2>1, <2>2, IdleInactive, ActiveMoves DEF Flowing
<1>4. CASE Receive
  <2>1. PICK x, n : Consume(x, n)
    BY <1>4 DEF Receive
  <2>2. UNCHANGED <<active, pc>>
    BY <1>4 DEF Receive, staging
  <2> QED
    BY <1>0, <2>1, <2>2, ConsumeHalves DEF Flowing
<1>5. CASE UNCHANGED vars \/ \E b \in Buf : GpuDone(b)
  BY <1>5 DEF vars, GpuDone, stream, staging, Flowing
<1> QED
  BY <1>1, <1>2, <1>3, <1>4, <1>5 DEF Next

\* The window never closes: half of it may be held, less than half is on its way back.
LEMMA WindowOpen ==
  ASSUME Account, Flowing
  PROVE  credit > 0
<1>1. /\ credit \in Nat /\ consumed \in Nat /\ windowHeld \in Nat
      /\ windowHeld <= MaxHeld /\ credit + consumed + windowHeld = Window /\ 2 * consumed < Window
  BY DEF Account, WindowConserved, Flowing
<1>2. 2 * MaxHeld <= Window /\ MaxHeld \in Nat /\ Window \in Nat
  BY CopyAssumption DEF MaxHeld
<1> QED
  BY <1>1, <1>2

\* What the invariant says of a state in which nothing moves.
LEMMA NoCircle == Control /\ Account /\ Flowing => NoCircularWait
<1> SUFFICES ASSUME Control, Account, Flowing, ~ReceiveCanMove, \A w \in Worker : ~WorkerCanMove(w)
             PROVE  queue = <<>> /\ \A w \in Worker : pc[w] = "idle"
  BY DEF NoCircularWait
<1>0. Types /\ Locks /\ Lefts /\ StreamInSync
  BY DEF Control
<1>1. staged \in Nat /\ unread \in Nat /\ left \in Nat /\ Units \in Nat \ {0}
  BY <1>0, CopyAssumption DEF Types
<1>2. staged = 0 => unread = 0
  BY <1>1, WindowOpen DEF ReceiveCanMove
<1>3. staged = 0 => left = 0 /\ queue = <<>>
  BY <1>0, <1>1, <1>2 DEF StreamInSync
<1>4. \A w \in Worker : pc[w] \notin Operating \cup {"drain", "end", "reply"}
  <2> SUFFICES ASSUME NEW w \in Worker, pc[w] \in Operating \cup {"drain", "end", "reply"}
               PROVE  FALSE
    OBVIOUS
  <2>1. pc[w] \in {"fill", "sync"} => staged > 0
    BY <1>0, <1>1, <1>3 DEF Lefts
  <2>2. pc[w] = "drain" => left = 0 \/ staged > 0
    BY <1>1, <1>3
  <2> QED
    BY <2>1, <2>2 DEF Operating, WorkerCanMove
<1>5. active = Nobody
  BY <1>0, <1>4 DEF Flowing, Types
<1>6. \A w \in Worker : pc[w] \notin {"acquire", "quiesce", "cuda", "finish"}
  BY <1>5 DEF WorkerCanMove
<1>7. lifecycle = Nobody
  BY <1>0, <1>6 DEF Types, Locks
<1>8. \A w \in Worker : pc[w] \notin {"make", "mark"}
  BY <1>7 DEF WorkerCanMove
<1>9. \A w \in Worker : pc[w] = "idle"
  BY <1>0, <1>4, <1>6, <1>8 DEF Types, Label, Reading, Operating, Tearing
<1>10. queue = <<>>
  <2> SUFFICES ASSUME queue # <<>> PROVE FALSE
    OBVIOUS
  <2>1. staged > 0
    BY <1>1, <1>3
  <2>2. turn = Nobody
    BY <1>0, <1>9 DEF Types, Locks, Reading
  <2>3. PICK r \in Request : queue = <<r>>
    BY <1>0 DEF Types
  <2>4. Head(queue) = r /\ r.w \in Worker
    BY <2>3 DEF Request
  <2> QED
    BY <1>9, <2>1, <2>2, <2>4 DEF WorkerCanMove
<1> QED
  BY <1>9, <1>10

\* For any number of lanes, slots and spills, and though no copy in flight need ever
\* finish: copies and teardowns never all wait for each other (turn, staging operation,
\* lifecycle_mutex), nor for payload that the held window keeps from being sent.
THEOREM CallsNeverCircle == Spec => []NoCircularWait
<1>1. Init => Control /\ Account /\ Flowing
  BY InitControl, InitAccount, InitFlowing
<1>2. Control /\ Account /\ Flowing /\ [Next]_vars => (Control /\ Account /\ Flowing)'
  <2> SUFFICES ASSUME Control, Account, Flowing, [Next]_vars
               PROVE  Control' /\ Account' /\ Flowing'
    OBVIOUS
  <2>1. Control'
    <3>1. credit \in Nat
      BY DEF Account
    <3> QED
      BY <3>1, StepControl, OtherControl DEF Next
  <2>2. Account'
    BY NextAccount
  <2> QED
    BY <2>1, <2>2, NextFlowing
<1> QED
  BY <1>1, <1>2, NoCircle, PTL DEF Spec
=============================================================================
