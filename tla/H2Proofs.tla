------------------------------ MODULE H2Proofs ------------------------------
(***************************************************************************)
(* Proofs about the HTTP/2 transport, for every window, write size, socket *)
(* buffer and receive size: no window credit is lost or made up, and no    *)
(* writer sleeps through its wake-up.                                      *)
(*                                                                         *)
(* The first part is about Volume, which counts a sequence's frames of one *)
(* kind: what appending a frame and cutting the sequence do to it.         *)
(*                                                                         *)
(* The last part is about the threads that send into a full socket while   *)
(* they are in session_mutex: when nothing moves, both ends do, and with   *)
(* answers that the kernels can buffer they never both do.                 *)
(***************************************************************************)
EXTENDS H2, FiniteSetTheorems, TLAPS

\* A frame on the wire.  None announces more than the whole window.
Unit == [kind : {"data", "update"}, n : 1 .. Window]

\* The places of the frames of one kind, each as often as it counts.
Places(s, kind) == {p \in (DOMAIN s) \X (1 .. Window) : s[p[1]].kind = kind /\ p[2] <= s[p[1]].n}

\* Volume counts places.
LEMMA VolumeIsPlaces ==
  ASSUME NEW s \in Seq(Unit), NEW kind
  PROVE  /\ Volume(s, kind) = Cardinality(Places(s, kind))
         /\ IsFiniteSet(Places(s, kind))
         /\ Volume(s, kind) \in Nat
<1> DEFINE V == UNION {{i} \X (1 .. s[i].n) : i \in {j \in DOMAIN s : s[j].kind = kind}}
<1>1. V = Places(s, kind)
  <2>1. ASSUME NEW p \in V
        PROVE  p \in Places(s, kind)
    <3>1. PICK i \in DOMAIN s : s[i].kind = kind /\ p \in {i} \X (1 .. s[i].n)
      BY <2>1
    <3>2. s[i] \in Unit
      BY <3>1
    <3>3. s[i].n \in 1 .. Window
      BY <3>2 DEF Unit
    <3>4. Window \in Nat
      BY H2Assumption
    <3>5. p \in (DOMAIN s) \X (1 .. Window) /\ p[1] = i /\ p[2] <= s[i].n
      BY <3>1, <3>3, <3>4
    <3> QED
      BY <3>1, <3>5 DEF Places
  <2>2. ASSUME NEW p \in Places(s, kind)
        PROVE  p \in V
    <3>1. p \in (DOMAIN s) \X (1 .. Window) /\ s[p[1]].kind = kind /\ p[2] <= s[p[1]].n
      BY <2>2 DEF Places
    <3>2. s[p[1]] \in Unit
      BY <3>1
    <3>4. s[p[1]].n \in Nat
      BY <3>2, H2Assumption DEF Unit
    <3>3. p \in {p[1]} \X (1 .. s[p[1]].n)
      BY <3>1, <3>4, H2Assumption
    <3> QED
      BY <3>1, <3>3
  <2> QED
    BY <2>1, <2>2
<1>2. IsFiniteSet(Places(s, kind))
  <2>1. IsFiniteSet(DOMAIN s) /\ IsFiniteSet(1 .. Window)
    BY FS_Interval, H2Assumption
  <2>2. IsFiniteSet((DOMAIN s) \X (1 .. Window))
    BY <2>1, FS_Product
  <2> QED
    BY <2>2, FS_Subset DEF Places
<1>3. Volume(s, kind) = Cardinality(Places(s, kind))
  BY <1>1 DEF Volume
<1> QED
  BY <1>2, <1>3, FS_CardinalityType

\* Nothing is in an empty sequence.
LEMMA VolumeEmpty ==
  ASSUME NEW kind
  PROVE  Volume(<<>>, kind) = 0
<1>1. Places(<<>>, kind) = {}
  BY DEF Places
<1> QED
  <2>1. <<>> \in Seq(Unit)
    OBVIOUS
  <2> QED
    BY <1>1, <2>1, VolumeIsPlaces, FS_EmptySet

\* The frames of a sequence and one more.
LEMMA VolumeAppend ==
  ASSUME NEW s \in Seq(Unit), NEW u \in Unit, NEW kind
  PROVE  Volume(Append(s, u), kind) = Volume(s, kind) + (IF u.kind = kind THEN u.n ELSE 0)
<1> DEFINE l == Len(s) + 1
           new == IF u.kind = kind THEN {l} \X (1 .. u.n) ELSE {}
<1>1. Append(s, u) \in Seq(Unit) /\ DOMAIN Append(s, u) = (DOMAIN s) \cup {l}
      /\ l \notin DOMAIN s /\ Append(s, u)[l] = u
      /\ \A i \in DOMAIN s : Append(s, u)[i] = s[i]
  OBVIOUS
<1>2. u.n \in 1 .. Window /\ Window \in Nat
  BY H2Assumption DEF Unit
<1>3. Places(Append(s, u), kind) = Places(s, kind) \cup new
  <2>1. ASSUME NEW p \in Places(Append(s, u), kind)
        PROVE  p \in Places(s, kind) \cup new
    <3>1. p \in (DOMAIN Append(s, u)) \X (1 .. Window)
          /\ Append(s, u)[p[1]].kind = kind /\ p[2] <= Append(s, u)[p[1]].n
      BY <2>1 DEF Places
    <3>2. CASE p[1] \in DOMAIN s
      <4>1. p \in (DOMAIN s) \X (1 .. Window)
        BY <3>1, <3>2
      <4> QED
        BY <4>1, <3>1, <3>2, <1>1 DEF Places
    <3>3. CASE p[1] = l
      <4>1. u.kind = kind /\ p[2] <= u.n
        BY <3>1, <3>3, <1>1
      <4>2. p \in {l} \X (1 .. u.n)
        BY <3>1, <3>3, <4>1, <1>2
      <4> QED
        BY <4>1, <4>2
    <3> QED
      BY <3>1, <3>2, <3>3, <1>1
  <2>2. ASSUME NEW p \in Places(s, kind)
        PROVE  p \in Places(Append(s, u), kind)
    BY <2>2, <1>1 DEF Places
  <2>3. ASSUME NEW p \in new
        PROVE  p \in Places(Append(s, u), kind)
    <3>1. u.kind = kind /\ p \in {l} \X (1 .. u.n)
      BY <2>3
    <3>2. p \in (DOMAIN Append(s, u)) \X (1 .. Window) /\ p[1] = l /\ p[2] <= u.n
      BY <3>1, <1>1, <1>2
    <3> QED
      BY <3>1, <3>2, <1>1 DEF Places
  <2> QED
    BY <2>1, <2>2, <2>3
<1>4. IsFiniteSet(new) /\ Cardinality(new) = IF u.kind = kind THEN u.n ELSE 0
  <2>1. IsFiniteSet(1 .. u.n) /\ Cardinality(1 .. u.n) = u.n
    BY <1>2, FS_Interval
  <2>2. IsFiniteSet({l}) /\ Cardinality({l}) = 1
    BY FS_Singleton
  <2>3. IsFiniteSet({l} \X (1 .. u.n)) /\ Cardinality({l} \X (1 .. u.n)) = 1 * u.n
    BY <2>1, <2>2, FS_Product
  <2> QED
    BY <2>3, <1>2, FS_EmptySet
<1>5. Places(s, kind) \cap new = {}
  BY <1>1 DEF Places
<1> HIDE DEF new
<1>6. Cardinality(Places(s, kind) \cup new)
        = Cardinality(Places(s, kind)) + Cardinality(new) - Cardinality({})
  BY <1>4, <1>5, VolumeIsPlaces, FS_Union
<1>7. Volume(Append(s, u), kind) = Cardinality(Places(Append(s, u), kind))
      /\ Volume(s, kind) = Cardinality(Places(s, kind)) /\ Volume(s, kind) \in Nat
  BY <1>1, VolumeIsPlaces
<1> QED
  BY <1>2, <1>3, <1>4, <1>6, <1>7, FS_EmptySet

\* A sequence cut in two keeps its frames.
LEMMA VolumeCut ==
  ASSUME NEW s \in Seq(Unit), NEW n \in 1 .. Len(s), NEW kind
  PROVE  /\ SubSeq(s, 1, n) \in Seq(Unit) /\ SubSeq(s, n + 1, Len(s)) \in Seq(Unit)
         /\ Volume(s, kind) = Volume(SubSeq(s, 1, n), kind) + Volume(SubSeq(s, n + 1, Len(s)), kind)
<1> DEFINE a == SubSeq(s, 1, n)
           b == SubSeq(s, n + 1, Len(s))
           late == {p \in Places(s, kind) : p[1] > n}
<1>1. /\ a \in Seq(Unit) /\ DOMAIN a = 1 .. n /\ \A i \in 1 .. n : a[i] = s[i]
      /\ b \in Seq(Unit) /\ DOMAIN b = 1 .. Len(s) - n
      /\ \A i \in 1 .. Len(s) - n : b[i] = s[i + n]
      /\ DOMAIN s = 1 .. Len(s) /\ Len(s) \in Nat /\ n \in Nat
  OBVIOUS
<1> HIDE DEF a, b
<1>2. Places(s, kind) = Places(a, kind) \cup late
  BY <1>1 DEF Places
<1>3. Places(a, kind) \cap late = {}
  BY <1>1 DEF Places
<1>4. IsFiniteSet(late)
  BY VolumeIsPlaces, FS_Subset
<1>5. Cardinality(late) = Cardinality(Places(b, kind))
  <2> DEFINE f == [p \in Places(b, kind) |-> <<p[1] + n, p[2]>>]
  <2>1. ASSUME NEW p \in Places(b, kind)
        PROVE  f[p] \in late
    <3>1. p[1] \in 1 .. Len(s) - n /\ p[2] \in 1 .. Window /\ b[p[1]].kind = kind /\ p[2] <= b[p[1]].n
      BY <2>1, <1>1 DEF Places
    <3>2. p[1] + n \in DOMAIN s /\ p[1] + n > n /\ b[p[1]] = s[p[1] + n]
      BY <3>1, <1>1
    <3> QED
      BY <3>1, <3>2 DEF Places
  <2>2. ASSUME NEW p \in Places(b, kind), NEW q \in Places(b, kind), f[p] = f[q]
        PROVE  p = q
    <3>1. p \in Nat \X Nat /\ q \in Nat \X Nat
      BY <1>1, H2Assumption DEF Places
    <3>2. p[1] + n = q[1] + n /\ p[2] = q[2]
      BY <2>2
    <3>3. p[1] = q[1]
      BY <3>1, <3>2, <1>1
    <3>4. p = <<p[1], p[2]>> /\ q = <<q[1], q[2]>>
      BY <3>1
    <3> QED
      BY <3>2, <3>3, <3>4
  <2>3. ASSUME NEW q \in late
        PROVE  \E p \in Places(b, kind) : f[p] = q
    <3>1. q \in (1 .. Len(s)) \X (1 .. Window) /\ q[1] > n /\ s[q[1]].kind = kind /\ q[2] <= s[q[1]].n
      BY <2>3, <1>1 DEF Places
    <3>2. q[1] - n \in 1 .. Len(s) - n /\ (q[1] - n) + n = q[1]
      BY <3>1, <1>1
    <3>3. <<q[1] - n, q[2]>> \in Places(b, kind)
      BY <3>1, <3>2, <1>1 DEF Places
    <3>4. f[<<q[1] - n, q[2]>>] = q
      BY <3>1, <3>2, <3>3
    <3> QED
      BY <3>3, <3>4
  <2>4. f \in Bijection(Places(b, kind), late)
    BY <2>1, <2>2, <2>3 DEF Bijection, Injection, Surjection, IsInjective
  <2>5. IsFiniteSet(Places(b, kind))
    BY <1>1, VolumeIsPlaces
  <2> QED
    BY <2>4, <2>5, FS_Bijection DEF ExistsBijection
<1> HIDE DEF late
<1>6. Cardinality(Places(a, kind) \cup late)
        = Cardinality(Places(a, kind)) + Cardinality(late) - Cardinality({})
  BY <1>1, <1>3, <1>4, VolumeIsPlaces, FS_Union
<1>7. /\ Volume(s, kind) = Cardinality(Places(s, kind))
      /\ Volume(a, kind) = Cardinality(Places(a, kind)) /\ Volume(a, kind) \in Nat
      /\ Volume(b, kind) = Cardinality(Places(b, kind)) /\ Volume(b, kind) \in Nat
  BY <1>1, VolumeIsPlaces
<1>8. Volume(s, kind) = Volume(a, kind) + Volume(b, kind)
  BY <1>2, <1>5, <1>6, <1>7, FS_EmptySet
<1> QED
  BY <1>1, <1>8 DEF a, b

----------------------------------------------------------------------------
(* The inductive invariant.                                                *)

Types ==
  /\ holder \in [End -> {"free", "writer", "reader"}]
  /\ sock \in [End -> Seq(Unit)] /\ buffer \in [End -> Seq(Unit)]
  /\ broken \in BOOLEAN /\ failed \in [End -> BOOLEAN]
  /\ src \in [End -> Nat] /\ before \in [End -> Nat]
  /\ credit \in Nat /\ consumed \in Nat /\ update \in Nat
  /\ wpc \in [End -> {"idle", "lock", "flush", "wait", "woken"}]
  /\ rpc \in [End -> {"recv", "lock", "flush", "ended"}]

\* A thread flushes in session_mutex, and nobody else is in there.
Locked ==
  \A e \in End : /\ holder[e] = "writer" <=> wpc[e] = "flush"
                 /\ holder[e] = "reader" <=> rpc[e] = "flush"

\* What was received has been processed before more is.
Drained == \A e \in End : rpc[e] # "lock" => buffer[e] = <<>>

IInv == Types /\ CreditConserved /\ Locked /\ Drained /\ AsleepForAReason

\* A connection after its handshake.
LEMMA InitIInv == Init => IInv
<1> SUFFICES ASSUME Init PROVE IInv
  OBVIOUS
<1>1. Types
  <2>1. <<>> \in Seq(Unit)
    OBVIOUS
  <2> QED
    BY <2>1, H2Assumption DEF Init, Types
<1>2. CreditConserved
  BY VolumeEmpty, H2Assumption DEF Init, CreditConserved, DataIn, OpenedBy, End
<1>3. Locked /\ Drained /\ AsleepForAReason
  BY DEF Init, Locked, Drained, AsleepForAReason
<1> QED
  BY <1>1, <1>2, <1>3 DEF IInv

\* What the counts are, and that no announcement exceeds the window.
LEMMA Counts ==
  ASSUME IInv
  PROVE  /\ DataIn(sock["client"]) \in Nat /\ DataIn(buffer["server"]) \in Nat
         /\ OpenedBy(sock["server"]) \in Nat /\ OpenedBy(buffer["client"]) \in Nat
         /\ credit \in Nat /\ consumed \in Nat /\ update \in Nat /\ Window \in Nat
         /\ update <= Window
<1>1. /\ sock["client"] \in Seq(Unit) /\ buffer["server"] \in Seq(Unit)
      /\ sock["server"] \in Seq(Unit) /\ buffer["client"] \in Seq(Unit)
      /\ credit \in Nat /\ consumed \in Nat /\ update \in Nat /\ Window \in Nat
  BY H2Assumption DEF IInv, Types, End
<1>2. /\ DataIn(sock["client"]) \in Nat /\ DataIn(buffer["server"]) \in Nat
      /\ OpenedBy(sock["server"]) \in Nat /\ OpenedBy(buffer["client"]) \in Nat
  BY <1>1, VolumeIsPlaces DEF DataIn, OpenedBy
<1> QED
  BY <1>1, <1>2 DEF IInv, CreditConserved

\* h2_write_all: what leaves the session is in the socket.
LEMMA SendUnitKeeps ==
  ASSUME IInv, NEW e \in End, CanSend(e), SendUnit(e), UNCHANGED <<consumed, buffer>>
  PROVE  /\ sock' \in [End -> Seq(Unit)] /\ src' \in [End -> Nat]
         /\ credit' \in Nat /\ update' \in Nat
         /\ CreditConserved'
         /\ \A x \in End : HasData(x)' => HasData(x)
<1>0. Types
  BY DEF IInv
<1>1. sock[e] \in Seq(Unit) /\ src[e] \in Nat
  BY <1>0 DEF Types
<1>2. PICK c \in Nat : c = OpenedBy(buffer["client"])
  BY Counts
<1>3. PICK d \in Nat : d = DataIn(buffer["server"])
  BY Counts
<1>4. OpenedBy(buffer["client"])' = c /\ DataIn(buffer["server"])' = d
  BY <1>2, <1>3 DEF OpenedBy, DataIn
<1>5. CASE HasUpdate(e)
  <2>1. e = "server" /\ update > 0
    BY <1>5 DEF HasUpdate
  <2>2. sock' = [sock EXCEPT ![e] = Append(@, Update(update))] /\ update' = 0
        /\ UNCHANGED <<src, credit>>
    BY <1>5 DEF SendUnit
  <2>3. Update(update) \in Unit /\ Update(update).kind = "update" /\ Update(update).n = update
    BY <2>1, Counts DEF Update, Unit
  <2>4. Append(sock[e], Update(update)) \in Seq(Unit)
    BY <1>1, <2>3
  <2>5. sock' \in [End -> Seq(Unit)] /\ sock'["client"] = sock["client"]
        /\ sock'["server"] = Append(sock["server"], Update(update))
    BY <1>0, <2>1, <2>2, <2>4 DEF Types, End
  <2>6. OpenedBy(sock'["server"]) = OpenedBy(sock["server"]) + update
    BY <1>1, <2>1, <2>3, <2>5, VolumeAppend DEF OpenedBy
  <2>7. DataIn(sock'["client"]) = DataIn(sock["client"])
    BY <2>5
  <2>8. CreditConserved'
    BY <1>2, <1>3, <1>4, <2>2, <2>6, <2>7, Counts DEF CreditConserved, IInv
  <2> QED
    BY <1>0, <2>2, <2>5, <2>8 DEF HasData, Types
<1>6. CASE ~HasUpdate(e)
  <2>1. HasData(e)
    BY <1>6 DEF CanSend
  <2>2. /\ sock' = [sock EXCEPT ![e] = Append(@, Data)]
        /\ src' = [src EXCEPT ![e] = @ - 1]
        /\ credit' = IF e = "client" THEN credit - 1 ELSE credit
        /\ UNCHANGED update
    BY <1>6 DEF SendUnit
  <2>3. Data \in Unit /\ Data.kind = "data" /\ Data.n = 1
    BY H2Assumption DEF Data, Unit
  <2>4. Append(sock[e], Data) \in Seq(Unit)
    BY <1>1, <2>3
  <2>5. sock' \in [End -> Seq(Unit)]
    BY <1>0, <2>2, <2>4 DEF Types
  <2>6. src[e] - 1 \in Nat /\ src' \in [End -> Nat]
    BY <1>0, <1>1, <2>1, <2>2 DEF Types, HasData
  <2>7. credit' \in Nat
    BY <1>0, <2>1, <2>2 DEF Types, HasData
  <2>8. ASSUME e = "client" PROVE CreditConserved'
    <3>1. sock'["client"] = Append(sock["client"], Data) /\ sock'["server"] = sock["server"]
      BY <1>0, <2>2, <2>8 DEF Types, End
    <3>2. DataIn(sock'["client"]) = DataIn(sock["client"]) + 1
      BY <1>1, <2>3, <2>8, <3>1, VolumeAppend DEF DataIn
    <3>3. OpenedBy(sock'["server"]) = OpenedBy(sock["server"])
      BY <3>1
    <3>4. credit' = credit - 1 /\ credit > 0
      BY <2>1, <2>2, <2>8 DEF HasData
    <3>5. credit' + DataIn(sock'["client"]) = credit + DataIn(sock["client"])
      BY <3>2, <3>4, Counts
    <3>6. credit' + DataIn(sock'["client"]) + d + consumed' + update' + OpenedBy(sock'["server"]) + c
            = credit + DataIn(sock["client"]) + d + consumed + update + OpenedBy(sock["server"]) + c
      BY <2>2, <3>3, <3>5
    <3> QED
      BY <1>2, <1>3, <1>4, <3>6 DEF CreditConserved, IInv
  <2>9. ASSUME e = "server" PROVE CreditConserved'
    <3>1. sock'["server"] = Append(sock["server"], Data) /\ sock'["client"] = sock["client"]
      BY <1>0, <2>2, <2>9 DEF Types, End
    <3>2. OpenedBy(sock'["server"]) = OpenedBy(sock["server"]) + 0
      BY <1>1, <2>3, <2>9, <3>1, VolumeAppend DEF OpenedBy
    <3>3. DataIn(sock'["client"]) = DataIn(sock["client"])
      BY <3>1
    <3>4. credit' = credit
      BY <2>2, <2>9
    <3> QED
      BY <1>2, <1>3, <1>4, <2>2, <3>2, <3>3, <3>4, Counts DEF CreditConserved, IInv
  <2>10. ASSUME NEW x \in End, HasData(x)'
         PROVE  HasData(x)
    <3>1. src'[x] > 0 /\ src[x] \in Nat
      BY <1>0, <2>10 DEF HasData, Types
    <3>2. src[x] > 0
      BY <1>0, <1>1, <2>2, <3>1 DEF Types
    <3>3. x = "client" => credit' > 0
      BY <2>10 DEF HasData
    <3>4. credit \in Nat /\ credit' <= credit
      BY <1>0, <2>2 DEF Types
    <3>5. x = "client" => credit > 0
      BY <2>7, <3>3, <3>4
    <3> QED
      BY <3>2, <3>5 DEF HasData
  <2>11. CreditConserved'
    BY <2>8, <2>9 DEF End
  <2> QED
    BY <1>0, <2>2, <2>5, <2>6, <2>7, <2>10, <2>11 DEF Types
<1> QED
  BY <1>5, <1>6

\* nghttp2_session_consume keeps the sum of what is credited and what is queued.
LEMMA CreditKeeps ==
  ASSUME NEW n \in Nat, consumed \in Nat, update \in Nat, Credit(n)
  PROVE  /\ consumed' \in Nat /\ update' \in Nat
         /\ consumed' + update' = consumed + update + n
  BY DEF Credit

----------------------------------------------------------------------------
(* Every step keeps the invariant.                                         *)

\* The steps of the writing thread.
LEMMA WriterKeeps ==
  ASSUME IInv, NEW e \in End, WriteStart(e) \/ Writer(e)
  PROVE  IInv'
<1>0. Types /\ CreditConserved /\ Locked /\ Drained /\ AsleepForAReason
  BY DEF IInv
<1>1. CASE WriteStart(e)
  <2>1. Types'
    BY <1>0, <1>1 DEF WriteStart, Types
  <2>2. CreditConserved'
    BY <1>0, <1>1 DEF WriteStart, CreditConserved, DataIn, OpenedBy
  <2>3. Locked' /\ AsleepForAReason'
    BY <1>0, <1>1 DEF WriteStart, Types, Locked, AsleepForAReason, HasData
  <2>9. Drained'
    BY <1>0, <1>1 DEF WriteStart, Types, Drained
  <2> QED
    BY <2>1, <2>2, <2>3, <2>9 DEF IInv
<1>2. CASE Submit(e)
  <2>1. Types'
    BY <1>0, <1>2, H2Assumption DEF Submit, Types
  <2>2. CreditConserved'
    BY <1>0, <1>2 DEF Submit, CreditConserved, DataIn, OpenedBy
  <2>3. Locked'
    BY <1>0, <1>2 DEF Submit, Types, Locked
  <2>4. AsleepForAReason'
    BY <1>0, <1>2 DEF Submit, Types, AsleepForAReason, HasData
  <2>9. Drained'
    BY <1>0, <1>2 DEF Submit, Types, Drained
  <2> QED
    BY <2>1, <2>2, <2>3, <2>4, <2>9 DEF IInv
<1>3. CASE WriterSends(e)
  <2>1. CanSend(e) /\ SendUnit(e) /\ UNCHANGED <<holder, broken, consumed, failed, wpc, before, rpc, buffer>>
    BY <1>3 DEF WriterSends
  <2>2. Types' /\ CreditConserved'
    BY <1>0, <2>1, SendUnitKeeps DEF Types
  <2>3. Locked'
    BY <1>0, <2>1 DEF Locked
  <2>4. AsleepForAReason'
    <3>1. \A x \in End : HasData(x)' => HasData(x)
      BY <2>1, SendUnitKeeps
    <3> QED
      BY <1>0, <2>1, <3>1 DEF AsleepForAReason
  <2>9. Drained'
    BY <1>0, <1>3 DEF WriterSends, Types, Drained
  <2> QED
    BY <2>2, <2>3, <2>4, <2>9 DEF IInv
<1>4. CASE WriterFlushed(e)
  <2>0. UNCHANGED <<sock, broken, src, credit, consumed, update, failed, rpc, buffer>> /\ wpc[e] = "flush"
    BY <1>4 DEF WriterFlushed
  <2>1. Types'
    BY <1>0, <1>4 DEF WriterFlushed, WriteReturns, Types
  <2>2. CreditConserved'
    BY <1>0, <2>0 DEF CreditConserved, DataIn, OpenedBy
  <2>3. Locked'
    BY <1>0, <1>4 DEF WriterFlushed, WriteReturns, Types, Locked
  <2>4. AsleepForAReason'
    <3>1. HasData(e) => CanSend(e)
      BY DEF CanSend
    <3>2. wpc'[e] = "wait" => ~HasData(e)
      BY <1>0, <1>4, <3>1 DEF WriterFlushed, WriteReturns, Types
    <3>3. \A x \in End : HasData(x)' <=> HasData(x)
      BY <2>0 DEF HasData
    <3>4. \A x \in End \ {e} : wpc'[x] = wpc[x] /\ holder'[x] = holder[x]
      BY <1>0, <1>4 DEF WriterFlushed, WriteReturns, Types
    <3> QED
      BY <1>0, <3>2, <3>3, <3>4 DEF AsleepForAReason
  <2>9. Drained'
    BY <1>0, <1>4 DEF WriterFlushed, Types, Drained
  <2> QED
    BY <2>1, <2>2, <2>3, <2>4, <2>9 DEF IInv
<1>5. CASE WriterWakes(e)
  <2>1. Types'
    BY <1>0, <1>5 DEF WriterWakes, WriteReturns, Types
  <2>2. CreditConserved'
    BY <1>0, <1>5 DEF WriterWakes, CreditConserved, DataIn, OpenedBy
  <2>3. Locked'
    BY <1>0, <1>5 DEF WriterWakes, WriteReturns, Types, Locked
  <2>4. AsleepForAReason'
    BY <1>0, <1>5 DEF WriterWakes, WriteReturns, Types, AsleepForAReason, HasData
  <2>9. Drained'
    BY <1>0, <1>5 DEF WriterWakes, Types, Drained
  <2> QED
    BY <2>1, <2>2, <2>3, <2>4, <2>9 DEF IInv
<1> QED
  BY <1>1, <1>2, <1>3, <1>4, <1>5 DEF Writer

\* The steps of the reading thread.
LEMMA ReaderKeeps ==
  ASSUME IInv, NEW e \in End, Reader(e)
  PROVE  IInv'
<1>0. Types /\ CreditConserved /\ Locked /\ Drained /\ AsleepForAReason
  BY DEF IInv
<1>1. CASE Recv(e)
  <2>0. PICK s \in Seq(Unit) : s = sock[Peer(e)]
    BY <1>0 DEF Types, Peer, End
  <2>1. PICK n \in 1 .. Len(s) :
          /\ buffer' = [buffer EXCEPT ![e] = SubSeq(s, 1, n)]
          /\ sock' = [sock EXCEPT ![Peer(e)] = SubSeq(s, n + 1, Len(s))]
    BY <1>1, <2>0 DEF Recv
  <2>2. UNCHANGED <<holder, broken, src, credit, consumed, update, failed, wpc, before>>
        /\ rpc[e] = "recv" /\ rpc' = [rpc EXCEPT ![e] = "lock"]
    BY <1>1 DEF Recv
  <2>3. SubSeq(s, 1, n) \in Seq(Unit) /\ SubSeq(s, n + 1, Len(s)) \in Seq(Unit)
    BY <2>0, <2>1, VolumeCut
  <2>4. Types'
    BY <1>0, <2>1, <2>2, <2>3 DEF Types
  <2>5. Locked'
    BY <1>0, <2>2 DEF Locked, Types
  <2>6. AsleepForAReason'
    BY <1>0, <2>2 DEF AsleepForAReason, HasData
  <2>7. CreditConserved'
    <3>1. CASE e = "client"
      <4>1. /\ sock'["client"] = sock["client"] /\ sock'["server"] = SubSeq(s, n + 1, Len(s))
            /\ buffer'["server"] = buffer["server"] /\ buffer'["client"] = SubSeq(s, 1, n)
            /\ s = sock["server"]
        BY <1>0, <2>0, <2>1, <3>1 DEF Types, Peer, End
      <4>2. OpenedBy(sock["server"]) = OpenedBy(buffer'["client"]) + OpenedBy(sock'["server"])
            /\ OpenedBy(buffer'["client"]) \in Nat /\ OpenedBy(sock'["server"]) \in Nat
        <5>1. Volume(s, "update") = Volume(SubSeq(s, 1, n), "update") + Volume(SubSeq(s, n + 1, Len(s)), "update")
          BY VolumeCut
        <5>2. Volume(SubSeq(s, 1, n), "update") \in Nat /\ Volume(SubSeq(s, n + 1, Len(s)), "update") \in Nat
          BY <2>3, VolumeIsPlaces
        <5> QED
          BY <4>1, <5>1, <5>2 DEF OpenedBy
      <4>3. OpenedBy(buffer["client"]) = 0
        BY <1>0, <2>2, <3>1, VolumeEmpty DEF OpenedBy, Drained
      <4>4. DataIn(sock'["client"]) = DataIn(sock["client"])
            /\ DataIn(buffer'["server"]) = DataIn(buffer["server"])
        BY <4>1
      <4> QED
        BY <1>0, <2>2, <4>2, <4>3, <4>4, Counts DEF CreditConserved
    <3>2. CASE e = "server"
      <4>1. /\ sock'["server"] = sock["server"] /\ sock'["client"] = SubSeq(s, n + 1, Len(s))
            /\ buffer'["client"] = buffer["client"] /\ buffer'["server"] = SubSeq(s, 1, n)
            /\ s = sock["client"]
        BY <1>0, <2>0, <2>1, <3>2 DEF Types, Peer, End
      <4>2. DataIn(sock["client"]) = DataIn(buffer'["server"]) + DataIn(sock'["client"])
            /\ DataIn(buffer'["server"]) \in Nat /\ DataIn(sock'["client"]) \in Nat
        <5>1. Volume(s, "data") = Volume(SubSeq(s, 1, n), "data") + Volume(SubSeq(s, n + 1, Len(s)), "data")
          BY VolumeCut
        <5>2. Volume(SubSeq(s, 1, n), "data") \in Nat /\ Volume(SubSeq(s, n + 1, Len(s)), "data") \in Nat
          BY <2>3, VolumeIsPlaces
        <5> QED
          BY <4>1, <5>1, <5>2 DEF DataIn
      <4>3. DataIn(buffer["server"]) = 0
        BY <1>0, <2>2, <3>2, VolumeEmpty DEF DataIn, Drained
      <4>4. OpenedBy(sock'["server"]) = OpenedBy(sock["server"])
            /\ OpenedBy(buffer'["client"]) = OpenedBy(buffer["client"])
        BY <4>1
      <4> QED
        BY <1>0, <2>2, <4>2, <4>3, <4>4, Counts DEF CreditConserved
    <3> QED
      BY <3>1, <3>2 DEF End
  <2>9. Drained'
    BY <1>0, <1>1 DEF Recv, Types, Drained
  <2> QED
    BY <2>4, <2>5, <2>6, <2>7, <2>9 DEF IInv
<1>2. CASE RecvFails(e)
  <2>1. Types'
    BY <1>0, <1>2 DEF RecvFails, Broadcast, Types
  <2>2. CreditConserved'
    BY <1>0, <1>2 DEF RecvFails, CreditConserved, DataIn, OpenedBy
  <2>3. Locked'
    BY <1>0, <1>2 DEF RecvFails, Broadcast, Types, Locked
  <2>4. AsleepForAReason'
    BY <1>0, <1>2 DEF RecvFails, Broadcast, Types, AsleepForAReason, HasData
  <2>9. Drained'
    BY <1>0, <1>2 DEF RecvFails, Types, Drained
  <2> QED
    BY <2>1, <2>2, <2>3, <2>4, <2>9 DEF IInv
<1>3. CASE MemRecv(e)
  <2>0. /\ UNCHANGED <<sock, broken, src, failed, wpc, before>>
        /\ holder[e] = "free" /\ holder' = [holder EXCEPT ![e] = "reader"]
        /\ rpc' = [rpc EXCEPT ![e] = "flush"] /\ buffer' = [buffer EXCEPT ![e] = <<>>]
    BY <1>3 DEF MemRecv
  <2>1. Locked'
    BY <1>0, <2>0 DEF Locked, Types
  <2>2. AsleepForAReason'
    <3>1. e # "client" => UNCHANGED credit
      BY <1>3 DEF MemRecv
    <3>2. ASSUME NEW x \in End, x # e
          PROVE  HasData(x)' => HasData(x)
      BY <2>0, <3>1, <3>2 DEF HasData
    <3> QED
      BY <1>0, <2>0, <3>2 DEF AsleepForAReason, Types
  <2>3. credit' \in Nat /\ consumed' \in Nat /\ update' \in Nat /\ CreditConserved'
    <3>0. /\ DataIn(sock'["client"]) = DataIn(sock["client"])
          /\ OpenedBy(sock'["server"]) = OpenedBy(sock["server"])
      BY <2>0
    <3>1. CASE e = "client"
      <4>1. credit' = credit + OpenedBy(buffer["client"]) /\ UNCHANGED <<consumed, update>>
        BY <1>3, <3>1 DEF MemRecv
      <4>2. buffer'["client"] = <<>> /\ buffer'["server"] = buffer["server"]
        BY <1>0, <2>0, <3>1 DEF Types, End
      <4>3. OpenedBy(buffer'["client"]) = 0 /\ DataIn(buffer'["server"]) = DataIn(buffer["server"])
        BY <4>2, VolumeEmpty DEF OpenedBy
      <4> QED
        BY <1>0, <3>0, <4>1, <4>3, Counts DEF CreditConserved
    <3>2. CASE e = "server"
      <4>1. Credit(DataIn(buffer["server"])) /\ UNCHANGED credit
        BY <1>3, <3>2 DEF MemRecv
      <4>2. buffer'["server"] = <<>> /\ buffer'["client"] = buffer["client"]
        BY <1>0, <2>0, <3>2 DEF Types, End
      <4>3. DataIn(buffer'["server"]) = 0 /\ OpenedBy(buffer'["client"]) = OpenedBy(buffer["client"])
        BY <4>2, VolumeEmpty DEF DataIn
      <4>4. /\ consumed' \in Nat /\ update' \in Nat
            /\ consumed' + update' = consumed + update + DataIn(buffer["server"])
        BY <4>1, Counts, CreditKeeps
      <4> QED
        BY <1>0, <3>0, <4>1, <4>3, <4>4, Counts DEF CreditConserved
    <3> QED
      BY <3>1, <3>2 DEF End
  <2>4. Types'
    <3>1. <<>> \in Seq(Unit)
      OBVIOUS
    <3> QED
      BY <1>0, <2>0, <2>3, <3>1 DEF Types
  <2>9. Drained'
    BY <1>0, <1>3 DEF MemRecv, Types, Drained
  <2> QED
    BY <2>1, <2>2, <2>3, <2>4, <2>9 DEF IInv
<1>4. CASE ReaderSends(e)
  <2>1. CanSend(e) /\ SendUnit(e) /\ UNCHANGED <<holder, broken, consumed, failed, wpc, before, rpc, buffer>>
    BY <1>4 DEF ReaderSends
  <2>2. Types' /\ CreditConserved'
    BY <1>0, <2>1, SendUnitKeeps DEF Types
  <2>3. Locked'
    BY <1>0, <2>1 DEF Locked
  <2>4. AsleepForAReason'
    <3>1. \A x \in End : HasData(x)' => HasData(x)
      BY <2>1, SendUnitKeeps
    <3> QED
      BY <1>0, <2>1, <3>1 DEF AsleepForAReason
  <2>9. Drained'
    BY <1>0, <1>4 DEF ReaderSends, Types, Drained
  <2> QED
    BY <2>2, <2>3, <2>4, <2>9 DEF IInv
<1>5. CASE ReaderFlushed(e)
  <2>1. Types'
    BY <1>0, <1>5 DEF ReaderFlushed, Broadcast, Types
  <2>2. CreditConserved'
    BY <1>0, <1>5 DEF ReaderFlushed, CreditConserved, DataIn, OpenedBy
  <2>3. Locked'
    BY <1>0, <1>5 DEF ReaderFlushed, Broadcast, Types, Locked
  <2>4. AsleepForAReason'
    <3>1. wpc'[e] # "wait"
      BY <1>0, <1>5 DEF ReaderFlushed, Broadcast, Types
    <3>2. \A x \in End : HasData(x)' <=> HasData(x)
      BY <1>5 DEF ReaderFlushed, HasData
    <3>3. \A x \in End \ {e} : wpc'[x] = wpc[x] /\ holder'[x] = holder[x]
      BY <1>0, <1>5 DEF ReaderFlushed, Broadcast, Types
    <3> QED
      BY <1>0, <3>1, <3>2, <3>3 DEF AsleepForAReason
  <2>9. Drained'
    BY <1>0, <1>5 DEF ReaderFlushed, Types, Drained
  <2> QED
    BY <2>1, <2>2, <2>3, <2>4, <2>9 DEF IInv
<1> QED
  BY <1>1, <1>2, <1>3, <1>4, <1>5 DEF Reader

\* Every step.
LEMMA NextIInv == IInv /\ [Next]_vars => IInv'
<1> SUFFICES ASSUME IInv, [Next]_vars PROVE IInv'
  OBVIOUS
<1>1. CASE Break \/ UNCHANGED vars
  BY <1>1 DEF Break, vars, IInv, Types, CreditConserved, DataIn, OpenedBy, Locked, Drained,
              AsleepForAReason, HasData
<1>2. CASE \E e \in End : WriteStart(e) \/ Writer(e) \/ Reader(e)
  BY <1>2, WriterKeeps, ReaderKeeps
<1> QED
  BY <1>1, <1>2 DEF Next

----------------------------------------------------------------------------
(* The theorems.                                                           *)

\* The invariant holds in every reachable state.
LEMMA Invariant == Spec => []IInv
<1> QED
  BY InitIInv, NextIInv, PTL DEF Spec

\* The window goes round: whatever is written, received and announced in whichever
\* order (SendUnit, MemRecv, nghttp2_session_consume), no unit of it is lost or
\* made up.
THEOREM WindowGoesRound == Spec => []CreditConserved
<1>1. IInv => CreditConserved
  BY DEF IInv
<1> QED
  BY <1>1, Invariant, PTL

\* A writer that waits on session_progress while nobody is in session_mutex has
\* nothing that it could send: h2_read_from_net tells it of everything else.
THEOREM NoMissedWakeUp == Spec => []AsleepForAReason
<1>1. IInv => AsleepForAReason
  BY DEF IInv
<1> QED
  BY <1>1, Invariant, PTL

----------------------------------------------------------------------------
(* When nothing moves: what the failures, the announcements and the        *)
(* server's answers keep.                                                  *)

\* Whoever learns that the connection is gone tells the writer, and a writer sleeps
\* on something that is left to send.
Told ==
  \A e \in End :
    /\ rpc[e] = "ended" => failed[e]
    /\ failed[e] => broken /\ wpc[e] # "wait"
    /\ wpc[e] = "wait" /\ holder[e] = "free" => src[e] > 0

\* Less than half of the window is credited and not announced, no announcement is
\* for less than half of it, and nobody leaves session_mutex with one queued.
Halved ==
  /\ consumed > 0 => 2 * consumed < Window
  /\ update > 0 => 2 * update >= Window /\ (broken \/ holder["server"] # "free")
  /\ \A i \in DOMAIN sock["server"] :
       sock["server"][i].kind = "update" => 2 * sock["server"][i].n >= Window

\* The server has one answer under way.
Answer ==
  ~broken =>
    /\ src["server"] + DataIn(sock["server"]) + DataIn(buffer["client"]) <= Size["server"]
    /\ wpc["server"] = "idle" => src["server"] = 0
    /\ wpc["server"] = "lock" =>
         src["server"] = 0 /\ DataIn(sock["server"]) = 0 /\ DataIn(buffer["client"]) = 0

StuckInv == IInv /\ Told /\ Halved /\ Answer

\* A connection after its handshake.
LEMMA StuckInit == Init => StuckInv
<1> SUFFICES ASSUME Init PROVE StuckInv
  OBVIOUS
<1>1. Told /\ Halved
  BY DEF Init, Told, Halved, End
<1>2. Answer
  BY VolumeEmpty, H2Assumption DEF Init, Answer, DataIn, End
<1> QED
  BY <1>1, <1>2, InitIInv DEF StuckInv

\* Every step tells the writer what it has to know.
LEMMA ToldKeeps ==
  ASSUME IInv, Told, NEW e \in End, WriteStart(e) \/ Writer(e) \/ Reader(e)
  PROVE  Told'
<1>0. Types /\ Locked
  BY DEF IInv
<1>1. CASE WriteStart(e)
  BY <1>0, <1>1 DEF WriteStart, Told, Types
<1>2. CASE Submit(e)
  BY <1>0, <1>2 DEF Submit, Told, Types
<1>3. CASE WriterSends(e) \/ ReaderSends(e)
  <2>1. holder[e] # "free" /\ UNCHANGED <<holder, broken, failed, wpc, rpc>>
    BY <1>0, <1>3 DEF WriterSends, ReaderSends, Locked
  <2>2. \A x \in End \ {e} : src'[x] = src[x]
    BY <1>0, <1>3 DEF WriterSends, ReaderSends, SendUnit, Types
  <2> QED
    BY <2>1, <2>2 DEF Told
<1>4. CASE WriterFlushed(e)
  BY <1>0, <1>4 DEF WriterFlushed, WriteReturns, Told, Types
<1>5. CASE WriterWakes(e)
  BY <1>0, <1>5 DEF WriterWakes, WriteReturns, Told, Types
<1>6. CASE Recv(e)
  <2>1. UNCHANGED <<holder, broken, src, failed, wpc>> /\ rpc' = [rpc EXCEPT ![e] = "lock"]
    BY <1>6 DEF Recv
  <2> QED
    BY <1>0, <2>1 DEF Told, Types
<1>7. CASE RecvFails(e)
  BY <1>0, <1>7 DEF RecvFails, Broadcast, Told, Types
<1>8. CASE MemRecv(e)
  <2>1. /\ UNCHANGED <<broken, src, failed, wpc>> /\ holder' = [holder EXCEPT ![e] = "reader"]
        /\ rpc' = [rpc EXCEPT ![e] = "flush"]
    BY <1>8 DEF MemRecv
  <2> QED
    BY <1>0, <2>1 DEF Told, Types
<1>9. CASE ReaderFlushed(e)
  BY <1>0, <1>9 DEF ReaderFlushed, Broadcast, Told, Types
<1> QED
  BY <1>1, <1>2, <1>3, <1>4, <1>5, <1>6, <1>7, <1>8, <1>9 DEF Writer, Reader

\* Every step announces by halves.
LEMMA HalvedKeeps ==
  ASSUME IInv, Halved, NEW e \in End, WriteStart(e) \/ Writer(e) \/ Reader(e)
  PROVE  Halved'
<1>0. Types /\ Locked /\ Window \in Nat
  BY H2Assumption DEF IInv
<1>1. CASE WriteStart(e) \/ Submit(e) \/ WriterFlushed(e) \/ WriterWakes(e) \/ RecvFails(e) \/ ReaderFlushed(e)
  <2>1. UNCHANGED <<sock, broken, consumed, update>>
    BY <1>1 DEF WriteStart, Submit, WriterFlushed, WriterWakes, RecvFails, ReaderFlushed
  <2>2. ASSUME update > 0, ~broken, holder["server"] # "free"
        PROVE  holder'["server"] # "free"
    <3>1. CanSend("server")
      BY <2>2 DEF CanSend, HasUpdate
    <3>2. CASE e = "server"
      BY <1>0, <1>1, <2>2, <3>1, <3>2
         DEF WriteStart, Submit, WriterFlushed, WriterWakes, RecvFails, ReaderFlushed, Types, End
    <3>3. CASE e # "server"
      BY <1>0, <1>1, <2>2, <3>3
         DEF WriteStart, Submit, WriterFlushed, WriterWakes, WriteReturns, RecvFails, ReaderFlushed, Types, End
    <3> QED
      BY <3>2, <3>3
  <2> QED
    BY <1>0, <2>1, <2>2 DEF Halved, Types
<1>2. CASE WriterSends(e) \/ ReaderSends(e)
  <2>0. SendUnit(e) /\ UNCHANGED <<holder, broken, consumed>> /\ sock["server"] \in Seq(Unit)
    BY <1>0, <1>2 DEF WriterSends, ReaderSends, Types, End
  <2>1. CASE HasUpdate(e)
    <3>1. /\ e = "server" /\ update > 0 /\ update' = 0
          /\ sock' = [sock EXCEPT ![e] = Append(@, Update(update))]
      BY <2>0, <2>1 DEF HasUpdate, SendUnit
    <3>2. 2 * update >= Window
      BY <3>1 DEF Halved
    <3>3. sock'["server"] = Append(sock["server"], Update(update))
      BY <1>0, <3>1 DEF Types, End
    <3>4. ASSUME NEW i \in DOMAIN sock'["server"], sock'["server"][i].kind = "update"
          PROVE  2 * sock'["server"][i].n >= Window
      <4>1. \/ i \in DOMAIN sock["server"] /\ sock'["server"][i] = sock["server"][i]
            \/ sock'["server"][i] = Update(update)
        BY <2>0, <3>3
      <4>2. Update(update).n = update
        BY DEF Update
      <4> QED
        BY <3>2, <3>4, <4>1, <4>2 DEF Halved
    <3> QED
      BY <2>0, <3>1, <3>4 DEF Halved
  <2>2. CASE ~HasUpdate(e)
    <3>1. UNCHANGED update /\ sock' = [sock EXCEPT ![e] = Append(@, Data)]
      BY <2>0, <2>2 DEF SendUnit
    <3>2. ASSUME NEW i \in DOMAIN sock'["server"], sock'["server"][i].kind = "update"
          PROVE  2 * sock'["server"][i].n >= Window
      <4>1. sock'["server"] = sock["server"] \/ sock'["server"] = Append(sock["server"], Data)
        BY <1>0, <3>1 DEF Types, End
      <4>2. \/ i \in DOMAIN sock["server"] /\ sock'["server"][i] = sock["server"][i]
            \/ sock'["server"][i] = Data
        BY <2>0, <4>1
      <4>3. Data.kind = "data"
        BY DEF Data
      <4> QED
        BY <3>2, <4>2, <4>3 DEF Halved
    <3> QED
      BY <2>0, <3>1, <3>2 DEF Halved
  <2> QED
    BY <2>1, <2>2
<1>3. CASE Recv(e)
  <2>0. UNCHANGED <<holder, broken, consumed, update>>
    BY <1>3 DEF Recv
  <2>1. PICK n \in 1 .. Len(sock[Peer(e)]) :
          sock' = [sock EXCEPT ![Peer(e)] = SubSeq(sock[Peer(e)], n + 1, Len(sock[Peer(e)]))]
    BY <1>3 DEF Recv
  <2>2. CASE e = "client"
    <3>1. n \in 1 .. Len(sock["server"]) /\ sock["server"] \in Seq(Unit)
          /\ sock'["server"] = SubSeq(sock["server"], n + 1, Len(sock["server"]))
      BY <1>0, <2>1, <2>2 DEF Types, Peer, End
    <3>2. \A i \in DOMAIN sock'["server"] :
            i + n \in DOMAIN sock["server"] /\ sock'["server"][i] = sock["server"][i + n]
      BY <3>1
    <3> QED
      BY <2>0, <3>2 DEF Halved
  <2>3. CASE e = "server"
    <3>1. sock'["server"] = sock["server"]
      BY <1>0, <2>1, <2>3 DEF Types, Peer, End
    <3> QED
      BY <2>0, <3>1 DEF Halved
  <2> QED
    BY <2>2, <2>3 DEF End
<1>4. CASE MemRecv(e)
  <2>0. UNCHANGED <<sock, broken>> /\ holder' = [holder EXCEPT ![e] = "reader"]
    BY <1>4 DEF MemRecv
  <2>1. CASE e = "client"
    BY <1>0, <1>4, <2>0, <2>1 DEF MemRecv, Halved, Types, End
  <2>2. CASE e = "server"
    <3>1. PICK n \in Nat : n = DataIn(buffer["server"])
      BY Counts
    <3>2. Credit(n) /\ holder'["server"] = "reader"
      BY <1>0, <1>4, <2>0, <2>2, <3>1 DEF MemRecv, Types, End
    <3>3. consumed \in Nat /\ update \in Nat
      BY <1>0 DEF Types
    <3>4. consumed' > 0 => 2 * consumed' < Window
      BY <1>0, <3>2, <3>3 DEF Credit
    <3>5. update' > 0 => 2 * update' >= Window
      BY <1>0, <3>2, <3>3 DEF Credit, Halved
    <3> QED
      BY <2>0, <3>2, <3>4, <3>5 DEF Halved
  <2> QED
    BY <2>1, <2>2 DEF End
<1> QED
  BY <1>1, <1>2, <1>3, <1>4 DEF Writer, Reader

\* What is under way of an answer.
LEMMA AnswerCounts ==
  ASSUME IInv
  PROVE  /\ DataIn(sock["server"]) \in Nat /\ DataIn(buffer["client"]) \in Nat
         /\ src["server"] \in Nat /\ Size["server"] \in Nat
         /\ sock["server"] \in Seq(Unit) /\ buffer["client"] \in Seq(Unit)
<1>1. /\ sock["server"] \in Seq(Unit) /\ buffer["client"] \in Seq(Unit)
      /\ src["server"] \in Nat /\ Size["server"] \in Nat
  BY H2Assumption DEF IInv, Types, End
<1> QED
  BY <1>1, VolumeIsPlaces DEF DataIn

\* Every step keeps to one answer at a time.
LEMMA AnswerKeeps ==
  ASSUME IInv, Told, Answer, NEW e \in End, WriteStart(e) \/ Writer(e) \/ Reader(e)
  PROVE  Answer'
<1> SUFFICES ASSUME ~broken' PROVE Answer'
  BY DEF Answer
<1>0. Types /\ Locked /\ Drained
  BY DEF IInv
<1>a. ~broken
  BY DEF WriteStart, Writer, Submit, WriterSends, WriterFlushed, WriterWakes,
         Reader, Recv, RecvFails, MemRecv, ReaderSends, ReaderFlushed
<1>b. PICK b \in Nat : b = DataIn(buffer["client"])
  BY AnswerCounts
<1>c. PICK k \in Nat : k = DataIn(sock["server"])
  BY AnswerCounts
<1>d. /\ src["server"] + k + b <= Size["server"]
      /\ wpc["server"] = "idle" => src["server"] = 0
      /\ wpc["server"] = "lock" => src["server"] = 0 /\ k = 0 /\ b = 0
  BY <1>a, <1>b, <1>c DEF Answer
<1>e. src["server"] \in Nat /\ Size["server"] \in Nat /\ sock["server"] \in Seq(Unit)
      /\ ~failed["server"] /\ "server" \in End /\ "client" \in End
  BY <1>a, AnswerCounts DEF Told, End
<1>1. CASE WriteStart(e) \/ Submit(e) \/ WriterFlushed(e) \/ WriterWakes(e) \/ RecvFails(e) \/ ReaderFlushed(e)
  <2>0. UNCHANGED <<sock, buffer>>
    BY <1>1 DEF WriteStart, Submit, WriterFlushed, WriterWakes, RecvFails, ReaderFlushed
  <2>1. DataIn(sock["server"])' = k /\ DataIn(buffer["client"])' = b
    BY <1>b, <1>c, <2>0
  <2>2. CASE e # "server"
    <3>1. src'["server"] = src["server"] /\ wpc'["server"] = wpc["server"]
      BY <1>0, <1>1, <1>e, <2>2
         DEF WriteStart, Submit, WriterFlushed, WriteReturns, WriterWakes, RecvFails, ReaderFlushed, Broadcast, Types
    <3> QED
      BY <1>d, <2>1, <3>1 DEF Answer
  <2>3. CASE e = "server" /\ WriteStart(e)
    <3>1. wpc["server"] = "idle" /\ k = 0 /\ b = 0 /\ UNCHANGED src
      BY <1>b, <1>c, <2>3 DEF WriteStart, Peer
    <3> QED
      BY <1>d, <1>e, <2>1, <3>1 DEF Answer
  <2>4. CASE e = "server" /\ Submit(e)
    <3>1. wpc["server"] = "lock" /\ src' = [src EXCEPT !["server"] = Size["server"]]
          /\ wpc' = [wpc EXCEPT !["server"] = "flush"]
      <4>1. wpc["server"] = "lock" /\ ~(src["server"] > 0)
        BY <1>d, <1>e, <2>4 DEF Submit
      <4> QED
        BY <2>4, <4>1 DEF Submit
    <3>2. src'["server"] = Size["server"] /\ wpc'["server"] = "flush"
      BY <1>0, <1>e, <3>1 DEF Types
    <3> QED
      BY <1>b, <1>c, <1>d, <1>e, <2>1, <3>1, <3>2 DEF Answer
  <2>5. CASE e = "server" /\ WriterFlushed(e)
    <3>1. UNCHANGED src /\ wpc'["server"] # "lock" /\ (wpc'["server"] = "idle" => src["server"] = 0)
      BY <1>0, <1>a, <1>e, <2>5 DEF WriterFlushed, WriteReturns, Types
    <3> QED
      BY <1>d, <2>1, <3>1 DEF Answer
  <2>6. CASE e = "server" /\ WriterWakes(e)
    <3>1. UNCHANGED src /\ wpc'["server"] # "lock" /\ (wpc'["server"] = "idle" => src["server"] = 0)
      BY <1>0, <1>e, <2>6 DEF WriterWakes, WriteReturns, Types
    <3> QED
      BY <1>d, <2>1, <3>1 DEF Answer
  <2>7. CASE e = "server" /\ (RecvFails(e) \/ ReaderFlushed(e))
    <3>1. UNCHANGED src /\ wpc'["server"] \in {wpc["server"], "woken"}
      BY <1>0, <1>e, <2>7 DEF RecvFails, ReaderFlushed, Broadcast, Types
    <3> QED
      BY <1>d, <2>1, <3>1 DEF Answer
  <2> QED
    BY <1>1, <2>2, <2>3, <2>4, <2>5, <2>6, <2>7
<1>2. CASE WriterSends(e) \/ ReaderSends(e)
  <2>0. SendUnit(e) /\ CanSend(e) /\ UNCHANGED <<wpc, buffer>>
    BY <1>2 DEF WriterSends, ReaderSends
  <2>1. DataIn(buffer["client"])' = b
    BY <1>b, <2>0
  <2>2. CASE e = "client"
    <3>1. src'["server"] = src["server"] /\ sock'["server"] = sock["server"]
      BY <1>0, <1>e, <2>0, <2>2 DEF SendUnit, HasUpdate, Types
    <3>2. DataIn(sock'["server"]) = k
      BY <1>c, <3>1
    <3> QED
      BY <1>d, <2>0, <2>1, <3>1, <3>2 DEF Answer
  <2>3. CASE e = "server" /\ HasUpdate(e)
    <3>1. UNCHANGED src /\ sock'["server"] = Append(sock["server"], Update(update)) /\ update > 0
      BY <1>0, <1>e, <2>0, <2>3 DEF SendUnit, HasUpdate, Types
    <3>2. Update(update) \in Unit /\ Update(update).kind # "data"
      BY <3>1, Counts DEF Update, Unit
    <3>3. DataIn(sock'["server"]) = k + 0
      BY <1>c, <1>e, <3>1, <3>2, VolumeAppend DEF DataIn
    <3> QED
      BY <1>d, <2>0, <2>1, <3>1, <3>3 DEF Answer
  <2>4. CASE e = "server" /\ ~HasUpdate(e)
    <3>1. src["server"] > 0
      BY <2>0, <2>4 DEF CanSend, HasData
    <3>2. src'["server"] = src["server"] - 1 /\ sock'["server"] = Append(sock["server"], Data)
      BY <1>0, <1>e, <2>0, <2>4 DEF SendUnit, Types
    <3>3. Data \in Unit /\ Data.kind = "data" /\ Data.n = 1
      BY H2Assumption DEF Data, Unit
    <3>4. DataIn(sock'["server"]) = k + 1
      BY <1>c, <1>e, <3>2, <3>3, VolumeAppend DEF DataIn
    <3>5. wpc'["server"] \notin {"idle", "lock"}
      BY <1>d, <1>e, <2>0, <3>1
    <3>6. src'["server"] + DataIn(sock'["server"]) + b <= Size["server"]
      <4>1. k \in Nat /\ b \in Nat /\ (src["server"] - 1) + (k + 1) + b = src["server"] + k + b
        BY <1>e
      <4>2. src'["server"] + DataIn(sock'["server"]) + b = src["server"] + k + b
        BY <3>2, <3>4, <4>1
      <4> QED
        BY <1>d, <4>2
    <3> QED
      BY <2>1, <3>5, <3>6 DEF Answer
  <2> QED
    BY <2>2, <2>3, <2>4 DEF End
<1>3. CASE Recv(e)
  <2>0. UNCHANGED <<src, wpc>> /\ rpc[e] = "recv"
    BY <1>3 DEF Recv
  <2>1. PICK n \in 1 .. Len(sock[Peer(e)]) :
          /\ buffer' = [buffer EXCEPT ![e] = SubSeq(sock[Peer(e)], 1, n)]
          /\ sock' = [sock EXCEPT ![Peer(e)] = SubSeq(sock[Peer(e)], n + 1, Len(sock[Peer(e)]))]
    BY <1>3 DEF Recv
  <2>2. CASE e = "client"
    <3>1. /\ n \in 1 .. Len(sock["server"]) /\ buffer["client"] = <<>>
          /\ buffer'["client"] = SubSeq(sock["server"], 1, n)
          /\ sock'["server"] = SubSeq(sock["server"], n + 1, Len(sock["server"]))
      BY <1>0, <1>e, <2>0, <2>1, <2>2 DEF Types, Peer, Drained
    <3>2. b = 0
      BY <1>b, <3>1, VolumeEmpty DEF DataIn
    <3>3. k = DataIn(buffer'["client"]) + DataIn(sock'["server"])
          /\ buffer'["client"] \in Seq(Unit) /\ sock'["server"] \in Seq(Unit)
      BY <1>c, <1>e, <3>1, VolumeCut DEF DataIn
    <3>4. DataIn(buffer'["client"]) \in Nat /\ DataIn(sock'["server"]) \in Nat
      BY <3>3, VolumeIsPlaces DEF DataIn
    <3> QED
      <4>1. PICK x \in Nat : x = DataIn(buffer'["client"])
        BY <3>4
      <4>2. PICK y \in Nat : y = DataIn(sock'["server"])
        BY <3>4
      <4>3. k = x + y
        BY <3>3, <4>1, <4>2
      <4>4. src["server"] + y + x <= Size["server"] /\ (k = 0 => x = 0 /\ y = 0)
        BY <1>d, <1>e, <3>2, <4>1, <4>2, <4>3
      <4> QED
        BY <1>d, <2>0, <4>1, <4>2, <4>4 DEF Answer
  <2>3. CASE e = "server"
    <3>1. buffer'["client"] = buffer["client"] /\ sock'["server"] = sock["server"]
      BY <1>0, <1>e, <2>1, <2>3 DEF Types, Peer
    <3>2. DataIn(sock'["server"]) = k /\ DataIn(buffer'["client"]) = b
      BY <1>b, <1>c, <3>1
    <3> QED
      BY <1>d, <2>0, <3>2 DEF Answer
  <2> QED
    BY <2>2, <2>3 DEF End
<1>4. CASE MemRecv(e)
  <2>0. UNCHANGED <<src, wpc, sock>> /\ buffer' = [buffer EXCEPT ![e] = <<>>]
    BY <1>4 DEF MemRecv
  <2>1. DataIn(sock'["server"]) = k
    BY <1>c, <2>0
  <2>2. buffer'["client"] \in {buffer["client"], <<>>}
    BY <1>0, <1>e, <2>0 DEF Types
  <2>3. DataIn(buffer'["client"]) \in {b, 0}
    BY <1>b, <2>2, VolumeEmpty DEF DataIn
  <2> QED
    BY <1>d, <1>e, <2>0, <2>1, <2>3 DEF Answer
<1> QED
  BY <1>1, <1>2, <1>3, <1>4 DEF Writer, Reader

\* Every step.
LEMMA StuckNext == StuckInv /\ [Next]_vars => StuckInv'
<1> SUFFICES ASSUME StuckInv, [Next]_vars PROVE StuckInv'
  OBVIOUS
<1>0. IInv /\ Told /\ Halved /\ Answer /\ IInv'
  BY NextIInv DEF StuckInv
<1>1. CASE Break
  BY <1>0, <1>1 DEF Break, StuckInv, Told, Halved, Answer
<1>2. CASE UNCHANGED vars
  BY <1>0, <1>2 DEF vars, StuckInv, Told, Halved, Answer, DataIn
<1>3. CASE \E e \in End : WriteStart(e) \/ Writer(e) \/ Reader(e)
  BY <1>0, <1>3, ToldKeeps, HalvedKeeps, AnswerKeeps DEF StuckInv
<1> QED
  BY <1>1, <1>2, <1>3 DEF Next

\* The invariant of the stuck states holds in every reachable state.
LEMMA StuckInvariant == Spec => []StuckInv
<1> QED
  BY StuckInit, StuckNext, PTL DEF Spec

\* An end in which no thread can go on while the connection stands: nobody is in
\* session_mutex and nothing has arrived, or its thread sends into a full socket.
LEMMA StuckEnd ==
  ASSUME StuckInv, ~broken, NEW e \in End, ~WriterCanMove(e), ~ReaderCanMove(e)
  PROVE  \/ /\ holder[e] = "free" /\ wpc[e] \in {"idle", "wait"}
            /\ sock[Peer(e)] = <<>> /\ buffer[e] = <<>>
         \/ holder[e] # "free" /\ Len(sock[e]) >= SockBuf /\ CanSend(e)
<1>0. Types /\ Locked /\ Drained /\ Told
  BY DEF StuckInv, IInv
<1>1. CASE holder[e] = "free"
  <2>1. wpc[e] \in {"idle", "wait"} /\ rpc[e] \in {"recv", "ended"}
    BY <1>0, <1>1 DEF Types, Locked, WriterCanMove, ReaderCanMove
  <2>2. rpc[e] = "recv"
    BY <1>0, <2>1 DEF Told
  <2> QED
    BY <1>0, <1>1, <2>1, <2>2 DEF ReaderCanMove, Drained
<1>2. CASE holder[e] # "free"
  <2>1. wpc[e] = "flush" \/ rpc[e] = "flush"
    BY <1>0, <1>2 DEF Types, Locked
  <2>2. ~Flushes(e)
    BY <2>1 DEF WriterCanMove, ReaderCanMove
  <2>3. Len(sock[e]) \in Nat /\ SockBuf \in Nat
    BY <1>0, H2Assumption DEF Types
  <2> QED
    BY <1>2, <2>2, <2>3 DEF Flushes
<1> QED
  BY <1>1, <1>2

\* What the invariant says of a state in which nothing moves.
LEMMA StuckIsFull == StuckInv => StuckOnlyFull
<1> SUFFICES ASSUME StuckInv, \A e \in End : ~WriterCanMove(e) /\ ~ReaderCanMove(e), ~FullDuplex
             PROVE  \A e \in End : wpc[e] = "idle"
  BY DEF StuckOnlyFull
<1>0. Types /\ CreditConserved /\ Locked /\ AsleepForAReason /\ Told /\ Halved /\ IInv
  BY DEF StuckInv, IInv
<1>1. CASE broken
  <2> SUFFICES ASSUME NEW e \in End PROVE wpc[e] = "idle"
    OBVIOUS
  <2>1. Flushes(e)
    BY <1>1 DEF Flushes
  <2>2. wpc[e] # "flush" /\ rpc[e] # "flush"
    BY <2>1 DEF WriterCanMove, ReaderCanMove
  <2>3. holder[e] = "free"
    BY <1>0, <2>2 DEF Types, Locked
  <2>4. rpc[e] = "ended" /\ wpc[e] \notin {"lock", "woken"}
    BY <1>0, <1>1, <2>2, <2>3 DEF Types, WriterCanMove, ReaderCanMove
  <2>5. wpc[e] # "wait"
    BY <1>0, <2>4 DEF Told
  <2> QED
    BY <1>0, <2>2, <2>4, <2>5 DEF Types
<1>2. CASE ~broken
  <2>0. "client" \in End /\ "server" \in End /\ Peer("client") = "server" /\ Peer("server") = "client"
    BY DEF End, Peer
  <2>1. \A e \in End : sock[e] \in Seq(Unit) /\ Peer(e) \in End
    BY <1>0 DEF Types, Peer, End
  <2>2. \A e \in End : Len(sock[e]) >= SockBuf => sock[e] # <<>>
    BY <2>1, H2Assumption
  <2>3. \A e \in End : holder[e] = "free"
    <3>1. ASSUME NEW e \in End, holder[e] # "free", holder[Peer(e)] = "free"
          PROVE  FALSE
      <4>1. Len(sock[e]) >= SockBuf
        BY <1>2, <3>1, StuckEnd
      <4>2. sock[Peer(Peer(e))] = <<>>
        BY <1>2, <2>1, <3>1, StuckEnd
      <4>3. Peer(Peer(e)) = e
        BY DEF Peer, End
      <4> QED
        BY <2>2, <4>1, <4>2, <4>3
    <3>2. ASSUME \A e \in End : holder[e] # "free"
          PROVE  FALSE
      <4>1. \A e \in End : Len(sock[e]) >= SockBuf /\ CanSend(e)
        BY <1>2, <3>2, StuckEnd
      <4> QED
        BY <1>2, <3>2, <4>1 DEF FullDuplex
    <3> QED
      BY <2>0, <3>1, <3>2 DEF End
  <2>4. \A e \in End : wpc[e] \in {"idle", "wait"} /\ sock[Peer(e)] = <<>> /\ buffer[e] = <<>>
    BY <1>2, <2>3, StuckEnd
  <2>5. sock["client"] = <<>> /\ sock["server"] = <<>> /\ buffer["client"] = <<>> /\ buffer["server"] = <<>>
    BY <2>0, <2>4
  <2>6. update = 0
    BY <1>0, <1>2, <2>0, <2>3 DEF Halved, Types
  <2>7. credit + consumed = Window
    <3>1. /\ DataIn(sock["client"]) = 0 /\ DataIn(buffer["server"]) = 0
          /\ OpenedBy(sock["server"]) = 0 /\ OpenedBy(buffer["client"]) = 0
      BY <2>5, VolumeEmpty DEF DataIn, OpenedBy
    <3> QED
      BY <1>0, <2>6, <3>1 DEF CreditConserved, Types
  <2>8. credit > 0
    BY <1>0, <2>7, H2Assumption DEF Halved, Types
  <2>9. ASSUME NEW e \in End, wpc[e] = "wait"
        PROVE  FALSE
    BY <1>0, <2>3, <2>8, <2>9 DEF Told, AsleepForAReason, HasData
  <2> QED
    BY <2>4, <2>9
<1> QED
  BY <1>1, <1>2

\* As long as a write is under way (rpc_http2_writev has not returned) some thread of
\* the two ends can go on, or the connection is gone and everyone is told; the one
\* exception is the deadlock of two blocking sends under session_mutex.
THEOREM StopsOnlyFull == Spec => []StuckOnlyFull
<1> QED
  BY StuckInvariant, StuckIsFull, PTL

----------------------------------------------------------------------------
(* When the answer fits: how many frames can be in the server's socket.    *)

\* The first n numbers are n, and one copy of a set has its size.
LEMMA OneToN ==
  ASSUME NEW n \in Nat
  PROVE  IsFiniteSet(1 .. n) /\ Cardinality(1 .. n) = n
<1>1. IsFiniteSet(1 .. n) /\ Cardinality(1 .. n) = IF 1 > n THEN 0 ELSE n - 1 + 1
  BY FS_Interval
<1> QED
  BY <1>1

LEMMA OneCopy ==
  ASSUME NEW S, IsFiniteSet(S), NEW x
  PROVE  Cardinality(S \X {x}) = Cardinality(S)
<1>1. IsFiniteSet({x}) /\ Cardinality({x}) = 1 /\ Cardinality(S) \in Nat
  BY FS_Singleton, FS_CardinalityType
<1>2. Cardinality(S \X {x}) = Cardinality(S) * Cardinality({x})
  BY <1>1, FS_Product
<1> QED
  BY <1>1, <1>2

\* The frames of a sequence, its announcements being of half a window at least: one
\* for each unit of DATA, and one more at most when they open less than a window.
LEMMA Frames ==
  ASSUME NEW s \in Seq(Unit),
         \A i \in DOMAIN s : s[i].kind = "update" => 2 * s[i].n >= Window
  PROVE  /\ Volume(s, "update") < Window => Len(s) <= Volume(s, "data") + 1
         /\ 2 * Volume(s, "update") < Window => Len(s) <= Volume(s, "data")
<1> DEFINE D == {i \in DOMAIN s : s[i].kind = "data"}
           U == {i \in DOMAIN s : s[i].kind = "update"}
           At(i) == {i} \X (1 .. s[i].n)
<1>1. \A i \in DOMAIN s : s[i] \in Unit /\ s[i].kind \in {"data", "update"} /\ s[i].n \in 1 .. Window
  <2> SUFFICES ASSUME NEW i \in DOMAIN s
               PROVE  s[i] \in Unit /\ s[i].kind \in {"data", "update"} /\ s[i].n \in 1 .. Window
    OBVIOUS
  <2>1. s[i] \in Unit
    OBVIOUS
  <2> QED
    BY <2>1 DEF Unit
<1>2. Window \in Nat /\ Volume(s, "data") \in Nat /\ Volume(s, "update") \in Nat /\ Len(s) \in Nat
  BY H2Assumption, VolumeIsPlaces
<1>3. IsFiniteSet(D) /\ IsFiniteSet(U) /\ Len(s) = Cardinality(D) + Cardinality(U)
      /\ Cardinality(D) \in Nat /\ Cardinality(U) \in Nat
  <2>1. DOMAIN s = 1 .. Len(s) /\ IsFiniteSet(DOMAIN s) /\ Cardinality(DOMAIN s) = Len(s)
    <3>1. DOMAIN s = 1 .. Len(s)
      OBVIOUS
    <3>2. IsFiniteSet(1 .. Len(s)) /\ Cardinality(1 .. Len(s)) = Len(s)
      BY <1>2, OneToN
    <3> QED
      BY <3>1, <3>2
  <2>2. IsFiniteSet(D) /\ IsFiniteSet(U)
    BY <2>1, FS_Subset
  <2>3. DOMAIN s = D \cup U /\ D \cap U = {}
    BY <1>1
  <2> HIDE DEF D, U
  <2>4. Cardinality(D \cup U) = Cardinality(D) + Cardinality(U) - Cardinality({})
    BY <2>2, <2>3, FS_Union
  <2>5. Cardinality(D) \in Nat /\ Cardinality(U) \in Nat
    BY <2>2, FS_CardinalityType
  <2> QED
    BY <2>1, <2>2, <2>3, <2>4, <2>5, FS_EmptySet
<1>4. Cardinality(D) <= Volume(s, "data")
  <2>1. D \X {1} \subseteq Places(s, "data")
    BY <1>1, <1>2 DEF Places
  <2> HIDE DEF D
  <2>2. Cardinality(D \X {1}) = Cardinality(D)
    BY <1>3, OneCopy
  <2>3. Cardinality(D \X {1}) <= Cardinality(Places(s, "data"))
    BY <2>1, VolumeIsPlaces, FS_Subset
  <2> QED
    BY <1>3, <2>2, <2>3, VolumeIsPlaces
<1>5. \A i \in U : /\ IsFiniteSet(At(i)) /\ Cardinality(At(i)) = s[i].n
                   /\ At(i) \subseteq Places(s, "update")
                   /\ s[i].n \in Nat /\ 2 * s[i].n >= Window
  <2> SUFFICES ASSUME NEW i \in U
               PROVE  /\ IsFiniteSet(At(i)) /\ Cardinality(At(i)) = s[i].n
                      /\ At(i) \subseteq Places(s, "update")
                      /\ s[i].n \in Nat /\ 2 * s[i].n >= Window
    OBVIOUS
  <2>1. i \in DOMAIN s /\ s[i].kind = "update" /\ s[i].n \in 1 .. Window /\ 2 * s[i].n >= Window
        /\ s[i].n \in Nat
    BY <1>1, <1>2
  <2>2. At(i) \subseteq Places(s, "update")
    BY <1>2, <2>1 DEF Places
  <2>3. IsFiniteSet(1 .. s[i].n) /\ Cardinality(1 .. s[i].n) = s[i].n
    BY <2>1, OneToN
  <2>4. IsFiniteSet({i}) /\ Cardinality({i}) = 1
    BY FS_Singleton
  <2>5. IsFiniteSet(At(i)) /\ Cardinality(At(i)) = 1 * s[i].n
    BY <2>3, <2>4, FS_Product
  <2> QED
    BY <2>1, <2>2, <2>5
<1>6. ASSUME 2 * Volume(s, "update") < Window
      PROVE  U = {}
  <2> SUFFICES ASSUME NEW i \in U PROVE FALSE
    OBVIOUS
  <2> HIDE DEF U, At
  <2>1. Cardinality(At(i)) <= Cardinality(Places(s, "update"))
    BY <1>5, VolumeIsPlaces, FS_Subset
  <2>2. s[i].n <= Volume(s, "update") /\ s[i].n \in Nat /\ 2 * s[i].n >= Window
    BY <1>5, <2>1, VolumeIsPlaces
  <2>3. PICK n \in Nat : n = s[i].n
    BY <2>2
  <2>4. PICK v \in Nat : v = Volume(s, "update")
    BY <1>2
  <2>5. n <= v /\ 2 * n >= Window /\ 2 * v < Window
    BY <1>6, <2>2, <2>3, <2>4
  <2> QED
    BY <1>2, <2>3, <2>4, <2>5
<1>7. ASSUME Volume(s, "update") < Window
      PROVE  Cardinality(U) <= 1
  <2>1. ASSUME NEW i \in U, NEW j \in U, i # j
        PROVE  FALSE
    <3>1. At(i) \cap At(j) = {}
      BY <2>1
    <3> HIDE DEF U, At
    <3>2. Cardinality(At(i) \cup At(j)) = Cardinality(At(i)) + Cardinality(At(j)) - Cardinality({})
      BY <1>5, <3>1, FS_Union
    <3>3. Cardinality(At(i) \cup At(j)) <= Cardinality(Places(s, "update"))
      BY <1>5, VolumeIsPlaces, FS_Subset
    <3>4. Cardinality(At(i) \cup At(j)) = s[i].n + s[j].n
      BY <1>5, <3>2, FS_EmptySet
    <3>5. s[i].n + s[j].n <= Volume(s, "update")
      BY <3>3, <3>4, VolumeIsPlaces
    <3>6. s[i].n \in Nat /\ s[j].n \in Nat /\ 2 * s[i].n >= Window /\ 2 * s[j].n >= Window
      BY <1>5
    <3>7. PICK n \in Nat : n = s[i].n
      BY <3>6
    <3>8. PICK m \in Nat : m = s[j].n
      BY <3>6
    <3>9. PICK v \in Nat : v = Volume(s, "update")
      BY <1>2
    <3>10. n + m <= v /\ 2 * n >= Window /\ 2 * m >= Window /\ v < Window
      BY <1>7, <3>5, <3>6, <3>7, <3>8, <3>9
    <3>11. Window \in Nat
      BY <1>2
    <3> QED
      BY <3>10, <3>11
  <2>2. U = {} \/ \E i \in U : U = {i}
    BY <2>1
  <2> HIDE DEF U
  <2>3. CASE U = {}
    <3>1. Cardinality(U) = 0
      BY <2>3, FS_EmptySet
    <3> QED
      BY <3>1
  <2>4. CASE \E i \in U : U = {i}
    <3>1. Cardinality(U) = 1
      BY <2>4, FS_Singleton
    <3> QED
      BY <3>1
  <2> QED
    BY <2>2, <2>3, <2>4
<1> HIDE DEF D, U
<1>8. ASSUME Volume(s, "update") < Window
      PROVE  Len(s) <= Volume(s, "data") + 1
  BY <1>2, <1>3, <1>4, <1>7, <1>8
<1>9. ASSUME 2 * Volume(s, "update") < Window
      PROVE  Len(s) <= Volume(s, "data")
  BY <1>2, <1>3, <1>4, <1>6, <1>9, FS_EmptySet
<1> QED
  BY <1>8, <1>9

\* The client, with window left, has not been sent a whole window of announcements:
\* a socket full of the server's frames holds more than its one answer.
LEMMA SmallPass == StuckInv => SmallAnswersPass
<1> SUFFICES ASSUME StuckInv, Size["server"] < SockBuf, FullDuplex
             PROVE  FALSE
  BY DEF SmallAnswersPass
<1>0. IInv /\ Halved /\ Answer /\ "client" \in End /\ "server" \in End
  BY DEF StuckInv, End
<1>1. ~broken /\ Len(sock["server"]) >= SockBuf /\ CanSend("server") /\ CanSend("client")
  BY <1>0 DEF FullDuplex
<1>2. PICK o \in Nat : o = Volume(sock["server"], "update")
  BY <1>0, Counts DEF OpenedBy
<1>3. PICK d \in Nat : d = Volume(sock["server"], "data")
  BY <1>0, AnswerCounts DEF DataIn
<1>4. /\ Size["server"] \in Nat /\ src["server"] \in Nat /\ sock["server"] \in Seq(Unit)
      /\ Len(sock["server"]) \in Nat /\ SockBuf \in Nat /\ Window \in Nat
      /\ credit \in Nat /\ update \in Nat
  BY <1>0, AnswerCounts, Counts, H2Assumption
<1>5. credit > 0
  BY <1>1 DEF CanSend, HasUpdate, HasData
<1>6. o + update < Window
  <2>1. credit + DataIn(sock["client"]) + DataIn(buffer["server"]) + consumed
          + update + o + OpenedBy(buffer["client"]) = Window
    BY <1>0, <1>2 DEF IInv, CreditConserved, OpenedBy
  <2>2. PICK x \in Nat : x = DataIn(sock["client"])
    BY <1>0, Counts
  <2>3. PICK y \in Nat : y = DataIn(buffer["server"])
    BY <1>0, Counts
  <2>4. PICK z \in Nat : z = OpenedBy(buffer["client"])
    BY <1>0, Counts
  <2>5. credit + x + y + consumed + update + o + z = Window /\ consumed \in Nat
    BY <1>0, <2>1, <2>2, <2>3, <2>4, Counts
  <2> QED
    BY <1>4, <1>5, <2>5
<1>7. src["server"] + d <= Size["server"]
  <2>1. src["server"] + d + DataIn(buffer["client"]) <= Size["server"]
    BY <1>0, <1>1, <1>3 DEF Answer, DataIn
  <2>2. PICK z \in Nat : z = DataIn(buffer["client"])
    BY <1>0, AnswerCounts
  <2> QED
    BY <1>3, <1>4, <2>1, <2>2
<1>8. \A i \in DOMAIN sock["server"] : sock["server"][i].kind = "update" => 2 * sock["server"][i].n >= Window
  BY <1>0 DEF Halved
<1>9. (o < Window => Len(sock["server"]) <= d + 1) /\ (2 * o < Window => Len(sock["server"]) <= d)
  BY <1>2, <1>3, <1>4, <1>8, Frames
<1>10. CASE update > 0
  <2>1. 2 * update >= Window
    BY <1>0, <1>10 DEF Halved
  <2>2. 2 * o < Window
    BY <1>4, <1>6, <2>1
  <2> QED
    BY <1>1, <1>4, <1>7, <1>9, <2>2
<1>11. CASE ~(update > 0)
  <2>1. src["server"] > 0
    BY <1>1, <1>11 DEF CanSend, HasUpdate, HasData
  <2>2. o < Window
    BY <1>4, <1>6
  <2> QED
    BY <1>1, <1>4, <1>7, <1>9, <2>1, <2>2
<1> QED
  BY <1>10, <1>11

\* With answers that the kernels can buffer, a blocking send under session_mutex is
\* never met by one of the other end: together with StopsOnlyFull, some thread can
\* always go on while a write is under way.
THEOREM NoDuplexDeadlock == Spec => []SmallAnswersPass
<1> QED
  BY StuckInvariant, SmallPass, PTL
=============================================================================
